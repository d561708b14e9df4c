---------------------------- MODULE MCAlgorithms ----------------------------
(***************************************************************************)
(* Algorithms and reads on their own, over every bounded input.  A         *)
(* behaviour does one of these: it retries an activity under one policy    *)
(* until its attempts are exhausted, builds up the leases of one claim,    *)
(* drafts a definition step by step, or reads a listing or a history in    *)
(* pages while others commit.                                              *)
(***************************************************************************)
EXTENDS DefinitionFlow, LeaseOrder, Paging, TLC

CONSTANTS
    MaxAttempts,    \* bound: the largest RetryPolicy.MaxAttempts
    Tenants,        \* tenants, among them the empty tenant of untagged work
    MaxLeases,      \* bound: leases in one claim
    MaxSteps,       \* bound: steps in a draft
    a, b, sig, kid, fork, meet, meetA, race, meetSig, raceA, nap

(* The steps a draft may be made of: leaves, a fork, a race, their joins,  *)
(* and control steps that no definition can have.                          *)
MCKind ==
    a :> "activity" @@ b :> "activity" @@ sig :> "signal" @@ kid :> "child" @@
    nap :> "timer" @@ fork :> "parallel" @@ meet :> "join" @@ meetA :> "join" @@
    race :> "race" @@ meetSig :> "join" @@ raceA :> "race"

MCBranches ==
    fork :> <<a, b>> @@ meet :> <<b, a>> @@ meetA :> <<a>> @@
    race :> <<sig>> @@ meetSig :> <<sig>> @@ raceA :> <<a>>

MCUndoes == [s \in {} |-> a]

MCPolicy == [maxAttempts |-> 1, initialDelay |-> 1, maxDelay |-> 1]

MCByteOrder == <<"B", "a", "c">>

(* A collation that does not look at case first.                           *)
MCCaseless == <<"a", "B", "c">>

VARIABLES mode, policies, attempt, leases, draft

algorithmVars == <<policies, attempt, leases, draft>>

vars == <<mode, algorithmVars, pagingVars>>

MCPolicies ==
    {p \in [maxAttempts : {MaxAttempts},
            initialDelay : 1 .. MaxDuration,
            maxDelay : 1 .. MaxDuration] : validRetry(p)}

ASSUME MCPow2 == \A n \in 0 .. 2 * DurationBits : Pow2[n] = 2 ^ n

(* What validateDefinition accepts, the planner can work with.             *)
ASSUME MCAcceptedPlannable ==
    \A n \in 1 .. MaxSteps : \A d \in [1 .. n -> DOMAIN Kind] :
        validateDefinition(d) => Plannable(d)

Init ==
    /\ attempt = 1
    /\ leases = <<>>
    /\ draft = <<>>
    /\ \/ /\ mode = "retry"
          /\ \E policy \in MCPolicies : policies = {policy}
          /\ PagingIdle
       \/ mode \in {"claim", "draft"} /\ policies = {} /\ PagingIdle
       \/ mode = "paging" /\ policies = {} /\ PagingInit

(* Attempt was started and failed; NewActivityRetry schedules the next.    *)
RetryAgain ==
    /\ mode = "retry"
    /\ \E policy \in policies : attempt < policy.maxAttempts
    /\ attempt' = attempt + 1
    /\ UNCHANGED <<mode, policies, leases, draft, pagingVars>>

(* The store's answer holds one more lease.                                *)
Another ==
    /\ mode = "claim"
    /\ Len(leases) < MaxLeases
    /\ \E tenant \in Tenants :
          leases' = Append(leases, [tenant |-> tenant, id |-> Len(leases) + 1])
    /\ UNCHANGED <<mode, policies, attempt, draft, pagingVars>>

(* A definition's author appends a step.                                   *)
Draft ==
    /\ mode = "draft"
    /\ Len(draft) < MaxSteps
    /\ \E s \in DOMAIN Kind : draft' = Append(draft, s)
    /\ UNCHANGED <<mode, policies, attempt, leases, pagingVars>>

Page == PagingNext /\ UNCHANGED <<mode, algorithmVars>>

Next == RetryAgain \/ Another \/ Draft \/ Page

Spec == Init /\ [][Next]_vars

(* The delay after every attempt is InitialDelay doubled once per earlier  *)
(* attempt and capped by MaxDelay, computed without a machine word: no     *)
(* policy and no attempt number makes the doubling of retryDelay wrap.     *)
DelayIsCappedExponential ==
    \A policy \in policies : CappedExponential(policy, attempt)

(* fairLeaseOrder loses no lease and starts none twice, keeps the order of *)
(* each tenant's own leases, and never has two leases more of one tenant   *)
(* started than of another that still waits: of any prefix of the result,  *)
(* a tenant with leases left has at most one lease less in it than any     *)
(* other tenant.                                                           *)
TenantsTakeTurns ==
    LET result == fairLeaseOrder(leases)
        started(n, tenant) ==
            Cardinality({m \in 1 .. n : result[m].tenant = tenant})
    IN  /\ Len(result) = Len(leases)
        /\ {result[n] : n \in DOMAIN result} = {leases[n] : n \in DOMAIN leases}
        /\ \A n, m \in 1 .. Len(result) :
              (n < m /\ result[n].tenant = result[m].tenant)
                  => result[n].id < result[m].id
        /\ \A n \in 1 .. Len(result), t, u \in Tenants :
              started(n, t) < Len(Group(leases, t))
                  => started(n, u) <= started(n, t) + 1

(* A definition that validateDefinition accepts can be carried out: with   *)
(* everything going well NewOrchestrationDecision never waits for good nor *)
(* rejects its own instance.  The two read the branches of a definition    *)
(* each in its own way, and nothing but their agreement makes this so.     *)
AcceptedCanComplete ==
    validateDefinition(draft) =>
        CarriedOut(draft).valid /\ CarriedOut(draft).status = "completed"
=============================================================================
