------------------------------ MODULE WorkRows ------------------------------
(***************************************************************************)
(* Rows of the workflow_work table and the statements that change them.    *)
(* Every operator is one SQL statement of postgres/store.go applied to one *)
(* row; the validation of the request that carries it (work.go) is part of *)
(* the operator that needs it.                                             *)
(*                                                                         *)
(* Time is a natural number.  Zero is Go's zero time and SQL's NULL: no    *)
(* valid request carries it.                                               *)
(***************************************************************************)
EXTENDS Integers

CONSTANTS
    Owners,     \* worker identities (lease_owner)
    NoOwner     \* lease_owner IS NULL

ASSUME NoOwnerAssumption == NoOwner \notin Owners

NoTime == 0

(* The CHECK (state BETWEEN 1 AND 4) column, plus "absent" for a row that  *)
(* no committed transition has inserted yet.                               *)
RowStates == {"absent", "ready", "leased", "completed", "dead"}

Row == [state: RowStates, available: Nat, deadline: Nat, attempts: Nat,
        owner: Owners \cup {NoOwner}, token: Nat, expires: Nat]

Earlier(s, t) == IF s <= t THEN s ELSE t

AbsentRow ==
    [state |-> "absent", available |-> NoTime, deadline |-> NoTime,
     attempts |-> 0, owner |-> NoOwner, token |-> 0, expires |-> NoTime]

(* PendingWork.valid: the deadline follows a nonzero admission time.       *)
PendingWorkValid(available, deadline) ==
    available # NoTime /\ deadline > available

(* insertWork: column defaults give state 1, no claim and token 0.         *)
InsertedRow(available, deadline) ==
    [AbsentRow EXCEPT !.state = "ready", !.available = available,
                      !.deadline = deadline]

(* Mutant of Due: expired leases are not taken over.                       *)
DueReadyOnly(r, t) == r.state = "ready" /\ r.available <= t /\ r.deadline > t

(* Mutant of Due: a lease may be taken over before it has expired.         *)
DueAnyLease(r, t) ==
    /\ \/ r.state = "ready" /\ r.available <= t
       \/ r.state = "leased"
    /\ r.deadline > t

(* The WHERE clause of claimWork at the request's own time t.              *)
Due(r, t) ==
    /\ \/ r.state = "ready" /\ r.available <= t
       \/ r.state = "leased" /\ r.expires <= t
    /\ r.deadline > t

(* Mutant of ClaimedRow: the claim keeps the old fence.                    *)
ClaimedRowSameToken(r, owner, t, duration) ==
    [r EXCEPT !.state = "leased", !.attempts = @ + 1, !.owner = owner,
              !.expires = Earlier(t + duration, r.deadline)]

(* Mutant of ClaimedRow: the lease ends before it began.                   *)
ClaimedRowBackwards(r, owner, t, duration) ==
    [ClaimedRowSameToken(r, owner, t, duration) EXCEPT
        !.token = @ + 1, !.expires = t - duration]

(* claimWork: one more durable claim attempt, a fresh fence, and a lease   *)
(* that never outlives the work's deadline.                                *)
ClaimedRow(r, owner, t, duration) ==
    [r EXCEPT !.state = "leased", !.attempts = @ + 1, !.owner = owner,
              !.token = @ + 1, !.expires = Earlier(t + duration, r.deadline)]

(* Mutant of LiveFence: the owner alone is compared.                       *)
LiveFenceOwnerOnly(r, owner, token, t) ==
    r.state = "leased" /\ r.owner = owner /\ r.expires > t

(* The fence every renewal and disposition is compared with.               *)
LiveFence(r, owner, token, t) ==
    /\ r.state = "leased"
    /\ r.owner = owner
    /\ r.token = token
    /\ r.expires > t

(* renewWork additionally needs an unreached deadline.                     *)
Renewable(r, owner, token, t) == LiveFence(r, owner, token, t) /\ r.deadline > t

(* renewWork: not a maximum with the old expiry, so it may shorten a lease *)
RenewedRow(r, t, duration) ==
    [r EXCEPT !.expires = Earlier(t + duration, r.deadline)]

Released(r) == [r EXCEPT !.owner = NoOwner, !.expires = NoTime]

CompletedRow(r) == [Released(r) EXCEPT !.state = "completed"]

(* retryWork takes retry_at as it comes: nothing compares it with the      *)
(* row's deadline.                                                         *)
RetriedRow(r, retryAt) ==
    [Released(r) EXCEPT !.state = "ready", !.available = retryAt]

DeadLetteredRow(r) == [Released(r) EXCEPT !.state = "dead"]

(* Mutant of ReadmittedRow: the row starts over as if never claimed.       *)
ReadmittedRowFresh(r, retryAt, deadline) == InsertedRow(retryAt, deadline)

(* retryDeadLetter: back to admission with a new window; the token stays,  *)
(* so the next claim gets a fence above every earlier one.                 *)
ReadmittedRow(r, retryAt, deadline) ==
    [Released(r) EXCEPT !.state = "ready", !.available = retryAt,
                        !.deadline = deadline]
=============================================================================
