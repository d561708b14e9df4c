----------------------------- MODULE WorkLease -----------------------------
(***************************************************************************)
(* Leased work: how worker handlers claim, renew and dispose of durable    *)
(* work through the fenced statements of the PostgreSQL store.             *)
(*                                                                         *)
(* A handler (one Worker.Handle call, or the part of Worker.Run that       *)
(* claims for it) reads the clock, builds a request that carries that      *)
(* time, and sends it; the database evaluates the request later, at that   *)
(* carried time.  Between the two anything may happen: the clock moves,    *)
(* other handlers act, the handler dies, the answer is lost, the request   *)
(* arrives after its sender is gone (orphans).                             *)
(*                                                                         *)
(* Several handlers may share one owner identity: a worker runs many       *)
(* handlers and may re-claim work its own earlier handler lost, so only    *)
(* the token tells the two apart.                                          *)
(***************************************************************************)
EXTENDS WorkRows, FiniteSets

CONSTANTS
    Work,           \* work identities
    Handlers,       \* concurrent Worker.Handle calls
    OwnerOf,        \* the configured owner of each handler's worker
    LeaseDuration,  \* WorkerConfig.LeaseDuration
    RenewEvery,     \* WorkerConfig.RenewEvery
    Deadlines,      \* deadlines a caller may give to work
    Commands,       \* identities of operator dead-letter commands
    NoCommand,      \* no resolution recorded under an identity
    MaxTime,        \* bound: the last instant of the clock
    MaxFaults,      \* bound: handlers that die or lose an answer
    MaxOverlaps     \* bound: claims that overlap another statement

ASSUME LeaseAssumption ==
    /\ Work # {}
    /\ OwnerOf \in [Handlers -> Owners]
    /\ LeaseDuration \in Nat \ {0}
    /\ RenewEvery \in Nat \ {0}
    /\ RenewEvery < LeaseDuration
    /\ Deadlines \subseteq Nat
    /\ MaxTime \in Nat
    /\ MaxFaults \in Nat
    /\ MaxOverlaps \in Nat

VARIABLES
    now,            \* the Clock every worker reads
    work,           \* workflow_work
    resolutions,    \* workflow_work_resolutions, by command identity
    handler,        \* what each handler holds and waits for
    orphans,        \* requests whose sender is gone and may still arrive
    faults,         \* faults so far
    overlaps        \* history: the fences <<work, token>> given by claims
                    \* that took a version of the row that was not due

vars == <<now, work, resolutions, handler, orphans, faults, overlaps>>

Dispositions == {"complete", "retry", "dead"}
Fenced == Dispositions \cup {"renew"}
Phases == {"idle", "claim", "scan", "busy"} \cup Fenced

(* A handler without a request is "idle" or "busy"; in the other phases it *)
(* waits for the answer to the request it sampled at time .at.  .expires   *)
(* is the expiry of the lease value it holds, which is not the row's when  *)
(* an answer was lost.                                                     *)
HandlerState ==
    [phase: Phases, work: Work, token: Nat, expires: Nat, at: Nat, retryAt: Nat]

Orphan ==
    [phase: Fenced \cup {"claim", "scan"}, owner: Owners, work: Work, token: Nat,
     at: Nat, retryAt: Nat]

Resolution ==
    [work: Work, token: Nat, action: {"retry", "discard"}, retryAt: Nat,
     deadline: Nat]

TypeOK ==
    /\ now \in Nat
    /\ work \in [Work -> Row]
    /\ resolutions \in [Commands -> Resolution \cup {NoCommand}]
    /\ handler \in [Handlers -> HandlerState]
    /\ orphans \subseteq Orphan
    /\ faults \in Nat
    /\ overlaps \subseteq Work \X Nat

Idle == [phase |-> "idle", work |-> CHOOSE k \in Work : TRUE, token |-> 0,
         expires |-> NoTime, at |-> NoTime, retryAt |-> NoTime]

Holding(h) == handler[h].phase \in Fenced \cup {"busy"}

Init ==
    /\ now = 1
    /\ work = [k \in Work |-> AbsentRow]
    /\ resolutions = [c \in Commands |-> NoCommand]
    /\ handler = [h \in Handlers |-> Idle]
    /\ orphans = {}
    /\ faults = 0
    /\ overlaps = {}

-----------------------------------------------------------------------------
(* The environment: the clock, and transitions that insert work.           *)

Tick ==
    /\ now < MaxTime
    /\ now' = now + 1
    /\ UNCHANGED <<work, resolutions, handler, orphans, faults, overlaps>>

Insert(k) ==
    /\ work[k].state = "absent"
    /\ \E available \in now..MaxTime, deadline \in Deadlines :
          /\ PendingWorkValid(available, deadline)
          /\ work' = [work EXCEPT ![k] = InsertedRow(available, deadline)]
    /\ UNCHANGED <<now, resolutions, handler, orphans, faults, overlaps>>

-----------------------------------------------------------------------------
(* Admission.  Worker.Run reads the clock into a claim request; claimWork  *)
(* evaluates it in two parts.  The due and candidates queries find rows in *)
(* the statement's snapshot; then the newest version of a row found is     *)
(* locked and updated.  Should that version be younger than the snapshot,  *)
(* PostgreSQL compares it with the conditions of the locking query again,  *)
(* and those only say that the work_id is one of the due ones.             *)

BeginClaim(h) ==
    /\ handler[h].phase = "idle"
    /\ handler' = [handler EXCEPT ![h] = [Idle EXCEPT !.phase = "claim", !.at = now]]
    /\ UNCHANGED <<now, work, resolutions, orphans, faults, overlaps>>

Scan(h, k) ==
    /\ handler[h].phase = "claim"
    /\ Due(work[k], handler[h].at)
    /\ handler' = [handler EXCEPT ![h].phase = "scan", ![h].work = k]
    /\ UNCHANGED <<now, work, resolutions, orphans, faults, overlaps>>

(* The overlaps once the row of k is claimed at time t.                    *)
Overlapping(k, t) ==
    overlaps \cup (IF Due(work[k], t) THEN {} ELSE {<<k, work[k].token + 1>>})

MayTake(k, t) == Due(work[k], t) \/ Cardinality(overlaps) < MaxOverlaps

(* A row found due is taken in whatever version is the newest.             *)

Claim(h) ==
    LET k == handler[h].work
        row == ClaimedRow(work[k], OwnerOf[h], handler[h].at, LeaseDuration)
    IN  /\ handler[h].phase = "scan"
        /\ MayTake(k, handler[h].at)
        /\ work' = [work EXCEPT ![k] = row]
        /\ handler' = [handler EXCEPT ![h] =
               [@ EXCEPT !.phase = "busy", !.token = row.token,
                         !.expires = row.expires]]
        /\ overlaps' = Overlapping(k, handler[h].at)
        /\ UNCHANGED <<now, resolutions, orphans, faults>>

(* SKIP LOCKED: whoever changed the row still has it locked.               *)
Skip(h) ==
    /\ handler[h].phase = "scan"
    /\ ~Due(work[handler[h].work], handler[h].at)
    /\ handler' = [handler EXCEPT ![h] = Idle]
    /\ UNCHANGED <<now, work, resolutions, orphans, faults, overlaps>>

ClaimNothing(h) ==
    /\ handler[h].phase = "claim"
    /\ \A k \in Work : ~Due(work[k], handler[h].at)
    /\ handler' = [handler EXCEPT ![h] = Idle]
    /\ UNCHANGED <<now, work, resolutions, orphans, faults, overlaps>>

-----------------------------------------------------------------------------
(* Renewal and disposition: Worker.Handle's select loop and finalize.  The *)
(* processor runs while a renewal is under way, but the loop sends one     *)
(* request at a time.                                                      *)

BeginRenew(h) ==
    /\ handler[h].phase = "busy"
    /\ now >= handler[h].at + RenewEvery
    /\ handler' = [handler EXCEPT ![h].phase = "renew", ![h].at = now]
    /\ UNCHANGED <<now, work, resolutions, orphans, faults, overlaps>>

(* NewWorkFailure wants a retry strictly after the failure.                *)
BeginFinalize(h) ==
    /\ handler[h].phase = "busy"
    /\ \E d \in Dispositions, retryAt \in 0..MaxTime :
          /\ IF d = "retry" THEN retryAt > now ELSE retryAt = NoTime
          /\ handler' = [handler EXCEPT ![h].phase = d, ![h].at = now,
                                        ![h].retryAt = retryAt]
    /\ UNCHANGED <<now, work, resolutions, orphans, faults, overlaps>>

(* The WHERE clause the request q of the given owner must meet.            *)
Accepts(r, owner, q) ==
    IF q.phase = "renew" THEN Renewable(r, owner, q.token, q.at)
                         ELSE LiveFence(r, owner, q.token, q.at)

(* The SET clause of the request q.                                        *)
Effect(r, q) ==
    CASE q.phase = "renew"    -> RenewedRow(r, q.at, LeaseDuration)
      [] q.phase = "complete" -> CompletedRow(r)
      [] q.phase = "retry"    -> RetriedRow(r, q.retryAt)
      [] OTHER                -> DeadLetteredRow(r)

(* Store.Renew answers with the lease as the row now has it.               *)
Renew(h) ==
    LET k == handler[h].work
        row == Effect(work[k], handler[h])
    IN  /\ handler[h].phase = "renew"
        /\ Accepts(work[k], OwnerOf[h], handler[h])
        /\ work' = [work EXCEPT ![k] = row]
        /\ handler' = [handler EXCEPT ![h].phase = "busy", ![h].expires = row.expires]
        /\ UNCHANGED <<now, resolutions, orphans, faults, overlaps>>

(* Store.Complete and Store.Fail through fencedExec: exactly one row.      *)
Finalize(h) ==
    LET k == handler[h].work
    IN  /\ handler[h].phase \in Dispositions
        /\ Accepts(work[k], OwnerOf[h], handler[h])
        /\ work' = [work EXCEPT ![k] = Effect(@, handler[h])]
        /\ handler' = [handler EXCEPT ![h] = Idle]
        /\ UNCHANGED <<now, resolutions, orphans, faults, overlaps>>

(* No row matched: ErrStaleWorkLease.  Handle cancels and joins the        *)
(* processor and returns; nothing is disposed of.                          *)
Stale(h) ==
    /\ handler[h].phase \in Fenced
    /\ ~Accepts(work[handler[h].work], OwnerOf[h], handler[h])
    /\ handler' = [handler EXCEPT ![h] = Idle]
    /\ UNCHANGED <<now, work, resolutions, orphans, faults, overlaps>>

-----------------------------------------------------------------------------
(* Faults.  The process dies, the processor returns an error or a decision *)
(* no request can carry (a retry time that has passed), or the call fails  *)
(* in transport: the lease stays for expiry recovery, and a request        *)
(* already sent may still take effect.  A fault so late that the lease it  *)
(* leaves could not expire before MaxTime is outside the bounded run.      *)

Abandon(h) ==
    /\ faults < MaxFaults
    /\ now + LeaseDuration <= MaxTime
    /\ handler[h].phase # "idle"
    /\ faults' = faults + 1
    /\ handler' = [handler EXCEPT ![h] = Idle]
    /\ orphans' = IF handler[h].phase = "busy" THEN orphans
                  ELSE orphans \cup
                       {[phase |-> handler[h].phase, owner |-> OwnerOf[h],
                         work |-> handler[h].work, token |-> handler[h].token,
                         at |-> handler[h].at, retryAt |-> handler[h].retryAt]}
    /\ UNCHANGED <<now, work, resolutions, overlaps>>

LateClaim(q, k) ==
    /\ \/ q.phase = "claim" /\ Due(work[k], q.at)
       \/ q.phase = "scan" /\ q.work = k /\ MayTake(k, q.at)
    /\ work' = [work EXCEPT ![k] = ClaimedRow(@, q.owner, q.at, LeaseDuration)]
    /\ orphans' = orphans \ {q}
    /\ overlaps' = Overlapping(k, q.at)
    /\ UNCHANGED <<now, resolutions, handler, faults>>

LateFenced(q) ==
    /\ q.phase \in Fenced
    /\ Accepts(work[q.work], q.owner, q)
    /\ work' = [work EXCEPT ![q.work] = Effect(@, q)]
    /\ orphans' = orphans \ {q}
    /\ UNCHANGED <<now, resolutions, handler, faults, overlaps>>

-----------------------------------------------------------------------------
(* Store.ResolveDeadLetter.  A recorded command identity changes nothing   *)
(* again (exact replay) or is refused (conflict); a wrong token is stale;  *)
(* UNIQUE (work_id, lease_token) admits one resolution per fence.          *)

(* Mutant of Unresolved: no UNIQUE (work_id, lease_token).                 *)
UnresolvedAlways(k) == k \in Work

Unresolved(k) ==
    ~ \E c \in Commands : /\ resolutions[c] # NoCommand
                          /\ resolutions[c].work = k
                          /\ resolutions[c].token = work[k].token

Resolve(c, k, r) ==
    /\ resolutions[c] = NoCommand
    /\ work[k].state = "dead"
    /\ r.work = k
    /\ r.token = work[k].token
    /\ Unresolved(k)
    /\ resolutions' = [resolutions EXCEPT ![c] = r]
    /\ UNCHANGED <<now, handler, orphans, faults, overlaps>>

ResolveRetry(c, k) ==
    \E retryAt \in now..MaxTime, deadline \in Deadlines :
        /\ deadline > retryAt
        /\ Resolve(c, k, [work |-> k, token |-> work[k].token, action |-> "retry",
                          retryAt |-> retryAt, deadline |-> deadline])
        /\ work' = [work EXCEPT ![k] = ReadmittedRow(@, retryAt, deadline)]

ResolveDiscard(c, k) ==
    /\ Resolve(c, k, [work |-> k, token |-> work[k].token, action |-> "discard",
                      retryAt |-> NoTime, deadline |-> NoTime])
    /\ UNCHANGED work

-----------------------------------------------------------------------------
HandlerStep(h) ==
    \/ BeginClaim(h)
    \/ \E k \in Work : Scan(h, k)
    \/ ClaimNothing(h)
    \/ Claim(h)
    \/ Skip(h)
    \/ BeginFinalize(h)
    \/ Renew(h)
    \/ Finalize(h)
    \/ Stale(h)

Next ==
    \/ Tick
    \/ \E k \in Work : Insert(k)
    \/ \E h \in Handlers : HandlerStep(h)
    \/ \E h \in Handlers : BeginRenew(h)
    \/ \E h \in Handlers : Abandon(h)
    \/ \E q \in orphans, k \in Work : LateClaim(q, k)
    \/ \E q \in orphans : LateFenced(q)
    \/ \E c \in Commands, k \in Work : ResolveRetry(c, k)
    \/ \E c \in Commands, k \in Work : ResolveDiscard(c, k)

Spec == Init /\ [][Next]_vars

(* Worker.Run claims immediately and polls again, Handle's loop waits for  *)
(* the processor and its timer, processors honour their deadlines: every   *)
(* handler keeps taking its steps, and time passes.  Nothing is assumed of *)
(* operators, callers, renewals or late requests.                          *)
Fairness == WF_vars(Tick) /\ \A h \in Handlers : WF_vars(HandlerStep(h))

FairSpec == Spec /\ Fairness

-----------------------------------------------------------------------------
(* Properties.                                                             *)

(* A claim of k after the one that gave the fence token overlapped another *)
(* statement: the finding of the run lease_snapshot.                       *)
Overtaken(k, token) == \E o \in overlaps : o[1] = k /\ o[2] > token

LeasedTo(h, k) ==
    /\ work[k].state = "leased"
    /\ work[k].owner = OwnerOf[h]
    /\ work[k].token = handler[h].token

(* While the lease value a handler holds has not expired by the clock, the *)
(* row is still leased to that handler under that very token: no other     *)
(* handler, late request or operator can have settled, re-admitted or      *)
(* taken the work.  This is the exclusion the fenced statements of         *)
(* claimWork, renewWork and the dispositions are there to give.  The only  *)
(* way to lose a live lease is a later claim that overlaps: claimWork does *)
(* not look again at the row it takes.                                     *)
LiveLeaseBacked ==
    \A h \in Handlers :
        (Holding(h) /\ handler[h].expires > now) =>
            LET k == handler[h].work
            IN  LeasedTo(h, k) \/ Overtaken(k, handler[h].token)

(* However claims overlap, the handler with the newest fence has the row:  *)
(* until the next claim no late request, no handler that held the work     *)
(* before it, no operator's command and no renewal under a time of its own *)
(* (renewWork may shorten a lease) takes the work from it or ends the      *)
(* row's lease before the one the handler knows of.                        *)
NewestFenceBacked ==
    \A h \in Handlers :
        LET k == handler[h].work
        IN  (Holding(h) /\ handler[h].token = work[k].token) =>
                LeasedTo(h, k) /\ handler[h].expires <= work[k].expires

(* Two handlers, even of one worker, never carry the same fence for the    *)
(* same work: claimWork gives each claim a token of its own.               *)
FenceUnique ==
    \A g, h \in Handlers :
        (/\ g # h /\ Holding(g) /\ Holding(h)
         /\ handler[g].work = handler[h].work)
            => handler[g].token # handler[h].token

(* A discarded dead letter stays unavailable: the row keeps the discarded  *)
(* fence and stays dead, whatever other commands, delayed claims and late  *)
(* requests arrive (deadletter.go: "must remain unavailable"), unless a    *)
(* claim that found the work due before it was dead-lettered overlaps.     *)
DiscardIsFinal ==
    \A c \in Commands :
        (resolutions[c] # NoCommand /\ resolutions[c].action = "discard") =>
            LET r == resolutions[c]
            IN  \/ work[r.work].token = r.token /\ work[r.work].state = "dead"
                \/ Overtaken(r.work, r.token)

(* A fence, once superseded, is never the row's fence again: no statement  *)
(* lowers a token, and only a claim raises it, by one.                     *)
FencesOnlyGrow ==
    [][\A k \in Work :
          work'[k].token # work[k].token =>
              /\ work'[k].token = work[k].token + 1
              /\ work'[k].state = "leased"]_vars

(* postgres/store.go on Claim: "atomically leases bounded due or expired   *)
(* work": work changes hands only when it waits for admission or its lease *)
(* has expired by the clock, so settled work is never handed out again.    *)
ClaimsOnlyDue ==
    [][\A k \in Work :
          work'[k].token # work[k].token =>
              \/ work[k].state = "ready"
              \/ work[k].state = "leased" /\ work[k].expires <= now]_vars

(* Inserted work is eventually completed or dead-lettered, whichever       *)
(* handlers die and answers are lost on the way, when its deadline is      *)
(* beyond the horizon: an expired lease is claimed again.                  *)
WorkSettles ==
    \A k \in Work :
        work[k].state \in {"ready", "leased"} ~> work[k].state \in {"completed", "dead"}
=============================================================================
