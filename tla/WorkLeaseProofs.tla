-------------------------- MODULE WorkLeaseProofs --------------------------
(***************************************************************************)
(* What the fenced statements guarantee for any number of workers,         *)
(* handlers, work items, operator commands and faults, and for every clock *)
(* and lease duration.                                                     *)
(***************************************************************************)
EXTENDS WorkLease, TLAPS

(* Every request carries a time that has been.                             *)
SampledInPast ==
    /\ \A h \in Handlers : handler[h].at <= now
    /\ \A q \in orphans : q.at <= now

(* A handler's fence is the row's fence, and then the row is leased to it  *)
(* at least as long as it believes; or it is an older one, and then its    *)
(* lease value has expired, unless a later claim of the row overlapped.    *)
HeldFence(h) ==
    LET r == work[handler[h].work]
    IN  /\ handler[h].token <= r.token
        /\ handler[h].token = r.token =>
              /\ r.state = "leased"
              /\ r.owner = OwnerOf[h]
              /\ handler[h].expires <= r.expires
        /\ handler[h].token < r.token =>
              \/ handler[h].expires <= now
              \/ Overtaken(handler[h].work, handler[h].token)

FencesHeld == \A h \in Handlers : Holding(h) => HeldFence(h)

(* A late request carries a fence that was given out and that no handler   *)
(* still carries.                                                          *)
OrphanFences ==
    \A q \in orphans :
        q.phase \in Fenced =>
            /\ q.token <= work[q.work].token
            /\ \A h \in Handlers :
                  Holding(h) => ~ (handler[h].work = q.work /\ handler[h].token = q.token)

(* A row that was never inserted was never claimed.                        *)
AbsentUnclaimed == \A k \in Work : work[k].state = "absent" => work[k].token = 0

IInv ==
    /\ TypeOK
    /\ SampledInPast
    /\ FencesHeld
    /\ OrphanFences
    /\ FenceUnique
    /\ AbsentUnclaimed

-----------------------------------------------------------------------------
(* Each statement of WorkRows turns a row into a row.                      *)
LEMMA RowClosed ==
    ASSUME NEW r \in Row, NEW o \in Owners, NEW t \in Nat, NEW d \in Nat
    PROVE  /\ ClaimedRow(r, o, t, d) \in Row
           /\ RenewedRow(r, t, d) \in Row
           /\ CompletedRow(r) \in Row
           /\ RetriedRow(r, t) \in Row
           /\ DeadLetteredRow(r) \in Row
           /\ ReadmittedRow(r, t, d) \in Row
  <1>1. ClaimedRow(r, o, t, d) \in Row
    <2> DEFINE e == Earlier(t + d, r.deadline)
    <2>1. e \in Nat /\ r.token + 1 \in Nat /\ r.attempts + 1 \in Nat
      BY DEF Row, Earlier
    <2> HIDE DEF e
    <2>2. [r EXCEPT !.state = "leased", !.attempts = @ + 1, !.owner = o,
                    !.token = @ + 1, !.expires = e] \in Row
      BY <2>1 DEF Row, RowStates
    <2> QED BY <2>2 DEF ClaimedRow, e
  <1>2. RenewedRow(r, t, d) \in Row
    BY DEF RenewedRow, Row, Earlier
  <1>3. Released(r) \in Row
    BY DEF Released, Row, NoTime
  <1>4. CompletedRow(r) \in Row /\ DeadLetteredRow(r) \in Row
    BY <1>3 DEF CompletedRow, DeadLetteredRow, Row, RowStates
  <1>5. RetriedRow(r, t) \in Row /\ ReadmittedRow(r, t, d) \in Row
    BY <1>3 DEF RetriedRow, ReadmittedRow, Row, RowStates
  <1> QED
    BY <1>1, <1>2, <1>4, <1>5

(* A row before and after its insertion.                                   *)
LEMMA InsertedType ==
    ASSUME NEW t \in Nat, NEW d \in Nat
    PROVE  AbsentRow \in Row /\ InsertedRow(t, d) \in Row
  <1>1. AbsentRow \in Row
    BY DEF AbsentRow, Row, RowStates, NoTime
  <1> QED
    BY <1>1 DEF InsertedRow, Row, RowStates

(* A handler at rest.                                                      *)
LEMMA IdleType == Idle \in HandlerState
  BY LeaseAssumption DEF Idle, HandlerState, Phases, NoTime

(* What a fenced request does to the row it matches: it keeps the token,   *)
(* and keeps the row leased to the same owner only when it is a renewal.   *)
LEMMA EffectFacts ==
    ASSUME NEW r \in Row, NEW q, q.phase \in Fenced, q.at \in Nat, q.retryAt \in Nat
    PROVE  /\ Effect(r, q) \in Row
           /\ Effect(r, q).token = r.token
           /\ q.phase = "renew" =>
                 /\ Effect(r, q).state = r.state
                 /\ Effect(r, q).owner = r.owner
  <1>1. LeaseDuration \in Nat
    BY LeaseAssumption
  <1>2. CASE q.phase = "renew"
    BY <1>1, <1>2 DEF Effect, RenewedRow, Row, Earlier
  <1>3. CASE q.phase = "complete"
    BY <1>3 DEF Effect, CompletedRow, Released, Row, RowStates, NoTime
  <1>4. CASE q.phase = "retry"
    BY <1>4 DEF Effect, RetriedRow, Released, Row, RowStates, NoTime
  <1>5. CASE q.phase = "dead"
    BY <1>5 DEF Effect, DeadLetteredRow, Released, Row, RowStates, NoTime
  <1> QED
    BY <1>2, <1>3, <1>4, <1>5 DEF Fenced, Dispositions

-----------------------------------------------------------------------------
(* Types hold at the start.                                                *)
LEMMA InitType == Init => TypeOK
  <1> SUFFICES ASSUME Init PROVE TypeOK
    OBVIOUS
  <1>1. AbsentRow \in Row
    BY DEF AbsentRow, Row, RowStates, NoTime
  <1> QED
    BY <1>1, IdleType DEF Init, TypeOK

(* The history of overlapping claims stays a set of fences.                *)
LEMMA OverlapType ==
    ASSUME TypeOK, NEW k \in Work, NEW t
    PROVE  Overlapping(k, t) \subseteq Work \X Nat
  <1>1. work[k].token + 1 \in Nat
    BY DEF TypeOK, Row
  <1> QED BY <1>1 DEF TypeOK, Overlapping

(* Every step keeps them.                                                  *)
LEMMA NextType == TypeOK /\ [Next]_vars => TypeOK'
  <1> SUFFICES ASSUME TypeOK, [Next]_vars PROVE TypeOK'
    OBVIOUS
  <1> USE DEF TypeOK
  <1>0. LeaseDuration \in Nat /\ MaxTime \in Nat /\ Deadlines \subseteq Nat
        /\ OwnerOf \in [Handlers -> Owners]
    BY LeaseAssumption
  <1>1. CASE Tick
    BY <1>1 DEF Tick
  <1>2. ASSUME NEW k \in Work, Insert(k) PROVE TypeOK'
    <2>1. PICK a \in now..MaxTime, d \in Deadlines :
              work' = [work EXCEPT ![k] = InsertedRow(a, d)]
      BY <1>2 DEF Insert
    <2>2. a \in Nat /\ d \in Nat
      BY <1>0
    <2>3. InsertedRow(a, d) \in Row
      BY <2>2, InsertedType
    <2> QED BY <1>2, <2>1, <2>3 DEF Insert
  <1>3. ASSUME NEW h \in Handlers, BeginClaim(h) PROVE TypeOK'
    <2>1. [Idle EXCEPT !.phase = "claim", !.at = now] \in HandlerState
      BY IdleType DEF HandlerState, Phases
    <2> QED BY <1>3, <2>1 DEF BeginClaim
  <1>3a. ASSUME NEW h \in Handlers, NEW k \in Work, Scan(h, k) PROVE TypeOK'
    BY <1>3a DEF Scan, HandlerState, Phases
  <1>3b. ASSUME NEW h \in Handlers, Skip(h) PROVE TypeOK'
    BY <1>3b, IdleType DEF Skip
  <1>4. ASSUME NEW h \in Handlers, Claim(h) PROVE TypeOK'
    <2> DEFINE row == ClaimedRow(work[handler[h].work], OwnerOf[h], handler[h].at, LeaseDuration)
    <2>1. row \in Row
      BY <1>0, RowClosed DEF HandlerState
    <2>2. [handler[h] EXCEPT !.phase = "busy", !.token = row.token,
                             !.expires = row.expires] \in HandlerState
      BY <2>1 DEF HandlerState, Phases, Row
    <2>3. overlaps' \subseteq Work \X Nat
      BY <1>4, OverlapType DEF Claim, HandlerState
    <2> QED BY <1>4, <2>1, <2>2, <2>3 DEF Claim
  <1>5. ASSUME NEW h \in Handlers, ClaimNothing(h) PROVE TypeOK'
    BY <1>5, IdleType DEF ClaimNothing
  <1>6. ASSUME NEW h \in Handlers, BeginRenew(h) PROVE TypeOK'
    BY <1>6 DEF BeginRenew, HandlerState, Phases, Fenced
  <1>7. ASSUME NEW h \in Handlers, BeginFinalize(h) PROVE TypeOK'
    <2>1. PICK d \in Dispositions, retryAt \in 0..MaxTime :
              handler' = [handler EXCEPT ![h].phase = d, ![h].at = now,
                                         ![h].retryAt = retryAt]
      BY <1>7 DEF BeginFinalize
    <2>2. retryAt \in Nat
      BY <1>0
    <2>3. handler' \in [Handlers -> HandlerState]
      BY <2>1, <2>2 DEF HandlerState, Phases, Fenced
    <2> QED BY <1>7, <2>3 DEF BeginFinalize
  <1>8. ASSUME NEW h \in Handlers, Renew(h) PROVE TypeOK'
    <2>1. Effect(work[handler[h].work], handler[h]) \in Row
      BY <1>8, EffectFacts DEF Renew, HandlerState, Fenced
    <2>2. handler' \in [Handlers -> HandlerState]
      BY <1>8, <2>1 DEF Renew, HandlerState, Phases, Row
    <2> QED BY <1>8, <2>1, <2>2 DEF Renew
  <1>9. ASSUME NEW h \in Handlers, Finalize(h) PROVE TypeOK'
    <2>1. Effect(work[handler[h].work], handler[h]) \in Row
      BY <1>9, EffectFacts DEF Finalize, HandlerState, Fenced
    <2> QED BY <1>9, <2>1, IdleType DEF Finalize
  <1>10. ASSUME NEW h \in Handlers, Stale(h) PROVE TypeOK'
    BY <1>10, IdleType DEF Stale
  <1>11. ASSUME NEW h \in Handlers, Abandon(h) PROVE TypeOK'
    <2>1. handler[h].phase # "busy" =>
            [phase |-> handler[h].phase, owner |-> OwnerOf[h],
             work |-> handler[h].work, token |-> handler[h].token,
             at |-> handler[h].at, retryAt |-> handler[h].retryAt] \in Orphan
      BY <1>0, <1>11 DEF Abandon, Orphan, HandlerState, Phases
    <2> QED BY <1>11, <2>1, IdleType DEF Abandon
  <1>12. ASSUME NEW q \in orphans, NEW k \in Work, LateClaim(q, k) PROVE TypeOK'
    <2>1. ClaimedRow(work[k], q.owner, q.at, LeaseDuration) \in Row
      BY <1>0, RowClosed DEF Orphan
    <2>2. overlaps' \subseteq Work \X Nat
      BY <1>12, OverlapType DEF LateClaim
    <2> QED BY <1>12, <2>1, <2>2 DEF LateClaim
  <1>13. ASSUME NEW q \in orphans, LateFenced(q) PROVE TypeOK'
    <2>1. Effect(work[q.work], q) \in Row
      BY <1>13, EffectFacts DEF LateFenced, Orphan
    <2> QED BY <1>13, <2>1 DEF LateFenced, Orphan
  <1>14. ASSUME NEW c \in Commands, NEW k \in Work, ResolveRetry(c, k) PROVE TypeOK'
    <2>1. PICK t \in now..MaxTime, d \in Deadlines :
              /\ Resolve(c, k, [work |-> k, token |-> work[k].token, action |-> "retry",
                                retryAt |-> t, deadline |-> d])
              /\ work' = [work EXCEPT ![k] = ReadmittedRow(@, t, d)]
      BY <1>14 DEF ResolveRetry
    <2>2. t \in Nat /\ d \in Nat
      BY <1>0
    <2>3. ReadmittedRow(work[k], t, d) \in Row
      BY <2>2 DEF ReadmittedRow, Released, Row, RowStates, NoTime
    <2>4. [work |-> k, token |-> work[k].token, action |-> "retry",
           retryAt |-> t, deadline |-> d] \in Resolution
      BY <2>2 DEF Resolution, Row
    <2> QED BY <2>1, <2>3, <2>4 DEF Resolve
  <1>15. ASSUME NEW c \in Commands, NEW k \in Work, ResolveDiscard(c, k) PROVE TypeOK'
    <2>1. [work |-> k, token |-> work[k].token, action |-> "discard",
           retryAt |-> NoTime, deadline |-> NoTime] \in Resolution
      BY DEF Resolution, Row, NoTime
    <2> QED BY <1>15, <2>1 DEF ResolveDiscard, Resolve
  <1>16. CASE UNCHANGED vars
    BY <1>16 DEF vars
  <1> QED
    BY <1>1, <1>2, <1>3, <1>3a, <1>3b, <1>4, <1>5, <1>6, <1>7, <1>8, <1>9,
       <1>10, <1>11, <1>12, <1>13, <1>14, <1>15, <1>16 DEF Next, HandlerStep

(* Every reachable state is well typed: work rows, resolutions, handlers   *)
(* and late requests keep the columns and fields of their Go and SQL       *)
(* declarations.                                                           *)
THEOREM TypeCorrect == Spec => []TypeOK
  <1> QED BY InitType, NextType, PTL DEF Spec

-----------------------------------------------------------------------------
(* The invariant holds at the start.                                       *)
LEMMA InitIInv == Init => IInv
  <1> SUFFICES ASSUME Init PROVE IInv
    OBVIOUS
  <1>1. \A h \in Handlers : ~Holding(h) /\ handler[h].at <= now
    BY DEF Init, Idle, Holding, Fenced, Dispositions, NoTime
  <1> QED
    BY <1>1, InitType DEF Init, IInv, SampledInPast, FencesHeld, OrphanFences,
                          FenceUnique, AbsentUnclaimed, AbsentRow

(* A claim by owner o at time at, and what the row was when it was due.    *)
LEMMA ClaimFacts ==
    ASSUME NEW r \in Row, NEW o \in Owners, NEW at \in Nat
    PROVE  LET c == ClaimedRow(r, o, at, LeaseDuration)
           IN  /\ c.token = r.token + 1
               /\ c.state = "leased"
               /\ c.owner = o
               /\ Due(r, at) =>
                     /\ r.state = "leased" => r.expires <= at
                     /\ r.state \in {"leased", "ready"}
  BY DEF ClaimedRow, Due, Row

(* No step forgets an overlapping claim.                                   *)
LEMMA OverlapsKept ==
    ASSUME [Next]_vars
    PROVE  overlaps \subseteq overlaps'
  <1>1. ASSUME NEW h, Claim(h) PROVE overlaps \subseteq overlaps'
    BY <1>1 DEF Claim, Overlapping
  <1>2. ASSUME NEW q, NEW k, LateClaim(q, k) PROVE overlaps \subseteq overlaps'
    BY <1>2 DEF LateClaim, Overlapping
  <1>3. CASE UNCHANGED overlaps
    BY <1>3
  <1>4. ASSUME NEW c, NEW k, ResolveRetry(c, k) \/ ResolveDiscard(c, k)
        PROVE  UNCHANGED overlaps
    BY <1>4 DEF ResolveRetry, ResolveDiscard, Resolve
  <1> QED
    BY <1>1, <1>2, <1>3, <1>4
       DEF Next, HandlerStep, Tick, Insert, BeginClaim, Scan, Skip, ClaimNothing, BeginRenew,
           BeginFinalize, Renew, Finalize, Stale, Abandon, LateFenced, vars

(* A claim overtakes every fence the row had before, unless the row was    *)
(* due when it was taken.                                                  *)
LEMMA OverlapFacts ==
    ASSUME TypeOK, NEW k \in Work, NEW at, ~Due(work[k], at),
           overlaps' = Overlapping(k, at), NEW t \in Nat, t <= work[k].token
    PROVE  Overtaken(k, t)'
  <1>1. work[k].token \in Nat
    BY DEF TypeOK, Row
  <1> DEFINE o == <<k, work[k].token + 1>>
  <1>2. o \in overlaps'
    BY DEF Overlapping
  <1>3. o[1] = k /\ o[2] > t
    BY <1>1
  <1> QED BY <1>2, <1>3 DEF Overtaken

(* Every step keeps it.                                                    *)
LEMMA NextIInv == IInv /\ [Next]_vars => IInv'
  <1> SUFFICES ASSUME IInv, [Next]_vars PROVE IInv'
    OBVIOUS
  <1>0. TypeOK /\ TypeOK'
    BY NextType DEF IInv
  <1> USE DEF IInv
  <1>a. \A h \in Handlers :
           /\ handler[h] \in HandlerState /\ handler[h].work \in Work
           /\ handler[h].token \in Nat /\ handler[h].expires \in Nat
           /\ handler[h].at \in Nat /\ OwnerOf[h] \in Owners
    BY <1>0, LeaseAssumption DEF TypeOK, HandlerState
  <1>b. \A k \in Work : work[k] \in Row /\ work[k].token \in Nat /\ work[k].expires \in Nat
    BY <1>0 DEF TypeOK, Row
  <1>c. \A q \in orphans : q \in Orphan /\ q.work \in Work /\ q.token \in Nat /\ q.at \in Nat
    BY <1>0 DEF TypeOK, Orphan
  <1>d. now \in Nat
    BY <1>0 DEF TypeOK
  <1>k. overlaps \subseteq overlaps'
    BY OverlapsKept
  (* A handler whose lease value is given up holds nothing.                *)
  <1>e. ASSUME NEW h \in Handlers, handler' = [handler EXCEPT ![h] = Idle]
        PROVE  /\ ~Holding(h)' /\ handler'[h].at <= now
               /\ \A g \in Handlers : g # h => handler'[g] = handler[g] /\ Holding(g)' = Holding(g)
    BY <1>0, <1>d, <1>e DEF TypeOK, Holding, Idle, Fenced, Dispositions, NoTime
  <1>1. CASE Tick
    <2>1. now' \in Nat /\ now < now'
      BY <1>1, <1>d DEF Tick
    <2>2. SampledInPast'
      BY <1>1, <1>a, <1>c, <1>d, <2>1 DEF Tick, SampledInPast
    <2>3. FencesHeld'
      BY <1>1, <1>a, <1>b, <1>d, <1>k, <2>1
         DEF Tick, FencesHeld, Holding, HeldFence, Overtaken
    <2>4. OrphanFences' /\ FenceUnique' /\ AbsentUnclaimed'
      BY <1>1 DEF Tick, OrphanFences, FenceUnique, AbsentUnclaimed, Holding
    <2> QED BY <1>0, <2>2, <2>3, <2>4
  (* A step that leaves the table alone and takes no new lease.            *)
  <1>f. ASSUME UNCHANGED <<now, work>>,
               \A g \in Handlers :
                  /\ handler'[g].at <= now
                  /\ Holding(g)' => /\ Holding(g)
                                    /\ handler'[g].work = handler[g].work
                                    /\ handler'[g].token = handler[g].token
                                    /\ handler'[g].expires = handler[g].expires,
               \A q \in orphans' :
                  \/ q \in orphans
                  \/ /\ q.at <= now
                     /\ q.phase \in Fenced =>
                           /\ q.token <= work[q.work].token
                           /\ \A g \in Handlers : Holding(g)' =>
                                 ~ (handler[g].work = q.work /\ handler[g].token = q.token)
        PROVE  IInv'
    <2>1. SampledInPast'
      BY <1>f DEF SampledInPast
    <2>2. FencesHeld'
      BY <1>f, <1>k DEF FencesHeld, HeldFence, Overtaken
    <2>3. OrphanFences'
      BY <1>f DEF OrphanFences
    <2>4. FenceUnique' /\ AbsentUnclaimed'
      BY <1>f DEF FenceUnique, AbsentUnclaimed
    <2> QED BY <1>0, <2>1, <2>2, <2>3, <2>4
  (* A step that keeps the row's token, after which no handler carries it. *)
  <1>g. ASSUME NEW k \in Work, NEW r, work' = [work EXCEPT ![k] = r],
               r.token = work[k].token, r.state # "absent", UNCHANGED now,
               \A g \in Handlers :
                  /\ handler'[g].at <= now
                  /\ Holding(g)' =>
                        /\ Holding(g) /\ handler'[g] = handler[g]
                        /\ ~ (handler[g].work = k /\ handler[g].token = work[k].token),
               orphans' \subseteq orphans
        PROVE  IInv'
    <2>1. SampledInPast'
      BY <1>g DEF SampledInPast
    <2>2. \A j \in Work : /\ work'[j].token = work[j].token
                          /\ j # k => work'[j] = work[j]
      BY <1>g, <1>0 DEF TypeOK
    <2>3. FencesHeld'
      BY <1>g, <1>k, <2>2, <1>a, <1>b DEF FencesHeld, HeldFence, Overtaken
    <2>4. OrphanFences'
      BY <1>g, <2>2, <1>c DEF OrphanFences
    <2>5. FenceUnique'
      BY <1>g DEF FenceUnique
    <2>6. AbsentUnclaimed'
      BY <1>g, <1>0 DEF AbsentUnclaimed, TypeOK
    <2> QED BY <1>0, <2>1, <2>3, <2>4, <2>5, <2>6
  <1>2. ASSUME NEW k \in Work, Insert(k) PROVE IInv'
    <2>1. PICK a, d : work' = [work EXCEPT ![k] = InsertedRow(a, d)]
      BY <1>2 DEF Insert
    <2>2. work[k].state = "absent" /\ UNCHANGED <<now, handler, orphans>>
      BY <1>2 DEF Insert
    <2>3. InsertedRow(a, d).token = work[k].token /\ InsertedRow(a, d).state # "absent"
      BY <2>2 DEF InsertedRow, AbsentRow, AbsentUnclaimed
    <2>4. \A g \in Handlers : /\ handler'[g].at <= now
                              /\ Holding(g)' => Holding(g) /\ handler'[g] = handler[g]
      BY <2>2 DEF Holding, SampledInPast
    <2>5. \A g \in Handlers : Holding(g) =>
             ~ (handler[g].work = k /\ handler[g].token = work[k].token)
      BY <2>2 DEF FencesHeld, HeldFence
    <2> QED BY <1>g, <2>1, <2>2, <2>3, <2>4, <2>5
  <1>3. ASSUME NEW h \in Handlers, BeginClaim(h) PROVE IInv'
    <2>1. /\ ~Holding(h)' /\ handler'[h].at <= now
          /\ \A g \in Handlers : g # h => handler'[g] = handler[g] /\ Holding(g)' = Holding(g)
      BY <1>3, <1>0, <1>d DEF BeginClaim, TypeOK, Holding, Idle, Fenced, Dispositions
    <2> QED BY <1>3, <1>f, <2>1 DEF BeginClaim, SampledInPast
  <1>3a. ASSUME NEW h \in Handlers, NEW k \in Work, Scan(h, k) PROVE IInv'
    <2>1. /\ ~Holding(h)' /\ handler'[h].at <= now
          /\ \A g \in Handlers : g # h => handler'[g] = handler[g] /\ Holding(g)' = Holding(g)
      BY <1>3a, <1>0, <1>a DEF Scan, TypeOK, HandlerState, Holding, Fenced, Dispositions,
                               SampledInPast
    <2> QED BY <1>3a, <1>f, <2>1 DEF Scan, SampledInPast
  <1>3b. ASSUME NEW h \in Handlers, Skip(h) PROVE IInv'
    BY <1>3b, <1>e, <1>f DEF Skip, SampledInPast
  (* A claim: the new fence is above every fence given out for the row,    *)
  (* and whoever carried the row's fence had let its lease expire, or is   *)
  (* overtaken by this claim.                                              *)
  <1>h. ASSUME NEW k \in Work, NEW o \in Owners, NEW at \in Nat, at <= now,
               overlaps' = Overlapping(k, at), UNCHANGED now,
               work' = [work EXCEPT ![k] = ClaimedRow(work[k], o, at, LeaseDuration)],
               orphans' \subseteq orphans,
               \A g \in Handlers :
                  /\ handler'[g].at <= now
                  /\ Holding(g)' =>
                        \/ Holding(g) /\ handler'[g] = handler[g]
                        \/ /\ handler'[g].work = k
                           /\ handler'[g].token = work'[k].token
                           /\ handler'[g].expires = work'[k].expires
                           /\ OwnerOf[g] = o
                           /\ \A f \in Handlers : f # g /\ Holding(f)' =>
                                 Holding(f) /\ handler'[f] = handler[f]
        PROVE  IInv'
    <2>1. /\ work'[k].token = work[k].token + 1
          /\ work'[k].state = "leased" /\ work'[k].owner = o
          /\ Due(work[k], at) /\ work[k].state = "leased" => work[k].expires <= now
          /\ \A j \in Work : j # k => work'[j] = work[j]
          /\ work'[k].expires \in Nat
      <3>1. work'[k] = ClaimedRow(work[k], o, at, LeaseDuration)
        BY <1>h, <1>0 DEF TypeOK
      <3>2. work'[k] \in Row
        BY <1>0 DEF TypeOK
      <3>3. \A j \in Work : j # k => work'[j] = work[j]
        BY <1>h, <1>0 DEF TypeOK
      <3>4. Due(work[k], at) /\ work[k].state = "leased" => work[k].expires <= now
        BY <1>h, <1>b, <1>d, ClaimFacts
      <3> QED BY <3>1, <3>2, <3>3, <3>4, <1>h, <1>b, ClaimFacts DEF Row
    <2>2. SampledInPast'
      BY <1>h DEF SampledInPast
    <2>3. FencesHeld'
      <3> SUFFICES ASSUME NEW g \in Handlers, Holding(g)' PROVE HeldFence(g)'
        BY DEF FencesHeld
      <3>1. CASE Holding(g) /\ handler'[g] = handler[g] /\ handler[g].work = k
        <4>1. CASE Due(work[k], at)
          BY <4>1, <3>1, <2>1, <1>h, <1>k, <1>a, <1>b, <1>d DEF FencesHeld, HeldFence, Overtaken
        <4>2. CASE ~Due(work[k], at)
          <5>1. handler[g].token <= work[k].token /\ handler[g].token \in Nat
            BY <3>1, <1>a DEF FencesHeld, HeldFence
          <5>2. \E p \in overlaps' : p[1] = k /\ p[2] > handler[g].token
            BY <4>2, <5>1, <1>h, <1>0, OverlapFacts DEF Overtaken
          <5> QED BY <3>1, <5>1, <5>2, <2>1, <1>b DEF HeldFence, Overtaken
        <4> QED BY <4>1, <4>2
      <3>2. CASE Holding(g) /\ handler'[g] = handler[g] /\ handler[g].work # k
        BY <3>2, <2>1, <1>h, <1>k, <1>a DEF FencesHeld, HeldFence, Overtaken
      <3>3. CASE /\ handler'[g].work = k /\ handler'[g].token = work'[k].token
                 /\ handler'[g].expires = work'[k].expires /\ OwnerOf[g] = o
        BY <3>3, <2>1, <1>b DEF HeldFence
      <3> QED BY <1>h, <3>1, <3>2, <3>3
    <2>4. OrphanFences'
      <3> SUFFICES ASSUME NEW q \in orphans', q.phase \in Fenced
                   PROVE  /\ q.token <= work'[q.work].token
                          /\ \A g \in Handlers : Holding(g)' =>
                                ~ (handler'[g].work = q.work /\ handler'[g].token = q.token)
        BY DEF OrphanFences
      <3>1. q.token <= work[q.work].token
        BY <1>h DEF OrphanFences
      <3> QED BY <3>1, <1>h, <2>1, <1>b, <1>c DEF OrphanFences
    <2>5. FenceUnique'
      <3> SUFFICES ASSUME NEW f \in Handlers, NEW g \in Handlers, f # g,
                          Holding(f)', Holding(g)', handler'[f].work = handler'[g].work
                   PROVE  handler'[f].token # handler'[g].token
        BY DEF FenceUnique
      <3>1. \A e \in Handlers : Holding(e) => handler[e].token <= work[handler[e].work].token
        BY DEF FencesHeld, HeldFence
      <3> QED BY <3>1, <1>h, <2>1, <1>a, <1>b DEF FenceUnique
    <2>6. AbsentUnclaimed'
      BY <2>1 DEF AbsentUnclaimed
    <2> QED BY <1>0, <2>2, <2>3, <2>4, <2>5, <2>6
  <1>4. ASSUME NEW h \in Handlers, Claim(h) PROVE IInv'
    <2> DEFINE k == handler[h].work
               row == ClaimedRow(work[k], OwnerOf[h], handler[h].at, LeaseDuration)
    <2>0. k = handler[h].work /\ k \in Work
      BY <1>a
    <2>1. /\ work' = [work EXCEPT ![k] = row] /\ overlaps' = Overlapping(k, handler[h].at)
          /\ handler' = [handler EXCEPT ![h] =
                [handler[h] EXCEPT !.phase = "busy", !.token = row.token,
                                   !.expires = row.expires]]
          /\ UNCHANGED <<now, orphans>>
      BY <1>4 DEF Claim
    <2> HIDE DEF k, row
    <2>2. work'[k] = row
      BY <2>0, <2>1, <1>0 DEF TypeOK
    <2>3. /\ handler'[h].work = k /\ handler'[h].token = row.token
          /\ handler'[h].expires = row.expires /\ handler'[h].at = handler[h].at
      BY <2>0, <2>1, <1>0, <1>a DEF TypeOK, HandlerState
    <2>4. \A g \in Handlers : g # h => handler'[g] = handler[g] /\ Holding(g)' = Holding(g)
      BY <2>1, <1>0 DEF TypeOK, Holding
    <2>5. handler[h].at <= now /\ handler[h].at \in Nat /\ OwnerOf[h] \in Owners
      BY <1>a DEF SampledInPast
    <2>6. \A g \in Handlers :
             /\ handler'[g].at <= now
             /\ Holding(g)' =>
                   \/ Holding(g) /\ handler'[g] = handler[g]
                   \/ /\ handler'[g].work = k
                      /\ handler'[g].token = work'[k].token
                      /\ handler'[g].expires = work'[k].expires
                      /\ OwnerOf[g] = OwnerOf[h]
                      /\ \A f \in Handlers : f # g /\ Holding(f)' =>
                            Holding(f) /\ handler'[f] = handler[f]
      <3> TAKE g \in Handlers
      <3>1. CASE g = h
        BY <3>1, <2>2, <2>3, <2>4, <2>5
      <3>2. CASE g # h
        BY <3>2, <2>4 DEF SampledInPast
      <3> QED BY <3>1, <3>2
    <2>7. work' = [work EXCEPT ![k] =
                     ClaimedRow(work[k], OwnerOf[h], handler[h].at, LeaseDuration)]
      BY <2>1 DEF row
    <2> QED BY <1>h, <2>0, <2>1, <2>5, <2>6, <2>7
  <1>5. ASSUME NEW h \in Handlers, ClaimNothing(h) PROVE IInv'
    BY <1>5, <1>e, <1>f DEF ClaimNothing, SampledInPast
  <1>6. ASSUME NEW h \in Handlers, BeginRenew(h) PROVE IInv'
    <2>1. /\ handler'[h].at <= now /\ Holding(h)
          /\ handler'[h].work = handler[h].work /\ handler'[h].token = handler[h].token
          /\ handler'[h].expires = handler[h].expires
          /\ \A g \in Handlers : g # h => handler'[g] = handler[g] /\ Holding(g)' = Holding(g)
      BY <1>6, <1>0, <1>a, <1>d DEF BeginRenew, TypeOK, Holding, HandlerState
    <2> QED BY <1>6, <1>f, <2>1 DEF BeginRenew, SampledInPast
  <1>7. ASSUME NEW h \in Handlers, BeginFinalize(h) PROVE IInv'
    <2>0. PICK d, t : handler' = [handler EXCEPT ![h].phase = d, ![h].at = now, ![h].retryAt = t]
      BY <1>7 DEF BeginFinalize
    <2>1. /\ handler'[h].at <= now /\ Holding(h)
          /\ handler'[h].work = handler[h].work /\ handler'[h].token = handler[h].token
          /\ handler'[h].expires = handler[h].expires
          /\ \A g \in Handlers : g # h => handler'[g] = handler[g] /\ Holding(g)' = Holding(g)
      BY <1>7, <2>0, <1>0, <1>a, <1>d DEF BeginFinalize, TypeOK, Holding, HandlerState
    <2> QED BY <1>7, <1>f, <2>1 DEF BeginFinalize, SampledInPast
  <1>8. ASSUME NEW h \in Handlers, Renew(h) PROVE IInv'
    <2> DEFINE k == handler[h].work
               row == Effect(work[k], handler[h])
    <2>1. /\ work' = [work EXCEPT ![k] = row] /\ k \in Work
          /\ handler' = [handler EXCEPT ![h].phase = "busy", ![h].expires = row.expires]
          /\ UNCHANGED <<now, orphans>> /\ handler[h].phase = "renew" /\ Holding(h)
          /\ LiveFence(work[k], OwnerOf[h], handler[h].token, handler[h].at)
      BY <1>8, <1>a DEF Renew, Accepts, Renewable, Holding, Fenced
    <2>2. /\ row.token = work[k].token /\ row.state = work[k].state
          /\ row.owner = work[k].owner /\ row \in Row
      BY <2>1, <1>a, <1>b, EffectFacts DEF HandlerState, Fenced
    <2> HIDE DEF row, k
    <2>3. /\ handler'[h].work = handler[h].work /\ handler'[h].token = handler[h].token
          /\ handler'[h].expires = row.expires /\ handler'[h].at = handler[h].at
          /\ \A g \in Handlers : g # h => handler'[g] = handler[g] /\ Holding(g)' = Holding(g)
      BY <2>1, <1>0, <1>a DEF TypeOK, HandlerState, Holding
    <2>4. work'[k] = row /\ (\A j \in Work : j # k => work'[j] = work[j])
      BY <2>1, <1>0 DEF TypeOK
    <2>5. work[k].state = "leased" /\ work[k].owner = OwnerOf[h] /\ work[k].token = handler[h].token
      BY <2>1 DEF LiveFence
    <2>6. SampledInPast'
      BY <2>1, <2>3 DEF SampledInPast
    <2>7. FencesHeld'
      <3> SUFFICES ASSUME NEW g \in Handlers, Holding(g)' PROVE HeldFence(g)'
        BY DEF FencesHeld
      <3>1. CASE g = h
        BY <3>1, <2>2, <2>3, <2>4, <2>5, <1>a, <1>b DEF HeldFence, k, Row
      <3>2. CASE g # h
        <4>1. Holding(g) /\ handler'[g] = handler[g] /\ HeldFence(g)
          BY <3>2, <2>3 DEF FencesHeld
        <4>2. handler[g].work = k => handler[g].token # work[k].token
          BY <4>1, <3>2, <2>1, <2>5 DEF FenceUnique, k
        <4> QED BY <4>1, <4>2, <2>1, <2>2, <2>4, <1>a, <1>k DEF HeldFence, Overtaken
      <3> QED BY <3>1, <3>2
    <2>0. \A g \in Handlers :
             Holding(g)' => /\ Holding(g) /\ handler'[g].work = handler[g].work
                            /\ handler'[g].token = handler[g].token
      <3> TAKE g \in Handlers
      <3>1. CASE g = h
        BY <3>1, <2>1, <2>3
      <3>2. CASE g # h
        BY <3>2, <2>3
      <3> QED BY <3>1, <3>2
    <2>8. OrphanFences'
      <3>1. \A j \in Work : work'[j].token = work[j].token
        BY <2>2, <2>4
      <3>2. orphans' = orphans
        BY <2>1
      <3> SUFFICES ASSUME NEW q \in orphans, q.phase \in Fenced
                   PROVE  /\ q.token <= work'[q.work].token
                          /\ \A g \in Handlers : Holding(g)' =>
                                ~ (handler'[g].work = q.work /\ handler'[g].token = q.token)
        BY <3>2 DEF OrphanFences
      <3>3. q.token <= work[q.work].token /\ q.work \in Work
        BY <1>c DEF OrphanFences
      <3>4. q.token <= work'[q.work].token
        BY <3>1, <3>3
      <3> QED BY <3>4, <2>0 DEF OrphanFences
    <2>9. FenceUnique'
      BY <2>0 DEF FenceUnique
    <2>10. AbsentUnclaimed'
      BY <2>2, <2>4 DEF AbsentUnclaimed
    <2> QED BY <1>0, <2>6, <2>7, <2>8, <2>9, <2>10
  (* The requests of a disposition leave a row that exists, with its token. *)
  <1>i. ASSUME NEW r \in Row, NEW q, q.phase \in Fenced, q.at \in Nat, q.retryAt \in Nat,
               r.state # "absent"
        PROVE  Effect(r, q).token = r.token /\ Effect(r, q).state # "absent"
    BY <1>i, EffectFacts
       DEF Effect, RenewedRow, CompletedRow, RetriedRow, DeadLetteredRow, Released, Row
  <1>9. ASSUME NEW h \in Handlers, Finalize(h) PROVE IInv'
    <2> DEFINE k == handler[h].work
               row == Effect(work[k], handler[h])
    <2>1. /\ work' = [work EXCEPT ![k] = row] /\ k \in Work
          /\ handler' = [handler EXCEPT ![h] = Idle]
          /\ UNCHANGED <<now, orphans>> /\ Holding(h) /\ handler[h].phase \in Fenced
          /\ LiveFence(work[k], OwnerOf[h], handler[h].token, handler[h].at)
      BY <1>9, <1>a DEF Finalize, Accepts, Renewable, Holding, Fenced
    <2>2. row.token = work[k].token /\ row.state # "absent"
      BY <2>1, <1>a, <1>b, <1>i DEF HandlerState, LiveFence
    <2> HIDE DEF row
    <2>3. \A g \in Handlers : Holding(g)' =>
             ~ (handler[g].work = k /\ handler[g].token = work[k].token)
      <3> SUFFICES ASSUME NEW g \in Handlers, Holding(g)'
                   PROVE  ~ (handler[g].work = k /\ handler[g].token = work[k].token)
        OBVIOUS
      <3>1. g # h /\ Holding(g)
        BY <2>1, <1>e
      <3>2. work[k].token = handler[h].token
        BY <2>1 DEF LiveFence
      <3> QED BY <3>1, <3>2, <2>1 DEF FenceUnique
    <2> HIDE DEF k
    <2> QED BY <1>g, <1>e, <2>1, <2>2, <2>3 DEF SampledInPast
  <1>10. ASSUME NEW h \in Handlers, Stale(h) PROVE IInv'
    BY <1>10, <1>e, <1>f DEF Stale, SampledInPast
  <1>11. ASSUME NEW h \in Handlers, Abandon(h) PROVE IInv'
    <2> DEFINE o == [phase |-> handler[h].phase, owner |-> OwnerOf[h],
                     work |-> handler[h].work, token |-> handler[h].token,
                     at |-> handler[h].at, retryAt |-> handler[h].retryAt]
    <2>1. /\ handler' = [handler EXCEPT ![h] = Idle] /\ UNCHANGED <<now, work>>
          /\ \A q \in orphans' : q \in orphans \/ q = o
      BY <1>11 DEF Abandon
    <2>2. o.at <= now
      BY DEF SampledInPast
    <2>3. o.phase \in Fenced =>
             /\ o.token <= work[o.work].token
             /\ \A g \in Handlers : Holding(g)' =>
                   ~ (handler[g].work = o.work /\ handler[g].token = o.token)
      BY <2>1, <1>e DEF FencesHeld, HeldFence, FenceUnique, Holding
    <2> HIDE DEF o
    <2> QED BY <1>f, <1>e, <2>1, <2>2, <2>3 DEF SampledInPast
  <1>12. ASSUME NEW q \in orphans, NEW k \in Work, LateClaim(q, k) PROVE IInv'
    <2>1. q.at <= now /\ q.owner \in Owners /\ q.at \in Nat
      BY <1>c DEF SampledInPast, Orphan
    <2>2. \A g \in Handlers : /\ handler'[g].at <= now
                              /\ Holding(g)' => Holding(g) /\ handler'[g] = handler[g]
      BY <1>12 DEF LateClaim, Holding, SampledInPast
    <2>3. /\ work' = [work EXCEPT ![k] = ClaimedRow(work[k], q.owner, q.at, LeaseDuration)]
          /\ overlaps' = Overlapping(k, q.at) /\ UNCHANGED now /\ orphans' \subseteq orphans
      BY <1>12 DEF LateClaim
    <2> QED BY <1>h, <2>1, <2>2, <2>3
  <1>13. ASSUME NEW q \in orphans, LateFenced(q) PROVE IInv'
    <2> DEFINE row == Effect(work[q.work], q)
    <2>1. /\ work' = [work EXCEPT ![q.work] = row] /\ q.work \in Work
          /\ UNCHANGED <<now, handler>> /\ orphans' \subseteq orphans /\ q.phase \in Fenced
          /\ LiveFence(work[q.work], q.owner, q.token, q.at)
      BY <1>13, <1>c DEF LateFenced, Accepts, Renewable
    <2>2. row.token = work[q.work].token /\ row.state # "absent"
      BY <2>1, <1>b, <1>c, <1>i DEF Orphan, LiveFence
    <2> HIDE DEF row
    <2>3. \A g \in Handlers :
             /\ handler'[g].at <= now
             /\ Holding(g)' => /\ Holding(g) /\ handler'[g] = handler[g]
                               /\ ~ (handler[g].work = q.work
                                     /\ handler[g].token = work[q.work].token)
      BY <2>1 DEF OrphanFences, LiveFence, Holding, SampledInPast
    <2> QED BY <1>g, <2>1, <2>2, <2>3
  <1>14. ASSUME NEW c \in Commands, NEW k \in Work, ResolveRetry(c, k) PROVE IInv'
    <2>1. PICK t, d : /\ work' = [work EXCEPT ![k] = ReadmittedRow(work[k], t, d)]
                      /\ work[k].state = "dead" /\ UNCHANGED <<now, handler, orphans>>
      BY <1>14 DEF ResolveRetry, Resolve
    <2>2. /\ ReadmittedRow(work[k], t, d).token = work[k].token
          /\ ReadmittedRow(work[k], t, d).state # "absent"
      BY <1>b DEF ReadmittedRow, Released, Row
    <2>3. \A g \in Handlers :
             /\ handler'[g].at <= now
             /\ Holding(g)' => /\ Holding(g) /\ handler'[g] = handler[g]
                               /\ ~ (handler[g].work = k /\ handler[g].token = work[k].token)
      BY <2>1 DEF FencesHeld, HeldFence, Holding, SampledInPast
    <2> QED BY <1>g, <2>1, <2>2, <2>3
  <1>15. ASSUME NEW c \in Commands, NEW k \in Work, ResolveDiscard(c, k) PROVE IInv'
    <2>1. UNCHANGED <<now, work, handler, orphans>>
      BY <1>15 DEF ResolveDiscard, Resolve
    <2> QED BY <1>f, <2>1 DEF Holding, SampledInPast
  <1>16. CASE UNCHANGED vars
    <2>1. UNCHANGED <<now, work, handler, orphans>>
      BY <1>16 DEF vars
    <2> QED BY <1>f, <2>1 DEF Holding, SampledInPast
  <1> QED
    BY <1>1, <1>2, <1>3, <1>3a, <1>3b, <1>4, <1>5, <1>6, <1>7, <1>8, <1>9,
       <1>10, <1>11, <1>12, <1>13, <1>14, <1>15, <1>16 DEF Next, HandlerStep

(* IInv holds throughout every behaviour.                                  *)
LEMMA Inductive == Spec => []IInv
  BY InitIInv, NextIInv, PTL DEF Spec

(* No two handlers carry one fence for the same work, not even handlers of *)
(* one worker, and not even when claims overlap.                           *)
THEOREM FencesUnique == Spec => []FenceUnique
  <1>1. IInv => FenceUnique
    BY DEF IInv
  <1> QED BY <1>1, Inductive, PTL

(* A handler's own lease value tells it the truth: while the expiry it     *)
(* knows of lies ahead of the clock, the row in workflow_work is leased to *)
(* it under its token (claimWork, renewWork and the dispositions), and     *)
(* only a later claim that overlaps can have taken it away.                *)
THEOREM LeaseExclusion == Spec => []LiveLeaseBacked
  <1>1. IInv => LiveLeaseBacked
    <2> SUFFICES ASSUME IInv, NEW h \in Handlers, Holding(h), handler[h].expires > now
                 PROVE  \/ LeasedTo(h, handler[h].work)
                        \/ Overtaken(handler[h].work, handler[h].token)
      BY DEF LiveLeaseBacked
    <2>1. /\ HeldFence(h) /\ now \in Nat /\ handler[h].expires \in Nat
          /\ handler[h].token \in Nat /\ work[handler[h].work].token \in Nat
      BY DEF IInv, FencesHeld, TypeOK, HandlerState, Row
    <2>2. ~ (handler[h].expires <= now)
      BY <2>1
    <2> QED BY <2>1, <2>2 DEF HeldFence, LeasedTo
  <1> QED BY <1>1, Inductive, PTL

(* However claims overlap, the newest fence of a row that a handler holds  *)
(* is backed by the row: leased to that handler, and for at least as long  *)
(* as the handler believes (claimWork, renewWork, the dispositions and     *)
(* retryDeadLetter).                                                       *)
THEOREM NewestFenceHolds == Spec => []NewestFenceBacked
  <1>1. IInv => NewestFenceBacked
    BY DEF IInv, FencesHeld, HeldFence, NewestFenceBacked, LeasedTo
  <1> QED BY <1>1, Inductive, PTL

-----------------------------------------------------------------------------
(* What a step can do to one row: nothing, insert it, claim it (while due, *)
(* or it overtakes every fence so far), act on its live lease, or re-admit *)
(* its unresolved dead letter.  Only the claim changes the token.          *)
RowStep(k) ==
    \/ work'[k] = work[k]
    \/ work[k].state = "absent" /\ work'[k].token = work[k].token
    \/ /\ work'[k].token = work[k].token + 1
       /\ work'[k].state = "leased"
       /\ \/ work[k].state \in {"leased", "ready"}
          \/ \E o \in overlaps' : o[1] = k /\ o[2] > work[k].token
    \/ work[k].state = "leased" /\ work'[k].token = work[k].token
    \/ work[k].state = "dead" /\ work'[k].token = work[k].token /\ Unresolved(k)

(* A claim does to the row it takes what RowStep says.                     *)
LEMMA ClaimStep ==
    ASSUME TypeOK, NEW k \in Work, NEW o \in Owners, NEW at \in Nat,
           work' = [work EXCEPT ![k] = ClaimedRow(work[k], o, at, LeaseDuration)],
           overlaps' = Overlapping(k, at)
    PROVE  RowStep(k)
  <1>1. work[k] \in Row /\ work[k].token \in Nat
    BY DEF TypeOK, Row
  <1>2. work'[k] = ClaimedRow(work[k], o, at, LeaseDuration)
    BY DEF TypeOK
  <1>3. work'[k].token = work[k].token + 1 /\ work'[k].state = "leased"
    BY <1>1, <1>2, ClaimFacts
  <1>4. CASE Due(work[k], at)
    BY <1>1, <1>3, <1>4, ClaimFacts DEF RowStep
  <1>5. CASE ~Due(work[k], at)
    <2>1. \E p \in overlaps' : p[1] = k /\ p[2] > work[k].token
      BY <1>1, <1>5, OverlapFacts DEF Overtaken
    <2> QED BY <1>3, <2>1 DEF RowStep
  <1> QED BY <1>4, <1>5

(* Every step of the specification is a RowStep of every row.              *)
LEMMA NextRowStep ==
    ASSUME IInv, [Next]_vars, NEW k \in Work
    PROVE  RowStep(k)
  <1>0. TypeOK
    BY DEF IInv
  <1>b. \A j \in Work : work[j] \in Row /\ work[j].token \in Nat
    BY <1>0 DEF TypeOK, Row
  <1>a. \A h \in Handlers : handler[h] \in HandlerState /\ OwnerOf[h] \in Owners
    BY <1>0, LeaseAssumption DEF TypeOK
  <1>c. \A q \in orphans : q \in Orphan
    BY <1>0 DEF TypeOK
  <1>1. CASE UNCHANGED work
    BY <1>1 DEF RowStep
  <1>2. ASSUME NEW j \in Work, Insert(j) PROVE RowStep(k)
    <2>1. PICK a, d : work' = [work EXCEPT ![j] = InsertedRow(a, d)]
      BY <1>2 DEF Insert
    <2>2. j # k => work'[k] = work[k]
      BY <2>1, <1>0 DEF TypeOK
    <2>3. j = k => work'[k] = InsertedRow(a, d) /\ work[k].state = "absent" /\ work[k].token = 0
      BY <1>2, <2>1, <1>0 DEF TypeOK, Insert, IInv, AbsentUnclaimed
    <2>4. InsertedRow(a, d).token = 0
      BY DEF InsertedRow, AbsentRow
    <2> QED BY <2>2, <2>3, <2>4 DEF RowStep
  <1>3. ASSUME NEW h \in Handlers, Claim(h) PROVE RowStep(k)
    <2> DEFINE j == handler[h].work
    <2>1. /\ work' = [work EXCEPT ![j] =
                        ClaimedRow(work[j], OwnerOf[h], handler[h].at, LeaseDuration)]
          /\ overlaps' = Overlapping(j, handler[h].at)
      BY <1>3 DEF Claim
    <2> HIDE DEF j
    <2>2. CASE j # k
      BY <2>1, <2>2, <1>0 DEF TypeOK, RowStep
    <2>3. CASE j = k
      <3>1. handler[h].at \in Nat
        BY <1>a DEF HandlerState
      <3> QED BY <2>1, <2>3, <3>1, <1>0, <1>a, ClaimStep
    <2> QED BY <2>2, <2>3
  <1>4. ASSUME NEW h \in Handlers, Renew(h) \/ Finalize(h) PROVE RowStep(k)
    <2> DEFINE j == handler[h].work
    <2>1. /\ work' = [work EXCEPT ![j] = Effect(work[j], handler[h])]
          /\ handler[h].phase \in Fenced /\ Accepts(work[j], OwnerOf[h], handler[h])
      BY <1>4 DEF Renew, Finalize, Fenced
    <2>2. j # k => work'[k] = work[k]
      BY <2>1, <1>0 DEF TypeOK
    <2>3. j = k => work'[k] = Effect(work[k], handler[h]) /\ work[k].state = "leased"
      BY <2>1, <1>0 DEF TypeOK, Accepts, Renewable, LiveFence
    <2>4. Effect(work[k], handler[h]).token = work[k].token
      BY <2>1, <1>a, <1>b, EffectFacts DEF HandlerState
    <2> QED BY <2>2, <2>3, <2>4 DEF RowStep
  <1>5. ASSUME NEW q \in orphans, NEW j \in Work, LateClaim(q, j) PROVE RowStep(k)
    <2>1. /\ work' = [work EXCEPT ![j] = ClaimedRow(work[j], q.owner, q.at, LeaseDuration)]
          /\ overlaps' = Overlapping(j, q.at)
      BY <1>5 DEF LateClaim
    <2>2. CASE j # k
      BY <2>1, <2>2, <1>0 DEF TypeOK, RowStep
    <2>3. CASE j = k
      <3>1. q.at \in Nat /\ q.owner \in Owners
        BY <1>c DEF Orphan
      <3> QED BY <2>1, <2>3, <3>1, <1>0, ClaimStep
    <2> QED BY <2>2, <2>3
  <1>6. ASSUME NEW q \in orphans, LateFenced(q) PROVE RowStep(k)
    <2>1. /\ work' = [work EXCEPT ![q.work] = Effect(work[q.work], q)]
          /\ q.phase \in Fenced /\ Accepts(work[q.work], q.owner, q)
      BY <1>6 DEF LateFenced
    <2>2. q.work # k => work'[k] = work[k]
      BY <2>1, <1>0 DEF TypeOK
    <2>3. q.work = k => work'[k] = Effect(work[k], q) /\ work[k].state = "leased"
      BY <2>1, <1>0 DEF TypeOK, Accepts, Renewable, LiveFence
    <2>4. Effect(work[k], q).token = work[k].token
      BY <2>1, <1>c, <1>b, EffectFacts DEF Orphan
    <2> QED BY <2>2, <2>3, <2>4 DEF RowStep
  <1>7. ASSUME NEW c \in Commands, NEW j \in Work, ResolveRetry(c, j) PROVE RowStep(k)
    <2>1. PICK t, d : /\ work' = [work EXCEPT ![j] = ReadmittedRow(work[j], t, d)]
                      /\ work[j].state = "dead" /\ Unresolved(j)
      BY <1>7 DEF ResolveRetry, Resolve
    <2>2. j # k => work'[k] = work[k]
      BY <2>1, <1>0 DEF TypeOK
    <2>3. j = k => work'[k] = ReadmittedRow(work[k], t, d)
      BY <2>1, <1>0 DEF TypeOK
    <2>4. ReadmittedRow(work[k], t, d).token = work[k].token
      BY <1>b DEF ReadmittedRow, Released, Row
    <2> QED BY <2>1, <2>2, <2>3, <2>4 DEF RowStep
  <1> QED
    BY <1>1, <1>2, <1>3, <1>4, <1>5, <1>6, <1>7
       DEF Next, HandlerStep, Tick, BeginClaim, Scan, Skip, ClaimNothing, BeginRenew,
           BeginFinalize, Stale, Abandon, ResolveDiscard, vars

(* No statement of the store lowers a row's token, and only a claim raises *)
(* it.                                                                     *)
THEOREM TokensOnlyGrow == Spec => FencesOnlyGrow
  <1>1. ASSUME IInv, [Next]_vars, NEW k \in Work
        PROVE  work'[k].token # work[k].token =>
                  /\ work'[k].token = work[k].token + 1
                  /\ work'[k].state = "leased"
    BY <1>1, NextRowStep DEF RowStep
  <1>2. IInv /\ [Next]_vars =>
           [\A k \in Work :
               work'[k].token # work[k].token =>
                   /\ work'[k].token = work[k].token + 1
                   /\ work'[k].state = "leased"]_vars
    BY <1>1
  <1> QED BY <1>2, Inductive, PTL DEF Spec, FencesOnlyGrow

(* A discarded dead letter is never re-admitted: ResolveDeadLetter's       *)
(* unique (work, token) resolution shuts out a second command, and only a  *)
(* claim that overlaps can take the row again.                             *)
THEOREM DiscardedStaysDead == Spec => []DiscardIsFinal
  <1>1. Init => DiscardIsFinal
    BY DEF Init, DiscardIsFinal
  <1>2. ASSUME IInv, IInv', [Next]_vars, DiscardIsFinal PROVE DiscardIsFinal'
    <2> SUFFICES ASSUME NEW c \in Commands, resolutions'[c] # NoCommand,
                        resolutions'[c].action = "discard"
                 PROVE  \/ /\ work'[resolutions'[c].work].token = resolutions'[c].token
                           /\ work'[resolutions'[c].work].state = "dead"
                        \/ \E o \in overlaps' : /\ o[1] = resolutions'[c].work
                                                /\ o[2] > resolutions'[c].token
      BY DEF DiscardIsFinal, Overtaken
    <2> DEFINE k == resolutions'[c].work
    <2>0. /\ resolutions \in [Commands -> Resolution \cup {NoCommand}]
          /\ k \in Work /\ work[k].token \in Nat
      BY <1>2 DEF IInv, TypeOK, Resolution, Row
    <2>1. CASE resolutions'[c] = resolutions[c]
      <3>1. CASE work[k].token = resolutions[c].token /\ work[k].state = "dead"
        <4>1. ~Unresolved(k)
          BY <2>1, <3>1 DEF Unresolved
        <4>2. RowStep(k)
          BY <2>0, <1>2, NextRowStep
        <4> QED BY <3>1, <4>1, <4>2, <2>0, <2>1 DEF RowStep
      <3>2. CASE \E o \in overlaps : o[1] = k /\ o[2] > resolutions[c].token
        BY <3>2, <2>1, <1>2, OverlapsKept
      <3> QED BY <3>1, <3>2, <2>1, <1>2 DEF DiscardIsFinal, Overtaken
    <2>2. CASE resolutions'[c] # resolutions[c]
      <3>1. \/ \E d \in Commands, j \in Work : ResolveRetry(d, j)
            \/ \E d \in Commands, j \in Work : ResolveDiscard(d, j)
        <4>1. ~ UNCHANGED resolutions
          BY <2>2
        <4> QED BY <4>1, <1>2
           DEF Next, HandlerStep, Tick, Insert, BeginClaim, Claim, ClaimNothing, BeginRenew,
               BeginFinalize, Scan, Skip, Renew, Finalize, Stale, Abandon, LateClaim, LateFenced, vars
      <3>2. ASSUME NEW d \in Commands, NEW j \in Work, ResolveRetry(d, j) PROVE FALSE
        <4>0. PICK t, e : Resolve(d, j, [work |-> j, token |-> work[j].token,
                                         action |-> "retry", retryAt |-> t, deadline |-> e])
          BY <3>2 DEF ResolveRetry
        <4> DEFINE r == [work |-> j, token |-> work[j].token,
                         action |-> "retry", retryAt |-> t, deadline |-> e]
        <4>1. resolutions' = [resolutions EXCEPT ![d] = r]
          BY <4>0 DEF Resolve
        <4>2. r.action = "retry"
          OBVIOUS
        <4> HIDE DEF r
        <4> QED BY <4>1, <4>2, <2>0, <2>2
      <3>3. ASSUME NEW d \in Commands, NEW j \in Work, ResolveDiscard(d, j)
            PROVE  work'[k].token = resolutions'[c].token /\ work'[k].state = "dead"
        <4>1. PICK r : /\ resolutions' = [resolutions EXCEPT ![d] = r]
                       /\ r.work = j /\ r.token = work[j].token
                       /\ work[j].state = "dead" /\ work' = work
          BY <3>3 DEF ResolveDiscard, Resolve
        <4> QED BY <4>1, <2>0, <2>2
      <3> QED BY <3>1, <3>2, <3>3
    <2> QED BY <2>1, <2>2
  <1>3. IInv /\ IInv' /\ [Next]_vars /\ DiscardIsFinal => DiscardIsFinal'
    BY <1>2
  <1> QED BY <1>1, <1>3, Inductive, PTL DEF Spec
=============================================================================
