------------------------ MODULE StepExecutionProofs ------------------------
(***************************************************************************)
(* Proofs about the work processors of StepExecution, for any number of    *)
(* workers, units, attempts, commands and faults.                          *)
(***************************************************************************)
EXTENDS StepExecution, ReplayProofs, FiniteSetTheorems

Keys == WorkIDs \cup {NoKey} \cup (Done \X {1} \X {"auto"})

(* The instances of this module are replay's, with these keys and no       *)
(* waits.                                                                  *)
LEMMA InstanceTyped == Instance = Instances(Keys, {NoWait})
  BY DEF Instance, Instances, Progress, Progresses, Keys

-----------------------------------------------------------------------------
(* The transitions there are, by shape.                                    *)

First(t) == t.events[1]

Pendings == [id: WorkIDs, available: Nat, deadline: Nat]

(* The work a transition inserts, given its event about a unit.            *)
WorkFits(e, pending) ==
    /\ e.kind = "scheduled" =>
          \E k \in Pendings : pending = {k} /\ k.id[1] = e.step /\ k.id[2] = 1
    /\ e.kind = "retryScheduled" =>
          \E k \in Pendings : pending = {k} /\ k.id[1] = e.step /\ k.id[2] = e.attempt + 1
    /\ e.kind \notin {"scheduled", "retryScheduled"} => pending = {}

(* One event, about the unit of the work w.                                *)
Single(t, w) ==
    /\ w \in WorkIDs
    /\ t.expected \in Nat
    /\ t.events = <<First(t)>>
    /\ First(t) \in UnitEvents(Keys)
    /\ First(t).step = w[1]
    /\ WorkFits(First(t), t.work)

IsPair(x) == x = <<x[1], x[2]>>

StartShape(t) ==
    /\ IsPair(t.id)
    /\ t.id[2] = "start"
    /\ Single(t, t.id[1])
    /\ First(t).kind = "attemptStarted"
    /\ First(t).attempt = t.id[1][2]
    /\ First(t).key = t.id[1]
    /\ First(t).dueAt = First(t).at + Timeout

OutcomeShape(t) ==
    /\ t.id[2] = "outcome"
    /\ Single(t, t.id[1])
    /\ First(t).kind \in {"succeeded", "failed", "unknown", "started"}
    /\ First(t).attempt = t.id[1][2]

RetryShape(t) ==
    /\ t.id[2] = "retry"
    /\ Single(t, t.id[1])
    /\ First(t).kind = "retryScheduled"

(* What processors commit.                                                 *)
Staged(t) == StartShape(t) \/ OutcomeShape(t) \/ RetryShape(t)

(* What the application and the operator commit.                           *)
Lone(t) ==
    /\ t.events = <<First(t)>>
    /\ First(t) \in UnitEvents(Keys)
    /\ First(t).kind \in {"scheduled", "childCompleted", "childFailed"}
    /\ WorkFits(First(t), t.work)

Audited(t) ==
    /\ t.events = <<First(t), t.events[2]>>
    /\ First(t) \in InstanceEvents
    /\ First(t).kind = "operatorRecorded"

AuditedUnit(t) ==
    /\ Audited(t)
    /\ t.events[2] \in UnitEvents(Keys)
    /\ t.events[2].kind \in {"retryScheduled", "scheduled", "manuallyResolved"}
    /\ WorkFits(t.events[2], t.work)

AuditedLifecycle(t) ==
    /\ Audited(t)
    /\ t.events[2] \in InstanceEvents
    /\ t.events[2].kind \in LifecycleKinds
    /\ t.events[2].action = NoAction
    /\ t.work = {}

Outside(t) ==
    /\ t.id[2] \in {"schedule", "child", "operator"}
    /\ t.expected \in Nat
    /\ Lone(t) \/ AuditedUnit(t) \/ AuditedLifecycle(t)

Recorded(t) == Staged(t) \/ Outside(t)

-----------------------------------------------------------------------------
(* What a transition does to the instance.                                 *)

(* Replay accepts the transition t, whose event about a unit is e.         *)
Takes(i, j, e) ==
    /\ j.status = i.status
    /\ Move(Kind[e.step], i.units[e.step], j.units[e.step], e)
    /\ \A v \in Units : v # e.step => j.units[v] = i.units[v]

Main(t) == IF t.events = <<First(t)>> THEN First(t) ELSE t.events[2]

Accepted(i, j, t) ==
    /\ i.valid
    /\ j.valid
    /\ j.sequence = i.sequence + Len(t.events)
    /\ j.pendingOperator = NoAction
    /\ IF AuditedLifecycle(t) THEN j.units = i.units ELSE Takes(i, j, Main(t))

(* One event about a unit is accepted or makes the history unreadable.     *)
LEMMA LandingSingle ==
    ASSUME NEW i \in Instance, NEW t, NEW e \in UnitEvents(Keys), t.events = <<e>>,
           e = First(t)
    PROVE  LET j == Appended(i, t.events)
           IN  j \in Instance /\ (Breaks(i, j) \/ Accepted(i, j, t))
<1> DEFINE j == Apply(i, e)
<1>1. Appended(i, t.events) = j
  BY AppendedOne
<1>2. NoKey \in Keys
  BY DEF Keys
<1>3. j \in Instance /\ (Advances(i, j, e) \/ Breaks(i, j))
  BY <1>2, UnitEventApplied, InstanceTyped
<1>4. Len(t.events) = 1 /\ Main(t) = e
  BY DEF Main
<1>5. ~AuditedLifecycle(t)
  <2>1. ASSUME AuditedLifecycle(t) PROVE FALSE
    <3>1. First(t) \in InstanceEvents
      BY <2>1 DEF AuditedLifecycle, Audited
    <3>2. e.step \in Units /\ e.step \in {""}
      BY <3>1 DEF InstanceEvents, UnitEvents
    <3> QED
      BY <3>2, StepsApart
  <2> QED
    BY <2>1
<1>6. Advances(i, j, e) => Accepted(i, j, t)
  <2> HIDE DEF j
  <2> QED
    BY <1>4, <1>5 DEF Advances, Accepted, Takes
<1> QED
  BY <1>1, <1>3, <1>6

(* So do an audit and its action together.                                 *)
LEMMA LandingAudited ==
    ASSUME NEW i \in Instance, NEW t, AuditedUnit(t) \/ AuditedLifecycle(t)
    PROVE  LET j == Appended(i, t.events)
           IN  j \in Instance /\ (Breaks(i, j) \/ Accepted(i, j, t))
<1> DEFINE a == First(t)
<1> DEFINE e == t.events[2]
<1> DEFINE m == Apply(i, a)
<1> DEFINE j == Apply(m, e)
<1>1. t.events = <<a, e>> /\ a \in InstanceEvents /\ a.kind = "operatorRecorded"
  BY DEF AuditedUnit, AuditedLifecycle, Audited
<1>2. Appended(i, t.events) = j /\ Len(t.events) = 2
  <2> HIDE DEF a, e, m
  <2>1. Appended(i, <<a, e>>) = Apply(m, e)
    BY AppendedTwo DEF m
  <2> QED
    BY <1>1, <2>1
<1>3. NoKey \in Keys
  BY DEF Keys
<1>4. m \in Instance /\ (Changes(i, m, a) \/ Breaks(i, m))
  BY <1>1, InstanceEventApplied, InstanceTyped
<1>5. "operatorRecorded" \notin LifecycleKinds
  BY DEF LifecycleKinds
<1> HIDE DEF m
<1>6. CASE AuditedUnit(t)
  <2>1. e \in UnitEvents(Keys)
    BY <1>6 DEF AuditedUnit
  <2>2. /\ j \in Instance
        /\ IF m.valid /\ Timely(m, e) /\ UnitAccepts(m, e) THEN Advances(m, j, e) ELSE Breaks(m, j)
    BY <1>3, <1>4, <2>1, UnitEventApplied, InstanceTyped
  <2>3. ~AuditedLifecycle(t) /\ Main(t) = e
    <3>1. t.events # <<First(t)>>
      BY <1>1
    <3>2. e.step # ""
      BY <2>1, StepsApart DEF UnitEvents
    <3> QED
      BY <3>1, <3>2 DEF Main, AuditedLifecycle, InstanceEvents
  <2> HIDE DEF j, e
  <2>4. CASE Breaks(i, m) \/ Breaks(m, j)
    <3>1. Breaks(i, m) => ~m.valid
      BY DEF Breaks
    <3>2. Breaks(m, j)
      BY <2>2, <2>4, <3>1
    <3>3. m.units = i.units /\ m.waits = i.waits
      BY <1>4, InstanceTyped DEF Breaks, Changes, Instances, NoWait
    <3> QED
      BY <1>2, <2>2, <3>2, <3>3 DEF Breaks
  <2>5. CASE Changes(i, m, a) /\ Advances(m, j, e)
    <3>1. Accepted(i, j, t)
      <4>1. i.sequence \in Nat /\ m.sequence \in Nat
        BY <1>4 DEF Instance
      <4> QED
        BY <1>1, <1>2, <1>5, <2>3, <2>5, <4>1 DEF Changes, Advances, Accepted, Takes
    <3> QED
      BY <1>2, <2>2, <3>1
  <2> QED
    BY <1>4, <2>2, <2>4, <2>5
<1>7. CASE AuditedLifecycle(t)
  <2>1. e \in InstanceEvents /\ e.action = NoAction
    BY <1>7 DEF AuditedLifecycle
  <2>2. /\ j \in Instance
        /\ IF m.valid /\ Timely(m, e) /\ InstanceAccepts(m, e) THEN Changes(m, j, e) ELSE Breaks(m, j)
    BY <1>4, <2>1, InstanceEventApplied, InstanceTyped
  <2> HIDE DEF j, e
  <2>3. CASE Breaks(i, m) \/ Breaks(m, j)
    <3>1. Breaks(i, m) => ~m.valid
      BY DEF Breaks
    <3>2. Breaks(m, j)
      BY <2>2, <2>3, <3>1
    <3>3. m.units = i.units /\ m.waits = i.waits
      BY <1>4, InstanceTyped DEF Breaks, Changes, Instances, NoWait
    <3> QED
      BY <1>2, <2>2, <3>2, <3>3 DEF Breaks
  <2>4. CASE Changes(i, m, a) /\ Changes(m, j, e)
    <3>1. Accepted(i, j, t)
      <4>1. i.sequence \in Nat /\ m.sequence \in Nat
        BY <1>4 DEF Instance
      <4> QED
        BY <1>2, <1>7, <2>1, <2>4, <4>1 DEF Changes, Accepted
    <3> QED
      BY <1>2, <2>2, <3>1
  <2> QED
    BY <1>4, <2>2, <2>3, <2>4
<1> QED
  BY <1>6, <1>7

(* A transition is replayed whole or leaves a history nobody can read.     *)
LEMMA Landing ==
    ASSUME NEW i \in Instance, NEW t, Recorded(t)
    PROVE  LET j == Appended(i, t.events)
           IN  j \in Instance /\ (Breaks(i, j) \/ Accepted(i, j, t))
<1>1. CASE Staged(t) \/ Lone(t)
  <2>1. t.events = <<First(t)>> /\ First(t) \in UnitEvents(Keys)
    BY <1>1 DEF Staged, StartShape, OutcomeShape, RetryShape, Single, Lone
  <2> QED
    BY <2>1, LandingSingle
<1> QED
  BY <1>1, LandingAudited DEF Recorded, Outside

-----------------------------------------------------------------------------
(* What a readable history says: of a unit u with progress p, given the    *)
(* committed transitions c and the work rows k.                            *)

StartOf(t, u, n) == t.id[2] = "start" /\ t.id[1][1] = u /\ t.id[1][2] = n

OutcomeOf(t, u, n) == t.id[2] = "outcome" /\ t.id[1][1] = u /\ t.id[1][2] = n

Present(k, w) == k[w].state # "absent"

RowOf(k, w, u, n) == w[1] = u /\ w[2] = n /\ Present(k, w)

(* An outcome has been recorded; a known failure that may be tried again.  *)
EndedAs(c, u, n, kind, retryable) ==
    \E t \in c : OutcomeOf(t, u, n) /\ First(t).kind = kind /\ First(t).retryable = retryable

FailedOnce(c, u, n) == EndedAs(c, u, n, "failed", TRUE)

HasOutcome(c, u, n) == \E t \in c : OutcomeOf(t, u, n)

(* The last attempt there is work for.                                     *)
Reach(p) == IF p.status \in {"ready", "retryWaiting"} THEN p.attempt + 1 ELSE p.attempt

(* The progress agrees with itself, ...                                    *)
Shaped(u, p) ==
    /\ p.status \in {"none", "ready"} => p.attempt = 0
    /\ p.status \in {"running", "failed", "retryWaiting"} => p.attempt >= 1
    /\ p.status \in {"none", "ready", "failed", "unknown", "manuallyResolved", "active"} => p.dueAt = 0
    /\ p.status = "running" => p.dueAt # 0
    /\ p.status = "manuallyResolved" => Kind[u] = "compensation"
    /\ p.status = "childFailed" => Kind[u] = "child"

(* ... with the starts ...                                                 *)
StartsAgree(u, p, c) ==
    /\ \A t \in c : \A n \in Nat : StartOf(t, u, n) => n <= p.attempt
    /\ \A s, t \in c : \A n \in Nat : StartOf(s, u, n) /\ StartOf(t, u, n) => s = t
    /\ p.dueAt # 0 /\ p.status # "retryWaiting" =>
          \E t \in c : StartOf(t, u, p.attempt) /\ First(t).dueAt = p.dueAt

(* The last attempt has ended with an outcome of its own, ...              *)
Concluded(u, p) ==
    \/ p.status \in {"failed", "unknown", "manuallyResolved", "active", "retryWaiting"}
    \/ p.status = "succeeded" /\ Kind[u] # "child"

(* ... and the outcomes that were committed ...                            *)
OutcomesAgree(u, p, c) ==
    /\ \A n \in 1 .. p.attempt - 1 : FailedOnce(c, u, n)
    /\ p.status = "retryWaiting" => FailedOnce(c, u, p.attempt)
    /\ p.status = "failed" => EndedAs(c, u, p.attempt, "failed", p.retryable)
    /\ Concluded(u, p) => HasOutcome(c, u, p.attempt)

(* ... and with the work, of which every attempt has one piece.            *)
RowsAgree(u, p, k) ==
    /\ p.attempt >= 1 => p.key \in WorkIDs /\ RowOf(k, p.key, u, p.attempt)
    /\ \A v, w \in WorkIDs : \A n \in Nat : RowOf(k, v, u, n) /\ RowOf(k, w, u, n) => v = w
    /\ ~ReportedAs(u, p) =>
          /\ \A w \in WorkIDs : \A n \in Nat : RowOf(k, w, u, n) => n <= Reach(p)
          /\ \A n \in 1 .. Reach(p) : \E w \in WorkIDs : RowOf(k, w, u, n)

UnitHistory(u, p, c, k) ==
    Shaped(u, p) /\ StartsAgree(u, p, c) /\ OutcomesAgree(u, p, c) /\ RowsAgree(u, p, k)

History(i, c, k) ==
    /\ \A u \in Units \ Done : UnitHistory(u, i.units[u], c, k)
    /\ \A u \in Done : i.units[u].status = "succeeded"

-----------------------------------------------------------------------------
(* A unit keeps agreeing when others move.                                 *)
LEMMA UnitHistoryFrame ==
    ASSUME NEW u \in Units \ Done, NEW p \in Progresses(Keys), NEW c, NEW d, NEW k, NEW l,
           UnitHistory(u, p, c, k),
           c \subseteq d,
           \A t \in d \ c : t.id[2] = "start" => t.id[1][1] # u,
           \A w \in WorkIDs : w[1] = u => (Present(l, w) <=> Present(k, w))
    PROVE  UnitHistory(u, p, d, l)
<1>1. StartsAgree(u, p, d)
  <2>1. \A t \in d : \A n \in Nat : StartOf(t, u, n) => t \in c
    BY DEF StartOf
  <2> QED
    BY <2>1 DEF UnitHistory, StartsAgree
<1>2. OutcomesAgree(u, p, d)
  <2>1. \A n, x, y : EndedAs(c, u, n, x, y) => EndedAs(d, u, n, x, y)
    BY DEF EndedAs
  <2>2. \A n : HasOutcome(c, u, n) => HasOutcome(d, u, n)
    BY DEF HasOutcome
  <2> QED
    BY <2>1, <2>2 DEF UnitHistory, OutcomesAgree, FailedOnce
<1>3. RowsAgree(u, p, l)
  <2>1. \A w \in WorkIDs : \A n : RowOf(l, w, u, n) <=> RowOf(k, w, u, n)
    BY DEF RowOf
  <2>2. Reach(p) \in Nat
    BY DEF Reach, Progresses
  <2> QED
    BY <2>1, <2>2 DEF UnitHistory, RowsAgree
<1> QED
  BY <1>1, <1>2, <1>3 DEF UnitHistory

(* The event about a unit tells what kind of transition it came in.        *)
LEMMA MainFits ==
    ASSUME NEW t, Recorded(t), ~AuditedLifecycle(t)
    PROVE  /\ Main(t) \in UnitEvents(Keys)
           /\ WorkFits(Main(t), t.work)
           /\ Main(t).kind = "attemptStarted" => StartShape(t) /\ Main(t) = First(t)
           /\ Main(t).kind \in {"succeeded", "failed", "unknown", "started"} =>
                 OutcomeShape(t) /\ Main(t) = First(t)
           /\ t.id[2] = "start" => StartShape(t) /\ Main(t) = First(t)
           /\ t.id[2] = "outcome" => OutcomeShape(t) /\ Main(t) = First(t)
<1>1. CASE Staged(t)
  <2>1. Main(t) = First(t)
    BY <1>1 DEF Staged, StartShape, OutcomeShape, RetryShape, Single, Main
  <2> QED
    BY <1>1, <2>1 DEF Staged, StartShape, OutcomeShape, RetryShape, Single
<1>2. CASE Outside(t) /\ Lone(t)
  <2>1. Main(t) = First(t)
    BY <1>2 DEF Lone, Main
  <2> QED
    BY <1>2, <2>1 DEF Lone, Outside
<1>3. CASE Outside(t) /\ AuditedUnit(t)
  <2>1. t.events = <<First(t), t.events[2]>>
    BY <1>3 DEF AuditedUnit, Audited
  <2>2. t.events # <<First(t)>>
    BY <2>1
  <2>3. Main(t) = t.events[2]
    BY <2>2 DEF Main
  <2> QED
    BY <1>3, <2>3 DEF AuditedUnit, Outside
<1> QED
  BY <1>1, <1>2, <1>3 DEF Recorded, Outside

(* The rows l are the rows k and those the transition t inserts.           *)
Inserts(t, k, l) ==
    /\ \A x \in t.work : x.id \in WorkIDs /\ ~Present(k, x.id)
    /\ \A w \in WorkIDs : Present(l, w) <=> Present(k, w) \/ \E x \in t.work : x.id = w

(* A unit keeps agreeing when it moves itself.                             *)
LEMMA UnitHistoryMoves ==
    ASSUME NEW u \in Units \ Done, NEW p \in Progresses(Keys), NEW q \in Progresses(Keys),
           NEW c, NEW k, NEW l, NEW t,
           UnitHistory(u, p, c, k),
           Recorded(t), ~AuditedLifecycle(t), Main(t).step = u,
           Move(Kind[u], p, q, Main(t)),
           Inserts(t, k, l),
           t.id[2] = "start" => Present(k, t.id[1])
    PROVE  UnitHistory(u, q, c \cup {t}, l)
<1> DEFINE e == Main(t)
<1> DEFINE d == c \cup {t}
<1>1. /\ e \in UnitEvents(Keys)
      /\ WorkFits(e, t.work)
      /\ e.kind = "attemptStarted" => StartShape(t) /\ e = First(t)
      /\ e.kind \in {"succeeded", "failed", "unknown", "started"} => OutcomeShape(t) /\ e = First(t)
      /\ t.id[2] = "start" => StartShape(t) /\ e = First(t)
      /\ t.id[2] = "outcome" => OutcomeShape(t) /\ e = First(t)
  BY MainFits
<1> HIDE DEF e
<1>2. p.attempt \in Nat /\ q.attempt \in Nat /\ p.dueAt \in Nat /\ q.dueAt \in Nat
  BY DEF Progresses
<1>3. e.attempt \in Nat /\ e.at \in Nat /\ e.dueAt \in Nat /\ e.step = u
  BY <1>1 DEF UnitEvents, e
<1>4. Move(Kind[u], p, q, e)
  BY DEF e
<1>f. /\ \A n : FailedOnce(c, u, n) => FailedOnce(d, u, n)
      /\ \A n : HasOutcome(c, u, n) => HasOutcome(d, u, n)
  BY DEF FailedOnce, EndedAs, HasOutcome
<1>g. e.kind # "attemptStarted" => t.id[2] # "start"
  BY <1>1 DEF StartShape
<1>5. Shaped(u, p) /\ StartsAgree(u, p, c) /\ OutcomesAgree(u, p, c) /\ RowsAgree(u, p, k)
  BY DEF UnitHistory
(* When the transition is no start, the starts stay as they are; when it   *)
(* inserts nothing, the rows.                                              *)
<1>6. ASSUME e.kind # "attemptStarted", q.attempt = p.attempt,
             q.dueAt # 0 /\ q.status # "retryWaiting" => q.dueAt = p.dueAt /\ p.status # "retryWaiting"
      PROVE  StartsAgree(u, q, d)
  <2>1. \A s \in d : \A n \in Nat : StartOf(s, u, n) => s \in c
    BY <1>6, <1>g DEF StartOf
  <2> QED
    BY <1>5, <1>6, <2>1 DEF StartsAgree
<1>7. ASSUME e.kind \notin {"scheduled", "retryScheduled"}
      PROVE  \A w \in WorkIDs : \A n : RowOf(l, w, u, n) <=> RowOf(k, w, u, n)
  <2>1. t.work = {}
    BY <1>1, <1>7 DEF WorkFits
  <2> QED
    BY <2>1 DEF Inserts, RowOf
<1>8. ASSUME e.kind \notin {"scheduled", "retryScheduled"}, q.attempt = p.attempt, q.key = p.key,
             Reach(q) = Reach(p) \/ ReportedAs(u, q), ReportedAs(u, p) => ReportedAs(u, q)
      PROVE  RowsAgree(u, q, l)
  <2>1. Reach(p) \in Nat
    BY <1>2 DEF Reach
  <2> QED
    BY <1>5, <1>7, <1>8, <2>1 DEF RowsAgree
<1>s. CASE e.kind = "scheduled" /\ Scheduling(p, q)
  <2>1. /\ q.status = "ready" /\ q.attempt = 0 /\ q.dueAt = 0
        /\ p.status = "none" /\ p.attempt = 0 /\ p.dueAt = 0
    BY <1>5, <1>s DEF Scheduling, NoProgress, Shaped
  <2>2. Shaped(u, q)
    BY <2>1 DEF Shaped
  <2>3. StartsAgree(u, q, d)
    BY <1>6, <1>s, <2>1
  <2>4. OutcomesAgree(u, q, d)
    <3>1. 1 .. q.attempt - 1 = {}
      BY <2>1
    <3> QED
      BY <2>1, <3>1 DEF OutcomesAgree, Concluded
  <2>5. RowsAgree(u, q, l)
    <3>1. PICK x \in Pendings : t.work = {x} /\ x.id[1] = u /\ x.id[2] = 1
      BY <1>1, <1>3, <1>s DEF WorkFits
    <3>2. x.id \in WorkIDs
      BY DEF Pendings
    <3>3. \A w \in WorkIDs : \A n \in Nat : ~RowOf(k, w, u, n)
      <4>1. ~ReportedAs(u, p) /\ Reach(p) = 0
        BY <2>1 DEF ReportedAs, Reach
      <4>2. \A w \in WorkIDs : w[2] >= 1
        BY DEF WorkIDs
      <4> QED
        BY <1>5, <4>1, <4>2 DEF RowsAgree, RowOf
    <3>4. \A w \in WorkIDs : \A n \in Nat : RowOf(l, w, u, n) <=> w = x.id /\ n = 1
      BY <3>1, <3>2, <3>3 DEF Inserts, RowOf
    <3>5. Reach(q) = 1 /\ ~(q.attempt >= 1)
      BY <2>1 DEF Reach
    <3>6. \A n \in 1 .. 1 : n = 1
      OBVIOUS
    <3> QED
      BY <3>2, <3>4, <3>5, <3>6 DEF RowsAgree
  <2> QED
    BY <2>2, <2>3, <2>4, <2>5 DEF UnitHistory
<1>a. CASE e.kind = "attemptStarted" /\ Starting(p, q, e)
  <2>1. /\ q.status = "running" /\ q.attempt = p.attempt + 1 /\ q.dueAt = e.dueAt /\ q.key = e.key
        /\ e.attempt = p.attempt + 1
        /\ p.status \in {"ready", "retryWaiting"}
    BY <1>a DEF Starting, AttemptStarts
  <2>2. StartShape(t) /\ e = First(t) /\ t.id[1] \in WorkIDs
    BY <1>1, <1>a DEF StartShape, Single
  <2>3. e.dueAt # 0 /\ e.key = t.id[1] /\ t.id[1][1] = u /\ t.id[1][2] = q.attempt /\ t.id[2] = "start"
    BY <1>3, <2>1, <2>2, PolicyAssumption DEF StartShape, Single
  <2>4. Shaped(u, q)
    BY <1>2, <2>1, <2>3 DEF Shaped
  <2>5. StartsAgree(u, q, d)
    <3>1. StartOf(t, u, q.attempt) /\ First(t).dueAt = q.dueAt
      BY <2>1, <2>2, <2>3 DEF StartOf
    <3>2. \A n \in Nat : StartOf(t, u, n) => n = q.attempt
      BY <2>3 DEF StartOf
    <3>3. \A s \in c : \A n \in Nat : StartOf(s, u, n) => n <= p.attempt
      BY <1>5 DEF StartsAgree
    <3>4. \A s, r \in c : \A n \in Nat : StartOf(s, u, n) /\ StartOf(r, u, n) => s = r
      BY <1>5 DEF StartsAgree
    <3> QED
      BY <1>2, <2>1, <3>1, <3>2, <3>3, <3>4 DEF StartsAgree
  <2>6. OutcomesAgree(u, q, d)
    <3>1. ASSUME NEW n \in 1 .. q.attempt - 1
          PROVE  FailedOnce(d, u, n)
      <4>1. CASE n = p.attempt
        <5>1. p.status = "retryWaiting"
          BY <1>2, <1>5, <2>1, <4>1 DEF Shaped
        <5> QED
          BY <1>5, <1>f, <4>1, <5>1 DEF OutcomesAgree
      <4>2. CASE n # p.attempt
        <5>1. n \in 1 .. p.attempt - 1
          BY <1>2, <2>1, <4>2
        <5> QED
          BY <1>5, <1>f, <5>1 DEF OutcomesAgree
      <4> QED
        BY <4>1, <4>2
    <3> QED
      BY <2>1, <3>1 DEF OutcomesAgree, Concluded
  <2>7. RowsAgree(u, q, l)
    <3>1. \A w \in WorkIDs : \A n : RowOf(l, w, u, n) <=> RowOf(k, w, u, n)
      BY <1>7, <1>a
    <3>2. RowOf(l, t.id[1], u, q.attempt)
      BY <2>2, <2>3, <3>1 DEF RowOf
    <3>3. Reach(q) = Reach(p) /\ Reach(p) \in Nat /\ ~ReportedAs(u, p)
      BY <1>2, <2>1 DEF Reach, ReportedAs
    <3> QED
      BY <1>5, <2>1, <2>2, <2>3, <3>1, <3>2, <3>3 DEF RowsAgree
  <2> QED
    BY <2>4, <2>5, <2>6, <2>7 DEF UnitHistory
<1>o. CASE e.kind \in {"succeeded", "failed", "unknown"} /\ Ending(p, q, e)
           /\ (e.kind = "succeeded" => Kind[u] # "child")
  <2>1. /\ q.status = e.kind /\ q.attempt = p.attempt /\ q.dueAt = 0 /\ q.key = p.key
        /\ q.retryable = e.retryable /\ p.status = "running" /\ e.attempt = p.attempt
    BY <1>o DEF Ending, activityOutcomeAllowed, Progresses
  <2>2. OutcomeShape(t) /\ e = First(t)
    BY <1>1, <1>o
  <2>3. OutcomeOf(t, u, q.attempt)
    BY <1>3, <2>1, <2>2 DEF OutcomeShape, Single, OutcomeOf
  <2>4. Shaped(u, q)
    BY <1>5, <1>o, <2>1 DEF Shaped
  <2>5. StartsAgree(u, q, d)
    BY <1>6, <1>o, <2>1
  <2>6. OutcomesAgree(u, q, d)
    <3>1. HasOutcome(d, u, q.attempt)
      BY <2>3 DEF HasOutcome
    <3>2. q.status = "failed" => EndedAs(d, u, q.attempt, "failed", q.retryable)
      BY <2>1, <2>2, <2>3 DEF EndedAs
    <3>3. \A n \in 1 .. q.attempt - 1 : FailedOnce(d, u, n)
      BY <1>5, <1>f, <2>1 DEF OutcomesAgree
    <3>4. q.status # "retryWaiting"
      BY <1>o, <2>1
    <3> QED
      BY <3>1, <3>2, <3>3, <3>4 DEF OutcomesAgree
  <2>7. RowsAgree(u, q, l)
    <3>1. Reach(q) = Reach(p) /\ ~ReportedAs(u, p)
      BY <1>o, <2>1 DEF Reach, ReportedAs
    <3> QED
      BY <1>8, <1>o, <2>1, <3>1
  <2> QED
    BY <2>4, <2>5, <2>6, <2>7 DEF UnitHistory
<1>v. CASE e.kind = "started" /\ Kind[u] = "child" /\ Activating(p, q, e)
  <2>1. /\ q.status = "active" /\ q.attempt = p.attempt /\ q.dueAt = 0 /\ q.key = p.key
        /\ p.status = "running" /\ e.attempt = p.attempt
    BY <1>v DEF Activating, activityOutcomeAllowed, Progresses
  <2>2. OutcomeShape(t) /\ e = First(t)
    BY <1>1, <1>v
  <2>3. OutcomeOf(t, u, q.attempt)
    BY <1>3, <2>1, <2>2 DEF OutcomeShape, Single, OutcomeOf
  <2>4. Shaped(u, q)
    BY <1>5, <2>1 DEF Shaped
  <2>5. StartsAgree(u, q, d)
    BY <1>6, <1>v, <2>1
  <2>6. OutcomesAgree(u, q, d)
    <3>1. HasOutcome(d, u, q.attempt)
      BY <2>3 DEF HasOutcome
    <3>2. \A n \in 1 .. q.attempt - 1 : FailedOnce(d, u, n)
      BY <1>5, <1>f, <2>1 DEF OutcomesAgree
    <3> QED
      BY <2>1, <3>1, <3>2 DEF OutcomesAgree
  <2>7. RowsAgree(u, q, l)
    <3>1. Reach(q) = Reach(p) /\ ~ReportedAs(u, p)
      BY <2>1 DEF Reach, ReportedAs
    <3> QED
      BY <1>8, <1>v, <2>1, <3>1
  <2> QED
    BY <2>4, <2>5, <2>6, <2>7 DEF UnitHistory
<1>r. CASE e.kind = "retryScheduled" /\ Retrying(p, q, e)
  <2>1. /\ q.status = "retryWaiting" /\ q.attempt = p.attempt /\ q.key = p.key
        /\ p.status = "failed" /\ p.retryable = TRUE /\ e.attempt = p.attempt
    BY <1>r DEF Retrying, RetryFollows, Progresses
  <2>4. Shaped(u, q)
    BY <1>5, <2>1 DEF Shaped
  <2>5. StartsAgree(u, q, d)
    BY <1>6, <1>r, <2>1
  <2>6. OutcomesAgree(u, q, d)
    BY <1>5, <1>f, <2>1 DEF OutcomesAgree, Concluded, FailedOnce
  <2>7. RowsAgree(u, q, l)
    <3>1. PICK x \in Pendings : t.work = {x} /\ x.id[1] = u /\ x.id[2] = p.attempt + 1
      BY <1>1, <1>3, <1>r, <2>1 DEF WorkFits
    <3>2. x.id \in WorkIDs /\ Reach(p) = p.attempt /\ Reach(q) = p.attempt + 1
      BY <2>1 DEF Pendings, Reach
    <3>3. ~ReportedAs(u, p) /\ ~ReportedAs(u, q)
      BY <2>1 DEF ReportedAs
    <3>4. \A w \in WorkIDs : \A n \in Nat :
             RowOf(l, w, u, n) <=> RowOf(k, w, u, n) \/ (w = x.id /\ n = p.attempt + 1)
      BY <1>2, <3>1, <3>2 DEF Inserts, RowOf
    <3>5. \A w \in WorkIDs : \A n \in Nat : RowOf(k, w, u, n) => n <= p.attempt
      BY <1>5, <3>2, <3>3 DEF RowsAgree
    <3>6. \A n \in 1 .. p.attempt + 1 : n \in 1 .. p.attempt \/ n = p.attempt + 1
      BY <1>2
    <3>7. \A n \in 1 .. Reach(q) : \E w \in WorkIDs : RowOf(l, w, u, n)
      <4>1. \A n \in 1 .. p.attempt : \E w \in WorkIDs : RowOf(k, w, u, n)
        BY <1>5, <3>2, <3>3 DEF RowsAgree
      <4>2. p.attempt + 1 \in Nat /\ \A n \in 1 .. p.attempt : n \in Nat
        BY <1>2
      <4> QED
        BY <3>2, <3>4, <3>6, <4>1, <4>2
    <3>8. \A w \in WorkIDs : \A n \in Nat : RowOf(l, w, u, n) => n <= Reach(q)
      BY <1>2, <3>2, <3>4, <3>5
    <3>9. \A v, w \in WorkIDs : \A n \in Nat : RowOf(l, v, u, n) /\ RowOf(l, w, u, n) => v = w
      <4>1. \A v, w \in WorkIDs : \A n \in Nat : RowOf(k, v, u, n) /\ RowOf(k, w, u, n) => v = w
        BY <1>5 DEF RowsAgree
      <4>2. \A w \in WorkIDs : ~RowOf(k, w, u, p.attempt + 1)
        BY <1>2, <3>5
      <4> QED
        BY <3>4, <4>1, <4>2
    <3>10. q.attempt >= 1 => q.key \in WorkIDs /\ RowOf(l, q.key, u, q.attempt)
      BY <1>2, <1>5, <2>1, <3>4 DEF RowsAgree
    <3> QED
      BY <3>7, <3>8, <3>9, <3>10 DEF RowsAgree
  <2> QED
    BY <2>4, <2>5, <2>6, <2>7 DEF UnitHistory
<1>m. CASE e.kind = "manuallyResolved" /\ Kind[u] = "compensation" /\ Resolving(p, q)
  <2>1. /\ q.status = "manuallyResolved" /\ q.attempt = p.attempt /\ q.key = p.key
        /\ q.dueAt = p.dueAt /\ p.status \in {"failed", "unknown"}
    BY <1>m DEF Resolving, Progresses
  <2>2. p.dueAt = 0
    BY <1>5, <2>1 DEF Shaped
  <2>4. Shaped(u, q)
    BY <1>m, <2>1, <2>2 DEF Shaped
  <2>5. StartsAgree(u, q, d)
    BY <1>6, <1>m, <2>1, <2>2
  <2>6. OutcomesAgree(u, q, d)
    BY <1>5, <1>f, <2>1 DEF OutcomesAgree, Concluded
  <2>7. RowsAgree(u, q, l)
    <3>1. Reach(q) = Reach(p) /\ ~ReportedAs(u, p)
      BY <2>1 DEF Reach, ReportedAs
    <3> QED
      BY <1>8, <1>m, <2>1, <3>1
  <2> QED
    BY <2>4, <2>5, <2>6, <2>7 DEF UnitHistory
<1>c. CASE e.kind \in {"childCompleted", "childFailed"} /\ Kind[u] = "child"
           /\ (Reporting(p, q, "succeeded") \/ Reporting(p, q, "childFailed"))
  <2>1. /\ q.status \in {"succeeded", "childFailed"} /\ q.attempt = p.attempt /\ q.key = p.key
        /\ q.dueAt = p.dueAt /\ p.status \in {"ready", "running", "active", "unknown"}
    BY <1>c DEF Reporting, childTerminalOutcomeAllowed, Progresses
  <2>4. Shaped(u, q)
    BY <1>5, <1>c, <2>1 DEF Shaped
  <2>5. StartsAgree(u, q, d)
    BY <1>6, <1>c, <2>1
  <2>6. OutcomesAgree(u, q, d)
    BY <1>5, <1>c, <1>f, <2>1 DEF OutcomesAgree, Concluded
  <2>7. RowsAgree(u, q, l)
    <3>1. ReportedAs(u, q)
      BY <1>c, <2>1 DEF ReportedAs
    <3> QED
      BY <1>8, <1>c, <2>1, <3>1
  <2> QED
    BY <2>4, <2>5, <2>6, <2>7 DEF UnitHistory
<1> QED
  BY <1>4, <1>s, <1>a, <1>o, <1>v, <1>r, <1>m, <1>c DEF Move
-----------------------------------------------------------------------------
(* The inductive invariant, over the values of the variables: n is now, sq *)
(* the sequence, c the committed transitions, i the instance, k the work   *)
(* rows, pr the processors, wi the wire, ru the runs and ef the effects.   *)

Begun(c, u, n) == \E t \in c : StartOf(t, u, n)

AttemptOf(w) == <<w[1], w[2]>>

(* What a processor's transition rests on.                                 *)
Sound(t, c, k, ef) ==
    /\ t.id[2] = "start" => Present(k, t.id[1])
    /\ t.id[2] = "outcome" => Begun(c, t.id[1][1], t.id[1][2])
    /\ t.id[2] = "outcome" /\ First(t).kind \in {"succeeded", "started"} =>
          AttemptOf(t.id[1]) \in ef
    /\ t.id[2] = "retry" => FailedOnce(c, t.id[1][1], First(t).attempt)

(* The checks its constructor made, on the instance it was built from.     *)
Built(i, t) ==
    LET e == First(t)
        u == t.id[1][1]
        progress == i.units[u]
    IN  /\ i.valid
        /\ e.at >= i.updatedAt
        /\ t.id[2] = "start" => AttemptStarts(progress, e) /\ StatusAllows(Kind[u], i.status)
        /\ t.id[2] = "outcome" =>
              /\ activityOutcomeAllowed(progress, e)
              /\ IF Kind[u] = "child"
                 THEN i.status = "running" /\ e.kind \in ChildStartOutcomeKinds
                 ELSE e.kind \in OutcomeKinds
        /\ t.id[2] = "retry" =>
              /\ RetryFollows(progress, e)
              /\ Kind[u] # "activity" => StatusAllows(Kind[u], i.status)

(* A transition that may still be committed.                               *)
Ready(t, sq, c, i, k, ef) ==
    /\ Staged(t)
    /\ Sound(t, c, k, ef)
    /\ t.expected <= sq
    /\ t.expected = sq => Built(i, t)

(* A transition that has been.                                             *)
Durable(t, sq, c, k, ef) ==
    /\ Recorded(t)
    /\ Staged(t) => Sound(t, c, k, ef)
    /\ t.expected < sq

-----------------------------------------------------------------------------
(* Processors.                                                             *)

Leases == [work: WorkIDs, token: Nat, claimedAt: Nat, expires: Nat, available: Nat, deadline: Nat]

Staging == Committing \cup {"reconcile"}

LeaseFits(lease, k) ==
    /\ lease \in Leases
    /\ k[lease.work].state \in {"leased", "completed", "dead"}
    /\ k[lease.work].state = "leased" => lease.expires <= k[lease.work].expires

InLease(t, lease) ==
    t.id[2] = "start" => First(t).at >= lease.claimedAt /\ First(t).at < lease.expires

(* The attempt of w has an outcome, or its child a fate.                   *)
Accounted(w, c, i) == HasOutcome(c, w[1], w[2]) \/ ReportedAs(w[1], i.units[w[1]])

(* There is work for the attempt after that of w.                          *)
Superseded(w, k) == \E v \in WorkIDs : RowOf(k, v, w[1], w[2] + 1)

(* The handler was called under the deadline its start persisted, on the   *)
(* instance as it was then.                                                *)
Called(r, sq, c, i) ==
    /\ \E t \in c :
          /\ t.id = processorTransitionID(r.lease.work, "start")
          /\ First(t).dueAt = r.snapshot.units[r.lease.work[1]].dueAt
    /\ r.snapshot.valid
    /\ r.snapshot.sequence <= sq
    /\ r.snapshot.sequence = sq => r.snapshot = i

Fit(r, sq, c, i, k, ef) ==
    /\ StateShape(r) /\ r.pc \in PCs /\ r.snapshot \in Instance
    /\ r.pc # "idle" => LeaseFits(r.lease, k)
    /\ r.pc \in Staging =>
          /\ Ready(r.tx, sq, c, i, k, ef)
          /\ r.tx.id[1] = r.lease.work
          /\ InLease(r.tx, r.lease)
          /\ r.tx.id[2] = "retry" => HasOutcome(c, r.lease.work[1], r.lease.work[2])
    /\ r.pc = "inspect" =>
          /\ r.tx \in c
          /\ StartShape(r.tx)
          /\ r.tx.id[1] = r.lease.work
          /\ InLease(r.tx, r.lease)
    /\ r.pc = "handler" => Called(r, sq, c, i)
    /\ r.pc = "after" => r.tx \in c /\ OutcomeShape(r.tx) /\ r.tx.id[1] = r.lease.work
    /\ r.pc = "finish" =>
          IF r.decision = "complete" THEN Accounted(r.lease.work, c, i)
                                     ELSE Superseded(r.lease.work, k)

(* The attempt whose durable start lets a processor call the handler.      *)
Entitled(r, c) ==
    r.pc \in Staging \cup {"inspect"} /\ r.tx.id[2] = "start" /\ r.tx \in c

Pooled(t, c, pr, wi) ==
    t \in c \/ t \in wi \/ \E p \in Workers : pr[p].pc \in Staging /\ t = pr[p].tx

(* No known outcome of the attempt a is committed or about to be.          *)
Unsettled(a, c, pr, wi) ==
    \A t : Pooled(t, c, pr, wi) /\ OutcomeOf(t, a[1], a[2]) => First(t).kind = "unknown"

(* Nor a known failure.                                                    *)
NeverFailed(a, c, pr, wi) ==
    \A t : Pooled(t, c, pr, wi) /\ OutcomeOf(t, a[1], a[2]) => First(t).kind # "failed"

Apart(l, m) == l.work = m.work => l.expires <= m.claimedAt \/ m.expires <= l.claimedAt

-----------------------------------------------------------------------------
(* The parts of the invariant.                                             *)

RowsFit(n, c, i, k) ==
    /\ k \in [WorkIDs -> Row]
    /\ \A w \in WorkIDs :
          /\ k[w].state = "leased" =>
                k[w].expires <= k[w].deadline /\ k[w].expires <= n + LeaseDuration
          /\ k[w].state = "completed" => Accounted(w, c, i)
          /\ k[w].state = "dead" => Superseded(w, k)
          /\ Present(k, w) /\ w[2] > 1 => FailedOnce(c, w[1], w[2] - 1)

CallsFit(c, ru, ef) ==
    /\ ru \in [Attempts -> Nat]
    /\ ef \subseteq Attempts
    /\ \A a \in Attempts :
          /\ ru[a] <= 1
          /\ a \in ef => ru[a] = 1
          /\ ru[a] = 1 /\ a[1] \notin Done => Begun(c, a[1], a[2])

SuccessFits(i, ef) ==
    \A u \in Units :
        \/ Kind[u] # "child" /\ i.units[u].status = "succeeded"
        \/ i.units[u].status = "active"
        => <<u, i.units[u].attempt>> \in ef

StoreFits(sq, c, i, k, ru, ef) ==
    /\ sq \in Nat
    /\ i \in Instance
    /\ \A t \in c : Durable(t, sq, c, k, ef)
    /\ CallsFit(c, ru, ef)
    /\ SuccessFits(i, ef)
    /\ i.valid => i.sequence = sq /\ i.pendingOperator = NoAction /\ History(i, c, k)

ProcessorsFit(sq, c, i, k, pr, wi, ru, ef) ==
    /\ pr = [p \in Workers |-> pr[p]]
    /\ \A p \in Workers : Fit(pr[p], sq, c, i, k, ef)
    /\ \A p \in Workers : pr[p].pc = "handler" => ru[AttemptOf(pr[p].lease.work)] = 1
    /\ \A p, q \in Workers :
          p # q /\ pr[p].pc # "idle" /\ pr[q].pc # "idle" => Apart(pr[p].lease, pr[q].lease)
    /\ \A t \in wi : Ready(t, sq, c, i, k, ef)
    /\ i.valid => \A p \in Workers : Entitled(pr[p], c) =>
          LET a == AttemptOf(pr[p].lease.work)
          IN  ru[a] = 0 /\ Unsettled(a, c, pr, wi)
    /\ \A a \in ef : Kind[a[1]] = "child" => NeverFailed(a, c, pr, wi)

Inv(n, sq, c, i, k, pr, wi, ru, ef) ==
    /\ n \in Nat
    /\ RowsFit(n, c, i, k)
    /\ StoreFits(sq, c, i, k, ru, ef)
    /\ ProcessorsFit(sq, c, i, k, pr, wi, ru, ef)

IInv ==
    /\ Inv(now, sequence, committed, instance, work, proc, wire, runs, effects)
    /\ faults \in Nat

-----------------------------------------------------------------------------
(* What stays true when transitions are committed, rows are inserted or    *)
(* changed and attempts take effect.                                       *)

Grown(c, d, k, l, ef, eg) ==
    /\ c \subseteq d
    /\ ef \subseteq eg
    /\ \A w \in WorkIDs : Present(k, w) => Present(l, w)

(* Records of attempts stay.                                               *)
LEMMA RecordsStay ==
    ASSUME NEW c, NEW d, c \subseteq d
    PROVE  /\ \A u, n, x, y : EndedAs(c, u, n, x, y) => EndedAs(d, u, n, x, y)
           /\ \A u, n : FailedOnce(c, u, n) => FailedOnce(d, u, n)
           /\ \A u, n : HasOutcome(c, u, n) => HasOutcome(d, u, n)
           /\ \A u, n : Begun(c, u, n) => Begun(d, u, n)
  BY DEF EndedAs, FailedOnce, HasOutcome, Begun

(* What a staged transition rests on stays.                                *)
LEMMA SoundStays ==
    ASSUME NEW t, NEW c, NEW d, NEW k, NEW l, NEW ef, NEW eg,
           Staged(t), Sound(t, c, k, ef), Grown(c, d, k, l, ef, eg)
    PROVE  Sound(t, d, l, eg)
<1>1. t.id[1] \in WorkIDs
  BY DEF Staged, StartShape, OutcomeShape, RetryShape, Single
<1>2. c \subseteq d
  BY DEF Grown
<1> QED
  BY <1>1, <1>2, RecordsStay DEF Sound, Grown

(* Overtaken work stays overtaken.                                         *)
LEMMA SupersededStays ==
    ASSUME NEW w, NEW c, NEW d, NEW k, NEW l, NEW ef, NEW eg,
           Superseded(w, k), Grown(c, d, k, l, ef, eg)
    PROVE  Superseded(w, l)
  BY DEF Superseded, RowOf, Grown

(* Reports(i, j): a child that has been reported on stays so.              *)
Reports(i, j) == \A u \in Units : ReportedAs(u, i.units[u]) => ReportedAs(u, j.units[u])

(* Accounted work stays accounted for.                                     *)
LEMMA AccountedStays ==
    ASSUME NEW w \in WorkIDs, NEW c, NEW d, NEW i, NEW j,
           Accounted(w, c, i), c \subseteq d, Reports(i, j)
    PROVE  Accounted(w, d, j)
<1>1. w[1] \in Units
  BY DEF WorkIDs
<1> QED
  BY <1>1, RecordsStay DEF Accounted, Reports

(* The sequence moves on, or the instance is what it was.                  *)
Onward(sq, sr, i, j) == (sq \in Nat /\ sr \in Nat) /\ (sq < sr \/ (sr = sq /\ j = i))

(* A transition that may be committed may be so later, or is stale.        *)
LEMMA ReadyStays ==
    ASSUME NEW t, NEW sq, NEW sr, NEW c, NEW d, NEW i, NEW j, NEW k, NEW l, NEW ef, NEW eg,
           Ready(t, sq, c, i, k, ef), Grown(c, d, k, l, ef, eg), Onward(sq, sr, i, j)
    PROVE  Ready(t, sr, d, j, l, eg)
<1>1. Staged(t) /\ Sound(t, d, l, eg)
  BY SoundStays DEF Ready
<1>2. t.expected \in Nat
  BY DEF Ready, Staged, StartShape, OutcomeShape, RetryShape, Single
<1> QED
  BY <1>1, <1>2 DEF Ready, Onward

(* What is durable stays so.                                               *)
LEMMA DurableStays ==
    ASSUME NEW t, NEW sq, NEW sr, NEW c, NEW d, NEW i, NEW j, NEW k, NEW l, NEW ef, NEW eg,
           Durable(t, sq, c, k, ef), Grown(c, d, k, l, ef, eg), Onward(sq, sr, i, j)
    PROVE  Durable(t, sr, d, l, eg)
<1>1. Staged(t) => Sound(t, d, l, eg)
  BY SoundStays DEF Durable
<1>2. t.expected \in Nat
  BY DEF Durable, Recorded, Outside, Staged, StartShape, OutcomeShape, RetryShape, Single
<1> QED
  BY <1>1, <1>2 DEF Durable, Onward

(* A processor that does not move stays fit.                               *)
LEMMA FitStays ==
    ASSUME NEW r, NEW sq, NEW sr, NEW c, NEW d, NEW i, NEW j, NEW k, NEW l, NEW ef, NEW eg,
           Fit(r, sq, c, i, k, ef), Grown(c, d, k, l, ef, eg), Onward(sq, sr, i, j),
           r.pc # "idle" => LeaseFits(r.lease, l),
           Reports(i, j)
    PROVE  Fit(r, sr, d, j, l, eg)
<1>1. c \subseteq d
  BY DEF Grown
<1>2. r.pc # "idle" => r.lease.work \in WorkIDs
  BY DEF LeaseFits, Leases
<1>3. r.pc \in Staging => Ready(r.tx, sr, d, j, l, eg) /\ r.pc # "idle"
  <2>1. "idle" \notin Staging
    BY DEF Staging, Committing
  <2> QED
    BY <2>1, ReadyStays DEF Fit
<1>4. r.pc = "handler" => Called(r, sr, d, j)
  <2> SUFFICES ASSUME r.pc = "handler" PROVE Called(r, sr, d, j)
    OBVIOUS
  <2>1. Called(r, sq, c, i)
    BY DEF Fit
  <2>2. r.snapshot.sequence \in Nat
    BY DEF Fit, Instance
  <2> QED
    BY <1>1, <2>1, <2>2 DEF Called, Onward
<1>5. r.pc = "finish" => IF r.decision = "complete" THEN Accounted(r.lease.work, d, j)
                                                     ELSE Superseded(r.lease.work, l)
  BY <1>1, <1>2, AccountedStays, SupersededStays DEF Fit
<1>6. r.pc \in Staging /\ r.tx.id[2] = "retry" => HasOutcome(d, r.lease.work[1], r.lease.work[2])
  BY <1>1, RecordsStay DEF Fit
<1> QED
  BY <1>1, <1>3, <1>4, <1>5, <1>6 DEF Fit

(* Two processors are never entitled to the same attempt: their starts     *)
(* would be one, read from the clock inside two leases of one work.        *)
LEMMA EntitledApart ==
    ASSUME NEW sq, NEW c, NEW i, NEW k, NEW pr, NEW wi, NEW ru, NEW ef,
           StoreFits(sq, c, i, k, ru, ef), ProcessorsFit(sq, c, i, k, pr, wi, ru, ef),
           i.valid, NEW p \in Workers, NEW q \in Workers, p # q,
           Entitled(pr[p], c), Entitled(pr[q], c)
    PROVE  AttemptOf(pr[p].lease.work) # AttemptOf(pr[q].lease.work)
<1>1. ASSUME NEW o \in Workers, Entitled(pr[o], c)
      PROVE  /\ pr[o].tx \in c
             /\ StartShape(pr[o].tx)
             /\ pr[o].tx.id[1] = pr[o].lease.work
             /\ InLease(pr[o].tx, pr[o].lease)
             /\ pr[o].lease \in Leases
             /\ pr[o].pc # "idle"
  <2>1. Fit(pr[o], sq, c, i, k, ef)
    BY DEF ProcessorsFit
  <2>2. pr[o].pc # "idle" /\ pr[o].tx.id[2] = "start" /\ pr[o].tx \in c
        /\ pr[o].pc \in Staging \cup {"inspect"}
    BY <1>1 DEF Entitled, Staging, Committing
  <2>3. pr[o].pc \in Staging => StartShape(pr[o].tx)
    BY <2>1, <2>2 DEF Fit, Ready, Staged, OutcomeShape, RetryShape
  <2> QED
    BY <2>1, <2>2, <2>3 DEF Fit, LeaseFits
<1>2. SUFFICES ASSUME AttemptOf(pr[p].lease.work) = AttemptOf(pr[q].lease.work) PROVE FALSE
  OBVIOUS
<1> DEFINE w == pr[p].lease.work
<1>3. w \in WorkIDs /\ pr[q].lease.work \in WorkIDs
  BY <1>1 DEF Leases
<1>4. pr[q].lease.work[1] = w[1] /\ pr[q].lease.work[2] = w[2] /\ w[1] \in Units \ Done /\ w[2] \in Nat
  BY <1>2, <1>3 DEF AttemptOf, WorkIDs
<1>5. StartOf(pr[p].tx, w[1], w[2]) /\ StartOf(pr[q].tx, w[1], w[2])
  BY <1>1, <1>4 DEF StartOf, StartShape
<1>6. pr[p].tx = pr[q].tx
  <2>1. StartsAgree(w[1], i.units[w[1]], c)
    BY <1>4 DEF StoreFits, History, UnitHistory
  <2> QED
    BY <1>1, <1>4, <1>5, <2>1 DEF StartsAgree
<1>7. pr[p].lease.work = pr[q].lease.work
  BY <1>1, <1>6
<1>8. Apart(pr[p].lease, pr[q].lease)
  BY <1>1 DEF ProcessorsFit
<1>9. /\ First(pr[p].tx).at \in Nat
      /\ pr[p].lease.claimedAt \in Nat /\ pr[p].lease.expires \in Nat
      /\ pr[q].lease.claimedAt \in Nat /\ pr[q].lease.expires \in Nat
  BY <1>1 DEF Leases, StartShape, Single, UnitEvents
<1>10. /\ First(pr[p].tx).at >= pr[p].lease.claimedAt /\ First(pr[p].tx).at < pr[p].lease.expires
       /\ First(pr[p].tx).at >= pr[q].lease.claimedAt /\ First(pr[p].tx).at < pr[q].lease.expires
  BY <1>1, <1>6 DEF InLease, StartShape
<1> QED
  BY <1>7, <1>8, <1>9, <1>10 DEF Apart
-----------------------------------------------------------------------------
(* A processor p moves on to r, and the wire to xi; the store, the rows    *)
(* and the calls stay.                                                     *)

(* A transition that p is about to offer takes nothing away from others.   *)
Harmless(t, p, c, i, pr, ef) ==
    \A u, m : OutcomeOf(t, u, m) =>
        /\ \/ First(t).kind = "unknown"
           \/ \A q \in Workers : i.valid /\ q # p /\ Entitled(pr[q], c) =>
                  AttemptOf(pr[q].lease.work) # <<u, m>>
        /\ First(t).kind = "failed" /\ Kind[u] = "child" => <<u, m>> \notin ef

Turns(p, r, xi, sq, c, i, k, pr, wi, ru, ef) ==
    /\ Fit(r, sq, c, i, k, ef)
    /\ r.pc = "handler" => ru[AttemptOf(r.lease.work)] = 1
    /\ r.pc # "idle" =>
          \A q \in Workers : q # p /\ pr[q].pc # "idle" => Apart(r.lease, pr[q].lease)
    /\ \A t \in xi : Ready(t, sq, c, i, k, ef) /\ Pooled(t, c, pr, wi)
    /\ i.valid /\ Entitled(r, c) => Entitled(pr[p], c) /\ r.lease.work = pr[p].lease.work
    /\ r.pc \in Staging => Pooled(r.tx, c, pr, wi) \/ Harmless(r.tx, p, c, i, pr, ef)

(* A processor that turns so keeps the invariant.                          *)
LEMMA TurnKeeps ==
    ASSUME NEW n, NEW sq, NEW c, NEW i, NEW k, NEW pr, NEW wi, NEW ru, NEW ef,
           Inv(n, sq, c, i, k, pr, wi, ru, ef),
           NEW p \in Workers, NEW r, NEW xi,
           Turns(p, r, xi, sq, c, i, k, pr, wi, ru, ef)
    PROVE  Inv(n, sq, c, i, k, [pr EXCEPT ![p] = r], xi, ru, ef)
<1> DEFINE ps == [pr EXCEPT ![p] = r]
<1>1. pr = [q \in Workers |-> pr[q]]
  BY DEF Inv, ProcessorsFit
<1>2. /\ ps = [q \in Workers |-> ps[q]]
      /\ ps[p] = r
      /\ \A q \in Workers : q # p => ps[q] = pr[q]
  <2>1. ps = [q \in Workers |-> IF q = p THEN r ELSE pr[q]]
    BY <1>1
  <2> HIDE DEF ps
  <2> QED
    BY <2>1
<1> HIDE DEF ps
<1>3. \A q \in Workers : Fit(ps[q], sq, c, i, k, ef)
  BY <1>2 DEF Turns, Inv, ProcessorsFit
<1>4. \A q \in Workers : ps[q].pc = "handler" => ru[AttemptOf(ps[q].lease.work)] = 1
  BY <1>2 DEF Turns, Inv, ProcessorsFit
<1>5. \A o, q \in Workers :
         o # q /\ ps[o].pc # "idle" /\ ps[q].pc # "idle" => Apart(ps[o].lease, ps[q].lease)
  <2>1. \A l, m : Apart(l, m) => Apart(m, l)
    BY DEF Apart
  <2> QED
    BY <1>2, <2>1 DEF Turns, Inv, ProcessorsFit
<1>6. \A t \in xi : Ready(t, sq, c, i, k, ef)
  BY DEF Turns
<1>7. \A t : Pooled(t, c, ps, xi) =>
         Pooled(t, c, pr, wi) \/ (r.pc \in Staging /\ t = r.tx /\ Harmless(t, p, c, i, pr, ef))
  <2> SUFFICES ASSUME NEW t, Pooled(t, c, ps, xi), ~Pooled(t, c, pr, wi)
               PROVE  r.pc \in Staging /\ t = r.tx /\ Harmless(t, p, c, i, pr, ef)
    OBVIOUS
  <2>1. t \notin c /\ t \notin xi
    BY DEF Pooled, Turns
  <2>2. PICK q \in Workers : ps[q].pc \in Staging /\ t = ps[q].tx
    BY <2>1 DEF Pooled
  <2>3. q = p
    BY <1>2, <2>2 DEF Pooled
  <2> QED
    BY <1>2, <2>2, <2>3 DEF Turns
<1>8. i.valid => \A q \in Workers : Entitled(ps[q], c) =>
         LET a == AttemptOf(ps[q].lease.work)
         IN  ru[a] = 0 /\ Unsettled(a, c, ps, xi)
  <2> SUFFICES ASSUME i.valid, NEW q \in Workers, Entitled(ps[q], c)
               PROVE  LET a == AttemptOf(ps[q].lease.work)
                      IN  ru[a] = 0 /\ Unsettled(a, c, ps, xi)
    OBVIOUS
  <2> DEFINE w == ps[q].lease.work
  <2>1. Entitled(pr[q], c) /\ pr[q].lease.work = w
    BY <1>2 DEF Turns
  <2>2. ru[AttemptOf(w)] = 0 /\ Unsettled(AttemptOf(w), c, pr, wi)
    BY <2>1 DEF Inv, ProcessorsFit
  <2>3. ASSUME NEW t, Pooled(t, c, ps, xi), OutcomeOf(t, AttemptOf(w)[1], AttemptOf(w)[2])
        PROVE  First(t).kind = "unknown"
    <3>1. CASE Pooled(t, c, pr, wi)
      BY <2>2, <2>3, <3>1 DEF Unsettled
    <3>2. CASE q = p /\ t = r.tx
      BY <1>2, <2>3, <3>2 DEF Entitled, OutcomeOf
    <3>3. CASE q # p /\ Harmless(t, p, c, i, pr, ef)
      <4>1. AttemptOf(w) = <<AttemptOf(w)[1], AttemptOf(w)[2]>>
        BY DEF AttemptOf
      <4> HIDE DEF w
      <4> QED
        BY <2>1, <2>3, <3>3, <4>1 DEF Harmless
    <3> QED
      BY <1>7, <2>3, <3>1, <3>2, <3>3
  <2> QED
    BY <2>2, <2>3 DEF Unsettled
<1>9. \A a \in ef : Kind[a[1]] = "child" => NeverFailed(a, c, ps, xi)
  <2> SUFFICES ASSUME NEW a \in ef, Kind[a[1]] = "child",
                      NEW t, Pooled(t, c, ps, xi), OutcomeOf(t, a[1], a[2])
               PROVE  First(t).kind # "failed"
    BY DEF NeverFailed
  <2>1. CASE Pooled(t, c, pr, wi)
    BY <2>1 DEF Inv, ProcessorsFit, NeverFailed
  <2>2. CASE Harmless(t, p, c, i, pr, ef)
    <3>1. a = <<a[1], a[2]>>
      BY DEF Inv, StoreFits, CallsFit, Attempts
    <3> QED
      BY <2>2, <3>1 DEF Harmless
  <2> QED
    BY <1>7, <2>1, <2>2
<1>10. ProcessorsFit(sq, c, i, k, ps, xi, ru, ef)
  BY <1>2, <1>3, <1>4, <1>5, <1>6, <1>8, <1>9 DEF ProcessorsFit
<1> QED
  BY <1>10 DEF Inv, ps

-----------------------------------------------------------------------------
(* The attempt a is called, or takes effect; eg are the effects then.      *)
LEMMA CallKeeps ==
    ASSUME NEW n, NEW sq, NEW c, NEW i, NEW k, NEW pr, NEW wi, NEW ru, NEW ef,
           Inv(n, sq, c, i, k, pr, wi, ru, ef),
           NEW a \in Attempts, NEW rv, NEW eg,
           Begun(c, a[1], a[2]),
           rv = [ru EXCEPT ![a] = 1],
           \A p \in Workers : i.valid /\ Entitled(pr[p], c) => AttemptOf(pr[p].lease.work) # a,
           ef \subseteq eg, eg \subseteq ef \cup {a},
           a \in eg /\ a \notin ef /\ Kind[a[1]] = "child" => NeverFailed(a, c, pr, wi)
    PROVE  Inv(n, sq, c, i, k, pr, wi, rv, eg)
<1>1. CallsFit(c, rv, eg)
  BY DEF Inv, StoreFits, CallsFit
<1>2. Grown(c, c, k, k, ef, eg) /\ Onward(sq, sq, i, i) /\ Reports(i, i)
  BY DEF Grown, Onward, Reports, Inv, StoreFits
<1>3. StoreFits(sq, c, i, k, rv, eg)
  <2>1. \A t \in c : Durable(t, sq, c, k, eg)
    BY <1>2, DurableStays DEF Inv, StoreFits
  <2>2. SuccessFits(i, eg)
    BY DEF Inv, StoreFits, SuccessFits
  <2> QED
    BY <1>1, <2>1, <2>2 DEF Inv, StoreFits
<1>4. \A p \in Workers : Fit(pr[p], sq, c, i, k, eg)
  <2> SUFFICES ASSUME NEW p \in Workers PROVE Fit(pr[p], sq, c, i, k, eg)
    OBVIOUS
  <2>1. Fit(pr[p], sq, c, i, k, ef)
    BY DEF Inv, ProcessorsFit
  <2>2. pr[p].pc # "idle" => LeaseFits(pr[p].lease, k)
    BY <2>1 DEF Fit
  <2> QED
    BY <1>2, <2>1, <2>2, FitStays
<1>5. ru \in [Attempts -> Nat]
  BY DEF Inv, StoreFits, CallsFit
<1>6. \A p \in Workers : pr[p].pc = "handler" => rv[AttemptOf(pr[p].lease.work)] = 1
  <2> SUFFICES ASSUME NEW p \in Workers, pr[p].pc = "handler"
               PROVE  rv[AttemptOf(pr[p].lease.work)] = 1
    OBVIOUS
  <2>1. pr[p].lease \in Leases /\ ru[AttemptOf(pr[p].lease.work)] = 1
    BY DEF Inv, ProcessorsFit, Fit, LeaseFits
  <2>2. AttemptOf(pr[p].lease.work) \in Attempts
    BY <2>1 DEF Leases, WorkIDs, AttemptOf, Attempts
  <2> QED
    BY <1>5, <2>1, <2>2
<1>7. \A t \in wi : Ready(t, sq, c, i, k, eg)
  BY <1>2, ReadyStays DEF Inv, ProcessorsFit
<1>8. i.valid => \A p \in Workers : Entitled(pr[p], c) =>
         LET b == AttemptOf(pr[p].lease.work)
         IN  rv[b] = 0 /\ Unsettled(b, c, pr, wi)
  <2> SUFFICES ASSUME i.valid, NEW p \in Workers, Entitled(pr[p], c)
               PROVE  LET b == AttemptOf(pr[p].lease.work)
                      IN  rv[b] = 0 /\ Unsettled(b, c, pr, wi)
    OBVIOUS
  <2> DEFINE b == AttemptOf(pr[p].lease.work)
  <2>1. ru[b] = 0 /\ Unsettled(b, c, pr, wi) /\ b # a
    BY DEF Inv, ProcessorsFit
  <2>2. b \in Attempts
    <3>1. pr[p].lease \in Leases
      BY DEF Inv, ProcessorsFit, Fit, LeaseFits, Entitled, Staging, Committing
    <3> QED
      BY <3>1 DEF Leases, WorkIDs, AttemptOf, Attempts
  <2> HIDE DEF b
  <2>3. rv[b] = 0
    BY <1>5, <2>1, <2>2
  <2> QED
    BY <2>1, <2>3 DEF b
<1>9. \A b \in eg : Kind[b[1]] = "child" => NeverFailed(b, c, pr, wi)
  BY DEF Inv, ProcessorsFit
<1>10. ProcessorsFit(sq, c, i, k, pr, wi, rv, eg)
  <2>1. /\ pr = [p \in Workers |-> pr[p]]
        /\ \A p, q \in Workers :
              p # q /\ pr[p].pc # "idle" /\ pr[q].pc # "idle" => Apart(pr[p].lease, pr[q].lease)
    BY DEF Inv, ProcessorsFit
  <2> QED
    BY <1>4, <1>6, <1>7, <1>8, <1>9, <2>1 DEF ProcessorsFit
<1> QED
  BY <1>3, <1>10 DEF Inv
-----------------------------------------------------------------------------
(* The row of the work w changes, and is there before and after.           *)

RowTurns(w, row, n, c, i, k, pr) ==
    /\ row \in Row
    /\ row.state # "absent"
    /\ Present(k, w)
    /\ row.state = "leased" => row.expires <= row.deadline /\ row.expires <= n + LeaseDuration
    /\ row.state = "completed" => Accounted(w, c, i)
    /\ row.state = "dead" => Superseded(w, k)
    /\ \A p \in Workers : pr[p].pc # "idle" /\ pr[p].lease.work = w =>
          /\ row.state \in {"leased", "completed", "dead"}
          /\ row.state = "leased" => pr[p].lease.expires <= row.expires

(* A row that turns so keeps the invariant.                                *)
LEMMA RowKeeps ==
    ASSUME NEW n, NEW sq, NEW c, NEW i, NEW k, NEW pr, NEW wi, NEW ru, NEW ef,
           Inv(n, sq, c, i, k, pr, wi, ru, ef),
           NEW w \in WorkIDs, NEW row, RowTurns(w, row, n, c, i, k, pr)
    PROVE  Inv(n, sq, c, i, [k EXCEPT ![w] = row], pr, wi, ru, ef)
<1> DEFINE l == [k EXCEPT ![w] = row]
<1>1. k \in [WorkIDs -> Row]
  BY DEF Inv, RowsFit
<1>2. l \in [WorkIDs -> Row] /\ l[w] = row /\ \A v \in WorkIDs : v # w => l[v] = k[v]
  BY <1>1 DEF RowTurns
<1> HIDE DEF l
<1>3. \A v \in WorkIDs : Present(l, v) <=> Present(k, v)
  BY <1>2 DEF Present, RowTurns
<1>4. Grown(c, c, k, l, ef, ef) /\ Onward(sq, sq, i, i) /\ Reports(i, i)
  BY <1>3 DEF Grown, Onward, Reports, Inv, StoreFits
<1>5. \A v : Superseded(v, k) => Superseded(v, l)
  BY <1>4, SupersededStays
<1>6. RowsFit(n, c, i, l)
  BY <1>2, <1>3, <1>5 DEF Inv, RowsFit, RowTurns
<1>7. StoreFits(sq, c, i, l, ru, ef)
  <2>1. \A t \in c : Durable(t, sq, c, l, ef)
    BY <1>4, DurableStays DEF Inv, StoreFits
  <2>2. History(i, c, k) => History(i, c, l)
    <3> SUFFICES ASSUME History(i, c, k), NEW u \in Units \ Done
                 PROVE  UnitHistory(u, i.units[u], c, l)
      BY DEF History
    <3>1. UnitHistory(u, i.units[u], c, k)
      BY DEF History
    <3>2. i.units[u] \in Progresses(Keys)
      BY InstanceTyped DEF Inv, StoreFits, Instances
    <3> QED
      BY <1>3, <3>1, <3>2, UnitHistoryFrame
  <2> QED
    BY <2>1, <2>2 DEF Inv, StoreFits
<1>8. \A p \in Workers : Fit(pr[p], sq, c, i, l, ef)
  <2> SUFFICES ASSUME NEW p \in Workers PROVE Fit(pr[p], sq, c, i, l, ef)
    OBVIOUS
  <2>1. Fit(pr[p], sq, c, i, k, ef)
    BY DEF Inv, ProcessorsFit
  <2>2. pr[p].pc # "idle" => LeaseFits(pr[p].lease, l)
    <3>1. pr[p].pc # "idle" => LeaseFits(pr[p].lease, k) /\ pr[p].lease.work \in WorkIDs
      BY <2>1 DEF Fit, LeaseFits, Leases
    <3> QED
      BY <1>2, <3>1 DEF LeaseFits, RowTurns
  <2> QED
    BY <1>4, <2>1, <2>2, FitStays
<1>9. \A t \in wi : Ready(t, sq, c, i, l, ef)
  BY <1>4, ReadyStays DEF Inv, ProcessorsFit
<1>10. ProcessorsFit(sq, c, i, l, pr, wi, ru, ef)
  BY <1>8, <1>9 DEF Inv, ProcessorsFit
<1> QED
  BY <1>6, <1>7, <1>10 DEF Inv, l

(* Time passes.                                                            *)
LEMMA TimeKeeps ==
    ASSUME NEW n, NEW sq, NEW c, NEW i, NEW k, NEW pr, NEW wi, NEW ru, NEW ef,
           Inv(n, sq, c, i, k, pr, wi, ru, ef)
    PROVE  Inv(n + 1, sq, c, i, k, pr, wi, ru, ef)
<1>1. RowsFit(n + 1, c, i, k)
  <2>1. \A w \in WorkIDs : k[w] \in Row
    BY DEF Inv, RowsFit
  <2>2. \A w \in WorkIDs : k[w].expires \in Nat
    BY <2>1 DEF Row
  <2>3. n \in Nat /\ LeaseDuration \in Nat
    BY ExecutionAssumption DEF Inv
  <2> QED
    BY <2>2, <2>3 DEF Inv, RowsFit
<1> QED
  BY <1>1 DEF Inv

-----------------------------------------------------------------------------
(* A transition lands.                                                     *)

Inserted(t, k) ==
    [w \in WorkIDs |->
        IF \E x \in t.work : x.id = w
        THEN LET x == CHOOSE x \in t.work : x.id = w
             IN  InsertedRow(x.available, x.deadline)
        ELSE k[w]]

(* The work a transition inserts has its type.                             *)
LEMMA WorkTyped ==
    ASSUME NEW t, Recorded(t)
    PROVE  \A x \in t.work : x \in Pendings /\ x.id \in WorkIDs
<1>1. CASE AuditedLifecycle(t)
  BY <1>1 DEF AuditedLifecycle
<1>2. CASE ~AuditedLifecycle(t)
  <2>1. WorkFits(Main(t), t.work)
    BY <1>2, MainFits
  <2>2. \A x \in t.work : x \in Pendings
    BY <2>1 DEF WorkFits
  <2> QED
    BY <2>2 DEF Pendings
<1> QED
  BY <1>1, <1>2

(* The rows after an insertion: those there were, and the new ones, ready. *)
LEMMA InsertedTyped ==
    ASSUME NEW t, Recorded(t), NEW k \in [WorkIDs -> Row],
           \A x \in t.work : k[x.id].state = "absent"
    PROVE  LET l == Inserted(t, k)
           IN  /\ l \in [WorkIDs -> Row]
               /\ Inserts(t, k, l)
               /\ \A w \in WorkIDs : Present(k, w) => l[w] = k[w]
               /\ \A w \in WorkIDs : l[w] = k[w] \/ l[w].state = "ready"
<1> DEFINE l == Inserted(t, k)
<1>1. \A x \in t.work : x \in Pendings /\ x.id \in WorkIDs
  BY WorkTyped
<1>2. ASSUME NEW w \in WorkIDs, NEW y \in t.work, y.id = w
      PROVE  l[w] \in Row /\ l[w].state = "ready" /\ ~Present(k, w)
  <2> DEFINE x == CHOOSE x \in t.work : x.id = w
  <2>1. x \in t.work /\ x.id = w
    BY <1>2
  <2>2. l[w] = InsertedRow(x.available, x.deadline)
    BY <1>2 DEF Inserted
  <2> HIDE DEF x, l
  <2>3. x.available \in Nat /\ x.deadline \in Nat
    BY <1>1, <2>1 DEF Pendings
  <2>4. l[w] = [state |-> "ready", available |-> x.available, deadline |-> x.deadline,
                attempts |-> 0, owner |-> NoOwner, token |-> 0, expires |-> NoTime]
    BY <2>2 DEF InsertedRow, AbsentRow
  <2>5. l[w] \in Row /\ l[w].state = "ready"
    BY <2>3, <2>4 DEF Row, RowStates, NoTime
  <2> QED
    BY <1>2, <2>5 DEF Present
<1>3. ASSUME NEW w \in WorkIDs, ~ \E x \in t.work : x.id = w
      PROVE  l[w] = k[w]
  BY <1>3 DEF Inserted
<1>4. l = [w \in WorkIDs |-> l[w]]
  BY DEF Inserted
<1> HIDE DEF l
<1>5. l \in [WorkIDs -> Row]
  BY <1>2, <1>3, <1>4
<1>6. Inserts(t, k, l)
  BY <1>1, <1>2, <1>3 DEF Inserts, Present
<1> QED
  BY <1>2, <1>3, <1>5, <1>6 DEF l

(* What has been reported on stays so.                                     *)
LEMMA ReportsStay ==
    ASSUME NEW i \in Instance, NEW j \in Instance, NEW t, Recorded(t),
           Breaks(i, j) \/ Accepted(i, j, t)
    PROVE  Reports(i, j)
<1>1. CASE Breaks(i, j)
  BY <1>1 DEF Breaks, Reports
<1>2. CASE Accepted(i, j, t) /\ AuditedLifecycle(t)
  BY <1>2 DEF Accepted, Reports
<1>3. CASE Accepted(i, j, t) /\ ~AuditedLifecycle(t)
  <2> DEFINE e == Main(t)
  <2>1. Takes(i, j, e)
    BY <1>3 DEF Accepted
  <2> HIDE DEF e
  <2> SUFFICES ASSUME NEW u \in Units, ReportedAs(u, i.units[u]), u = e.step
               PROVE  FALSE
    BY <2>1 DEF Takes, Reports
  <2>2. Move(Kind[u], i.units[u], j.units[u], e)
    BY <2>1 DEF Takes
  <2>3. i.units[u].status \in {"succeeded", "childFailed"}
    BY DEF ReportedAs
  <2> QED
    BY <2>2, <2>3 DEF Move, Scheduling, Starting, AttemptStarts, Ending, activityOutcomeAllowed,
                      Activating, Retrying, RetryFollows, Resolving, Reporting,
                      childTerminalOutcomeAllowed
<1> QED
  BY <1>1, <1>2, <1>3
(* The history agrees with the tables after a transition as before it.     *)
LEMMA HistoryMoves ==
    ASSUME NEW i \in Instance, NEW j \in Instance, NEW c, NEW k, NEW l, NEW t,
           Recorded(t), Accepted(i, j, t), History(i, c, k), Inserts(t, k, l),
           t.id[2] = "start" => Present(k, t.id[1])
    PROVE  History(j, c \cup {t}, l)
<1> DEFINE d == c \cup {t}
<1>1. \A u \in Units : i.units[u] \in Progresses(Keys) /\ j.units[u] \in Progresses(Keys)
  BY InstanceTyped DEF Instances
<1>2. CASE AuditedLifecycle(t)
  <2>1. j.units = i.units /\ t.work = {}
    BY <1>2 DEF Accepted, AuditedLifecycle
  <2>2. t.id[2] # "start"
    <3>1. ASSUME Staged(t) PROVE FALSE
      <4>1. t.events = <<First(t)>> /\ t.events = <<First(t), t.events[2]>>
        BY <1>2, <3>1 DEF Staged, StartShape, OutcomeShape, RetryShape, Single, AuditedLifecycle, Audited
      <4> QED
        BY <4>1
    <3> QED
      BY <3>1 DEF Recorded, Outside
  <2>3. ASSUME NEW u \in Units \ Done PROVE UnitHistory(u, j.units[u], d, l)
    <3>1. UnitHistory(u, i.units[u], c, k)
      BY DEF History
    <3>2. \A w \in WorkIDs : Present(l, w) <=> Present(k, w)
      BY <2>1 DEF Inserts
    <3> QED
      BY <1>1, <2>1, <2>2, <3>1, <3>2, UnitHistoryFrame
  <2> QED
    BY <2>1, <2>3 DEF History
<1>3. CASE ~AuditedLifecycle(t)
  <2> DEFINE e == Main(t)
  <2>1. Takes(i, j, e)
    BY <1>3 DEF Accepted
  <2>2. /\ e \in UnitEvents(Keys)
        /\ WorkFits(e, t.work)
        /\ t.id[2] = "start" => StartShape(t) /\ e = First(t)
    BY <1>3, MainFits
  <2>3. ASSUME NEW u \in Units \ Done, u = e.step PROVE UnitHistory(u, j.units[u], d, l)
    <3>1. UnitHistory(u, i.units[u], c, k)
      BY DEF History
    <3>2. Move(Kind[u], i.units[u], j.units[u], Main(t)) /\ Main(t).step = u
      BY <2>1, <2>3 DEF Takes
    <3> QED
      BY <1>1, <1>3, <3>1, <3>2, UnitHistoryMoves
  <2>4. ASSUME NEW u \in Units \ Done, u # e.step PROVE UnitHistory(u, j.units[u], d, l)
    <3>1. UnitHistory(u, i.units[u], c, k) /\ j.units[u] = i.units[u]
      BY <2>1, <2>4 DEF History, Takes
    <3>2. t.id[2] = "start" => t.id[1][1] # u
      BY <2>2, <2>4 DEF StartShape, Single
    <3>3. \A w \in WorkIDs : w[1] = u => (Present(l, w) <=> Present(k, w))
      <4>1. \A x \in t.work : x.id[1] # u
        BY <2>2, <2>4 DEF WorkFits
      <4> QED
        BY <4>1 DEF Inserts
    <3> QED
      BY <1>1, <3>1, <3>2, <3>3, UnitHistoryFrame
  <2>5. ASSUME NEW u \in Done PROVE j.units[u].status = "succeeded"
    <3>1. u \in Units /\ Kind[u] = "activity"
      BY ExecutionAssumption
    <3>2. i.units[u].status = "succeeded"
      BY DEF History
    <3>3. CASE u # e.step
      BY <2>1, <3>1, <3>2, <3>3 DEF Takes
    <3>4. CASE u = e.step
      <4>1. Move(Kind[u], i.units[u], j.units[u], e)
        BY <2>1, <3>4 DEF Takes
      <4> HIDE DEF e
      <4> QED
        BY <3>1, <3>2, <4>1 DEF Move, Scheduling, Starting, AttemptStarts, Ending,
               activityOutcomeAllowed, Retrying, RetryFollows, Resolving
    <3> QED
      BY <3>3, <3>4
  <2> QED
    BY <2>3, <2>4, <2>5 DEF History
<1> QED
  BY <1>2, <1>3

(* A unit that has become succeeded or active has an outcome to show.      *)
LEMMA SuccessMoves ==
    ASSUME NEW i \in Instance, NEW j \in Instance, NEW c, NEW k, NEW ef, NEW t,
           Recorded(t), Staged(t) => Sound(t, c, k, ef),
           Breaks(i, j) \/ Accepted(i, j, t), SuccessFits(i, ef)
    PROVE  SuccessFits(j, ef)
<1>1. CASE j.units = i.units
  BY <1>1 DEF SuccessFits
<1>2. CASE Accepted(i, j, t) /\ ~AuditedLifecycle(t)
  <2> DEFINE e == Main(t)
  <2>1. Takes(i, j, e)
    BY <1>2 DEF Accepted
  <2>2. /\ e \in UnitEvents(Keys)
        /\ e.kind \in {"succeeded", "failed", "unknown", "started"} => OutcomeShape(t) /\ e = First(t)
    BY <1>2, MainFits
  <2> HIDE DEF e
  <2>3. e.step \in Units
    BY <2>2 DEF UnitEvents
  <2> DEFINE p == i.units[e.step]
  <2> DEFINE q == j.units[e.step]
  <2>4. p \in Progresses(Keys) /\ q \in Progresses(Keys) /\ Move(Kind[e.step], p, q, e)
    BY <2>1, <2>3, InstanceTyped DEF Takes, Instances
  <2>5. ASSUME \/ Kind[e.step] # "child" /\ q.status = "succeeded"
               \/ q.status = "active"
        PROVE  <<e.step, q.attempt>> \in ef
    <3> HIDE DEF p, q
    <3>1. e.kind \in {"succeeded", "started"} /\ q.attempt = p.attempt /\ e.attempt = p.attempt
      <4>1. CASE e.kind \in {"succeeded", "failed", "unknown"} /\ Ending(p, q, e)
        BY <2>4, <2>5, <4>1 DEF Ending, activityOutcomeAllowed, Progresses
      <4>2. CASE e.kind = "started" /\ Activating(p, q, e)
        BY <2>4, <4>2 DEF Activating, activityOutcomeAllowed, Progresses
      <4>3. CASE Scheduling(p, q) \/ Starting(p, q, e)
        BY <2>5, <4>3 DEF Scheduling, NoProgress, Starting
      <4>4. CASE Retrying(p, q, e) \/ Resolving(p, q)
        BY <2>4, <2>5, <4>4 DEF Retrying, Resolving, Progresses
      <4>5. CASE Kind[e.step] = "child" /\ (Reporting(p, q, "succeeded") \/ Reporting(p, q, "childFailed"))
        BY <2>4, <2>5, <4>5 DEF Reporting, Progresses
      <4> QED
        BY <2>4, <4>1, <4>2, <4>3, <4>4, <4>5 DEF Move
    <3>2. OutcomeShape(t) /\ e = First(t)
      BY <2>2, <3>1
    <3>3. t.id[1][1] = e.step /\ t.id[1][2] = q.attempt /\ t.id[2] = "outcome"
      BY <3>1, <3>2 DEF OutcomeShape, Single
    <3>4. Sound(t, c, k, ef)
      BY <3>2 DEF Staged
    <3> QED
      BY <3>1, <3>2, <3>3, <3>4 DEF Sound, AttemptOf
  <2> QED
    BY <2>1, <2>5 DEF SuccessFits, Takes
<1> QED
  BY <1>1, <1>2 DEF Breaks, Accepted
(* What a transition needs to be committed.                                *)
MayLand(t, sq, c, k, pr, wi, ef) ==
    /\ Recorded(t)
    /\ t.expected = sq
    /\ \A x \in t.work : k[x.id].state = "absent"
    /\ Staged(t) => Sound(t, c, k, ef)
    /\ t.id[2] = "outcome" => Pooled(t, c, pr, wi)
    /\ ~AuditedLifecycle(t) /\ Main(t).kind = "retryScheduled" =>
          FailedOnce(c, Main(t).step, Main(t).attempt)

(* A transition that lands keeps the invariant.                            *)
LEMMA LandKeeps ==
    ASSUME NEW n, NEW sq, NEW c, NEW i, NEW k, NEW pr, NEW wi, NEW ru, NEW ef,
           Inv(n, sq, c, i, k, pr, wi, ru, ef),
           NEW t, MayLand(t, sq, c, k, pr, wi, ef)
    PROVE  Inv(n, sq + Len(t.events), c \cup {t}, Appended(i, t.events), Inserted(t, k), pr, wi, ru, ef)
<1> DEFINE sr == sq + Len(t.events)
<1> DEFINE d == c \cup {t}
<1> DEFINE j == Appended(i, t.events)
<1> DEFINE l == Inserted(t, k)
<1>1. Recorded(t) /\ i \in Instance /\ k \in [WorkIDs -> Row] /\ sq \in Nat
  BY DEF MayLand, Inv, StoreFits, RowsFit
<1>2. j \in Instance /\ (Breaks(i, j) \/ Accepted(i, j, t))
  BY <1>1, Landing
<1>3. /\ l \in [WorkIDs -> Row]
      /\ Inserts(t, k, l)
      /\ \A w \in WorkIDs : Present(k, w) => l[w] = k[w]
      /\ \A w \in WorkIDs : l[w] = k[w] \/ l[w].state = "ready"
  BY <1>1, InsertedTyped DEF MayLand
<1> HIDE DEF j, l
<1>4. sr \in Nat /\ sq < sr /\ t.expected < sr
  <2>1. t.events = <<First(t)>> \/ t.events = <<First(t), t.events[2]>>
    BY <1>1 DEF Recorded, Staged, StartShape, OutcomeShape, RetryShape, Single, Outside, Lone,
                AuditedUnit, AuditedLifecycle, Audited
  <2>2. Len(t.events) \in {1, 2}
    BY <2>1
  <2> QED
    BY <1>1, <2>2 DEF MayLand
<1> HIDE DEF sr
<1>5. Grown(c, d, k, l, ef, ef) /\ Onward(sq, sr, i, j) /\ Reports(i, j)
  BY <1>1, <1>2, <1>3, <1>4, ReportsStay DEF Grown, Onward, Present
<1>6. c \subseteq d
  OBVIOUS
<1>7. RowsFit(n, d, j, l)
  <2> SUFFICES ASSUME NEW w \in WorkIDs
               PROVE  /\ l[w].state = "leased" =>
                            l[w].expires <= l[w].deadline /\ l[w].expires <= n + LeaseDuration
                      /\ l[w].state = "completed" => Accounted(w, d, j)
                      /\ l[w].state = "dead" => Superseded(w, l)
                      /\ Present(l, w) /\ w[2] > 1 => FailedOnce(d, w[1], w[2] - 1)
    BY <1>3 DEF RowsFit
  <2>1. l[w].state = "leased" =>
            l[w].expires <= l[w].deadline /\ l[w].expires <= n + LeaseDuration
    BY <1>3 DEF Inv, RowsFit
  <2>2. l[w].state = "completed" => Accounted(w, d, j)
    BY <1>3, <1>5, <1>6, AccountedStays DEF Inv, RowsFit
  <2>3. l[w].state = "dead" => Superseded(w, l)
    BY <1>3, <1>5, SupersededStays DEF Inv, RowsFit
  <2>4. Present(l, w) /\ w[2] > 1 => FailedOnce(d, w[1], w[2] - 1)
    <3>1. CASE Present(k, w)
      BY <1>6, <3>1, RecordsStay DEF Inv, RowsFit
    <3>2. CASE Present(l, w) /\ ~Present(k, w) /\ w[2] > 1
      <4>1. PICK x \in t.work : x.id = w
        BY <1>3, <3>2 DEF Inserts
      <4>2. ~AuditedLifecycle(t)
        BY <4>1 DEF AuditedLifecycle
      <4>3. WorkFits(Main(t), t.work) /\ Main(t).attempt \in Nat
        BY <1>1, <4>2, MainFits DEF UnitEvents
      <4>4. Main(t).kind = "retryScheduled" /\ w[1] = Main(t).step /\ w[2] = Main(t).attempt + 1
        BY <3>2, <4>1, <4>3 DEF WorkFits
      <4>5. w[2] - 1 = Main(t).attempt
        BY <4>3, <4>4
      <4> QED
        BY <1>6, <4>2, <4>4, <4>5, RecordsStay DEF MayLand
    <3> QED
      BY <3>1, <3>2
  <2> QED
    BY <2>1, <2>2, <2>3, <2>4
<1>8. StoreFits(sr, d, j, l, ru, ef)
  <2>1. \A s \in d : Durable(s, sr, d, l, ef)
    <3>1. \A s \in c : Durable(s, sr, d, l, ef)
      BY <1>5, DurableStays DEF Inv, StoreFits
    <3>2. Staged(t) => Sound(t, d, l, ef)
      BY <1>5, SoundStays DEF MayLand
    <3>3. Durable(t, sr, d, l, ef)
      BY <1>1, <1>4, <3>2 DEF Durable
    <3> QED
      BY <3>1, <3>3
  <2>2. CallsFit(d, ru, ef)
    BY <1>6, RecordsStay DEF Inv, StoreFits, CallsFit
  <2>3. SuccessFits(j, ef)
    BY <1>1, <1>2, SuccessMoves DEF Inv, StoreFits, MayLand
  <2>4. j.valid => j.sequence = sr /\ j.pendingOperator = NoAction /\ History(j, d, l)
    <3> SUFFICES ASSUME j.valid
                 PROVE  j.sequence = sr /\ j.pendingOperator = NoAction /\ History(j, d, l)
      OBVIOUS
    <3>1. Accepted(i, j, t) /\ i.valid
      BY <1>2 DEF Breaks, Accepted
    <3>2. History(i, c, k) /\ i.sequence = sq
      BY <3>1 DEF Inv, StoreFits
    <3>3. t.id[2] = "start" => Present(k, t.id[1])
      BY <1>1 DEF MayLand, Sound, Recorded, Outside
    <3>4. History(j, d, l)
      BY <1>1, <1>2, <1>3, <3>1, <3>2, <3>3, HistoryMoves
    <3> QED
      BY <3>1, <3>2, <3>4 DEF Accepted, sr
  <2> QED
    BY <1>2, <1>4, <2>1, <2>2, <2>3, <2>4 DEF StoreFits
<1>9. \A p \in Workers : Fit(pr[p], sr, d, j, l, ef)
  <2> SUFFICES ASSUME NEW p \in Workers PROVE Fit(pr[p], sr, d, j, l, ef)
    OBVIOUS
  <2>1. Fit(pr[p], sq, c, i, k, ef)
    BY DEF Inv, ProcessorsFit
  <2>2. pr[p].pc # "idle" => LeaseFits(pr[p].lease, l)
    <3>1. pr[p].pc # "idle" => LeaseFits(pr[p].lease, k) /\ pr[p].lease.work \in WorkIDs
      BY <2>1 DEF Fit, LeaseFits, Leases
    <3>2. pr[p].pc # "idle" => l[pr[p].lease.work] = k[pr[p].lease.work]
      BY <1>3, <3>1 DEF LeaseFits, Present
    <3> QED
      BY <3>1, <3>2 DEF LeaseFits
  <2> QED
    BY <1>5, <2>1, <2>2, FitStays
<1>10. \A s \in wi : Ready(s, sr, d, j, l, ef)
  BY <1>5, ReadyStays DEF Inv, ProcessorsFit
<1>11. \A s, u, m : Pooled(s, d, pr, wi) /\ OutcomeOf(s, u, m) => Pooled(s, c, pr, wi)
  BY DEF Pooled, MayLand, OutcomeOf
<1>12. j.valid => \A p \in Workers : Entitled(pr[p], d) =>
          LET a == AttemptOf(pr[p].lease.work)
          IN  ru[a] = 0 /\ Unsettled(a, d, pr, wi)
  <2> SUFFICES ASSUME j.valid, NEW p \in Workers, Entitled(pr[p], d)
               PROVE  LET a == AttemptOf(pr[p].lease.work)
                      IN  ru[a] = 0 /\ Unsettled(a, d, pr, wi)
    OBVIOUS
  <2> DEFINE w == pr[p].lease.work
  <2> DEFINE a == AttemptOf(w)
  <2>1. Accepted(i, j, t) /\ i.valid
    BY <1>2 DEF Breaks, Accepted
  <2>2. CASE pr[p].tx \in c
    <3>1. ru[a] = 0 /\ Unsettled(a, c, pr, wi)
      BY <2>1, <2>2 DEF Inv, ProcessorsFit, Entitled
    <3> HIDE DEF a
    <3>2. Unsettled(a, d, pr, wi)
      BY <1>11, <3>1 DEF Unsettled
    <3> QED
      BY <3>1, <3>2 DEF a
  <2>3. CASE pr[p].tx \notin c
    <3>1. pr[p].tx = t /\ t.id[2] = "start"
      BY <2>3 DEF Entitled
    <3>2. Fit(pr[p], sq, c, i, k, ef) /\ pr[p].pc \in Staging /\ pr[p].pc # "idle"
      BY <2>3 DEF Inv, ProcessorsFit, Entitled, Fit, Staging, Committing
    <3>3. t.id[1] = w /\ w \in WorkIDs
      BY <3>1, <3>2 DEF Fit, LeaseFits, Leases
    <3>4. ~AuditedLifecycle(t) /\ StartShape(t) /\ Main(t) = First(t)
      <4>1. Staged(t)
        BY <3>1, <3>2 DEF Fit, Ready
      <4>2. t.events = <<First(t)>>
        BY <4>1 DEF Staged, StartShape, OutcomeShape, RetryShape, Single
      <4>3. ~AuditedLifecycle(t)
        <5>1. AuditedLifecycle(t) => t.events = <<First(t), t.events[2]>>
          BY DEF AuditedLifecycle, Audited
        <5> QED
          BY <4>2, <5>1
      <4> QED
        BY <1>1, <3>1, <4>3, MainFits
    <3>5. /\ w[1] \in Units \ Done /\ w[2] \in Nat /\ First(t).step = w[1] /\ First(t).attempt = w[2]
          /\ First(t).kind = "attemptStarted"
      BY <3>3, <3>4 DEF StartShape, Single, WorkIDs
    <3>6. w[2] = i.units[w[1]].attempt + 1
      <4>1. Move(Kind[w[1]], i.units[w[1]], j.units[w[1]], First(t))
        BY <2>1, <3>4, <3>5 DEF Accepted, Takes
      <4> QED
        BY <3>5, <4>1 DEF Move, Starting, AttemptStarts
    <3>7. ~Begun(c, w[1], w[2])
      <4>1. StartsAgree(w[1], i.units[w[1]], c)
        BY <2>1, <3>5 DEF Inv, StoreFits, History, UnitHistory
      <4>2. i.units[w[1]].attempt \in Nat
        BY <1>1, <3>5, InstanceTyped DEF Instances, Progresses
      <4>3. \A s \in c : StartOf(s, w[1], w[2]) => w[2] <= i.units[w[1]].attempt
        BY <3>5, <4>1 DEF StartsAgree
      <4>4. ~(w[2] <= i.units[w[1]].attempt)
        BY <3>6, <4>2
      <4> QED
        BY <4>3, <4>4 DEF Begun
    <3>8. a \in Attempts /\ a[1] = w[1] /\ a[2] = w[2]
      BY <3>3 DEF AttemptOf, Attempts, WorkIDs
    <3> HIDE DEF a, w
    <3>9. ru[a] = 0
      <4>1. ru[a] \in Nat /\ ru[a] <= 1 /\ ru[a] # 1
        BY <3>5, <3>7, <3>8 DEF Inv, StoreFits, CallsFit
      <4> QED
        BY <4>1
    <3>10. Unsettled(a, d, pr, wi)
      <4> SUFFICES ASSUME NEW s, Pooled(s, d, pr, wi), OutcomeOf(s, a[1], a[2])
                   PROVE  FALSE
        BY DEF Unsettled
      <4>1. Pooled(s, c, pr, wi)
        BY <1>11
      <4>2. s.id[2] = "outcome" /\ s.id[1][1] = w[1] /\ s.id[1][2] = w[2]
        BY <3>8 DEF OutcomeOf
      <4>3. Sound(s, c, k, ef)
        <5>1. CASE s \in c
          <6>1. Staged(s)
            BY <4>2, <5>1 DEF Inv, StoreFits, Durable, Recorded, Outside
          <6> QED
            BY <5>1, <6>1 DEF Inv, StoreFits, Durable
        <5>2. CASE s \in wi
          BY <5>2 DEF Inv, ProcessorsFit, Ready
        <5>3. CASE \E q \in Workers : pr[q].pc \in Staging /\ s = pr[q].tx
          BY <5>3 DEF Inv, ProcessorsFit, Fit, Ready
        <5> QED
          BY <4>1, <5>1, <5>2, <5>3 DEF Pooled
      <4> QED
        BY <3>7, <4>2, <4>3 DEF Sound
    <3> QED
      BY <3>9, <3>10 DEF a, w
  <2> QED
    BY <2>2, <2>3
<1>13. \A a \in ef : Kind[a[1]] = "child" => NeverFailed(a, d, pr, wi)
  BY <1>11 DEF Inv, ProcessorsFit, NeverFailed
<1>14. ProcessorsFit(sr, d, j, l, pr, wi, ru, ef)
  <2>1. /\ pr = [p \in Workers |-> pr[p]]
        /\ \A p \in Workers : pr[p].pc = "handler" => ru[AttemptOf(pr[p].lease.work)] = 1
        /\ \A p, q \in Workers :
              p # q /\ pr[p].pc # "idle" /\ pr[q].pc # "idle" => Apart(pr[p].lease, pr[q].lease)
    BY DEF Inv, ProcessorsFit
  <2> QED
    BY <1>9, <1>10, <1>12, <1>13, <2>1 DEF ProcessorsFit
<1> QED
  BY <1>7, <1>8, <1>14 DEF Inv, sr, j, l
-----------------------------------------------------------------------------
(* The transitions that processors build.                                  *)

(* Events have their type.                                                 *)
LEMMA EventTyped ==
    ASSUME NEW kind \in UnitEventKinds, NEW at \in Nat, NEW step \in Units, NEW attempt \in Nat,
           NEW key \in Keys, NEW dueAt \in Nat, NEW retryable \in BOOLEAN
    PROVE  EventRecord(kind, at, step, attempt, key, dueAt, retryable, NoAction) \in UnitEvents(Keys)
  BY Zenon DEF UnitEvents, EventRecord

(* The work of a lease.                                                    *)
LEMMA LeaseWork ==
    ASSUME NEW lease, NEW k, LeaseFits(lease, k)
    PROVE  /\ lease \in Leases
           /\ lease.work \in WorkIDs
           /\ lease.work \in Keys
           /\ lease.work[1] \in Units \ Done
           /\ lease.work[2] \in 1 .. Policy.maxAttempts
           /\ lease.work[2] \in Nat
           /\ lease.work[3] \in {"auto"} \cup Commands
           /\ lease.work = <<lease.work[1], lease.work[2], lease.work[3]>>
           /\ AttemptOf(lease.work) \in Attempts
           /\ Present(k, lease.work)
<1>1. lease \in Leases /\ lease.work \in WorkIDs
  BY DEF LeaseFits, Leases
<1>2. Policy.maxAttempts \in Nat
  BY PolicyAssumption DEF Policies
<1> QED
  BY <1>1, <1>2 DEF Keys, WorkIDs, AttemptOf, Attempts, LeaseFits, Present

(* What the constructors of a start and of an outcome ask, of the instance *)
(* i as it is or of a snapshot s that may be old.                          *)
MayStart(i, lease, n, sq, k) ==
    /\ i \in Instance
    /\ n \in Nat
    /\ LeaseFits(lease, k)
    /\ i.valid
    /\ i.sequence = sq
    /\ AttemptFits(i.units[lease.work[1]], lease, n)
    /\ n >= i.updatedAt
    /\ StatusAllows(Kind[lease.work[1]], i.status)

MayEnd(s, w, at, outcome, sq, c, i, ef) ==
    /\ s \in Instance
    /\ at \in Nat
    /\ sq \in Nat
    /\ w \in WorkIDs
    /\ s.valid
    /\ s.sequence <= sq
    /\ s.sequence = sq => s = i
    /\ s.units[w[1]].status = "running"
    /\ s.units[w[1]].attempt = w[2]
    /\ at >= s.updatedAt
    /\ IF Kind[w[1]] = "child"
       THEN s.status = "running" /\ outcome \in ChildStartOutcomes
       ELSE outcome \in Outcomes
    /\ Begun(c, w[1], w[2])
    /\ outcome.kind \in {"succeeded", "started"} => AttemptOf(w) \in ef

(* The start a processor builds may be committed.                          *)
LEMMA StartBuilt ==
    ASSUME NEW sq, NEW c, NEW i, NEW k, NEW ef, NEW n, NEW lease, MayStart(i, lease, n, sq, k),
           NEW t, t = NewActivityAttemptStart(i, lease, n)
    PROVE  /\ Ready(t, sq, c, i, k, ef)
           /\ InLease(t, lease)
           /\ t.id[1] = lease.work
           /\ t.id[2] = "start"
           /\ t.expected = sq
<1> USE DEF MayStart
<1> DEFINE w == lease.work
<1> DEFINE e == EventRecord("attemptStarted", n, w[1], w[2], w, n + Timeout, FALSE, NoAction)
<1>1. /\ w \in WorkIDs /\ w \in Keys /\ w[1] \in Units \ Done /\ w[2] \in Nat /\ Present(k, w)
      /\ lease \in Leases
  BY LeaseWork
<1>2. t = [id |-> <<w, "start">>, expected |-> i.sequence, events |-> <<e>>, work |-> {}]
  <2>1. [UnitEvent("attemptStarted", n, w[1], w[2]) EXCEPT !.key = w, !.dueAt = n + Timeout] = e
    BY StartEventValue, Zenon
  <2> HIDE DEF e
  <2> QED
    BY <2>1, Zenon DEF NewActivityAttemptStart, Transition, processorTransitionID
<1>3. e \in UnitEvents(Keys)
  <2>1. n + Timeout \in Nat
    BY PolicyAssumption
  <2>2. "attemptStarted" \in UnitEventKinds
    BY DEF UnitEventKinds
  <2> QED
    BY <1>1, <2>1, <2>2, EventTyped, Zenon
<1>4. /\ e.kind = "attemptStarted" /\ e.at = n /\ e.step = w[1] /\ e.attempt = w[2] /\ e.key = w
      /\ e.dueAt = n + Timeout
  BY DEF EventRecord
<1> HIDE DEF e
<1>5. t.id = <<w, "start">> /\ t.expected = sq /\ t.events = <<e>> /\ t.work = {} /\ First(t) = e
  BY <1>2 DEF First
<1>6. t.id[1] = w /\ t.id[2] = "start" /\ sq \in Nat
  BY <1>5 DEF Instance
<1>7. StartShape(t)
  <2>1. IsPair(t.id)
    BY <1>5 DEF IsPair
  <2> QED
    BY <1>1, <1>3, <1>4, <1>5, <1>6, <2>1 DEF StartShape, Single, WorkFits
<1>8. Built(i, t)
  <2>1. AttemptStarts(i.units[w[1]], e)
    BY <1>4 DEF AttemptFits, AttemptStarts
  <2> QED
    BY <1>4, <1>5, <1>6, <2>1 DEF Built
<1>9. Ready(t, sq, c, i, k, ef)
  BY <1>1, <1>5, <1>6, <1>7, <1>8 DEF Ready, Staged, Sound
<1>10. InLease(t, lease)
  BY <1>4, <1>5 DEF InLease, AttemptFits, StartInLease
<1> QED
  BY <1>5, <1>6, <1>9, <1>10

(* From the snapshot s, which may be old.                                  *)
LEMMA OutcomeBuilt ==
    ASSUME NEW sq, NEW c, NEW i, NEW s, NEW k, NEW ef, NEW at, NEW w, NEW outcome,
           MayEnd(s, w, at, outcome, sq, c, i, ef),
           NEW t, t = NewActivityAttemptOutcome(s, w, at, outcome)
    PROVE  /\ Ready(t, sq, c, i, k, ef)
           /\ t.id[1] = w
           /\ t.id[2] = "outcome"
           /\ First(t).kind = outcome.kind
<1> USE DEF MayEnd
<1> DEFINE e == EventRecord(outcome.kind, at, w[1], w[2], NoKey, 0, outcome.retryable, NoAction)
<1>1. w[1] \in Units \ Done /\ w[2] \in Nat /\ NoKey \in Keys
  BY DEF WorkIDs, Keys
<1>2. t = [id |-> <<w, "outcome">>, expected |-> s.sequence, events |-> <<e>>, work |-> {}]
  BY OutcomeValue, Zenon
<1>3. /\ outcome.kind \in {"succeeded", "failed", "unknown", "started"}
      /\ outcome.retryable \in BOOLEAN
      /\ outcome \in Outcomes => outcome.kind \in OutcomeKinds
      /\ outcome \in ChildStartOutcomes => outcome.kind \in ChildStartOutcomeKinds
  <2> DEFINE Good(o) ==
        /\ o.kind \in {"succeeded", "failed", "unknown", "started"}
        /\ o.retryable \in BOOLEAN
        /\ o.kind = "succeeded" => o \notin ChildStartOutcomes
        /\ o.kind = "started" => o \notin Outcomes
  <2>1. Good([kind |-> "succeeded", retryable |-> FALSE])
    BY DEF ChildStartOutcomes, UnknownOutcome
  <2>2. Good([kind |-> "started", retryable |-> FALSE])
    BY DEF Outcomes, UnknownOutcome
  <2>3. /\ Good([kind |-> "failed", retryable |-> TRUE])
        /\ Good([kind |-> "failed", retryable |-> FALSE])
        /\ Good([kind |-> "unknown", retryable |-> FALSE])
    OBVIOUS
  <2> HIDE DEF Good
  <2>4. Good(outcome)
    BY <2>1, <2>2, <2>3, Zenon DEF Outcomes, ChildStartOutcomes, UnknownOutcome
  <2> QED
    BY <2>4 DEF Good, OutcomeKinds, ChildStartOutcomeKinds
<1>4. e \in UnitEvents(Keys)
  BY <1>1, <1>3, EventTyped DEF UnitEventKinds
<1>5. e.kind = outcome.kind /\ e.at = at /\ e.step = w[1] /\ e.attempt = w[2]
  BY DEF EventRecord
<1> HIDE DEF e
<1>6. /\ t.id = <<w, "outcome">> /\ t.expected = s.sequence /\ t.events = <<e>> /\ t.work = {}
      /\ First(t) = e
  BY <1>2 DEF First
<1>7. t.id[1] = w /\ t.id[2] = "outcome" /\ s.sequence \in Nat
  BY <1>6 DEF Instance
<1>8. OutcomeShape(t)
  BY <1>3, <1>4, <1>5, <1>6, <1>7 DEF OutcomeShape, Single, WorkFits
<1>9. Built(s, t)
  <2>1. activityOutcomeAllowed(s.units[w[1]], e)
    BY <1>5 DEF activityOutcomeAllowed
  <2> QED
    BY <1>3, <1>5, <1>6, <1>7, <2>1 DEF Built
<1>10. Sound(t, c, k, ef)
  BY <1>5, <1>6, <1>7 DEF Sound
<1> QED
  BY <1>5, <1>6, <1>7, <1>8, <1>9, <1>10 DEF Ready, Staged

(* The transition of a retry and its work, whoever schedules it.           *)
LEMMA RetryEvent ==
    ASSUME NEW i \in Instance, NEW u \in Units \ Done, NEW at \in Nat, NEW deadline \in Nat,
           NEW origin \in {"auto"} \cup Commands, NEW id, Shaped(u, i.units[u]),
           RetryFits(i.units[u], at, deadline)
    PROVE  LET t == NewActivityRetry(id, i, u, at, deadline, origin)
           IN  /\ t = [id |-> id, expected |-> i.sequence, events |-> <<First(t)>>, work |-> t.work]
               /\ First(t) \in UnitEvents(Keys)
               /\ First(t).kind = "retryScheduled"
               /\ First(t).step = u
               /\ First(t).at = at
               /\ First(t).attempt = i.units[u].attempt
               /\ RetryFollows(i.units[u], First(t))
               /\ WorkFits(First(t), t.work)
<1> DEFINE t == NewActivityRetry(id, i, u, at, deadline, origin)
<1> DEFINE p == i.units[u]
<1> DEFINE m == p.attempt
<1> DEFINE due == at + retryDelay(Policy, m)
<1> DEFINE x == [id |-> <<u, m + 1, origin>>, available |-> due, deadline |-> deadline]
<1> DEFINE e == EventRecord("retryScheduled", at, u, m, NoKey, due, FALSE, NoAction)
<1>1. p \in Progresses(Keys) /\ m \in Nat /\ NoKey \in Keys /\ Policy.maxAttempts \in Nat
  BY InstanceTyped, PolicyAssumption DEF Instances, Progresses, Keys, Policies
<1>2. m >= 1 /\ m < Policy.maxAttempts /\ p.status = "failed" /\ p.retryable
  BY DEF Shaped, RetryFits
<1>3. due \in Nat
  <2>1. retryDelay(Policy, m) \in Nat
    BY <1>1, <1>2, RetryDelayBounded
  <2> QED
    BY <2>1
<1>4. t = [id |-> id, expected |-> i.sequence, events |-> <<e>>, work |-> {x}]
  <2>1. [UnitEvent("retryScheduled", at, u, m) EXCEPT !.dueAt = due] = e
    BY RetryEventValue, Zenon
  <2> HIDE DEF e
  <2> QED
    BY <2>1, Zenon DEF NewActivityRetry, Transition, PendingWork
<1>5. x \in Pendings /\ x.id[1] = u /\ x.id[2] = m + 1
  <2>1. <<u, m + 1, origin>> \in WorkIDs
    BY <1>1, <1>2 DEF WorkIDs
  <2> HIDE DEF m, due
  <2> QED
    BY <1>3, <2>1 DEF Pendings
<1>6. e \in UnitEvents(Keys)
  BY <1>1, <1>3, EventTyped DEF UnitEventKinds
<1>7. /\ e.kind = "retryScheduled" /\ e.at = at /\ e.step = u /\ e.attempt = m
      /\ e.dueAt = e.at + retryDelay(Policy, e.attempt)
  BY DEF EventRecord
<1> HIDE DEF e, t, x, due
<1>8. First(t) = e /\ t.events = <<e>> /\ t.work = {x}
  BY <1>4 DEF First
<1>9. WorkFits(e, t.work)
  BY <1>5, <1>7, <1>8 DEF WorkFits
<1>10. RetryFollows(p, e)
  BY <1>2, <1>7 DEF RetryFollows
<1> QED
  BY <1>4, <1>6, <1>7, <1>8, <1>9, <1>10 DEF t
-----------------------------------------------------------------------------
(* The states processors go to.                                            *)

(* The instance a workflow starts with.                                    *)
LEMMA StartedTyped ==
    ASSUME NEW at \in Nat
    PROVE  Started(at) \in Instance
<1> DEFINE us == [u \in Units |-> NoProgress]
<1> DEFINE ws == [s \in Waits |-> NoWait]
<1> DEFINE one == 1
<1> DEFINE yes == TRUE
<1> DEFINE none == NoAction
<1> DEFINE running == "running"
<1>1. NoProgress \in Progress
  BY DEF NoProgress, Progress, UnitStatuses, CompensationStatuses, ActivityStatuses
<1>2. us \in [Units -> Progress] /\ ws \in [Waits -> {NoWait}]
  BY <1>1
<1>3. Started(at) = [valid |-> yes, status |-> running, sequence |-> one, updatedAt |-> at,
                     pendingOperator |-> none, units |-> us, waits |-> ws]
  BY DEF Started
<1>4. running \in Statuses /\ yes \in BOOLEAN /\ one \in Nat /\ none \in {NoAction} \cup DOMAIN operatorEventKind
  BY DEF Statuses
<1> HIDE DEF us, ws, one, yes, none, running
<1> QED
  BY <1>2, <1>3, <1>4 DEF Instance

(* At rest a processor has nothing to answer for.                          *)
LEMMA IdleFits ==
    ASSUME NEW sq, NEW c, NEW i, NEW k, NEW ef
    PROVE  Fit(Idle, sq, c, i, k, ef) /\ Idle.pc = "idle"
<1>1. Started(0) \in Instance
  BY StartedTyped
<1>2. Idle.pc = "idle" /\ Idle.snapshot = Started(0) /\ StateShape(Idle)
  BY IdleValue, StateFields
<1>3. "idle" \in PCs /\ "idle" \notin Staging
  BY DEF PCs, Staging, Committing
<1> QED
  BY <1>1, <1>2, <1>3 DEF Fit

(* What a processor that holds the lease does next: it gives up, disposes  *)
(* of its work or commits; an outcome is of the given kind.                *)
Outgoing(r, lease, kind, sq, c, i, k, ef) ==
    /\ Fit(r, sq, c, i, k, ef)
    /\ r.pc \in {"idle", "commit", "finish"}
    /\ r.pc # "idle" => r.lease = lease
    /\ r.pc = "commit" /\ r.tx.id[2] = "start" => r.tx.expected = sq
    /\ r.pc = "commit" /\ r.tx.id[2] = "outcome" => First(r.tx).kind = kind

(* Committing a transition that is ready fits.                             *)
LEMMA CommitFits ==
    ASSUME NEW sq, NEW c, NEW i, NEW k, NEW ef, NEW lease, NEW t, NEW kind,
           LeaseFits(lease, k), Ready(t, sq, c, i, k, ef), t.id[1] = lease.work, InLease(t, lease),
           t.id[2] = "retry" => HasOutcome(c, lease.work[1], lease.work[2]),
           t.id[2] = "start" => t.expected = sq,
           t.id[2] = "outcome" => First(t).kind = kind
    PROVE  Outgoing(CommitNext(lease, t), lease, kind, sq, c, i, k, ef)
<1> DEFINE r == CommitNext(lease, t)
<1>1. r.pc = "commit" /\ r.lease = lease /\ r.tx = t /\ r.snapshot = Started(0) /\ StateShape(r)
  BY CommitNextValue, StateFields
<1>2. Started(0) \in Instance
  BY StartedTyped
<1> HIDE DEF r
<1>3. "commit" \in PCs /\ "commit" \in Staging
  BY DEF PCs, Staging, Committing
<1>4. Fit(r, sq, c, i, k, ef)
  BY <1>1, <1>2, <1>3 DEF Fit
<1> QED
  BY <1>1, <1>4 DEF Outgoing, r

(* Disposing of work fits when it is accounted for or overtaken.           *)
LEMMA FinishFits ==
    ASSUME NEW sq, NEW c, NEW i, NEW k, NEW ef, NEW lease, NEW d, NEW kind,
           LeaseFits(lease, k),
           IF d = "complete" THEN Accounted(lease.work, c, i) ELSE Superseded(lease.work, k)
    PROVE  Outgoing(FinishNext(lease, d), lease, kind, sq, c, i, k, ef)
<1> DEFINE r == FinishNext(lease, d)
<1>1. r.pc = "finish" /\ r.lease = lease /\ r.decision = d /\ r.snapshot = Started(0) /\ StateShape(r)
  BY FinishNextValue, StateFields
<1>2. Started(0) \in Instance
  BY StartedTyped
<1> HIDE DEF r
<1>3. "finish" \in PCs /\ "finish" \notin Staging
  BY DEF PCs, Staging, Committing
<1>4. Fit(r, sq, c, i, k, ef)
  BY <1>1, <1>2, <1>3 DEF Fit
<1> QED
  BY <1>1, <1>4 DEF Outgoing, r

(* Giving up fits.                                                         *)
LEMMA LeaveFits ==
    ASSUME NEW sq, NEW c, NEW i, NEW k, NEW ef, NEW lease, NEW kind
    PROVE  Outgoing(Leave, lease, kind, sq, c, i, k, ef)
<1>1. Fit(Leave, sq, c, i, k, ef) /\ Leave.pc = "idle"
  BY IdleFits DEF Leave
<1> QED
  BY <1>1 DEF Outgoing

(* The start of an attempt, whatever the unit.                             *)
LEMMA StartNext ==
    ASSUME NEW sq, NEW c, NEW i, NEW k, NEW ef, NEW n, NEW lease, NEW kind,
           MayStart(i, lease, n, sq, k)
    PROVE  Outgoing(CommitNext(lease, NewActivityAttemptStart(i, lease, n)), lease, kind, sq, c, i, k, ef)
<1> DEFINE t == NewActivityAttemptStart(i, lease, n)
<1>1. /\ Ready(t, sq, c, i, k, ef) /\ InLease(t, lease)
      /\ t.id[1] = lease.work /\ t.id[2] = "start" /\ t.expected = sq
  BY StartBuilt
<1> HIDE DEF t
<1>2. LeaseFits(lease, k)
  BY DEF MayStart
<1>3. Outgoing(CommitNext(lease, t), lease, kind, sq, c, i, k, ef)
  BY <1>1, <1>2, CommitFits
<1> QED
  BY <1>3 DEF t

(* Its outcome.                                                            *)
LEMMA OutcomeNext ==
    ASSUME NEW sq, NEW c, NEW i, NEW s, NEW k, NEW ef, NEW at, NEW lease,
           LeaseFits(lease, k), NEW outcome,
           MayEnd(s, lease.work, at, outcome, sq, c, i, ef)
    PROVE  Outgoing(CommitNext(lease, NewActivityAttemptOutcome(s, lease.work, at, outcome)),
                    lease, outcome.kind, sq, c, i, k, ef)
<1> DEFINE t == NewActivityAttemptOutcome(s, lease.work, at, outcome)
<1>1. /\ Ready(t, sq, c, i, k, ef) /\ First(t).kind = outcome.kind
      /\ t.id[1] = lease.work /\ t.id[2] = "outcome"
  BY OutcomeBuilt
<1> HIDE DEF t
<1>2. InLease(t, lease)
  BY <1>1 DEF InLease
<1>3. Outgoing(CommitNext(lease, t), lease, outcome.kind, sq, c, i, k, ef)
  BY <1>1, <1>2, CommitFits
<1> QED
  BY <1>3 DEF t

(* And its retry.                                                          *)
LEMMA RetryNext ==
    ASSUME NEW sq, NEW c, NEW i \in Instance, NEW k, NEW ef, NEW at \in Nat, NEW lease, NEW kind,
           LeaseFits(lease, k), i.valid, i.sequence = sq, History(i, c, k),
           RetryFits(i.units[lease.work[1]], at, lease.deadline), at >= i.updatedAt,
           Kind[lease.work[1]] # "activity" => StatusAllows(Kind[lease.work[1]], i.status),
           HasOutcome(c, lease.work[1], lease.work[2])
    PROVE  Outgoing(CommitNext(lease, NewActivityRetry(processorTransitionID(lease.work, "retry"), i,
                                          lease.work[1], at, lease.deadline, lease.work[3])),
                    lease, kind, sq, c, i, k, ef)
<1> DEFINE w == lease.work
<1> DEFINE u == w[1]
<1> DEFINE id == processorTransitionID(w, "retry")
<1> DEFINE t == NewActivityRetry(id, i, u, at, lease.deadline, w[3])
<1>1. w \in WorkIDs /\ u \in Units \ Done /\ w[3] \in {"auto"} \cup Commands /\ lease.deadline \in Nat
  BY LeaseWork DEF Leases
<1>2. Shaped(u, i.units[u]) /\ OutcomesAgree(u, i.units[u], c)
  BY <1>1 DEF History, UnitHistory
<1>3. /\ t = [id |-> id, expected |-> i.sequence, events |-> <<First(t)>>, work |-> t.work]
      /\ First(t) \in UnitEvents(Keys)
      /\ First(t).kind = "retryScheduled"
      /\ First(t).step = u
      /\ First(t).at = at
      /\ First(t).attempt = i.units[u].attempt
      /\ RetryFollows(i.units[u], First(t))
      /\ WorkFits(First(t), t.work)
  BY <1>1, <1>2, RetryEvent
<1> HIDE DEF t
<1>4. t.id[1] = w /\ t.id[2] = "retry" /\ t.expected = sq /\ t.events = <<First(t)>> /\ sq \in Nat
  BY <1>3 DEF processorTransitionID, Instance
<1>5. RetryShape(t)
  BY <1>1, <1>3, <1>4 DEF RetryShape, Single
<1>6. Sound(t, c, k, ef)
  <2>1. i.units[u].status = "failed" /\ i.units[u].retryable = TRUE
    <3>1. i.units[u] \in Progresses(Keys)
      BY <1>1, InstanceTyped DEF Instances
    <3> QED
      BY <3>1 DEF RetryFits, Progresses
  <2>2. FailedOnce(c, u, i.units[u].attempt)
    BY <1>2, <2>1 DEF OutcomesAgree, FailedOnce
  <2> QED
    BY <1>3, <1>4, <2>2 DEF Sound
<1>7. Built(i, t)
  BY <1>3, <1>4 DEF Built
<1>8. Ready(t, sq, c, i, k, ef)
  BY <1>4, <1>5, <1>6, <1>7 DEF Ready, Staged
<1>9. InLease(t, lease)
  BY <1>4 DEF InLease
<1>10. Outgoing(CommitNext(lease, t), lease, kind, sq, c, i, k, ef)
  BY <1>4, <1>8, <1>9, CommitFits
<1> QED
  BY <1>10 DEF t
-----------------------------------------------------------------------------
(* What becomes of a lease.                                                *)

(* What a readable history says of the work of a lease.                    *)
LEMMA LeaseFate ==
    ASSUME NEW i \in Instance, NEW c, NEW k, NEW lease, History(i, c, k), LeaseFits(lease, k)
    PROVE  LET w == lease.work
               p == i.units[w[1]]
           IN  /\ p.status \in Startable /\ w[2] # p.attempt + 1 => Superseded(w, k)
               /\ ReportedAs(w[1], p) => Accounted(w, c, i)
               /\ p.status \notin Startable /\ ~ReportedAs(w[1], p) /\ ~SameAttempt(p, w) =>
                     Superseded(w, k)
               /\ SameAttempt(p, w) /\ p.status = "running" => Begun(c, w[1], w[2])
               /\ SameAttempt(p, w) /\ p.status = "failed" => HasOutcome(c, w[1], w[2])
               /\ SameAttempt(p, w) /\ p.status \notin Startable \cup {"running", "failed"} =>
                     Accounted(w, c, i)
<1> DEFINE w == lease.work
<1> DEFINE u == w[1]
<1> DEFINE p == i.units[u]
<1>1. w \in WorkIDs /\ u \in Units \ Done /\ w[2] \in Nat /\ w[2] >= 1 /\ Present(k, w)
  BY LeaseWork, PolicyAssumption DEF Policies
<1>2. UnitHistory(u, p, c, k)
  BY <1>1 DEF History
<1>3. p \in Progresses(Keys) /\ p.attempt \in Nat /\ p.status \in UnitStatuses
  BY <1>1, InstanceTyped DEF Instances, Progresses
<1> HIDE DEF p
<1>4. RowOf(k, w, u, w[2])
  BY <1>1 DEF RowOf
<1>5. ~ReportedAs(u, p) => w[2] <= Reach(p)
  BY <1>1, <1>2, <1>4 DEF UnitHistory, RowsAgree
<1>6. ~ReportedAs(u, p) /\ w[2] < Reach(p) => Superseded(w, k)
  <2> SUFFICES ASSUME ~ReportedAs(u, p), w[2] < Reach(p) PROVE Superseded(w, k)
    OBVIOUS
  <2>1. Reach(p) \in Nat
    BY <1>3 DEF Reach
  <2>2. w[2] + 1 \in 1 .. Reach(p)
    BY <1>1, <2>1
  <2>3. \E v \in WorkIDs : RowOf(k, v, u, w[2] + 1)
    BY <1>2, <2>2 DEF UnitHistory, RowsAgree
  <2> QED
    BY <2>3 DEF Superseded
<1>7. p.status \in Startable => ~ReportedAs(u, p) /\ Reach(p) = p.attempt + 1
  BY DEF Startable, ReportedAs, Reach
<1>8. p.status \notin Startable => Reach(p) = p.attempt
  BY DEF Startable, Reach
<1>9. p.status \in Startable /\ w[2] # p.attempt + 1 => Superseded(w, k)
  BY <1>1, <1>3, <1>5, <1>6, <1>7
<1>10. p.status \notin Startable /\ ~ReportedAs(u, p) /\ ~SameAttempt(p, w) => Superseded(w, k)
  <2> SUFFICES ASSUME p.status \notin Startable, ~ReportedAs(u, p), ~SameAttempt(p, w)
               PROVE  w[2] < Reach(p)
    BY <1>6
  <2>1. w[2] <= p.attempt
    BY <1>5, <1>8
  <2>2. w[2] # p.attempt
    <3> SUFFICES ASSUME w[2] = p.attempt PROVE FALSE
      OBVIOUS
    <3>1. p.key \in WorkIDs /\ RowOf(k, p.key, u, p.attempt)
      BY <1>1, <1>2 DEF UnitHistory, RowsAgree
    <3>2. p.key = w
      BY <1>1, <1>2, <1>4, <3>1 DEF UnitHistory, RowsAgree
    <3> QED
      BY <3>2 DEF SameAttempt
  <2> QED
    BY <1>1, <1>3, <1>8, <2>1, <2>2
<1>11. ReportedAs(u, p) => Accounted(w, c, i)
  BY DEF Accounted, p
<1>12. SameAttempt(p, w) => p.attempt = w[2]
  BY DEF SameAttempt
<1>13. SameAttempt(p, w) /\ p.status = "running" => Begun(c, u, w[2])
  BY <1>2, <1>12 DEF UnitHistory, Shaped, StartsAgree, Begun
<1>14. SameAttempt(p, w) /\ p.status = "failed" => HasOutcome(c, u, w[2])
  BY <1>2, <1>12 DEF UnitHistory, OutcomesAgree, Concluded
<1>15. SameAttempt(p, w) /\ p.status \notin Startable \cup {"running", "failed"} => Accounted(w, c, i)
  <2> SUFFICES ASSUME SameAttempt(p, w), p.status \notin Startable \cup {"running", "failed"}
               PROVE  HasOutcome(c, u, w[2]) \/ ReportedAs(u, p)
    BY DEF Accounted, p
  <2>1. p.status # "none"
    BY <1>1, <1>2, <1>12 DEF UnitHistory, Shaped
  <2>2. p.status \in {"succeeded", "unknown", "manuallyResolved", "active", "childFailed"}
    BY <1>3, <2>1 DEF Startable, UnitStatuses, CompensationStatuses, ChildStatuses, ActivityStatuses
  <2>3. Concluded(u, p) \/ ReportedAs(u, p)
    BY <1>2, <2>2 DEF Concluded, ReportedAs, UnitHistory, Shaped
  <2> QED
    BY <1>2, <1>12, <2>3 DEF UnitHistory, OutcomesAgree
<1> QED
  BY <1>9, <1>10, <1>11, <1>13, <1>14, <1>15 DEF p

(* Where Persist leads, from the instance or from an older look at it.     *)
LEMMA PersistFits ==
    ASSUME NEW sq \in Nat, NEW c, NEW i, NEW s \in Instance, NEW k, NEW ef, NEW n \in Nat, NEW lease,
           NEW outcome, LeaseFits(lease, k),
           s.valid = TRUE, s.sequence <= sq, s.sequence = sq => s = i,
           IF Kind[lease.work[1]] = "child" THEN outcome \in ChildStartOutcomes ELSE outcome \in Outcomes,
           Begun(c, lease.work[1], lease.work[2]),
           outcome.kind \in {"succeeded", "started"} => AttemptOf(lease.work) \in ef
    PROVE  Outgoing(Persist(s, lease, n, outcome), lease, outcome.kind, sq, c, i, k, ef)
<1> DEFINE at == Later(n, s.updatedAt)
<1> DEFINE x == CommitNext(lease, NewActivityAttemptOutcome(s, lease.work, at, outcome))
<1>1. lease.work \in WorkIDs /\ lease.work[1] \in Units
  BY LeaseWork
<1>2. Persist(s, lease, n, outcome) = IF MayPersist(s, lease.work, at) THEN x ELSE Leave
  BY <1>1, PersistValue, Zenon
<1>3. at \in Nat
  BY DEF Later, Instance
<1> HIDE DEF at
<1>4. ASSUME MayPersist(s, lease.work, at)
      PROVE  Outgoing(x, lease, outcome.kind, sq, c, i, k, ef)
  <2>1. MayEnd(s, lease.work, at, outcome, sq, c, i, ef)
    BY <1>1, <1>3, <1>4 DEF MayPersist, MayEnd
  <2> QED
    BY <2>1, OutcomeNext
<1>5. Outgoing(Leave, lease, outcome.kind, sq, c, i, k, ef)
  BY LeaveFits
<1> HIDE DEF x
<1> QED
  BY <1>2, <1>4, <1>5

(* Where Retry leads.                                                      *)
LEMMA RetryLeads ==
    ASSUME NEW sq, NEW c, NEW i \in Instance, NEW k, NEW ef, NEW n \in Nat, NEW lease, NEW kind,
           LeaseFits(lease, k), i.valid = TRUE, i.sequence = sq, History(i, c, k),
           HasOutcome(c, lease.work[1], lease.work[2])
    PROVE  Outgoing(Retry(i, lease, n), lease, kind, sq, c, i, k, ef)
<1> DEFINE at == Later(n, i.updatedAt)
<1> DEFINE x == CommitNext(lease, RetryOf(i, lease, at))
<1> DEFINE y == FinishNext(lease, "complete")
<1>1. lease.work[1] \in Units
  BY LeaseWork
<1>2. Retry(i, lease, n) =
          IF NoRetryLeft(i.units[lease.work[1]], lease, at) THEN y
          ELSE IF MayRetry(i, lease, at) THEN x ELSE Leave
  BY <1>1, RetryValue, Zenon
<1>3. at \in Nat
  BY DEF Later, Instance
<1> HIDE DEF at
<1>4. Outgoing(y, lease, kind, sq, c, i, k, ef)
  <2>1. Accounted(lease.work, c, i)
    BY DEF Accounted
  <2> QED
    BY <2>1, FinishFits
<1>5. ASSUME MayRetry(i, lease, at)
      PROVE  Outgoing(x, lease, kind, sq, c, i, k, ef)
  BY <1>3, <1>5, RetryNext DEF MayRetry, RetryOf
<1>6. Outgoing(Leave, lease, kind, sq, c, i, k, ef)
  BY LeaveFits
<1> HIDE DEF x, y
<1> QED
  BY <1>2, <1>4, <1>5, <1>6

(* Where Process leads.                                                    *)
LEMMA ProcessFits ==
    ASSUME NEW sq, NEW c, NEW i \in Instance, NEW k, NEW ef, NEW n \in Nat, NEW lease,
           LeaseFits(lease, k), i.valid = TRUE, i.sequence = sq, History(i, c, k)
    PROVE  Outgoing(Process(i, lease, n), lease, "unknown", sq, c, i, k, ef)
<1> DEFINE w == lease.work
<1> DEFINE p == i.units[w[1]]
<1> DEFINE Good(r) == Outgoing(r, lease, "unknown", sq, c, i, k, ef)
<1>1. lease.work[1] \in Units
  BY LeaseWork
<1>2. Process(i, lease, n) = ProcessOf(i, lease, n)
  BY <1>1, ProcessValue
<1>3. /\ p.status \in Startable /\ w[2] # p.attempt + 1 => Superseded(w, k)
      /\ ReportedAs(w[1], p) => Accounted(w, c, i)
      /\ p.status \notin Startable /\ ~ReportedAs(w[1], p) /\ ~SameAttempt(p, w) =>
                     Superseded(w, k)
      /\ SameAttempt(p, w) /\ p.status = "running" => Begun(c, w[1], w[2])
      /\ SameAttempt(p, w) /\ p.status = "failed" => HasOutcome(c, w[1], w[2])
      /\ SameAttempt(p, w) /\ p.status \notin Startable \cup {"running", "failed"} =>
                     Accounted(w, c, i)
  BY LeaseFate, Zenon
<1>4. Superseded(w, k) => Good(FinishNext(lease, "dead"))
  BY FinishFits
<1>5. Accounted(w, c, i) => Good(FinishNext(lease, "complete"))
  BY FinishFits
<1>6. Good(Leave)
  BY LeaveFits
<1>7. Good(ExecuteOf(i, lease, n))
  <2>1. ASSUME MayExecute(i, lease, n)
        PROVE  Good(CommitNext(lease, NewActivityAttemptStart(i, lease, n)))
    <3>1. MayStart(i, lease, n, sq, k)
      BY <2>1 DEF MayExecute, MayStart
    <3> QED
      BY <3>1, StartNext
  <2> HIDE DEF Good
  <2> QED
    BY <1>6, <2>1 DEF ExecuteOf
<1>8. Begun(c, w[1], w[2]) => Good(Persist(i, lease, n, UnknownOutcome))
  <2> SUFFICES ASSUME Begun(c, w[1], w[2]) PROVE Good(Persist(i, lease, n, UnknownOutcome))
    OBVIOUS
  <2>1. UnknownOutcome.kind = "unknown" /\ UnknownOutcome \in Outcomes /\ UnknownOutcome \in ChildStartOutcomes
    <3>1. UnknownOutcome \in Outcomes /\ UnknownOutcome \in ChildStartOutcomes
      BY Zenon DEF Outcomes, ChildStartOutcomes
    <3> QED
      BY <3>1 DEF UnknownOutcome
  <2>2. i.sequence \in Nat
    BY DEF Instance
  <2>3. sq \in Nat /\ i.sequence <= sq
    BY <2>2
  <2>4. Outgoing(Persist(i, lease, n, UnknownOutcome), lease, UnknownOutcome.kind, sq, c, i, k, ef)
    BY <2>1, <2>3, PersistFits
  <2> QED
    BY <2>1, <2>4
<1>9. HasOutcome(c, w[1], w[2]) => Good(Retry(i, lease, n))
  BY RetryLeads
<1> HIDE DEF Good
<1>10. Good(ProcessOf(i, lease, n))
  <2> HIDE DEF p, w
  <2>1. ProcessOf(i, lease, n) =
        IF p.status \in Startable
        THEN IF w[2] = p.attempt + 1 THEN ExecuteOf(i, lease, n) ELSE FinishNext(lease, "dead")
        ELSE IF ReportedAs(w[1], p) THEN FinishNext(lease, "complete")
        ELSE IF ~SameAttempt(p, w) THEN FinishNext(lease, "dead")
        ELSE IF p.status = "running" THEN Persist(i, lease, n, UnknownOutcome)
        ELSE IF p.status = "failed" THEN Retry(i, lease, n)
        ELSE FinishNext(lease, "complete")
    BY Zenon DEF ProcessOf, p, w
  <2> QED
    BY <1>3, <1>4, <1>5, <1>7, <1>8, <1>9, <2>1
<1> QED
  BY <1>2, <1>10 DEF Good
-----------------------------------------------------------------------------
(* A processor takes its next step, and the store stays.                   *)

(* An outcome of the given kind takes nothing away from others.            *)
NoHarm(kind, p, w, c, i, pr, ef) ==
    /\ \/ kind = "unknown"
       \/ \A q \in Workers : i.valid /\ q # p /\ Entitled(pr[q], c) =>
              AttemptOf(pr[q].lease.work) # AttemptOf(w)
    /\ kind = "failed" /\ Kind[w[1]] = "child" => AttemptOf(w) \notin ef

(* A processor that goes on so keeps the invariant.                        *)
LEMMA StepKeeps ==
    ASSUME NEW n, NEW sq, NEW c, NEW i, NEW k, NEW pr, NEW wi, NEW ru, NEW ef,
           Inv(n, sq, c, i, k, pr, wi, ru, ef),
           NEW p \in Workers, pr[p].pc # "idle",
           NEW r, NEW kind, Outgoing(r, pr[p].lease, kind, sq, c, i, k, ef),
           NoHarm(kind, p, pr[p].lease.work, c, i, pr, ef)
    PROVE  Inv(n, sq, c, i, k, [pr EXCEPT ![p] = r], wi, ru, ef)
<1>1. Fit(r, sq, c, i, k, ef) /\ r.pc \in {"idle", "commit", "finish"}
  BY DEF Outgoing
<1>2. r.pc = "handler" => ru[AttemptOf(r.lease.work)] = 1
  BY <1>1
<1>3. r.pc # "idle" =>
          \A q \in Workers : q # p /\ pr[q].pc # "idle" => Apart(r.lease, pr[q].lease)
  BY DEF Outgoing, Inv, ProcessorsFit
<1>4. \A t \in wi : Ready(t, sq, c, i, k, ef) /\ Pooled(t, c, pr, wi)
  BY DEF Inv, ProcessorsFit, Pooled
<1>5. ~Entitled(r, c)
  <2> SUFFICES ASSUME Entitled(r, c) PROVE FALSE
    OBVIOUS
  <2>1. r.pc = "commit" /\ r.tx.id[2] = "start" /\ r.tx \in c
    BY <1>1 DEF Entitled, Staging, Committing
  <2>2. r.tx.expected = sq
    BY <2>1 DEF Outgoing
  <2>3. r.tx.expected < sq /\ sq \in Nat
    BY <2>1 DEF Inv, StoreFits, Durable
  <2> QED
    BY <2>2, <2>3
<1>6. r.pc \in Staging => Harmless(r.tx, p, c, i, pr, ef)
  <2> SUFFICES ASSUME r.pc \in Staging, NEW u, NEW m, OutcomeOf(r.tx, u, m)
               PROVE  /\ \/ First(r.tx).kind = "unknown"
                         \/ \A q \in Workers : i.valid /\ q # p /\ Entitled(pr[q], c) =>
                                AttemptOf(pr[q].lease.work) # <<u, m>>
                      /\ First(r.tx).kind = "failed" /\ Kind[u] = "child" => <<u, m>> \notin ef
    BY DEF Harmless
  <2>1. r.pc = "commit"
    BY <1>1 DEF Staging, Committing
  <2>2. r.tx.id[1] = r.lease.work /\ r.lease = pr[p].lease
    BY <1>1, <2>1 DEF Fit, Outgoing
  <2>3. First(r.tx).kind = kind
    BY <2>1 DEF Outgoing, OutcomeOf
  <2>4. <<u, m>> = AttemptOf(pr[p].lease.work) /\ u = pr[p].lease.work[1]
    BY <2>2 DEF OutcomeOf, AttemptOf
  <2> QED
    BY <2>3, <2>4 DEF NoHarm
<1>7. Turns(p, r, wi, sq, c, i, k, pr, wi, ru, ef)
  BY <1>1, <1>2, <1>3, <1>4, <1>5, <1>6 DEF Turns
<1> QED
  BY <1>7, TurnKeeps

(* It gives up.                                                            *)
LEMMA LeaveKeeps ==
    ASSUME NEW n, NEW sq, NEW c, NEW i, NEW k, NEW pr, NEW wi, NEW ru, NEW ef,
           Inv(n, sq, c, i, k, pr, wi, ru, ef), NEW p \in Workers,
           NEW xi, \A t \in xi : Ready(t, sq, c, i, k, ef) /\ Pooled(t, c, pr, wi)
    PROVE  Inv(n, sq, c, i, k, [pr EXCEPT ![p] = Idle], xi, ru, ef)
<1>1. Fit(Idle, sq, c, i, k, ef) /\ Idle.pc = "idle"
  BY IdleFits
<1>2. "idle" \notin Staging /\ "idle" # "inspect"
  BY DEF Staging, Committing
<1> DEFINE r == Idle
<1> HIDE DEF r
<1>3. Fit(r, sq, c, i, k, ef) /\ r.pc = "idle"
  BY <1>1 DEF r
<1>4. Turns(p, r, xi, sq, c, i, k, pr, wi, ru, ef)
  BY <1>2, <1>3 DEF Turns, Entitled
<1>5. Inv(n, sq, c, i, k, [pr EXCEPT ![p] = r], xi, ru, ef)
  BY <1>4, TurnKeeps
<1> QED
  BY <1>5 DEF r

(* The database settles an abandoned transaction.                          *)
LEMMA WireKeeps ==
    ASSUME NEW n, NEW sq, NEW c, NEW i, NEW k, NEW pr, NEW wi, NEW ru, NEW ef,
           Inv(n, sq, c, i, k, pr, wi, ru, ef)
    PROVE  Inv(n, sq, c, i, k, pr, {}, ru, ef)
<1>1. \A t : Pooled(t, c, pr, {}) => Pooled(t, c, pr, wi)
  BY DEF Pooled
<1>2. \A a : Unsettled(a, c, pr, wi) => Unsettled(a, c, pr, {})
  BY <1>1 DEF Unsettled
<1>3. \A a : NeverFailed(a, c, pr, wi) => NeverFailed(a, c, pr, {})
  BY <1>1 DEF NeverFailed
<1>4. ProcessorsFit(sq, c, i, k, pr, {}, ru, ef)
  BY <1>2, <1>3 DEF Inv, ProcessorsFit
<1> QED
  BY <1>4 DEF Inv
(* A processor's state with another pc.                                    *)
LEMMA PCChanged ==
    ASSUME NEW r, StateShape(r), NEW x
    PROVE  LET q == [r EXCEPT !.pc = x]
           IN  /\ q.pc = x /\ q.lease = r.lease /\ q.tx = r.tx /\ q.snapshot = r.snapshot
               /\ q.decision = r.decision /\ StateShape(q)
<1> DEFINE q == [r EXCEPT !.pc = x]
<1>1. r = StateRecord(r.pc, r.lease, r.tx, r.snapshot, r.decision)
  BY DEF StateShape, StateRecord
<1> DEFINE a == r.lease
<1> DEFINE b == r.tx
<1> DEFINE d == r.snapshot
<1> DEFINE e == r.decision
<1> DEFINE f == r.pc
<1>2. r = StateRecord(f, a, b, d, e)
  BY <1>1
<1> HIDE DEF a, b, d, e, f
<1>3. q = StateRecord(x, a, b, d, e)
  BY <1>2 DEF StateRecord
<1> HIDE DEF q
<1>4. q.pc = x /\ q.lease = a /\ q.tx = b /\ q.snapshot = d /\ q.decision = e /\ StateShape(q)
  BY <1>3, StateFields
<1> QED
  BY <1>4 DEF q, a, b, d, e

(* A transition that a processor staged is durable: it goes on.            *)
LEMMA AfterCommitKeeps ==
    ASSUME NEW n, NEW sq, NEW c, NEW i, NEW k, NEW pr, NEW wi, NEW ru, NEW ef,
           Inv(n, sq, c, i, k, pr, wi, ru, ef),
           NEW p \in Workers, pr[p].pc \in Staging, pr[p].tx \in c
    PROVE  Inv(n, sq, c, i, k, [pr EXCEPT ![p] = AfterCommit(pr[p])], wi, ru, ef)
<1> DEFINE s == pr[p]
<1> DEFINE t == s.tx
<1> DEFINE w == s.lease.work
<1>1. Fit(s, sq, c, i, k, ef) /\ s.pc # "idle" /\ s.pc # "inspect"
  BY DEF Inv, ProcessorsFit, Staging, Committing
<1>2. /\ Ready(t, sq, c, i, k, ef) /\ t.id[1] = w /\ InLease(t, s.lease) /\ LeaseFits(s.lease, k)
      /\ t.id[2] = "retry" => HasOutcome(c, w[1], w[2])
      /\ StateShape(s) /\ s.snapshot \in Instance
  BY <1>1 DEF Fit
<1>3. \/ StartShape(t) /\ t.id[2] = "start"
      \/ OutcomeShape(t) /\ t.id[2] = "outcome"
      \/ RetryShape(t) /\ t.id[2] = "retry"
  BY <1>2 DEF Ready, Staged, StartShape, OutcomeShape, RetryShape
<1>4. NoHarm("unknown", p, w, c, i, pr, ef)
  BY DEF NoHarm
<1>5. HasOutcome(c, w[1], w[2]) =>
          Outgoing(FinishNext(s.lease, "complete"), s.lease, "unknown", sq, c, i, k, ef)
  <2>1. HasOutcome(c, w[1], w[2]) => Accounted(w, c, i)
    BY DEF Accounted
  <2> QED
    BY <1>2, <2>1, FinishFits
<1>6. \A q \in Workers : q # p /\ pr[q].pc # "idle" => Apart(s.lease, pr[q].lease)
  BY <1>1 DEF Inv, ProcessorsFit
<1>7. \A x \in wi : Ready(x, sq, c, i, k, ef) /\ Pooled(x, c, pr, wi)
  BY DEF Inv, ProcessorsFit, Pooled
<1>8. CASE t.id[2] = "start"
  <2> DEFINE r == [s EXCEPT !.pc = "inspect"]
  <2>1. AfterCommit(s) = r
    BY <1>8, Zenon DEF AfterCommit
  <2>2. r.pc = "inspect" /\ r.lease = s.lease /\ r.tx = t /\ r.snapshot = s.snapshot /\ StateShape(r)
    BY <1>2, PCChanged
  <2> HIDE DEF r
  <2>3. StartShape(t) /\ t \in c
    BY <1>3, <1>8
  <2>4. "inspect" \in PCs /\ "inspect" \notin Staging
    BY DEF PCs, Staging, Committing
  <2>5. Fit(r, sq, c, i, k, ef)
    BY <1>2, <2>2, <2>3, <2>4 DEF Fit
  <2>6. Entitled(s, c)
    BY <1>8 DEF Entitled
  <2>7. Turns(p, r, wi, sq, c, i, k, pr, wi, ru, ef)
    BY <1>6, <1>7, <2>2, <2>4, <2>5, <2>6 DEF Turns
  <2>8. Inv(n, sq, c, i, k, [pr EXCEPT ![p] = r], wi, ru, ef)
    BY <2>7, TurnKeeps
  <2> QED
    BY <2>1, <2>8
<1>9. CASE t.id[2] = "outcome"
  <2>1. OutcomeShape(t)
    BY <1>3, <1>9
  <2>2. HasOutcome(c, w[1], w[2])
    BY <1>2, <1>9 DEF HasOutcome, OutcomeOf
  <2> DEFINE r == [s EXCEPT !.pc = "after"]
  <2> DEFINE f == FinishNext(s.lease, "complete")
  <2>3. AfterCommit(s) = IF Kind[w[1]] = "child" /\ t.events[1].kind # "failed" THEN f ELSE r
    BY <1>9, Zenon DEF AfterCommit
  <2>4. r.pc = "after" /\ r.lease = s.lease /\ r.tx = t /\ r.snapshot = s.snapshot /\ StateShape(r)
    BY <1>2, PCChanged
  <2>5. Inv(n, sq, c, i, k, [pr EXCEPT ![p] = f], wi, ru, ef)
    BY <1>1, <1>4, <1>5, <2>2, StepKeeps
  <2> HIDE DEF r, f
  <2>6. "after" \in PCs /\ "after" \notin Staging
    BY DEF PCs, Staging, Committing
  <2>7. Fit(r, sq, c, i, k, ef)
    BY <1>2, <2>1, <2>4, <2>6 DEF Fit
  <2>8. Turns(p, r, wi, sq, c, i, k, pr, wi, ru, ef)
    BY <1>6, <1>7, <2>4, <2>6, <2>7 DEF Turns, Entitled
  <2>9. Inv(n, sq, c, i, k, [pr EXCEPT ![p] = r], wi, ru, ef)
    BY <2>8, TurnKeeps
  <2> QED
    BY <2>3, <2>5, <2>9
<1>10. CASE t.id[2] = "retry"
  <2>1. AfterCommit(s) = FinishNext(s.lease, "complete")
    BY <1>10, Zenon DEF AfterCommit
  <2>2. Inv(n, sq, c, i, k, [pr EXCEPT ![p] = FinishNext(s.lease, "complete")], wi, ru, ef)
    BY <1>1, <1>2, <1>4, <1>5, <1>10, StepKeeps
  <2> QED
    BY <2>1, <2>2
<1> QED
  BY <1>3, <1>8, <1>9, <1>10

(* It offers its transition again, or goes to see whether it landed; the   *)
(* transition may be on the wire.                                          *)
LEMMA OfferKeeps ==
    ASSUME NEW n, NEW sq, NEW c, NEW i, NEW k, NEW pr, NEW wi, NEW ru, NEW ef,
           Inv(n, sq, c, i, k, pr, wi, ru, ef),
           NEW p \in Workers, pr[p].pc \in Staging, NEW x \in Staging, NEW xi,
           xi \subseteq wi \cup {pr[p].tx}
    PROVE  Inv(n, sq, c, i, k, [pr EXCEPT ![p] = [pr[p] EXCEPT !.pc = x]], xi, ru, ef)
<1> DEFINE s == pr[p]
<1> DEFINE r == [s EXCEPT !.pc = x]
<1>1. Fit(s, sq, c, i, k, ef) /\ s.pc # "idle"
  BY DEF Inv, ProcessorsFit, Staging, Committing
<1>2. StateShape(s)
  BY <1>1 DEF Fit
<1>3. r.pc = x /\ r.lease = s.lease /\ r.tx = s.tx /\ r.snapshot = s.snapshot /\ StateShape(r)
  BY <1>2, PCChanged
<1> HIDE DEF r
<1>4. x \in PCs /\ x \notin {"inspect", "handler", "after", "finish", "idle"}
  BY DEF PCs, Staging, Committing
<1>5. Fit(r, sq, c, i, k, ef)
  BY <1>1, <1>3, <1>4 DEF Fit
<1>6. \A q \in Workers : q # p /\ pr[q].pc # "idle" => Apart(s.lease, pr[q].lease)
  BY <1>1 DEF Inv, ProcessorsFit
<1>7. Pooled(s.tx, c, pr, wi) /\ Ready(s.tx, sq, c, i, k, ef)
  BY <1>1 DEF Fit, Pooled
<1>8. \A t \in xi : Ready(t, sq, c, i, k, ef) /\ Pooled(t, c, pr, wi)
  <2>1. \A t \in wi : Ready(t, sq, c, i, k, ef) /\ Pooled(t, c, pr, wi)
    BY DEF Inv, ProcessorsFit, Pooled
  <2> QED
    BY <1>7, <2>1
<1>9. Entitled(r, c) => Entitled(s, c)
  BY <1>3 DEF Entitled
<1>10. Turns(p, r, xi, sq, c, i, k, pr, wi, ru, ef)
  BY <1>3, <1>4, <1>5, <1>6, <1>7, <1>8, <1>9 DEF Turns
<1>11. Inv(n, sq, c, i, k, [pr EXCEPT ![p] = r], xi, ru, ef)
  BY <1>10, TurnKeeps
<1> QED
  BY <1>11 DEF r
-----------------------------------------------------------------------------
(* The steps of the processors.                                            *)

LEMMA TickStep == IInv /\ Tick => IInv'
  BY TimeKeeps DEF IInv, Tick, store, ghost

(* A processor inspects the instance and decides.                          *)
LEMMA LoadStep ==
    ASSUME IInv, NEW p \in Workers, Load(p)
    PROVE  IInv'
<1> USE DEF IInv
<1> DEFINE r == IF Readable(instance) THEN Process(instance, proc[p].lease, now) ELSE Leave
<1>1. proc[p].pc = "load" /\ proc' = [proc EXCEPT ![p] = r]
  BY DEF Load
<1>2. Fit(proc[p], sequence, committed, instance, work, effects)
  BY DEF Inv, ProcessorsFit
<1>3. LeaseFits(proc[p].lease, work)
  BY <1>1, <1>2 DEF Fit
<1>4. Outgoing(r, proc[p].lease, "unknown", sequence, committed, instance, work, effects)
  <2>1. CASE Readable(instance)
    <3>1. /\ instance \in Instance /\ instance.valid /\ instance.sequence = sequence
          /\ History(instance, committed, work) /\ now \in Nat
      BY <2>1 DEF Readable, Inv, StoreFits
    <3>2. instance.valid = TRUE
      BY <3>1 DEF Instance
    <3> QED
      BY <1>3, <2>1, <3>1, <3>2, ProcessFits
  <2>2. CASE ~Readable(instance)
    BY <2>2, LeaveFits
  <2> QED
    BY <2>1, <2>2
<1> HIDE DEF r
<1>5. NoHarm("unknown", p, proc[p].lease.work, committed, instance, proc, effects)
  BY DEF NoHarm
<1>6. proc[p].pc # "idle"
  BY <1>1
<1>7. Inv(now, sequence, committed, instance, work, [proc EXCEPT ![p] = r], wire, runs, effects)
  BY <1>4, <1>5, <1>6, StepKeeps
<1> QED
  BY <1>1, <1>7 DEF Load, store, ghost

(* Giving up.                                                              *)
LEMMA GiveUpStep ==
    ASSUME IInv, NEW p \in Workers, CommitRejected(p) \/ InspectFails(p)
    PROVE  IInv'
<1> USE DEF IInv
<1>1. \A t \in wire : Ready(t, sequence, committed, instance, work, effects)
                      /\ Pooled(t, committed, proc, wire)
  BY DEF Inv, ProcessorsFit, Pooled
<1>2. Inv(now, sequence, committed, instance, work, [proc EXCEPT ![p] = Idle], wire, runs, effects)
  BY <1>1, LeaveKeeps
<1> QED
  BY <1>2 DEF CommitRejected, InspectFails, Leave, store, ghost

(* A process dies.                                                         *)
LEMMA CrashStep ==
    ASSUME IInv, NEW p \in Workers, Crash(p)
    PROVE  IInv'
<1> USE DEF IInv
<1>1. \A t \in wire : Ready(t, sequence, committed, instance, work, effects)
                      /\ Pooled(t, committed, proc, wire)
  BY DEF Inv, ProcessorsFit, Pooled
<1>2. proc[p].pc \in Committing => Ready(proc[p].tx, sequence, committed, instance, work, effects)
                                   /\ Pooled(proc[p].tx, committed, proc, wire)
  BY DEF Inv, ProcessorsFit, Fit, Pooled, Staging
<1>3. \A t \in wire' : Ready(t, sequence, committed, instance, work, effects)
                       /\ Pooled(t, committed, proc, wire)
  BY <1>1, <1>2 DEF Crash
<1>4. Inv(now, sequence, committed, instance, work, [proc EXCEPT ![p] = Idle], wire', runs, effects)
  BY <1>3, LeaveKeeps
<1> QED
  BY <1>4 DEF Crash, store, ghost

(* A commit is answered by an error that leaves its fate open.             *)
LEMMA UnknownStep ==
    ASSUME IInv, NEW p \in Workers, CommitUnknown(p)
    PROVE  IInv'
<1> USE DEF IInv
<1>1. proc[p].pc \in Committing /\ proc[p].pc \in Staging /\ "reconcile" \in Staging
  BY DEF CommitUnknown, Staging
<1>2. Ready(proc[p].tx, sequence, committed, instance, work, effects)
      /\ Pooled(proc[p].tx, committed, proc, wire)
  BY <1>1 DEF Inv, ProcessorsFit, Fit, Pooled
<1>3. Inv(now, sequence, committed, instance, work, [proc EXCEPT ![p] = Idle], {proc[p].tx}, runs, effects)
  BY <1>2, LeaveKeeps
<1>4. Inv(now, sequence, committed, instance, work,
          [proc EXCEPT ![p] = [proc[p] EXCEPT !.pc = "reconcile"]], {proc[p].tx}, runs, effects)
  BY <1>1, OfferKeeps
<1>5. /\ wire' = {proc[p].tx} /\ faults' \in Nat
      /\ UNCHANGED <<now, store, work, ghost>>
      /\ \/ proc' = [proc EXCEPT ![p] = [proc[p] EXCEPT !.pc = "reconcile"]]
         \/ proc' = [proc EXCEPT ![p] = Idle]
  <2> DEFINE x == [proc[p] EXCEPT !.pc = "reconcile"]
  <2>1. proc' = [proc EXCEPT ![p] = IF proc[p].pc = "commit" THEN x ELSE Idle]
    BY Zenon DEF CommitUnknown, Leave
  <2> HIDE DEF x
  <2>2. proc' = [proc EXCEPT ![p] = x] \/ proc' = [proc EXCEPT ![p] = Idle]
    BY <2>1
  <2> QED
    BY <2>2 DEF CommitUnknown, x
<1>6. Inv(now, sequence, committed, instance, work, proc', {proc[p].tx}, runs, effects)
  BY <1>3, <1>4, <1>5
<1> QED
  BY <1>5, <1>6 DEF store, ghost

(* A processor looks for the transition it committed.                      *)
LEMMA ReconcileStep ==
    ASSUME IInv, NEW p \in Workers, Reconcile(p)
    PROVE  IInv'
<1> USE DEF IInv
<1> DEFINE s == proc[p]
<1> DEFINE r == CASE Exact(s.tx)  -> AfterCommit(s)
                  [] ~Known(s.tx) -> [s EXCEPT !.pc = "recommit"]
                  [] OTHER        -> Leave
<1>1. s.pc = "reconcile" /\ s.pc \in Staging /\ "recommit" \in Staging
  BY DEF Reconcile, Staging, Committing
<1>2. Exact(s.tx) => ~ ~Known(s.tx)
  BY DEF Exact, Known
<1>3. /\ Exact(s.tx) => r = AfterCommit(s)
      /\ ~Exact(s.tx) /\ ~Known(s.tx) => r = [s EXCEPT !.pc = "recommit"]
      /\ ~Exact(s.tx) /\ Known(s.tx) => r = Leave
  <2>1. ASSUME Exact(s.tx) PROVE r = AfterCommit(s)
    BY <1>2, <2>1, Zenon
  <2>2. ASSUME ~Exact(s.tx), ~Known(s.tx) PROVE r = [s EXCEPT !.pc = "recommit"]
    BY <2>2, Zenon
  <2>3. ASSUME ~Exact(s.tx), Known(s.tx) PROVE r = Leave
    BY <2>3, Zenon
  <2> QED
    BY <2>1, <2>2, <2>3
<1> DEFINE Good(x) == Inv(now, sequence, committed, instance, work, [proc EXCEPT ![p] = x], wire, runs, effects)
<1>4. Exact(s.tx) => Good(AfterCommit(s))
  BY <1>1, AfterCommitKeeps DEF Exact
<1>5. Good([s EXCEPT !.pc = "recommit"])
  BY <1>1, OfferKeeps
<1>6. Good(Leave)
  <2>1. \A t \in wire : Ready(t, sequence, committed, instance, work, effects)
                        /\ Pooled(t, committed, proc, wire)
    BY DEF Inv, ProcessorsFit, Pooled
  <2> QED
    BY <2>1, LeaveKeeps DEF Leave
<1>7. proc' = [proc EXCEPT ![p] = r]
  BY Zenon DEF Reconcile
<1> HIDE DEF r, Good
<1>8. Good(r)
  BY <1>3, <1>4, <1>5, <1>6
<1> QED
  BY <1>7, <1>8 DEF Good, Reconcile, store, ghost

(* A staged transition lands.                                              *)
LEMMA StagedLands ==
    ASSUME NEW n, NEW sq, NEW c, NEW i, NEW k, NEW pr, NEW wi, NEW ru, NEW ef,
           NEW t, Ready(t, sq, c, i, k, ef), Pooled(t, c, pr, wi), t.expected = sq,
           \A w \in t.work : k[w.id].state = "absent"
    PROVE  MayLand(t, sq, c, k, pr, wi, ef)
<1>1. Staged(t) /\ Sound(t, c, k, ef)
  BY DEF Ready
<1>2. t.events = <<First(t)>>
  BY <1>1 DEF Staged, StartShape, OutcomeShape, RetryShape, Single
<1>3. Main(t) = First(t)
  BY <1>2 DEF Main
<1>4. Main(t).kind = "retryScheduled" => FailedOnce(c, Main(t).step, Main(t).attempt)
  BY <1>1, <1>3 DEF Staged, Sound, StartShape, OutcomeShape, RetryShape, Single
<1> QED
  BY <1>1, <1>4 DEF MayLand, Recorded

(* A commit is accepted, at once or as an exact replay.                    *)
LEMMA AcceptedStep ==
    ASSUME IInv, NEW p \in Workers, CommitAccepted(p)
    PROVE  IInv'
<1> USE DEF IInv
<1> DEFINE t == proc[p].tx
<1>1. proc[p].pc \in Staging
  BY DEF CommitAccepted, Staging
<1>2. Ready(t, sequence, committed, instance, work, effects) /\ Pooled(t, committed, proc, wire)
  BY <1>1 DEF Inv, ProcessorsFit, Fit, Pooled
<1>3. /\ UNCHANGED <<now, wire, runs, effects, faults>>
      /\ proc' = [proc EXCEPT ![p] = AfterCommit(proc[p])]
  BY DEF CommitAccepted, ghost
<1>4. CASE Exact(t) /\ UNCHANGED <<store, work>>
  <2>1. Inv(now, sequence, committed, instance, work, [proc EXCEPT ![p] = AfterCommit(proc[p])],
            wire, runs, effects)
    BY <1>1, <1>4, AfterCommitKeeps DEF Exact
  <2> QED
    BY <1>3, <1>4, <2>1 DEF store
<1>5. CASE Land(t)
  <2>1. MayLand(t, sequence, committed, work, proc, wire, effects)
    BY <1>2, <1>5, StagedLands DEF Land, Fresh
  <2>2. /\ sequence' = sequence + Len(t.events) /\ committed' = committed \cup {t}
        /\ instance' = Appended(instance, t.events) /\ work' = Inserted(t, work)
    BY <1>5 DEF Land, Inserted
  <2>3. Inv(now, sequence', committed', instance', work', proc, wire, runs, effects)
    BY <2>1, <2>2, LandKeeps
  <2>4. t \in committed'
    BY <2>2
  <2>5. Inv(now, sequence', committed', instance', work', [proc EXCEPT ![p] = AfterCommit(proc[p])],
            wire, runs, effects)
    BY <1>1, <2>3, <2>4, AfterCommitKeeps
  <2> QED
    BY <1>3, <2>5
<1> QED
  BY <1>4, <1>5 DEF CommitAccepted

(* An abandoned transaction is settled.                                    *)
LEMMA WireStep ==
    ASSUME IInv, RolledBack \/ \E t \in wire : LandLate(t)
    PROVE  IInv'
<1> USE DEF IInv
<1>1. CASE RolledBack
  BY <1>1, WireKeeps DEF RolledBack, store, ghost
<1>2. ASSUME NEW t \in wire, LandLate(t) PROVE IInv'
  <2>1. Ready(t, sequence, committed, instance, work, effects) /\ Pooled(t, committed, proc, wire)
    BY DEF Inv, ProcessorsFit, Pooled
  <2>2. Land(t) /\ wire' = {} /\ UNCHANGED <<now, proc, ghost, faults>>
    BY <1>2 DEF LandLate
  <2>3. MayLand(t, sequence, committed, work, proc, wire, effects)
    BY <2>1, <2>2, StagedLands DEF Land, Fresh
  <2>4. /\ sequence' = sequence + Len(t.events) /\ committed' = committed \cup {t}
        /\ instance' = Appended(instance, t.events) /\ work' = Inserted(t, work)
    BY <2>2 DEF Land, Inserted
  <2>5. Inv(now, sequence', committed', instance', work', proc, wire, runs, effects)
    BY <2>3, <2>4, LandKeeps
  <2>6. Inv(now, sequence', committed', instance', work', proc, {}, runs, effects)
    BY <2>5, WireKeeps
  <2> QED
    BY <2>2, <2>6 DEF ghost
<1> QED
  BY <1>1, <1>2
(* A handler is not called: its deadline has passed.                       *)
LEMMA TooLateStep ==
    ASSUME IInv, NEW p \in Workers, TooLate(p)
    PROVE  IInv'
<1> USE DEF IInv
<1> DEFINE s == proc[p]
<1> DEFINE w == s.lease.work
<1> DEFINE outcome == TooLateOutcome(w[1])
<1> DEFINE r == Persist(instance, s.lease, now, outcome)
<1>1. s.pc = "inspect" /\ Readable(instance) /\ proc' = [proc EXCEPT ![p] = r]
  BY DEF TooLate
<1>2. Fit(s, sequence, committed, instance, work, effects)
  BY DEF Inv, ProcessorsFit
<1>3. /\ LeaseFits(s.lease, work) /\ s.tx \in committed /\ StartShape(s.tx) /\ s.tx.id[1] = w
      /\ s.tx.id[2] = "start"
  BY <1>1, <1>2 DEF Fit, StartShape
<1>4. w[1] \in Units \ Done /\ w[2] \in Nat /\ AttemptOf(w) \in Attempts
  BY <1>3, LeaseWork
<1>5. Begun(committed, w[1], w[2])
  BY <1>3 DEF Begun, StartOf
<1>6. /\ instance \in Instance /\ instance.valid /\ instance.sequence = sequence
      /\ now \in Nat /\ sequence \in Nat
  BY <1>1 DEF Readable, Inv, StoreFits
<1>7. instance.valid = TRUE /\ instance.sequence <= sequence
  BY <1>6 DEF Instance
<1>8. Entitled(s, committed)
  BY <1>1, <1>3 DEF Entitled
<1>9. runs[AttemptOf(w)] = 0
  BY <1>6, <1>8 DEF Inv, ProcessorsFit
<1>10. AttemptOf(w) \notin effects
  BY <1>4, <1>9 DEF Inv, StoreFits, CallsFit
<1>11. /\ IF Kind[w[1]] = "child" THEN outcome \in ChildStartOutcomes ELSE outcome \in Outcomes
       /\ outcome.kind \in {"failed", "unknown"}
  <2>1. UnknownOutcome \in Outcomes /\ KnownAbsent \in ChildStartOutcomes
    BY Zenon DEF Outcomes, ChildStartOutcomes, KnownAbsent
  <2>2. UnknownOutcome.kind = "unknown" /\ KnownAbsent.kind = "failed"
    BY DEF UnknownOutcome, KnownAbsent
  <2> QED
    BY <2>1, <2>2 DEF TooLateOutcome
<1> HIDE DEF outcome
<1>12. Outgoing(r, s.lease, outcome.kind, sequence, committed, instance, work, effects)
  BY <1>3, <1>5, <1>6, <1>7, <1>11, PersistFits
<1>13. NoHarm(outcome.kind, p, w, committed, instance, proc, effects)
  <2>1. \A q \in Workers : instance.valid /\ q # p /\ Entitled(proc[q], committed) =>
           AttemptOf(proc[q].lease.work) # AttemptOf(w)
    <3> SUFFICES ASSUME NEW q \in Workers, instance.valid, q # p, Entitled(proc[q], committed)
                 PROVE  AttemptOf(proc[q].lease.work) # AttemptOf(w)
      OBVIOUS
    <3>1. /\ StoreFits(sequence, committed, instance, work, runs, effects)
          /\ ProcessorsFit(sequence, committed, instance, work, proc, wire, runs, effects)
      BY DEF Inv
    <3> QED
      BY <1>8, <3>1, EntitledApart
  <2> QED
    BY <1>10, <2>1 DEF NoHarm
<1> HIDE DEF r
<1>14. s.pc # "idle"
  BY <1>1
<1>15. Inv(now, sequence, committed, instance, work, [proc EXCEPT ![p] = r], wire, runs, effects)
  BY <1>12, <1>13, <1>14, StepKeeps
<1> QED
  BY <1>1, <1>15 DEF TooLate, store, ghost

(* A processor goes on after its outcome is durable.                       *)
LEMMA RecordedStep ==
    ASSUME IInv, NEW p \in Workers, OutcomeRecorded(p)
    PROVE  IInv'
<1> USE DEF IInv
<1> DEFINE s == proc[p]
<1> DEFINE w == s.lease.work
<1> DEFINE r == IF s.tx.events[1].kind = "failed" THEN Retry(instance, s.lease, now)
                                                  ELSE FinishNext(s.lease, "complete")
<1>1. s.pc = "after" /\ Readable(instance) /\ proc' = [proc EXCEPT ![p] = r]
  BY DEF OutcomeRecorded
<1>2. Fit(s, sequence, committed, instance, work, effects)
  BY DEF Inv, ProcessorsFit
<1>3. LeaseFits(s.lease, work) /\ s.tx \in committed /\ OutcomeShape(s.tx) /\ s.tx.id[1] = w
  BY <1>1, <1>2 DEF Fit
<1>4. HasOutcome(committed, w[1], w[2])
  BY <1>3 DEF HasOutcome, OutcomeOf, OutcomeShape
<1>5. /\ instance \in Instance /\ instance.valid /\ instance.sequence = sequence
      /\ now \in Nat /\ History(instance, committed, work)
  BY <1>1 DEF Readable, Inv, StoreFits
<1>6. instance.valid = TRUE
  BY <1>5 DEF Instance
<1>7. Outgoing(Retry(instance, s.lease, now), s.lease, "unknown", sequence, committed, instance, work, effects)
  BY <1>3, <1>4, <1>5, <1>6, RetryLeads
<1>8. Outgoing(FinishNext(s.lease, "complete"), s.lease, "unknown", sequence, committed, instance, work, effects)
  <2>1. Accounted(w, committed, instance)
    BY <1>4 DEF Accounted
  <2> QED
    BY <1>3, <2>1, FinishFits
<1>9. Outgoing(r, s.lease, "unknown", sequence, committed, instance, work, effects)
  BY <1>7, <1>8
<1>10. NoHarm("unknown", p, w, committed, instance, proc, effects) /\ s.pc # "idle"
  BY <1>1 DEF NoHarm
<1> HIDE DEF r
<1>11. Inv(now, sequence, committed, instance, work, [proc EXCEPT ![p] = r], wire, runs, effects)
  BY <1>9, <1>10, StepKeeps
<1> QED
  BY <1>1, <1>11 DEF OutcomeRecorded, store, ghost

(* A handler answers.                                                      *)
LEMMA ReturnStep ==
    ASSUME IInv, NEW p \in Workers, HandlerReturns(p)
    PROVE  IInv'
<1> USE DEF IInv
<1> DEFINE s == proc[p]
<1> DEFINE w == s.lease.work
<1> DEFINE a == AttemptOf(w)
<1>1. PICK outcome \in Answers(a) :
        /\ proc' = [proc EXCEPT ![p] = Persist(s.snapshot, s.lease, now, outcome)]
        /\ effects' = IF outcome.kind = "succeeded" THEN effects \cup {a} ELSE effects
  BY DEF HandlerReturns, AttemptOf
<1> DEFINE r == Persist(s.snapshot, s.lease, now, outcome)
<1>2. s.pc = "handler" /\ UNCHANGED <<now, store, work, wire, runs, faults>>
  BY DEF HandlerReturns
<1>3. Fit(s, sequence, committed, instance, work, effects) /\ runs[a] = 1
  BY <1>2 DEF Inv, ProcessorsFit
<1>4. LeaseFits(s.lease, work) /\ Called(s, sequence, committed, instance) /\ s.snapshot \in Instance
  BY <1>2, <1>3 DEF Fit
<1>5. w[1] \in Units \ Done /\ w[2] \in Nat /\ a \in Attempts /\ a[1] = w[1] /\ a[2] = w[2]
  BY <1>4, LeaseWork DEF AttemptOf
<1>6. Begun(committed, w[1], w[2])
  <2>1. PICK t \in committed : t.id = processorTransitionID(w, "start")
    BY <1>4 DEF Called
  <2>2. t.id[1] = w /\ t.id[2] = "start"
    BY <2>1 DEF processorTransitionID
  <2> QED
    BY <2>2 DEF Begun, StartOf
<1>7. \A q \in Workers : instance.valid /\ Entitled(proc[q], committed) =>
          AttemptOf(proc[q].lease.work) # a
  BY <1>3 DEF Inv, ProcessorsFit
<1>8. /\ IF Kind[w[1]] = "child" THEN outcome \in ChildStartOutcomes ELSE outcome \in Outcomes
      /\ Kind[w[1]] = "child" /\ outcome.kind = "started" => a \in effects
      /\ Kind[w[1]] = "child" /\ outcome.kind = "failed" => a \notin effects
  BY <1>1, <1>5 DEF Answers
<1>9. Kind[w[1]] = "child" => outcome.kind # "succeeded"
  BY <1>8 DEF ChildStartOutcomes, UnknownOutcome
<1>10. Kind[w[1]] # "child" => outcome.kind # "started"
  BY <1>8 DEF Outcomes, UnknownOutcome
<1>11. runs = [runs EXCEPT ![a] = 1]
  BY <1>3, <1>5 DEF Inv, StoreFits, CallsFit
<1>12. effects \subseteq effects' /\ effects' \subseteq effects \cup {a}
       /\ (Kind[w[1]] = "child" => effects' = effects)
       /\ (outcome.kind = "succeeded" => a \in effects')
  BY <1>1, <1>9
<1>13. Inv(now, sequence, committed, instance, work, proc, wire, runs, effects')
  BY <1>5, <1>6, <1>7, <1>11, <1>12, CallKeeps
<1>14. outcome.kind \in {"succeeded", "started"} => a \in effects'
  BY <1>8, <1>10, <1>12
<1>15. /\ s.snapshot.valid = TRUE /\ s.snapshot.sequence <= sequence
       /\ s.snapshot.sequence = sequence => s.snapshot = instance
       /\ now \in Nat /\ sequence \in Nat
  BY <1>4 DEF Called, Inv, StoreFits, Instance
<1>16. Outgoing(r, s.lease, outcome.kind, sequence, committed, instance, work, effects')
  BY <1>4, <1>6, <1>8, <1>14, <1>15, PersistFits
<1>17. NoHarm(outcome.kind, p, w, committed, instance, proc, effects') /\ s.pc # "idle"
  BY <1>2, <1>7, <1>8, <1>12 DEF NoHarm
<1> HIDE DEF r
<1>18. Inv(now, sequence, committed, instance, work, [proc EXCEPT ![p] = r], wire, runs, effects')
  BY <1>13, <1>16, <1>17, StepKeeps
<1>19. proc' = [proc EXCEPT ![p] = r]
  BY <1>1 DEF r
<1> QED
  BY <1>2, <1>18, <1>19 DEF store
(* The start that entitles a processor is that of the attempt under way,   *)
(* if the unit has a deadline: an earlier attempt, or one that waits for   *)
(* its retry, would have failed, and an entitled one has no known outcome. *)
LEMMA StartUnderWay ==
    ASSUME NEW n, NEW sq, NEW c, NEW i, NEW k, NEW pr, NEW wi, NEW ru, NEW ef,
           Inv(n, sq, c, i, k, pr, wi, ru, ef), i.valid,
           NEW p \in Workers, pr[p].pc = "inspect",
           i.units[pr[p].lease.work[1]].dueAt # 0
    PROVE  First(pr[p].tx).dueAt = i.units[pr[p].lease.work[1]].dueAt
<1> DEFINE s == pr[p]
<1> DEFINE w == s.lease.work
<1> DEFINE u == w[1]
<1> DEFINE g == i.units[u]
<1>1. Fit(s, sq, c, i, k, ef)
  BY DEF Inv, ProcessorsFit
<1>2. LeaseFits(s.lease, k) /\ s.tx \in c /\ StartShape(s.tx) /\ s.tx.id[1] = w /\ s.tx.id[2] = "start"
  BY <1>1 DEF Fit, StartShape
<1>3. u \in Units \ Done /\ w[2] \in Nat /\ w[2] >= 1
  BY <1>2, LeaseWork, PolicyAssumption DEF Policies
<1>4. i \in Instance /\ History(i, c, k)
  BY DEF Inv, StoreFits
<1>5. UnitHistory(u, g, c, k)
  BY <1>3, <1>4 DEF History
<1>6. g.attempt \in Nat
  BY <1>3, <1>4, InstanceTyped DEF Instances, Progresses
<1>7. Entitled(s, c)
  BY <1>2 DEF Entitled
<1>8. Unsettled(AttemptOf(w), c, pr, wi)
  BY <1>7 DEF Inv, ProcessorsFit
<1>9. ~FailedOnce(c, u, w[2])
  <2> SUFFICES ASSUME FailedOnce(c, u, w[2]) PROVE FALSE
    OBVIOUS
  <2>1. PICK t \in c : OutcomeOf(t, u, w[2]) /\ First(t).kind = "failed"
    BY DEF FailedOnce, EndedAs
  <2>2. Pooled(t, c, pr, wi) /\ OutcomeOf(t, AttemptOf(w)[1], AttemptOf(w)[2])
    BY <2>1 DEF Pooled, AttemptOf
  <2> QED
    BY <1>8, <2>1, <2>2 DEF Unsettled
<1>10. StartOf(s.tx, u, w[2])
  BY <1>2 DEF StartOf
<1>11. w[2] <= g.attempt
  BY <1>2, <1>3, <1>5, <1>10 DEF UnitHistory, StartsAgree
<1>12. w[2] = g.attempt
  <2> SUFFICES ASSUME w[2] # g.attempt PROVE FALSE
    OBVIOUS
  <2>1. w[2] \in 1 .. g.attempt - 1
    BY <1>3, <1>6, <1>11
  <2>2. FailedOnce(c, u, w[2])
    BY <1>5, <2>1 DEF UnitHistory, OutcomesAgree
  <2> QED
    BY <1>9, <2>2
<1>13. g.status # "retryWaiting"
  BY <1>5, <1>9, <1>12 DEF UnitHistory, OutcomesAgree
<1>14. PICK t \in c : StartOf(t, u, g.attempt) /\ First(t).dueAt = g.dueAt
  BY <1>5, <1>13 DEF UnitHistory, StartsAgree
<1>15. t = s.tx
  BY <1>2, <1>3, <1>5, <1>10, <1>12, <1>14 DEF UnitHistory, StartsAgree
<1> QED
  BY <1>14, <1>15

(* A handler is called.                                                    *)
LEMMA InvokeStep ==
    ASSUME IInv, NEW p \in Workers, Invoke(p)
    PROVE  IInv'
<1> USE DEF IInv
<1> DEFINE s == proc[p]
<1> DEFINE w == s.lease.work
<1> DEFINE a == AttemptOf(w)
<1> DEFINE ps == [proc EXCEPT ![p] = Idle]
<1> DEFINE r == StateRecord("handler", s.lease, NoTransition, instance, s.decision)
<1>1. /\ s.pc = "inspect" /\ Readable(instance) /\ InTime(p)
      /\ UNCHANGED <<now, store, work, wire, faults>>
      /\ runs' = [runs EXCEPT ![a] = @ + 1]
      /\ effects' \in IF Kind[w[1]] = "child" THEN {effects, effects \cup {a}} ELSE {effects}
  BY DEF Invoke, AttemptOf
<1>2. Fit(s, sequence, committed, instance, work, effects) /\ proc = [q \in Workers |-> proc[q]]
  BY DEF Inv, ProcessorsFit
<1>3. /\ LeaseFits(s.lease, work) /\ s.tx \in committed /\ StartShape(s.tx) /\ s.tx.id[1] = w
      /\ s.tx.id[2] = "start" /\ IsPair(s.tx.id) /\ StateShape(s)
  BY <1>1, <1>2 DEF Fit, StartShape
<1>4. w \in WorkIDs /\ w[1] \in Units \ Done /\ w[2] \in Nat /\ a \in Attempts /\ a[1] = w[1] /\ a[2] = w[2]
  BY <1>3, LeaseWork DEF AttemptOf
<1>5. instance.valid /\ instance \in Instance /\ instance.sequence = sequence /\ sequence \in Nat /\ now \in Nat
  BY <1>1 DEF Readable, Inv, StoreFits
<1>6. instance.units[w[1]].dueAt # 0
  <2>1. instance.units[w[1]].dueAt > now
    BY <1>1 DEF InTime, RequestDeadline
  <2>2. instance.units[w[1]].dueAt \in Nat
    BY <1>4, <1>5, InstanceTyped DEF Instances, Progresses
  <2> QED
    BY <1>5, <2>1, <2>2
<1>7. First(s.tx).dueAt = instance.units[w[1]].dueAt
  BY <1>1, <1>5, <1>6, StartUnderWay
<1>8. Entitled(s, committed)
  BY <1>1, <1>3 DEF Entitled
<1>9. runs[a] = 0 /\ Unsettled(a, committed, proc, wire)
  BY <1>5, <1>8 DEF Inv, ProcessorsFit
<1>10. Inv(now, sequence, committed, instance, work, ps, wire, runs, effects)
  <2>1. \A t \in wire : Ready(t, sequence, committed, instance, work, effects)
                        /\ Pooled(t, committed, proc, wire)
    BY DEF Inv, ProcessorsFit, Pooled
  <2> QED
    BY <2>1, LeaveKeeps
<1>11. ps[p] = Idle /\ \A q \in Workers : q # p => ps[q] = proc[q]
  <2>1. ps = [q \in Workers |-> IF q = p THEN Idle ELSE proc[q]]
    BY <1>2
  <2> HIDE DEF ps
  <2> QED
    BY <2>1
<1>12. Idle.pc = "idle" /\ "idle" \notin Staging \cup {"inspect"}
  BY IdleFits DEF Staging, Committing
<1> HIDE DEF ps
<1>13. \A q \in Workers : instance.valid /\ Entitled(ps[q], committed) =>
           AttemptOf(ps[q].lease.work) # a
  <2> SUFFICES ASSUME NEW q \in Workers, Entitled(ps[q], committed)
               PROVE  AttemptOf(ps[q].lease.work) # a
    OBVIOUS
  <2>1. q # p
    BY <1>11, <1>12 DEF Entitled
  <2>2. Entitled(proc[q], committed) /\ ps[q] = proc[q]
    BY <1>11, <2>1
  <2>3. /\ StoreFits(sequence, committed, instance, work, runs, effects)
        /\ ProcessorsFit(sequence, committed, instance, work, proc, wire, runs, effects)
    BY DEF Inv
  <2> QED
    BY <1>5, <1>8, <2>1, <2>2, <2>3, EntitledApart
<1>14. NeverFailed(a, committed, ps, wire)
  <2> SUFFICES ASSUME NEW t, Pooled(t, committed, ps, wire), OutcomeOf(t, a[1], a[2])
               PROVE  First(t).kind # "failed"
    BY DEF NeverFailed
  <2>1. Pooled(t, committed, proc, wire)
    BY <1>11, <1>12 DEF Pooled
  <2>2. First(t).kind = "unknown"
    BY <1>9, <2>1 DEF Unsettled
  <2> QED
    BY <2>2
<1>15. runs' = [runs EXCEPT ![a] = 1] /\ runs'[a] = 1
  BY <1>1, <1>4, <1>9 DEF Inv, StoreFits, CallsFit
<1>16. effects \subseteq effects' /\ effects' \subseteq effects \cup {a}
  BY <1>1
<1>17. Begun(committed, a[1], a[2])
  BY <1>3, <1>4 DEF Begun, StartOf
<1>18. Inv(now, sequence, committed, instance, work, ps, wire, runs', effects')
  BY <1>4, <1>10, <1>13, <1>14, <1>15, <1>16, <1>17, CallKeeps
<1>19. /\ r.pc = "handler" /\ r.lease = s.lease /\ r.snapshot = instance /\ StateShape(r)
  BY StateFields
<1>20. proc' = [proc EXCEPT ![p] = r]
  <2>1. proc' = [proc EXCEPT ![p].pc = "handler", ![p].snapshot = instance, ![p].tx = NoTransition]
    BY DEF Invoke
  <2> DEFINE hd == "handler"
  <2> DEFINE s1 == [s EXCEPT !.pc = hd]
  <2> DEFINE s2 == [s1 EXCEPT !.snapshot = instance]
  <2> DEFINE s3 == [s2 EXCEPT !.tx = NoTransition]
  <2>2. proc' = [proc EXCEPT ![p] = s3]
    BY <1>2, <2>1
  <2>3. s3 = r
    <3> DEFINE l == s.lease
    <3> DEFINE t == s.tx
    <3> DEFINE sn == s.snapshot
    <3> DEFINE d == s.decision
    <3> DEFINE pc == s.pc
    <3>1. s = StateRecord(pc, l, t, sn, d)
      BY <1>3 DEF StateShape, StateRecord
    <3>2. r = StateRecord(hd, l, NoTransition, instance, d)
      OBVIOUS
    <3> HIDE DEF s, l, t, sn, d, pc, hd, r
    <3>3. s1 = StateRecord(hd, l, t, sn, d)
      BY <3>1 DEF StateRecord
    <3> HIDE DEF s1
    <3>4. s2 = StateRecord(hd, l, t, instance, d)
      BY <3>3 DEF StateRecord
    <3> HIDE DEF s2
    <3>5. s3 = StateRecord(hd, l, NoTransition, instance, d)
      BY <3>4 DEF StateRecord
    <3> QED
      BY <3>2, <3>5
  <2> QED
    BY <2>2, <2>3
<1> HIDE DEF r
<1>21. [proc EXCEPT ![p] = r] = [ps EXCEPT ![p] = r]
  BY <1>2 DEF ps
<1>22. Called(r, sequence, committed, instance)
  <2>1. s.tx.id = processorTransitionID(r.lease.work, "start")
    BY <1>3, <1>19 DEF IsPair, processorTransitionID
  <2> QED
    BY <1>3, <1>5, <1>7, <1>19, <2>1 DEF Called
<1>23. "handler" \in PCs /\ "handler" \notin Staging
  BY DEF PCs, Staging, Committing
<1>24. Fit(r, sequence, committed, instance, work, effects')
  BY <1>3, <1>5, <1>19, <1>22, <1>23 DEF Fit
<1>25. \A q \in Workers : q # p /\ ps[q].pc # "idle" => Apart(r.lease, ps[q].lease)
  BY <1>1, <1>11, <1>19 DEF Inv, ProcessorsFit
<1>26. \A t \in wire : Ready(t, sequence, committed, instance, work, effects')
                       /\ Pooled(t, committed, ps, wire)
  BY <1>18 DEF Inv, ProcessorsFit, Pooled
<1>27. Turns(p, r, wire, sequence, committed, instance, work, ps, wire, runs', effects')
  BY <1>15, <1>19, <1>23, <1>24, <1>25, <1>26 DEF Turns, Entitled
<1>28. Inv(now, sequence, committed, instance, work, [ps EXCEPT ![p] = r], wire, runs', effects')
  BY <1>18, <1>27, TurnKeeps
<1> QED
  BY <1>1, <1>20, <1>21, <1>28 DEF store
-----------------------------------------------------------------------------
(* The steps on the rows of work.                                          *)

LEMMA RowOfWork ==
    ASSUME IInv, NEW w \in WorkIDs
    PROVE  work[w] \in Row /\ work[w].deadline \in Nat /\ work[w].expires \in Nat
           /\ work[w].token \in Nat /\ work[w].available \in Nat /\ work[w].attempts \in Nat
<1>1. work[w] \in Row
  BY DEF IInv, Inv, RowsFit
<1> QED
  BY <1>1 DEF Row

(* A row whose lease ends at another time.                                 *)
LEMMA RowLater ==
    ASSUME NEW row \in Row, NEW x \in Nat
    PROVE  /\ [row EXCEPT !.expires = x] \in Row
           /\ [row EXCEPT !.expires = x].state = row.state
           /\ [row EXCEPT !.expires = x].expires = x
           /\ [row EXCEPT !.expires = x].deadline = row.deadline
  BY DEF Row

(* A claimed row, field by field.                                          *)
LEMMA ClaimedValue ==
    ASSUME NEW row \in Row, NEW o \in Owners, NEW n \in Nat
    PROVE  LET r == ClaimedRow(row, o, n, LeaseDuration)
           IN  /\ r \in Row
               /\ r.state = "leased"
               /\ r.deadline = row.deadline /\ r.available = row.available
               /\ r.expires = Earlier(n + LeaseDuration, row.deadline)
               /\ r.token = row.token + 1
<1> DEFINE r == ClaimedRow(row, o, n, LeaseDuration)
<1> DEFINE x == Earlier(n + LeaseDuration, row.deadline)
<1>1. x \in Nat
  BY ExecutionAssumption DEF Row, Earlier
<1>2. r = [row EXCEPT !.state = "leased", !.attempts = @ + 1, !.owner = o, !.token = @ + 1, !.expires = x]
  BY DEF ClaimedRow
<1> HIDE DEF r, x
<1>3. /\ r.state = "leased" /\ r.deadline = row.deadline /\ r.available = row.available
      /\ r.expires = x /\ r.token = row.token + 1
  BY <1>2 DEF Row
<1>4. r \in Row
  <2>1. r = [state |-> r.state, available |-> r.available, deadline |-> r.deadline,
             attempts |-> r.attempts, owner |-> r.owner, token |-> r.token, expires |-> r.expires]
    BY <1>2 DEF Row
  <2>2. r.attempts = row.attempts + 1 /\ r.owner = o
    BY <1>2 DEF Row
  <2>3. /\ row.available \in Nat /\ row.deadline \in Nat /\ row.attempts + 1 \in Nat
        /\ row.token + 1 \in Nat /\ o \in Owners \cup {NoOwner} /\ "leased" \in RowStates
    BY DEF Row, RowStates
  <2>4. /\ r.state \in RowStates /\ r.available \in Nat /\ r.deadline \in Nat /\ r.attempts \in Nat
        /\ r.owner \in Owners \cup {NoOwner} /\ r.token \in Nat /\ r.expires \in Nat
    BY <1>1, <1>3, <2>2, <2>3
  <2> QED
    BY <2>1, <2>4, Zenon DEF Row
<1> QED
  BY <1>3, <1>4 DEF r, x

(* Work is claimed.                                                        *)
LEMMA ClaimStep ==
    ASSUME IInv, NEW p \in Workers, NEW w \in WorkIDs, Claim(p, w)
    PROVE  IInv'
<1> DEFINE row == ClaimedRow(work[w], p, now, LeaseDuration)
<1> DEFINE lease == LeaseOf(w, row, now)
<1> DEFINE r == [Idle EXCEPT !.pc = "load", !.lease = lease]
<1>1. /\ proc[p].pc = "idle" /\ Due(work[w], now) /\ work' = [work EXCEPT ![w] = row]
      /\ proc' = [proc EXCEPT ![p] = r]
      /\ UNCHANGED <<now, store, wire, ghost, faults>>
  BY DEF Claim
<1>2. /\ work[w] \in Row /\ work[w].deadline \in Nat /\ work[w].expires \in Nat
      /\ work[w].token \in Nat /\ work[w].available \in Nat
  BY RowOfWork
<1>3. now \in Nat /\ LeaseDuration \in Nat /\ work \in [WorkIDs -> Row]
  BY ExecutionAssumption DEF IInv, Inv, RowsFit
<1>4. /\ row \in Row /\ row.state = "leased" /\ row.deadline = work[w].deadline
      /\ row.available = work[w].available
      /\ row.expires = Earlier(now + LeaseDuration, work[w].deadline)
      /\ row.token = work[w].token + 1
  <2>1. p \in Owners
    BY DEF Workers
  <2> QED
    BY <1>2, <1>3, <2>1, ClaimedValue
<1> HIDE DEF row
<1>5. /\ row.expires \in Nat /\ row.token \in Nat
      /\ now <= row.expires /\ row.expires <= row.deadline /\ row.expires <= now + LeaseDuration
  BY <1>1, <1>2, <1>3, <1>4 DEF Due, Earlier
<1>6. \A q \in Workers : proc[q].pc # "idle" /\ proc[q].lease.work = w =>
          proc[q].lease.expires \in Nat /\ proc[q].lease.expires <= now
  <2> SUFFICES ASSUME NEW q \in Workers, proc[q].pc # "idle", proc[q].lease.work = w
               PROVE  proc[q].lease.expires \in Nat /\ proc[q].lease.expires <= now
    OBVIOUS
  <2>1. LeaseFits(proc[q].lease, work)
    BY DEF IInv, Inv, ProcessorsFit, Fit
  <2>2. proc[q].lease.expires \in Nat
    BY <2>1 DEF LeaseFits, Leases
  <2>3. work[w].state = "leased" /\ proc[q].lease.expires <= work[w].expires /\ work[w].expires <= now
    BY <1>1, <2>1 DEF LeaseFits, Due
  <2> QED
    BY <1>2, <1>3, <2>2, <2>3
<1>7. RowTurns(w, row, now, committed, instance, work, proc)
  <2>1. Present(work, w)
    BY <1>1 DEF Due, Present
  <2>2. \A q \in Workers : proc[q].pc # "idle" /\ proc[q].lease.work = w =>
            proc[q].lease.expires <= row.expires
    BY <1>3, <1>5, <1>6
  <2> QED
    BY <1>4, <1>5, <2>1, <2>2 DEF RowTurns
<1>8. Inv(now, sequence, committed, instance, work', proc, wire, runs, effects)
  BY <1>1, <1>7, RowKeeps DEF IInv
<1>9. lease = [work |-> w, token |-> row.token, claimedAt |-> now, expires |-> row.expires,
               available |-> row.available, deadline |-> row.deadline]
  BY DEF LeaseOf
<1>10. lease \in Leases /\ lease.work = w /\ lease.claimedAt = now /\ lease.expires = row.expires
  <2>1. row.available \in Nat /\ row.deadline \in Nat
    BY <1>2, <1>4
  <2> HIDE DEF lease
  <2>2. lease \in Leases
    BY <1>3, <1>5, <1>9, <2>1, Zenon DEF Leases
  <2> QED
    BY <1>9, <2>2
<1> HIDE DEF lease
<1>11. r.pc = "load" /\ r.lease = lease /\ r.snapshot = Started(0) /\ StateShape(r)
  <2> DEFINE s0 == Started(0)
  <2> DEFINE none == "none"
  <2> DEFINE idle == "idle"
  <2> DEFINE load == "load"
  <2> DEFINE r0 == StateRecord(idle, NoLease, NoTransition, s0, none)
  <2> DEFINE r1 == [r0 EXCEPT !.pc = load]
  <2> DEFINE r2 == [r1 EXCEPT !.lease = lease]
  <2>1. r = [r0 EXCEPT !.pc = load, !.lease = lease]
    BY IdleValue, Zenon
  <2> HIDE DEF s0, none, idle, load, r
  <2>2. r = r2
    BY <2>1
  <2>3. r1 = StateRecord(load, NoLease, NoTransition, s0, none)
    BY DEF StateRecord
  <2> HIDE DEF r1
  <2>4. r2 = StateRecord(load, lease, NoTransition, s0, none)
    BY <2>3 DEF StateRecord
  <2> HIDE DEF r2
  <2>5. r.pc = load /\ r.lease = lease /\ r.snapshot = s0 /\ StateShape(r)
    BY <2>2, <2>4, StateFields
  <2> QED
    BY <2>5 DEF load, s0
<1> HIDE DEF r
<1>12. work'[w] = row
  BY <1>1, <1>3
<1>13. Fit(r, sequence, committed, instance, work', effects)
  <2>1. "load" \in PCs /\ "load" \notin Staging
    BY DEF PCs, Staging, Committing
  <2>2. Started(0) \in Instance
    BY StartedTyped
  <2>3. LeaseFits(lease, work')
    BY <1>4, <1>5, <1>10, <1>12 DEF LeaseFits
  <2> QED
    BY <1>11, <2>1, <2>2, <2>3 DEF Fit
<1>14. \A q \in Workers : q # p /\ proc[q].pc # "idle" => Apart(r.lease, proc[q].lease)
  BY <1>6, <1>10, <1>11 DEF Apart
<1>15. \A t \in wire : Ready(t, sequence, committed, instance, work', effects)
                       /\ Pooled(t, committed, proc, wire)
  BY <1>8 DEF Inv, ProcessorsFit, Pooled
<1>16. Turns(p, r, wire, sequence, committed, instance, work', proc, wire, runs, effects)
  <2>1. "load" \notin Staging \cup {"inspect"}
    BY DEF Staging, Committing
  <2> QED
    BY <1>11, <1>13, <1>14, <1>15, <2>1 DEF Turns, Entitled
<1>17. Inv(now, sequence, committed, instance, work', [proc EXCEPT ![p] = r], wire, runs, effects)
  BY <1>8, <1>16, TurnKeeps
<1> QED
  BY <1>1, <1>17 DEF IInv, store, ghost

(* A lease is renewed.                                                     *)
LEMMA RenewStep ==
    ASSUME IInv, NEW p \in Workers, Renew(p)
    PROVE  IInv'
<1> DEFINE w == proc[p].lease.work
<1> DEFINE x == Earlier(now + LeaseDuration, work[w].deadline)
<1> DEFINE row == [work[w] EXCEPT !.expires = x]
<1>1. /\ proc[p].pc # "idle" /\ work[w].state = "leased"
      /\ work' = [work EXCEPT ![w] = row]
      /\ UNCHANGED <<now, store, proc, wire, ghost, faults>>
  BY DEF Renew, RenewedRow, Renewable, LiveFence
<1>2. LeaseFits(proc[p].lease, work)
  BY <1>1 DEF IInv, Inv, ProcessorsFit, Fit
<1>3. w \in WorkIDs
  BY <1>2, LeaseWork
<1>4. work[w] \in Row /\ work[w].deadline \in Nat /\ work[w].expires \in Nat
  BY <1>3, RowOfWork
<1>5. now \in Nat /\ LeaseDuration \in Nat
  BY ExecutionAssumption DEF IInv, Inv
<1>6. work[w].expires <= work[w].deadline /\ work[w].expires <= now + LeaseDuration
  BY <1>1, <1>3 DEF IInv, Inv, RowsFit
<1>7. x \in Nat /\ x <= work[w].deadline /\ x <= now + LeaseDuration /\ work[w].expires <= x
  BY <1>4, <1>5, <1>6 DEF Earlier
<1> HIDE DEF x
<1>8. row \in Row /\ row.state = "leased" /\ row.expires = x /\ row.deadline = work[w].deadline
  BY <1>1, <1>4, <1>7, RowLater
<1> HIDE DEF row
<1>9. \A q \in Workers : proc[q].pc # "idle" /\ proc[q].lease.work = w => proc[q].lease.expires <= x
  <2> SUFFICES ASSUME NEW q \in Workers, proc[q].pc # "idle", proc[q].lease.work = w
               PROVE  proc[q].lease.expires <= x
    OBVIOUS
  <2>1. LeaseFits(proc[q].lease, work)
    BY DEF IInv, Inv, ProcessorsFit, Fit
  <2>2. proc[q].lease.expires \in Nat /\ proc[q].lease.expires <= work[w].expires
    BY <1>1, <2>1 DEF LeaseFits, Leases
  <2> QED
    BY <1>4, <1>7, <2>2
<1>10. RowTurns(w, row, now, committed, instance, work, proc)
  <2>1. Present(work, w)
    BY <1>1 DEF Present
  <2> QED
    BY <1>7, <1>8, <1>9, <2>1 DEF RowTurns
<1>11. Inv(now, sequence, committed, instance, work', proc, wire, runs, effects)
  BY <1>1, <1>3, <1>10, RowKeeps DEF IInv
<1> QED
  BY <1>1, <1>11 DEF IInv, store, ghost

(* A row that is completed or dead-lettered, by fields.                    *)
LEMMA EndedRow ==
    ASSUME NEW row \in Row
    PROVE  /\ CompletedRow(row) \in Row /\ CompletedRow(row).state = "completed"
           /\ DeadLetteredRow(row) \in Row /\ DeadLetteredRow(row).state = "dead"
  BY DEF CompletedRow, DeadLetteredRow, Released, Row, RowStates, NoTime

(* A processor disposes of its work.                                       *)
LEMMA FinishStep ==
    ASSUME IInv, NEW p \in Workers, Finish(p)
    PROVE  IInv'
<1> DEFINE w == proc[p].lease.work
<1> DEFINE row == IF proc[p].decision = "complete" THEN CompletedRow(work[w]) ELSE DeadLetteredRow(work[w])
<1>1. /\ proc[p].pc = "finish"
      /\ work' = work \/ (work[w].state = "leased" /\ work' = [work EXCEPT ![w] = row])
      /\ proc' = [proc EXCEPT ![p] = Idle]
      /\ UNCHANGED <<now, store, wire, ghost, faults>>
  BY DEF Finish, LiveFence
<1>2. Fit(proc[p], sequence, committed, instance, work, effects)
  BY DEF IInv, Inv, ProcessorsFit
<1>3. LeaseFits(proc[p].lease, work)
  BY <1>1, <1>2 DEF Fit
<1>4. w \in WorkIDs
  BY <1>3, LeaseWork
<1>5. work[w] \in Row
  BY <1>4, RowOfWork
<1>6. IF proc[p].decision = "complete" THEN Accounted(w, committed, instance) ELSE Superseded(w, work)
  BY <1>1, <1>2 DEF Fit
<1>7. /\ row \in Row
      /\ row.state = IF proc[p].decision = "complete" THEN "completed" ELSE "dead"
  BY <1>5, EndedRow
<1> HIDE DEF row
<1>8. Inv(now, sequence, committed, instance, work', proc, wire, runs, effects)
  <2>1. CASE work' = work
    BY <2>1 DEF IInv
  <2>2. CASE work[w].state = "leased" /\ work' = [work EXCEPT ![w] = row]
    <3>1. RowTurns(w, row, now, committed, instance, work, proc)
      BY <1>6, <1>7, <2>2 DEF RowTurns, Present
    <3> QED
      BY <1>4, <2>2, <3>1, RowKeeps DEF IInv
  <2> QED
    BY <1>1, <2>1, <2>2
<1>9. \A t \in wire : Ready(t, sequence, committed, instance, work', effects)
                      /\ Pooled(t, committed, proc, wire)
  BY <1>8 DEF Inv, ProcessorsFit, Pooled
<1>10. Inv(now, sequence, committed, instance, work', [proc EXCEPT ![p] = Idle], wire, runs, effects)
  BY <1>8, <1>9, LeaveKeeps
<1> QED
  BY <1>1, <1>10 DEF IInv, store, ghost
-----------------------------------------------------------------------------
(* The steps of the application and the operator.                          *)

(* Replay refuses this event in the state the instance i is in, although   *)
(* its constructor does not look: see BlindCommit.                         *)
BlindEvent(i, e) ==
    /\ e.step \in Units
    /\ \/ /\ Kind[e.step] = "activity"
          /\ e.kind = "retryScheduled"
          /\ i.status # "running"
       \/ /\ Kind[e.step] \in {"activity", "compensation"}
          /\ e.kind \in OutcomeKinds \cup {"manuallyResolved"}
          /\ i.status \in Terminal

(* Replay takes the event e about a unit; it takes the audit a and then    *)
(* the event e.                                                            *)
Welcome(i, e) ==
    e.at >= i.updatedAt /\ i.status \notin Terminal /\ UnitAccepts(i, e)

Matched(a, e) ==
    /\ e.at = a.at
    /\ a.action \in DOMAIN operatorEventKind
    /\ EventKind(e) = operatorEventKind[a.action]

WelcomeLifecycle(i, a, e) ==
    /\ a.at >= i.updatedAt
    /\ i.status \notin Terminal
    /\ i.status \in LifecycleFrom[e.kind]
    /\ Matched(a, e)

(* What the application or the operator commits.                           *)
Offered(t) ==
    /\ Commit(t)
    /\ Readable(instance)
    /\ Outside(t)
    /\ IF AuditedLifecycle(t) THEN WelcomeLifecycle(instance, First(t), t.events[2])
       ELSE /\ Main(t).kind = "retryScheduled" =>
                   FailedOnce(committed, Main(t).step, Main(t).attempt)
            /\ BlindEvent(instance, Main(t)) \/ Welcome(instance, Main(t))
            /\ AuditedUnit(t) => Matched(First(t), Main(t))

(* A commit of the application or the operator keeps the invariant.        *)
LEMMA CommitStep ==
    ASSUME IInv, NEW t, Offered(t)
    PROVE  IInv'
<1>1. Land(t) /\ UNCHANGED <<now, proc, wire, ghost, faults>> /\ Outside(t)
      /\ (~AuditedLifecycle(t) /\ Main(t).kind = "retryScheduled" =>
             FailedOnce(committed, Main(t).step, Main(t).attempt))
  BY DEF Commit, Offered
<1>2. ~Staged(t) /\ t.id[2] # "outcome"
  BY <1>1 DEF Outside, Staged, StartShape, OutcomeShape, RetryShape
<1>3. MayLand(t, sequence, committed, work, proc, wire, effects)
  BY <1>1, <1>2 DEF MayLand, Recorded, Land, Fresh
<1>4. /\ sequence' = sequence + Len(t.events) /\ committed' = committed \cup {t}
      /\ instance' = Appended(instance, t.events) /\ work' = Inserted(t, work)
  BY <1>1 DEF Land, Inserted
<1>5. Inv(now, sequence', committed', instance', work', proc, wire, runs, effects)
  BY <1>3, <1>4, LandKeeps DEF IInv
<1> QED
  BY <1>1, <1>5 DEF IInv, ghost

(* A readable instance.                                                    *)
LEMMA ReadableFacts ==
    ASSUME IInv, Readable(instance)
    PROVE  /\ instance \in Instance
           /\ instance.valid
           /\ instance.sequence = sequence
           /\ instance.sequence \in Nat
           /\ History(instance, committed, work)
           /\ now \in Nat
           /\ \A u \in Units : instance.units[u].status # "succeeded" => u \in Units \ Done
<1>1. /\ instance \in Instance /\ instance.valid /\ instance.sequence = sequence
      /\ History(instance, committed, work) /\ now \in Nat
  BY DEF IInv, Inv, StoreFits, Readable
<1> QED
  BY <1>1 DEF History, Instance

(* The first attempt of a unit, scheduled by anyone.                       *)
LEMMA ScheduleValue ==
    ASSUME NEW i, NEW u \in Units \ Done, NEW at \in Nat, NEW deadline \in Nat,
           NEW origin \in {"auto"} \cup Commands
    PROVE  LET t == NewActivitySchedule(i, u, at, deadline, <<u, 1, origin>>)
           IN  /\ t = [id |-> <<<<u, 1, origin>>, "schedule">>, expected |-> i.sequence,
                       events |-> <<First(t)>>, work |-> t.work]
               /\ First(t) \in UnitEvents(Keys)
               /\ First(t).kind = "scheduled"
               /\ First(t).step = u
               /\ First(t).at = at
               /\ WorkFits(First(t), t.work)
<1> DEFINE w == <<u, 1, origin>>
<1> DEFINE t == NewActivitySchedule(i, u, at, deadline, w)
<1> DEFINE e == EventRecord("scheduled", at, u, 0, NoKey, 0, FALSE, NoAction)
<1> DEFINE x == [id |-> w, available |-> at, deadline |-> deadline]
<1>1. w \in WorkIDs /\ w[1] = u /\ w[2] = 1
  <2>1. 1 \in 1 .. Policy.maxAttempts
    BY PolicyAssumption DEF Policies, validRetry
  <2> QED
    BY <2>1 DEF WorkIDs
<1> HIDE DEF w
<1>2. UnitEvent("scheduled", at, u, 0) = e
  BY UnitEventValue, Zenon
<1>3. e \in UnitEvents(Keys)
  <2>1. NoKey \in Keys /\ 0 \in Nat /\ FALSE \in BOOLEAN /\ "scheduled" \in UnitEventKinds
    BY DEF Keys, UnitEventKinds
  <2> QED
    BY <2>1, EventTyped, Zenon
<1>4. e.kind = "scheduled" /\ e.step = u /\ e.at = at
  BY DEF EventRecord
<1>5. x \in Pendings /\ x.id = w
  BY <1>1 DEF Pendings
<1> HIDE DEF e, x
<1>6. t = [id |-> <<w, "schedule">>, expected |-> i.sequence, events |-> <<e>>, work |-> {x}]
  BY <1>2, Zenon DEF NewActivitySchedule, Transition, PendingWork, x
<1> HIDE DEF t
<1>7. First(t) = e /\ t.work = {x}
  BY <1>6 DEF First
<1>8. WorkFits(e, {x})
  BY <1>1, <1>4, <1>5 DEF WorkFits
<1> QED
  BY <1>3, <1>4, <1>6, <1>7, <1>8 DEF t, w

(* One event about a unit, without an audit.                               *)
LEMMA LoneOffered ==
    ASSUME NEW t, Commit(t), Readable(instance), Outside(t), t.events = <<First(t)>>,
           First(t) \in UnitEvents(Keys), First(t).kind # "retryScheduled",
           Welcome(instance, First(t))
    PROVE  Offered(t)
<1>1. Main(t) = First(t)
  BY DEF Main
<1>2. ~AuditedLifecycle(t) /\ ~AuditedUnit(t)
  <2>1. First(t).step # ""
    BY StepsApart DEF UnitEvents
  <2> QED
    BY <2>1 DEF AuditedLifecycle, AuditedUnit, Audited, InstanceEvents
<1> QED
  BY <1>1, <1>2 DEF Offered

(* The application schedules a unit.                                       *)
LEMMA ScheduleOffers ==
    ASSUME IInv, NEW u \in Units, Schedule(u)
    PROVE  \E t : Offered(t)
<1>1. PICK deadline \in Deadlines :
        /\ Readable(instance) /\ CanScheduleUnit(u, now, deadline)
        /\ Commit(ScheduleUnit(u, now, deadline))
  BY DEF Schedule
<1> DEFINE w == <<u, 1, "auto">>
<1> DEFINE t == NewActivitySchedule(instance, u, now, deadline, w)
<1> DEFINE Fresh0 == /\ instance.units[u].status = "none" /\ now >= instance.updatedAt
                     /\ instance.status \in {"running", "cancelling"}
                     /\ Kind[u] # "compensation" => instance.status = "running"
                     /\ Kind[u] = "compensation" => instance.units[Undoes[u]].status = "succeeded"
<1>2. ScheduleUnit(u, now, deadline) = t /\ Fresh0
  <2>a. CASE Kind[u] = "activity"
    <3>1. CanSchedule(instance, u, now, deadline)
      BY <1>1, <2>a, Zenon DEF CanScheduleUnit
    <3>2. ScheduleUnit(u, now, deadline) = t
      BY <2>a, Zenon DEF ScheduleUnit
    <3> QED
      BY <2>a, <3>1, <3>2 DEF CanSchedule
  <2>b. CASE Kind[u] = "compensation"
    <3>1. CanScheduleCompensation(instance, u, now, deadline)
      BY <1>1, <2>b, Zenon DEF CanScheduleUnit
    <3>2. ScheduleUnit(u, now, deadline) = t
      BY <2>b, Zenon DEF ScheduleUnit, NewCompensationSchedule
    <3> QED
      BY <2>b, <3>1, <3>2 DEF CanScheduleCompensation, Compensable
  <2>c. CASE Kind[u] = "child"
    <3>1. CanScheduleChild(instance, u, now, deadline)
      BY <1>1, <2>c, Zenon DEF CanScheduleUnit
    <3>2. ScheduleUnit(u, now, deadline) = t
      BY <2>c, Zenon DEF ScheduleUnit, NewChildSchedule
    <3> QED
      BY <2>c, <3>1, <3>2 DEF CanScheduleChild
  <2> QED
    BY <2>a, <2>b, <2>c, KindOfUnit
<1>3. u \in Units \ Done /\ now \in Nat /\ instance.sequence \in Nat
  BY <1>1, <1>2, ReadableFacts
<1>4. deadline \in Nat /\ "auto" \in {"auto"} \cup Commands
  BY ExecutionAssumption
<1>5. /\ t = [id |-> <<w, "schedule">>, expected |-> instance.sequence,
              events |-> <<First(t)>>, work |-> t.work]
      /\ First(t) \in UnitEvents(Keys)
      /\ First(t).kind = "scheduled"
      /\ First(t).step = u
      /\ First(t).at = now
      /\ WorkFits(First(t), t.work)
  <2> HIDE DEF Fresh0
  <2> QED
    BY <1>3, <1>4, ScheduleValue, ZenonT(60)
<1> HIDE DEF w, t
<1>6. t.id[2] = "schedule" /\ t.expected = instance.sequence /\ t.events = <<First(t)>>
  BY <1>5
<1>7. Outside(t)
  BY <1>3, <1>5, <1>6 DEF Outside, Lone
<1>8. Main(t) = First(t)
  BY <1>6 DEF Main
<1>9. Welcome(instance, First(t))
  BY <1>2, <1>5, KindOfUnit DEF Welcome, Terminal, UnitAccepts, ActivityAccepts, CompensationAccepts, ChildAccepts
<1> QED
  BY <1>1, <1>2, <1>5, <1>6, <1>7, <1>8, <1>9, LoneOffered

(* The application reports on a child.                                     *)
LEMMA ReportOffers ==
    ASSUME IInv, NEW u \in Units, ReportChild(u)
    PROVE  \E t : Offered(t)
<1>1. PICK kind \in {"childCompleted", "childFailed"} :
        /\ Readable(instance) /\ CanReportChild(instance, u, now) /\ Kind[u] = "child"
        /\ Commit(NewChildOutcome(instance, u, now, kind))
  BY DEF ReportChild
<1> DEFINE t == NewChildOutcome(instance, u, now, kind)
<1> DEFINE e == EventRecord(kind, now, u, 0, NoKey, 0, FALSE, NoAction)
<1>2. now \in Nat /\ instance.sequence \in Nat
  BY <1>1, ReadableFacts
<1>3. UnitEvent(kind, now, u, 0) = e
  BY UnitEventValue, Zenon
<1>4. e \in UnitEvents(Keys)
  <2>1. NoKey \in Keys /\ 0 \in Nat /\ FALSE \in BOOLEAN /\ kind \in UnitEventKinds
    BY DEF Keys, UnitEventKinds
  <2> QED
    BY <1>2, <2>1, EventTyped, Zenon
<1>5. e.kind = kind /\ e.step = u /\ e.at = now
  BY DEF EventRecord
<1> HIDE DEF e
<1>6. t = [id |-> <<u, "child">>, expected |-> instance.sequence, events |-> <<e>>, work |-> {}]
  BY <1>3, Zenon DEF NewChildOutcome, Transition
<1>7. Commit(t)
  BY <1>1
<1> HIDE DEF t
<1>8. t.id[2] = "child" /\ t.expected = instance.sequence /\ t.events = <<e>> /\ First(t) = e /\ t.work = {}
  BY <1>6 DEF First
<1>9. WorkFits(e, {})
  BY <1>5 DEF WorkFits
<1>10. Outside(t)
  BY <1>2, <1>4, <1>5, <1>8, <1>9 DEF Outside, Lone
<1>11. Welcome(instance, e)
  BY <1>1, <1>5 DEF CanReportChild, Welcome, Terminal, UnitAccepts, ChildAccepts
<1> QED
  BY <1>1, <1>4, <1>5, <1>7, <1>8, <1>10, <1>11, LoneOffered

(* The operator pauses, resumes, cancels or terminates.                    *)
LEMMA CommandOffers ==
    ASSUME IInv, NEW c \in Commands, NEW action \in LifecycleActions, Command(c, action)
    PROVE  \E t : Offered(t)
<1>1. Readable(instance) /\ CanCommand(instance, action, now)
      /\ Commit(NewOperatorLifecycleCommand(instance, c, action, now))
  BY DEF Command
<1> DEFINE kind == operatorEventKind[action][2]
<1> DEFINE a == Audit(now, action)
<1> DEFINE e == Event(kind, now)
<1> DEFINE t == NewOperatorLifecycleCommand(instance, c, action, now)
<1>2. now \in Nat /\ instance.sequence \in Nat
  BY <1>1, ReadableFacts
<1>3. action \in {"pause", "resume", "cancel", "terminate"}
  BY DEF LifecycleActions, validOperatorLifecycleState
<1>4. /\ action \in DOMAIN operatorEventKind /\ kind \in LifecycleKinds
      /\ operatorEventKind[action] = <<"instance", kind>>
  BY <1>3 DEF operatorEventKind, LifecycleKinds
<1>s. instance.status \in LifecycleFrom[kind] /\ instance.status \notin Terminal
  BY <1>1, <1>3 DEF CanCommand, validOperatorLifecycleState, operatorEventKind, LifecycleFrom,
                    Statuses, Terminal
<1> HIDE DEF kind
<1>5. a \in InstanceEvents /\ a.kind = "operatorRecorded" /\ a.at = now /\ a.action = action
  BY <1>2, <1>4, AuditTyped
<1>6. /\ e \in InstanceEvents /\ e.kind = kind /\ e.action = NoAction /\ e.at = now
      /\ EventKind(e) = <<"instance", kind>>
  BY <1>2, <1>4, LifecycleEventTyped
<1>7. t = [id |-> <<c, "operator">>, expected |-> instance.sequence, events |-> <<a, e>>, work |-> {}]
  BY Zenon DEF NewOperatorLifecycleCommand, Transition, kind
<1>8. Commit(t)
  BY <1>1
<1> HIDE DEF t, a, e
<1>9. /\ t.id[2] = "operator" /\ t.expected = instance.sequence /\ t.events = <<a, e>>
      /\ First(t) = a /\ t.events[2] = e /\ t.work = {}
  BY <1>7 DEF First
<1>10. AuditedLifecycle(t)
  BY <1>4, <1>5, <1>6, <1>9 DEF AuditedLifecycle, Audited
<1>11. Outside(t)
  BY <1>2, <1>9, <1>10 DEF Outside
<1>12. WelcomeLifecycle(instance, a, e)
  BY <1>1, <1>4, <1>5, <1>6, <1>s DEF WelcomeLifecycle, Matched, CanCommand
<1> QED
  BY <1>1, <1>8, <1>9, <1>10, <1>11, <1>12 DEF Offered

(* An audited event about a unit.                                          *)
LEMMA AuditedCommit ==
    ASSUME IInv, NEW c, NEW x \in DOMAIN operatorEventKind, NEW e \in UnitEvents(Keys), NEW work0, NEW t,
           t = [id |-> <<c, "operator">>, expected |-> instance.sequence,
                events |-> <<Audit(now, x), e>>, work |-> work0],
           Readable(instance), Commit(t), WorkFits(e, work0),
           e.at = now, EventKind(e) = operatorEventKind[x],
           BlindEvent(instance, e) \/ Welcome(instance, e),
           e.kind \in {"retryScheduled", "scheduled", "manuallyResolved"},
           e.kind = "retryScheduled" => FailedOnce(committed, e.step, e.attempt)
    PROVE  Offered(t)
<1> DEFINE a == Audit(now, x)
<1>1. now \in Nat /\ instance.sequence \in Nat
  BY ReadableFacts
<1>2. a \in InstanceEvents /\ a.kind = "operatorRecorded" /\ a.at = now /\ a.action = x
  BY <1>1, AuditTyped
<1> HIDE DEF a
<1>3. t = [id |-> <<c, "operator">>, expected |-> instance.sequence, events |-> <<a, e>>, work |-> work0]
  BY DEF a
<1>4. /\ t.id[2] = "operator" /\ t.expected = instance.sequence /\ t.events = <<a, e>>
      /\ First(t) = a /\ t.events[2] = e /\ t.work = work0
  BY <1>3 DEF First
<1>5. AuditedUnit(t)
  BY <1>2, <1>4 DEF AuditedUnit, Audited
<1>6. Outside(t)
  BY <1>1, <1>4, <1>5 DEF Outside
<1>7. Main(t) = e
  <2>1. t.events # <<First(t)>>
    BY <1>4
  <2> QED
    BY <1>4, <2>1 DEF Main
<1>8. ~AuditedLifecycle(t)
  <2>1. e.step # ""
    BY StepsApart DEF UnitEvents
  <2> QED
    BY <1>4, <2>1 DEF AuditedLifecycle, InstanceEvents
<1>9. Matched(a, e)
  BY <1>2 DEF Matched
<1> QED
  BY <1>4, <1>6, <1>7, <1>8, <1>9 DEF Offered

(* A one-event list put before another is the list of the two.             *)
LEMMA Prefixed ==
    ASSUME NEW a, NEW e
    PROVE  <<a>> \o <<e>> = <<a, e>>
<1> DEFINE S == {a, e}
<1>1. <<a>> \in Seq(S) /\ <<e>> \in Seq(S) /\ <<a, e>> \in Seq(S)
  OBVIOUS
<1>2. Len(<<a>>) = 1 /\ Len(<<e>>) = 1 /\ Len(<<a, e>>) = 2
  OBVIOUS
<1> DEFINE c == <<a>> \o <<e>>
<1>3. c \in Seq(S) /\ Len(c) = 2 /\ c[1] = a /\ c[2] = e
  BY <1>1, <1>2
<1> HIDE DEF c
<1>4. c = <<a, e>>
  BY <1>3
<1> QED
  BY <1>4 DEF c

(* The kind of an event about a unit.                                      *)
LEMMA UnitEventKind ==
    ASSUME NEW e, e.step \in Units
    PROVE  EventKind(e) = <<Kind[e.step], e.kind>>
<1>1. e.step \notin Waits
  BY StepsApart
<1> QED
  BY <1>1, Zenon DEF EventKind

(* The operator retries an activity.                                       *)
LEMMA CommandRetryOffers ==
    ASSUME IInv, NEW c \in Commands, NEW u \in Units, CommandRetry(c, u)
    PROVE  \E t : Offered(t)
<1>1. PICK deadline \in Deadlines :
        /\ Kind[u] = "activity"
        /\ Readable(instance) /\ CanRetry(instance, u, now, deadline)
        /\ Commit(NewOperatorActivityRetry(instance, c, u, now, deadline))
  BY DEF CommandRetry
<1> DEFINE id == <<c, "operator">>
<1> DEFINE x == "retryActivity"
<1> DEFINE b == NewActivityRetry(id, instance, u, now, deadline, c)
<1> DEFINE t == NewOperatorActivityRetry(instance, c, u, now, deadline)
<1>2. RetryFits(instance.units[u], now, deadline)
  BY <1>1 DEF CanRetry
<1>3. instance.units[u].status = "failed" /\ instance.units[u].retryable
  BY <1>2 DEF RetryFits
<1>4. /\ u \in Units \ Done /\ now \in Nat /\ instance \in Instance
      /\ History(instance, committed, work)
  BY <1>1, <1>3, ReadableFacts
<1>5. Shaped(u, instance.units[u]) /\ OutcomesAgree(u, instance.units[u], committed)
  BY <1>4 DEF History, UnitHistory
<1>6. FailedOnce(committed, u, instance.units[u].attempt)
  <2>1. instance.units[u].retryable = TRUE
    BY <1>3, <1>4, InstanceTyped DEF Instances, Progresses
  <2> QED
    BY <1>3, <1>5, <2>1 DEF OutcomesAgree, FailedOnce
<1>7. deadline \in Nat /\ c \in {"auto"} \cup Commands
  BY ExecutionAssumption
<1>8. /\ b = [id |-> id, expected |-> instance.sequence, events |-> <<First(b)>>, work |-> b.work]
      /\ First(b) \in UnitEvents(Keys)
      /\ First(b).kind = "retryScheduled"
      /\ First(b).step = u
      /\ First(b).at = now
      /\ First(b).attempt = instance.units[u].attempt
      /\ RetryFollows(instance.units[u], First(b))
      /\ WorkFits(First(b), b.work)
  BY <1>2, <1>4, <1>5, <1>7, RetryEvent
<1> DEFINE e == First(b)
<1> DEFINE work0 == b.work
<1> DEFINE sq == instance.sequence
<1> DEFINE a == Audit(now, x)
<1>9. Commit(t)
  BY <1>1
<1>10. t = [b EXCEPT !.events = <<a>> \o @]
  BY Zenon DEF NewOperatorActivityRetry
<1>11. b = [id |-> id, expected |-> sq, events |-> <<e>>, work |-> work0]
  BY <1>8
<1>12. /\ e \in UnitEvents(Keys) /\ e.kind = "retryScheduled" /\ e.step = u
       /\ e.attempt = instance.units[u].attempt /\ WorkFits(e, work0)
       /\ e.at = now /\ RetryFollows(instance.units[u], e)
  BY <1>8
<1> HIDE DEF b, e, work0, sq, t, id, x, a
<1>13. <<a>> \o <<e>> = <<a, e>>
  BY Prefixed, Zenon
<1>14. t = [id |-> id, expected |-> sq, events |-> <<a, e>>, work |-> work0]
  <2>1. b.events = <<e>>
    BY <1>11
  <2>2. t = [b EXCEPT !.events = <<a, e>>]
    BY <1>10, <1>13, <2>1
  <2> DEFINE ev == <<e>>
  <2> DEFINE ew == <<a, e>>
  <2>3. b = [id |-> id, expected |-> sq, events |-> ev, work |-> work0] /\ t = [b EXCEPT !.events = ew]
    BY <1>11, <2>2
  <2> HIDE DEF ev, ew
  <2>4. t = [id |-> id, expected |-> sq, events |-> ew, work |-> work0]
    BY <2>3
  <2> QED
    BY <2>4 DEF ew
<1>15. x \in DOMAIN operatorEventKind /\ operatorEventKind[x] = <<"activity", "retryScheduled">>
  BY DEF operatorEventKind, x
<1>k. EventKind(e) = operatorEventKind[x]
  BY <1>1, <1>12, <1>15, UnitEventKind
<1>w. BlindEvent(instance, e) \/ Welcome(instance, e)
  BY <1>1, <1>12 DEF BlindEvent, Welcome, CanRetry, UnitAccepts, ActivityAccepts, Terminal
<1>16. t = [id |-> <<c, "operator">>, expected |-> instance.sequence,
            events |-> <<Audit(now, x), e>>, work |-> work0]
  BY <1>14, Zenon DEF id, sq, a
<1> QED
  BY <1>1, <1>6, <1>9, <1>12, <1>15, <1>16, <1>k, <1>w, AuditedCommit

(* The operator compensates.                                               *)
LEMMA CommandCompensateOffers ==
    ASSUME IInv, NEW c \in Commands, NEW u \in Units, CommandCompensate(c, u)
    PROVE  \E t : Offered(t)
<1>1. PICK deadline \in Deadlines :
        /\ Kind[u] = "compensation"
        /\ Readable(instance) /\ CanScheduleCompensation(instance, u, now, deadline)
        /\ Commit(NewOperatorCompensation(instance, c, u, now, deadline))
  BY DEF CommandCompensate
<1> DEFINE id == <<c, "operator">>
<1> DEFINE x == "compensate"
<1> DEFINE w == <<u, 1, c>>
<1> DEFINE b == NewActivitySchedule(instance, u, now, deadline, w)
<1> DEFINE t == NewOperatorCompensation(instance, c, u, now, deadline)
<1>2. instance.units[u].status = "none"
  BY <1>1 DEF CanScheduleCompensation
<1>3. u \in Units \ Done /\ now \in Nat
  BY <1>1, <1>2, ReadableFacts
<1>4. deadline \in Nat /\ c \in {"auto"} \cup Commands
  BY ExecutionAssumption
<1>5. /\ b = [id |-> <<w, "schedule">>, expected |-> instance.sequence,
              events |-> <<First(b)>>, work |-> b.work]
      /\ First(b) \in UnitEvents(Keys)
      /\ First(b).kind = "scheduled"
      /\ First(b).step = u
      /\ First(b).at = now
      /\ WorkFits(First(b), b.work)
  BY <1>3, <1>4, ScheduleValue, ZenonT(60)
<1> DEFINE e == First(b)
<1> DEFINE work0 == b.work
<1> DEFINE sq == instance.sequence
<1> DEFINE a == Audit(now, x)
<1> DEFINE old == <<w, "schedule">>
<1>6. Commit(t)
  BY <1>1
<1>7. t = [b EXCEPT !.id = id, !.events = <<a>> \o @]
  BY Zenon DEF NewOperatorCompensation, NewCompensationSchedule
<1>8. b = [id |-> old, expected |-> sq, events |-> <<e>>, work |-> work0]
  BY <1>5
<1>9. /\ e \in UnitEvents(Keys) /\ e.kind = "scheduled" /\ WorkFits(e, work0)
      /\ e.step = u /\ e.at = now
  BY <1>5
<1> HIDE DEF b, e, work0, sq, t, id, x, a, old
<1>10. <<a>> \o <<e>> = <<a, e>>
  BY Prefixed, Zenon
<1>11. t = [id |-> id, expected |-> sq, events |-> <<a, e>>, work |-> work0]
  <2>1. b.events = <<e>>
    BY <1>8
  <2> DEFINE b1 == [b EXCEPT !.id = id]
  <2> DEFINE ev == <<e>>
  <2> DEFINE ew == <<a, e>>
  <2>2. t = [b1 EXCEPT !.events = ew]
    BY <1>7, <1>10, <2>1
  <2>3. b = [id |-> old, expected |-> sq, events |-> ev, work |-> work0]
    BY <1>8
  <2> HIDE DEF ev, ew
  <2>4. b1 = [id |-> id, expected |-> sq, events |-> ev, work |-> work0]
    BY <2>3
  <2> HIDE DEF b1
  <2>5. t = [id |-> id, expected |-> sq, events |-> ew, work |-> work0]
    BY <2>2, <2>4
  <2> QED
    BY <2>5 DEF ew
<1>12. x \in DOMAIN operatorEventKind /\ operatorEventKind[x] = <<"compensation", "scheduled">>
  BY DEF operatorEventKind, x
<1>k. EventKind(e) = operatorEventKind[x]
  BY <1>1, <1>9, <1>12, UnitEventKind
<1>w. Welcome(instance, e)
  BY <1>1, <1>9 DEF Welcome, CanScheduleCompensation, Compensable, Terminal, UnitAccepts,
                    CompensationAccepts
<1>13. t = [id |-> <<c, "operator">>, expected |-> instance.sequence,
            events |-> <<Audit(now, x), e>>, work |-> work0]
  BY <1>11, Zenon DEF id, sq, a
<1> QED
  BY <1>1, <1>6, <1>9, <1>12, <1>13, <1>k, <1>w, AuditedCommit

(* The operator resolves a compensation by hand.                           *)
LEMMA CommandResolveOffers ==
    ASSUME IInv, NEW c \in Commands, NEW u \in Units, CommandResolve(c, u)
    PROVE  \E t : Offered(t)
<1>1. /\ Readable(instance) /\ CanResolve(instance, u, now) /\ Kind[u] = "compensation"
      /\ Commit(NewOperatorCompensationResolution(instance, c, u, now))
  BY DEF CommandResolve
<1> DEFINE x == "resolveCompensation"
<1> DEFINE t == NewOperatorCompensationResolution(instance, c, u, now)
<1> DEFINE e == EventRecord("manuallyResolved", now, u, 0, NoKey, 0, FALSE, NoAction)
<1>2. now \in Nat
  BY <1>1, ReadableFacts
<1>3. UnitEvent("manuallyResolved", now, u, 0) = e
  BY UnitEventValue, Zenon
<1>4. e \in UnitEvents(Keys)
  <2>1. NoKey \in Keys /\ 0 \in Nat /\ FALSE \in BOOLEAN /\ "manuallyResolved" \in UnitEventKinds
    BY DEF Keys, UnitEventKinds
  <2> QED
    BY <1>2, <2>1, EventTyped, Zenon
<1>5. e.kind = "manuallyResolved" /\ e.step = u /\ e.at = now
  BY DEF EventRecord
<1> HIDE DEF e
<1>6. t = [id |-> <<c, "operator">>, expected |-> instance.sequence,
           events |-> <<Audit(now, x), e>>, work |-> {}]
  BY <1>3, Zenon DEF NewOperatorCompensationResolution, Transition
<1>7. WorkFits(e, {})
  BY <1>5 DEF WorkFits
<1>8. x \in DOMAIN operatorEventKind /\ operatorEventKind[x] = <<"compensation", "manuallyResolved">>
  BY DEF operatorEventKind
<1>9. Commit(t)
  BY <1>1
<1> HIDE DEF t, x
<1>10. EventKind(e) = operatorEventKind[x]
  BY <1>1, <1>5, <1>8, UnitEventKind
<1>11. BlindEvent(instance, e) \/ Welcome(instance, e)
  BY <1>1, <1>5 DEF BlindEvent, Welcome, CanResolve, UnitAccepts, CompensationAccepts
<1> QED
  BY <1>1, <1>4, <1>5, <1>6, <1>7, <1>8, <1>9, <1>10, <1>11, AuditedCommit
-----------------------------------------------------------------------------
(* The invariant holds at the start: the steps of Done have succeeded,     *)
(* nothing else has been scheduled and every processor is at rest.         *)
LEMMA InitHolds == Init => IInv
<1> SUFFICES ASSUME Init PROVE IInv
  OBVIOUS
<1> DEFINE us == [u \in Units |-> IF u \in Done THEN SucceededProgress(u) ELSE NoProgress]
<1> DEFINE ws == [s \in Waits |-> NoWait]
<1> DEFINE sq == 1 + 3 * Cardinality(Done)
<1>1. /\ now = 1 /\ sequence = instance.sequence /\ committed = {}
      /\ work = [w \in WorkIDs |-> AbsentRow]
      /\ proc = [p \in Workers |-> Idle]
      /\ wire = {} /\ faults = 0
      /\ runs = [a \in Attempts |-> IF a[1] \in Done /\ a[2] = 1 THEN 1 ELSE 0]
      /\ effects = Done \X {1}
      /\ instance = [Started(1) EXCEPT !.sequence = sq, !.units = us]
  BY DEF Init
<1>2. Started(1) \in Instance
  BY StartedTyped
<1>3. sq \in Nat
  <2>1. Cardinality(Done) \in Nat
    BY ExecutionAssumption, FS_CardinalityType
  <2> HIDE DEF sq
  <2> QED
    BY <2>1 DEF sq
<1>4. us \in [Units -> Progress]
  <2>1. NoProgress \in Progress
    BY DEF NoProgress, Progress, UnitStatuses, CompensationStatuses, ActivityStatuses
  <2>2. ASSUME NEW u \in Done PROVE SucceededProgress(u) \in Progress
    <3>1. <<u, 1, "auto">> \in Keys
      BY DEF Keys
    <3> DEFINE key == <<u, 1, "auto">>
    <3> HIDE DEF key
    <3>2. SucceededProgress(u) = [status |-> "succeeded", attempt |-> 1, key |-> key,
                                  dueAt |-> 0, retryable |-> FALSE]
      BY Zenon DEF SucceededProgress, key
    <3>3. key \in Keys
      BY <3>1 DEF key
    <3>4. SucceededProgress(u) \in [status: UnitStatuses, attempt: Nat, key: Keys, dueAt: Nat, retryable: BOOLEAN]
      BY <3>2, <3>3 DEF UnitStatuses, CompensationStatuses, ActivityStatuses
    <3> QED
      BY <3>4 DEF Progress, Keys
  <2> QED
    BY <2>1, <2>2
<1>5. /\ \A u \in Done : us[u].status = "succeeded" /\ us[u].attempt = 1
      /\ \A u \in Units \ Done : us[u] = NoProgress
  <2>1. Done \subseteq Units
    BY ExecutionAssumption
  <2> QED
    BY <2>1 DEF SucceededProgress
<1> HIDE DEF us, sq
<1>6. /\ instance \in Instance /\ instance.sequence = sq /\ instance.units = us
      /\ instance.pendingOperator = NoAction
  <2>1. Started(1).pendingOperator = NoAction
    BY DEF Started
  <2> QED
    BY <1>1, <1>2, <1>3, <1>4, <2>1 DEF Instance
<1>7. NoProgress.status = "none" /\ NoProgress.attempt = 0 /\ NoProgress.dueAt = 0
  BY DEF NoProgress
<1>8. AbsentRow \in Row /\ AbsentRow.state = "absent"
  BY DEF AbsentRow, Row, RowStates, NoTime
<1>9. work \in [WorkIDs -> Row] /\ \A w \in WorkIDs : work[w].state = "absent" /\ ~Present(work, w)
  BY <1>1, <1>8 DEF Present
<1>10. RowsFit(now, committed, instance, work)
  BY <1>9 DEF RowsFit
<1>11. CallsFit(committed, runs, effects)
  <2>1. 1 \in 1 .. Policy.maxAttempts
    BY PolicyAssumption DEF validRetry, Policies
  <2>2. effects \subseteq Attempts
    BY <1>1, <2>1, ExecutionAssumption DEF Attempts
  <2>3. \A a \in effects : a[1] \in Done /\ a[2] = 1
    BY <1>1
  <2>4. \A a \in Attempts : runs[a] = IF a[1] \in Done /\ a[2] = 1 THEN 1 ELSE 0
    BY <1>1
  <2>5. runs \in [Attempts -> Nat]
    BY <1>1
  <2> QED
    BY <2>2, <2>3, <2>4, <2>5 DEF CallsFit
<1>12. SuccessFits(instance, effects)
  BY <1>1, <1>5, <1>6, <1>7 DEF SuccessFits
<1>13. History(instance, committed, work)
  <2>1. ASSUME NEW u \in Units \ Done PROVE UnitHistory(u, NoProgress, committed, work)
    <3>1. Shaped(u, NoProgress)
      BY <1>7 DEF Shaped
    <3>2. StartsAgree(u, NoProgress, committed)
      BY <1>1, <1>7 DEF StartsAgree
    <3>3. OutcomesAgree(u, NoProgress, committed)
      BY <1>7 DEF OutcomesAgree, Concluded
    <3>4. Reach(NoProgress) = 0
      BY <1>7 DEF Reach
    <3>5. RowsAgree(u, NoProgress, work)
      BY <1>7, <1>9, <3>4 DEF RowsAgree, RowOf
    <3> QED
      BY <3>1, <3>2, <3>3, <3>5 DEF UnitHistory
  <2> QED
    BY <1>5, <1>6, <2>1 DEF History
<1>14. StoreFits(sequence, committed, instance, work, runs, effects)
  BY <1>1, <1>3, <1>6, <1>11, <1>12, <1>13 DEF StoreFits
<1>15. \A p \in Workers : proc[p] = Idle
  BY <1>1
<1>16. ProcessorsFit(sequence, committed, instance, work, proc, wire, runs, effects)
  <2>1. proc = [p \in Workers |-> proc[p]]
    BY <1>1
  <2>2. /\ \A p \in Workers : Fit(proc[p], sequence, committed, instance, work, effects)
        /\ \A p \in Workers : proc[p].pc = "idle"
    BY <1>15, IdleFits
  <2>3. \A t : ~Pooled(t, committed, proc, wire)
    BY <1>1, <2>2 DEF Pooled, Staging, Committing
  <2>4. \A p \in Workers : ~Entitled(proc[p], committed)
    BY <1>1 DEF Entitled
  <2> QED
    BY <1>1, <2>1, <2>2, <2>3, <2>4 DEF ProcessorsFit, NeverFailed
<1>17. now \in Nat /\ faults \in Nat
  BY <1>1
<1> QED
  BY <1>10, <1>14, <1>16, <1>17 DEF IInv, Inv

(* Every step keeps the invariant.                                         *)
LEMMA StepHolds == IInv /\ [Next]_vars => IInv'
<1> SUFFICES ASSUME IInv, [Next]_vars PROVE IInv'
  OBVIOUS
<1>1. CASE UNCHANGED vars
  BY <1>1 DEF IInv, vars
<1>2. CASE Tick
  BY <1>2, TickStep
<1>3. ASSUME NEW u \in Units, Schedule(u) PROVE IInv'
  BY <1>3, ScheduleOffers, CommitStep
<1>4. ASSUME NEW u \in Units, ReportChild(u) PROVE IInv'
  BY <1>4, ReportOffers, CommitStep
<1>5. ASSUME NEW c \in Commands, NEW a \in LifecycleActions, Command(c, a) PROVE IInv'
  BY <1>5, CommandOffers, CommitStep
<1>6. ASSUME NEW c \in Commands, NEW u \in Units, CommandRetry(c, u) PROVE IInv'
  BY <1>6, CommandRetryOffers, CommitStep
<1>7. ASSUME NEW c \in Commands, NEW u \in Units, CommandCompensate(c, u) PROVE IInv'
  BY <1>7, CommandCompensateOffers, CommitStep
<1>8. ASSUME NEW c \in Commands, NEW u \in Units, CommandResolve(c, u) PROVE IInv'
  BY <1>8, CommandResolveOffers, CommitStep
<1>9. ASSUME NEW p \in Workers, ProcessorStep(p) PROVE IInv'
  <2>1. ASSUME NEW w \in WorkIDs, Claim(p, w) PROVE IInv'
    BY <2>1, ClaimStep
  <2>2. CASE Load(p)
    BY <2>2, LoadStep
  <2>3. CASE CommitAccepted(p)
    BY <2>3, AcceptedStep
  <2>4. CASE CommitRejected(p) \/ InspectFails(p)
    BY <2>4, GiveUpStep
  <2>5. CASE Reconcile(p)
    BY <2>5, ReconcileStep
  <2>6. CASE Invoke(p)
    BY <2>6, InvokeStep
  <2>7. CASE TooLate(p)
    BY <2>7, TooLateStep
  <2>8. CASE HandlerReturns(p)
    BY <2>8, ReturnStep
  <2>9. CASE OutcomeRecorded(p)
    BY <2>9, RecordedStep
  <2>10. CASE Finish(p)
    BY <2>10, FinishStep
  <2> QED
    BY <1>9, <2>1, <2>2, <2>3, <2>4, <2>5, <2>6, <2>7, <2>8, <2>9, <2>10 DEF ProcessorStep
<1>10. ASSUME NEW p \in Workers, Renew(p) PROVE IInv'
  BY <1>10, RenewStep
<1>11. ASSUME NEW p \in Workers, CommitUnknown(p) PROVE IInv'
  BY <1>11, UnknownStep
<1>12. ASSUME NEW p \in Workers, Crash(p) PROVE IInv'
  BY <1>12, CrashStep
<1>13. CASE RolledBack \/ \E t \in wire : LandLate(t)
  BY <1>13, WireStep
<1> QED
  BY <1>1, <1>2, <1>3, <1>4, <1>5, <1>6, <1>7, <1>8, <1>9, <1>10, <1>11, <1>12, <1>13 DEF Next

(* Whatever the workers, the operator, the application and the faults do,  *)
(* the invariant holds.                                                    *)
THEOREM StepsAgree == Spec => []IInv
<1>1. Init => IInv
  BY InitHolds
<1>2. IInv /\ [Next]_vars => IInv'
  BY StepHolds
<1> QED
  BY <1>1, <1>2, PTL DEF Spec
-----------------------------------------------------------------------------
(* What the invariant says.                                                *)

(* Every variable keeps its type: the instance replay builds, the rows of  *)
(* workflow_work and the processors' own state.                            *)
THEOREM StepTypeCorrect == Spec => []TypeOK
<1>1. IInv => TypeOK
  <2> SUFFICES ASSUME IInv PROVE TypeOK
    OBVIOUS
  <2>1. now \in Nat /\ sequence \in Nat /\ instance \in Instance /\ faults \in Nat
    BY DEF IInv, Inv, StoreFits
  <2>2. work \in [WorkIDs -> Row] /\ runs \in [Attempts -> Nat] /\ effects \subseteq Attempts
    BY DEF IInv, Inv, RowsFit, StoreFits, CallsFit
  <2>3. \A p \in Workers : proc[p].pc \in PCs /\ proc[p].snapshot \in Instance
    BY DEF IInv, Inv, ProcessorsFit, Fit
  <2> QED
    BY <2>1, <2>2, <2>3 DEF TypeOK
<1> QED
  BY <1>1, StepsAgree, PTL

(* However often work is redelivered and whoever takes it over, the        *)
(* handler or child starter of an attempt is called at most once           *)
(* (execute, after commitActivityTransition): an entitlement to call rests *)
(* on a durable start read from the clock inside the lease, and two leases *)
(* of one piece of work are apart.                                         *)
THEOREM HandlerCalledOnce == Spec => []HandlerOncePerAttempt
<1>1. IInv => HandlerOncePerAttempt
  BY DEF IInv, Inv, StoreFits, CallsFit, HandlerOncePerAttempt
<1> QED
  BY <1>1, StepsAgree, PTL

(* While a handler runs, the start of its attempt is durable and the       *)
(* deadline of the request is the one that start persisted (execute and    *)
(* ActivityRequest.Deadline), unknown commits and takeovers included.      *)
THEOREM EffectsFollowStarts == Spec => []StartBeforeEffect
<1>1. IInv => StartBeforeEffect
  <2> SUFFICES ASSUME IInv, NEW p \in Workers, proc[p].pc = "handler"
               PROVE  \E t \in committed :
                         /\ t.id = processorTransitionID(proc[p].lease.work, "start")
                         /\ t.events[1].dueAt =
                               proc[p].snapshot.units[proc[p].lease.work[1]].dueAt
    BY DEF StartBeforeEffect
  <2>1. Called(proc[p], sequence, committed, instance)
    BY DEF IInv, Inv, ProcessorsFit, Fit
  <2> QED
    BY <2>1 DEF Called, First
<1> QED
  BY <1>1, StepsAgree, PTL

(* A committed outcome of an attempt is one of its outcome events.         *)
LEMMA OutcomeCounts ==
    ASSUME IInv, NEW t \in committed, NEW u, NEW n, OutcomeOf(t, u, n)
    PROVE  t \in OutcomesOf(<<u, n>>)
<1>1. Recorded(t)
  BY DEF IInv, Inv, StoreFits, Durable
<1>2. OutcomeShape(t)
  BY <1>1 DEF Recorded, Staged, Outside, StartShape, RetryShape, OutcomeOf
<1>3. /\ t.events = <<First(t)>> /\ First(t).step = u /\ First(t).attempt = n
      /\ First(t).kind \in OutcomeKinds \cup ChildStartOutcomeKinds
  BY <1>2 DEF OutcomeShape, Single, OutcomeOf, OutcomeKinds, ChildStartOutcomeKinds
<1>4. Len(t.events) = 1 /\ t.events[1] = First(t)
  <2> DEFINE e == First(t)
  <2>1. t.events = <<e>>
    BY <1>3
  <2> HIDE DEF e
  <2> QED
    BY <2>1 DEF First
<1>5. 1 \in 1 .. Len(t.events)
  BY <1>4
<1> DEFINE a == <<u, n>>
<1>6. a[1] = u /\ a[2] = n
  OBVIOUS
<1> HIDE DEF a
<1>7. t \in OutcomesOf(a)
  BY <1>3, <1>4, <1>5, <1>6 DEF OutcomesOf
<1> QED
  BY <1>7 DEF a

(* There is work for a further attempt only after a known failure that may *)
(* be retried (scheduleRetry, NewActivityRetry, NewOperatorActivityRetry): *)
(* an attempt whose outcome is unknown is never repeated.                  *)
THEOREM RetriesFollowFailures == Spec => []RetryOnlyKnownFailure
<1>1. IInv => RetryOnlyKnownFailure
  <2> SUFFICES ASSUME IInv, NEW w \in WorkIDs, work[w].state # "absent", w[2] > 1
               PROVE  \E t \in OutcomesOf(<<w[1], w[2] - 1>>) :
                          t.events[1].kind = "failed" /\ t.events[1].retryable
    BY DEF RetryOnlyKnownFailure
  <2>1. FailedOnce(committed, w[1], w[2] - 1)
    BY DEF IInv, Inv, RowsFit, Present
  <2>2. PICK t \in committed :
          OutcomeOf(t, w[1], w[2] - 1) /\ First(t).kind = "failed" /\ First(t).retryable = TRUE
    BY <2>1 DEF FailedOnce, EndedAs
  <2>3. t \in OutcomesOf(<<w[1], w[2] - 1>>)
    BY <2>2, OutcomeCounts
  <2> QED
    BY <2>2, <2>3 DEF First
<1> QED
  BY <1>1, StepsAgree, PTL

(* A processor completes its work only when an outcome of the attempt is   *)
(* durable or the child has been reported on (processProgress,             *)
(* persistOutcome and their compensation and child versions).              *)
THEOREM CompletionsAccounted == Spec => []CompletedIsAccounted
<1>1. IInv => CompletedIsAccounted
  <2> SUFFICES ASSUME IInv, NEW w \in WorkIDs, work[w].state = "completed"
               PROVE  OutcomesOf(<<w[1], w[2]>>) # {} \/ Reported(w[1])
    BY Zenon DEF CompletedIsAccounted
  <2>1. Accounted(w, committed, instance)
    BY DEF IInv, Inv, RowsFit
  <2>2. CASE HasOutcome(committed, w[1], w[2])
    <3>1. PICK t \in committed : OutcomeOf(t, w[1], w[2])
      BY <2>2 DEF HasOutcome
    <3> QED
      BY <3>1, OutcomeCounts
  <2>3. CASE ReportedAs(w[1], instance.units[w[1]])
    BY <2>3 DEF ReportedAs, Reported
  <2> QED
    BY <2>1, <2>2, <2>3 DEF Accounted
<1> QED
  BY <1>1, StepsAgree, PTL

(* Dead-lettered work has been overtaken: work of the next attempt of its  *)
(* unit is durable (processProgress, "invalid-activity-state").            *)
THEOREM DeadLettersOvertaken == Spec => []DeadLetterLosesNothing
<1>1. IInv => DeadLetterLosesNothing
  BY DEF IInv, Inv, RowsFit, Superseded, RowOf, Present, DeadLetterLosesNothing
<1> QED
  BY <1>1, StepsAgree, PTL

(* A history that says succeeded, or of a child started, is right: that    *)
(* attempt took effect (persistOutcome records only what a handler         *)
(* answered or that nobody knows).                                         *)
THEOREM SuccessesAreReal == Spec => []SuccessIsReal
<1>1. IInv => SuccessIsReal
  BY DEF IInv, Inv, StoreFits, SuccessFits, SuccessIsReal
<1> QED
  BY <1>1, StepsAgree, PTL

(* A child that exists can still be reported: its start is never recorded  *)
(* as a known failure (executeChildStartSafely), so the parent's progress  *)
(* stays one that childTerminalOutcomeAllowed accepts or has accepted.     *)
THEOREM ChildrenReportable == Spec => []ChildReportable
<1>1. IInv => ChildReportable
  <2> SUFFICES ASSUME IInv, NEW u \in Units, Kind[u] = "child", Exists(u), instance.valid
               PROVE  instance.units[u].status \in
                          {"running", "active", "unknown", "succeeded", "childFailed"}
    BY DEF ChildReportable
  <2> DEFINE p == instance.units[u]
  <2>1. PICK a \in effects : a[1] = u
    BY DEF Exists
  <2>2. u \in Units \ Done
    BY ExecutionAssumption
  <2>3. a \in Attempts /\ a[2] \in Nat
    BY <2>1, PolicyAssumption DEF IInv, Inv, StoreFits, CallsFit, Attempts, Policies
  <2>4. Begun(committed, u, a[2])
    BY <2>1, <2>2, <2>3 DEF IInv, Inv, StoreFits, CallsFit
  <2>5. UnitHistory(u, p, committed, work)
    BY <2>2 DEF IInv, Inv, StoreFits, History
  <2>6. p \in Progresses(Keys)
    BY InstanceTyped DEF IInv, Inv, StoreFits, Instances
  <2>7. p.attempt \in Nat /\ p.status \in UnitStatuses
    BY <2>6 DEF Progresses
  <2> HIDE DEF p
  <2>8. a[2] <= p.attempt /\ a[2] >= 1
    BY <2>3, <2>4, <2>5 DEF UnitHistory, StartsAgree, Begun, Attempts
  <2>9. \A y : ~EndedAs(committed, u, a[2], "failed", y)
    <3>1. NeverFailed(a, committed, proc, wire)
      BY <2>1 DEF IInv, Inv, ProcessorsFit
    <3> QED
      BY <2>1, <3>1 DEF NeverFailed, Pooled, EndedAs
  <2>10. a[2] = p.attempt
    <3>1. \A n \in 1 .. p.attempt - 1 : FailedOnce(committed, u, n)
      BY <2>5 DEF UnitHistory, OutcomesAgree
    <3>2. ~FailedOnce(committed, u, a[2])
      BY <2>9 DEF FailedOnce
    <3>3. a[2] \notin 1 .. p.attempt - 1
      BY <3>1, <3>2
    <3> QED
      BY <2>3, <2>7, <2>8, <3>3
  <2>11. p.status \notin {"failed", "retryWaiting"}
    BY <2>5, <2>9, <2>10 DEF UnitHistory, OutcomesAgree, FailedOnce
  <2>12. p.status \notin {"none", "ready", "manuallyResolved"}
    BY <2>3, <2>5, <2>7, <2>8 DEF UnitHistory, Shaped
  <2>13. p.status \in {"running", "active", "unknown", "succeeded", "childFailed"}
    BY <2>7, <2>11, <2>12 DEF UnitStatuses, CompensationStatuses, ChildStatuses, ActivityStatuses
  <2> QED
    BY <2>13 DEF p
<1> QED
  BY <1>1, StepsAgree, PTL

(* No step calls the handler of a compensation that an operator has        *)
(* resolved: the zero deadline of the resolved attempt has passed, so      *)
(* execute reports it too late (Activity.Execute).                         *)
THEOREM ResolutionsStand == Spec => NoEffectAfterResolution
<1>1. ASSUME IInv, [Next]_vars, NEW a \in Attempts,
             instance.units[a[1]].status = "manuallyResolved"
      PROVE  runs'[a] = runs[a]
  <2>1. CASE UNCHANGED runs
    BY <2>1
  <2>2. CASE \E p \in Workers : Invoke(p)
    <3>1. PICK p \in Workers : Invoke(p)
      BY <2>2
    <3> DEFINE w == proc[p].lease.work
    <3>2. /\ Readable(instance) /\ instance.units[w[1]].dueAt > now
          /\ runs' = [runs EXCEPT ![<<w[1], w[2]>>] = @ + 1]
      BY <3>1 DEF Invoke, InTime, RequestDeadline
    <3> HIDE DEF w
    <3>3. runs \in [Attempts -> Nat] /\ now \in Nat
      BY <1>1 DEF IInv, Inv, StoreFits, CallsFit
    <3>4. a = <<a[1], a[2]>> /\ a[1] \in Units
      BY DEF Attempts
    <3>5. a[1] \in Units \ Done
      BY <1>1, <3>2, <3>4, ReadableFacts
    <3>6. Shaped(a[1], instance.units[a[1]])
      BY <1>1, <3>2, <3>5, ReadableFacts DEF History, UnitHistory
    <3>7. instance.units[a[1]].dueAt = 0
      BY <1>1, <3>6 DEF Shaped
    <3>8. a[1] # w[1]
      BY <3>2, <3>3, <3>7
    <3>9. a # <<w[1], w[2]>>
      BY <3>4, <3>8
    <3> QED
      BY <3>2, <3>3, <3>9
  <2>3. [Next]_vars => UNCHANGED runs \/ \E p \in Workers : Invoke(p)
    <3>1. ASSUME NEW p \in Workers, ProcessorStep(p) PROVE UNCHANGED runs \/ Invoke(p)
      BY <3>1 DEF ProcessorStep, ghost, Claim, Load, CommitAccepted, CommitRejected, Reconcile,
                  TooLate, HandlerReturns, OutcomeRecorded, InspectFails, Finish
    <3>2. ASSUME NEW p \in Workers, Renew(p) \/ CommitUnknown(p) \/ Crash(p) PROVE UNCHANGED runs
      BY <3>2 DEF Renew, CommitUnknown, Crash, ghost
    <3>3. ASSUME NEW t, Commit(t) PROVE UNCHANGED runs
      BY <3>3 DEF Commit, ghost
    <3>4. ASSUME NEW u, Schedule(u) \/ ReportChild(u) PROVE UNCHANGED runs
      BY <3>3, <3>4 DEF Schedule, ReportChild
    <3>5. ASSUME NEW c, NEW u, \/ Command(c, u) \/ CommandRetry(c, u)
                               \/ CommandCompensate(c, u) \/ CommandResolve(c, u)
          PROVE  UNCHANGED runs
      BY <3>3, <3>5 DEF Command, CommandRetry, CommandCompensate, CommandResolve
    <3>6. ASSUME NEW t, LandLate(t) PROVE UNCHANGED runs
      BY <3>6 DEF LandLate, ghost
    <3>7. Tick \/ RolledBack => UNCHANGED runs
      BY DEF Tick, RolledBack, ghost
    <3>8. UNCHANGED vars => UNCHANGED runs
      BY DEF vars
    <3> QED
      BY <3>1, <3>2, <3>4, <3>5, <3>6, <3>7, <3>8 DEF Next
  <2> QED
    BY <1>1, <2>1, <2>2, <2>3
<1>2. IInv /\ [Next]_vars =>
         [\A a \in Attempts :
             instance.units[a[1]].status = "manuallyResolved" => runs'[a] = runs[a]]_vars
  BY <1>1
<1> QED
  BY <1>2, StepsAgree, PTL DEF Spec, NoEffectAfterResolution
-----------------------------------------------------------------------------
(* What steps may never do.                                                *)

(* Whatever is committed was offered by the application or the operator,   *)
(* or comes from a processor and was built from the instance it meets.     *)
LEMMA Newcomer ==
    ASSUME IInv, [Next]_vars, NEW t \in committed', t \notin committed
    PROVE  /\ Land(t)
           /\ Offered(t) \/ (Staged(t) /\ Built(instance, t))
<1>1. ASSUME NEW s, Offered(s) PROVE s = t /\ Land(s)
  <2>1. Land(s)
    BY <1>1 DEF Offered, Commit
  <2> QED
    BY <2>1 DEF Land
<1>2. ASSUME NEW s, Offered(s) PROVE Land(t) /\ Offered(t)
  BY <1>1, <1>2
<1>3. ASSUME NEW s, Land(s), Ready(s, sequence, committed, instance, work, effects)
      PROVE  Land(t) /\ Staged(t) /\ Built(instance, t)
  <2>1. s = t
    BY <1>3 DEF Land
  <2>2. s.expected = sequence
    BY <1>3 DEF Land, Fresh
  <2> QED
    BY <1>3, <2>1, <2>2 DEF Ready
<1>4. ASSUME NEW u \in Units, Schedule(u) \/ ReportChild(u) PROVE \E s : Offered(s)
  BY <1>4, ScheduleOffers, ReportOffers
<1>5. ASSUME NEW c \in Commands, NEW a \in LifecycleActions, Command(c, a) PROVE \E s : Offered(s)
  BY <1>5, CommandOffers
<1>6. ASSUME NEW c \in Commands, NEW u \in Units,
             CommandRetry(c, u) \/ CommandCompensate(c, u) \/ CommandResolve(c, u)
      PROVE  \E s : Offered(s)
  BY <1>6, CommandRetryOffers, CommandCompensateOffers, CommandResolveOffers
<1>7. ASSUME NEW p \in Workers, CommitAccepted(p)
      PROVE  Land(t) /\ Staged(t) /\ Built(instance, t)
  <2>1. Land(proc[p].tx)
    BY <1>7 DEF CommitAccepted, store
  <2>2. Ready(proc[p].tx, sequence, committed, instance, work, effects)
    BY <1>7 DEF CommitAccepted, Staging, IInv, Inv, ProcessorsFit, Fit
  <2> QED
    BY <1>3, <2>1, <2>2
<1>8. ASSUME NEW s \in wire, LandLate(s) PROVE Land(t) /\ Staged(t) /\ Built(instance, t)
  <2>1. Land(s)
    BY <1>8 DEF LandLate
  <2>2. Ready(s, sequence, committed, instance, work, effects)
    BY DEF IInv, Inv, ProcessorsFit
  <2> QED
    BY <1>3, <2>1, <2>2
<1>9. ASSUME NEW p \in Workers, ProcessorStep(p) PROVE CommitAccepted(p)
  BY <1>9 DEF ProcessorStep, store, Claim, Load, CommitRejected, Reconcile, Invoke, TooLate,
              HandlerReturns, OutcomeRecorded, InspectFails, Finish
<1>10. ASSUME NEW p \in Workers, Renew(p) \/ CommitUnknown(p) \/ Crash(p) PROVE FALSE
  BY <1>10 DEF Renew, CommitUnknown, Crash, store
<1>11. ~(Tick \/ RolledBack \/ UNCHANGED vars)
  BY DEF Tick, RolledBack, vars, store
<1> QED
  BY <1>2, <1>4, <1>5, <1>6, <1>7, <1>8, <1>9, <1>10, <1>11 DEF Next

(* An attempt starts only in an instance that runs, or, a compensation's,  *)
(* that is being cancelled, although the processor looked at the instance  *)
(* in an earlier step (NewActivityAttemptStart and its compensation and    *)
(* child versions): the expected sequence makes the commit fail when the   *)
(* operator's command came between.                                        *)
THEOREM StartsWhileRunning == Spec => StartsOnlyWhileRunning
<1>1. ASSUME IInv, [Next]_vars, NEW t \in committed', t \notin committed, t.id[2] = "start"
      PROVE  \/ instance.status = "running"
             \/ instance.status = "cancelling" /\ Kind[t.id[1][1]] = "compensation"
  <2>1. Offered(t) \/ (Staged(t) /\ Built(instance, t))
    BY <1>1, Newcomer
  <2>2. ~Offered(t)
    BY <1>1 DEF Offered, Outside
  <2> QED
    BY <1>1, <2>1, <2>2 DEF Built, StatusAllows
<1>2. IInv /\ [Next]_vars =>
         [\A t \in committed' \ committed :
             t.id[2] = "start" =>
                 \/ instance.status = "running"
                 \/ instance.status = "cancelling" /\ Kind[t.id[1][1]] = "compensation"]_vars
  BY <1>1
<1> QED
  BY <1>2, StepsAgree, PTL DEF Spec, StartsOnlyWhileRunning

(* Replay takes what is welcome.                                           *)
LEMMA WelcomeRead ==
    ASSUME NEW i \in Instance, Readable(i), NEW e \in UnitEvents(Keys), Welcome(i, e)
    PROVE  Readable(Appended(i, <<e>>))
<1> DEFINE j == Apply(i, e)
<1>1. NoKey \in Keys
  BY DEF Keys
<1>2. IF i.valid /\ Timely(i, e) /\ UnitAccepts(i, e) THEN Advances(i, j, e) ELSE Breaks(i, j)
  BY <1>1, UnitEventApplied, InstanceTyped
<1>3. i.valid /\ Timely(i, e) /\ UnitAccepts(i, e)
  BY DEF Welcome, Readable, Timely
<1>4. Appended(i, <<e>>) = j
  BY AppendedOne
<1> HIDE DEF j
<1> QED
  BY <1>2, <1>3, <1>4 DEF Advances, Readable

(* It takes an audit together with the action that follows it.             *)
LEMMA AuditRead ==
    ASSUME NEW i \in Instance, Readable(i), NEW a \in InstanceEvents, a.kind = "operatorRecorded",
           a.at >= i.updatedAt, i.status \notin Terminal
    PROVE  LET m == Apply(i, a)
           IN  m \in Instance /\ Changes(i, m, a) /\ m.status = i.status
<1> DEFINE m == Apply(i, a)
<1>1. /\ m \in Instance
      /\ IF i.valid /\ Timely(i, a) /\ InstanceAccepts(i, a) THEN Changes(i, m, a) ELSE Breaks(i, m)
  BY InstanceEventApplied, InstanceTyped
<1>2. i.valid /\ Timely(i, a) /\ InstanceAccepts(i, a)
  BY DEF Readable, Timely, InstanceAccepts
<1> HIDE DEF m
<1>3. Changes(i, m, a)
  BY <1>1, <1>2
<1>4. m.status = i.status
  BY <1>3 DEF Changes, LifecycleKinds
<1> QED
  BY <1>1, <1>3, <1>4 DEF m

(* Replay takes an audit and the event about a unit it announces.          *)
LEMMA AuditedRead ==
    ASSUME NEW i \in Instance, Readable(i), NEW a \in InstanceEvents, a.kind = "operatorRecorded",
           NEW e \in UnitEvents(Keys), Welcome(i, e), Matched(a, e)
    PROVE  Readable(Appended(i, <<a, e>>))
<1> DEFINE m == Apply(i, a)
<1> DEFINE j == Apply(m, e)
<1>1. m \in Instance /\ Changes(i, m, a) /\ m.status = i.status
  BY AuditRead DEF Welcome, Matched
<1>2. NoKey \in Keys
  BY DEF Keys
<1>3. Appended(i, <<a, e>>) = j
  BY AppendedTwo
<1> HIDE DEF m
<1>4. IF m.valid /\ Timely(m, e) /\ UnitAccepts(m, e) THEN Advances(m, j, e) ELSE Breaks(m, j)
  BY <1>1, <1>2, UnitEventApplied, InstanceTyped
<1>5. m.valid /\ m.units = i.units /\ m.updatedAt = a.at /\ m.pendingOperator = a.action
  BY <1>1 DEF Changes
<1>6. a.at \in Nat
  BY DEF InstanceEvents
<1>7. Timely(m, e)
  BY <1>1, <1>5, <1>6 DEF Timely, Matched, Welcome
<1>8. UnitAccepts(m, e)
  BY <1>1, <1>5 DEF Welcome, UnitAccepts, ActivityAccepts, CompensationAccepts, ChildAccepts
<1> HIDE DEF j
<1> QED
  BY <1>3, <1>4, <1>5, <1>7, <1>8 DEF Advances, Readable

(* Replay takes an audit and the lifecycle event it announces.             *)
LEMMA LifecycleRead ==
    ASSUME NEW i \in Instance, Readable(i), NEW a \in InstanceEvents, a.kind = "operatorRecorded",
           NEW e \in InstanceEvents, e.kind \in LifecycleKinds, e.action = NoAction,
           WelcomeLifecycle(i, a, e)
    PROVE  Readable(Appended(i, <<a, e>>))
<1> DEFINE m == Apply(i, a)
<1> DEFINE j == Apply(m, e)
<1>1. m \in Instance /\ Changes(i, m, a) /\ m.status = i.status
  BY AuditRead DEF WelcomeLifecycle
<1>2. Appended(i, <<a, e>>) = j
  BY AppendedTwo
<1> HIDE DEF m
<1>3. IF m.valid /\ Timely(m, e) /\ InstanceAccepts(m, e) THEN Changes(m, j, e) ELSE Breaks(m, j)
  BY <1>1, InstanceEventApplied, InstanceTyped
<1>4. m.valid /\ m.updatedAt = a.at /\ m.pendingOperator = a.action
  BY <1>1 DEF Changes
<1>5. a.at \in Nat
  BY DEF InstanceEvents
<1>6. Timely(m, e)
  BY <1>1, <1>4, <1>5 DEF Timely, Matched, WelcomeLifecycle
<1>7. InstanceAccepts(m, e)
  BY <1>1 DEF InstanceAccepts, WelcomeLifecycle
<1> HIDE DEF j
<1> QED
  BY <1>2, <1>3, <1>4, <1>6, <1>7 DEF Changes, Readable

(* What a processor built from the instance, replay takes unless its       *)
(* constructor did not look at the instance's status.                      *)
LEMMA BuiltWelcome ==
    ASSUME NEW i \in Instance, NEW t, Staged(t), Built(i, t)
    PROVE  BlindEvent(i, First(t)) \/ Welcome(i, First(t))
<1> DEFINE e == First(t)
<1> DEFINE u == t.id[1][1]
<1>1. u \in Units /\ e.step = u /\ Kind[u] \in {"activity", "compensation", "child"}
  BY StepsApart DEF Staged, StartShape, OutcomeShape, RetryShape, Single, WorkIDs
<1>2. e.at >= i.updatedAt
  BY DEF Built
<1>3. CASE StartShape(t)
  <2>1. e.kind = "attemptStarted" /\ AttemptStarts(i.units[u], e) /\ StatusAllows(Kind[u], i.status)
    BY <1>3 DEF StartShape, Built
  <2> HIDE DEF e, u
  <2>2. Welcome(i, e)
    BY <1>1, <1>2, <2>1 DEF Welcome, StatusAllows, Terminal, UnitAccepts, ActivityAccepts,
                            CompensationAccepts, ChildAccepts
  <2> QED
    BY <2>2 DEF e
<1>4. CASE OutcomeShape(t)
  <2>1. /\ activityOutcomeAllowed(i.units[u], e)
        /\ IF Kind[u] = "child"
           THEN i.status = "running" /\ e.kind \in ChildStartOutcomeKinds
           ELSE e.kind \in OutcomeKinds
    BY <1>4 DEF OutcomeShape, Built
  <2> HIDE DEF e, u
  <2>2. BlindEvent(i, e) \/ Welcome(i, e)
    BY <1>1, <1>2, <2>1 DEF BlindEvent, Welcome, Terminal, UnitAccepts, ActivityAccepts,
                            CompensationAccepts, ChildAccepts
  <2> QED
    BY <2>2 DEF e
<1>5. CASE RetryShape(t)
  <2>1. /\ e.kind = "retryScheduled" /\ RetryFollows(i.units[u], e)
        /\ Kind[u] # "activity" => StatusAllows(Kind[u], i.status)
    BY <1>5 DEF RetryShape, Built
  <2> HIDE DEF e, u
  <2>2. BlindEvent(i, e) \/ Welcome(i, e)
    BY <1>1, <1>2, <2>1 DEF BlindEvent, Welcome, StatusAllows, Terminal, UnitAccepts,
                            ActivityAccepts, CompensationAccepts, ChildAccepts
  <2> QED
    BY <2>2 DEF e
<1> QED
  BY <1>3, <1>4, <1>5 DEF Staged

(* A transition with a blind event is a blind commit.                      *)
LEMMA BlindMain ==
    ASSUME NEW t, t.events = <<Main(t)>> \/ t.events = <<First(t), Main(t)>>,
           BlindEvent(instance, Main(t))
    PROVE  BlindCommit(t)
<1> DEFINE e == Main(t)
<1> DEFINE a == First(t)
<1>1. \E n \in 1 .. Len(t.events) : t.events[n] = e
  <2>1. t.events = <<e>> \/ t.events = <<a, e>>
    OBVIOUS
  <2> HIDE DEF e, a
  <2>2. CASE t.events = <<e>>
    BY <2>2
  <2>3. CASE t.events = <<a, e>>
    BY <2>3
  <2> QED
    BY <2>1, <2>2, <2>3
<1>2. PICK n \in 1 .. Len(t.events) : t.events[n] = e
  BY <1>1
<1> HIDE DEF e
<1> QED
  BY <1>2 DEF BlindEvent, BlindCommit, e

(* The history stays readable unless a blind transition lands: an          *)
(* activity's retry while the instance does not run, or the outcome or the *)
(* resolution of an activity or compensation after it has ended.  Every    *)
(* other constructor asks at least what apply and its helpers ask          *)
(* (history.go), and the expected sequence keeps its answer valid.         *)
THEOREM HistoryStaysReadable == Spec => HistoryBreaksOnlyBlindly
<1>1. ASSUME IInv, [Next]_vars, Readable(instance), ~Readable(instance'),
             NEW t \in committed', t \notin committed
      PROVE  BlindCommit(t)
  <2>1. Land(t) /\ (Offered(t) \/ (Staged(t) /\ Built(instance, t)))
    BY <1>1, Newcomer
  <2>2. instance' = Appended(instance, t.events)
    BY <2>1 DEF Land
  <2>3. instance \in Instance
    BY <1>1 DEF IInv, Inv, StoreFits
  <2>4. CASE Staged(t) /\ Built(instance, t)
    <3>1. t.events = <<First(t)>> /\ First(t) \in UnitEvents(Keys)
      BY <2>4 DEF Staged, StartShape, OutcomeShape, RetryShape, Single
    <3>2. Main(t) = First(t)
      BY <3>1 DEF Main
    <3>3. ~Welcome(instance, First(t))
      BY <1>1, <2>2, <2>3, <3>1, WelcomeRead
    <3> QED
      BY <2>3, <2>4, <3>1, <3>2, <3>3, BuiltWelcome, BlindMain
  <2>5. CASE Offered(t) /\ Lone(t)
    <3>1. t.events = <<First(t)>> /\ First(t) \in UnitEvents(Keys)
      BY <2>5 DEF Lone
    <3>2. Main(t) = First(t)
      BY <3>1 DEF Main
    <3>3. ~Welcome(instance, First(t))
      BY <1>1, <2>2, <2>3, <3>1, WelcomeRead
    <3>4. ~AuditedLifecycle(t)
      BY <3>1, StepsApart DEF AuditedLifecycle, Audited, InstanceEvents, UnitEvents
    <3> QED
      BY <2>5, <3>1, <3>2, <3>3, <3>4, BlindMain DEF Offered
  <2>6. CASE Offered(t) /\ AuditedUnit(t)
    <3> DEFINE a == First(t)
    <3> DEFINE e == t.events[2]
    <3>1. /\ t.events = <<a, e>> /\ a \in InstanceEvents /\ a.kind = "operatorRecorded"
          /\ e \in UnitEvents(Keys)
      BY <2>6 DEF AuditedUnit, Audited
    <3>2. Main(t) = e
      <4>1. t.events # <<First(t)>>
        BY <3>1
      <4> QED
        BY <4>1 DEF Main
    <3>3. ~AuditedLifecycle(t)
      BY <3>1, StepsApart DEF AuditedLifecycle, InstanceEvents, UnitEvents
    <3>4. Matched(a, e) /\ (BlindEvent(instance, e) \/ Welcome(instance, e))
      BY <2>6, <3>2, <3>3 DEF Offered
    <3> HIDE DEF a, e
    <3>5. ~Welcome(instance, e)
      BY <1>1, <2>2, <2>3, <3>1, <3>4, AuditedRead
    <3> QED
      BY <3>1, <3>2, <3>4, <3>5, BlindMain DEF a
  <2>7. CASE Offered(t) /\ AuditedLifecycle(t)
    <3> DEFINE a == First(t)
    <3> DEFINE e == t.events[2]
    <3>1. /\ t.events = <<a, e>> /\ a \in InstanceEvents /\ a.kind = "operatorRecorded"
          /\ e \in InstanceEvents /\ e.kind \in LifecycleKinds /\ e.action = NoAction
      BY <2>7 DEF AuditedLifecycle, Audited
    <3>2. WelcomeLifecycle(instance, a, e)
      BY <2>7 DEF Offered
    <3> HIDE DEF a, e
    <3>3. Readable(Appended(instance, <<a, e>>))
      BY <1>1, <2>3, <3>1, <3>2, LifecycleRead
    <3> QED
      BY <1>1, <2>2, <3>1, <3>3
  <2> QED
    BY <2>1, <2>4, <2>5, <2>6, <2>7 DEF Offered, Outside
<1>2. IInv /\ [Next]_vars =>
         [Readable(instance) /\ ~Readable(instance)' =>
             \A t \in committed' \ committed : BlindCommit(t)]_vars
  BY <1>1
<1> QED
  BY <1>2, StepsAgree, PTL DEF Spec, HistoryBreaksOnlyBlindly
=============================================================================
