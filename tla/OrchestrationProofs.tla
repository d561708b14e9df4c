------------------------ MODULE OrchestrationProofs ------------------------
(***************************************************************************)
(* Proofs about an orchestrated instance, for every definition that        *)
(* NewDefinition accepts, any number of attempts and pauses, and signals,  *)
(* approvals and reports in any order.                                     *)
(***************************************************************************)
EXTENDS Orchestration, DefinitionFlow, ReplayProofs

Keys == WorkIDs \cup {NoKey}

Inst == Instances(Keys, WaitProgress)

-----------------------------------------------------------------------------
(* Definitions and their steps.                                            *)

(* What the assumption on definitions says of the positions of one.        *)
LEMMA PlanFacts ==
    ASSUME NEW d \in Definitions
    PROVE  /\ DOMAIN d \subseteq Nat
           /\ Planned(d) \subseteq DOMAIN d
           /\ \A i \in DOMAIN d : d[i] \in DOMAIN Kind /\ Kind[d[i]] # "compensation"
           /\ \A i, j \in DOMAIN d : d[i] = d[j] => i = j
<1>1. Plannable(d)
  BY OrchestrationAssumption
<1>2. d \in Seq(DOMAIN Kind) /\ IsInjective(d)
  BY <1>1 DEF Plannable
<1>3. DOMAIN d \subseteq Nat /\ \A i \in DOMAIN d : d[i] \in DOMAIN Kind
  BY <1>2
<1>4. \A i \in DOMAIN d : Kind[d[i]] # "compensation"
  BY <1>1 DEF Plannable, Range
<1>5. \A i, j \in DOMAIN d : d[i] = d[j] => i = j
  BY <1>2 DEF IsInjective
<1>6. Planned(d) \subseteq DOMAIN d
  BY DEF Planned
<1> QED
  BY <1>3, <1>4, <1>5, <1>6

(* The branches of a parallel are activities; no planned step is one.      *)
LEMMA ParallelFacts ==
    ASSUME NEW d \in Definitions, NEW k \in DOMAIN d, Kind[d[k]] = "parallel"
    PROVE  /\ Branches[d[k]] \in Seq(DOMAIN Kind)
           /\ \A b \in Range(Branches[d[k]]) : b \in Units
           /\ \A i \in Planned(d) : d[i] \notin Range(Branches[d[k]])
           /\ \A i \in DOMAIN d : Kind[d[i]] = "parallel" /\ i # k =>
                 Range(Branches[d[i]]) \cap Range(Branches[d[k]]) = {}
<1>1. Plannable(d) /\ d[k] \in Range(d)
  BY OrchestrationAssumption DEF Range
<1>2. Branches[d[k]] \in Seq(DOMAIN Kind) /\ \A b \in Range(Branches[d[k]]) : Kind[b] = "activity"
  BY <1>1 DEF Plannable
<1>3. \A b \in Range(Branches[d[k]]) : b \in DOMAIN Kind
  <2> DEFINE bs == Branches[d[k]]
  <2>1. bs \in Seq(DOMAIN Kind)
    BY <1>2
  <2> HIDE DEF bs
  <2>2. \A b \in Range(bs) : b \in DOMAIN Kind
    BY <2>1 DEF Range
  <2> QED
    BY <2>2 DEF bs
<1>4. \A b \in Range(Branches[d[k]]) : b \in Units
  BY <1>2, <1>3 DEF Units, UnitKinds
<1>5. ASSUME NEW i \in Planned(d)
      PROVE  d[i] \notin Range(Branches[d[k]])
  <2>1. SUFFICES ASSUME d[i] \in Range(Branches[d[k]]) PROVE FALSE
    OBVIOUS
  <2>2. d[i] \in orchestrationBranchMembers(d)
    BY <1>1, <2>1 DEF orchestrationBranchMembers
  <2>3. orchestrationBranchLeaf(d[i])
    BY <1>2, <2>1 DEF orchestrationBranchLeaf
  <2> QED
    BY <2>2, <2>3 DEF Planned
<1>6. ASSUME NEW i \in DOMAIN d, Kind[d[i]] = "parallel", i # k
      PROVE  Range(Branches[d[i]]) \cap Range(Branches[d[k]]) = {}
  <2>1. d[i] \in Range(d) /\ d[i] # d[k]
    BY <1>6, PlanFacts DEF Range
  <2> QED
    BY <1>1, <1>6, <2>1 DEF Plannable
<1> QED
  BY <1>2, <1>4, <1>5, <1>6

(* The branches of a race are signals and approvals.                       *)
LEMMA RaceFacts ==
    ASSUME NEW d \in Definitions, NEW s \in Range(d), Kind[s] = "race"
    PROVE  /\ s \in Waits
           /\ DOMAIN Branches[s] \subseteq Nat
           /\ \A b \in Range(Branches[s]) : b \in Waits /\ Kind[b] \in {"signal", "approval"}
<1>1. Plannable(d)
  BY OrchestrationAssumption
<1>2. /\ Branches[s] \in Seq(DOMAIN Kind)
      /\ \A b \in Range(Branches[s]) : Kind[b] \in {"signal", "approval"}
  BY <1>1 DEF Plannable
<1> DEFINE bs == Branches[s]
<1>3. bs \in Seq(DOMAIN Kind)
  BY <1>2
<1>4. s \in DOMAIN Kind
  BY PlanFacts DEF Range
<1> HIDE DEF bs
<1>5. DOMAIN bs \subseteq Nat /\ \A b \in Range(bs) : b \in DOMAIN Kind
  BY <1>3 DEF Range
<1>6. \A b \in Range(bs) : b \in Waits
  BY <1>2, <1>5 DEF Waits, WaitKinds, bs
<1> QED
  BY <1>2, <1>4, <1>5, <1>6 DEF bs, Waits, WaitKinds

(* When a step is done, by its kind.                                       *)
LEMMA StepDoneValue ==
    ASSUME NEW inst, NEW s
    PROVE  /\ Kind[s] \in {"activity", "child"} =>
                 (StepDone(inst, s) <=> inst.units[s].status = "succeeded")
           /\ Kind[s] = "timer" => (StepDone(inst, s) <=> inst.waits[s].status = "fired")
           /\ Kind[s] \in {"signal", "approval"} =>
                 (StepDone(inst, s) <=> inst.waits[s].status = "received")
           /\ Kind[s] \in {"parallel", "join"} => (StepDone(inst, s) <=> BranchesSucceeded(inst, s))
           /\ Kind[s] = "race" => (StepDone(inst, s) <=> inst.waits[s].status = "won")
<1>1. ASSUME Kind[s] \in {"activity", "child"}
      PROVE  StepDone(inst, s) = (inst.units[s].status = "succeeded")
  <2>1. Kind[s] \notin {"signal", "approval", "parallel", "join", "timer", "race"}
    BY <1>1
  <2> QED
    BY <1>1, <2>1, Zenon DEF StepDone
<1>2. ASSUME Kind[s] = "timer"
      PROVE  StepDone(inst, s) = (inst.waits[s].status = "fired")
  BY <1>2, Zenon DEF StepDone
<1>3. ASSUME Kind[s] \in {"signal", "approval"}
      PROVE  StepDone(inst, s) = (inst.waits[s].status = "received")
  BY <1>3, Zenon DEF StepDone
<1>4. ASSUME Kind[s] \in {"parallel", "join"}
      PROVE  StepDone(inst, s) = BranchesSucceeded(inst, s)
  BY <1>4, Zenon DEF StepDone
<1>5. ASSUME Kind[s] = "race"
      PROVE  StepDone(inst, s) = (inst.waits[s].status = "won")
  BY <1>5, Zenon DEF StepDone
<1> QED
  BY <1>1, <1>2, <1>3, <1>4, <1>5

(* What is under way of a step, by its kind.                               *)
LEMMA BegunValue ==
    ASSUME NEW inst, NEW s
    PROVE  /\ s \in Units => (Begun(inst, s) <=> inst.units[s].status # "none")
           /\ s \notin Units /\ Kind[s] \in {"timer", "race"} =>
                 (Begun(inst, s) <=> inst.waits[s].status # "none")
           /\ s \notin Units /\ Kind[s] = "parallel" =>
                 (Begun(inst, s) <=>
                    \E b \in Range(Branches[s]) : inst.units[b].status # "none")
           /\ s \notin Units /\ Kind[s] \notin {"timer", "race", "parallel"} => ~Begun(inst, s)
<1>1. ASSUME s \in Units
      PROVE  Begun(inst, s) = (inst.units[s].status # "none")
  <2>1. Kind[s] \notin {"timer", "race"} /\ Kind[s] # "parallel"
    BY <1>1 DEF Units, UnitKinds
  <2> QED
    BY <1>1, <2>1, Zenon DEF Begun
<1>2. ASSUME s \notin Units, Kind[s] \in {"timer", "race"}
      PROVE  Begun(inst, s) = (inst.waits[s].status # "none")
  BY <1>2, Zenon DEF Begun
<1>3. ASSUME s \notin Units, Kind[s] = "parallel"
      PROVE  Begun(inst, s) = (\E b \in Range(Branches[s]) : inst.units[b].status # "none")
  BY <1>3, Zenon DEF Begun
<1>4. ASSUME s \notin Units, Kind[s] \notin {"timer", "race", "parallel"}
      PROVE  Begun(inst, s) = FALSE
  <2>1. Kind[s] \notin {"timer", "race"} /\ Kind[s] # "parallel"
    BY <1>4
  <2> QED
    BY <1>4, <2>1, Zenon DEF Begun
<1> QED
  BY <1>1, <1>2, <1>3, <1>4

-----------------------------------------------------------------------------
(* What validateDefinition accepts.                                        *)

(* The drafts NewDefinition may be given: a compensation is no step, and a *)
(* control step names its branches.                                        *)
Drafts ==
    {draft \in Seq(DOMAIN Kind) :
        \A s \in Range(draft) :
            Kind[s] # "compensation" /\ (Kind[s] \in Control => Branches[s] \in Seq(DOMAIN Kind))}

Passes ==
    [valid: BOOLEAN, owners: UNION {[D -> DOMAIN Kind] : D \in SUBSET DOMAIN Kind},
     joined: SUBSET DOMAIN Kind]

Owns(s) == Kind[s] \in {"parallel", "race"}

(* What the pass makes of one step, by its kind.                           *)
LEMMA CheckValue ==
    ASSUME NEW p, NEW s
    PROVE  /\ Owns(s) => Check(p, s) = Owning(p, s)
           /\ Kind[s] = "join" => Check(p, s) = Joining(p, s)
           /\ ~Owns(s) /\ Kind[s] # "join" => Check(p, s) = p
<1>1. ASSUME Kind[s] \in {"parallel", "race"} PROVE Check(p, s) = Owning(p, s)
  BY <1>1, Zenon DEF Check
<1>2. ASSUME Kind[s] = "join" PROVE Check(p, s) = Joining(p, s)
  <2>1. Kind[s] \notin {"parallel", "race"}
    BY <1>2
  <2> QED
    BY <1>2, <2>1, Zenon DEF Check
<1>3. ASSUME Kind[s] \notin {"parallel", "race"}, Kind[s] # "join" PROVE Check(p, s) = p
  BY <1>3, Zenon DEF Check
<1> QED
  BY <1>1, <1>2, <1>3 DEF Owns

(* A step that the pass checks adds to the owners and never makes it valid *)
(* again; one with branches of its own takes them, each for the first time *)
(* and of a kind it can have.                                              *)
LEMMA CheckKeeps ==
    ASSUME NEW p \in Passes, NEW s \in DOMAIN Kind,
           Kind[s] \in Control => Branches[s] \in Seq(DOMAIN Kind)
    PROVE  LET q == Check(p, s)
           IN  /\ q \in Passes
               /\ q.valid => p.valid
               /\ DOMAIN p.owners \subseteq DOMAIN q.owners
               /\ Owns(s) => Range(Branches[s]) \subseteq DOMAIN q.owners
               /\ Owns(s) /\ q.valid =>
                     \A b \in Range(Branches[s]) :
                         Kind[b] \in BranchKinds(s) /\ b \notin DOMAIN p.owners
<1> DEFINE q == Check(p, s)
<1> DEFINE bs == Branches[s]
<1>0. /\ p = [valid |-> p.valid, owners |-> p.owners, joined |-> p.joined]
      /\ p.valid \in BOOLEAN /\ p.joined \in SUBSET DOMAIN Kind
      /\ DOMAIN p.owners \in SUBSET DOMAIN Kind
      /\ p.owners \in [DOMAIN p.owners -> DOMAIN Kind]
  <2>1. p.owners \in UNION {[D -> DOMAIN Kind] : D \in SUBSET DOMAIN Kind}
    BY DEF Passes
  <2>2. PICK D \in SUBSET DOMAIN Kind : p.owners \in [D -> DOMAIN Kind]
    BY <2>1
  <2>3. p = [valid |-> p.valid, owners |-> p.owners, joined |-> p.joined]
    BY DEF Passes
  <2>4. p.valid \in BOOLEAN /\ p.joined \in SUBSET DOMAIN Kind
    BY DEF Passes
  <2> QED
    BY <2>2, <2>3, <2>4
<1>1. CASE Owns(s)
  <2>1. bs \in Seq(DOMAIN Kind)
    BY <1>1 DEF Owns, Control
  <2>2. Range(bs) \subseteq DOMAIN Kind
    <3> HIDE DEF bs
    <3> QED
      BY <2>1 DEF Range
  <2> DEFINE V == p.valid /\ \A b \in Range(bs) : Kind[b] \in BranchKinds(s) /\ b \notin DOMAIN p.owners
  <2> DEFINE D == DOMAIN p.owners \cup Range(bs)
  <2> DEFINE O == [b \in D |-> IF b \in Range(bs) THEN s ELSE p.owners[b]]
  <2>3. q = [p EXCEPT !.valid = V, !.owners = O]
    <3>1. q = Owning(p, s)
      BY <1>1, CheckValue
    <3>2. Owning(p, s) = [p EXCEPT !.valid = V, !.owners = O]
      BY Zenon DEF Owning
    <3> HIDE DEF q, V, O
    <3> QED
      BY <3>1, <3>2
  <2>4. O \in [D -> DOMAIN Kind] /\ D \in SUBSET DOMAIN Kind /\ V \in BOOLEAN /\ DOMAIN O = D
    BY <1>0, <2>2
  <2> HIDE DEF V, O, q
  <2>5. q = [valid |-> V, owners |-> O, joined |-> p.joined]
    BY <1>0, <2>3
  <2>6. q \in Passes
    <3>1. O \in UNION {[E -> DOMAIN Kind] : E \in SUBSET DOMAIN Kind}
      BY <2>4
    <3> QED
      BY <1>0, <2>4, <2>5, <3>1, Zenon DEF Passes
  <2>7. q.valid = V /\ q.owners = O
    BY <2>5
  <2> QED
    BY <1>1, <2>4, <2>6, <2>7 DEF V, q
<1>2. CASE Kind[s] = "join"
  <2>1. bs \in Seq(DOMAIN Kind) /\ ~Owns(s)
    BY <1>2 DEF Owns, Control
  <2>2. q = Joining(p, s)
    BY <1>2, CheckValue
  <2>3. CASE bs[1] \notin DOMAIN p.owners
    <3>1. q = [p EXCEPT !.valid = FALSE]
      BY <2>2, <2>3, Zenon DEF Joining
    <3> HIDE DEF q
    <3> DEFINE no == FALSE
    <3>2. q = [valid |-> no, owners |-> p.owners, joined |-> p.joined] /\ no \in BOOLEAN
      BY <1>0, <3>1
    <3>3. q \in Passes
      <4>1. p.owners \in UNION {[E -> DOMAIN Kind] : E \in SUBSET DOMAIN Kind}
        BY DEF Passes
      <4> HIDE DEF no
      <4> QED
        BY <1>0, <3>2, <4>1, Zenon DEF Passes
    <3>4. ~q.valid /\ q.owners = p.owners
      BY <3>2
    <3> QED
      BY <2>1, <3>3, <3>4 DEF q
  <2>4. CASE bs[1] \in DOMAIN p.owners
    <3> DEFINE o == OwnerOfFirst(p, s)
    <3> DEFINE V == /\ p.valid
                    /\ branchCount(o) = Len(bs)
                    /\ o \notin p.joined
                    /\ \A b \in Range(bs) : b \in DOMAIN p.owners /\ p.owners[b] = o
    <3> DEFINE J == p.joined \cup {o}
    <3>1. q = [p EXCEPT !.valid = V, !.joined = J]
      BY <2>2, <2>4, Zenon DEF Joining
    <3>2. o \in DOMAIN Kind
      BY <1>0, <2>4 DEF OwnerOfFirst
    <3>3. V \in BOOLEAN /\ J \in SUBSET DOMAIN Kind /\ (V => p.valid)
      BY <1>0, <3>2
    <3> HIDE DEF V, J, q
    <3>4. q = [valid |-> V, owners |-> p.owners, joined |-> J]
      BY <1>0, <3>1
    <3>5. q \in Passes
      <4>1. p.owners \in UNION {[E -> DOMAIN Kind] : E \in SUBSET DOMAIN Kind}
        BY DEF Passes
      <4> QED
        BY <3>3, <3>4, <4>1, Zenon DEF Passes
    <3>6. q.valid = V /\ q.owners = p.owners
      BY <3>4
    <3> QED
      BY <2>1, <3>3, <3>5, <3>6 DEF q
  <2> QED
    BY <2>3, <2>4
<1>3. CASE ~Owns(s) /\ Kind[s] # "join"
  <2>1. q = p
    BY <1>3, CheckValue
  <2> QED
    BY <1>3, <2>1
<1> QED
  BY <1>1, <1>2, <1>3

(* The function the pass over a draft iterates.                            *)
Passed(draft) ==
    CHOOSE g : g = [n \in 0 .. Len(draft) |->
                      IF n = 0 THEN Pass ELSE Check(g[n - 1], draft[n])]

(* The pass goes through the steps one after the other.                    *)
LEMMA PassRuns ==
    ASSUME NEW draft \in Drafts
    PROVE  LET r == Passed(draft)
           IN  /\ validateOrchestrationControlFlow(draft) = r[Len(draft)].valid
               /\ r[0] \in Passes
               /\ \A n \in Nat : n < Len(draft) => r[n + 1] = Check(r[n], draft[n + 1])
<1> DEFINE N == Len(draft)
<1> DEFINE Solves(h) == h = [n \in 0 .. N |-> IF n = 0 THEN Pass ELSE Check(h[n - 1], draft[n])]
<1>1. /\ N \in Nat
      /\ \A n \in Nat : n < N =>
            /\ draft[n + 1] \in DOMAIN Kind
            /\ Kind[draft[n + 1]] \in Control => Branches[draft[n + 1]] \in Seq(DOMAIN Kind)
  BY DEF Drafts, Range
<1>2. Pass \in Passes
  <2> DEFINE yes == TRUE
  <2> DEFINE o == <<>>
  <2> DEFINE none == {}
  <2>1. Pass = [valid |-> yes, owners |-> o, joined |-> none]
    BY DEF Pass
  <2>2. o \in [{} -> DOMAIN Kind] /\ {} \in SUBSET DOMAIN Kind
    OBVIOUS
  <2>3. /\ yes \in BOOLEAN /\ none \in SUBSET DOMAIN Kind
        /\ o \in UNION {[E -> DOMAIN Kind] : E \in SUBSET DOMAIN Kind}
    BY <2>2
  <2> HIDE DEF yes, o, none
  <2> QED
    BY <2>1, <2>3, Zenon DEF Passes
<1> DEFINE next == [n \in Nat |-> [p \in Passes |-> IF n < N THEN Check(p, draft[n + 1]) ELSE p]]
<1>3. next \in [Nat -> [Passes -> Passes]]
  <2>1. ASSUME NEW n \in Nat, NEW p \in Passes, n < N
        PROVE  Check(p, draft[n + 1]) \in Passes
    <3> DEFINE s == draft[n + 1]
    <3>1. s \in DOMAIN Kind /\ (Kind[s] \in Control => Branches[s] \in Seq(DOMAIN Kind))
      BY <1>1, <2>1
    <3> HIDE DEF s
    <3>2. Check(p, s) \in Passes
      BY <3>1, CheckKeeps
    <3> QED
      BY <3>2 DEF s
  <2> QED
    BY <2>1
<1>4. PICK f : Iterates(f, Passes, Pass, next)
  <2> HIDE DEF next
  <2> QED
    BY <1>2, <1>3, Recursion
<1>5. /\ f[0] = Pass
      /\ \A n \in Nat : n < N => f[n + 1] = Check(f[n], draft[n + 1])
  <2>1. f \in [Nat -> Passes] /\ f[0] = Pass /\ \A n \in Nat : f[n + 1] = next[n][f[n]]
    BY <1>4 DEF Iterates
  <2>2. ASSUME NEW n \in Nat, n < N
        PROVE  f[n + 1] = Check(f[n], draft[n + 1])
    <3>1. f[n] \in Passes
      BY <2>1
    <3> QED
      BY <2>1, <2>2, <3>1
  <2> QED
    BY <2>1, <2>2
<1> DEFINE g == [n \in 0 .. N |-> f[n]]
<1>6. Solves(g)
  <2>1. ASSUME NEW n \in 0 .. N
        PROVE  g[n] = IF n = 0 THEN Pass ELSE Check(g[n - 1], draft[n])
    <3>1. CASE n = 0
      BY <1>1, <1>5, <3>1
    <3>2. CASE n # 0
      <4>1. n - 1 \in 0 .. N /\ n - 1 \in Nat /\ n - 1 < N /\ (n - 1) + 1 = n
        BY <1>1, <3>2
      <4>2. f[(n - 1) + 1] = Check(f[n - 1], draft[(n - 1) + 1])
        BY <1>5, <4>1
      <4> QED
        BY <3>2, <4>1, <4>2
    <3> QED
      BY <3>1, <3>2
  <2>2. g = [n \in 0 .. N |-> g[n]]
    OBVIOUS
  <2> HIDE DEF g
  <2> QED
    BY <2>1, <2>2
<1> DEFINE r == Passed(draft)
<1>7. Solves(r)
  <2>1. r = CHOOSE h : Solves(h)
    BY DEF Passed
  <2> HIDE DEF Solves, g, r
  <2> QED
    BY <1>6, <2>1
<1>8. validateOrchestrationControlFlow(draft) = r[N].valid
  BY DEF validateOrchestrationControlFlow, Passed
<1> HIDE DEF r
<1>9. r[0] = Pass
  BY <1>1, <1>7
<1>10. ASSUME NEW n \in Nat, n < N
       PROVE  r[n + 1] = Check(r[n], draft[n + 1])
  <2>1. n + 1 \in 0 .. N /\ n + 1 # 0 /\ (n + 1) - 1 = n
    BY <1>1, <1>10
  <2>2. r[n + 1] = IF n + 1 = 0 THEN Pass ELSE Check(r[(n + 1) - 1], draft[n + 1])
    BY <1>7, <2>1
  <2> QED
    BY <2>1, <2>2
<1> QED
  BY <1>2, <1>8, <1>9, <1>10 DEF r

(* Every definition that NewDefinition accepts is one the planner can work *)
(* with: whatever its steps, a parallel forks into activities of its own   *)
(* and a race is among signals and approvals (validateDefinition and       *)
(* validateOrchestrationControlFlow).  This is what the theorems below     *)
(* assume of definitions.                                                  *)
THEOREM AcceptedIsPlannable ==
    ASSUME NEW draft \in Drafts, validateDefinition(draft)
    PROVE  Plannable(draft)
<1> DEFINE N == Len(draft)
<1> DEFINE r == Passed(draft)
<1>0. /\ draft \in Seq(DOMAIN Kind) /\ IsInjective(draft)
      /\ \A s \in Range(draft) :
            Kind[s] # "compensation" /\ (Kind[s] \in Control => Branches[s] \in Seq(DOMAIN Kind))
  BY DEF Drafts, validateDefinition
<1>1. /\ r[N].valid
      /\ r[0] \in Passes
      /\ \A n \in Nat : n < N => r[n + 1] = Check(r[n], draft[n + 1])
  BY PassRuns DEF validateDefinition
<1>2. /\ N \in Nat
      /\ DOMAIN draft = 1 .. N
      /\ \A n \in 1 .. N : draft[n] \in DOMAIN Kind /\ draft[n] \in Range(draft)
  BY <1>0 DEF Range
<1> HIDE DEF N, r
<1> DEFINE Takes(n, i) ==
        /\ Range(Branches[draft[i]]) \subseteq DOMAIN r[n].owners
        /\ \A b \in Range(Branches[draft[i]]) : Kind[b] \in BranchKinds(draft[i])
        /\ \A j \in 1 .. n : Owns(draft[j]) /\ j # i =>
              Range(Branches[draft[j]]) \cap Range(Branches[draft[i]]) = {}
<1> DEFINE Kept(n) == /\ r[n] \in Passes
                      /\ r[n].valid => \A i \in 1 .. n : Owns(draft[i]) => Takes(n, i)
<1> DEFINE P == {n \in Nat : n <= N => Kept(n)}
<1>3. 0 \in P
  BY <1>1
<1>4. ASSUME NEW n \in Nat, n \in P
      PROVE  n + 1 \in P
  <2> SUFFICES ASSUME n + 1 <= N PROVE Kept(n + 1)
    OBVIOUS
  <2>1. n <= N /\ n < N /\ Kept(n) /\ n + 1 \in 1 .. N
    <3>1. n <= N => Kept(n)
      BY <1>4
    <3> HIDE DEF Kept, P
    <3>2. n <= N /\ n < N /\ n + 1 \in 1 .. N
      BY <1>2
    <3> QED
      BY <3>1, <3>2
  <2> DEFINE p == r[n]
  <2> DEFINE q == r[n + 1]
  <2> DEFINE s == draft[n + 1]
  <2>2. q = Check(p, s) /\ p \in Passes /\ s \in DOMAIN Kind
    BY <1>1, <1>2, <2>1
  <2>3. Kind[s] \in Control => Branches[s] \in Seq(DOMAIN Kind)
    BY <1>0, <1>2, <2>1
  <2>4. /\ q \in Passes
        /\ q.valid => p.valid
        /\ DOMAIN p.owners \subseteq DOMAIN q.owners
        /\ Owns(s) => Range(Branches[s]) \subseteq DOMAIN q.owners
        /\ Owns(s) /\ q.valid =>
              \A b \in Range(Branches[s]) : Kind[b] \in BranchKinds(s) /\ b \notin DOMAIN p.owners
    BY <2>2, <2>3, CheckKeeps
  <2>5. ASSUME q.valid, NEW i \in 1 .. n + 1, Owns(draft[i])
        PROVE  Takes(n + 1, i)
    <3>1. \A j \in 1 .. n : Owns(draft[j]) => Takes(n, j)
      BY <2>1, <2>4, <2>5
    <3>2. \A j \in 1 .. n + 1 : j = n + 1 \/ j \in 1 .. n
      OBVIOUS
    <3>3. \A j \in 1 .. n : Owns(draft[j]) /\ Owns(s) =>
              Range(Branches[draft[j]]) \cap Range(Branches[s]) = {}
      BY <2>4, <2>5, <3>1
    <3>4. CASE i = n + 1
      <4>1. Range(Branches[s]) \subseteq DOMAIN q.owners /\ \A b \in Range(Branches[s]) : Kind[b] \in BranchKinds(s)
        BY <2>4, <2>5, <3>4
      <4> QED
        BY <2>5, <3>2, <3>3, <3>4, <4>1
    <3>5. CASE i \in 1 .. n
      <4>1. Takes(n, i)
        BY <2>5, <3>1, <3>5
      <4>2. Range(Branches[draft[i]]) \subseteq DOMAIN q.owners
        BY <2>4, <4>1
      <4>3. ASSUME NEW j \in 1 .. n + 1, Owns(draft[j]), j # i
            PROVE  Range(Branches[draft[j]]) \cap Range(Branches[draft[i]]) = {}
        <5>1. CASE j = n + 1
          BY <2>5, <3>3, <3>5, <4>3, <5>1
        <5>2. CASE j \in 1 .. n
          BY <4>1, <4>3, <5>2
        <5> QED
          BY <3>2, <5>1, <5>2
      <4> QED
        BY <4>1, <4>2, <4>3
    <3> QED
      BY <3>2, <3>4, <3>5
  <2> HIDE DEF Takes
  <2> QED
    BY <2>4, <2>5
<1>5. Kept(N)
  <2>1. N \in P
    <3> HIDE DEF P
    <3> QED
      BY <1>2, <1>3, <1>4, SetInduction
  <2> QED
    BY <1>2, <2>1
<1>6. \A i \in 1 .. N : Owns(draft[i]) => Takes(N, i)
  BY <1>1, <1>5
<1>7. ASSUME NEW s \in Range(draft)
      PROVE  /\ Kind[s] # "compensation"
             /\ Kind[s] \in {"parallel", "race"} => Branches[s] \in Seq(DOMAIN Kind)
             /\ Kind[s] = "parallel" => \A b \in Range(Branches[s]) : Kind[b] = "activity"
             /\ Kind[s] = "race" => \A b \in Range(Branches[s]) : Kind[b] \in {"signal", "approval"}
  <2>1. PICK i \in 1 .. N : draft[i] = s
    BY <1>2 DEF Range
  <2>2. Owns(s) => \A b \in Range(Branches[s]) : Kind[b] \in BranchKinds(s)
    BY <1>6, <2>1
  <2> QED
    BY <1>0, <2>2 DEF Owns, Control, BranchKinds
<1>8. ASSUME NEW s \in Range(draft), NEW t \in Range(draft),
             Kind[s] = "parallel", Kind[t] = "parallel", s # t
      PROVE  Range(Branches[s]) \cap Range(Branches[t]) = {}
  <2>1. PICK i \in 1 .. N, j \in 1 .. N : draft[i] = s /\ draft[j] = t
    BY <1>2 DEF Range
  <2>2. Owns(draft[i]) /\ Owns(draft[j]) /\ i # j
    BY <1>8, <2>1 DEF Owns
  <2>3. Takes(N, j)
    BY <1>6, <2>2
  <2> QED
    BY <2>1, <2>2, <2>3
<1> QED
  BY <1>0, <1>7, <1>8 DEF Plannable

-----------------------------------------------------------------------------
(* What one event may do to an instance, and what is true of it.           *)

Final == {"fired", "received", "won"}

(* Nothing that is known is lost from inst to j, and what has ended is     *)
(* left as it is.                                                          *)
Grows(inst, j) ==
    /\ j.updatedAt >= inst.updatedAt
    /\ inst.status \in Terminal =>
          j.status = inst.status /\ j.units = inst.units /\ j.waits = inst.waits
    /\ \A u \in Units : inst.units[u].status = "succeeded" => j.units[u].status = "succeeded"
    /\ \A s \in Waits : inst.waits[s].status \in Final => j.waits[s] = inst.waits[s]

(* The wait s goes from p to q: a signal comes, a timer of S is set, a     *)
(* timer fires.                                                            *)
WaitMoves(inst, j, s, S) ==
    LET p == inst.waits[s]
        q == j.waits[s]
    IN  \/ q = p
        \/ /\ q.status = "received"
           /\ p.status = "none"
           /\ Kind[s] \in {"signal", "approval"}
           /\ q.at >= inst.updatedAt
           /\ q.at <= j.updatedAt
        \/ q.status = "fired" /\ p.status = "waiting"
        \/ q.status = "waiting" /\ s \in S

(* A step from inst to j by which at most the steps of S begin, no race is *)
(* decided and no verdict given.                                           *)
Moves(inst, j, S) ==
    /\ j \in Inst
    /\ Grows(inst, j)
    /\ j.status \in {"completed", "failed"} => j.status = inst.status
    /\ \A u \in Units \ S : inst.units[u].status = "none" => j.units[u].status = "none"
    /\ \A s \in Waits : WaitMoves(inst, j, s, S)

(* A signal has come by the time of the last event.                        *)
Heard(inst) ==
    \A s \in Waits : inst.waits[s].status = "received" => inst.waits[s].at <= inst.updatedAt

(* A race that is decided is one of the definition, and was won by the     *)
(* earliest of its signals.                                                *)
Decided(inst, d) ==
    \A s \in Waits :
        inst.waits[s].status = "won" =>
            /\ Kind[s] = "race"
            /\ s \in Range(d)
            /\ inst.waits[s].winner \in Range(Branches[s])
            /\ inst.waits[inst.waits[s].winner].status = "received"
            /\ \A b \in Range(Branches[s]) :
                  inst.waits[b].status = "received" =>
                      inst.waits[inst.waits[s].winner].at <= inst.waits[b].at

Ordered(inst, d) ==
    \A i, k \in Planned(d) : i < k /\ Begun(inst, d[k]) => StepDone(inst, d[i])

Verdict(inst, d) ==
    /\ inst.status = "completed" => \A i \in Planned(d) : StepDone(inst, d[i])
    /\ inst.status = "failed" =>
          \E u \in Units : FinalFailure(inst.units[u]) \/ inst.units[u].status = "childFailed"

Good(inst, d) ==
    /\ inst \in Inst
    /\ Heard(inst)
    /\ Decided(inst, d)
    /\ Ordered(inst, d)
    /\ Verdict(inst, d)

(* What is done stays done.                                                *)
LEMMA DoneStays ==
    ASSUME NEW inst, NEW j, Grows(inst, j), NEW s \in DOMAIN Kind, Kind[s] # "compensation",
           StepDone(inst, s)
    PROVE  StepDone(j, s)
<1>1. CASE Kind[s] \in {"activity", "child"}
  <2>1. s \in Units
    BY <1>1 DEF Units, UnitKinds
  <2> QED
    BY <1>1, <2>1, StepDoneValue DEF Grows
<1>2. CASE Kind[s] \in {"timer", "signal", "approval", "race"}
  <2>1. s \in Waits
    BY <1>2 DEF Waits, WaitKinds
  <2>2. inst.waits[s].status \in Final /\ (StepDone(j, s) <=> j.waits[s].status = inst.waits[s].status)
    BY <1>2, StepDoneValue DEF Final
  <2> QED
    BY <2>1, <2>2 DEF Grows
<1>3. CASE Kind[s] \in {"parallel", "join"}
  <2>1. BranchesSucceeded(inst, s)
    BY <1>3, StepDoneValue
  <2>2. BranchesSucceeded(j, s)
    BY <2>1 DEF BranchesSucceeded, Grows
  <2> QED
    BY <1>3, <2>2, StepDoneValue
<1> QED
  BY <1>1, <1>2, <1>3, KindAssumption DEF UnitKinds, WaitKinds, ControlKinds

(* The step s, or a branch of it, is in S.                                 *)
Touches(S, s) == s \in S \/ (Kind[s] = "parallel" /\ \E b \in Range(Branches[s]) : b \in S)

(* Whatever S touches in the definition, the steps before it are done.     *)
Cleared(inst, d, S) ==
    \A i, k \in Planned(d) : i < k /\ Touches(S, d[k]) => StepDone(inst, d[i])

(* From inst to j no unit, timer or race begins that is not in S.          *)
Begins(inst, j, S) ==
    /\ \A u \in Units \ S : inst.units[u].status = "none" => j.units[u].status = "none"
    /\ \A s \in Waits \ S :
          Kind[s] \in {"timer", "race"} /\ inst.waits[s].status = "none" =>
              j.waits[s].status = "none"

(* Steps begin no others than those of S.                                  *)
LEMMA MovesBegin ==
    ASSUME NEW inst, NEW j, NEW S, Moves(inst, j, S)
    PROVE  Begins(inst, j, S)
<1> SUFFICES ASSUME NEW s \in Waits \ S, Kind[s] \in {"timer", "race"},
                    inst.waits[s].status = "none"
             PROVE  j.waits[s].status = "none"
  BY DEF Begins, Moves
<1>1. WaitMoves(inst, j, s, S)
  BY DEF Moves
<1> QED
  BY <1>1 DEF WaitMoves

(* A step of the definition has begun before, or S touches it.             *)
LEMMA BeginsOnly ==
    ASSUME NEW inst, NEW j, NEW S, Begins(inst, j, S), NEW d \in Definitions,
           NEW k \in DOMAIN d, Begun(j, d[k])
    PROVE  Begun(inst, d[k]) \/ Touches(S, d[k])
<1> DEFINE s == d[k]
<1>1. s \in DOMAIN Kind
  BY PlanFacts
<1>2. CASE s \in Units
  BY <1>2, BegunValue DEF Begins, Touches
<1>3. CASE s \notin Units /\ Kind[s] \in {"timer", "race"}
  <2>1. s \in Waits
    BY <1>1, <1>3 DEF Waits, WaitKinds
  <2>2. j.waits[s].status # "none"
    BY <1>3, BegunValue
  <2>3. inst.waits[s].status # "none" \/ s \in S
    BY <1>3, <2>1, <2>2 DEF Begins
  <2> QED
    BY <1>3, <2>3, BegunValue DEF Touches
<1>4. CASE s \notin Units /\ Kind[s] = "parallel"
  <2>1. PICK b \in Range(Branches[s]) : j.units[b].status # "none"
    BY <1>4, BegunValue
  <2>2. b \in Units
    BY <1>4, ParallelFacts
  <2>3. b \in S \/ inst.units[b].status # "none"
    BY <2>1, <2>2 DEF Begins
  <2> QED
    BY <1>4, <2>1, <2>3, BegunValue DEF Touches
<1> QED
  BY <1>2, <1>3, <1>4, BegunValue

(* Steps stay in order when the steps before those that begin are done.    *)
LEMMA OrderStays ==
    ASSUME NEW d \in Definitions, NEW inst, NEW j, Ordered(inst, d), Grows(inst, j), NEW S,
           Begins(inst, j, S), Cleared(inst, d, S)
    PROVE  Ordered(j, d)
<1> SUFFICES ASSUME NEW i \in Planned(d), NEW k \in Planned(d), i < k, Begun(j, d[k])
             PROVE  StepDone(j, d[i])
  BY DEF Ordered
<1>1. i \in DOMAIN d /\ k \in DOMAIN d /\ d[i] \in DOMAIN Kind /\ Kind[d[i]] # "compensation"
  BY PlanFacts
<1>2. Begun(inst, d[k]) \/ Touches(S, d[k])
  BY <1>1, BeginsOnly
<1>3. StepDone(inst, d[i])
  BY <1>2 DEF Ordered, Cleared
<1> QED
  BY <1>1, <1>3, DoneStays

(* What has been cleared stays cleared.                                    *)
LEMMA ClearedStays ==
    ASSUME NEW inst, NEW j, Grows(inst, j), NEW d \in Definitions, NEW S, Cleared(inst, d, S)
    PROVE  Cleared(j, d, S)
<1> SUFFICES ASSUME NEW i \in Planned(d), NEW k \in Planned(d), i < k, Touches(S, d[k])
             PROVE  StepDone(j, d[i])
  BY DEF Cleared
<1>1. StepDone(inst, d[i])
  BY DEF Cleared
<1>2. d[i] \in DOMAIN Kind /\ Kind[d[i]] # "compensation"
  BY PlanFacts
<1> QED
  BY <1>1, <1>2, DoneStays

(* Steps keep the order, the verdict and the winners.                      *)
LEMMA MovesGood ==
    ASSUME NEW d \in Definitions, NEW inst, Good(inst, d), NEW j, NEW S, Moves(inst, j, S),
           Cleared(inst, d, S)
    PROVE  Good(j, d)
<1>0. inst \in Inst /\ j \in Inst /\ Grows(inst, j)
  BY DEF Good, Moves
<1>1. \A i \in Planned(d) : i \in DOMAIN d /\ d[i] \in DOMAIN Kind /\ Kind[d[i]] # "compensation"
  BY PlanFacts
<1>t. /\ inst.updatedAt \in Nat /\ j.updatedAt \in Nat
      /\ \A s \in Waits : inst.waits[s].at \in Nat /\ j.waits[s].at \in Nat
  BY <1>0 DEF Inst, Instances, WaitProgress
<1>2. Heard(j)
  <2> SUFFICES ASSUME NEW s \in Waits, j.waits[s].status = "received"
               PROVE  j.waits[s].at <= j.updatedAt
    BY DEF Heard
  <2>1. WaitMoves(inst, j, s, S)
    BY DEF Moves
  <2>2. CASE j.waits[s] = inst.waits[s]
    BY <1>0, <1>t, <2>2 DEF Good, Heard, Grows
  <2>3. CASE j.waits[s] # inst.waits[s]
    BY <2>1, <2>3 DEF WaitMoves
  <2> QED
    BY <2>2, <2>3
<1>3. Decided(j, d)
  <2> SUFFICES ASSUME NEW s \in Waits, j.waits[s].status = "won"
               PROVE  /\ Kind[s] = "race"
                      /\ s \in Range(d)
                      /\ j.waits[s].winner \in Range(Branches[s])
                      /\ j.waits[j.waits[s].winner].status = "received"
                      /\ \A b \in Range(Branches[s]) :
                            j.waits[b].status = "received" =>
                                j.waits[j.waits[s].winner].at <= j.waits[b].at
    BY DEF Decided
  <2>1. j.waits[s] = inst.waits[s]
    <3>1. WaitMoves(inst, j, s, S)
      BY DEF Moves
    <3> QED
      BY <3>1 DEF WaitMoves
  <2> DEFINE w == inst.waits[s].winner
  <2>2. /\ Kind[s] = "race" /\ s \in Range(d) /\ w \in Range(Branches[s])
        /\ inst.waits[w].status = "received"
        /\ \A b \in Range(Branches[s]) :
              inst.waits[b].status = "received" => inst.waits[w].at <= inst.waits[b].at
    BY <2>1 DEF Good, Decided
  <2>3. \A b \in Range(Branches[s]) : b \in Waits
    BY <2>2, RaceFacts
  <2> HIDE DEF w
  <2>4. j.waits[w] = inst.waits[w] /\ inst.waits[w].at <= inst.updatedAt /\ w \in Waits
    BY <1>0, <2>2, <2>3 DEF Grows, Final, Good, Heard
  <2>5. ASSUME NEW b \in Range(Branches[s]), j.waits[b].status = "received"
        PROVE  j.waits[w].at <= j.waits[b].at
    <3>1. b \in Waits
      BY <2>3
    <3>2. WaitMoves(inst, j, b, S)
      BY <3>1 DEF Moves
    <3>3. CASE j.waits[b] = inst.waits[b]
      BY <2>2, <2>4, <2>5, <3>3
    <3>4. CASE j.waits[b] # inst.waits[b]
      <4>1. j.waits[b].at >= inst.updatedAt
        BY <2>5, <3>2, <3>4 DEF WaitMoves
      <4> QED
        BY <1>t, <2>4, <3>1, <4>1
    <3> QED
      BY <3>3, <3>4
  <2> QED
    BY <2>1, <2>2, <2>4, <2>5 DEF w
<1>4. Ordered(j, d)
  BY <1>0, OrderStays, MovesBegin DEF Good
<1>5. Verdict(j, d)
  <2>1. CASE j.status = "completed"
    <3>1. \A i \in Planned(d) : StepDone(inst, d[i])
      BY <2>1 DEF Moves, Good, Verdict
    <3>2. \A i \in Planned(d) : StepDone(j, d[i])
      BY <1>0, <1>1, <3>1, DoneStays
    <3> QED
      BY <2>1, <3>2 DEF Verdict
  <2>2. CASE j.status = "failed"
    <3>1. inst.status = "failed" /\ j.units = inst.units
      BY <1>0, <2>2 DEF Moves, Grows, Terminal
    <3> QED
      BY <2>2, <3>1 DEF Good, Verdict
  <2> QED
    BY <2>1, <2>2 DEF Verdict
<1> QED
  BY <1>0, <1>2, <1>3, <1>4, <1>5 DEF Good

-----------------------------------------------------------------------------
(* Events, one at a time.                                                  *)

(* A history that can be read has been extended by one event, which leaves *)
(* the action x to follow.                                                 *)
Counted(inst, j, x) ==
    j.valid => inst.valid /\ j.sequence = inst.sequence + 1 /\ j.pendingOperator = x

(* An event that replay rejects makes the history unreadable and changes   *)
(* nothing else.                                                           *)
LEMMA RejectedMoves ==
    ASSUME NEW inst \in Inst, NEW e, ~(inst.valid /\ Accepts(inst, e)), NEW S, NEW x
    PROVE  LET j == Apply(inst, e)
           IN  Moves(inst, j, S) /\ Counted(inst, j, x) /\ ~j.valid
<1> DEFINE j == Apply(inst, e)
<1>1. j = [inst EXCEPT !.valid = FALSE]
  BY DEF Apply
<1> HIDE DEF j
<1>2. /\ j \in Inst /\ ~j.valid /\ j.status = inst.status /\ j.units = inst.units
      /\ j.waits = inst.waits /\ j.updatedAt = inst.updatedAt /\ inst.updatedAt \in Nat
  BY <1>1 DEF Inst, Instances
<1>3. Moves(inst, j, S)
  BY <1>2 DEF Moves, Grows, WaitMoves
<1> QED
  BY <1>2, <1>3 DEF Counted, j

(* Events about units: at most their unit begins, and only when it is      *)
(* scheduled.                                                              *)
LEMMA UnitEventMoves ==
    ASSUME NEW inst \in Inst, NEW e \in UnitEvents(Keys), NEW S, e.kind = "scheduled" => e.step \in S
    PROVE  Moves(inst, Apply(inst, e), S) /\ Counted(inst, Apply(inst, e), NoAction)
<1> DEFINE j == Apply(inst, e)
<1> DEFINE u == e.step
<1>1. u \in Units /\ e.at \in Nat
  BY DEF UnitEvents
<1>2. CASE ~(inst.valid /\ Accepts(inst, e))
  BY <1>2, RejectedMoves
<1>3. CASE inst.valid /\ Accepts(inst, e)
  <2>1. Timely(inst, e) /\ UnitAccepts(inst, e)
    BY <1>1, <1>3, AcceptsUnit
  <2>2. j \in Inst /\ j.waits = inst.waits /\ Advances(inst, j, e)
    <3>1. NoKey \in Keys
      BY DEF Keys
    <3> QED
      BY <1>3, <2>1, <3>1, UnitEventApplied DEF Inst
  <2> HIDE DEF j
  <2>3. /\ j.status = inst.status /\ j.updatedAt >= inst.updatedAt /\ inst.status \notin Terminal
        /\ Move(Kind[u], inst.units[u], j.units[u], e)
        /\ \A v \in Units : v # u => j.units[v] = inst.units[v]
    BY <2>1, <2>2 DEF Advances, Timely
  <2> DEFINE p == inst.units[u]
  <2> DEFINE q == j.units[u]
  <2>4. /\ p.status = "succeeded" => q.status = "succeeded"
        /\ p.status = "none" => q.status = "none" \/ e.kind = "scheduled"
    <3>1. Move(Kind[u], p, q, e)
      BY <2>3
    <3> HIDE DEF p, q
    <3> QED
      BY <3>1 DEF Move, Scheduling, Starting, Ending, Activating, Retrying, Resolving, Reporting,
                  AttemptStarts, activityOutcomeAllowed, RetryFollows, childTerminalOutcomeAllowed
  <2>5. Grows(inst, j)
    BY <2>2, <2>3, <2>4 DEF Grows
  <2>6. \A v \in Units \ S : inst.units[v].status = "none" => j.units[v].status = "none"
    BY <2>3, <2>4
  <2>7. Moves(inst, j, S)
    BY <2>2, <2>3, <2>5, <2>6 DEF Moves, WaitMoves
  <2>8. Counted(inst, j, NoAction)
    BY <2>2 DEF Advances, Counted
  <2> QED
    BY <2>7, <2>8 DEF j
<1> QED
  BY <1>2, <1>3

(* Events about the instance that give no verdict.                         *)
LEMMA InstanceEventMoves ==
    ASSUME NEW inst \in Inst, NEW e \in InstanceEvents,
           e.kind \notin {"instanceCompleted", "instanceFailed"}, NEW S
    PROVE  Moves(inst, Apply(inst, e), S) /\ Counted(inst, Apply(inst, e), e.action)
<1> DEFINE j == Apply(inst, e)
<1>1. e.step = "" /\ e.at \in Nat
  BY DEF InstanceEvents
<1>2. CASE ~(inst.valid /\ Accepts(inst, e))
  BY <1>2, RejectedMoves
<1>3. CASE inst.valid /\ Accepts(inst, e)
  <2>1. Timely(inst, e) /\ InstanceAccepts(inst, e)
    BY <1>1, <1>3, AcceptsInstance
  <2>2. j \in Inst /\ j.waits = inst.waits /\ Changes(inst, j, e)
    BY <1>3, <2>1, InstanceEventApplied DEF Inst
  <2> HIDE DEF j
  <2>3. /\ j.updatedAt >= inst.updatedAt /\ inst.status \notin Terminal /\ j.units = inst.units
        /\ j.status = IF e.kind \in LifecycleKinds THEN LifecycleTo[e.kind] ELSE inst.status
    BY <2>1, <2>2 DEF Changes, Timely
  <2>4. j.status \notin {"completed", "failed"}
    <3>1. inst.status \notin {"completed", "failed"}
      BY <2>3 DEF Terminal
    <3>2. \A k \in LifecycleKinds \ {"instanceCompleted", "instanceFailed"} :
              LifecycleTo[k] \notin {"completed", "failed"}
      BY DEF LifecycleKinds, LifecycleTo
    <3> QED
      BY <2>3, <3>1, <3>2
  <2>5. Moves(inst, j, S)
    BY <2>2, <2>3, <2>4 DEF Moves, Grows, WaitMoves
  <2>6. Counted(inst, j, e.action)
    BY <2>2 DEF Changes, Counted
  <2> QED
    BY <2>5, <2>6 DEF j
<1> QED
  BY <1>2, <1>3

WaitEvents ==
    [kind: {"timerScheduled", "timerFired", "signalReceived", "raceWon"}, at: Nat, step: Waits,
     attempt: {0}, key: Waits \cup {NoKey}, dueAt: Nat, retryable: {FALSE}, action: {NoAction}]

(* What replay asks of an event about a wait.                              *)
LEMMA AcceptsWait ==
    ASSUME NEW inst, NEW e, e.step \in Waits
    PROVE  Accepts(inst, e) <=>
               /\ Timely(inst, e)
               /\ SignalAccepts(inst, e) \/ TimerAccepts(inst, e) \/ RaceAccepts(inst, e)
<1>1. e.step \notin Units
  BY StepsApart
<1> QED
  BY <1>1, Zenon DEF Accepts, Timely

(* applyWait by kinds of events.                                           *)
LEMMA WaitApplied ==
    ASSUME NEW e
    PROVE  /\ e.kind = "timerScheduled" =>
                 applyWait(e) = [status |-> "waiting", at |-> e.dueAt, winner |-> NoKey]
           /\ e.kind = "timerFired" =>
                 applyWait(e) = [status |-> "fired", at |-> e.at, winner |-> NoKey]
           /\ e.kind = "signalReceived" =>
                 applyWait(e) = [status |-> "received", at |-> e.at, winner |-> NoKey]
           /\ e.kind = "raceWon" =>
                 applyWait(e) = [status |-> "won", at |-> e.at, winner |-> e.key]
<1> DEFINE put(x, t) == [NoWait EXCEPT !.status = x, !.at = t]
<1>0. ASSUME NEW x, NEW t
      PROVE  put(x, t) = [status |-> x, at |-> t, winner |-> NoKey]
  <2> DEFINE zero == 0
  <2> DEFINE none == "none"
  <2> DEFINE b == NoWait
  <2> DEFINE f == [b EXCEPT !.status = x]
  <2>1. b = [status |-> none, at |-> zero, winner |-> NoKey]
    BY DEF NoWait
  <2> HIDE DEF zero, none, b
  <2>2. f = [status |-> x, at |-> zero, winner |-> NoKey]
    BY <2>1
  <2>3. put(x, t) = [f EXCEPT !.at = t]
    BY DEF b
  <2> HIDE DEF f
  <2> QED
    BY <2>2, <2>3
<1>1. ASSUME e.kind = "timerScheduled" PROVE applyWait(e) = put("waiting", e.dueAt)
  BY <1>1, Zenon DEF applyWait
<1>2. ASSUME e.kind = "timerFired" PROVE applyWait(e) = put("fired", e.at)
  BY <1>2, Zenon DEF applyWait
<1>3. ASSUME e.kind = "signalReceived" PROVE applyWait(e) = put("received", e.at)
  BY <1>3, Zenon DEF applyWait
<1>4. ASSUME e.kind = "raceWon"
      PROVE  applyWait(e) = [status |-> "won", at |-> e.at, winner |-> e.key]
  BY <1>4, Zenon DEF applyWait
<1> HIDE DEF put
<1> QED
  BY <1>0, <1>1, <1>2, <1>3, <1>4

(* The event e, about a wait, takes inst to j.                             *)
Notes(inst, j, e) ==
    /\ inst.valid
    /\ j.valid
    /\ j.status = inst.status
    /\ j.sequence = inst.sequence + 1
    /\ j.updatedAt = e.at
    /\ j.pendingOperator = NoAction
    /\ j.units = inst.units
    /\ j.waits = [inst.waits EXCEPT ![e.step] = applyWait(e)]

(* An accepted event about a wait is noted.                                *)
LEMMA WaitEventApplied ==
    ASSUME NEW inst \in Inst, NEW e \in WaitEvents, inst.valid, Accepts(inst, e)
    PROVE  Apply(inst, e) \in Inst /\ Notes(inst, Apply(inst, e), e)
<1> DEFINE s == e.step
<1> DEFINE j == Apply(inst, e)
<1> DEFINE q == applyWait(e)
<1>1. s \in Waits /\ s \notin Units /\ e.kind \notin LifecycleKinds /\ e.action = NoAction
  BY StepsApart DEF WaitEvents, LifecycleKinds
<1>2. q \in WaitProgress
  <2>1. e.at \in Nat /\ e.dueAt \in Nat /\ e.key \in Waits \cup {NoKey}
    BY DEF WaitEvents
  <2>2. e.kind \in {"timerScheduled", "timerFired", "signalReceived", "raceWon"}
    BY DEF WaitEvents
  <2> HIDE DEF q
  <2>3. \E x \in WaitStatuses, t \in Nat, w \in Waits \cup {NoKey} :
            q = [status |-> x, at |-> t, winner |-> w]
    BY <2>1, <2>2, WaitApplied DEF WaitStatuses, q
  <2> QED
    BY <2>3 DEF WaitProgress
<1>3. j = [inst EXCEPT !.sequence = @ + 1, !.updatedAt = e.at, !.pendingOperator = NoAction,
                       !.status = inst.status, !.units = inst.units,
                       !.waits = [inst.waits EXCEPT ![s] = q]]
  BY <1>1 DEF Apply
<1>4. DOMAIN inst = {"valid", "status", "sequence", "updatedAt", "pendingOperator",
                     "units", "waits"}
  BY DEF Inst, Instances
<1> HIDE DEF j, s, q
<1>5. /\ j.valid = inst.valid /\ j.status = inst.status /\ j.sequence = inst.sequence + 1
      /\ j.updatedAt = e.at /\ j.pendingOperator = NoAction /\ j.units = inst.units
      /\ j.waits = [inst.waits EXCEPT ![s] = q]
  BY <1>3, <1>4
<1>6. j \in Inst
  <2>1. [inst.waits EXCEPT ![s] = q] \in [Waits -> WaitProgress]
    BY <1>1, <1>2 DEF Inst, Instances
  <2>2. e.at \in Nat
    BY DEF WaitEvents
  <2>3. j = [valid |-> j.valid, status |-> j.status, sequence |-> j.sequence,
             updatedAt |-> j.updatedAt, pendingOperator |-> j.pendingOperator,
             units |-> j.units, waits |-> j.waits]
    BY <1>3, <1>4
  <2>4. /\ j.valid \in BOOLEAN /\ j.status \in Statuses /\ j.sequence \in Nat
        /\ j.updatedAt \in Nat /\ j.pendingOperator \in {NoAction} \cup DOMAIN operatorEventKind
        /\ j.units \in [Units -> Progresses(Keys)] /\ j.waits \in [Waits -> WaitProgress]
    BY <1>5, <2>1, <2>2 DEF Inst, Instances
  <2> QED
    BY <2>3, <2>4, Zenon DEF Inst, Instances
<1>7. Notes(inst, j, e)
  BY <1>5 DEF Notes, s, q
<1> QED
  BY <1>6, <1>7 DEF j

(* Events about waits that decide no race: a signal comes, a timer of S is *)
(* set, a timer fires.                                                     *)
LEMMA WaitEventMoves ==
    ASSUME NEW inst \in Inst, NEW e \in WaitEvents, e.kind # "raceWon", NEW S,
           e.kind = "timerScheduled" => e.step \in S
    PROVE  Moves(inst, Apply(inst, e), S) /\ Counted(inst, Apply(inst, e), NoAction)
<1> DEFINE j == Apply(inst, e)
<1> DEFINE s == e.step
<1>1. s \in Waits /\ e.at \in Nat
  BY DEF WaitEvents
<1>2. CASE ~(inst.valid /\ Accepts(inst, e))
  BY <1>2, RejectedMoves
<1>3. CASE inst.valid /\ Accepts(inst, e)
  <2>1. /\ Timely(inst, e)
        /\ SignalAccepts(inst, e) \/ TimerAccepts(inst, e) \/ RaceAccepts(inst, e)
    BY <1>1, <1>3, AcceptsWait
  <2>2. j \in Inst /\ Notes(inst, j, e)
    BY <1>3, WaitEventApplied
  <2> HIDE DEF j
  <2>3. /\ j.status = inst.status /\ j.updatedAt = e.at /\ e.at >= inst.updatedAt
        /\ inst.status \notin Terminal /\ j.units = inst.units
        /\ j.waits[s] = applyWait(e)
        /\ \A v \in Waits : v # s => j.waits[v] = inst.waits[v]
    BY <1>1, <2>1, <2>2 DEF Notes, Timely, Inst, Instances
  <2>4. WaitMoves(inst, j, s, S) /\ inst.waits[s].status \notin Final
    <3>1. CASE SignalAccepts(inst, e)
      BY <1>1, <2>3, <3>1, WaitApplied DEF SignalAccepts, WaitMoves, Final
    <3>2. CASE TimerAccepts(inst, e)
      BY <1>1, <2>3, <3>2, WaitApplied DEF TimerAccepts, WaitMoves, Final
    <3>3. CASE RaceAccepts(inst, e)
      BY <3>3 DEF RaceAccepts
    <3> QED
      BY <2>1, <3>1, <3>2, <3>3
  <2>5. \A v \in Waits : WaitMoves(inst, j, v, S)
    BY <2>3, <2>4 DEF WaitMoves
  <2>6. Grows(inst, j)
    BY <2>3, <2>4 DEF Grows
  <2>7. Moves(inst, j, S)
    <3>1. j.status \in {"completed", "failed"} => j.status = inst.status
      BY <2>3
    <3> QED
      BY <2>2, <2>3, <2>5, <2>6, <3>1 DEF Moves
  <2>8. Counted(inst, j, NoAction)
    BY <2>2 DEF Notes, Counted
  <2> QED
    BY <2>7, <2>8 DEF j
<1> QED
  BY <1>2, <1>3

-----------------------------------------------------------------------------
(* The events only the planner commits.                                    *)

(* The end of an instance.                                                 *)
LEMMA VerdictGood ==
    ASSUME NEW d \in Definitions, NEW inst, Good(inst, d), NEW at \in Nat,
           NEW kind \in {"instanceCompleted", "instanceFailed"},
           kind = "instanceCompleted" => \A i \in Planned(d) : StepDone(inst, d[i]),
           kind = "instanceFailed" =>
               \E u \in Units : FinalFailure(inst.units[u]) \/ inst.units[u].status = "childFailed"
    PROVE  LET j == Apply(inst, Event(kind, at))
           IN  Good(j, d) /\ Counted(inst, j, NoAction)
<1> DEFINE e == Event(kind, at)
<1> DEFINE j == Apply(inst, e)
<1>0. inst \in Inst
  BY DEF Good
<1>1. e \in InstanceEvents /\ e.kind = kind /\ e.at = at /\ e.action = NoAction /\ e.step = ""
  <2>1. kind \in LifecycleKinds
    BY DEF LifecycleKinds
  <2>2. e \in InstanceEvents /\ e.kind = kind /\ e.at = at /\ e.action = NoAction
    BY <2>1, LifecycleEventTyped
  <2> QED
    BY <2>2 DEF InstanceEvents
<1> HIDE DEF e
<1>2. CASE ~(inst.valid /\ Accepts(inst, e))
  <2>1. Moves(inst, j, {}) /\ Counted(inst, j, NoAction)
    BY <1>0, <1>2, RejectedMoves
  <2>2. Cleared(inst, d, {})
    BY DEF Cleared, Touches
  <2>3. Good(j, d)
    <3> HIDE DEF j
    <3> QED
      BY <2>1, <2>2, MovesGood
  <2> QED
    BY <2>1, <2>3 DEF e
<1>3. CASE inst.valid /\ Accepts(inst, e)
  <2>1. Timely(inst, e) /\ InstanceAccepts(inst, e)
    BY <1>1, <1>3, AcceptsInstance
  <2>2. j \in Inst /\ j.waits = inst.waits /\ Changes(inst, j, e)
    BY <1>0, <1>1, <1>3, <2>1, InstanceEventApplied DEF Inst
  <2> HIDE DEF j
  <2>3. /\ j.updatedAt >= inst.updatedAt /\ inst.status \notin Terminal /\ j.units = inst.units
        /\ j.status = IF kind = "instanceCompleted" THEN "completed" ELSE "failed"
    <3>1. kind \in LifecycleKinds /\ LifecycleTo[kind] = IF kind = "instanceCompleted" THEN "completed" ELSE "failed"
      BY DEF LifecycleKinds, LifecycleTo
    <3> QED
      BY <1>1, <2>1, <2>2, <3>1 DEF Changes, Timely
  <2>4. Grows(inst, j)
    BY <2>2, <2>3 DEF Grows
  <2>5. Begins(inst, j, {}) /\ Cleared(inst, d, {})
    BY <2>2, <2>3 DEF Begins, Cleared, Touches
  <2>6. Ordered(j, d)
    BY <2>4, <2>5, OrderStays DEF Good
  <2>7. Heard(j)
    <3>1. inst.updatedAt \in Nat /\ j.updatedAt \in Nat /\ \A s \in Waits : inst.waits[s].at \in Nat
      BY <1>0, <2>2 DEF Inst, Instances, WaitProgress
    <3> QED
      BY <2>2, <2>3, <3>1 DEF Good, Heard
  <2>8. Decided(j, d)
    BY <2>2 DEF Good, Decided
  <2>9. Verdict(j, d)
    <3>1. CASE kind = "instanceCompleted"
      <4>1. \A i \in Planned(d) : d[i] \in DOMAIN Kind /\ Kind[d[i]] # "compensation"
        BY PlanFacts
      <4>2. \A i \in Planned(d) : StepDone(j, d[i])
        BY <2>4, <3>1, <4>1, DoneStays
      <4> QED
        BY <2>3, <3>1, <4>2 DEF Verdict
    <3>2. CASE kind = "instanceFailed"
      BY <2>3, <3>2 DEF Verdict
    <3> QED
      BY <3>1, <3>2
  <2>10. Counted(inst, j, NoAction)
    BY <1>1, <2>2 DEF Changes, Counted
  <2> QED
    BY <2>2, <2>6, <2>7, <2>8, <2>9, <2>10 DEF Good, j, e
<1> QED
  BY <1>2, <1>3

(* Of the signals of a race that have come, the winner is an earliest one. *)
LEMMA WinnerValue ==
    ASSUME NEW inst \in Inst, NEW branches, DOMAIN branches \subseteq Nat,
           \A b \in Range(branches) : b \in Waits,
           \E b \in Range(branches) : inst.waits[b].status = "received"
    PROVE  LET w == Winner(inst, branches)
           IN  /\ w \in Range(branches)
               /\ inst.waits[w].status = "received"
               /\ \A b \in Range(branches) :
                     inst.waits[b].status = "received" => inst.waits[w].at <= inst.waits[b].at
<1> DEFINE received == {i \in DOMAIN branches : inst.waits[branches[i]].status = "received"}
<1> DEFINE at(i) == inst.waits[branches[i]].at
<1> DEFINE Leads(i) == \A j \in received : at(i) < at(j) \/ (at(i) = at(j) /\ i <= j)
<1> DEFINE first == CHOOSE i \in received : Leads(i)
<1>1. Winner(inst, branches) = branches[first]
  BY DEF Winner
<1>2. received # {} /\ received \subseteq Nat /\ \A i \in received : at(i) \in Nat
  <2>1. \A s \in Waits : inst.waits[s].at \in Nat
    BY DEF Inst, Instances, WaitProgress
  <2> QED
    BY <2>1 DEF Range
<1>3. \E i \in received : Leads(i)
  <2> DEFINE T == {at(i) : i \in received}
  <2>1. T \in SUBSET Nat /\ T # {}
    BY <1>2
  <2>2. PICK t \in T : \A n \in T : t <= n
    <3> HIDE DEF T
    <3> QED
      BY <2>1, LeastNatural
  <2> DEFINE U == {i \in received : at(i) = t}
  <2>3. U \in SUBSET Nat /\ U # {}
    BY <1>2, <2>2
  <2>4. PICK i \in U : \A n \in U : i <= n
    <3> HIDE DEF U
    <3> QED
      BY <2>3, LeastNatural
  <2>5. ASSUME NEW j \in received
        PROVE  at(i) < at(j) \/ (at(i) = at(j) /\ i <= j)
    <3>1. at(i) = t /\ t <= at(j) /\ at(j) \in Nat /\ t \in Nat
      BY <1>2, <2>1, <2>2, <2>4
    <3>2. CASE at(j) = t
      <4>1. j \in U
        BY <3>2
      <4> QED
        BY <2>4, <3>1, <3>2, <4>1
    <3>3. CASE at(j) # t
      <4> DEFINE x == at(j)
      <4> HIDE DEF x
      <4>1. t < x
        BY <3>1, <3>3 DEF x
      <4> QED
        BY <3>1, <4>1 DEF x
    <3> QED
      BY <3>2, <3>3
  <2> QED
    BY <2>4, <2>5
<1>4. first \in received /\ Leads(first)
  <2> HIDE DEF received, Leads
  <2> QED
    BY <1>3
<1> HIDE DEF first
<1>5. ASSUME NEW b \in Range(branches), inst.waits[b].status = "received"
      PROVE  at(first) <= inst.waits[b].at
  <2>1. PICK j \in DOMAIN branches : branches[j] = b
    BY DEF Range
  <2>2. j \in received
    BY <1>5, <2>1
  <2>3. at(first) < at(j) \/ at(first) = at(j)
    BY <1>4, <2>2
  <2>4. at(first) \in Nat /\ at(j) \in Nat
    BY <1>2, <1>4, <2>2
  <2> HIDE DEF at
  <2>5. at(first) <= at(j)
    BY <2>3, <2>4
  <2> QED
    BY <2>1, <2>5 DEF at
<1> QED
  BY <1>1, <1>4, <1>5 DEF Range

(* The decision of a race: its event names an earliest signal, and what    *)
(* comes later is no earlier.                                              *)
LEMMA RaceGood ==
    ASSUME NEW d \in Definitions, NEW inst, Good(inst, d), NEW s \in Range(d), Kind[s] = "race",
           Cleared(inst, d, {s}), NEW e \in WaitEvents, e.kind = "raceWon", e.step = s,
           e.key = Winner(inst, Branches[s]),
           \E b \in Range(Branches[s]) : inst.waits[b].status = "received"
    PROVE  Good(Apply(inst, e), d) /\ Counted(inst, Apply(inst, e), NoAction)
<1> DEFINE j == Apply(inst, e)
<1> DEFINE w == Winner(inst, Branches[s])
<1>0. inst \in Inst /\ e.at \in Nat
  BY DEF Good, WaitEvents
<1>1. /\ s \in Waits
      /\ DOMAIN Branches[s] \subseteq Nat
      /\ \A b \in Range(Branches[s]) : b \in Waits /\ Kind[b] \in {"signal", "approval"}
  BY RaceFacts
<1>2. /\ w \in Range(Branches[s])
      /\ inst.waits[w].status = "received"
      /\ \A b \in Range(Branches[s]) :
            inst.waits[b].status = "received" => inst.waits[w].at <= inst.waits[b].at
  BY <1>0, <1>1, WinnerValue
<1> HIDE DEF w
<1>3. CASE ~(inst.valid /\ Accepts(inst, e))
  <2>1. Moves(inst, j, {}) /\ Counted(inst, j, NoAction)
    BY <1>0, <1>3, RejectedMoves
  <2>2. Cleared(inst, d, {})
    BY DEF Cleared, Touches
  <2>3. Good(j, d)
    <3> HIDE DEF j
    <3> QED
      BY <2>1, <2>2, MovesGood
  <2> QED
    BY <2>1, <2>3
<1>4. CASE inst.valid /\ Accepts(inst, e)
  <2>1. Timely(inst, e) /\ RaceAccepts(inst, e)
    <3>1. ~SignalAccepts(inst, e) /\ ~TimerAccepts(inst, e)
      BY DEF SignalAccepts, TimerAccepts
    <3> QED
      BY <1>1, <1>4, <3>1, AcceptsWait
  <2>2. j \in Inst /\ Notes(inst, j, e)
    BY <1>0, <1>4, WaitEventApplied
  <2> HIDE DEF j
  <2>3. /\ j.status = inst.status /\ j.updatedAt = e.at /\ e.at >= inst.updatedAt
        /\ inst.status \notin Terminal /\ j.units = inst.units
        /\ j.waits[s] = applyWait(e)
        /\ \A v \in Waits : v # s => j.waits[v] = inst.waits[v]
    BY <1>0, <1>1, <2>1, <2>2 DEF Notes, Timely, Inst, Instances
  <2>4. j.waits[s].status = "won" /\ j.waits[s].winner = w
    BY <2>3, WaitApplied DEF w
  <2>5. inst.waits[s].status = "none"
    BY <2>1 DEF RaceAccepts
  <2>6. Grows(inst, j)
    BY <2>3, <2>5 DEF Grows, Final
  <2>7. Begins(inst, j, {s})
    BY <2>3 DEF Begins
  <2>8. Ordered(j, d)
    BY <2>6, <2>7, OrderStays DEF Good
  <2>9. Heard(j)
    <3>1. inst.updatedAt \in Nat /\ j.updatedAt \in Nat /\ \A v \in Waits : inst.waits[v].at \in Nat
      BY <1>0, <2>2 DEF Inst, Instances, WaitProgress
    <3> QED
      BY <2>3, <2>4, <3>1 DEF Good, Heard
  <2>10. \A v \in Waits : \A b \in Range(Branches[v]) :
            v \in Range(d) /\ Kind[v] = "race" => b \in Waits /\ b # s /\ j.waits[b] = inst.waits[b]
    BY <2>3, RaceFacts
  <2>11. Decided(j, d)
    <3> SUFFICES ASSUME NEW v \in Waits, j.waits[v].status = "won"
                 PROVE  /\ Kind[v] = "race"
                        /\ v \in Range(d)
                        /\ j.waits[v].winner \in Range(Branches[v])
                        /\ j.waits[j.waits[v].winner].status = "received"
                        /\ \A b \in Range(Branches[v]) :
                              j.waits[b].status = "received" =>
                                  j.waits[j.waits[v].winner].at <= j.waits[b].at
      BY DEF Decided
    <3>1. CASE v = s
      <4>1. \A b \in Range(Branches[s]) : j.waits[b] = inst.waits[b]
        BY <1>1, <2>10
      <4> QED
        BY <1>2, <2>4, <3>1, <4>1
    <3>2. CASE v # s
      <4>1. j.waits[v] = inst.waits[v]
        BY <2>3, <3>2
      <4>2. /\ Kind[v] = "race" /\ v \in Range(d) /\ inst.waits[v].winner \in Range(Branches[v])
            /\ inst.waits[inst.waits[v].winner].status = "received"
            /\ \A b \in Range(Branches[v]) :
                  inst.waits[b].status = "received" =>
                      inst.waits[inst.waits[v].winner].at <= inst.waits[b].at
        BY <4>1 DEF Good, Decided
      <4>3. \A b \in Range(Branches[v]) : j.waits[b] = inst.waits[b]
        BY <2>10, <4>2
      <4> QED
        BY <4>1, <4>2, <4>3
    <3> QED
      BY <3>1, <3>2
  <2>12. Verdict(j, d)
    BY <2>3 DEF Verdict, Terminal
  <2>13. Counted(inst, j, NoAction)
    BY <2>2 DEF Notes, Counted
  <2> QED
    BY <2>2, <2>8, <2>9, <2>11, <2>12, <2>13 DEF Good, j
<1> QED
  BY <1>3, <1>4

-----------------------------------------------------------------------------
(* The events of one transition.                                           *)

(* Replay of the events after inst leaves all well, and when the history   *)
(* can still be read it has all of them and no audit left open.            *)
Sound(inst, events, d) ==
    LET j == Appended(inst, events)
    IN  /\ Len(events) \in Nat
        /\ Good(j, d)
        /\ j.valid =>
              /\ inst.valid
              /\ j.sequence = inst.sequence + Len(events)
              /\ j.pendingOperator = NoAction

(* A transition of one event.                                              *)
LEMMA SoundOne ==
    ASSUME NEW inst, NEW d, NEW e, Good(Apply(inst, e), d), Counted(inst, Apply(inst, e), NoAction)
    PROVE  Sound(inst, <<e>>, d)
<1> DEFINE j == Apply(inst, e)
<1>1. Appended(inst, <<e>>) = j
  BY AppendedOne
<1>2. Len(<<e>>) = 1
  OBVIOUS
<1>3. Good(j, d) /\ Counted(inst, j, NoAction)
  OBVIOUS
<1> HIDE DEF j
<1> QED
  BY <1>1, <1>2, <1>3 DEF Sound, Counted

(* A transition of two events, the first of which may be an audit.         *)
LEMMA SoundTwo ==
    ASSUME NEW inst, inst.sequence \in Nat, NEW d, NEW e, NEW f, NEW x,
           Counted(inst, Apply(inst, e), x),
           Good(Apply(Apply(inst, e), f), d),
           Counted(Apply(inst, e), Apply(Apply(inst, e), f), NoAction)
    PROVE  Sound(inst, <<e, f>>, d)
<1> DEFINE i == Apply(inst, e)
<1> DEFINE j == Apply(i, f)
<1>1. Appended(inst, <<e, f>>) = j
  BY AppendedTwo
<1>2. Len(<<e, f>>) = 2
  OBVIOUS
<1>3. Good(j, d) /\ Counted(inst, i, x) /\ Counted(i, j, NoAction)
  OBVIOUS
<1> HIDE DEF i, j
<1>4. j.valid => inst.valid /\ j.sequence = inst.sequence + 2 /\ j.pendingOperator = NoAction
  BY <1>3 DEF Counted
<1> QED
  BY <1>1, <1>2, <1>3, <1>4 DEF Sound

(* Events about units can be replayed one after the other, however many    *)
(* there are.                                                              *)
LEMMA ReplayRuns ==
    ASSUME NEW inst \in Inst, NEW events \in Seq(UnitEvents(Keys))
    PROVE  LET r == Replayed(inst, events)
           IN  /\ r[0] = inst
               /\ \A n \in Nat : n < Len(events) => r[n + 1] = Apply(r[n], events[n + 1])
<1> DEFINE N == Len(events)
<1> DEFINE Solves(h) == h = [n \in 0 .. N |-> IF n = 0 THEN inst ELSE Apply(h[n - 1], events[n])]
<1>1. N \in Nat /\ \A n \in Nat : n < N => events[n + 1] \in UnitEvents(Keys)
  OBVIOUS
<1> DEFINE next == [n \in Nat |-> [i \in Inst |-> IF n < N THEN Apply(i, events[n + 1]) ELSE i]]
<1>2. next \in [Nat -> [Inst -> Inst]]
  <2>1. ASSUME NEW n \in Nat, NEW i \in Inst, n < N
        PROVE  Apply(i, events[n + 1]) \in Inst
    <3> DEFINE e == events[n + 1]
    <3>1. e \in UnitEvents(Keys)
      BY <1>1, <2>1
    <3> HIDE DEF e
    <3>2. e.kind = "scheduled" => e.step \in {e.step}
      OBVIOUS
    <3>3. Moves(i, Apply(i, e), {e.step})
      BY <3>1, <3>2, UnitEventMoves
    <3> QED
      BY <3>3 DEF Moves, e
  <2> QED
    BY <2>1
<1>3. PICK f : Iterates(f, Inst, inst, next)
  <2> HIDE DEF next
  <2> QED
    BY <1>2, Recursion
<1>4. /\ f[0] = inst
      /\ \A n \in Nat : f[n] \in Inst
      /\ \A n \in Nat : n < N => f[n + 1] = Apply(f[n], events[n + 1])
  <2>1. f \in [Nat -> Inst] /\ f[0] = inst /\ \A n \in Nat : f[n + 1] = next[n][f[n]]
    BY <1>3 DEF Iterates
  <2>2. ASSUME NEW n \in Nat, n < N
        PROVE  f[n + 1] = Apply(f[n], events[n + 1])
    <3>1. f[n] \in Inst
      BY <2>1
    <3> QED
      BY <2>1, <2>2, <3>1
  <2> QED
    BY <2>1, <2>2
<1> DEFINE g == [n \in 0 .. N |-> f[n]]
<1>5. Solves(g)
  <2>1. ASSUME NEW n \in 0 .. N
        PROVE  g[n] = IF n = 0 THEN inst ELSE Apply(g[n - 1], events[n])
    <3>1. CASE n = 0
      BY <1>1, <1>4, <3>1
    <3>2. CASE n # 0
      <4>1. n - 1 \in 0 .. N /\ n - 1 \in Nat /\ n - 1 < N /\ (n - 1) + 1 = n
        BY <1>1, <3>2
      <4>2. f[(n - 1) + 1] = Apply(f[n - 1], events[(n - 1) + 1])
        BY <1>4, <4>1
      <4> QED
        BY <3>2, <4>1, <4>2
    <3> QED
      BY <3>1, <3>2
  <2>2. g = [n \in 0 .. N |-> g[n]]
    OBVIOUS
  <2> HIDE DEF g
  <2> QED
    BY <2>1, <2>2
<1> DEFINE r == Replayed(inst, events)
<1>6. Solves(r)
  <2>1. r = CHOOSE h : Solves(h)
    BY DEF Replayed
  <2> HIDE DEF Solves, g, r
  <2> QED
    BY <1>5, <2>1
<1> HIDE DEF r
<1>7. r[0] = inst
  BY <1>1, <1>6
<1>8. ASSUME NEW n \in Nat, n < N
      PROVE  r[n + 1] = Apply(r[n], events[n + 1])
  <2>1. n + 1 \in 0 .. N /\ n + 1 # 0 /\ (n + 1) - 1 = n
    BY <1>1, <1>8
  <2>2. r[n + 1] = IF n + 1 = 0 THEN inst ELSE Apply(r[(n + 1) - 1], events[n + 1])
    BY <1>6, <2>1
  <2> QED
    BY <2>1, <2>2
<1> QED
  BY <1>7, <1>8 DEF r

(* A transition of events about units of S, when S may begin.              *)
LEMMA SoundMany ==
    ASSUME NEW d \in Definitions, NEW inst, Good(inst, d),
           inst.valid => inst.pendingOperator = NoAction,
           NEW S, Cleared(inst, d, S),
           NEW events \in Seq(UnitEvents(Keys)), \A n \in DOMAIN events : events[n].step \in S
    PROVE  Sound(inst, events, d)
<1> DEFINE N == Len(events)
<1> DEFINE r == Replayed(inst, events)
<1>0. inst \in Inst /\ inst.sequence \in Nat
  BY DEF Good, Inst, Instances
<1>1. /\ r[0] = inst
      /\ \A n \in Nat : n < N => r[n + 1] = Apply(r[n], events[n + 1])
  BY <1>0, ReplayRuns
<1>2. /\ N \in Nat
      /\ \A n \in Nat : n < N => events[n + 1] \in UnitEvents(Keys) /\ events[n + 1].step \in S
  OBVIOUS
<1>3. Appended(inst, events) = r[N]
  BY AppendedIndexed
<1> HIDE DEF r, N
<1> DEFINE Well(n) == /\ Good(r[n], d)
                      /\ Cleared(r[n], d, S)
                      /\ r[n].valid => /\ inst.valid
                                       /\ r[n].sequence = inst.sequence + n
                                       /\ r[n].pendingOperator = NoAction
<1> DEFINE P == {n \in Nat : n <= N => Well(n)}
<1>4. 0 \in P
  BY <1>0, <1>1
<1>5. ASSUME NEW n \in Nat, n \in P
      PROVE  n + 1 \in P
  <2> SUFFICES ASSUME n + 1 <= N PROVE Well(n + 1)
    OBVIOUS
  <2>1. n <= N /\ n < N /\ Well(n)
    BY <1>2, <1>5
  <2> DEFINE i == r[n]
  <2> DEFINE e == events[n + 1]
  <2> DEFINE j == Apply(i, e)
  <2>2. r[n + 1] = j /\ e \in UnitEvents(Keys) /\ e.step \in S
    BY <1>1, <1>2, <2>1
  <2>3. Good(i, d) /\ Cleared(i, d, S) /\ i \in Inst
    BY <2>1 DEF Good
  <2> HIDE DEF e, i
  <2>4. Moves(i, j, S) /\ Counted(i, j, NoAction)
    BY <2>2, <2>3, UnitEventMoves
  <2> HIDE DEF j
  <2>5. Good(j, d)
    BY <2>3, <2>4, MovesGood
  <2>6. Cleared(j, d, S)
    BY <2>3, <2>4, ClearedStays DEF Moves
  <2>7. j.valid => inst.valid /\ j.sequence = inst.sequence + (n + 1) /\ j.pendingOperator = NoAction
    <3> SUFFICES ASSUME j.valid
                 PROVE  inst.valid /\ j.sequence = inst.sequence + (n + 1) /\ j.pendingOperator = NoAction
      OBVIOUS
    <3>1. i.valid /\ j.sequence = i.sequence + 1 /\ j.pendingOperator = NoAction
      BY <2>4 DEF Counted
    <3>2. inst.valid /\ i.sequence = inst.sequence + n
      BY <2>1, <3>1 DEF i
    <3> QED
      BY <1>0, <3>1, <3>2
  <2> QED
    BY <2>2, <2>5, <2>6, <2>7
<1>6. N \in P
  <2> HIDE DEF P
  <2> QED
    BY <1>2, <1>4, <1>5, SetInduction
<1>7. Well(N)
  BY <1>2, <1>6
<1> QED
  BY <1>2, <1>3, <1>7 DEF Sound, N

-----------------------------------------------------------------------------
(* Commits.                                                                *)

(* A history that can be read has no audit left open and is as long as the *)
(* instance's row says.                                                    *)
Synced == instance.valid => instance.pendingOperator = NoAction /\ instance.sequence = sequence

(* Handlers run for the work of units only.                                *)
Called == sequence > 0 /\ \A w \in WorkIDs : calls[w] # 0 => w[1] \in Units

(* What holds in every state: the types, the row and the history in step,  *)
(* and all that is said of the instance.                                   *)
IInv == TypeOK /\ Synced /\ Called /\ Good(instance, definition)

(* The instance's type is replay's.                                        *)
LEMMA InstanceTyped ==
    Inst = [valid: BOOLEAN, status: Statuses, sequence: Nat, updatedAt: Nat,
            pendingOperator: {NoAction} \cup DOMAIN operatorEventKind,
            units: [Units -> Progress], waits: [Waits -> WaitProgress]]
  BY DEF Inst, Instances, Progresses, Progress, Keys

(* Work comes with its times.                                              *)
Dated(pending) == \A k \in pending : k.available \in Nat /\ k.deadline \in Nat

(* The statements that insert and dispose of rows keep them rows.          *)
LEMMA RowsStay ==
    /\ \A a, b \in Nat : InsertedRow(a, b) \in Row
    /\ \A row \in Row : CompletedRow(row) \in Row /\ DeadLetteredRow(row) \in Row
<1>1. ASSUME NEW a \in Nat, NEW b \in Nat
      PROVE  InsertedRow(a, b) \in Row
  BY DEF InsertedRow, AbsentRow, Row, RowStates, NoTime
<1>2. ASSUME NEW row \in Row
      PROVE  CompletedRow(row) \in Row /\ DeadLetteredRow(row) \in Row
  BY DEF CompletedRow, DeadLetteredRow, Released, Row, RowStates, NoTime
<1> QED
  BY <1>1, <1>2

(* A commit of sound events keeps everything.                              *)
LEMMA LandHolds ==
    ASSUME IInv, NEW t, NEW done, Land(t, done), Sound(instance, t.events, definition),
           Dated(t.work), now' = now, definition' = definition,
           \A w \in WorkIDs :
               calls'[w] \in {0, calls[w]} \/ (w[1] \in Units /\ calls'[w] = sequence'),
           DOMAIN calls' = WorkIDs, calls' = [w \in WorkIDs |-> calls'[w]]
    PROVE  IInv'
<1> DEFINE j == Appended(instance, t.events)
<1> DEFINE n == Len(t.events)
<1>0. /\ now \in Nat /\ definition \in Definitions /\ sequence \in Nat
      /\ work \in [WorkIDs -> Row] /\ calls \in [WorkIDs -> 0 .. sequence]
  BY DEF IInv, TypeOK
<1>1. sequence' = sequence + n /\ instance' = j
  BY DEF Land
<1>2. /\ n \in Nat
      /\ Good(j, definition)
      /\ j.valid => instance.valid /\ j.sequence = instance.sequence + n /\ j.pendingOperator = NoAction
  BY DEF Sound
<1> HIDE DEF j, n
<1>3. sequence' \in Nat /\ sequence <= sequence'
  BY <1>0, <1>1, <1>2
<1>4. Synced'
  BY <1>0, <1>1, <1>2 DEF IInv, Synced
<1>5. Good(instance', definition')
  BY <1>1, <1>2
<1>6. instance' \in Inst
  BY <1>5 DEF Good
<1>7. calls' \in [WorkIDs -> 0 .. sequence']
  <2>1. ASSUME NEW w \in WorkIDs
        PROVE  calls'[w] \in 0 .. sequence'
    <3>1. calls[w] \in 0 .. sequence
      BY <1>0
    <3> QED
      BY <1>0, <1>3, <3>1
  <2> QED
    BY <2>1
<1>8. work' \in [WorkIDs -> Row]
  <2> DEFINE Row2(w) == CASE \E k \in t.work : k.id = w ->
                               LET k == CHOOSE k \in t.work : k.id = w
                               IN  InsertedRow(k.available, k.deadline)
                          [] w \in done -> CompletedRow(work[w])
                          [] OTHER      -> work[w]
  <2>1. work' = [w \in WorkIDs |-> Row2(w)]
    BY DEF Land
  <2>2. ASSUME NEW w \in WorkIDs
        PROVE  Row2(w) \in Row
    <3>1. work[w] \in Row
      BY <1>0
    <3> DEFINE k == CHOOSE k \in t.work : k.id = w
    <3>2. ASSUME \E x \in t.work : x.id = w
          PROVE  InsertedRow(k.available, k.deadline) \in Row
      <4>1. k \in t.work
        BY <3>2
      <4> HIDE DEF k
      <4> QED
        BY <4>1, RowsStay DEF Dated
    <3>3. CompletedRow(work[w]) \in Row
      BY <3>1, RowsStay
    <3> DEFINE x == InsertedRow(k.available, k.deadline)
    <3> DEFINE y == CompletedRow(work[w])
    <3> DEFINE z == work[w]
    <3> DEFINE A == \E k2 \in t.work : k2.id = w
    <3> DEFINE B == w \in done
    <3>4. Row2(w) = CASE A -> x [] B -> y [] OTHER -> z
      BY Zenon
    <3>5. /\ A => x \in Row
          /\ y \in Row
          /\ z \in Row
      BY <3>1, <3>2, <3>3
    <3> HIDE DEF x, y, z, A, B, Row2
    <3> QED
      BY <3>4, <3>5
  <2> HIDE DEF Row2
  <2> QED
    BY <2>1, <2>2
<1>c. Called'
  <2>1. sequence > 0 /\ \A w \in WorkIDs : calls[w] # 0 => w[1] \in Units
    BY DEF IInv, Called
  <2>2. sequence' > 0
    BY <1>0, <1>3, <2>1
  <2>3. \A w \in WorkIDs : calls'[w] # 0 => w[1] \in Units
    BY <2>1
  <2> QED
    BY <2>2, <2>3 DEF Called
<1>9. TypeOK'
  <2>1. now' \in Nat /\ definition' \in Definitions
    BY <1>0
  <2>2. instance'.valid /\ instance'.pendingOperator = NoAction => instance'.sequence = sequence'
    BY <1>4 DEF Synced
  <2> QED
    BY <1>3, <1>6, <1>7, <1>8, <2>1, <2>2, InstanceTyped DEF TypeOK, Readable
<1> QED
  BY <1>4, <1>5, <1>9, <1>c DEF IInv

-----------------------------------------------------------------------------
(* Transitions of one or two events that decide no race.                   *)

(* Nothing begins.                                                         *)
LEMMA NothingBegins ==
    ASSUME NEW inst, NEW d
    PROVE  Cleared(inst, d, {})
  BY DEF Cleared, Touches

(* An event about a unit that may begin, or that begins nothing.           *)
LEMMA SoundUnit ==
    ASSUME NEW d \in Definitions, NEW inst, Good(inst, d), NEW S, Cleared(inst, d, S),
           NEW e \in UnitEvents(Keys), e.kind = "scheduled" => e.step \in S
    PROVE  Sound(inst, <<e>>, d)
<1> DEFINE j == Apply(inst, e)
<1>1. Moves(inst, j, S) /\ Counted(inst, j, NoAction)
  BY UnitEventMoves DEF Good
<1>2. Good(j, d)
  <2> HIDE DEF j
  <2> QED
    BY <1>1, MovesGood
<1> QED
  BY <1>1, <1>2, SoundOne

(* The same for an event about a wait.                                     *)
LEMMA SoundWait ==
    ASSUME NEW d \in Definitions, NEW inst, Good(inst, d), NEW S, Cleared(inst, d, S),
           NEW e \in WaitEvents, e.kind # "raceWon", e.kind = "timerScheduled" => e.step \in S
    PROVE  Sound(inst, <<e>>, d)
<1> DEFINE j == Apply(inst, e)
<1>1. Moves(inst, j, S) /\ Counted(inst, j, NoAction)
  BY WaitEventMoves DEF Good
<1>2. Good(j, d)
  <2> HIDE DEF j
  <2> QED
    BY <1>1, MovesGood
<1> QED
  BY <1>1, <1>2, SoundOne

(* An audit, and the pause or resumption or the signal it announces.       *)
LEMMA SoundAudited ==
    ASSUME NEW d \in Definitions, NEW inst, Good(inst, d), NEW at \in Nat,
           NEW x \in DOMAIN operatorEventKind, NEW f,
           \/ /\ f \in InstanceEvents
              /\ f.kind \notin {"instanceCompleted", "instanceFailed"}
              /\ f.action = NoAction
           \/ f \in WaitEvents /\ f.kind = "signalReceived"
    PROVE  Sound(inst, <<Audit(at, x), f>>, d)
<1> DEFINE e == Audit(at, x)
<1> DEFINE i == Apply(inst, e)
<1> DEFINE j == Apply(i, f)
<1>0. inst \in Inst /\ inst.sequence \in Nat
  BY DEF Good, Inst, Instances
<1>1. e \in InstanceEvents /\ e.kind = "operatorRecorded" /\ e.action = x
  BY AuditTyped
<1> HIDE DEF e
<1>2. Moves(inst, i, {}) /\ Counted(inst, i, x)
  BY <1>0, <1>1, InstanceEventMoves
<1> HIDE DEF i
<1>3. Good(i, d) /\ i \in Inst
  BY <1>2, NothingBegins, MovesGood DEF Moves
<1>4. Moves(i, j, {}) /\ Counted(i, j, NoAction)
  <2>1. CASE f \in InstanceEvents /\ f.kind \notin {"instanceCompleted", "instanceFailed"} /\ f.action = NoAction
    BY <1>3, <2>1, InstanceEventMoves
  <2>2. CASE f \in WaitEvents /\ f.kind = "signalReceived"
    BY <1>3, <2>2, WaitEventMoves
  <2> QED
    BY <2>1, <2>2
<1>5. Good(j, d)
  <2> HIDE DEF j
  <2> QED
    BY <1>3, <1>4, NothingBegins, MovesGood
<1> QED
  BY <1>0, <1>2, <1>4, <1>5, SoundTwo DEF i, e

-----------------------------------------------------------------------------
(* The events of waits, field by field.                                    *)

(* A signal that comes or a timer that fires.                              *)
LEMMA WaitEventValue ==
    ASSUME NEW kind, NEW at, NEW step
    PROVE  WaitEvent(kind, at, step) = EventRecord(kind, at, step, 0, NoKey, 0, FALSE, NoAction)
<1> DEFINE zero == 0
<1> DEFINE no == FALSE
<1> DEFINE blank == ""
<1> DEFINE none == NoAction
<1> DEFINE b == Event(kind, at)
<1> DEFINE e == [b EXCEPT !.step = step]
<1>1. b = EventRecord(kind, at, blank, zero, NoKey, zero, no, none)
  BY DEF Event, EventRecord
<1>2. WaitEvent(kind, at, step) = e
  BY DEF WaitEvent
<1> HIDE DEF zero, no, blank, none, b
<1>3. e = EventRecord(kind, at, step, zero, NoKey, zero, no, none)
  BY <1>1 DEF EventRecord
<1> HIDE DEF e
<1> QED
  BY <1>2, <1>3, Zenon DEF zero, no, none

(* A timer that is set.                                                    *)
LEMMA TimerEventValue ==
    ASSUME NEW kind, NEW at, NEW step, NEW x
    PROVE  [WaitEvent(kind, at, step) EXCEPT !.dueAt = x] =
               EventRecord(kind, at, step, 0, NoKey, x, FALSE, NoAction)
<1> DEFINE zero == 0
<1> DEFINE no == FALSE
<1> DEFINE none == NoAction
<1> DEFINE e == WaitEvent(kind, at, step)
<1>1. e = EventRecord(kind, at, step, zero, NoKey, zero, no, none)
  BY WaitEventValue
<1> HIDE DEF zero, no, none, e
<1>2. [e EXCEPT !.dueAt = x] = EventRecord(kind, at, step, zero, NoKey, x, no, none)
  BY <1>1 DEF EventRecord
<1> QED
  BY <1>2, Zenon DEF e, zero, no, none

(* A race that is decided.                                                 *)
LEMMA RaceEventValue ==
    ASSUME NEW kind, NEW at, NEW step, NEW x
    PROVE  [WaitEvent(kind, at, step) EXCEPT !.key = x] =
               EventRecord(kind, at, step, 0, x, 0, FALSE, NoAction)
<1> DEFINE zero == 0
<1> DEFINE no == FALSE
<1> DEFINE none == NoAction
<1> DEFINE e == WaitEvent(kind, at, step)
<1>1. e = EventRecord(kind, at, step, zero, NoKey, zero, no, none)
  BY WaitEventValue
<1> HIDE DEF zero, no, none, e
<1>2. [e EXCEPT !.key = x] = EventRecord(kind, at, step, zero, x, zero, no, none)
  BY <1>1 DEF EventRecord
<1> QED
  BY <1>2, Zenon DEF e, zero, no, none

(* Such a record is an event about a unit.                                 *)
LEMMA UnitEventTyped ==
    ASSUME NEW kind \in UnitEventKinds, NEW at \in Nat, NEW step \in Units, NEW attempt \in Nat,
           NEW key \in Keys, NEW due \in Nat, NEW r \in BOOLEAN
    PROVE  LET e == EventRecord(kind, at, step, attempt, key, due, r, NoAction)
           IN  e \in UnitEvents(Keys) /\ e.kind = kind /\ e.step = step
<1> DEFINE e == EventRecord(kind, at, step, attempt, key, due, r, NoAction)
<1>1. NoAction \in {NoAction}
  OBVIOUS
<1>2. e \in UnitEvents(Keys)
  BY <1>1, Zenon DEF UnitEvents, EventRecord
<1>3. e.kind = kind /\ e.step = step
  BY DEF EventRecord
<1> QED
  BY <1>2, <1>3

(* The event that schedules a unit, or reports on a child.                 *)
LEMMA PlainUnitEvent ==
    ASSUME NEW kind \in UnitEventKinds, NEW at \in Nat, NEW step \in Units
    PROVE  LET e == UnitEvent(kind, at, step, 0)
           IN  e \in UnitEvents(Keys) /\ e.kind = kind /\ e.step = step
<1> DEFINE e == EventRecord(kind, at, step, 0, NoKey, 0, FALSE, NoAction)
<1>1. UnitEvent(kind, at, step, 0) = e
  BY UnitEventValue, Zenon
<1>2. NoKey \in Keys /\ 0 \in Nat /\ FALSE \in BOOLEAN
  BY DEF Keys
<1>3. e \in UnitEvents(Keys) /\ e.kind = kind /\ e.step = step
  <2> DEFINE zero == 0
  <2> DEFINE no == FALSE
  <2>1. zero \in Nat /\ no \in BOOLEAN /\ e = EventRecord(kind, at, step, zero, NoKey, zero, no, NoAction)
    OBVIOUS
  <2> HIDE DEF zero, no, e
  <2> QED
    BY <1>2, <2>1, UnitEventTyped
<1> HIDE DEF e
<1> QED
  BY <1>1, <1>3

(* The event of a signal, or of a timer that fires.                        *)
LEMMA PlainWaitEvent ==
    ASSUME NEW kind \in {"timerFired", "signalReceived"}, NEW at \in Nat, NEW step \in Waits
    PROVE  LET e == WaitEvent(kind, at, step)
           IN  e \in WaitEvents /\ e.kind = kind /\ e.step = step
<1> DEFINE e == EventRecord(kind, at, step, 0, NoKey, 0, FALSE, NoAction)
<1>1. WaitEvent(kind, at, step) = e
  BY WaitEventValue, Zenon
<1>2. kind \in {"timerScheduled", "timerFired", "signalReceived", "raceWon"}
  OBVIOUS
<1>3. 0 \in {0} /\ 0 \in Nat /\ FALSE \in {FALSE} /\ NoKey \in Waits \cup {NoKey} /\ NoAction \in {NoAction}
  OBVIOUS
<1>4. e \in WaitEvents
  BY <1>2, <1>3, Zenon DEF WaitEvents, EventRecord
<1>5. e.kind = kind /\ e.step = step
  BY DEF EventRecord
<1> HIDE DEF e
<1> QED
  BY <1>1, <1>4, <1>5

-----------------------------------------------------------------------------
(* One lemma per action.  First those that commit nothing.                 *)

(* The invariant holds when an instance has been started.                  *)
LEMMA InitHolds == Init => IInv
<1> SUFFICES ASSUME Init PROVE IInv
  OBVIOUS
<1>0. /\ now = 1 /\ definition \in Definitions /\ sequence = 1 /\ instance = Started(1)
      /\ work = [w \in WorkIDs |-> AbsentRow] /\ calls = [w \in WorkIDs |-> 0]
  BY DEF Init
<1>1. /\ instance.valid = TRUE /\ instance.status = "running" /\ instance.sequence = 1
      /\ instance.updatedAt = 1 /\ instance.pendingOperator = NoAction
      /\ instance.units = [u \in Units |-> NoProgress] /\ instance.waits = [s \in Waits |-> NoWait]
      /\ instance = [valid |-> instance.valid, status |-> instance.status,
                     sequence |-> instance.sequence, updatedAt |-> instance.updatedAt,
                     pendingOperator |-> instance.pendingOperator,
                     units |-> instance.units, waits |-> instance.waits]
  BY <1>0 DEF Started
<1>2. instance \in Inst
  <2>1. NoProgress \in Progresses(Keys)
    BY DEF NoProgress, Progresses, Keys, UnitStatuses, CompensationStatuses, ActivityStatuses
  <2>2. NoWait \in WaitProgress
    BY DEF NoWait, WaitProgress, WaitStatuses
  <2>3. /\ instance.valid \in BOOLEAN /\ instance.status \in Statuses /\ instance.sequence \in Nat
        /\ instance.updatedAt \in Nat
        /\ instance.pendingOperator \in {NoAction} \cup DOMAIN operatorEventKind
        /\ instance.units \in [Units -> Progresses(Keys)]
        /\ instance.waits \in [Waits -> WaitProgress]
    <3>1. instance.valid \in BOOLEAN
      BY <1>1, Zenon
    <3>2. instance.units \in [Units -> Progresses(Keys)] /\ instance.waits \in [Waits -> WaitProgress]
      BY <1>1, <2>1, <2>2
    <3>3. /\ instance.status \in Statuses /\ instance.sequence \in Nat /\ instance.updatedAt \in Nat
          /\ instance.pendingOperator \in {NoAction} \cup DOMAIN operatorEventKind
      BY <1>1 DEF Statuses
    <3> QED
      BY <3>1, <3>2, <3>3
  <2> QED
    BY <1>1, <2>3, Zenon DEF Inst, Instances
<1>3. AbsentRow \in Row
  BY DEF AbsentRow, Row, RowStates, NoTime
<1>4. TypeOK
  <2>1. calls \in [WorkIDs -> 0 .. sequence] /\ work \in [WorkIDs -> Row] /\ now \in Nat /\ sequence \in Nat
    BY <1>0, <1>3
  <2> QED
    BY <1>0, <1>1, <1>2, <2>1, InstanceTyped DEF TypeOK
<1>5. Synced /\ Called
  BY <1>0, <1>1 DEF Synced, Called
<1>6. (\A u \in Units : instance.units[u].status = "none") /\ (\A s \in Waits : instance.waits[s].status = "none")
  BY <1>1 DEF NoProgress, NoWait
<1>7. Heard(instance) /\ Decided(instance, definition) /\ Verdict(instance, definition)
  BY <1>1, <1>6 DEF Heard, Decided, Verdict
<1>8. Ordered(instance, definition)
  <2> SUFFICES ASSUME NEW k \in Planned(definition) PROVE ~Begun(instance, definition[k])
    BY DEF Ordered
  <2> DEFINE s == definition[k]
  <2>1. k \in DOMAIN definition /\ s \in DOMAIN Kind
    BY <1>0, PlanFacts
  <2>2. CASE s \in Units
    BY <1>6, <2>2, BegunValue
  <2>3. CASE s \notin Units /\ Kind[s] \in {"timer", "race"}
    <3>1. s \in Waits
      BY <2>1, <2>3 DEF Waits, WaitKinds
    <3> QED
      BY <1>6, <2>3, <3>1, BegunValue
  <2>4. CASE s \notin Units /\ Kind[s] = "parallel"
    <3>1. \A b \in Range(Branches[s]) : b \in Units
      BY <1>0, <2>1, <2>4, ParallelFacts
    <3> QED
      BY <1>6, <2>4, <3>1, BegunValue
  <2> QED
    BY <2>2, <2>3, <2>4, BegunValue
<1> QED
  BY <1>2, <1>4, <1>5, <1>7, <1>8 DEF IInv, Good

(* Steps that leave the instance and its row alone.                        *)
LEMMA AsideHolds ==
    ASSUME IInv, UNCHANGED <<definition, sequence, instance>>, now' \in Nat,
           work' \in [WorkIDs -> Row], calls' \in [WorkIDs -> 0 .. sequence],
           \A w \in WorkIDs : calls[w] = 0 => calls'[w] = 0
    PROVE  IInv'
<1>1. TypeOK'
  BY DEF IInv, TypeOK, Readable
<1>2. Synced'
  BY DEF IInv, Synced
<1>3. Good(instance', definition')
  BY DEF IInv
<1>4. Called'
  BY DEF IInv, Called
<1> QED
  BY <1>1, <1>2, <1>3, <1>4 DEF IInv

(* Time passes.                                                            *)
LEMMA TickHolds == ASSUME IInv, Tick PROVE IInv'
<1>1. now' \in Nat
  BY DEF Tick, IInv, TypeOK
<1>2. /\ work' \in [WorkIDs -> Row] /\ calls' \in [WorkIDs -> 0 .. sequence]
      /\ \A w \in WorkIDs : calls[w] = 0 => calls'[w] = 0
  BY DEF Tick, IInv, TypeOK
<1> QED
  BY <1>1, <1>2, AsideHolds DEF Tick

(* An answer comes to nothing.                                             *)
LEMMA LoseHolds == ASSUME IInv, NEW w \in WorkIDs, Lose(w) PROVE IInv'
<1>1. now' \in Nat /\ work' \in [WorkIDs -> Row]
  BY DEF Lose, IInv, TypeOK
<1>2. calls' \in [WorkIDs -> 0 .. sequence] /\ \A v \in WorkIDs : calls[v] = 0 => calls'[v] = 0
  BY DEF Lose, IInv, TypeOK
<1> QED
  BY <1>1, <1>2, AsideHolds DEF Lose

(* A processor inspects the instance again before its call.                *)
LEMMA InspectHolds == ASSUME IInv, NEW w \in WorkIDs, Inspect(w) PROVE IInv'
<1>1. now' \in Nat /\ work' \in [WorkIDs -> Row]
  BY DEF Inspect, IInv, TypeOK
<1>2. calls' \in [WorkIDs -> 0 .. sequence] /\ \A v \in WorkIDs : calls[v] = 0 => calls'[v] = 0
  BY DEF Inspect, IInv, TypeOK
<1> QED
  BY <1>1, <1>2, AsideHolds DEF Inspect

-----------------------------------------------------------------------------
(* The application's and the operator's commits.                           *)

(* A transition's events and work.                                         *)
LEMMA TransitionFields ==
    ASSUME NEW id, NEW n, NEW events, NEW pending
    PROVE  LET t == Transition(id, n, events, pending)
           IN  t.id = id /\ t.events = events /\ t.work = pending
  BY DEF Transition

(* A commit during which no call begins or ends.                           *)
LEMMA CommitHolds ==
    ASSUME IInv, NEW t, NEW done, Land(t, done), Sound(instance, t.events, definition),
           Dated(t.work), UNCHANGED <<now, definition, calls>>
    PROVE  IInv'
<1>1. calls \in [WorkIDs -> 0 .. sequence]
  BY DEF IInv, TypeOK
<1>2. /\ \A w \in WorkIDs : calls'[w] \in {0, calls[w]}
      /\ DOMAIN calls' = WorkIDs
      /\ calls' = [w \in WorkIDs |-> calls'[w]]
  BY <1>1
<1> QED
  BY <1>2, LandHolds

(* A timer fires.                                                          *)
LEMMA FireTimerHolds == ASSUME IInv, NEW w \in WorkIDs, FireTimer(w) PROVE IInv'
<1> DEFINE t == NewTimerFire(instance, w, now)
<1> DEFINE e == WaitEvent("timerFired", now, w[1])
<1>1. Land(t, {w}) /\ UNCHANGED <<now, definition, calls>> /\ w[1] \in Waits
  BY DEF FireTimer, Timers
<1>2. t.events = <<e>> /\ t.work = {}
  BY TransitionFields DEF NewTimerFire
<1>3. now \in Nat /\ definition \in Definitions /\ Good(instance, definition)
  BY DEF IInv, TypeOK
<1>4. e \in WaitEvents /\ e.kind = "timerFired"
  BY <1>1, <1>3, PlainWaitEvent
<1> HIDE DEF e, t
<1>5. Sound(instance, <<e>>, definition)
  BY <1>3, <1>4, NothingBegins, SoundWait
<1>6. Dated(t.work)
  BY <1>2 DEF Dated
<1> QED
  BY <1>1, <1>2, <1>5, <1>6, CommitHolds

(* A signal is accepted.                                                   *)
LEMMA SignalHolds == ASSUME IInv, NEW s \in Waits, Signal(s) PROVE IInv'
<1> DEFINE t == NewSignalAcceptance(instance, s, s, now)
<1> DEFINE e == WaitEvent("signalReceived", now, s)
<1>1. Land(t, {}) /\ UNCHANGED <<now, definition, calls>>
  BY DEF Signal
<1>2. t.events = <<e>> /\ t.work = {}
  BY TransitionFields DEF NewSignalAcceptance
<1>3. now \in Nat /\ definition \in Definitions /\ Good(instance, definition)
  BY DEF IInv, TypeOK
<1>4. e \in WaitEvents /\ e.kind = "signalReceived"
  BY <1>3, PlainWaitEvent
<1> HIDE DEF e, t
<1>5. Sound(instance, <<e>>, definition)
  BY <1>3, <1>4, NothingBegins, SoundWait
<1>6. Dated(t.work)
  BY <1>2 DEF Dated
<1> QED
  BY <1>1, <1>2, <1>5, <1>6, CommitHolds

(* An operator approves.                                                   *)
LEMMA ApproveHolds == ASSUME IInv, NEW s \in Waits, Approve(s) PROVE IInv'
<1> DEFINE t == NewOperatorApproval(instance, s, s, now)
<1> DEFINE e == WaitEvent("signalReceived", now, s)
<1>1. Land(t, {}) /\ UNCHANGED <<now, definition, calls>>
  BY DEF Approve
<1>2. t.events = <<Audit(now, "approve"), e>> /\ t.work = {}
  BY TransitionFields DEF NewOperatorApproval
<1>3. now \in Nat /\ definition \in Definitions /\ Good(instance, definition)
  BY DEF IInv, TypeOK
<1>4. e \in WaitEvents /\ e.kind = "signalReceived"
  BY <1>3, PlainWaitEvent
<1>5. "approve" \in DOMAIN operatorEventKind
  BY DEF operatorEventKind
<1> HIDE DEF e, t
<1>6. Sound(instance, <<Audit(now, "approve"), e>>, definition)
  BY <1>3, <1>4, <1>5, SoundAudited
<1>7. Dated(t.work)
  BY <1>2 DEF Dated
<1> QED
  BY <1>1, <1>2, <1>6, <1>7, CommitHolds

(* A child's outcome is reported to its parent.                            *)
LEMMA ReportChildHolds == ASSUME IInv, NEW u \in Units, ReportChild(u) PROVE IInv'
<1>1. PICK kind \in {"childCompleted", "childFailed"} :
          Land(NewChildOutcome(instance, u, now, kind), {})
  BY DEF ReportChild
<1> DEFINE t == NewChildOutcome(instance, u, now, kind)
<1> DEFINE e == UnitEvent(kind, now, u, 0)
<1>2. Land(t, {}) /\ UNCHANGED <<now, definition, calls>>
  BY <1>1 DEF ReportChild
<1>3. t.events = <<e>> /\ t.work = {}
  BY TransitionFields DEF NewChildOutcome
<1>4. now \in Nat /\ definition \in Definitions /\ Good(instance, definition)
  BY DEF IInv, TypeOK
<1>5. kind \in UnitEventKinds /\ kind # "scheduled"
  BY DEF UnitEventKinds
<1>6. e \in UnitEvents(Keys) /\ e.kind # "scheduled"
  BY <1>4, <1>5, PlainUnitEvent
<1> HIDE DEF e, t
<1>7. Sound(instance, <<e>>, definition)
  BY <1>4, <1>6, NothingBegins, SoundUnit
<1>8. Dated(t.work)
  BY <1>3 DEF Dated
<1> QED
  BY <1>2, <1>3, <1>7, <1>8, CommitHolds

(* An operator pauses or resumes the instance.                             *)
LEMMA OperateHolds == ASSUME IInv, NEW x \in {"pause", "resume"}, Operate(x) PROVE IInv'
<1> DEFINE t == NewOperatorLifecycleCommand(instance, "operator", x, now)
<1> DEFINE kind == operatorEventKind[x][2]
<1> DEFINE f == Event(kind, now)
<1>1. Land(t, {}) /\ UNCHANGED <<now, definition, calls>>
  BY DEF Operate
<1>2. t.events = <<Audit(now, x), f>> /\ t.work = {}
  BY TransitionFields DEF NewOperatorLifecycleCommand
<1>3. now \in Nat /\ definition \in Definitions /\ Good(instance, definition)
  BY DEF IInv, TypeOK
<1>4. x \in DOMAIN operatorEventKind /\ kind \in {"paused", "resumed"}
  BY DEF operatorEventKind
<1> HIDE DEF kind
<1>5. kind \in LifecycleKinds /\ kind \notin {"instanceCompleted", "instanceFailed"}
  BY <1>4 DEF LifecycleKinds
<1>6. f \in InstanceEvents /\ f.kind = kind /\ f.action = NoAction
  BY <1>3, <1>5, LifecycleEventTyped
<1> HIDE DEF f, t
<1>7. Sound(instance, <<Audit(now, x), f>>, definition)
  BY <1>3, <1>4, <1>5, <1>6, SoundAudited
<1>8. Dated(t.work)
  BY <1>2 DEF Dated
<1> QED
  BY <1>1, <1>2, <1>7, <1>8, CommitHolds

-----------------------------------------------------------------------------
(* What processors commit.                                                 *)

(* The transition t may be committed.                                      *)
Fine(t) == Sound(instance, t.events, definition) /\ Dated(t.work)

(* The attempts of work.                                                   *)
LEMMA WorkFacts ==
    ASSUME NEW w \in WorkIDs
    PROVE  w[2] \in Nat \ {0} /\ w \in Keys
  BY DEF WorkIDs, Keys

(* A transition of one event about a unit under way.                       *)
LEMMA FineUnit ==
    ASSUME IInv, NEW t, NEW e \in UnitEvents(Keys), e.kind # "scheduled", t.events = <<e>>,
           Dated(t.work)
    PROVE  Fine(t)
<1>1. definition \in Definitions /\ Good(instance, definition)
  BY DEF IInv, TypeOK
<1>2. Sound(instance, <<e>>, definition)
  BY <1>1, NothingBegins, SoundUnit
<1> QED
  BY <1>2 DEF Fine

(* The time a processor gives an event.                                    *)
LEMMA LaterTyped ==
    ASSUME IInv
    PROVE  /\ now \in Nat /\ Later(now, instance.updatedAt) \in Nat
           /\ \A u \in Units : instance.units[u].attempt \in Nat
<1>1. instance \in Inst /\ now \in Nat
  BY DEF IInv, Good, TypeOK
<1> QED
  BY <1>1 DEF Inst, Instances, Progresses, Later

(* A processor that commits has its transition, one that leaves has none.  *)
LEMMA StatesApart ==
    ASSUME NEW lease, NEW t, NEW x
    PROVE  /\ CommitNext(lease, t).pc = "commit" /\ CommitNext(lease, t).tx = t
           /\ FinishNext(lease, x).pc = "finish"
           /\ Leave.pc = "idle"
<1>1. CommitNext(lease, t).pc = "commit" /\ CommitNext(lease, t).tx = t
  BY CommitNextValue, StateFields
<1>2. FinishNext(lease, x).pc = "finish"
  BY FinishNextValue, StateFields
<1>3. Leave.pc = "idle"
  BY IdleValue, StateFields DEF Leave
<1> QED
  BY <1>1, <1>2, <1>3

(* What handlers and starters answer.                                      *)
LEMMA OutcomesTyped ==
    ASSUME NEW outcome \in Outcomes \cup ChildStartOutcomes
    PROVE  /\ outcome.kind \in UnitEventKinds /\ outcome.kind # "scheduled"
           /\ outcome.retryable \in BOOLEAN
<1> DEFINE Told(o) == /\ o.kind \in UnitEventKinds
                      /\ o.kind # "scheduled"
                      /\ o.retryable \in BOOLEAN
<1>1. /\ Told([kind |-> "succeeded", retryable |-> FALSE])
      /\ Told([kind |-> "started", retryable |-> FALSE])
      /\ Told([kind |-> "failed", retryable |-> TRUE])
      /\ Told([kind |-> "failed", retryable |-> FALSE])
      /\ Told([kind |-> "unknown", retryable |-> FALSE])
  BY DEF UnitEventKinds
<1> HIDE DEF Told
<1>2. Told(outcome)
  BY <1>1, Zenon DEF Outcomes, ChildStartOutcomes, UnknownOutcome
<1> QED
  BY <1>2 DEF Told

(* The outcome of an attempt.                                              *)
LEMMA PersistFine ==
    ASSUME IInv, NEW w \in WorkIDs, w[1] \in Units, NEW lease, lease.work = w,
           NEW outcome \in Outcomes \cup ChildStartOutcomes,
           Persist(instance, lease, now, outcome).pc = "commit"
    PROVE  Fine(Persist(instance, lease, now, outcome).tx)
<1> DEFINE at == Later(now, instance.updatedAt)
<1> DEFINE t == NewActivityAttemptOutcome(instance, w, at, outcome)
<1> DEFINE e == EventRecord(outcome.kind, at, w[1], w[2], NoKey, 0, outcome.retryable, NoAction)
<1> DEFINE next == Persist(instance, lease, now, outcome)
<1>1. next = IF MayPersist(instance, w, at) THEN CommitNext(lease, t) ELSE Leave
  BY PersistValue
<1>2. t.events = <<e>> /\ t.work = {}
  BY OutcomeValue
<1>3. at \in Nat
  BY LaterTyped
<1>4. e \in UnitEvents(Keys) /\ e.kind # "scheduled"
  <2> DEFINE zero == 0
  <2> DEFINE kind == outcome.kind
  <2> DEFINE r == outcome.retryable
  <2> DEFINE n == w[2]
  <2>1. zero \in Nat /\ NoKey \in Keys /\ n \in Nat
    BY WorkFacts DEF Keys
  <2>2. kind \in UnitEventKinds /\ kind # "scheduled" /\ r \in BOOLEAN
    BY OutcomesTyped
  <2>3. e = EventRecord(kind, at, w[1], n, NoKey, zero, r, NoAction)
    OBVIOUS
  <2> HIDE DEF zero, kind, r, n, e, at
  <2> QED
    BY <1>3, <2>1, <2>2, <2>3, UnitEventTyped
<1> HIDE DEF t, e, at, next
<1>5. next.tx = t
  BY <1>1, StatesApart DEF next
<1>6. Fine(t)
  BY <1>2, <1>4, FineUnit DEF Dated
<1> QED
  BY <1>5, <1>6 DEF next

(* The retry of a failed attempt.                                          *)
LEMMA RetryFine ==
    ASSUME IInv, NEW w \in WorkIDs, w[1] \in Units, NEW lease, lease.work = w,
           lease.deadline \in Nat, SameAttempt(instance.units[w[1]], w),
           Retry(instance, lease, now).pc = "commit"
    PROVE  Fine(Retry(instance, lease, now).tx)
<1> DEFINE at == Later(now, instance.updatedAt)
<1> DEFINE n == instance.units[w[1]].attempt
<1> DEFINE due == at + retryDelay(Policy, n)
<1> DEFINE t == RetryOf(instance, lease, at)
<1> DEFINE e == EventRecord("retryScheduled", at, w[1], n, NoKey, due, FALSE, NoAction)
<1> DEFINE k == PendingWork(<<w[1], n + 1, w[3]>>, due, lease.deadline)
<1> DEFINE next == Retry(instance, lease, now)
<1> DEFINE over == NoRetryLeft(instance.units[w[1]], lease, at)
<1>1. next = IF over THEN FinishNext(lease, "complete")
             ELSE IF MayRetry(instance, lease, at) THEN CommitNext(lease, t)
             ELSE Leave
  BY RetryValue
<1>2. t = Transition(<<w, "retry">>, instance.sequence, <<e>>, {k})
  <2>1. [UnitEvent("retryScheduled", at, w[1], n) EXCEPT !.dueAt = due] = e
    <3> HIDE DEF at, n, due
    <3> QED
      BY RetryEventValue, Zenon
  <2>2. t = NewActivityRetry(<<w, "retry">>, instance, w[1], at, lease.deadline, w[3])
    BY DEF RetryOf, processorTransitionID
  <2>3. NewActivityRetry(<<w, "retry">>, instance, w[1], at, lease.deadline, w[3]) =
            Transition(<<w, "retry">>, instance.sequence, <<e>>, {k})
    <3> HIDE DEF e, at
    <3> QED
      BY <2>1, Zenon DEF NewActivityRetry
  <2> HIDE DEF t, e, k
  <2> QED
    BY <2>2, <2>3
<1>3. at \in Nat /\ n \in Nat \ {0}
  BY LaterTyped, WorkFacts DEF SameAttempt
<1>4. due \in Nat
  BY <1>3, RetryDelayBounded
<1>5. e \in UnitEvents(Keys) /\ e.kind # "scheduled"
  <2> DEFINE no == FALSE
  <2> DEFINE kind == "retryScheduled"
  <2>1. no \in BOOLEAN /\ NoKey \in Keys /\ kind \in UnitEventKinds /\ kind # "scheduled" /\ n \in Nat
    BY <1>3 DEF Keys, UnitEventKinds
  <2>2. e = EventRecord(kind, at, w[1], n, NoKey, due, no, NoAction)
    OBVIOUS
  <2> HIDE DEF no, kind, e, at, due, n
  <2> QED
    BY <1>3, <1>4, <2>1, <2>2, UnitEventTyped
<1>6. k.available = due /\ k.deadline = lease.deadline
  BY DEF PendingWork
<1> HIDE DEF at, due, e, k, n, t, next, over
<1>7. t.events = <<e>> /\ t.work = {k}
  BY <1>2, TransitionFields
<1>8. Fine(t)
  <2>1. Dated(t.work)
    BY <1>4, <1>6, <1>7 DEF Dated
  <2> QED
    BY <1>5, <1>7, <2>1, FineUnit
<1>9. next.tx = t
  <2>1. next.pc = "commit"
    BY DEF next
  <2> QED
    BY <1>1, <2>1, StatesApart
<1> QED
  BY <1>8, <1>9 DEF next

(* The start of an attempt.                                                *)
LEMMA StartFine ==
    ASSUME IInv, NEW w \in WorkIDs, w[1] \in Units, NEW lease, lease.work = w
    PROVE  Fine(NewActivityAttemptStart(instance, lease, now))
<1> DEFINE due == now + Timeout
<1> DEFINE t == NewActivityAttemptStart(instance, lease, now)
<1> DEFINE e == EventRecord("attemptStarted", now, w[1], w[2], w, due, FALSE, NoAction)
<1>1. t = Transition(<<w, "start">>, instance.sequence, <<e>>, {})
  <2> DEFINE v == lease.work
  <2> DEFINE f == EventRecord("attemptStarted", now, v[1], v[2], v, due, FALSE, NoAction)
  <2>1. [UnitEvent("attemptStarted", now, v[1], v[2]) EXCEPT !.key = v, !.dueAt = due] = f
    BY StartEventValue, Zenon
  <2>2. f = e /\ v = w
    OBVIOUS
  <2> HIDE DEF f
  <2>3. t = Transition(<<v, "start">>, instance.sequence, <<f>>, {})
    BY <2>1, Zenon DEF NewActivityAttemptStart, processorTransitionID
  <2> HIDE DEF t, e
  <2> QED
    BY <2>2, <2>3
<1>2. now \in Nat /\ due \in Nat
  BY LaterTyped, PolicyAssumption
<1>3. e \in UnitEvents(Keys) /\ e.kind # "scheduled"
  <2> DEFINE no == FALSE
  <2> DEFINE kind == "attemptStarted"
  <2>1. no \in BOOLEAN /\ kind \in UnitEventKinds /\ kind # "scheduled"
    BY DEF UnitEventKinds
  <2>2. e = EventRecord(kind, now, w[1], w[2], w, due, no, NoAction)
    OBVIOUS
  <2> HIDE DEF no, kind, e, due
  <2> QED
    BY <1>2, <2>1, <2>2, WorkFacts, UnitEventTyped
<1> HIDE DEF t, e
<1>4. t.events = <<e>> /\ t.work = {}
  BY <1>1, TransitionFields
<1>5. Fine(t)
  BY <1>3, <1>4, FineUnit DEF Dated
<1> QED
  BY <1>5 DEF t

(* Whatever a processor commits of its own.                                *)
LEMMA ProcessFine ==
    ASSUME IInv, NEW w \in WorkIDs, w[1] \in Units, NEW lease, lease.work = w,
           lease.deadline \in Nat, Process(instance, lease, now).pc = "commit"
    PROVE  Fine(Process(instance, lease, now).tx)
<1> DEFINE next == Process(instance, lease, now)
<1> DEFINE p == instance.units[w[1]]
<1> DEFINE exec == ExecuteOf(instance, lease, now)
<1> DEFINE persist == Persist(instance, lease, now, UnknownOutcome)
<1> DEFINE retry == Retry(instance, lease, now)
<1>1. next = IF p.status \in Startable
             THEN IF w[2] = p.attempt + 1 THEN exec ELSE FinishNext(lease, "dead")
             ELSE IF ReportedAs(w[1], p) THEN FinishNext(lease, "complete")
             ELSE IF ~SameAttempt(p, w) THEN FinishNext(lease, "dead")
             ELSE IF p.status = "running" THEN persist
             ELSE IF p.status = "failed" THEN retry
             ELSE FinishNext(lease, "complete")
  <2>1. next = ProcessOf(instance, lease, now)
    BY ProcessValue
  <2> HIDE DEF next, exec, persist, retry
  <2> QED
    BY <2>1 DEF ProcessOf, exec, persist, retry
<1>2. exec.pc = "commit" => Fine(exec.tx)
  <2> DEFINE t == NewActivityAttemptStart(instance, lease, now)
  <2>1. exec = CommitNext(lease, t) \/ exec = Leave
    BY DEF ExecuteOf
  <2>2. Fine(t)
    BY StartFine
  <2> HIDE DEF exec, t
  <2> QED
    BY <2>1, <2>2, StatesApart
<1>3. persist.pc = "commit" => Fine(persist.tx)
  <2>1. UnknownOutcome \in Outcomes \cup ChildStartOutcomes
    BY DEF Outcomes
  <2> QED
    BY <2>1, PersistFine
<1>4. SameAttempt(p, w) /\ retry.pc = "commit" => Fine(retry.tx)
  BY RetryFine
<1> HIDE DEF next, exec, persist, retry
<1>5. next.pc = "commit"
  BY DEF next
<1>6. next \in {exec, persist} \/ (next = retry /\ SameAttempt(p, w))
  <2>1. \A x : FinishNext(lease, x).pc # "commit"
    BY StatesApart
  <2> QED
    BY <1>1, <1>5, <2>1
<1> QED
  BY <1>2, <1>3, <1>4, <1>5, <1>6 DEF next

(* The lease of the work a processor takes up.                             *)
LEMMA LeaseFacts ==
    ASSUME IInv, NEW w \in WorkIDs
    PROVE  LeaseOn(w).work = w /\ LeaseOn(w).deadline \in Nat
<1>1. work[w].deadline \in Nat
  BY DEF IInv, TypeOK, Row
<1>2. LeaseOn(w).work = w /\ LeaseOn(w).deadline = work[w].deadline
  BY DEF LeaseOn
<1> QED
  BY <1>1, <1>2

(* A processor takes up the work of a unit.                                *)
LEMMA DeliverHolds == ASSUME IInv, NEW w \in WorkIDs, Deliver(w) PROVE IInv'
<1> DEFINE lease == LeaseOn(w)
<1> DEFINE next == Process(instance, lease, now)
<1>0. /\ w[1] \in Units /\ UNCHANGED <<now, definition>>
      /\ \/ /\ next.pc = "commit"
            /\ Land(next.tx, IF next.tx.id[2] = "retry" THEN {w} ELSE {})
            /\ calls' = IF next.tx.id[2] = "start" THEN [calls EXCEPT ![w] = sequence'] ELSE calls
         \/ /\ next.pc = "finish"
            /\ work' = [work EXCEPT ![w] =
                   IF next.decision = "complete" THEN CompletedRow(@) ELSE DeadLetteredRow(@)]
            /\ UNCHANGED <<sequence, instance, calls>>
  BY DEF Deliver
<1>t. now \in Nat /\ work \in [WorkIDs -> Row] /\ calls \in [WorkIDs -> 0 .. sequence]
  BY DEF IInv, TypeOK
<1>1. lease.work = w /\ lease.deadline \in Nat
  BY LeaseFacts
<1> HIDE DEF lease
<1>2. next.pc = "commit" => Fine(next.tx)
  BY <1>0, <1>1, ProcessFine
<1> HIDE DEF next
<1>3. CASE next.pc = "commit"
  <2>1. /\ Land(next.tx, IF next.tx.id[2] = "retry" THEN {w} ELSE {})
        /\ calls' = IF next.tx.id[2] = "start" THEN [calls EXCEPT ![w] = sequence'] ELSE calls
    BY <1>0, <1>3
  <2>2. /\ \A v \in WorkIDs :
              calls'[v] \in {0, calls[v]} \/ (v[1] \in Units /\ calls'[v] = sequence')
        /\ DOMAIN calls' = WorkIDs
        /\ calls' = [v \in WorkIDs |-> calls'[v]]
    BY <1>0, <1>t, <2>1
  <2>3. Sound(instance, next.tx.events, definition) /\ Dated(next.tx.work)
    BY <1>2, <1>3 DEF Fine
  <2> QED
    BY <1>0, <2>1, <2>2, <2>3, LandHolds
<1>4. CASE next.pc = "finish"
  <2>1. work' = [work EXCEPT ![w] =
                   IF next.decision = "complete" THEN CompletedRow(@) ELSE DeadLetteredRow(@)]
        /\ UNCHANGED <<sequence, instance, calls>>
    BY <1>0, <1>4
  <2>2. work' \in [WorkIDs -> Row]
    <3>1. work[w] \in Row
      BY <1>t
    <3>2. CompletedRow(work[w]) \in Row /\ DeadLetteredRow(work[w]) \in Row
      BY <3>1, RowsStay
    <3> QED
      BY <1>t, <2>1, <3>2
  <2>3. calls' \in [WorkIDs -> 0 .. sequence] /\ \A v \in WorkIDs : calls'[v] \in {0, calls[v]}
    BY <1>t, <2>1
  <2>4. now' \in Nat
    BY <1>0, <1>t
  <2> QED
    BY <1>0, <2>1, <2>2, <2>3, <2>4, AsideHolds
<1> QED
  BY <1>0, <1>3, <1>4

(* A handler or a starter answers.                                         *)
LEMMA AnswerHolds == ASSUME IInv, NEW w \in WorkIDs, Answer(w) PROVE IInv'
<1>1. PICK outcome \in Answers(w) :
          /\ Persist(instance, LeaseOn(w), now, outcome).pc = "commit"
          /\ Land(Persist(instance, LeaseOn(w), now, outcome).tx, {})
  BY DEF Answer
<1>2. calls[w] = sequence /\ calls' = [calls EXCEPT ![w] = 0] /\ UNCHANGED <<now, definition>>
  BY DEF Answer
<1>t. calls \in [WorkIDs -> 0 .. sequence] /\ sequence \in Nat
  BY DEF IInv, TypeOK
<1>3. w[1] \in Units
  BY <1>2, <1>t DEF IInv, Called
<1>4. outcome \in Outcomes \cup ChildStartOutcomes
  BY DEF Answers
<1> DEFINE next == Persist(instance, LeaseOn(w), now, outcome)
<1>5. Fine(next.tx)
  BY <1>1, <1>3, <1>4, LeaseFacts, PersistFine
<1>6. Land(next.tx, {})
  BY <1>1
<1> HIDE DEF next
<1>7. /\ \A v \in WorkIDs :
            calls'[v] \in {0, calls[v]} \/ (v[1] \in Units /\ calls'[v] = sequence')
      /\ DOMAIN calls' = WorkIDs
      /\ calls' = [v \in WorkIDs |-> calls'[v]]
  BY <1>2, <1>t
<1> QED
  BY <1>2, <1>5, <1>6, <1>7, LandHolds DEF Fine

-----------------------------------------------------------------------------
(* What the planner commits.                                               *)

(* All planned steps before position k are done.                           *)
Reached(inst, d, k) == k \in Planned(d) /\ \A i \in Planned(d) : i < k => StepDone(inst, d[i])

(* The planner has reached the first step that is not done.                *)
LEMMA FirstOpenReached ==
    ASSUME NEW inst, NEW d \in Definitions, Open(inst, d) # {}
    PROVE  Reached(inst, d, FirstOpen(inst, d))
<1> DEFINE S == Open(inst, d)
<1>1. S \subseteq Planned(d) /\ S \in SUBSET Nat
  BY PlanFacts DEF Open
<1>2. \E m \in S : \A n \in S : m <= n
  <2> HIDE DEF S
  <2> QED
    BY <1>1, LeastNatural DEF S
<1> DEFINE k == FirstOpen(inst, d)
<1>3. k \in S /\ \A n \in S : k <= n
  <2>1. k = CHOOSE x \in S : \A y \in S : x =< y
    BY DEF FirstOpen, Min
  <2> HIDE DEF k, S
  <2> QED
    BY <1>2, <2>1
<1> HIDE DEF k
<1>4. ASSUME NEW i \in Planned(d), i < k
      PROVE  StepDone(inst, d[i])
  <2>1. i \in Nat /\ k \in Nat
    BY <1>1, <1>3, PlanFacts
  <2>2. i \notin S
    BY <1>3, <1>4, <2>1
  <2> QED
    BY <2>2 DEF Open
<1> QED
  BY <1>1, <1>3, <1>4 DEF Reached, k

(* A step that is reached may begin.                                       *)
LEMMA ReachedCleared ==
    ASSUME NEW inst, NEW d \in Definitions, NEW k, Reached(inst, d, k)
    PROVE  /\ Cleared(inst, d, {d[k]})
           /\ Kind[d[k]] = "parallel" => Cleared(inst, d, Range(Branches[d[k]]))
<1>0. k \in Planned(d) /\ k \in DOMAIN d
  BY PlanFacts DEF Reached
<1>1. Cleared(inst, d, {d[k]})
  <2> SUFFICES ASSUME NEW i \in Planned(d), NEW m \in Planned(d), i < m, Touches({d[k]}, d[m])
               PROVE  StepDone(inst, d[i])
    BY DEF Cleared
  <2>1. m \in DOMAIN d
    BY PlanFacts
  <2>2. CASE d[m] = d[k]
    <3>1. m = k
      BY <1>0, <2>1, <2>2, PlanFacts
    <3> QED
      BY <3>1 DEF Reached
  <2>3. CASE Kind[d[m]] = "parallel" /\ d[k] \in Range(Branches[d[m]])
    BY <1>0, <2>1, <2>3, ParallelFacts
  <2> QED
    BY <2>2, <2>3 DEF Touches
<1>2. ASSUME Kind[d[k]] = "parallel"
      PROVE  Cleared(inst, d, Range(Branches[d[k]]))
  <2> DEFINE S == Range(Branches[d[k]])
  <2> SUFFICES ASSUME NEW i \in Planned(d), NEW m \in Planned(d), i < m, Touches(S, d[m])
               PROVE  StepDone(inst, d[i])
    BY DEF Cleared
  <2>1. m \in DOMAIN d
    BY PlanFacts
  <2>2. d[m] \notin S
    BY <1>0, <1>2, ParallelFacts
  <2>3. Kind[d[m]] = "parallel" /\ \E b \in Range(Branches[d[m]]) : b \in S
    BY <2>2 DEF Touches
  <2>4. m = k
    BY <1>0, <1>2, <2>1, <2>3, ParallelFacts
  <2> QED
    BY <2>4 DEF Reached
<1> QED
  BY <1>1, <1>2

(* A decision's kind and transition.                                       *)
LEMMA DecisionFields ==
    /\ \A kind, tx : Decision(kind, tx).kind = kind /\ Decision(kind, tx).tx = tx
    /\ orchestrationWait.kind = "waiting"
    /\ ErrInvalidOrchestration.kind = "error"
  BY DEF Decision, orchestrationWait, ErrInvalidOrchestration

(* A decision is to wait, or to commit what may be committed.              *)
Planning(decision) == decision.kind \in {"waiting", "error"} \/ Fine(decision.tx)

(* To wait is a decision.                                                  *)
LEMMA WaitPlanned == Planning(orchestrationWait) /\ Planning(ErrInvalidOrchestration)
  BY DecisionFields DEF Planning

(* The verdict.                                                            *)
LEMMA TerminalPlanned ==
    ASSUME IInv, NEW kind \in {"completed", "failed"},
           kind = "completed" => \A i \in Planned(definition) : StepDone(instance, definition[i]),
           kind = "failed" =>
               \E u \in Units :
                   FinalFailure(instance.units[u]) \/ instance.units[u].status = "childFailed"
    PROVE  Planning(orchestrationTerminal(instance, kind, now))
<1> DEFINE x == IF kind = "failed" THEN "instanceFailed" ELSE "instanceCompleted"
<1> DEFINE e == Event(x, now)
<1> DEFINE t == Transition(<<"planner", "terminal">>, instance.sequence, <<e>>, {})
<1>0. definition \in Definitions /\ Good(instance, definition) /\ now \in Nat
  BY DEF IInv, TypeOK
<1>1. orchestrationTerminal(instance, kind, now) = Decision(kind, t)
  BY DEF orchestrationTerminal
<1>2. t.events = <<e>> /\ t.work = {}
  BY TransitionFields
<1>3. /\ x \in {"instanceCompleted", "instanceFailed"}
      /\ x = "instanceCompleted" => kind = "completed"
      /\ x = "instanceFailed" => kind = "failed"
  OBVIOUS
<1> HIDE DEF t, x
<1>4. Good(Apply(instance, e), definition) /\ Counted(instance, Apply(instance, e), NoAction)
  BY <1>0, <1>3, VerdictGood
<1>5. Sound(instance, <<e>>, definition)
  BY <1>4, SoundOne
<1>6. Fine(t)
  BY <1>2, <1>5 DEF Fine, Dated
<1> QED
  BY <1>1, <1>6, DecisionFields DEF Planning

(* The schedule of an activity or a child.                                 *)
LEMMA SchedulePlanned ==
    ASSUME IInv, NEW s \in Units, Cleared(instance, definition, {s})
    PROVE  Planning(Decision("scheduled",
               NewActivitySchedule(instance, s, now, now + Allowance, FirstWork(s))))
<1> DEFINE e == UnitEvent("scheduled", now, s, 0)
<1> DEFINE k == PendingWork(FirstWork(s), now, now + Allowance)
<1> DEFINE t == NewActivitySchedule(instance, s, now, now + Allowance, FirstWork(s))
<1>0. definition \in Definitions /\ Good(instance, definition) /\ now \in Nat
  BY DEF IInv, TypeOK
<1>1. t.events = <<e>> /\ t.work = {k}
  BY TransitionFields DEF NewActivitySchedule
<1>2. k.available = now /\ k.deadline = now + Allowance /\ now + Allowance \in Nat
  BY <1>0, OrchestrationAssumption DEF PendingWork
<1>3. e \in UnitEvents(Keys) /\ e.step = s
  <2>1. "scheduled" \in UnitEventKinds
    BY DEF UnitEventKinds
  <2> QED
    BY <1>0, <2>1, PlainUnitEvent
<1> HIDE DEF t, e, k
<1>4. Sound(instance, <<e>>, definition)
  BY <1>0, <1>3, SoundUnit
<1>5. Fine(t)
  BY <1>0, <1>1, <1>2, <1>4 DEF Fine, Dated
<1> QED
  BY <1>5, DecisionFields DEF Planning, t

(* An activity that is reached.                                            *)
LEMMA ActivityPlanned ==
    ASSUME IInv, NEW s \in Units, Cleared(instance, definition, {s})
    PROVE  Planning(decideActivityStep(instance, s, now, now + Allowance))
<1> DEFINE p == instance.units[s]
<1> DEFINE A == p.status = "none"
<1> DEFINE B == FinalFailure(p)
<1> DEFINE C == CanSchedule(instance, s, now, now + Allowance)
<1> DEFINE y == Decision("scheduled",
                    NewActivitySchedule(instance, s, now, now + Allowance, FirstWork(s)))
<1> DEFINE z == orchestrationTerminal(instance, "failed", now)
<1>1. decideActivityStep(instance, s, now, now + Allowance) =
          CASE A -> IF C THEN y ELSE ErrInvalidOrchestration
            [] B -> z
            [] OTHER -> orchestrationWait
  BY Zenon DEF decideActivityStep
<1>2. Planning(y)
  BY SchedulePlanned
<1>3. B => Planning(z)
  BY TerminalPlanned
<1> HIDE DEF A, B, C, y, z
<1> QED
  BY <1>1, <1>2, <1>3, WaitPlanned

(* A child that is reached.                                                *)
LEMMA ChildPlanned ==
    ASSUME IInv, NEW s \in Units, Cleared(instance, definition, {s})
    PROVE  Planning(decideChildStep(instance, s, now, now + Allowance))
<1> DEFINE p == instance.units[s]
<1> DEFINE A == p.status = "none"
<1> DEFINE B == FinalFailure(p) \/ p.status = "childFailed"
<1> DEFINE C == CanScheduleChild(instance, s, now, now + Allowance)
<1> DEFINE y == Decision("scheduled",
                    NewActivitySchedule(instance, s, now, now + Allowance, FirstWork(s)))
<1> DEFINE z == orchestrationTerminal(instance, "failed", now)
<1>1. decideChildStep(instance, s, now, now + Allowance) =
          CASE A -> IF C THEN y ELSE ErrInvalidOrchestration
            [] B -> z
            [] OTHER -> orchestrationWait
  BY Zenon DEF decideChildStep, NewChildSchedule
<1>2. Planning(y)
  BY SchedulePlanned
<1>3. B => Planning(z)
  BY TerminalPlanned
<1> HIDE DEF A, B, C, y, z
<1> QED
  BY <1>1, <1>2, <1>3, WaitPlanned

(* A timer that is reached.                                                *)
LEMMA TimerPlanned ==
    ASSUME IInv, NEW s \in Waits, Cleared(instance, definition, {s})
    PROVE  Planning(decideTimerStep(instance, s, now, now + Allowance))
<1> DEFINE A == instance.waits[s].status = "none"
<1> DEFINE C == CanScheduleTimer(now, now + Allowance)
<1> DEFINE t == NewTimerSchedule(instance, s, now, now + Allowance, FirstWork(s))
<1> DEFINE y == Decision("scheduled", t)
<1> DEFINE due == now + Timeout
<1> DEFINE e == EventRecord("timerScheduled", now, s, 0, NoKey, due, FALSE, NoAction)
<1> DEFINE k == PendingWork(FirstWork(s), due, now + Allowance)
<1>0. definition \in Definitions /\ Good(instance, definition) /\ now \in Nat
  BY DEF IInv, TypeOK
<1>1. decideTimerStep(instance, s, now, now + Allowance) =
          CASE A -> IF C THEN y ELSE ErrInvalidOrchestration
            [] OTHER -> orchestrationWait
  BY Zenon DEF decideTimerStep
<1>2. due \in Nat /\ now + Allowance \in Nat
  BY <1>0, PolicyAssumption, OrchestrationAssumption
<1>3. t.events = <<e>> /\ t.work = {k}
  <2>1. [WaitEvent("timerScheduled", now, s) EXCEPT !.dueAt = due] = e
    <3> HIDE DEF due
    <3> QED
      BY TimerEventValue, Zenon
  <2>2. /\ t.events = <<[WaitEvent("timerScheduled", now, s) EXCEPT !.dueAt = due]>>
        /\ t.work = {k}
    BY TransitionFields DEF NewTimerSchedule
  <2> HIDE DEF e, t, k
  <2> QED
    BY <2>1, <2>2
<1>4. e \in WaitEvents /\ e.kind = "timerScheduled" /\ e.step = s
  <2>1. /\ "timerScheduled" \in {"timerScheduled", "timerFired", "signalReceived", "raceWon"}
        /\ 0 \in {0} /\ FALSE \in {FALSE} /\ NoKey \in Waits \cup {NoKey} /\ NoAction \in {NoAction}
    OBVIOUS
  <2> HIDE DEF due
  <2>2. e \in WaitEvents
    BY <1>0, <1>2, <2>1, Zenon DEF WaitEvents, EventRecord
  <2>3. e.kind = "timerScheduled" /\ e.step = s
    BY DEF EventRecord
  <2> QED
    BY <2>2, <2>3
<1>5. k.available = due /\ k.deadline = now + Allowance
  BY DEF PendingWork
<1> HIDE DEF e, t, k, due
<1>6. Sound(instance, <<e>>, definition)
  BY <1>0, <1>4, SoundWait
<1>7. Fine(t)
  BY <1>2, <1>3, <1>5, <1>6 DEF Fine, Dated
<1>8. Planning(y)
  BY <1>7, DecisionFields DEF Planning
<1> HIDE DEF A, C, y
<1> QED
  BY <1>1, <1>8, WaitPlanned

(* A race that is reached.                                                 *)
LEMMA RacePlanned ==
    ASSUME IInv, NEW s \in Range(definition), Kind[s] = "race",
           Cleared(instance, definition, {s})
    PROVE  Planning(decideRaceStep(instance, s, now))
<1> DEFINE A == \A b \in Range(Branches[s]) : instance.waits[b].status # "received"
<1> DEFINE w == Winner(instance, Branches[s])
<1> DEFINE e == EventRecord("raceWon", now, s, 0, w, 0, FALSE, NoAction)
<1> DEFINE t == Transition(<<"planner", "race">>, instance.sequence,
                           <<[WaitEvent("raceWon", now, s) EXCEPT !.key = w]>>, {})
<1>0. definition \in Definitions /\ Good(instance, definition) /\ now \in Nat
  BY DEF IInv, TypeOK
<1>1. decideRaceStep(instance, s, now) = IF A THEN orchestrationWait ELSE Decision("recorded", t)
  BY Zenon DEF decideRaceStep
<1>2. t.events = <<e>> /\ t.work = {}
  <2>1. [WaitEvent("raceWon", now, s) EXCEPT !.key = w] = e
    <3> HIDE DEF w
    <3> QED
      BY RaceEventValue, Zenon
  <2>2. t.events = <<[WaitEvent("raceWon", now, s) EXCEPT !.key = w]>> /\ t.work = {}
    BY TransitionFields
  <2> HIDE DEF e, t
  <2> QED
    BY <2>1, <2>2
<1>3. ASSUME ~A
      PROVE  Fine(t)
  <2>1. /\ s \in Waits
        /\ DOMAIN Branches[s] \subseteq Nat
        /\ \A b \in Range(Branches[s]) : b \in Waits
    BY <1>0, RaceFacts
  <2>2. w \in Waits
    BY <1>0, <1>3, <2>1, WinnerValue DEF Good
  <2>3. e \in WaitEvents /\ e.kind = "raceWon" /\ e.step = s /\ e.key = w
    <3>1. /\ "raceWon" \in {"timerScheduled", "timerFired", "signalReceived", "raceWon"}
          /\ 0 \in {0} /\ 0 \in Nat /\ FALSE \in {FALSE} /\ w \in Waits \cup {NoKey}
          /\ NoAction \in {NoAction}
      BY <2>2
    <3> HIDE DEF w
    <3>2. e \in WaitEvents
      BY <1>0, <2>1, <3>1, Zenon DEF WaitEvents, EventRecord
    <3>3. e.kind = "raceWon" /\ e.step = s /\ e.key = w
      BY DEF EventRecord
    <3> QED
      BY <3>2, <3>3
  <2> HIDE DEF e
  <2>4. Good(Apply(instance, e), definition) /\ Counted(instance, Apply(instance, e), NoAction)
    BY <1>0, <1>3, <2>3, RaceGood
  <2>5. Sound(instance, <<e>>, definition)
    BY <2>4, SoundOne
  <2> QED
    BY <1>2, <2>5 DEF Fine, Dated
<1> HIDE DEF A, t
<1> QED
  BY <1>1, <1>3, WaitPlanned, DecisionFields DEF Planning

(* A parallel that is reached: all its branches are scheduled by one       *)
(* transition, or one of them has failed for good.                         *)
LEMMA ParallelPlanned ==
    ASSUME IInv, NEW k, Reached(instance, definition, k), Kind[definition[k]] = "parallel",
           instance.valid => instance.pendingOperator = NoAction
    PROVE  Planning(decideParallelStep(instance, definition[k], now, now + Allowance))
<1> DEFINE s == definition[k]
<1> DEFINE branches == Branches[s]
<1> DEFINE deadline == now + Allowance
<1> DEFINE progress(i) == instance.units[branches[i]]
<1> DEFINE missing == {i \in DOMAIN branches : progress(i).status = "none"}
<1> DEFINE open == {i \in DOMAIN branches : progress(i).status \notin {"none", "succeeded"}}
<1> DEFINE A == open # {}
<1> DEFINE B == open = {} /\ missing = DOMAIN branches /\ PendingWorkValid(now, deadline)
<1> DEFINE C == FinalFailure(progress(Min(open)))
<1> DEFINE z == orchestrationTerminal(instance, "failed", now)
<1> DEFINE t == newParallelActivitySchedule(instance, branches, now, deadline)
<1> DEFINE y == Decision("scheduled", t)
<1>0. definition \in Definitions /\ Good(instance, definition) /\ now \in Nat /\ deadline \in Nat
  BY OrchestrationAssumption DEF IInv, TypeOK
<1>1. decideParallelStep(instance, s, now, deadline) =
          CASE A -> IF C THEN z ELSE orchestrationWait
            [] B -> y
            [] OTHER -> ErrInvalidOrchestration
  BY Zenon DEF decideParallelStep
<1>2. k \in DOMAIN definition
  BY <1>0, PlanFacts DEF Reached
<1>3. branches \in Seq(DOMAIN Kind) /\ \A b \in Range(branches) : b \in Units
  BY <1>0, <1>2, ParallelFacts
<1>4. Cleared(instance, definition, Range(branches))
  BY <1>0, ReachedCleared
<1> HIDE DEF branches, deadline
<1>5. A /\ C => Planning(z)
  <2> SUFFICES ASSUME A, C PROVE Planning(z)
    OBVIOUS
  <2>1. open \in SUBSET Nat
    BY <1>3
  <2>2. \E m \in open : \A n \in open : m <= n
    <3> HIDE DEF open
    <3> QED
      BY <2>1, LeastNatural
  <2>3. Min(open) \in open
    <3> HIDE DEF open
    <3> QED
      BY <2>2 DEF Min
  <2>4. branches[Min(open)] \in Units
    BY <1>3, <2>3 DEF Range
  <2> QED
    BY <2>4, TerminalPlanned
<1>6. Planning(y)
  <2> DEFINE events == [i \in DOMAIN branches |-> UnitEvent("scheduled", now, branches[i], 0)]
  <2> DEFINE pending == {PendingWork(FirstWork(b), now, deadline) : b \in Range(branches)}
  <2>1. t.events = events /\ t.work = pending
    BY TransitionFields DEF newParallelActivitySchedule
  <2>2. \A i \in DOMAIN branches :
            /\ UnitEvent("scheduled", now, branches[i], 0) \in UnitEvents(Keys)
            /\ UnitEvent("scheduled", now, branches[i], 0).step = branches[i]
            /\ branches[i] \in Range(branches)
    <3> SUFFICES ASSUME NEW i \in DOMAIN branches
                 PROVE  /\ UnitEvent("scheduled", now, branches[i], 0) \in UnitEvents(Keys)
                        /\ UnitEvent("scheduled", now, branches[i], 0).step = branches[i]
                        /\ branches[i] \in Range(branches)
      OBVIOUS
    <3>1. branches[i] \in Range(branches) /\ branches[i] \in Units
      BY <1>3 DEF Range
    <3>2. "scheduled" \in UnitEventKinds
      BY DEF UnitEventKinds
    <3> QED
      BY <1>0, <3>1, <3>2, PlainUnitEvent
  <2>3. events \in Seq(UnitEvents(Keys)) /\ \A n \in DOMAIN events : events[n].step \in Range(branches)
    <3>1. DOMAIN branches = 1 .. Len(branches) /\ Len(branches) \in Nat
      BY <1>3
    <3>2. events \in [1 .. Len(branches) -> UnitEvents(Keys)]
      BY <2>2, <3>1
    <3>3. events \in Seq(UnitEvents(Keys))
      <4> HIDE DEF events
      <4> QED
        BY <3>1, <3>2
    <3> QED
      BY <2>2, <3>3
  <2> HIDE DEF events, t
  <2>4. Sound(instance, events, definition)
    BY <1>0, <1>4, <2>3, SoundMany
  <2>5. Dated(pending)
    BY <1>0 DEF Dated, PendingWork
  <2>6. Fine(t)
    BY <2>1, <2>4, <2>5 DEF Fine
  <2> QED
    BY <2>6, DecisionFields DEF Planning
<1> HIDE DEF A, B, C, y, z
<1> QED
  BY <1>1, <1>5, <1>6, WaitPlanned DEF deadline

(* The planner decides.                                                    *)
LEMMA DecideHolds == ASSUME IInv, Decide PROVE IInv'
<1> DEFINE deadline == now + Allowance
<1> DEFINE decision == NewOrchestrationDecision(instance, definition, now, deadline)
<1>1. /\ Readable(instance)
      /\ decision.kind \notin {"waiting", "error"}
      /\ Land(decision.tx, {})
      /\ UNCHANGED <<now, definition, calls>>
  BY DEF Decide
<1>0. definition \in Definitions /\ Good(instance, definition) /\ instance.pendingOperator = NoAction
  BY <1>1 DEF IInv, TypeOK, Readable
<1>2. Planning(decision)
  <2> DEFINE k == FirstOpen(instance, definition)
  <2> DEFINE s == definition[k]
  <2> DEFINE x1 == decideActivityStep(instance, s, now, deadline)
  <2> DEFINE x2 == decideTimerStep(instance, s, now, deadline)
  <2> DEFINE x3 == decideChildStep(instance, s, now, deadline)
  <2> DEFINE x4 == decideParallelStep(instance, s, now, deadline)
  <2> DEFINE x5 == decideRaceStep(instance, s, now)
  <2> DEFINE x0 == orchestrationTerminal(instance, "completed", now)
  <2> DEFINE last == CASE Kind[s] = "activity"  -> x1
                       [] Kind[s] = "timer"     -> x2
                       [] Kind[s] = "child"     -> x3
                       [] Kind[s] = "parallel"  -> x4
                       [] Kind[s] = "race"      -> x5
                       [] OTHER                 -> orchestrationWait
  <2>1. decision = IF instance.status # "running" THEN ErrInvalidOrchestration
                   ELSE IF Open(instance, definition) = {} THEN x0
                   ELSE last
    BY Zenon DEF NewOrchestrationDecision
  <2>2. ASSUME Open(instance, definition) = {}
        PROVE  Planning(x0)
    <3>1. \A i \in Planned(definition) : StepDone(instance, definition[i])
      BY <2>2 DEF Open
    <3> QED
      BY <3>1, TerminalPlanned
  <2>3. ASSUME Open(instance, definition) # {}
        PROVE  Planning(last)
    <3>1. Reached(instance, definition, k)
      BY <1>0, <2>3, FirstOpenReached
    <3> HIDE DEF k
    <3>2. k \in DOMAIN definition /\ s \in DOMAIN Kind /\ s \in Range(definition)
      BY <1>0, <3>1, PlanFacts DEF Reached, Range
    <3>3. Cleared(instance, definition, {s})
      BY <1>0, <3>1, ReachedCleared
    <3>4. Kind[s] = "activity" => Planning(x1)
      BY <3>2, <3>3, ActivityPlanned DEF Units, UnitKinds
    <3>5. Kind[s] = "timer" => Planning(x2)
      BY <3>2, <3>3, TimerPlanned DEF Waits, WaitKinds
    <3>6. Kind[s] = "child" => Planning(x3)
      BY <3>2, <3>3, ChildPlanned DEF Units, UnitKinds
    <3>7. Kind[s] = "parallel" => Planning(x4)
      BY <1>0, <3>1, ParallelPlanned
    <3>8. Kind[s] = "race" => Planning(x5)
      BY <3>2, <3>3, RacePlanned
    <3> HIDE DEF s, x1, x2, x3, x4, x5
    <3> QED
      BY <3>4, <3>5, <3>6, <3>7, <3>8, WaitPlanned
  <2> HIDE DEF decision, last, x0
  <2> QED
    BY <2>1, <2>2, <2>3, WaitPlanned
<1> HIDE DEF decision
<1>3. Fine(decision.tx)
  BY <1>1, <1>2 DEF Planning
<1> QED
  BY <1>1, <1>3, CommitHolds DEF Fine

-----------------------------------------------------------------------------
(* Every step keeps the invariant.                                         *)
LEMMA StepHolds == IInv /\ [Next]_vars => IInv'
<1> SUFFICES ASSUME IInv, [Next]_vars PROVE IInv'
  OBVIOUS
<1>1. CASE Tick
  BY <1>1, TickHolds
<1>2. CASE Decide
  BY <1>2, DecideHolds
<1>3. ASSUME NEW w \in WorkIDs,
             Deliver(w) \/ Inspect(w) \/ Answer(w) \/ Lose(w) \/ FireTimer(w)
      PROVE  IInv'
  BY <1>3, DeliverHolds, InspectHolds, AnswerHolds, LoseHolds, FireTimerHolds
<1>4. ASSUME NEW s \in Waits, Signal(s) \/ Approve(s)
      PROVE  IInv'
  BY <1>4, SignalHolds, ApproveHolds
<1>5. ASSUME NEW u \in Units, ReportChild(u)
      PROVE  IInv'
  BY <1>5, ReportChildHolds
<1>6. CASE Pause \/ Resume
  BY <1>6, OperateHolds DEF Pause, Resume
<1>7. CASE UNCHANGED vars
  <2>1. /\ UNCHANGED <<definition, sequence, instance>> /\ now' \in Nat
        /\ work' \in [WorkIDs -> Row] /\ calls' \in [WorkIDs -> 0 .. sequence]
        /\ \A w \in WorkIDs : calls[w] = 0 => calls'[w] = 0
    BY <1>7 DEF vars, IInv, TypeOK
  <2> QED
    BY <2>1, AsideHolds
<1> QED
  BY <1>1, <1>2, <1>3, <1>4, <1>5, <1>6, <1>7 DEF Next, Step

(* The invariant holds in every state of every orchestrated instance,      *)
(* whatever definition NewDefinition has accepted for it.                  *)
THEOREM InvariantHolds == Spec => []IInv
<1>1. Init => IInv
  BY InitHolds
<1>2. IInv /\ [Next]_vars => IInv'
  BY StepHolds
<1> QED
  BY <1>1, <1>2, PTL DEF Spec

(* The types, and the row of the instance in step with its history: a      *)
(* processor that has read the history commits on the sequence the row has *)
(* (Replay and CommitTransition's expected sequence).                      *)
THEOREM TypeCorrect == Spec => []TypeOK
<1>1. IInv => TypeOK
  BY DEF IInv
<1> QED
  BY <1>1, InvariantHolds, PTL

(* NewOrchestrationDecision takes the steps of a definition in order: none *)
(* begins before those ahead of it are done, however late or often their   *)
(* work is delivered, and whenever signals come.                           *)
THEOREM StepsKeepOrder == Spec => []StepsInOrder
<1>1. IInv => StepsInOrder
  BY DEF IInv, Good, Ordered, StepsInOrder
<1> QED
  BY <1>1, InvariantHolds, PTL

(* The planner completes an instance only when all its steps are done, and *)
(* fails it only on a failure that is known and final: never on an unknown *)
(* outcome.                                                                *)
THEOREM VerdictsAreKnown == Spec => []VerdictIsKnown
<1>1. IInv => VerdictIsKnown
  BY DEF IInv, Good, Verdict, VerdictIsKnown
<1> QED
  BY <1>1, InvariantHolds, PTL

(* The winner decideRaceStep records is an earliest signal of its race,    *)
(* and stays one: a signal accepted after the decision is not earlier.     *)
THEOREM WinnersAreEarliest == Spec => []WinnerIsEarliest
<1>1. IInv => WinnerIsEarliest
  BY DEF IInv, Good, Decided, WinnerIsEarliest
<1> QED
  BY <1>1, InvariantHolds, PTL
=============================================================================
