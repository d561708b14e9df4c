-------------------------- MODULE WorkerRunProofs --------------------------
(***************************************************************************)
(* What Worker.Run and Worker.Handle keep to for every number of leases,   *)
(* every MaxConcurrent and every ClaimLimit.                               *)
(***************************************************************************)
EXTENDS WorkerRun, FiniteSetTheorems, TLAPS

(* Run counts a handler from the moment it starts it until it takes its    *)
(* report, so active is the handlers still running and the reports still   *)
(* in the channel; claims never let it pass MaxConcurrent.                 *)
ActiveCounted ==
    /\ active = Cardinality(Live) + results
    /\ active <= MaxConcurrent

(* Where Handle is tells how far its processor goroutine can be: not       *)
(* started before the loop, joined when the loop is left, and decided when *)
(* finalize is called.                                                     *)
ProcessorJoined ==
    \A l \in Leases :
        /\ loop[l] \in {"unclaimed", "dropped", "start"} => processor[l] = "none"
        /\ loop[l] \in {"finalize", "report", "done"} => processor[l] # "running"

(* handlers.Wait() has returned.                                           *)
ReturnedAlone == run = "returned" => Live = {}

IInv ==
    /\ TypeOK
    /\ ActiveCounted
    /\ ProcessorJoined
    /\ ReturnedAlone

-----------------------------------------------------------------------------
(* The goroutines that run can be counted.                                 *)
LEMMA LiveFinite == IsFiniteSet(Live) /\ Cardinality(Live) \in Nat
  <1>1. Live \in SUBSET Leases
    BY DEF Live
  <1>2. IsFiniteSet(Live)
    BY <1>1, RunAssumption, FS_Subset
  <1> QED
    BY <1>2, FS_CardinalityType

(* So can they after a step.                                               *)
LEMMA LiveFinitePrime == IsFiniteSet(Live') /\ Cardinality(Live') \in Nat
  <1>1. Live' \in SUBSET Leases
    BY DEF Live
  <1>2. IsFiniteSet(Live')
    BY <1>1, RunAssumption, FS_Subset
  <1> QED
    BY <1>2, FS_CardinalityType

(* Handle's steps short of its report, and the steps of Run short of a     *)
(* claim, leave the set of handlers alone.                                 *)
LEMMA GoesStaysLive ==
    ASSUME TypeOK, NEW l \in Leases, NEW from, NEW to, Goes(l, from, to),
           from \notin {"unclaimed", "dropped", "done"},
           to \notin {"unclaimed", "dropped", "done"}
    PROVE  Live' = Live
  BY DEF Goes, Live, TypeOK

(* One goroutine moves and the others stay.                                *)
LEMMA GoesType ==
    ASSUME TypeOK, NEW l \in Leases, NEW from, NEW to \in LoopStates, Goes(l, from, to)
    PROVE  /\ loop' \in [Leases -> LoopStates]
           /\ loop[l] = from
           /\ loop'[l] = to
           /\ \A m \in Leases : m # l => loop'[m] = loop[m]
  BY DEF Goes, TypeOK

(* A step of Handle inside its loop that leaves the processor alone keeps  *)
(* the invariant when the place it goes to agrees with the processor.      *)
LEMMA HandleMoves ==
    ASSUME IInv, NEW l \in Leases, NEW from, NEW to \in LoopStates, Goes(l, from, to),
           from \notin {"unclaimed", "dropped", "done"},
           to \notin {"unclaimed", "dropped", "start", "done"},
           to \in {"finalize", "report"} => processor[l] # "running",
           processor' = processor, HandlerOnly,
           finalized' \subseteq Leases
    PROVE  IInv'
  <1> USE DEF IInv
  <1>1. Live' = Live
    BY GoesStaysLive
  <1>2. /\ loop' \in [Leases -> LoopStates]
        /\ loop'[l] = to
        /\ \A m \in Leases : m # l => loop'[m] = loop[m]
    BY GoesType
  <1>3. TypeOK'
    BY <1>2 DEF TypeOK, HandlerOnly
  <1>4. ActiveCounted'
    BY <1>1 DEF ActiveCounted, HandlerOnly
  <1>5. ProcessorJoined'
    BY <1>2 DEF ProcessorJoined
  <1>6. ReturnedAlone'
    BY <1>1 DEF ReturnedAlone, HandlerOnly
  <1> QED
    BY <1>3, <1>4, <1>5, <1>6

(* A step of Run that starts no handler and takes no report.               *)
LEMMA RunMoves ==
    ASSUME IInv, UNCHANGED <<active, results, loop, processor, finalized>>,
           run' \in RunStates, invalid' \in BOOLEAN, cancelled' \in BOOLEAN,
           run' = "returned" => Live = {}
    PROVE  IInv'
  BY DEF IInv, TypeOK, ActiveCounted, ProcessorJoined, ReturnedAlone, Live

-----------------------------------------------------------------------------
(* The invariant holds at the start.                                       *)
LEMMA InitInductive == Init => IInv
  <1> SUFFICES ASSUME Init PROVE IInv
    OBVIOUS
  <1>1. Live = {}
    BY DEF Init, Live
  <1>2. Cardinality(Live) = 0
    BY <1>1, FS_EmptySet
  <1>3. TypeOK
    BY DEF Init, TypeOK, RunStates, LoopStates, ProcessorStates
  <1>4. ActiveCounted
    BY <1>2, RunAssumption DEF Init, ActiveCounted
  <1>5. ProcessorJoined /\ ReturnedAlone
    BY DEF Init, ProcessorJoined, ReturnedAlone
  <1> QED
    BY <1>3, <1>4, <1>5 DEF IInv

(* A claim asks for no more than there is room for.                        *)
LEMMA LimitBounded ==
    ASSUME IInv
    PROVE  Limit \in Nat /\ Limit + active <= MaxConcurrent
  BY RunAssumption DEF IInv, TypeOK, ActiveCounted, Limit

(* Claimed leases are admitted.                                            *)
LEMMA AdmitInductive ==
    ASSUME IInv, NEW L \in SUBSET Unclaimed, Admit(L)
    PROVE  IInv'
  <1> USE DEF IInv
  <1>1. L \subseteq Leases /\ \A l \in L : loop[l] = "unclaimed"
    BY DEF Unclaimed
  <1>2. IsFiniteSet(L) /\ Cardinality(L) \in Nat
    BY <1>1, RunAssumption, FS_Subset, FS_CardinalityType
  <1>3. /\ loop' = [l \in Leases |-> IF l \in L THEN "start" ELSE loop[l]]
        /\ active' = active + Cardinality(L)
        /\ Cardinality(L) <= Limit
        /\ UNCHANGED <<invalid, cancelled, results, processor, finalized>>
        /\ run' \in {"select", "top"}
    BY DEF Admit
  <1>4. Live' = Live \cup L /\ Live \cap L = {}
    BY <1>1, <1>3 DEF Live, TypeOK
  <1>5. Cardinality(Live') = Cardinality(Live) + Cardinality(L)
    BY <1>2, <1>4, LiveFinite, FS_Union, FS_EmptySet
  <1>6. TypeOK'
    BY <1>2, <1>3 DEF TypeOK, RunStates, LoopStates
  <1>7. ActiveCounted'
    BY <1>2, <1>3, <1>5, LimitBounded, LiveFinite, RunAssumption DEF ActiveCounted, TypeOK
  <1>8. ProcessorJoined'
    BY <1>1, <1>3 DEF ProcessorJoined, TypeOK
  <1>9. ReturnedAlone'
    BY <1>3 DEF ReturnedAlone
  <1> QED
    BY <1>6, <1>7, <1>8, <1>9

(* A claim returns more than was asked for.                                *)
LEMMA OversizedInductive ==
    ASSUME IInv, NEW L \in SUBSET Unclaimed, Oversized(L)
    PROVE  IInv'
  <1> USE DEF IInv
  <1>1. L \subseteq Leases /\ \A l \in L : loop[l] = "unclaimed"
    BY DEF Unclaimed
  <1>2. /\ loop' = [l \in Leases |-> IF l \in L THEN "dropped" ELSE loop[l]]
        /\ run' = "top" /\ invalid' = TRUE /\ cancelled' = TRUE
        /\ UNCHANGED <<active, results, processor, finalized>>
    BY DEF Oversized
  <1>3. Live' = Live
    BY <1>1, <1>2 DEF Live, TypeOK
  <1>4. TypeOK'
    BY <1>2 DEF TypeOK, RunStates, LoopStates
  <1>5. ActiveCounted' /\ ReturnedAlone'
    BY <1>2, <1>3 DEF ActiveCounted, ReturnedAlone
  <1>6. ProcessorJoined'
    BY <1>1, <1>2 DEF ProcessorJoined, TypeOK
  <1> QED
    BY <1>4, <1>5, <1>6

(* The loop goes on, or is cancelled.                                      *)
LEMMA RunInductive == IInv /\ (Cancel \/ RunStep) => IInv'
  <1> SUFFICES ASSUME IInv, Cancel \/ RunStep PROVE IInv'
    OBVIOUS
  <1> USE DEF IInv
  <1>1. CASE Cancel
    <2>1. run = "returned" => Live = {}
      BY DEF ReturnedAlone
    <2> QED BY <1>1, <2>1, RunMoves DEF Cancel, runVars, handlerVars, TypeOK
  <1>2. CASE Top
    BY <1>2, RunMoves DEF Top, handlerVars, TypeOK, RunStates
  <1>3. CASE \E L \in SUBSET Unclaimed : Admit(L)
    BY <1>3, AdmitInductive
  <1>4. CASE \E L \in SUBSET Unclaimed : Oversized(L)
    BY <1>4, OversizedInductive
  <1>5. CASE InvalidClaim \/ ClaimFails \/ Wake
    BY <1>5, RunMoves DEF InvalidClaim, ClaimFails, Wake, handlerVars, TypeOK, RunStates
  <1>6. CASE TakeReport
    <2>1. Live' = Live
      BY <1>6 DEF TakeReport, handlerVars, Live
    <2>2. TypeOK'
      BY <1>6, LiveFinite DEF TakeReport, handlerVars, TypeOK, RunStates, ActiveCounted
    <2>3. ActiveCounted'
      BY <1>6, <2>1, LiveFinite, RunAssumption DEF TakeReport, ActiveCounted, TypeOK
    <2>4. ProcessorJoined' /\ ReturnedAlone'
      BY <1>6 DEF TakeReport, handlerVars, ProcessorJoined, ReturnedAlone
    <2> QED BY <2>2, <2>3, <2>4
  <1>7. CASE Join
    BY <1>7, RunMoves DEF Join, handlerVars, TypeOK, RunStates
  <1> QED
    BY <1>1, <1>2, <1>3, <1>4, <1>5, <1>6, <1>7 DEF RunStep

(* A goroutine reports to the loop.                                        *)
LEMMA ReportInductive ==
    ASSUME IInv, NEW l \in Leases, Report(l)
    PROVE  IInv'
  <1> USE DEF IInv
  <1>1. Goes(l, "report", "done") /\ results' = results + 1
        /\ UNCHANGED <<run, invalid, active, cancelled, processor, finalized>>
    BY DEF Report, runVars
  <1>2. /\ loop' \in [Leases -> LoopStates]
        /\ loop[l] = "report"
        /\ loop'[l] = "done"
        /\ \A m \in Leases : m # l => loop'[m] = loop[m]
    BY <1>1, GoesType DEF LoopStates
  <1>3. Live' = Live \ {l} /\ l \in Live
    BY <1>2 DEF Live
  <1>4. Cardinality(Live') = Cardinality(Live) - 1
    BY <1>3, LiveFinite, FS_RemoveElement
  <1>5. TypeOK'
    BY <1>1, <1>2 DEF TypeOK
  <1>6. ActiveCounted'
    BY <1>1, <1>4, LiveFinite, RunAssumption DEF ActiveCounted, TypeOK
  <1>7. ProcessorJoined'
    BY <1>1, <1>2 DEF ProcessorJoined
  <1>8. ReturnedAlone'
    BY <1>1, <1>3 DEF ReturnedAlone
  <1> QED
    BY <1>5, <1>6, <1>7, <1>8

(* A goroutine starts its processor.                                       *)
LEMMA StartInductive ==
    ASSUME IInv, NEW l \in Leases, Start(l)
    PROVE  IInv'
  <1> USE DEF IInv
  <1>1. Goes(l, "start", "select") /\ processor' = [processor EXCEPT ![l] = "running"]
        /\ UNCHANGED finalized /\ HandlerOnly
    BY DEF Start
  <1>2. Live' = Live
    BY <1>1, GoesStaysLive
  <1>3. /\ loop' \in [Leases -> LoopStates]
        /\ loop'[l] = "select"
        /\ \A m \in Leases : m # l => loop'[m] = loop[m]
    BY <1>1, GoesType DEF LoopStates
  <1>4. TypeOK'
    BY <1>1, <1>3 DEF TypeOK, HandlerOnly, ProcessorStates
  <1>5. ActiveCounted' /\ ReturnedAlone'
    BY <1>1, <1>2 DEF ActiveCounted, ReturnedAlone, HandlerOnly
  <1>6. ProcessorJoined'
    BY <1>1, <1>3 DEF ProcessorJoined, TypeOK
  <1> QED
    BY <1>4, <1>5, <1>6

(* A processor returns.                                                    *)
LEMMA ProcessorInductive ==
    ASSUME IInv, NEW l \in Leases, ProcessorReturns(l)
    PROVE  IInv'
  <1> USE DEF IInv
  <1>1. PICK result \in {"decided", "failed"} : processor' = [processor EXCEPT ![l] = result]
    BY DEF ProcessorReturns
  <1>2. processor[l] = "running" /\ UNCHANGED <<loop, finalized>> /\ HandlerOnly
    BY DEF ProcessorReturns
  <1>3. TypeOK'
    BY <1>1, <1>2 DEF TypeOK, HandlerOnly, ProcessorStates
  <1>4. ActiveCounted' /\ ReturnedAlone'
    BY <1>2 DEF ActiveCounted, ReturnedAlone, HandlerOnly, Live
  <1>5. ProcessorJoined'
    BY <1>1, <1>2 DEF ProcessorJoined, TypeOK
  <1> QED
    BY <1>3, <1>4, <1>5

(* Handle renews, waits or disposes of the work.                           *)
LEMMA HandleInductive ==
    ASSUME IInv, NEW l \in Leases, HandleStep(l) \/ BeginRenew(l)
    PROVE  IInv'
  <1> USE DEF LoopStates
  <1>0. finalized \subseteq Leases
        /\ (loop[l] = "start" => processor[l] = "none")
        /\ (loop[l] = "finalize" => processor[l] # "running")
    BY DEF IInv, TypeOK, ProcessorJoined
  <1>1. CASE RejectLease(l)
    BY <1>0, <1>1, HandleMoves DEF RejectLease, Goes
  <1>2. CASE Receive(l)
    BY <1>0, <1>2, HandleMoves DEF Receive, AfterResult
  <1>3. CASE BeginRenew(l)
    BY <1>0, <1>3, HandleMoves DEF BeginRenew
  <1>4. CASE Renewed(l)
    BY <1>0, <1>4, HandleMoves DEF Renewed
  <1>5. CASE RenewFails(l)
    BY <1>0, <1>5, HandleMoves DEF RenewFails
  <1>6. CASE Quit(l)
    BY <1>0, <1>6, HandleMoves DEF Quit
  <1>7. CASE SeesCancellation(l)
    BY <1>0, <1>7, HandleMoves DEF SeesCancellation
  <1>8. CASE Drain(l)
    BY <1>0, <1>8, HandleMoves DEF Drain, AfterResult
  <1>9. CASE Finalize(l)
    <2>1. Goes(l, "finalize", "report") /\ loop[l] = "finalize"
          /\ finalized' \subseteq Leases /\ processor' = processor /\ HandlerOnly
      BY <1>0, <1>9 DEF Finalize, Goes
    <2> QED BY <1>0, <2>1, HandleMoves
  <1> QED
    BY <1>1, <1>2, <1>3, <1>4, <1>5, <1>6, <1>7, <1>8, <1>9, StartInductive,
       ReportInductive DEF HandleStep

(* Every step keeps the invariant.                                         *)
LEMMA NextInductive == IInv /\ [Next]_vars => IInv'
  <1>1. IInv /\ UNCHANGED vars => IInv'
    BY DEF vars, IInv, TypeOK, ActiveCounted, ProcessorJoined, ReturnedAlone, Live
  <1> QED
    BY <1>1, RunInductive, HandleInductive, ProcessorInductive DEF Next

(* It always holds.                                                        *)
LEMMA Inductive == Spec => []IInv
  BY InitInductive, NextInductive, PTL DEF Spec

-----------------------------------------------------------------------------
(* The variables of Run and Handle keep their types: active and results    *)
(* never go below zero, though Run decrements both.                        *)
THEOREM RunTypeCorrect == Spec => []TypeOK
  <1>1. IInv => TypeOK
    BY DEF IInv
  <1> QED
    BY <1>1, Inductive, PTL

(* Run never has more than MaxConcurrent handlers whose report it has not  *)
(* taken, so the results channel always has room for every handler's       *)
(* report and no handler can be stuck in it while Run waits in             *)
(* handlers.Wait(), whatever leases the store answers a claim with.        *)
THEOREM RoomForEveryReport == Spec => []ReportsHaveRoom
  <1>1. IInv => ReportsHaveRoom
    BY LiveFinite DEF IInv, ActiveCounted, ReportsHaveRoom
  <1> QED
    BY <1>1, Inductive, PTL

(* When Run has returned, every Handle it started has returned and every   *)
(* processor goroutine a Handle started has sent its result.               *)
THEOREM RunJoinsAll == Spec => []NothingOutlivesRun
  <1>1. ASSUME IInv, run = "returned", NEW l \in Leases
        PROVE  processor[l] # "running"
    <2>1. loop[l] \in {"unclaimed", "dropped", "done"}
      BY <1>1 DEF IInv, ReturnedAlone, Live
    <2> QED BY <1>1, <2>1 DEF IInv, ProcessorJoined
  <1>2. IInv => NothingOutlivesRun
    BY <1>1 DEF IInv, ReturnedAlone, NothingOutlivesRun
  <1> QED
    BY <1>2, Inductive, PTL

(* A Handle that leaves for its report while its processor has decided has *)
(* called finalize, cancelled or not; only a Handle whose renewal failed   *)
(* drops a decision.                                                       *)
THEOREM NoDecisionLost == Spec => DecisionsAreSent
  <1> DEFINE P(l) == (loop[l] # "report" /\ loop'[l] = "report" /\ processor[l] = "decided")
                        => l \in finalized' \/ loop[l] = "quit"
  <1>1. ASSUME IInv, Next, NEW l \in Leases PROVE P(l)
    <2> USE DEF IInv
    <2>0. /\ loop \in [Leases -> LoopStates]
          /\ loop[l] = "start" => processor[l] = "none"
      BY <1>1 DEF TypeOK, ProcessorJoined
    <2>1. CASE Cancel \/ RunStep
      BY <1>1, <2>0, <2>1 DEF Cancel, RunStep, Top, Admit, Oversized, InvalidClaim, ClaimFails,
            Wake, TakeReport, Join, handlerVars, runVars
    <2>2. CASE \E m \in Leases : ProcessorReturns(m)
      BY <2>2 DEF ProcessorReturns
    <2>3. ASSUME NEW m \in Leases, HandleStep(m) \/ BeginRenew(m), m # l PROVE P(l)
      BY <1>1, <2>0, <2>3 DEF HandleStep, BeginRenew, Start, RejectLease, Receive, Renewed,
            RenewFails, Quit, SeesCancellation, Drain, Finalize, Report, Goes
    <2>4. CASE HandleStep(l) \/ BeginRenew(l)
      BY <1>1, <2>0, <2>4 DEF HandleStep, BeginRenew, Start, RejectLease, Receive, Renewed,
            RenewFails, Quit, SeesCancellation, Drain, Finalize, Report, Goes, AfterResult
    <2> QED BY <1>1, <2>1, <2>2, <2>3, <2>4 DEF Next
  <1>2. IInv /\ [Next]_vars => [\A l \in Leases : P(l)]_vars
    BY <1>1
  <1> QED
    BY <1>2, Inductive, PTL DEF Spec, DecisionsAreSent
=============================================================================
