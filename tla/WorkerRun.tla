----------------------------- MODULE WorkerRun -----------------------------
(***************************************************************************)
(* The goroutines of one worker: Worker.Run, which claims work while it    *)
(* has capacity, one Worker.Handle per claimed lease, and the processor    *)
(* goroutine each Handle starts.  Handlers report to Run through a         *)
(* buffered channel; a wait group joins them at shutdown.                  *)
(*                                                                         *)
(* What the store does with claims, renewals and dispositions is the       *)
(* subject of WorkLease; here only their answers matter.                   *)
(***************************************************************************)
EXTENDS Naturals, FiniteSets

CONSTANTS
    Leases,         \* leases the store may hand out, each once
    MaxConcurrent,  \* WorkerConfig.MaxConcurrent
    ClaimLimit      \* WorkerConfig.ClaimLimit

ASSUME RunAssumption ==
    /\ IsFiniteSet(Leases)
    /\ MaxConcurrent \in Nat \ {0}
    /\ ClaimLimit \in Nat \ {0}

VARIABLES
    run,        \* where Run is
    invalid,    \* runErr is ErrInvalidWorker
    cancelled,  \* runContext is done
    active,     \* handlers Run has started and not yet heard of
    results,    \* reports in the channel
    loop,       \* where the Handle of each lease is
    processor,  \* its processor goroutine and the result it sent
    finalized   \* leases whose decision Handle gave to finalize

vars == <<run, invalid, cancelled, active, results, loop, processor, finalized>>
runVars == <<run, invalid, active>>
handlerVars == <<loop, processor, finalized>>

RunStates == {"top", "claim", "select", "join", "returned"}

(* "drain" and "quit" both wait for the processor after a cancellation:    *)
(* drain then uses its result, quit, after a failed renewal, drops it.     *)
LoopStates ==
    {"unclaimed", "dropped", "start", "select", "renew", "drain", "quit", "finalize",
     "report", "done"}

ProcessorStates == {"none", "running", "decided", "failed"}

Live == {l \in Leases : loop[l] \notin {"unclaimed", "dropped", "done"}}

Init ==
    /\ run = "top"
    /\ invalid = FALSE
    /\ cancelled = FALSE
    /\ active = 0
    /\ results = 0
    /\ loop = [l \in Leases |-> "unclaimed"]
    /\ processor = [l \in Leases |-> "none"]
    /\ finalized = {}

-----------------------------------------------------------------------------
(* Run.                                                                    *)

(* The caller cancels.                                                     *)
Cancel ==
    /\ ~cancelled
    /\ cancelled' = TRUE
    /\ UNCHANGED <<runVars, results, handlerVars>>

Top ==
    /\ run = "top"
    /\ run' = CASE cancelled -> "join"
                [] ~cancelled /\ active < MaxConcurrent -> "claim"
                [] OTHER -> "select"
    /\ UNCHANGED <<invalid, cancelled, active, results, handlerVars>>

(* Mutant of Limit: the running handlers are not counted.                  *)
LimitOfClaim == ClaimLimit

Limit ==
    IF ClaimLimit <= MaxConcurrent - active THEN ClaimLimit
                                            ELSE MaxConcurrent - active

(* The store answers with the leases L.  Run starts a handler for each and *)
(* claims again at once, or waits when there was nothing.                  *)
Admit(L) ==
    /\ run = "claim"
    /\ Cardinality(L) <= Limit
    /\ run' = IF L = {} THEN "select" ELSE "top"
    /\ active' = active + Cardinality(L)
    /\ loop' = [l \in Leases |-> IF l \in L THEN "start" ELSE loop[l]]
    /\ UNCHANGED <<invalid, cancelled, results, processor, finalized>>

(* More leases than asked for: none is handled, and Run shuts down.        *)
Oversized(L) ==
    /\ run = "claim"
    /\ Cardinality(L) > Limit
    /\ run' = "top"
    /\ invalid' = TRUE
    /\ cancelled' = TRUE
    /\ loop' = [l \in Leases |-> IF l \in L THEN "dropped" ELSE loop[l]]
    /\ UNCHANGED <<active, results, processor, finalized>>

(* The claim request cannot be built.                                      *)
InvalidClaim ==
    /\ run = "claim"
    /\ run' = "top"
    /\ invalid' = TRUE
    /\ cancelled' = TRUE
    /\ UNCHANGED <<active, results, handlerVars>>

ClaimFails ==
    /\ run = "claim"
    /\ run' = "select"
    /\ UNCHANGED <<invalid, cancelled, active, results, handlerVars>>

(* The three cases of Run's select; the poll timer may always fire.        *)
Wake ==
    /\ run = "select"
    /\ run' = "top"
    /\ UNCHANGED <<invalid, cancelled, active, results, handlerVars>>

(* Mutant of TakeReport: a channel that was closed never blocks.           *)
TakeReportClosed ==
    /\ run = "select"
    /\ run' = "top"
    /\ results' = results - 1
    /\ active' = active - 1
    /\ UNCHANGED <<invalid, cancelled, handlerVars>>

(* Mutant of TakeReport: the handler stays counted.                        *)
TakeReportUncounted ==
    /\ run = "select"
    /\ results > 0
    /\ run' = "top"
    /\ results' = results - 1
    /\ UNCHANGED <<invalid, cancelled, active, handlerVars>>

TakeReport ==
    /\ run = "select"
    /\ results > 0
    /\ run' = "top"
    /\ results' = results - 1
    /\ active' = active - 1
    /\ UNCHANGED <<invalid, cancelled, handlerVars>>

(* handlers.Wait().                                                        *)
Join ==
    /\ run = "join"
    /\ Live = {}
    /\ run' = "returned"
    /\ UNCHANGED <<invalid, cancelled, active, results, handlerVars>>

-----------------------------------------------------------------------------
(* Handle.                                                                 *)

Goes(l, from, to) ==
    /\ loop[l] = from
    /\ loop' = [loop EXCEPT ![l] = to]

HandlerOnly == UNCHANGED <<run, invalid, cancelled, active, results>>

Start(l) ==
    /\ Goes(l, "start", "select")
    /\ processor' = [processor EXCEPT ![l] = "running"]
    /\ UNCHANGED finalized
    /\ HandlerOnly

(* The lease is not valid or not of this owner: ErrInvalidWorker.          *)
RejectLease(l) ==
    /\ Goes(l, "start", "report")
    /\ UNCHANGED <<processor, finalized>>
    /\ HandlerOnly

(* Process returns; an invalid decision counts as a failure.               *)
ProcessorReturns(l) ==
    /\ processor[l] = "running"
    /\ \E result \in {"decided", "failed"} :
          processor' = [processor EXCEPT ![l] = result]
    /\ UNCHANGED <<loop, finalized>>
    /\ HandlerOnly

(* Where a received result leads.                                          *)
AfterResult(l) == IF processor[l] = "decided" THEN "finalize" ELSE "report"

Receive(l) ==
    /\ processor[l] # "running"
    /\ Goes(l, "select", AfterResult(l))
    /\ UNCHANGED <<processor, finalized>>
    /\ HandlerOnly

BeginRenew(l) ==
    /\ Goes(l, "select", "renew")
    /\ UNCHANGED <<processor, finalized>>
    /\ HandlerOnly

Renewed(l) ==
    /\ Goes(l, "renew", "select")
    /\ UNCHANGED <<processor, finalized>>
    /\ HandlerOnly

(* Mutant of RenewFails: Handle returns without joining the processor.     *)
RenewFailsUnjoined(l) ==
    /\ Goes(l, "renew", "report")
    /\ UNCHANGED <<processor, finalized>>
    /\ HandlerOnly

RenewFails(l) ==
    /\ Goes(l, "renew", "quit")
    /\ UNCHANGED <<processor, finalized>>
    /\ HandlerOnly

Quit(l) ==
    /\ processor[l] # "running"
    /\ Goes(l, "quit", "report")
    /\ UNCHANGED <<processor, finalized>>
    /\ HandlerOnly

SeesCancellation(l) ==
    /\ cancelled
    /\ Goes(l, "select", "drain")
    /\ UNCHANGED <<processor, finalized>>
    /\ HandlerOnly

(* Mutant of Drain: whatever the processor decided, Handle returns the     *)
(* error of the context.                                                   *)
DrainDropped(l) ==
    /\ processor[l] # "running"
    /\ Goes(l, "drain", "report")
    /\ UNCHANGED <<processor, finalized>>
    /\ HandlerOnly

Drain(l) ==
    /\ processor[l] # "running"
    /\ Goes(l, "drain", AfterResult(l))
    /\ UNCHANGED <<processor, finalized>>
    /\ HandlerOnly

(* finalize: the request goes out under a context of its own, and Handle   *)
(* returns whatever the store answers, or the error of a request that      *)
(* could not be built (a retry time that has passed).                      *)
Finalize(l) ==
    /\ Goes(l, "finalize", "report")
    /\ finalized' = finalized \cup {l}
    /\ UNCHANGED processor
    /\ HandlerOnly

(* Mutant of Room: a channel that holds one report.                        *)
RoomForOne == results < 1

(* The results channel has capacity MaxConcurrent.                         *)
Room == results < MaxConcurrent

(* results <- struct{}{}, then handlers.Done().                            *)
Report(l) ==
    /\ Room
    /\ Goes(l, "report", "done")
    /\ results' = results + 1
    /\ UNCHANGED <<runVars, cancelled, processor, finalized>>

-----------------------------------------------------------------------------
Unclaimed == {l \in Leases : loop[l] = "unclaimed"}

RunStep ==
    \/ Top
    \/ \E L \in SUBSET Unclaimed : Admit(L)
    \/ \E L \in SUBSET Unclaimed : Oversized(L)
    \/ InvalidClaim
    \/ ClaimFails
    \/ Wake
    \/ TakeReport
    \/ Join

(* Handle's own steps; a renewal is sent when the timer fires, which may   *)
(* happen any number of times.                                             *)
HandleStep(l) ==
    \/ Start(l)
    \/ RejectLease(l)
    \/ Receive(l)
    \/ Renewed(l)
    \/ RenewFails(l)
    \/ Quit(l)
    \/ SeesCancellation(l)
    \/ Drain(l)
    \/ Finalize(l)
    \/ Report(l)

Next ==
    \/ Cancel
    \/ RunStep
    \/ \E l \in Leases : HandleStep(l) \/ BeginRenew(l) \/ ProcessorReturns(l)

Spec == Init /\ [][Next]_vars

(* Goroutines that can run do; processors and the store return in the end; *)
(* a select that finds several cases ready again and again takes each of   *)
(* them now and then.                                                      *)
Fairness ==
    /\ WF_vars(RunStep)
    /\ SF_vars(TakeReport)
    /\ \A l \in Leases :
         /\ WF_vars(HandleStep(l))
         /\ WF_vars(ProcessorReturns(l))
         /\ SF_vars(Receive(l) \/ SeesCancellation(l))

FairSpec == Spec /\ Fairness

-----------------------------------------------------------------------------
(* Properties.                                                             *)

TypeOK ==
    /\ run \in RunStates
    /\ invalid \in BOOLEAN
    /\ cancelled \in BOOLEAN
    /\ active \in Nat
    /\ results \in Nat
    /\ loop \in [Leases -> LoopStates]
    /\ processor \in [Leases -> ProcessorStates]
    /\ finalized \subseteq Leases

(* Never more than MaxConcurrent handlers, and always room in the channel  *)
(* for the report of each of them: a handler is never stuck in its report  *)
(* while Run waits for it (Run's active, results and claim limit).         *)
ReportsHaveRoom == Cardinality(Live) + results <= MaxConcurrent

(* Run and Handle join what they started: when Run has returned, no        *)
(* handler and no processor goroutine is left running.                     *)
NothingOutlivesRun ==
    run = "returned" =>
        /\ Live = {}
        /\ \A l \in Leases : processor[l] # "running"

(* A decision the processor reached goes to finalize also when the worker  *)
(* is shutting down; only a failed renewal makes Handle drop it.           *)
DecisionsAreSent ==
    [][\A l \in Leases :
          (loop[l] # "report" /\ loop'[l] = "report" /\ processor[l] = "decided")
              => l \in finalized' \/ loop[l] = "quit"]_vars

(* A cancelled worker returns, however full it was.                        *)
ShutdownCompletes == cancelled ~> run = "returned"

(* A worker at its limit gets capacity back.                               *)
CapacityComesBack ==
    active = MaxConcurrent ~> active < MaxConcurrent \/ run = "returned"
=============================================================================
