--------------------------- MODULE TransitionLog ---------------------------
(***************************************************************************)
(* What a TransitionStore promises.  Callers offer transitions; the store  *)
(* takes an offer whole or not at all, and the transitions it has taken    *)
(* always form one unbroken chain of events per workflow instance.  A      *)
(* caller whose commit was answered by an error holds an open offer: it    *)
(* may still be taken, or be dropped, behind the caller's back.            *)
(***************************************************************************)
EXTENDS Transitions

CONSTANT Calls   \* calls of Commit, and transactions that call Stage

VARIABLES
    accepted,   \* the durable transitions
    offer,      \* per call, what it may still make durable
    answer      \* per call, what its caller was told

vars == <<accepted, offer, answer>>

Answers == {"none", "ok", "refused", "failed", "unknown"}

TypeOK ==
    /\ accepted \subseteq Transitions
    /\ offer \in [Calls -> SUBSET Transitions]
    /\ answer \in [Calls -> Answers]

Init ==
    /\ accepted = {}
    /\ offer = [c \in Calls |-> {}]
    /\ answer = [c \in Calls |-> "none"]

Ask(c, T) ==
    /\ offer[c] = {}
    /\ answer[c] = "none"
    /\ offer' = [offer EXCEPT ![c] = T]
    /\ UNCHANGED <<accepted, answer>>

(* The offer becomes durable as a whole, an exact replay being durable     *)
(* already.  A caller that is still waiting is told so.                    *)
Take(c) ==
    /\ offer[c] # {}
    /\ accepted' = accepted \cup offer[c]
    /\ Coherent(accepted')
    /\ offer' = [offer EXCEPT ![c] = {}]
    /\ answer' = [answer EXCEPT ![c] = IF @ = "none" THEN "ok" ELSE @]

(* The call can no longer make durable what it withdraws.  A caller that   *)
(* is still waiting is told that it was refused or that it failed.         *)
Withdraw(c) ==
    /\ offer[c] # {}
    /\ \E T \in SUBSET offer[c] : offer' = [offer EXCEPT ![c] = T]
    /\ \E a \in IF answer[c] = "none" THEN {"refused", "failed"}
                                     ELSE {answer[c]} :
           answer' = [answer EXCEPT ![c] = a]
    /\ UNCHANGED accepted

Doubt(c) ==
    /\ offer[c] # {}
    /\ answer[c] = "none"
    /\ answer' = [answer EXCEPT ![c] = "unknown"]
    /\ UNCHANGED <<accepted, offer>>

Next ==
    \E c \in Calls :
        \/ \E T \in SUBSET Transitions : Ask(c, T)
        \/ Take(c)
        \/ Withdraw(c)
        \/ Doubt(c)

Spec == Init /\ [][Next]_vars
=============================================================================
