---------------------------- MODULE Transitions ----------------------------
(***************************************************************************)
(* A transition as the store sees it: an identity, the instance whose      *)
(* events expected+1 .. expected+size it writes, the pinned definition it  *)
(* was built on and the one it leaves, whether its last event is terminal, *)
(* and the identities of the due work it creates.                          *)
(***************************************************************************)
EXTENDS Naturals, Sequences

CONSTANT Transitions    \* the transitions callers may offer

WorkIds == UNION {{t.work[n] : n \in DOMAIN t.work} : t \in Transitions}

ASSUME TransitionsAssumption ==
    \A t \in Transitions :
        /\ DOMAIN t = {"id", "instance", "expected", "size", "definition",
                       "next", "terminal", "work"}
        /\ t.expected \in Nat
        /\ t.size \in Nat \ {0}
        /\ t.terminal \in BOOLEAN
        /\ t.work \in Seq(WorkIds)

Instances == {t.instance : t \in Transitions}

End(t) == t.expected + t.size

(* Two transitions that can both be durable: identities are used once, and *)
(* no event is written twice.                                              *)
Compatible(t, u) ==
    \/ t = u
    \/ /\ t.id # u.id
       /\ \/ t.instance # u.instance
          \/ End(t) <= u.expected
          \/ End(u) <= t.expected

(* t was built on the last event of u and on the definition u left.        *)
Continues(t, u) ==
    /\ u.instance = t.instance
    /\ End(u) = t.expected
    /\ u.next = t.definition

Coherent(T) ==
    /\ \A t, u \in T : Compatible(t, u)
    /\ \A t \in T : t.expected = 0 \/ \E u \in T : Continues(t, u)
=============================================================================
