------------------------- MODULE MCTransitionStore -------------------------
(* Small instances of TransitionStore: two workflow instances, a, which is *)
(* started, migrated with two events and completed, and b.                 *)
EXTENDS TransitionStore

CONSTANTS a, b, c1, c2, c3

Made(id, instance, expected, size, definition, next, terminal, items) ==
    [id |-> id, instance |-> instance, expected |-> expected, size |-> size,
     definition |-> definition, next |-> next, terminal |-> terminal,
     work |-> items]

StartA   == Made("start", a, 0, 1, "v1", "v1", FALSE, <<"w1">>)
MigrateA == Made("move",  a, 1, 2, "v1", "v2", FALSE, <<"w2">>)
FinishA  == Made("end",   a, 1, 1, "v1", "v1", TRUE,  <<>>)
StaleA   == Made("late",  a, 3, 1, "v1", "v1", TRUE,  <<>>)
StartB   == Made("other", b, 0, 1, "v1", "v1", FALSE, <<"w2", "w3">>)
ReuseB   == Made("move",  b, 0, 1, "v1", "v1", FALSE, <<>>)

MCTransitions == {StartA, MigrateA, FinishA, StaleA, StartB, ReuseB}

Alone(t) == [mode |-> "commit", list |-> <<t>>]
Staged(list) == [mode |-> "stage", list |-> list]

MCBatches ==
    {Alone(t) : t \in MCTransitions}
      \cup {Staged(<<StartA, MigrateA>>), Staged(<<StartA, StartB>>),
            Staged(<<StartB, StartA>>), Staged(<<StartA, ReuseB>>)}

(* Calls differ only in what they turn out to do.                          *)
MCSymmetry == Permutations(Calls)
=============================================================================
