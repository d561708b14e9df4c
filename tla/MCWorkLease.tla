---------------------------- MODULE MCWorkLease ----------------------------
(* Small instances of WorkLease: two workers, the first with two handlers, *)
(* so that one owner identity can hold two fences.                         *)
EXTENDS WorkLease, TLC

CONSTANTS o1, o2, h1, h2, h3, c1, c2

MCOwnerOf == (h1 :> o1) @@ (h2 :> o1) @@ (h3 :> o2)

(* h1 and h2 belong to the same worker, and commands are interchangeable.  *)
MCSymmetry == Permutations({h1, h2}) \cup Permutations({c1, c2})

MCOwnerOfTwo == (h1 :> o1) @@ (h2 :> o1)
=============================================================================
