---------------------------- MODULE PagingProofs ----------------------------
(***************************************************************************)
(* A listing that ends is complete and a traversal that ends is whole, for *)
(* any rows, any times, any collation, any page limits and any number of   *)
(* commits between the pages.                                              *)
(***************************************************************************)
EXTENDS Paging, NaturalFacts, FiniteSetTheorems

AllKeys == (Nat \ {0}) \X IDs

Precedes(k, l) == Before(Collation, k, l)

Increasing(s) == \A i, j \in DOMAIN s : i < j => Precedes(s[i], s[j])

-----------------------------------------------------------------------------
(* The order of the database is a strict total order of the keys.          *)

(* The place of an identity in the collation identifies it.                *)
LEMMA IndexFacts ==
    ASSUME NEW id \in IDs
    PROVE  Index(Collation, id) \in Nat /\ Collation[Index(Collation, id)] = id
<1>1. \E i \in DOMAIN Collation : Collation[i] = id
  BY PagingAssumption DEF IDs, ToSet
<1>2. Index(Collation, id) \in DOMAIN Collation /\ Collation[Index(Collation, id)] = id
  BY <1>1 DEF Index
<1>3. DOMAIN Collation \subseteq Nat
  BY PagingAssumption
<1> QED
  BY <1>2, <1>3

(* No key precedes itself.                                                 *)
LEMMA PrecedesIrreflexive ==
    ASSUME NEW k \in AllKeys
    PROVE  ~Precedes(k, k)
<1>1. k[1] \in Nat /\ k[2] \in IDs
  BY DEF AllKeys
<1>2. Index(Collation, k[2]) \in Nat
  BY <1>1, IndexFacts
<1> QED
  BY <1>1, <1>2 DEF Precedes, Before

(* What precedes a key that precedes another precedes the other.           *)
LEMMA PrecedesTransitive ==
    ASSUME NEW k \in AllKeys, NEW l \in AllKeys, NEW m \in AllKeys,
           Precedes(k, l), Precedes(l, m)
    PROVE  Precedes(k, m)
<1>1. /\ k[1] \in Nat /\ l[1] \in Nat /\ m[1] \in Nat
      /\ k[2] \in IDs /\ l[2] \in IDs /\ m[2] \in IDs
  BY DEF AllKeys
<1>2. Index(Collation, k[2]) \in Nat /\ Index(Collation, l[2]) \in Nat /\ Index(Collation, m[2]) \in Nat
  BY <1>1, IndexFacts
<1> QED
  BY <1>1, <1>2 DEF Precedes, Before

(* Of two keys one precedes the other.                                     *)
LEMMA PrecedesTotal ==
    ASSUME NEW k \in AllKeys, NEW l \in AllKeys
    PROVE  k = l \/ Precedes(k, l) \/ Precedes(l, k)
<1>1. k[1] \in Nat /\ l[1] \in Nat /\ k[2] \in IDs /\ l[2] \in IDs
  BY DEF AllKeys
<1>2. /\ Index(Collation, k[2]) \in Nat /\ Collation[Index(Collation, k[2])] = k[2]
      /\ Index(Collation, l[2]) \in Nat /\ Collation[Index(Collation, l[2])] = l[2]
  BY <1>1, IndexFacts
<1>3. k = <<k[1], k[2]>> /\ l = <<l[1], l[2]>>
  BY DEF AllKeys
<1>4. CASE k[1] # l[1]
  BY <1>1, <1>4 DEF Precedes, Before
<1>5. CASE k[1] = l[1] /\ Index(Collation, k[2]) # Index(Collation, l[2])
  BY <1>1, <1>2, <1>5 DEF Precedes, Before
<1>6. CASE k[1] = l[1] /\ Index(Collation, k[2]) = Index(Collation, l[2])
  BY <1>2, <1>3, <1>6
<1> QED
  BY <1>4, <1>5, <1>6

(* Keys that are in order are distinct.                                    *)
LEMMA PrecedesAsymmetric ==
    ASSUME NEW k \in AllKeys, NEW l \in AllKeys, Precedes(k, l)
    PROVE  k # l /\ ~Precedes(l, k)
  BY PrecedesIrreflexive, PrecedesTransitive

-----------------------------------------------------------------------------
(* A finite set of keys can be put in order, in one way.                   *)

(* A finite set of keys that is not empty has a last one.                  *)
LEMMA LastKey ==
    ASSUME NEW T \in SUBSET AllKeys, IsFiniteSet(T), T # {}
    PROVE  \E k \in T : \A l \in T : l = k \/ Precedes(l, k)
<1> DEFINE Has(U) == \E k \in U : \A l \in U : l = k \/ Precedes(l, k)
<1> DEFINE N == {n \in Nat : \A U \in SUBSET AllKeys :
                    IsFiniteSet(U) /\ Cardinality(U) = n + 1 => Has(U)}
<1>1. 0 \in N
  <2> SUFFICES ASSUME NEW U \in SUBSET AllKeys, IsFiniteSet(U), Cardinality(U) = 0 + 1
               PROVE  Has(U)
    OBVIOUS
  <2>1. PICK x : U = {x}
    <3>1. Cardinality(U) = 1
      OBVIOUS
    <3> QED
      BY <3>1, FS_Singleton
  <2> QED
    BY <2>1
<1>2. ASSUME NEW n \in Nat, n \in N PROVE n + 1 \in N
  <2> SUFFICES ASSUME NEW U \in SUBSET AllKeys, IsFiniteSet(U), Cardinality(U) = (n + 1) + 1
               PROVE  Has(U)
    OBVIOUS
  <2>1. PICK x \in U : TRUE
    BY FS_EmptySet
  <2>2. IsFiniteSet(U \ {x}) /\ Cardinality(U \ {x}) = n + 1 /\ U \ {x} \in SUBSET AllKeys
    BY <2>1, FS_RemoveElement
  <2>3. PICK k \in U \ {x} : \A l \in U \ {x} : l = k \/ Precedes(l, k)
    BY <1>2, <2>2
  <2>4. CASE Precedes(x, k)
    <3>1. \A l \in U : l = k \/ Precedes(l, k)
      BY <2>3, <2>4
    <3> QED
      BY <2>3, <3>1
  <2>5. CASE Precedes(k, x)
    <3>1. \A l \in U : l = x \/ Precedes(l, x)
      BY <2>1, <2>3, <2>5, PrecedesTransitive
    <3> QED
      BY <2>1, <3>1
  <2> QED
    BY <2>1, <2>3, <2>4, <2>5, PrecedesTotal
<1> HIDE DEF N
<1>3. \A n \in Nat : n \in N
  BY <1>1, <1>2, SetInduction
<1> USE DEF N
<1>4. Cardinality(T) \in Nat /\ Cardinality(T) # 0
  BY FS_CardinalityType, FS_EmptySet
<1>5. Cardinality(T) - 1 \in Nat /\ Cardinality(T) = (Cardinality(T) - 1) + 1
  BY <1>4
<1>6. Cardinality(T) - 1 \in N
  BY <1>3, <1>5
<1> QED
  BY <1>5, <1>6

(* There is an enumeration in order.                                       *)
LEMMA OrderedExists ==
    ASSUME NEW T \in SUBSET AllKeys, IsFiniteSet(T)
    PROVE  \E s \in [1 .. Cardinality(T) -> T] : Increasing(s)
<1> DEFINE N == {n \in Nat : \A U \in SUBSET AllKeys :
                    IsFiniteSet(U) /\ Cardinality(U) = n => \E s \in [1 .. n -> U] : Increasing(s)}
<1>1. 0 \in N
  <2> SUFFICES ASSUME NEW U \in SUBSET AllKeys
               PROVE  \E s \in [1 .. 0 -> U] : Increasing(s)
    OBVIOUS
  <2> DEFINE s == [i \in 1 .. 0 |-> i]
  <2>1. s \in [1 .. 0 -> U] /\ Increasing(s)
    BY DEF Increasing
  <2> QED
    BY <2>1
<1>2. ASSUME NEW n \in Nat, n \in N PROVE n + 1 \in N
  <2> SUFFICES ASSUME NEW U \in SUBSET AllKeys, IsFiniteSet(U), Cardinality(U) = n + 1
               PROVE  \E s \in [1 .. n + 1 -> U] : Increasing(s)
    OBVIOUS
  <2>1. U # {}
    <3>1. U = {} => Cardinality(U) = 0
      BY FS_EmptySet
    <3> QED
      BY <3>1
  <2>2. PICK k \in U : \A l \in U : l = k \/ Precedes(l, k)
    <3>1. \E k \in U : \A l \in U : l = k \/ Precedes(l, k)
      BY <2>1, LastKey
    <3> QED
      BY <3>1
  <2>3. IsFiniteSet(U \ {k}) /\ Cardinality(U \ {k}) = n /\ U \ {k} \in SUBSET AllKeys
    <3>1. /\ IsFiniteSet(U \ {k})
          /\ Cardinality(U \ {k}) = IF k \in U THEN Cardinality(U) - 1 ELSE Cardinality(U)
      BY FS_RemoveElement
    <3> QED
      BY <3>1
  <2>4. PICK s \in [1 .. n -> U \ {k}] : Increasing(s)
    BY <1>2, <2>3
  <2> DEFINE r == [i \in 1 .. n + 1 |-> IF i = n + 1 THEN k ELSE s[i]]
  <2>5. r \in [1 .. n + 1 -> U]
    BY <2>4
  <2>6. ASSUME NEW i \in 1 .. n + 1, NEW j \in 1 .. n + 1, i < j PROVE Precedes(r[i], r[j])
    <3>1. i \in 1 .. n /\ r[i] = s[i] /\ s[i] \in U \ {k}
      BY <2>4, <2>6
    <3>2. CASE j = n + 1
      BY <2>2, <3>1, <3>2
    <3>3. CASE j # n + 1
      BY <2>4, <2>6, <3>1, <3>3 DEF Increasing
    <3> QED
      BY <3>2, <3>3
  <2> QED
    BY <2>5, <2>6 DEF Increasing
<1> HIDE DEF N
<1>3. \A n \in Nat : n \in N
  BY <1>1, <1>2, SetInduction
<1> USE DEF N
<1>4. Cardinality(T) \in Nat
  BY FS_CardinalityType
<1> QED
  BY <1>3, <1>4

(* ORDER BY: every key once, in order.                                     *)
LEMMA OrderedFacts ==
    ASSUME NEW T \in SUBSET AllKeys, IsFiniteSet(T)
    PROVE  /\ Cardinality(T) \in Nat
           /\ Ordered(T) \in [1 .. Cardinality(T) -> T]
           /\ Increasing(Ordered(T))
           /\ \A k \in T : \E i \in 1 .. Cardinality(T) : Ordered(T)[i] = k
<1> DEFINE n == Cardinality(T)
<1> DEFINE s == Ordered(T)
<1>1. n \in Nat
  BY FS_CardinalityType
<1>2. s \in [1 .. n -> T] /\ Increasing(s)
  BY OrderedExists DEF Ordered, Increasing, Precedes
<1> HIDE DEF n, s
<1>3. ASSUME NEW i \in 1 .. n, NEW j \in 1 .. n, s[i] = s[j] PROVE i = j
  <2>1. s[i] \in AllKeys /\ ~Precedes(s[i], s[i])
    BY <1>2, PrecedesIrreflexive
  <2>2. ~(i < j) /\ ~(j < i)
    BY <1>2, <1>3, <2>1 DEF Increasing
  <2> QED
    BY <1>1, <2>2
<1>4. s \in Injection(1 .. n, T)
  BY <1>2, <1>3 DEF Injection, IsInjective
<1>5. Cardinality(1 .. n) = n
  BY <1>1, FS_Interval
<1>6. s \in Surjection(1 .. n, T)
  BY <1>4, <1>5, FS_Injection DEF n
<1>7. \A k \in T : \E i \in 1 .. n : s[i] = k
  BY <1>6 DEF Surjection
<1> QED
  BY <1>1, <1>2, <1>7 DEF n, s

-----------------------------------------------------------------------------
(* The invariant.                                                          *)

Rows == [at: Nat, in: BOOLEAN]

RowsTyped ==
    /\ rows \in [IDs -> Rows]
    /\ \A id \in IDs : rows[id].in => rows[id].at # 0
    /\ limit \in Nat \ {0}
    /\ listed \in Seq(AllKeys)
    /\ steady \subseteq Keys

(* The cursor is the last key listed, and what has been in the selection   *)
(* all the while is listed as far as the cursor has come.                  *)
ListedSoFar ==
    /\ Increasing(listed)
    /\ cursor = IF listed = <<>> THEN Zero ELSE listed[Len(listed)]
    /\ \A k \in steady : cursor # Zero /\ ~Precedes(cursor, k) => k \in ToSet(listed)
    /\ reading = "listed" => steady \subseteq ToSet(listed)

(* A traversal that goes on has room for another event and has not passed  *)
(* the end of the history.                                                 *)
TraversedSoFar ==
    /\ history \subseteq Nat
    /\ \E m \in history : \A n \in history : n <= m
    /\ after \in Nat
    /\ reading = "traversal" => after < MaxEvents /\ after <= Max(history)
    /\ TraversalIsWhole

IInv == RowsTyped /\ ListedSoFar /\ TraversedSoFar

(* The last event of a history.                                            *)
LEMMA MaxFacts ==
    ASSUME NEW H \in SUBSET Nat, NEW m \in H, \A n \in H : n <= m
    PROVE  Max(H) = m
<1>1. \A x \in H : (\A y \in H : x >= y) => x = m
  OBVIOUS
<1>2. \E x \in H : \A y \in H : x >= y
  OBVIOUS
<1> DEFINE P(x) == \A y \in H : x >= y
<1>3. Max(H) = CHOOSE x \in H : P(x)
  BY DEF Max
<1>4. Max(H) \in H /\ P(Max(H))
  BY <1>2, <1>3
<1> QED
  BY <1>1, <1>4

(* The lesser of two numbers.                                              *)
LEMMA MinFacts ==
    ASSUME NEW a \in Int, NEW b \in Int
    PROVE  Min({a, b}) = IF a <= b THEN a ELSE b
<1> DEFINE m == IF a <= b THEN a ELSE b
<1> DEFINE P(x) == \A y \in {a, b} : x =< y
<1>1. m \in {a, b} /\ P(m) /\ \A x \in {a, b} : P(x) => x = m
  OBVIOUS
<1>2. Min({a, b}) = CHOOSE x \in {a, b} : P(x)
  BY DEF Min
<1>3. Min({a, b}) \in {a, b} /\ P(Min({a, b}))
  BY <1>1, <1>2
<1> QED
  BY <1>1, <1>3

(* The keys there are can be counted.                                      *)
LEMMA KeysFacts ==
    ASSUME RowsTyped
    PROVE  Keys \in SUBSET AllKeys /\ IsFiniteSet(Keys)
<1>1. Keys \in SUBSET AllKeys
  BY DEF Keys, RowsTyped, AllKeys, Rows
<1>2. IsFiniteSet(DOMAIN Collation)
  <2>1. DOMAIN Collation = 1 .. Len(Collation) /\ Len(Collation) \in Nat
    BY PagingAssumption
  <2> QED
    BY <2>1, FS_Interval
<1> DEFINE here == {i \in DOMAIN Collation : rows[Collation[i]].in}
<1> DEFINE f == [i \in here |-> <<rows[Collation[i]].at, Collation[i]>>]
<1>3. IsFiniteSet(here)
  BY <1>2, FS_Subset
<1>4. f \in Surjection(here, Keys)
  <2>1. \A i \in DOMAIN Collation : Collation[i] \in IDs
    BY PagingAssumption DEF IDs, ToSet
  <2>2. f \in [here -> Keys]
    BY <2>1 DEF Keys
  <2>3. ASSUME NEW k \in Keys PROVE \E i \in here : f[i] = k
    <3>1. PICK id \in IDs : rows[id].in /\ k = <<rows[id].at, id>>
      BY DEF Keys
    <3>2. PICK i \in DOMAIN Collation : Collation[i] = id
      BY PagingAssumption DEF IDs, ToSet
    <3> QED
      BY <3>1, <3>2
  <2> HIDE DEF f, here
  <2> QED
    BY <2>2, <2>3 DEF Surjection
<1> HIDE DEF f, here
<1>5. IsFiniteSet(Keys)
  BY <1>3, <1>4, FS_Surjection
<1> QED
  BY <1>1, <1>5

-----------------------------------------------------------------------------
(* The invariant holds at the start, ...                                   *)
LEMMA InitHolds == PagingInit => IInv
<1> USE PagingAssumption
<1>1. ASSUME ListingInit PROVE IInv
  <2>1. PICK at \in [IDs -> Times \cup {0}], in \in SUBSET IDs :
           /\ \A id \in IDs : at[id] = 0 => id \notin in
           /\ rows = [id \in IDs |-> [at |-> at[id], in |-> id \in in]]
    BY <1>1 DEF ListingInit
  <2>2. RowsTyped
    <3>1. rows \in [IDs -> Rows] /\ \A id \in IDs : rows[id].in => rows[id].at # 0
      <4>1. \A id \in IDs : at[id] \in Nat
        <5>1. Times \cup {0} \subseteq Nat
          BY PagingAssumption
        <5> QED
          BY <2>1, <5>1, Zenon
      <4>2. \A id \in IDs : (id \in in) \in BOOLEAN
        OBVIOUS
      <4>3. \A id \in IDs : [at |-> at[id], in |-> id \in in] \in Rows
        BY <4>1, <4>2, Zenon DEF Rows
      <4>4. rows \in [IDs -> Rows]
        BY <2>1, <4>3, Zenon
      <4>5. \A id \in IDs : rows[id].in = (id \in in) /\ rows[id].at = at[id]
        BY <2>1, Zenon
      <4> QED
        BY <2>1, <4>4, <4>5, Zenon
    <3>2. limit \in Nat \ {0} /\ listed = <<>> /\ steady = Keys
      BY <1>1 DEF ListingInit
    <3> QED
      BY <3>1, <3>2 DEF RowsTyped
  <2>3. ListedSoFar
    BY <1>1 DEF ListingInit, ListedSoFar, Increasing
  <2>4. TraversedSoFar
    BY <1>1 DEF ListingInit, TraversedSoFar, TraversalIsWhole
  <2> QED
    BY <2>2, <2>3, <2>4 DEF IInv
<1>2. ASSUME TraversalInit PROVE IInv
  <2>1. RowsTyped
    BY <1>2 DEF TraversalInit, RowsTyped, Rows
  <2>2. ListedSoFar
    BY <1>2 DEF TraversalInit, ListedSoFar, Increasing
  <2>3. history \in SUBSET (1 .. MaxHistory) /\ history # {} /\ after = 0 /\ reading = "traversal"
    BY <1>2 DEF TraversalInit
  <2>4. PICK m \in history : \A n \in history : n <= m
    <3> DEFINE S == {MaxHistory - n : n \in history}
    <3>1. S \in SUBSET Nat /\ S # {}
      <4>1. ASSUME NEW n \in history PROVE MaxHistory - n \in Nat
        <5>1. n \in 1 .. MaxHistory
          BY <2>3
        <5> QED
          BY <5>1
      <4> QED
        BY <2>3, <4>1
    <3>2. PICK x \in S : \A y \in S : x <= y
      BY <3>1, LeastNatural
    <3>3. PICK m \in history : x = MaxHistory - m
      BY <3>2
    <3>4. \A n \in history : MaxHistory - m <= MaxHistory - n
      BY <3>2, <3>3
    <3>5. \A n \in history : n \in Nat
      BY <2>3
    <3> QED
      BY <3>3, <3>4, <3>5
  <2>5. history \in SUBSET Nat
    BY <2>3
  <2>6. Max(history) = m
    BY <2>4, <2>5, MaxFacts
  <2>7. m \in Nat
    BY <2>5
  <2>8. TraversedSoFar
    BY <2>3, <2>4, <2>5, <2>6, <2>7 DEF TraversedSoFar, TraversalIsWhole
  <2> QED
    BY <2>1, <2>2, <2>8 DEF IInv
<1> QED
  BY <1>1, <1>2 DEF PagingInit

-----------------------------------------------------------------------------
(* ... others keep it, ...                                                 *)

(* A row that is put keeps the keys of the other rows, and leaves steady   *)
(* what it keeps in the selection.                                         *)
LEMMA PutHolds ==
    ASSUME IInv, NEW id \in IDs, NEW row \in Rows, row.in => row.at # 0, Put(id, row),
           reading = "listing"
    PROVE  IInv'
<1>1. rows' = [rows EXCEPT ![id] = row] /\ steady' \subseteq steady
  BY DEF Put
<1>2. /\ limit' = limit /\ cursor' = cursor /\ listed' = listed
      /\ history' = history /\ after' = after /\ reading' = reading
  BY DEF Put
<1>3. steady' \subseteq Keys'
  <2> SUFFICES ASSUME NEW k \in steady' PROVE k \in Keys'
    OBVIOUS
  <2>1. k \in Keys
    BY <1>1 DEF IInv, RowsTyped
  <2>2. PICK i \in IDs : rows[i].in /\ k = <<rows[i].at, i>>
    BY <2>1 DEF Keys
  <2>3. rows'[i].in /\ rows'[i].at = rows[i].at
    <3>1. CASE i # id
      BY <1>1, <2>2, <3>1 DEF IInv, RowsTyped
    <3>2. CASE i = id
      <4>1. row.in /\ rows[id].at = row.at
        BY <2>2, <3>2 DEF Put
      <4> QED
        BY <1>1, <3>2, <4>1 DEF IInv, RowsTyped
    <3> QED
      BY <3>1, <3>2
  <2> QED
    BY <2>2, <2>3 DEF Keys
<1>4. RowsTyped'
  BY <1>1, <1>2, <1>3 DEF IInv, RowsTyped
<1>5. ListedSoFar'
  BY <1>1, <1>2 DEF IInv, ListedSoFar
<1>6. TraversedSoFar'
  BY <1>2 DEF IInv, TraversedSoFar, TraversalIsWhole
<1> QED
  BY <1>4, <1>5, <1>6 DEF IInv

(* The commits of others between two pages.                                *)
LEMMA OthersHold ==
    ASSUME IInv, NEW id \in IDs, Create(id) \/ Archive(id) \/ DeadLetter(id) \/ Resolve(id)
    PROVE  IInv'
<1>1. rows[id] \in Rows /\ (rows[id].in => rows[id].at # 0)
  BY DEF IInv, RowsTyped
<1>2. \A at \in Times : at \in Nat /\ at # 0
  BY PagingAssumption
<1>3. CASE Create(id)
  <2>1. PICK at \in Times : Put(id, [at |-> at, in |-> selection # "archived"])
    BY <1>3 DEF Create
  <2>2. [at |-> at, in |-> selection # "archived"] \in Rows
    BY <1>2 DEF Rows
  <2> QED
    BY <1>2, <1>3, <2>1, <2>2, PutHolds DEF Create
<1>4. CASE Archive(id)
  <2> DEFINE row == [rows[id] EXCEPT !.in = selection = "archived"]
  <2>1. row \in Rows /\ row.at = rows[id].at /\ rows[id].at # 0
    BY <1>1, <1>4 DEF Archive, Rows
  <2>2. Put(id, row) /\ reading = "listing"
    BY <1>4 DEF Archive
  <2> HIDE DEF row
  <2> QED
    BY <2>1, <2>2, PutHolds
<1>5. CASE DeadLetter(id)
  <2>1. PICK at \in Times : Put(id, [at |-> at, in |-> TRUE])
    BY <1>5 DEF DeadLetter
  <2>2. [at |-> at, in |-> TRUE] \in Rows
    BY <1>2 DEF Rows
  <2> QED
    BY <1>2, <1>5, <2>1, <2>2, PutHolds DEF DeadLetter
<1>6. CASE Resolve(id)
  <2> DEFINE row == [rows[id] EXCEPT !.in = FALSE]
  <2>1. row \in Rows /\ ~row.in
    BY <1>1 DEF Rows
  <2>2. Put(id, row) /\ reading = "listing"
    BY <1>6 DEF Resolve
  <2> HIDE DEF row
  <2> QED
    BY <2>1, <2>2, PutHolds
<1> QED
  BY <1>3, <1>4, <1>5, <1>6

(* The history grows at its end.                                           *)
LEMMA AppendHolds ==
    ASSUME IInv, AppendTransition
    PROVE  IInv'
<1>1. PICK n \in {1, 2} : history' = history \cup {Max(history) + n}
  BY DEF AppendTransition
<1>2. /\ rows' = rows /\ limit' = limit /\ cursor' = cursor /\ listed' = listed
      /\ steady' = steady /\ after' = after /\ reading' = reading /\ reading = "traversal"
  BY DEF AppendTransition
<1>3. history \in SUBSET Nat
  BY DEF IInv, TraversedSoFar
<1>4. PICK m \in history : \A x \in history : x <= m
  BY DEF IInv, TraversedSoFar
<1>5. Max(history) = m /\ m \in Nat
  BY <1>3, <1>4, MaxFacts
<1>6. history' \in SUBSET Nat /\ m + n \in history' /\ \A x \in history' : x <= m + n
  BY <1>1, <1>3, <1>4, <1>5
<1> DEFINE H == history'
<1>7. Max(H) = m + n
  <2> HIDE DEF H
  <2>1. H \in SUBSET Nat /\ m + n \in H /\ \A x \in H : x <= m + n
    BY <1>6 DEF H
  <2> QED
    BY <2>1, MaxFacts
<1>8. TraversedSoFar'
  <2>1. after \in Nat /\ after < MaxEvents /\ after <= m
    BY <1>2, <1>5 DEF IInv, TraversedSoFar
  <2>2. after' <= Max(history')
    BY <1>2, <1>5, <1>7, <2>1
  <2> QED
    BY <1>2, <1>6, <2>1, <2>2 DEF TraversedSoFar, TraversalIsWhole
<1>9. RowsTyped'
  BY <1>2 DEF IInv, RowsTyped, Keys
<1>10. ListedSoFar'
  BY <1>2 DEF IInv, ListedSoFar
<1> QED
  BY <1>8, <1>9, <1>10 DEF IInv

(* ... a page of a traversal keeps it, ...                                 *)
LEMMA TraverseHolds ==
    ASSUME IInv, TraversePage
    PROVE  IInv'
<1> DEFINE asked == Min({limit, MaxEvents - after})
<1> DEFINE got == Min({asked, Max(history) - after})
<1>1. /\ rows' = rows /\ limit' = limit /\ cursor' = cursor /\ listed' = listed
      /\ steady' = steady /\ history' = history /\ reading = "traversal"
  BY DEF TraversePage
<1> DEFINE Whole == got = 0 \/ ~HasMore(asked)
<1> DEFINE Full == got # 0 /\ HasMore(asked) /\ after + got = MaxEvents
<1>2. after' = after + got
  BY DEF TraversePage
<1>13. reading' = CASE Whole -> "delivered" [] Full -> "limit" [] OTHER -> "traversal"
  BY DEF TraversePage
<1>3. history \in SUBSET Nat
  BY DEF IInv, TraversedSoFar
<1>4. PICK m \in history : \A x \in history : x <= m
  BY DEF IInv, TraversedSoFar
<1>5. Max(history) = m /\ m \in Nat
  BY <1>3, <1>4, MaxFacts
<1>6. /\ after \in Nat /\ after < MaxEvents /\ after <= m /\ MaxEvents \in Nat
      /\ limit \in Nat /\ limit > 0
  BY <1>1, <1>5, PagingAssumption DEF IInv, TraversedSoFar, RowsTyped
<1>7. /\ asked = IF limit <= MaxEvents - after THEN limit ELSE MaxEvents - after
      /\ asked \in Nat /\ asked > 0 /\ asked <= MaxEvents - after
  BY <1>6, MinFacts
<1> HIDE DEF asked
<1>8. /\ got = IF asked <= m - after THEN asked ELSE m - after
      /\ got \in Nat
  BY <1>5, <1>6, <1>7, MinFacts
<1> HIDE DEF got
<1>9. HasMore(asked) <=> m > after + asked
  BY <1>5 DEF HasMore
<1>10. CASE Whole
  <2>1. reading' = "delivered"
    <3>1. ~Full
      BY <1>10
    <3> HIDE DEF Whole, Full
    <3> QED
      BY <1>10, <1>13, <3>1
  <2>2. after' = m
    BY <1>2, <1>5, <1>6, <1>7, <1>8, <1>9, <1>10
  <2>3. TraversedSoFar'
    BY <1>1, <1>3, <1>4, <1>5, <2>1, <2>2 DEF TraversedSoFar, TraversalIsWhole
  <2>4. RowsTyped'
    BY <1>1 DEF IInv, RowsTyped, Keys
  <2>5. ListedSoFar'
    BY <1>1, <2>1 DEF IInv, ListedSoFar
  <2> QED
    BY <2>3, <2>4, <2>5 DEF IInv
<1>11. CASE Full
  <2>1. reading' = "limit"
    <3>1. ~Whole
      BY <1>11
    <3> HIDE DEF Whole, Full
    <3> QED
      BY <1>11, <1>13, <3>1
  <2>2. after' = MaxEvents /\ m > MaxEvents
    BY <1>2, <1>5, <1>6, <1>7, <1>8, <1>9, <1>11
  <2>3. TraversedSoFar'
    BY <1>1, <1>3, <1>4, <1>5, <1>6, <2>1, <2>2 DEF TraversedSoFar, TraversalIsWhole
  <2>4. RowsTyped'
    BY <1>1 DEF IInv, RowsTyped, Keys
  <2>5. ListedSoFar'
    BY <1>1, <2>1 DEF IInv, ListedSoFar
  <2> QED
    BY <2>3, <2>4, <2>5 DEF IInv
<1>12. CASE ~Whole /\ ~Full
  <2>1. reading' = "traversal"
    <3> HIDE DEF Whole, Full
    <3> QED
      BY <1>12, <1>13
  <2>2. after' \in Nat /\ after' < MaxEvents /\ after' <= m
    BY <1>2, <1>5, <1>6, <1>7, <1>8, <1>9, <1>12
  <2>3. TraversedSoFar'
    BY <1>1, <1>3, <1>4, <1>5, <2>1, <2>2 DEF TraversedSoFar, TraversalIsWhole
  <2>4. RowsTyped'
    BY <1>1 DEF IInv, RowsTyped, Keys
  <2>5. ListedSoFar'
    BY <1>1, <2>1 DEF IInv, ListedSoFar
  <2> QED
    BY <2>3, <2>4, <2>5 DEF IInv
<1> QED
  BY <1>10, <1>11, <1>12

-----------------------------------------------------------------------------
(* ... and so does a page of a listing.                                    *)

(* The rows the query finds: the first keys after the cursor, one more     *)
(* than fits the page if there are as many.                                *)
LEMMA QueryFacts ==
    ASSUME RowsTyped
    PROVE  LET s == Ordered(Later)
               n == Cardinality(Later)
               c == IF n <= limit + 1 THEN n ELSE limit + 1
           IN  /\ n \in Nat
               /\ s \in [1 .. n -> Later]
               /\ Increasing(s)
               /\ \A k \in Later : \E i \in 1 .. n : s[i] = k
               /\ Query = [i \in 1 .. c |-> s[i]]
               /\ Len(Query) = c
               /\ Query \in Seq(AllKeys)
<1> DEFINE s == Ordered(Later)
<1> DEFINE n == Cardinality(Later)
<1> DEFINE c == IF n <= limit + 1 THEN n ELSE limit + 1
<1>1. Later \in SUBSET AllKeys /\ IsFiniteSet(Later)
  <2>1. Keys \in SUBSET AllKeys /\ IsFiniteSet(Keys) /\ Later \in SUBSET Keys
    BY KeysFacts DEF Later
  <2> QED
    BY <2>1, FS_Subset
<1>2. /\ n \in Nat /\ s \in [1 .. n -> Later] /\ Increasing(s)
      /\ \A k \in Later : \E i \in 1 .. n : s[i] = k
  BY <1>1, OrderedFacts
<1>3. limit \in Nat
  BY DEF RowsTyped
<1>4. Min({n, limit + 1}) = c
  BY <1>2, <1>3, MinFacts
<1>5. Query = SubSeq(s, 1, c)
  BY <1>4 DEF Query
<1> HIDE DEF s, n
<1>6. c \in Nat /\ c <= n
  BY <1>2, <1>3
<1> HIDE DEF c
<1>7. s \in Seq(AllKeys) /\ Len(s) = n
  <2>1. s \in [1 .. n -> AllKeys]
    BY <1>1, <1>2
  <2> QED
    BY <1>2, <2>1
<1>8. SubSeq(s, 1, c) = [i \in 1 .. c |-> s[i]]
  BY <1>6, <1>7
<1>9. \A i \in 1 .. c : s[i] \in AllKeys
  BY <1>6, <1>7
<1>10. [i \in 1 .. c |-> s[i]] \in Seq(AllKeys) /\ Len([i \in 1 .. c |-> s[i]]) = c
  BY <1>6, <1>9
<1> QED
  BY <1>2, <1>5, <1>8, <1>10 DEF s, n, c

(* Keys in order, followed by later keys in order.                         *)
LEMMA InOrder ==
    ASSUME NEW a \in Seq(AllKeys), NEW b \in Seq(AllKeys), Increasing(a), Increasing(b),
           a # <<>> => \A j \in 1 .. Len(b) : Precedes(a[Len(a)], b[j])
    PROVE  Increasing(a \o b)
<1> SUFFICES ASSUME NEW i \in 1 .. Len(a) + Len(b), NEW j \in 1 .. Len(a) + Len(b), i < j
             PROVE  Precedes((a \o b)[i], (a \o b)[j])
  BY DEF Increasing
<1>1. CASE j <= Len(a)
  <2>1. (a \o b)[i] = a[i] /\ (a \o b)[j] = a[j] /\ i \in DOMAIN a /\ j \in DOMAIN a
    BY <1>1
  <2> QED
    BY <2>1 DEF Increasing
<1>2. CASE i > Len(a)
  <2>1. /\ (a \o b)[i] = b[i - Len(a)] /\ (a \o b)[j] = b[j - Len(a)]
        /\ i - Len(a) \in DOMAIN b /\ j - Len(a) \in DOMAIN b /\ i - Len(a) < j - Len(a)
    BY <1>2
  <2> QED
    BY <2>1 DEF Increasing
<1>3. CASE i <= Len(a) /\ j > Len(a)
  <2>1. /\ (a \o b)[i] = a[i] /\ (a \o b)[j] = b[j - Len(a)] /\ a # <<>>
        /\ j - Len(a) \in 1 .. Len(b) /\ i \in DOMAIN a /\ Len(a) \in DOMAIN a
    BY <1>3
  <2>2. a[i] \in AllKeys /\ a[Len(a)] \in AllKeys /\ b[j - Len(a)] \in AllKeys
    BY <2>1
  <2>3. Precedes(a[Len(a)], b[j - Len(a)])
    BY <2>1
  <2>4. i = Len(a) \/ Precedes(a[i], a[Len(a)])
    BY <1>3, <2>1 DEF Increasing
  <2> QED
    BY <2>1, <2>2, <2>3, <2>4, PrecedesTransitive
<1> QED
  BY <1>1, <1>2, <1>3

LEMMA ListHolds ==
    ASSUME IInv, ListPage
    PROVE  IInv'
<1> DEFINE s == Ordered(Later)
<1> DEFINE n == Cardinality(Later)
<1> DEFINE c == IF n <= limit + 1 THEN n ELSE limit + 1
<1> DEFINE p == IF n <= limit THEN n ELSE limit
<1> DEFINE items == SubSeq(Query, 1, Min({Len(Query), limit}))
<1>1. /\ rows' = rows /\ limit' = limit /\ steady' = steady /\ history' = history
      /\ after' = after /\ reading = "listing" /\ Keys' = Keys
  BY DEF ListPage, Keys
<1>2. CASE reading' = "refused" /\ cursor' = cursor /\ listed' = listed
  <2>1. RowsTyped'
    BY <1>1, <1>2 DEF IInv, RowsTyped
  <2>2. ListedSoFar'
    BY <1>1, <1>2 DEF IInv, ListedSoFar
  <2>3. TraversedSoFar'
    BY <1>1, <1>2 DEF IInv, TraversedSoFar, TraversalIsWhole
  <2> QED
    BY <2>1, <2>2, <2>3 DEF IInv
<1>3. CASE /\ listed' = listed \o items
           /\ cursor' = NextCursor(Query)
           /\ reading' = IF Len(Query) > limit THEN "listing" ELSE "listed"
  <2>1. RowsTyped /\ limit \in Nat /\ limit > 0 /\ listed \in Seq(AllKeys) /\ steady \subseteq Keys
    BY DEF IInv, RowsTyped
  <2>2. /\ n \in Nat /\ s \in [1 .. n -> Later] /\ Increasing(s)
        /\ \A k \in Later : \E i \in 1 .. n : s[i] = k
        /\ Query = [i \in 1 .. c |-> s[i]]
        /\ Len(Query) = c
        /\ Query \in Seq(AllKeys)
    BY <2>1, QueryFacts
  <2>3. \A k \in Later : k \in Keys /\ (cursor = Zero \/ Precedes(cursor, k))
    BY DEF Later, Precedes
  <2>4. Keys \in SUBSET AllKeys
    BY <2>1, KeysFacts
  <2>5. Min({Len(Query), limit}) = p
    <3>1. c \in Nat /\ p = IF c <= limit THEN c ELSE limit
      BY <2>1, <2>2
    <3> HIDE DEF c, p
    <3> QED
      BY <2>1, <2>2, <3>1, MinFacts
  <2> HIDE DEF s, n
  <2>6. p \in Nat /\ c \in Nat /\ p <= c /\ p <= n /\ (c > limit <=> n > limit) /\ (c = 0 <=> p = 0)
    BY <2>1, <2>2
  <2>7. /\ items \in Seq(AllKeys) /\ Len(items) = p
        /\ \A i \in 1 .. p : items[i] = s[i] /\ s[i] \in Later
    <3>1. items = SubSeq(Query, 1, p)
      BY <2>5
    <3> HIDE DEF items, p, c
    <3>2. SubSeq(Query, 1, p) \in Seq(AllKeys) /\ Len(SubSeq(Query, 1, p)) = p
      BY <2>2, <2>6
    <3>3. \A i \in 1 .. p : SubSeq(Query, 1, p)[i] = Query[i] /\ Query[i] = s[i] /\ s[i] \in Later
      BY <2>2, <2>6
    <3> QED
      BY <3>1, <3>2, <3>3
  <2>8. cursor' = IF p = 0 THEN cursor ELSE s[p]
    <3>1. Query = <<>> <=> c = 0
      BY <2>2, <2>6
    <3> HIDE DEF p, c
    <3>2. p # 0 => Query[p] = s[p]
      BY <2>2, <2>6
    <3> QED
      BY <1>3, <2>5, <2>6, <3>1, <3>2 DEF NextCursor
  <2> HIDE DEF items
  <2>9. reading' = IF n > limit THEN "listing" ELSE "listed"
    BY <1>3, <2>2, <2>6
  <2>10. p = n \/ n > limit
    BY <2>1, <2>2
  <2> HIDE DEF p, c
  <2>11. listed' \in Seq(AllKeys) /\ Len(listed') = Len(listed) + p
    BY <1>3, <2>1, <2>7
  <2>12. \A k \in ToSet(listed) : k \in ToSet(listed')
    BY <1>3, <2>1, <2>7 DEF ToSet
  <2>13. \A i \in 1 .. p : s[i] \in ToSet(listed')
    <3> SUFFICES ASSUME NEW i \in 1 .. p PROVE s[i] \in ToSet(listed')
      OBVIOUS
    <3>1. Len(listed) + i \in DOMAIN listed' /\ listed'[Len(listed) + i] = s[i]
      BY <1>3, <2>1, <2>7
    <3> QED
      BY <3>1 DEF ToSet
  <2>14. RowsTyped'
    BY <1>1, <2>11 DEF IInv, RowsTyped
  <2>15. Increasing(listed')
    <3>1. Increasing(listed) /\ (listed # <<>> => cursor = listed[Len(listed)])
      BY DEF IInv, ListedSoFar
    <3>2. Increasing(items)
      BY <2>2, <2>6, <2>7 DEF Increasing
    <3>3. ASSUME listed # <<>>, NEW j \in 1 .. Len(items)
          PROVE  Precedes(listed[Len(listed)], items[j])
      <4>1. cursor \in AllKeys
        BY <2>1, <3>1, <3>3
      <4>2. cursor # Zero
        BY <4>1 DEF AllKeys, Zero
      <4> QED
        BY <2>3, <2>7, <3>1, <3>3, <4>2
    <3> QED
      BY <1>3, <2>1, <2>7, <3>1, <3>2, <3>3, InOrder
  <2>16. cursor' = IF listed' = <<>> THEN Zero ELSE listed'[Len(listed')]
    <3>1. cursor = IF listed = <<>> THEN Zero ELSE listed[Len(listed)]
      BY DEF IInv, ListedSoFar
    <3>2. CASE p = 0
      <4>1. listed' = listed
        BY <1>3, <2>1, <2>7, <3>2
      <4> QED
        BY <2>8, <3>1, <3>2, <4>1
    <3>3. CASE p # 0
      <4>1. listed'[Len(listed) + p] = s[p] /\ listed' # <<>>
        BY <1>3, <2>1, <2>6, <2>7, <3>3
      <4> QED
        BY <2>8, <2>11, <3>3, <4>1
    <3> QED
      BY <3>2, <3>3
  <2>17. ASSUME NEW k \in steady, k \notin ToSet(listed')
         PROVE  n > limit /\ (cursor' = Zero \/ Precedes(cursor', k))
    <3>1. k \notin ToSet(listed) /\ k \in AllKeys
      BY <2>1, <2>4, <2>12, <2>17
    <3>2. k \in Later
      BY <2>1, <3>1 DEF IInv, ListedSoFar, Later, Precedes
    <3>3. PICK i \in 1 .. n : s[i] = k
      BY <2>2, <3>2
    <3>4. i > p
      BY <2>6, <2>13, <2>17, <3>3
    <3>5. CASE p = 0
      BY <2>3, <2>6, <2>8, <2>10, <3>2, <3>3, <3>5
    <3>6. CASE p # 0
      <4>1. Precedes(s[p], s[i])
        BY <2>2, <2>6, <3>3, <3>4, <3>6 DEF Increasing
      <4> QED
        BY <2>2, <2>6, <2>8, <2>10, <3>3, <3>4, <3>6, <4>1
    <3> QED
      BY <3>5, <3>6
  <2>18. ListedSoFar'
    BY <1>1, <2>9, <2>15, <2>16, <2>17 DEF ListedSoFar
  <2>19. TraversedSoFar'
    BY <1>1, <2>9 DEF IInv, TraversedSoFar, TraversalIsWhole
  <2> QED
    BY <2>14, <2>18, <2>19 DEF IInv
<1> QED
  BY <1>2, <1>3 DEF ListPage

LEMMA Inductive == PagingSpec => []IInv
<1>1. IInv /\ [PagingNext]_pagingVars => IInv'
  <2> SUFFICES ASSUME IInv, [PagingNext]_pagingVars PROVE IInv'
    OBVIOUS
  <2>1. CASE UNCHANGED pagingVars
    BY <2>1 DEF pagingVars, IInv, RowsTyped, ListedSoFar, TraversedSoFar, TraversalIsWhole, Keys
  <2> QED
    BY <2>1, OthersHold, AppendHolds, TraverseHolds, ListHolds DEF PagingNext
<1> QED
  BY <1>1, InitHolds, PTL DEF PagingSpec

-----------------------------------------------------------------------------
(* ListInstances and ListDeadLetters: a listing that comes to its end has  *)
(* every record that was in its selection all the while and none twice,    *)
(* for any rows, times, limits and collation and whatever is committed     *)
(* between its pages.                                                      *)
THEOREM ListingsAreComplete == PagingSpec => []ListingComplete
<1>1. ASSUME IInv PROVE ListingComplete
  <2>1. ASSUME NEW i \in DOMAIN listed, NEW j \in DOMAIN listed, listed[i] = listed[j]
        PROVE  i = j
    <3>1. listed \in Seq(AllKeys) /\ Increasing(listed)
      BY <1>1 DEF IInv, RowsTyped, ListedSoFar
    <3>2. i \in Nat /\ j \in Nat /\ listed[i] \in AllKeys
      BY <3>1
    <3>3. ~Precedes(listed[i], listed[i])
      BY <3>2, PrecedesIrreflexive
    <3>4. ~(i < j) /\ ~(j < i)
      BY <2>1, <3>1, <3>3 DEF Increasing
    <3> QED
      BY <3>2, <3>4
  <2> QED
    BY <1>1, <2>1 DEF IInv, ListedSoFar, ListingComplete
<1> QED
  BY <1>1, Inductive, PTL

(* traverseHistory: a traversal that comes to its end has delivered a      *)
(* history that ends where a transition ended, and gives up at MaxEvents   *)
(* only when there is more, for any history, page size and limit.          *)
THEOREM TraversalsAreWhole == PagingSpec => []TraversalIsWhole
<1>1. IInv => TraversalIsWhole
  BY DEF IInv, TraversedSoFar
<1> QED
  BY <1>1, Inductive, PTL
=============================================================================
