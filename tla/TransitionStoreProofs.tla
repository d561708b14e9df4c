----------------------- MODULE TransitionStoreProofs -----------------------
(***************************************************************************)
(* The PostgreSQL transition store implements TransitionLog, keeps its     *)
(* tables in agreement and accepts every exact replay, for any number of   *)
(* transactions, any transitions and any lists a caller may stage.         *)
(*                                                                         *)
(* The invariant is a statement about the tables and one about each        *)
(* transaction; the operators below take the tables and the transaction as *)
(* arguments, so that what one transaction does to another is only what it *)
(* publishes.                                                              *)
(***************************************************************************)
EXTENDS TransitionStore, FiniteSetTheorems, TLAPS

Definitions == {"none"} \cup {t.definition : t \in Transitions}
                        \cup {t.next : t \in Transitions}

Rows == [sequence : Nat, definition : Definitions, archived : BOOLEAN]

Keys == ({"instance"} \X Instances) \cup ({"transition"} \X {t.id : t \in Transitions})
           \cup ({"work"} \X WorkIds)

Transaction ==
    [pc : PCs, batch : Batches \cup {NoBatch}, at : Nat \ {0},
     staged : SUBSET Transitions, own : [Instances -> Rows], put : Nat,
     held : SUBSET Keys, answer : Log!Answers]

(* The transition at hand, the row of i and the transitions that r sees.   *)
At(r) == r.batch.list[r.at]

See(r, rows, i) == IF r.own[i] # NoRow THEN r.own[i] ELSE rows[i]

Seen(r, T) == T \cup r.staged

(* The row of i tells where the events of i in T end and what they left.   *)
RowAgrees(i, row, T) ==
    /\ \A u \in T : u.instance = i => End(u) <= row.sequence
    /\ row.sequence = 0 \/ \E u \in T : /\ u.instance = i
                                        /\ End(u) = row.sequence
                                        /\ u.next = row.definition
    /\ \A n \in 1 .. row.sequence :
          \E u \in T : u.instance = i /\ u.expected < n /\ n <= End(u)
    /\ row.archived <=> \E u \in T : u.instance = i /\ u.terminal

Tables(rows, T) ==
    /\ rows \in [Instances -> Rows]
    /\ T \subseteq Transitions
    /\ Coherent(T)
    /\ \A i \in Instances : RowAgrees(i, rows[i], T)

(* Where a transaction is, and what its caller has been told.              *)
Place(r) ==
    /\ r.pc = "idle" => r = Unused
    /\ r.pc # "idle" => r.batch \in Batches
    /\ r.pc \in Statements => r.at <= Len(r.batch.list)
    /\ r.pc \in Statements \cup {"commit"} => r.answer = "none"
    /\ r.pc = "refused" => r.answer = "refused"
    /\ r.pc = "lost" => r.answer = "unknown"

(* What precedes the transition at hand is durable or staged.  A Commit    *)
(* has one transition and stages it last.                                  *)
Progress(r, T) ==
    /\ r.staged \subseteq Range(r.batch.list)
    /\ r.pc \in Statements => \A j \in 1 .. r.at - 1 : r.batch.list[j] \in Seen(r, T)
    /\ r.pc \in {"commit", "lost"} => Range(r.batch.list) \subseteq Seen(r, T)
    /\ r.pc \in Statements /\ r.batch.mode = "commit" => r.staged = {}

(* What a transaction has written it has locked.                           *)
Locked(r) ==
    /\ \A i \in Instances : r.own[i] # NoRow => <<"instance", i>> \in r.held
    /\ \A t \in r.staged :
          r.own[t.instance] # NoRow /\ <<"transition", t.id>> \in r.held
    /\ r.pc \in {"insert", "work"} => <<"instance", At(r).instance>> \in r.held
    /\ r.pc = "work" => <<"transition", At(r).id>> \in r.held

(* The row the transition at hand was built on is still the one there is,  *)
(* and its identity still unused.                                          *)
Built(r, rows, T) ==
    /\ r.pc \in {"insert", "work"} /\ At(r).expected > 0 =>
          Matches(See(r, rows, At(r).instance), At(r))
    /\ r.pc = "work" => \A u \in Seen(r, T) : u.id # At(r).id

Written(r, T) ==
    /\ Coherent(Seen(r, T))
    /\ \A i \in Instances : r.own[i] # NoRow => RowAgrees(i, r.own[i], Seen(r, T))

Session(r, rows, T) ==
    /\ r \in Transaction
    /\ Place(r)
    /\ Progress(r, T)
    /\ Locked(r)
    /\ Built(r, rows, T)
    /\ Written(r, T)

(* No two transactions hold the same row or key.                           *)
Exclusive == \A s, o \in Calls : s # o => tx[s].held \cap tx[o].held = {}

EventsOf(T) ==
    UNION {{[instance |-> t.instance, sequence |-> n, by |-> t.id] :
               n \in (t.expected + 1) .. End(t)} : t \in T}

IInv ==
    /\ Tables(instances, transitions)
    /\ history = EventsOf(transitions)
    /\ tx \in [Calls -> Transaction]
    /\ \A s \in Calls : Session(tx[s], instances, transitions)
    /\ Exclusive

-----------------------------------------------------------------------------
(* Transitions, rows and the sets of durable transitions.                  *)

LEMMA TransitionFacts ==
    ASSUME NEW t \in Transitions
    PROVE  /\ t.expected \in Nat /\ t.size \in Nat /\ t.size > 0
           /\ End(t) \in Nat /\ End(t) > t.expected
           /\ t.instance \in Instances
           /\ t.terminal \in BOOLEAN
           /\ t.definition \in Definitions /\ t.next \in Definitions
           /\ t.work \in Seq(WorkIds)
  BY TransitionsAssumption DEF End, Instances, Definitions

(* The row that is not there.                                              *)
LEMMA NoRowType == NoRow \in Rows /\ NoRow.sequence = 0
  BY DEF NoRow, Rows, Definitions

(* A call that has not begun.                                              *)
LEMMA UnusedType == Unused \in Transaction
  <1>1. [i \in Instances |-> NoRow] \in [Instances -> Rows]
    BY NoRowType
  <1> QED
    BY <1>1 DEF Unused, Transaction, PCs, Log!Answers

(* The transition a statement is about.                                    *)
LEMMA AtFacts ==
    ASSUME NEW r \in Transaction, Place(r), r.pc \in Statements
    PROVE  /\ r.batch \in Batches
           /\ r.batch.list \in Seq(Transitions)
           /\ r.at \in 1 .. Len(r.batch.list)
           /\ Len(r.batch.list) \in Nat
           /\ At(r) \in Transitions
           /\ At(r) \in Range(r.batch.list)
           /\ r.batch.mode = "commit" => Len(r.batch.list) <= 1
  <1>1. r.batch \in Batches /\ r.at <= Len(r.batch.list) /\ r.at \in Nat /\ r.at > 0
    BY DEF Place, Statements, Transaction
  <1>2. r.batch.list \in Seq(Transitions)
    BY <1>1, BatchesAssumption
  <1>3. r.batch.mode = "commit" => Len(r.batch.list) <= 1
    BY <1>1, BatchesAssumption
  <1> QED
    BY <1>1, <1>2, <1>3 DEF At, Range

(* A row agrees with sets that hold the same transitions of its instance.  *)
LEMMA RowAgreesSame ==
    ASSUME NEW i, NEW row, NEW T, NEW U, RowAgrees(i, row, T),
           \A u \in T \cup U : u.instance = i => (u \in T <=> u \in U)
    PROVE  RowAgrees(i, row, U)
  <1>1. \A u \in U : u.instance = i => End(u) <= row.sequence
    BY DEF RowAgrees
  <1>2. row.sequence = 0 \/ \E u \in U : /\ u.instance = i
                                         /\ End(u) = row.sequence
                                         /\ u.next = row.definition
    BY DEF RowAgrees
  <1>3. \A n \in 1 .. row.sequence :
           \E u \in U : u.instance = i /\ u.expected < n /\ n <= End(u)
    BY DEF RowAgrees
  <1>4. row.archived <=> \E u \in U : u.instance = i /\ u.terminal
    BY DEF RowAgrees
  <1> QED
    BY <1>1, <1>2, <1>3, <1>4 DEF RowAgrees

(* Coherent sets whose members are compatible make a coherent set.         *)
LEMMA CoherentUnion ==
    ASSUME NEW T, NEW U, Coherent(T), Coherent(U),
           \A t \in T, u \in U : Compatible(t, u) /\ Compatible(u, t)
    PROVE  Coherent(T \cup U)
  BY DEF Coherent

(* Compatibility is symmetric.                                             *)
LEMMA CompatibleSymmetric ==
    ASSUME NEW t, NEW u, Compatible(t, u)
    PROVE  Compatible(u, t)
  BY DEF Compatible

(* What a transaction sees of an instance agrees with the transitions it   *)
(* sees, whether the row is its own or a committed one.                    *)
LEMMA SeeAgrees ==
    ASSUME NEW r, NEW rows, NEW T, Tables(rows, T), Session(r, rows, T),
           NEW i \in Instances
    PROVE  /\ See(r, rows, i) \in Rows
           /\ RowAgrees(i, See(r, rows, i), Seen(r, T))
  <1>1. r.own \in [Instances -> Rows] /\ rows \in [Instances -> Rows]
    BY DEF Session, Transaction, Tables
  <1>2. CASE r.own[i] # NoRow
    BY <1>1, <1>2 DEF Session, Written, See
  <1>3. CASE r.own[i] = NoRow
    <2>1. \A u \in r.staged : u.instance # i
      BY <1>3 DEF Session, Locked
    <2>2. RowAgrees(i, rows[i], T)
      BY DEF Tables
    <2>3. RowAgrees(i, rows[i], Seen(r, T))
      BY <2>1, <2>2, RowAgreesSame DEF Seen
    <2> QED BY <1>1, <1>3, <2>3 DEF See
  <1> QED
    BY <1>2, <1>3

(* A transaction that publishes leaves tables that agree.                  *)
LEMMA PublishTables ==
    ASSUME NEW r, NEW rows, NEW T, Tables(rows, T), Session(r, rows, T)
    PROVE  Tables([i \in Instances |-> See(r, rows, i)], Seen(r, T))
  <1>1. Seen(r, T) \subseteq Transitions
    BY DEF Session, Transaction, Tables, Seen
  <1>2. Coherent(Seen(r, T))
    BY DEF Session, Written
  <1> QED
    BY <1>1, <1>2, SeeAgrees DEF Tables

(* What r publishes is nothing to a transaction q that shares no lock with *)
(* it.                                                                     *)
LEMMA PublishOther ==
    ASSUME NEW r, NEW q, NEW rows, NEW T, Tables(rows, T), Session(r, rows, T),
           Session(q, rows, T), r.held \cap q.held = {}
    PROVE  Session(q, [i \in Instances |-> See(r, rows, i)], Seen(r, T))
  <1> DEFINE new == [i \in Instances |-> See(r, rows, i)]
  <1> USE DEF Session
  <1>0. /\ q \in Transaction /\ Place(q)
        /\ r.staged \subseteq Transitions /\ q.staged \subseteq Transitions
        /\ T \subseteq Transitions
    BY DEF Transaction, Tables
  <1>1. \A i \in Instances : <<"instance", i>> \in q.held =>
            /\ new[i] = rows[i]
            /\ \A u \in r.staged : u.instance # i
    BY DEF Locked, See
  <1>2. \A t \in r.staged : <<"transition", t.id>> \notin q.held
    BY DEF Locked
  <1>3. \A t \in r.staged, u \in q.staged : Compatible(t, u) /\ Compatible(u, t)
    <2> SUFFICES ASSUME NEW t \in r.staged, NEW u \in q.staged
                 PROVE  Compatible(t, u) /\ Compatible(u, t)
      OBVIOUS
    <2>1. t.id # u.id
      BY <1>2 DEF Locked
    <2>2. u.instance \in Instances
      BY <1>0, TransitionFacts
    <2>3. <<"instance", u.instance>> \in q.held
      BY <2>2 DEF Locked
    <2>4. t.instance # u.instance
      BY <1>1, <2>2, <2>3
    <2> QED BY <2>1, <2>4 DEF Compatible
  <1>4. Progress(q, Seen(r, T))
    BY DEF Progress, Seen
  <1>5. Locked(q)
    OBVIOUS
  <1>6. Built(q, new, Seen(r, T))
    <2>1. ASSUME q.pc \in {"insert", "work"}, At(q).expected > 0
          PROVE  Matches(See(q, new, At(q).instance), At(q))
      <3>1. At(q) \in Transitions
        BY <1>0, <2>1, AtFacts DEF Statements
      <3>2. At(q).instance \in Instances
        BY <3>1, TransitionFacts
      <3>3. new[At(q).instance] = rows[At(q).instance]
        BY <1>1, <2>1, <3>2 DEF Locked
      <3>4. See(q, new, At(q).instance) = See(q, rows, At(q).instance)
        BY <3>3 DEF See
      <3> QED BY <2>1, <3>4 DEF Built
    <2>2. ASSUME q.pc = "work", NEW u \in Seen(q, Seen(r, T))
          PROVE  u.id # At(q).id
      BY <1>2, <2>2 DEF Built, Seen, Locked
    <2> QED BY <2>1, <2>2 DEF Built
  <1>7. Coherent(Seen(q, Seen(r, T)))
    <2>1. Coherent(Seen(r, T)) /\ Coherent(Seen(q, T))
      BY DEF Written
    <2>2. \A t \in Seen(r, T), u \in Seen(q, T) : Compatible(t, u) /\ Compatible(u, t)
      BY <1>3, <2>1 DEF Coherent, Seen
    <2>3. Seen(q, Seen(r, T)) = Seen(r, T) \cup Seen(q, T)
      BY DEF Seen
    <2> QED BY <2>1, <2>2, <2>3, CoherentUnion
  <1>8. ASSUME NEW i \in Instances, q.own[i] # NoRow
        PROVE  RowAgrees(i, q.own[i], Seen(q, Seen(r, T)))
    <2>1. RowAgrees(i, q.own[i], Seen(q, T))
      BY <1>8 DEF Written
    <2>2. \A u \in r.staged : u.instance # i
      BY <1>1, <1>8 DEF Locked
    <2> QED BY <2>1, <2>2, RowAgreesSame DEF Seen
  <1>9. Written(q, Seen(r, T))
    BY <1>7, <1>8 DEF Written
  <1> QED
    BY <1>0, <1>4, <1>5, <1>6, <1>9

-----------------------------------------------------------------------------
(* What each statement does to its own transaction.                        *)

(* A transaction that has been closed, or has not begun, promises nothing. *)
LEMMA ClosedSession ==
    ASSUME NEW r, NEW rows, NEW T, Coherent(T), r \in Transaction,
           r.staged = {}, r.held = {}, r.own = [i \in Instances |-> NoRow],
           Place(r), r.pc \in {"idle", "check", "done"},
           r.pc = "check" => r.at = 1
    PROVE  Session(r, rows, T)
  <1>1. Progress(r, T)
    BY DEF Progress, Statements
  <1>2. Locked(r) /\ Built(r, rows, T)
    BY DEF Locked, Built
  <1>3. Seen(r, T) = T
    BY DEF Seen
  <1>4. Written(r, T)
    BY <1>3 DEF Written
  <1> QED
    BY <1>1, <1>2, <1>4 DEF Session

(* A call that begins has a session.                                       *)
LEMMA BeginSession ==
    ASSUME NEW r, NEW rows, NEW T, Coherent(T), Session(r, rows, T), r.pc = "idle",
           NEW b \in Batches
    PROVE  Session([r EXCEPT !.pc = "check", !.batch = b], rows, T)
  <1> DEFINE q == [r EXCEPT !.pc = "check", !.batch = b]
  <1>1. r = Unused
    BY DEF Session, Place
  <1>2. q \in Transaction
    BY <1>1, UnusedType DEF Transaction, PCs, Statements
  <1>3. /\ q.pc = "check" /\ q.batch = b /\ q.at = 1 /\ q.staged = {} /\ q.held = {}
        /\ q.own = [i \in Instances |-> NoRow] /\ q.answer = "none"
    BY <1>1 DEF Unused
  <1>4. b.list # <<>> /\ b.list \in Seq(Transitions)
    BY BatchesAssumption
  <1>5. Len(b.list) >= 1
    BY <1>4
  <1>6. Place(q)
    BY <1>3, <1>5 DEF Place, Statements
  <1> HIDE DEF q
  <1> QED
    BY <1>2, <1>3, <1>6, ClosedSession DEF q

(* A call that ends has one.                                               *)
LEMMA CloseSession ==
    ASSUME NEW r, NEW rows, NEW T, Coherent(T), NEW old, Session(old, rows, T),
           old.pc # "idle", NEW a \in Log!Answers,
           r = [Unused EXCEPT !.pc = "done", !.batch = old.batch, !.answer = a]
    PROVE  Session(r, rows, T)
  <1>1. old.batch \in Batches
    BY DEF Session, Place
  <1>2. r \in Transaction
    BY <1>1, UnusedType DEF Transaction, PCs
  <1>3. /\ r.pc = "done" /\ r.batch \in Batches /\ r.staged = {} /\ r.held = {}
        /\ r.own = [i \in Instances |-> NoRow]
    BY <1>1 DEF Unused
  <1>4. Place(r)
    BY <1>3 DEF Place, Statements
  <1> QED
    BY <1>2, <1>3, <1>4, ClosedSession

(* The call is answered while its transaction is still open.               *)
LEMMA AnsweredSession ==
    ASSUME NEW r, NEW rows, NEW T, Session(r, rows, T), r.pc # "idle",
           NEW p \in {"replayed", "refused", "aborted", "lost"}, NEW a \in Log!Answers,
           p = "refused" => a = "refused",
           p = "lost" => a = "unknown" /\ r.pc = "commit"
    PROVE  Session([r EXCEPT !.pc = p, !.answer = a], rows, T)
  <1> DEFINE q == [r EXCEPT !.pc = p, !.answer = a]
  <1> USE DEF Session
  <1>1. q \in Transaction
    BY DEF Transaction, PCs
  <1>2. /\ q.pc = p /\ q.answer = a /\ q.batch = r.batch /\ q.at = r.at
        /\ q.staged = r.staged /\ q.own = r.own /\ q.held = r.held
    BY DEF Transaction
  <1> HIDE DEF q
  <1>3. Place(q)
    BY <1>2 DEF Place, Statements
  <1>4. Progress(q, T)
    BY <1>2 DEF Progress, Seen, Statements
  <1>5. Locked(q) /\ Built(q, rows, T)
    BY <1>2 DEF Locked, Built
  <1>6. Written(q, T)
    BY <1>2 DEF Written, Seen
  <1> QED
    BY <1>1, <1>3, <1>4, <1>5, <1>6 DEF q

(* A statement that moves on without writing.                              *)
LEMMA MovedSession ==
    ASSUME NEW r, NEW rows, NEW T, Session(r, rows, T), r.pc \in Statements,
           NEW p \in {"instance", "recheck"}
    PROVE  Session([r EXCEPT !.pc = p], rows, T)
  <1> DEFINE q == [r EXCEPT !.pc = p]
  <1> USE DEF Session
  <1>1. q \in Transaction
    BY DEF Transaction, PCs, Statements
  <1>2. /\ q.pc = p /\ q.answer = r.answer /\ q.batch = r.batch /\ q.at = r.at
        /\ q.staged = r.staged /\ q.own = r.own /\ q.held = r.held
    BY DEF Transaction
  <1> HIDE DEF q
  <1>3. Place(q)
    BY <1>2 DEF Place, Statements
  <1>4. Progress(q, T)
    BY <1>2 DEF Progress, Seen, Statements
  <1>5. Locked(q) /\ Built(q, rows, T)
    BY <1>2 DEF Locked, Built
  <1>6. Written(q, T)
    BY <1>2 DEF Written, Seen
  <1> QED
    BY <1>1, <1>3, <1>4, <1>5, <1>6 DEF q

(* insertInstance found no row and wrote one.                              *)
LEMMA InsertedSession ==
    ASSUME NEW r, NEW rows, NEW T, Tables(rows, T), Session(r, rows, T),
           r.pc = "instance", At(r).expected = 0,
           See(r, rows, At(r).instance) = NoRow, NEW q,
           q = [r EXCEPT !.pc = "insert",
                         !.held = @ \cup {<<"instance", At(r).instance>>},
                         !.own = [@ EXCEPT ![At(r).instance] =
                             [sequence |-> 0, definition |-> At(r).definition,
                              archived |-> FALSE]]]
    PROVE  Session(q, rows, T)
  <1> DEFINE t == At(r)
             i == t.instance
             row == [sequence |-> 0, definition |-> t.definition, archived |-> FALSE]
  <1>0. r \in Transaction /\ Place(r) /\ Progress(r, T) /\ Locked(r)
        /\ Built(r, rows, T) /\ Written(r, T) /\ r.pc \in Statements
    BY DEF Session, Statements
  <1>1. t \in Transitions /\ i \in Instances /\ t.definition \in Definitions
    BY <1>0, AtFacts, TransitionFacts
  <1>2. row \in Rows /\ row.sequence = 0 /\ row.archived = FALSE
    BY <1>1 DEF Rows
  <1> HIDE DEF row
  <1> DEFINE held == r.held \cup {<<"instance", i>>}
             own == [r.own EXCEPT ![i] = row]
  <1>3. q = [r EXCEPT !.pc = "insert", !.held = held, !.own = own]
    BY DEF row
  <1>4. held \in SUBSET Keys
    BY <1>0, <1>1 DEF Keys, Transaction
  <1>5. own \in [Instances -> Rows]
    BY <1>0, <1>2 DEF Transaction
  <1>6. q \in Transaction
    <2> HIDE DEF held, own
    <2> QED BY <1>0, <1>3, <1>4, <1>5 DEF Transaction, PCs, Statements
  <1>7. /\ q.pc = "insert" /\ q.answer = r.answer /\ q.batch = r.batch /\ q.at = r.at
        /\ q.staged = r.staged /\ q.own = [r.own EXCEPT ![i] = row]
        /\ q.held = r.held \cup {<<"instance", i>>}
    BY <1>0, <1>3 DEF Transaction
  <1>8. At(q) = t /\ Seen(q, T) = Seen(r, T)
    BY <1>7 DEF At, Seen
  <1>9. Place(q)
    BY <1>0, <1>7 DEF Place, Statements
  <1>10. Progress(q, T)
    BY <1>0, <1>7, <1>8 DEF Progress, Statements
  <1>11. r.own[i] = NoRow /\ r.own \in [Instances -> Rows]
    BY <1>0 DEF See, Transaction
  <1>12. \A u \in r.staged : u.instance \in Instances /\ u.instance # i
    BY <1>0, <1>11, TransitionFacts DEF Locked, Transaction
  <1>13. Locked(q)
    BY <1>0, <1>1, <1>7, <1>8, <1>11, <1>12 DEF Locked
  <1>14. Built(q, rows, T)
    BY <1>7, <1>8 DEF Built
  <1>15. RowAgrees(i, NoRow, Seen(r, T))
    BY <1>1, SeeAgrees
  <1>16. Seen(r, T) \subseteq Transitions
    BY <1>0 DEF Seen, Transaction, Tables
  <1>17. \A u \in Seen(r, T) : u.instance # i
    BY <1>15, <1>16, TransitionFacts, NoRowType DEF RowAgrees
  <1>18. RowAgrees(i, row, Seen(r, T))
    BY <1>2, <1>17 DEF RowAgrees
  <1>19. Written(q, T)
    <2>1. \A j \in Instances : q.own[j] = IF j = i THEN row ELSE r.own[j]
      BY <1>7, <1>11
    <2>2. Coherent(Seen(q, T))
      BY <1>0, <1>8 DEF Written
    <2>3. ASSUME NEW j \in Instances, q.own[j] # NoRow
          PROVE  RowAgrees(j, q.own[j], Seen(q, T))
      BY <1>0, <1>8, <1>18, <2>1, <2>3 DEF Written
    <2> QED BY <2>2, <2>3 DEF Written
  <1> QED
    BY <1>6, <1>9, <1>10, <1>13, <1>14, <1>19 DEF Session

(* lockInstance found the row the transition was built on, or another one. *)
LEMMA LockedSession ==
    ASSUME NEW r, NEW rows, NEW T, Tables(rows, T), Session(r, rows, T),
           r.pc = "instance", NEW p \in {"insert", "recheck"},
           p = "insert" => Matches(See(r, rows, At(r).instance), At(r)), NEW q,
           q = [r EXCEPT !.pc = p, !.held = @ \cup {<<"instance", At(r).instance>>}]
    PROVE  Session(q, rows, T)
  <1> DEFINE i == At(r).instance
             held == r.held \cup {<<"instance", i>>}
  <1>0. r \in Transaction /\ Place(r) /\ Progress(r, T) /\ Locked(r)
        /\ Built(r, rows, T) /\ Written(r, T) /\ r.pc \in Statements
    BY DEF Session, Statements
  <1>1. i \in Instances
    BY <1>0, AtFacts, TransitionFacts
  <1>2. held \in SUBSET Keys
    BY <1>0, <1>1 DEF Keys, Transaction
  <1>3. q \in Transaction
    <2>1. q = [r EXCEPT !.pc = p, !.held = held]
      OBVIOUS
    <2> HIDE DEF held
    <2> QED BY <1>0, <1>2, <2>1 DEF Transaction, PCs, Statements
  <1>4. /\ q.pc = p /\ q.answer = r.answer /\ q.batch = r.batch /\ q.at = r.at
        /\ q.staged = r.staged /\ q.own = r.own
        /\ q.held = r.held \cup {<<"instance", i>>}
    BY <1>0 DEF Transaction
  <1>5. At(q) = At(r) /\ Seen(q, T) = Seen(r, T) /\ See(q, rows, i) = See(r, rows, i)
    BY <1>4 DEF At, Seen, See
  <1>6. Place(q)
    BY <1>0, <1>4 DEF Place, Statements
  <1>7. Progress(q, T)
    BY <1>0, <1>4, <1>5 DEF Progress, Statements
  <1>8. Locked(q)
    BY <1>0, <1>4, <1>5 DEF Locked
  <1>9. Built(q, rows, T)
    BY <1>4, <1>5 DEF Built
  <1>10. Written(q, T)
    BY <1>0, <1>4, <1>5 DEF Written
  <1> QED
    BY <1>3, <1>6, <1>7, <1>8, <1>9, <1>10 DEF Session

(* insertTransition found the identity unused.                             *)
LEMMA IdentifiedSession ==
    ASSUME NEW r, NEW rows, NEW T, Session(r, rows, T), r.pc = "insert",
           \A u \in Seen(r, T) : u.id # At(r).id, NEW q,
           q = [r EXCEPT !.pc = "work", !.held = @ \cup {<<"transition", At(r).id>>}]
    PROVE  Session(q, rows, T)
  <1> DEFINE t == At(r)
             held == r.held \cup {<<"transition", t.id>>}
  <1>0. r \in Transaction /\ Place(r) /\ Progress(r, T) /\ Locked(r)
        /\ Built(r, rows, T) /\ Written(r, T) /\ r.pc \in Statements
    BY DEF Session, Statements
  <1>1. t \in Transitions
    BY <1>0, AtFacts
  <1>2. held \in SUBSET Keys
    BY <1>0, <1>1 DEF Keys, Transaction
  <1>3. q \in Transaction
    <2>1. q = [r EXCEPT !.pc = "work", !.held = held]
      OBVIOUS
    <2> HIDE DEF held
    <2> QED BY <1>0, <1>2, <2>1 DEF Transaction, PCs, Statements
  <1>4. /\ q.pc = "work" /\ q.answer = r.answer /\ q.batch = r.batch /\ q.at = r.at
        /\ q.staged = r.staged /\ q.own = r.own
        /\ q.held = r.held \cup {<<"transition", t.id>>}
    BY <1>0 DEF Transaction
  <1>5. At(q) = t /\ Seen(q, T) = Seen(r, T) /\ See(q, rows, t.instance) = See(r, rows, t.instance)
    BY <1>4 DEF At, Seen, See
  <1>6. Place(q)
    BY <1>0, <1>4 DEF Place, Statements
  <1>7. Progress(q, T)
    BY <1>0, <1>4, <1>5 DEF Progress, Statements
  <1>8. Locked(q)
    BY <1>0, <1>4, <1>5 DEF Locked
  <1>9. Built(q, rows, T)
    BY <1>0, <1>4, <1>5 DEF Built
  <1>10. Written(q, T)
    BY <1>0, <1>4, <1>5 DEF Written
  <1> QED
    BY <1>3, <1>6, <1>7, <1>8, <1>9, <1>10 DEF Session

(* One more work row is inserted.                                          *)
LEMMA WorkSession ==
    ASSUME NEW r, NEW rows, NEW T, Session(r, rows, T), r.pc = "work",
           NEW w \in WorkIds, NEW q,
           q = [r EXCEPT !.put = @ + 1, !.held = @ \cup {<<"work", w>>}]
    PROVE  Session(q, rows, T)
  <1> DEFINE t == At(r)
             held == r.held \cup {<<"work", w>>}
  <1>0. r \in Transaction /\ Place(r) /\ Progress(r, T) /\ Locked(r)
        /\ Built(r, rows, T) /\ Written(r, T) /\ r.pc \in Statements
    BY DEF Session, Statements
  <1>1. held \in SUBSET Keys /\ r.put + 1 \in Nat
    BY <1>0 DEF Keys, Transaction
  <1>2. q \in Transaction
    <2>1. q = [r EXCEPT !.put = r.put + 1, !.held = held]
      OBVIOUS
    <2> HIDE DEF held
    <2> QED BY <1>0, <1>1, <2>1 DEF Transaction
  <1>3. /\ q.pc = "work" /\ q.answer = r.answer /\ q.batch = r.batch /\ q.at = r.at
        /\ q.staged = r.staged /\ q.own = r.own
        /\ q.held = r.held \cup {<<"work", w>>}
    BY <1>0 DEF Transaction
  <1>4. At(q) = t /\ Seen(q, T) = Seen(r, T) /\ See(q, rows, t.instance) = See(r, rows, t.instance)
    BY <1>3 DEF At, Seen, See
  <1>5. Place(q)
    BY <1>0, <1>3 DEF Place, Statements
  <1>6. Progress(q, T)
    BY <1>0, <1>3, <1>4 DEF Progress, Statements
  <1>7. Locked(q)
    BY <1>0, <1>3, <1>4 DEF Locked
  <1>8. Built(q, rows, T)
    BY <1>0, <1>3, <1>4 DEF Built
  <1>9. Written(q, T)
    BY <1>0, <1>3, <1>4 DEF Written
  <1> QED
    BY <1>2, <1>5, <1>6, <1>7, <1>8, <1>9 DEF Session

Advanced(r) ==
    IF r.at < Len(r.batch.list)
    THEN [r EXCEPT !.pc = "check", !.at = @ + 1, !.put = 0]
    ELSE [r EXCEPT !.pc = "commit", !.put = 0]

(* The transition at hand is durable or staged, and the list goes on or    *)
(* ends.                                                                   *)
LEMMA AdvancedSession ==
    ASSUME NEW r \in Transaction, NEW rows, NEW T, Place(r), r.pc \in Statements,
           r.staged \subseteq Range(r.batch.list), At(r) \in Seen(r, T),
           \A j \in 1 .. r.at - 1 : r.batch.list[j] \in Seen(r, T),
           \A i \in Instances : r.own[i] # NoRow => <<"instance", i>> \in r.held,
           \A t \in r.staged :
              r.own[t.instance] # NoRow /\ <<"transition", t.id>> \in r.held,
           Written(r, T)
    PROVE  /\ Session(Advanced(r), rows, T)
           /\ Advanced(r).held = r.held
  <1>0. /\ r.batch \in Batches
        /\ r.batch.list \in Seq(Transitions)
        /\ r.at \in 1 .. Len(r.batch.list)
        /\ Len(r.batch.list) \in Nat
        /\ r.batch.mode = "commit" => Len(r.batch.list) <= 1
    BY AtFacts
  <1>1. CASE r.at < Len(r.batch.list)
    <2> DEFINE q == [r EXCEPT !.pc = "check", !.at = @ + 1, !.put = 0]
    <2>0. r.at + 1 \in Nat \ {0}
      BY <1>0
    <2>1. q \in Transaction
      BY <2>0 DEF Transaction, PCs, Statements
    <2>2. /\ q.pc = "check" /\ q.answer = r.answer /\ q.batch = r.batch /\ q.at = r.at + 1
          /\ q.staged = r.staged /\ q.own = r.own /\ q.held = r.held
      BY DEF Transaction
    <2>3. Advanced(r) = q
      BY <1>1 DEF Advanced
    <2> HIDE DEF q
    <2>4. Place(q)
      BY <1>0, <1>1, <2>2 DEF Place, Statements
    <2>5. \A j \in 1 .. q.at - 1 : q.batch.list[j] \in Seen(q, T)
      BY <1>0, <2>2 DEF Seen, At
    <2>6. Progress(q, T)
      <3>0. r.at \in Nat /\ Len(r.batch.list) \in Nat /\ 1 <= r.at
        BY <1>0
      <3>1. 1 < Len(r.batch.list)
        BY <1>1, <3>0
      <3>2. r.batch.mode # "commit"
        BY <1>0, <3>1
      <3> QED BY <2>2, <2>5, <3>2 DEF Progress
    <2>7. Locked(q) /\ Built(q, rows, T)
      BY <2>2 DEF Locked, Built
    <2>8. Written(q, T)
      BY <2>2 DEF Written, Seen
    <2> QED BY <2>1, <2>2, <2>3, <2>4, <2>6, <2>7, <2>8 DEF Session
  <1>2. CASE ~ (r.at < Len(r.batch.list))
    <2> DEFINE q == [r EXCEPT !.pc = "commit", !.put = 0]
    <2>1. q \in Transaction
      BY DEF Transaction, PCs
    <2>2. /\ q.pc = "commit" /\ q.answer = r.answer /\ q.batch = r.batch
          /\ q.staged = r.staged /\ q.own = r.own /\ q.held = r.held
      BY DEF Transaction
    <2>3. Advanced(r) = q
      BY <1>2 DEF Advanced
    <2> HIDE DEF q
    <2>4. Place(q)
      BY <1>0, <2>2 DEF Place, Statements
    <2>5. \A j \in 1 .. Len(r.batch.list) : r.batch.list[j] \in Seen(r, T)
      BY <1>0, <1>2 DEF At
    <2>6. Range(r.batch.list) \subseteq Seen(r, T)
      BY <1>0, <2>5 DEF Range
    <2>7. Progress(q, T)
      BY <2>2, <2>6 DEF Progress, Seen, Statements
    <2>8. Locked(q) /\ Built(q, rows, T)
      BY <2>2 DEF Locked, Built
    <2>9. Written(q, T)
      BY <2>2 DEF Written, Seen
    <2> QED BY <2>1, <2>2, <2>3, <2>4, <2>7, <2>8, <2>9 DEF Session
  <1> QED
    BY <1>1, <1>2

(* The transition at hand was found durable or staged.                     *)
LEMMA ReplayedSession ==
    ASSUME NEW r, NEW rows, NEW T, Session(r, rows, T), r.pc \in Statements,
           At(r) \in Seen(r, T)
    PROVE  Session(Advanced(r), rows, T) /\ Advanced(r).held = r.held
  BY AdvancedSession DEF Session, Progress, Locked

(* A transition that continues the row and whose identity is unused joins  *)
(* the durable and staged ones.                                            *)
LEMMA CoherentStaged ==
    ASSUME NEW T \in SUBSET Transitions, NEW t \in Transitions, NEW row \in Rows,
           Coherent(T), RowAgrees(t.instance, row, T), row.sequence = t.expected,
           t.expected > 0 => row.definition = t.definition,
           \A u \in T : u.id # t.id
    PROVE  /\ Coherent(T \cup {t})
           /\ RowAgrees(t.instance, Updated(row, t), T \cup {t})
  <1> USE TransitionFacts
  <1>1. \A u \in T : u.instance = t.instance => End(u) <= t.expected
    BY DEF RowAgrees
  <1>2. \A u \in T : Compatible(t, u) /\ Compatible(u, t)
    BY <1>1 DEF Compatible
  <1>3. t.expected = 0 \/ \E u \in T : Continues(t, u)
    BY DEF RowAgrees, Continues
  <1>4. Compatible(t, t)
    BY DEF Compatible
  <1>5. Coherent(T \cup {t})
    BY <1>2, <1>3, <1>4 DEF Coherent
  <1> DEFINE new == Updated(row, t)
  <1>6. /\ new.sequence = End(t) /\ new.definition = t.next
        /\ new.archived <=> (row.archived \/ t.terminal)
    BY DEF Updated
  <1> HIDE DEF new
  <1>7. \A u \in T \cup {t} : u.instance = t.instance => End(u) <= new.sequence
    BY <1>1, <1>6
  <1>8. \A n \in 1 .. new.sequence :
           \E u \in T \cup {t} : u.instance = t.instance /\ u.expected < n /\ n <= End(u)
    <2> SUFFICES ASSUME NEW n \in 1 .. End(t)
                 PROVE  \E u \in T \cup {t} :
                           u.instance = t.instance /\ u.expected < n /\ n <= End(u)
      BY <1>6
    <2>1. CASE n <= t.expected
      BY <2>1 DEF RowAgrees
    <2>2. CASE ~ (n <= t.expected)
      BY <2>2
    <2> QED BY <2>1, <2>2
  <1>9. new.archived <=> \E u \in T \cup {t} : u.instance = t.instance /\ u.terminal
    BY <1>6 DEF RowAgrees
  <1>10. RowAgrees(t.instance, new, T \cup {t})
    BY <1>6, <1>7, <1>8, <1>9 DEF RowAgrees
  <1> QED
    BY <1>5, <1>10 DEF new

(* updateInstance found the sequence it expected.                          *)
LEMMA UpdatedSession ==
    ASSUME NEW r, NEW rows, NEW T, Tables(rows, T), Session(r, rows, T),
           r.pc = "work", See(r, rows, At(r).instance).sequence = At(r).expected, NEW q,
           q = [r EXCEPT !.staged = @ \cup {At(r)},
                         !.own = [@ EXCEPT ![At(r).instance] =
                                     Updated(See(r, rows, At(r).instance), At(r))]]
    PROVE  /\ Session(Advanced(q), rows, T)
           /\ Advanced(q).held = r.held
  <1> DEFINE t == At(r)
             i == t.instance
             row == See(r, rows, i)
             new == Updated(row, t)
             own == [r.own EXCEPT ![i] = new]
             staged == r.staged \cup {t}
  <1>0. r \in Transaction /\ Place(r) /\ Progress(r, T) /\ Locked(r)
        /\ Built(r, rows, T) /\ Written(r, T) /\ r.pc \in Statements
    BY DEF Session, Statements
  <1>1. t \in Transitions /\ i \in Instances /\ t \in Range(r.batch.list)
        /\ t.expected \in Nat /\ End(t) \in Nat /\ End(t) > t.expected
        /\ t.terminal \in BOOLEAN /\ t.next \in Definitions
    BY <1>0, AtFacts, TransitionFacts
  <1>2. row \in Rows /\ RowAgrees(i, row, Seen(r, T))
    BY <1>1, SeeAgrees
  <1>3. Seen(r, T) \in SUBSET Transitions
    BY <1>0 DEF Seen, Transaction, Tables
  <1>4. /\ Coherent(Seen(r, T))
        /\ t.expected > 0 => row.definition = t.definition
        /\ \A u \in Seen(r, T) : u.id # t.id
    BY <1>0 DEF Written, Built, Matches
  <1>5. Coherent(Seen(r, T) \cup {t}) /\ RowAgrees(i, new, Seen(r, T) \cup {t})
    BY <1>1, <1>2, <1>3, <1>4, CoherentStaged
  <1>6. new \in Rows /\ new # NoRow
    <2>1. new \in Rows
      BY <1>1, <1>2 DEF Updated, Rows
    <2>2. new.sequence = End(t)
      BY DEF Updated
    <2> QED BY <1>1, <2>1, <2>2, NoRowType
  <1> HIDE DEF new
  <1>7. own \in [Instances -> Rows] /\ staged \in SUBSET Transitions
    BY <1>0, <1>1, <1>6 DEF Transaction
  <1>8. q = [r EXCEPT !.staged = staged, !.own = own]
    BY DEF new
  <1>9. q \in Transaction
    <2> HIDE DEF staged, own
    <2> QED BY <1>0, <1>7, <1>8 DEF Transaction
  <1>10. /\ q.pc = "work" /\ q.answer = r.answer /\ q.batch = r.batch /\ q.at = r.at
         /\ q.held = r.held /\ q.staged = r.staged \cup {t} /\ q.own = own
    BY <1>0, <1>8 DEF Transaction
  <1>11. At(q) = t /\ Seen(q, T) = Seen(r, T) \cup {t}
    BY <1>10 DEF At, Seen
  <1>12. \A j \in Instances : q.own[j] = IF j = i THEN new ELSE r.own[j]
    BY <1>0, <1>10 DEF Transaction
  <1>13. Place(q)
    BY <1>0, <1>10 DEF Place, Statements
  <1>14. q.staged \subseteq Range(q.batch.list)
    BY <1>0, <1>1, <1>10 DEF Progress
  <1>15. \A j \in 1 .. q.at - 1 : q.batch.list[j] \in Seen(q, T)
    BY <1>0, <1>10, <1>11 DEF Progress
  <1>16. <<"instance", i>> \in r.held /\ <<"transition", t.id>> \in r.held
    BY <1>0 DEF Locked
  <1>17. \A j \in Instances : q.own[j] # NoRow => <<"instance", j>> \in q.held
    BY <1>0, <1>10, <1>12, <1>16 DEF Locked
  <1>18. \A u \in q.staged : q.own[u.instance] # NoRow /\ <<"transition", u.id>> \in q.held
    <2>1. \A u \in q.staged : u.instance \in Instances
      BY <1>7, <1>10, TransitionFacts
    <2> QED BY <1>0, <1>6, <1>10, <1>12, <1>16, <2>1 DEF Locked
  <1>19. Written(q, T)
    <2>1. ASSUME NEW j \in Instances, q.own[j] # NoRow
          PROVE  RowAgrees(j, q.own[j], Seen(q, T))
      <3>1. CASE j = i
        BY <1>5, <1>11, <1>12, <3>1
      <3>2. CASE j # i
        <4>1. RowAgrees(j, r.own[j], Seen(r, T))
          BY <1>0, <1>12, <2>1, <3>2 DEF Written
        <4>2. RowAgrees(j, r.own[j], Seen(r, T) \cup {t})
          BY <3>2, <4>1, RowAgreesSame
        <4> QED BY <1>11, <1>12, <3>2, <4>2
      <3> QED BY <3>1, <3>2
    <2> QED BY <1>5, <1>11, <2>1 DEF Written
  <1> QED
    BY <1>9, <1>10, <1>11, <1>13, <1>14, <1>15, <1>17, <1>18, <1>19, AdvancedSession
       DEF Statements

-----------------------------------------------------------------------------
(* Steps of the system.                                                    *)

(* The model's names for what a transaction sees.                          *)
LEMMA Views ==
    ASSUME NEW s \in Calls
    PROVE  /\ Current(s) = At(tx[s])
           /\ \A i : Row(s, i) = See(tx[s], instances, i)
           /\ Recorded(s) = Seen(tx[s], transitions)
  BY DEF Current, At, Row, See, Recorded, Seen

(* A step of s that leaves the tables alone is a matter of s and its locks.*)
LEMMA LocalStep ==
    ASSUME IInv, NEW s \in Calls, NEW q, tx' = [tx EXCEPT ![s] = q], UNCHANGED tables,
           Session(q, instances, transitions),
           \A o \in Calls \ {s} : q.held \cap tx[o].held = {}
    PROVE  IInv'
  <1>1. Tables(instances, transitions)' /\ (history = EventsOf(transitions))'
    BY DEF IInv, tables
  <1>2. q \in Transaction
    BY DEF Session
  <1>3. tx' \in [Calls -> Transaction]
    BY <1>2 DEF IInv
  <1>4. tx'[s] = q /\ \A o \in Calls \ {s} : tx'[o] = tx[o]
    BY DEF IInv
  <1>5. \A o \in Calls : Session(tx'[o], instances', transitions')
    BY <1>4 DEF IInv, tables
  <1>6. Exclusive'
    BY <1>4 DEF IInv, Exclusive
  <1> QED
    BY <1>1, <1>3, <1>5, <1>6 DEF IInv

(* A step that takes no lock.                                              *)
LEMMA QuietStep ==
    ASSUME IInv, NEW s \in Calls, NEW q, tx' = [tx EXCEPT ![s] = q], UNCHANGED tables,
           Session(q, instances, transitions), q.held \subseteq tx[s].held
    PROVE  IInv'
  <1>1. \A o \in Calls \ {s} : q.held \cap tx[o].held = {}
    BY DEF IInv, Exclusive
  <1> QED
    BY <1>1, LocalStep

(* The events of a union.                                                  *)
LEMMA EventsUnion ==
    ASSUME NEW T, NEW U
    PROVE  EventsOf(T \cup U) = EventsOf(T) \cup EventsOf(U)
  BY DEF EventsOf

(* The server commits the transaction of s.                                *)
LEMMA PublishStep ==
    ASSUME IInv, NEW s \in Calls, tx[s].pc # "idle", NEW a \in Log!Answers,
           Publish(s), Close(s, a)
    PROVE  IInv'
  <1> DEFINE r == tx[s]
             q == [Unused EXCEPT !.pc = "done", !.batch = r.batch, !.answer = a]
  <1>0. /\ Tables(instances, transitions) /\ Session(r, instances, transitions)
        /\ history = EventsOf(transitions) /\ tx \in [Calls -> Transaction]
        /\ \A o \in Calls : Session(tx[o], instances, transitions)
        /\ Exclusive
    BY DEF IInv
  <1>1. /\ instances' = [i \in Instances |-> See(r, instances, i)]
        /\ transitions' = Seen(r, transitions)
    BY DEF Publish, Row, See, Seen
  <1>2. Tables(instances', transitions')
    BY <1>0, <1>1, PublishTables
  <1>3. history' = EventsOf(transitions')
    <2>1. history' = history \cup EventsOf(r.staged)
      BY DEF Publish, EventsOf
    <2> QED BY <1>0, <1>1, <2>1, EventsUnion DEF Seen
  <1>4. tx' = [tx EXCEPT ![s] = q]
    BY DEF Close
  <1>5. Session(q, instances, transitions)
    BY <1>0, CloseSession DEF Tables
  <1>6. Session(q, instances', transitions')
    <2>1. Coherent(transitions') /\ q \in Transaction /\ Place(q)
      BY <1>2, <1>5 DEF Tables, Session
    <2>2. /\ q.pc = "done" /\ q.staged = {} /\ q.held = {}
          /\ q.own = [i \in Instances |-> NoRow]
      BY DEF Unused
    <2> HIDE DEF q
    <2> QED BY <2>1, <2>2, ClosedSession
  <1>7. q.held = {} /\ q \in Transaction
    BY <1>5 DEF Unused, Session
  <1> HIDE DEF q
  <1>8. tx' \in [Calls -> Transaction] /\ tx'[s] = q /\ \A o \in Calls \ {s} : tx'[o] = tx[o]
    BY <1>0, <1>4, <1>7
  <1>9. ASSUME NEW o \in Calls PROVE Session(tx'[o], instances', transitions')
    <2>1. CASE o = s
      BY <1>6, <1>8, <2>1
    <2>2. CASE o # s
      <3>1. r.held \cap tx[o].held = {} /\ tx'[o] = tx[o]
        BY <1>0, <1>8, <2>2 DEF Exclusive
      <3> QED BY <1>0, <1>1, <3>1, PublishOther
    <2> QED BY <2>1, <2>2
  <1>10. Exclusive'
    BY <1>0, <1>7, <1>8 DEF Exclusive
  <1> QED
    BY <1>2, <1>3, <1>8, <1>9, <1>10 DEF IInv

(* A call ends and leaves the tables alone.                                *)
LEMMA CloseStep ==
    ASSUME IInv, NEW s \in Calls, tx[s].pc # "idle", NEW a \in Log!Answers,
           UNCHANGED tables, Close(s, a)
    PROVE  IInv'
  <1> DEFINE q == [Unused EXCEPT !.pc = "done", !.batch = tx[s].batch, !.answer = a]
  <1>1. Session(q, instances, transitions)
    BY CloseSession DEF IInv, Tables
  <1>2. q.held = {}
    BY DEF Unused
  <1>3. tx' = [tx EXCEPT ![s] = q]
    BY DEF Close
  <1> HIDE DEF q
  <1> QED
    BY <1>1, <1>2, <1>3, QuietStep

(* A call is answered and leaves the tables alone.                         *)
LEMMA AnswerStep ==
    ASSUME IInv, NEW s \in Calls, tx[s].pc # "idle", UNCHANGED tables,
           NEW p \in {"replayed", "refused", "aborted", "lost"}, NEW a \in Log!Answers,
           p = "refused" => a = "refused",
           p = "lost" => a = "unknown" /\ tx[s].pc = "commit",
           tx' = [tx EXCEPT ![s].pc = p, ![s].answer = a]
    PROVE  IInv'
  <1> DEFINE q == [tx[s] EXCEPT !.pc = p, !.answer = a]
  <1>0. tx[s] \in Transaction /\ Session(tx[s], instances, transitions)
        /\ tx \in [Calls -> Transaction]
    BY DEF IInv
  <1>1. Session(q, instances, transitions)
    BY <1>0, AnsweredSession
  <1>2. q.held = tx[s].held
    BY <1>0 DEF Transaction
  <1>3. tx' = [tx EXCEPT ![s] = q]
    BY <1>0
  <1> HIDE DEF q
  <1> QED
    BY <1>1, <1>2, <1>3, QuietStep

(* A call goes on to its next statement.                                   *)
LEMMA AdvanceStep ==
    ASSUME IInv, NEW s \in Calls, NEW r, UNCHANGED tables, Advance(s, r),
           Session(Advanced(r), instances, transitions), Advanced(r).held = tx[s].held
    PROVE  IInv'
  <1>1. tx' = [tx EXCEPT ![s] = Advanced(r)]
    BY DEF Advance, Advanced
  <1> QED
    BY <1>1, QuietStep

(* A call finds its transition recorded.                                   *)
LEMMA ReplayedStep ==
    ASSUME IInv, NEW s \in Calls, tx[s].pc \in Statements, UNCHANGED tables,
           Exact(s, Current(s)), Replayed(s)
    PROVE  IInv'
  <1>1. tx[s].pc # "idle" /\ Session(tx[s], instances, transitions)
    BY DEF IInv, Statements
  <1>2. CASE tx[s].batch.mode = "commit"
    BY <1>1, <1>2, AnswerStep DEF Replayed, Log!Answers
  <1>3. CASE tx[s].batch.mode # "commit"
    <2>1. Advance(s, tx[s])
      BY <1>3 DEF Replayed
    <2>2. At(tx[s]) \in Seen(tx[s], transitions)
      BY Views DEF Exact
    <2> QED BY <1>1, <2>1, <2>2, ReplayedSession, AdvanceStep
  <1> QED
    BY <1>2, <1>3

(* A call is refused or aborted.                                           *)
LEMMA RefusedStep ==
    ASSUME IInv, NEW s \in Calls, tx[s].pc \in Statements, UNCHANGED tables,
           Refused(s) \/ Aborted(s)
    PROVE  IInv'
  <1>1. tx[s].pc # "idle"
    BY DEF Statements
  <1> QED
    BY <1>1, AnswerStep DEF Refused, Aborted, Log!Answers

(* A call takes another branch of stageTransition.                         *)
LEMMA MovedStep ==
    ASSUME IInv, NEW s \in Calls, tx[s].pc \in Statements, UNCHANGED tables,
           NEW p \in {"instance", "recheck"}, tx' = [tx EXCEPT ![s].pc = p]
    PROVE  IInv'
  <1> DEFINE q == [tx[s] EXCEPT !.pc = p]
  <1>0. Session(tx[s], instances, transitions) /\ tx[s] \in Transaction
    BY DEF IInv
  <1>1. Session(q, instances, transitions)
    BY <1>0, MovedSession
  <1>2. q.held = tx[s].held
    BY <1>0 DEF Transaction
  <1>3. tx' = [tx EXCEPT ![s] = q]
    OBVIOUS
  <1> HIDE DEF q
  <1> QED
    BY <1>1, <1>2, <1>3, QuietStep

(* A call begins.                                                          *)
LEMMA BeginStep ==
    ASSUME IInv, NEW s \in Calls, NEW b \in Batches, Begin(s, b)
    PROVE  IInv'
  <1> DEFINE q == [tx[s] EXCEPT !.pc = "check", !.batch = b]
  <1>0. Session(tx[s], instances, transitions) /\ tx[s] \in Transaction
        /\ tx \in [Calls -> Transaction] /\ Coherent(transitions) /\ tx[s].pc = "idle"
        /\ UNCHANGED tables
    BY DEF IInv, Tables, Begin
  <1>1. Session(q, instances, transitions)
    BY <1>0, BeginSession
  <1>2. q.held = tx[s].held
    BY <1>0 DEF Transaction
  <1>3. tx' = [tx EXCEPT ![s] = q]
    BY <1>0 DEF Begin
  <1> HIDE DEF q
  <1> QED
    BY <1>0, <1>1, <1>2, <1>3, QuietStep

(* exactTransition, before the lock.                                       *)
LEMMA CheckStep ==
    ASSUME IInv, NEW s \in Calls, Check(s)
    PROVE  IInv'
  <1>1. tx[s].pc \in Statements /\ UNCHANGED tables
    BY DEF Check, Statements
  <1> QED
    BY <1>1, ReplayedStep, RefusedStep, MovedStep DEF Check

(* insertInstance.                                                         *)
LEMMA InsertInstanceStep ==
    ASSUME IInv, NEW s \in Calls, InsertInstance(s)
    PROVE  IInv'
  <1> DEFINE t == At(tx[s])
             i == t.instance
             row == [sequence |-> 0, definition |-> t.definition, archived |-> FALSE]
             q == [tx[s] EXCEPT !.pc = "insert", !.held = @ \cup {<<"instance", i>>},
                                !.own = [@ EXCEPT ![i] = row]]
  <1>0. /\ Session(tx[s], instances, transitions) /\ tx[s] \in Transaction
        /\ tx \in [Calls -> Transaction] /\ Tables(instances, transitions)
        /\ tx[s].pc = "instance" /\ tx[s].pc \in Statements /\ UNCHANGED tables
        /\ Current(s) = t /\ Row(s, i) = See(tx[s], instances, i)
    BY Views DEF IInv, InsertInstance, Statements
  <1>1. CASE Row(s, i) # NoRow
    BY <1>0, <1>1, MovedStep DEF InsertInstance
  <1>2. CASE Row(s, i) = NoRow
    <2>1. tx' = [tx EXCEPT ![s].pc = "insert",
                           ![s].held = @ \cup {<<"instance", i>>},
                           ![s].own[i] = row]
      BY <1>0, <1>2 DEF InsertInstance
    <2> HIDE DEF row
    <2>2. tx' = [tx EXCEPT ![s] = q]
      BY <1>0, <2>1
    <2>3. t.expected = 0 /\ ~Blocked(s)
      BY <1>0 DEF InsertInstance
    <2>4. Session(q, instances, transitions)
      BY <1>0, <1>2, <2>3, InsertedSession DEF row
    <2>5. q.held = tx[s].held \cup {<<"instance", i>>}
      BY <1>0 DEF Transaction
    <2>6. instances[i] = NoRow
      BY <1>0, <1>2 DEF See
    <2>7. \A o \in Calls \ {s} : <<"instance", i>> \notin tx[o].held
      <3>1. MayWait(s)
        BY <1>0, <2>3, <2>6 DEF MayWait
      <3>2. Key(s) = <<"instance", i>>
        BY <1>0 DEF Key
      <3>3. Current(s) = t
        BY DEF Current, At
      <3> QED BY <2>3, <2>6, <3>1, <3>2, <3>3 DEF Blocked, Blockers, OnlyLocked
    <2> HIDE DEF q
    <2>8. \A o \in Calls \ {s} : q.held \cap tx[o].held = {}
      BY <2>5, <2>7 DEF IInv, Exclusive
    <2> QED BY <1>0, <2>2, <2>4, <2>8, LocalStep
  <1> QED
    BY <1>1, <1>2

(* lockInstance.                                                           *)
LEMMA LockInstanceStep ==
    ASSUME IInv, NEW s \in Calls, LockInstance(s)
    PROVE  IInv'
  <1> DEFINE t == At(tx[s])
             i == t.instance
             p == IF Matches(Row(s, i), t) THEN "insert" ELSE "recheck"
             q == [tx[s] EXCEPT !.pc = p, !.held = @ \cup {<<"instance", i>>}]
  <1>0. /\ Session(tx[s], instances, transitions) /\ tx[s] \in Transaction
        /\ tx \in [Calls -> Transaction] /\ Tables(instances, transitions)
        /\ tx[s].pc = "instance" /\ tx[s].pc \in Statements /\ UNCHANGED tables
        /\ Current(s) = t /\ Row(s, i) = See(tx[s], instances, i)
        /\ t.expected > 0 /\ ~Blocked(s)
    BY Views DEF IInv, LockInstance, Statements
  <1>1. i \in Instances
    BY <1>0, AtFacts, TransitionFacts DEF Session
  <1>2. CASE Row(s, i) = NoRow
    BY <1>0, <1>2, RefusedStep DEF LockInstance
  <1>3. CASE Row(s, i) # NoRow
    <2>1. tx' = [tx EXCEPT ![s].pc = p, ![s].held = @ \cup {<<"instance", i>>}]
      BY <1>0, <1>3 DEF LockInstance
    <2>2. p \in {"insert", "recheck"} /\ (p = "insert" => Matches(Row(s, i), t))
      OBVIOUS
    <2> HIDE DEF p
    <2>3. tx' = [tx EXCEPT ![s] = q]
      BY <1>0, <2>1
    <2>4. Session(q, instances, transitions)
      BY <1>0, <2>2, LockedSession
    <2>5. q.held = tx[s].held \cup {<<"instance", i>>}
      BY <1>0 DEF Transaction
    <2>6. \A o \in Calls \ {s} : <<"instance", i>> \notin tx[o].held
      <3>1. CASE instances[i] = NoRow
        <4>1. <<"instance", i>> \in tx[s].held
          BY <1>0, <1>1, <1>3, <3>1 DEF See, Session, Locked
        <4> QED BY <4>1 DEF IInv, Exclusive
      <3>2. CASE instances[i] # NoRow
        <4>1. MayWait(s)
          BY <1>0, <3>2 DEF MayWait
        <4>2. Key(s) = <<"instance", i>>
          BY <1>0 DEF Key
        <4> QED BY <1>0, <4>1, <4>2 DEF Blocked, Blockers, OnlyLocked
      <3> QED BY <3>1, <3>2
    <2> HIDE DEF q
    <2>7. \A o \in Calls \ {s} : q.held \cap tx[o].held = {}
      BY <2>5, <2>6 DEF IInv, Exclusive
    <2> QED BY <1>0, <2>3, <2>4, <2>7, LocalStep
  <1> QED
    BY <1>2, <1>3

(* insertTransition.                                                       *)
LEMMA InsertTransitionStep ==
    ASSUME IInv, NEW s \in Calls, InsertTransition(s)
    PROVE  IInv'
  <1> DEFINE t == At(tx[s])
             q == [tx[s] EXCEPT !.pc = "work", !.held = @ \cup {<<"transition", t.id>>}]
  <1>0. /\ Session(tx[s], instances, transitions) /\ tx[s] \in Transaction
        /\ tx \in [Calls -> Transaction] /\ Tables(instances, transitions)
        /\ tx[s].pc = "insert" /\ tx[s].pc \in Statements /\ UNCHANGED tables
        /\ Current(s) = t /\ Recorded(s) = Seen(tx[s], transitions)
        /\ ~Blocked(s)
    BY Views DEF IInv, InsertTransition, Statements
  <1>1. CASE Reused(s, t)
    BY <1>0, <1>1, MovedStep DEF InsertTransition
  <1>2. CASE ~Reused(s, t)
    <2>1. tx' = [tx EXCEPT ![s].pc = "work", ![s].held = @ \cup {<<"transition", t.id>>}]
      BY <1>0, <1>2 DEF InsertTransition
    <2>2. tx' = [tx EXCEPT ![s] = q]
      BY <1>0, <2>1
    <2>3. \A u \in Seen(tx[s], transitions) : u.id # t.id
      BY <1>0, <1>2 DEF Reused
    <2>4. Session(q, instances, transitions)
      BY <1>0, <2>3, IdentifiedSession
    <2>5. q.held = tx[s].held \cup {<<"transition", t.id>>}
      BY <1>0 DEF Transaction
    <2>6. \A o \in Calls \ {s} : <<"transition", t.id>> \notin tx[o].held
      <3>1. MayWait(s)
        BY <1>0, <2>3 DEF MayWait, Seen
      <3>2. Key(s) = <<"transition", t.id>>
        BY <1>0 DEF Key
      <3> QED BY <1>0, <3>1, <3>2 DEF Blocked, Blockers, OnlyLocked
    <2> HIDE DEF q
    <2>7. \A o \in Calls \ {s} : q.held \cap tx[o].held = {}
      BY <2>5, <2>6 DEF IInv, Exclusive
    <2> QED BY <1>0, <2>2, <2>4, <2>7, LocalStep
  <1> QED
    BY <1>1, <1>2

(* insertWork.                                                             *)
LEMMA InsertWorkStep ==
    ASSUME IInv, NEW s \in Calls, InsertWork(s)
    PROVE  IInv'
  <1> DEFINE t == At(tx[s])
             w == t.work[tx[s].put + 1]
             q == [tx[s] EXCEPT !.put = @ + 1, !.held = @ \cup {<<"work", w>>}]
  <1>0. /\ Session(tx[s], instances, transitions) /\ tx[s] \in Transaction
        /\ tx \in [Calls -> Transaction] /\ Tables(instances, transitions)
        /\ tx[s].pc = "work" /\ tx[s].pc \in Statements /\ UNCHANGED tables
        /\ Current(s) = t /\ tx[s].put < Len(t.work) /\ tx[s].put \in Nat
        /\ ~Blocked(s)
    BY Views DEF IInv, InsertWork, Statements, Transaction
  <1>1. CASE w \in work \cup OwnWork(s)
    BY <1>0, <1>1, RefusedStep DEF InsertWork
  <1>2. CASE w \notin work \cup OwnWork(s)
    <2>1. tx' = [tx EXCEPT ![s].put = @ + 1, ![s].held = @ \cup {<<"work", w>>}]
      BY <1>0, <1>2 DEF InsertWork
    <2>2. tx' = [tx EXCEPT ![s] = q]
      BY <1>0, <2>1
    <2>3. t.work \in Seq(WorkIds)
      BY <1>0, AtFacts, TransitionFacts DEF Session
    <2>4. w \in WorkIds
      BY <1>0, <2>3
    <2>5. Session(q, instances, transitions)
      BY <1>0, <2>4, WorkSession
    <2>6. q.held = tx[s].held \cup {<<"work", w>>}
      BY <1>0 DEF Transaction
    <2>7. \A o \in Calls \ {s} : <<"work", w>> \notin tx[o].held
      <3>1. MayWait(s)
        BY <1>0, <1>2 DEF MayWait
      <3>2. Key(s) = <<"work", w>>
        BY <1>0 DEF Key
      <3> QED BY <1>0, <3>1, <3>2 DEF Blocked, Blockers, OnlyLocked
    <2> HIDE DEF q
    <2>8. \A o \in Calls \ {s} : q.held \cap tx[o].held = {}
      BY <2>6, <2>7 DEF IInv, Exclusive
    <2> QED BY <1>0, <2>2, <2>5, <2>8, LocalStep
  <1> QED
    BY <1>1, <1>2

(* updateInstance.                                                         *)
LEMMA UpdateInstanceStep ==
    ASSUME IInv, NEW s \in Calls, UpdateInstance(s)
    PROVE  IInv'
  <1> DEFINE t == At(tx[s])
             i == t.instance
             row == See(tx[s], instances, i)
             q == [tx[s] EXCEPT !.staged = @ \cup {t}, !.own = [@ EXCEPT ![i] = Updated(row, t)]]
  <1>0. /\ Session(tx[s], instances, transitions) /\ tx[s] \in Transaction
        /\ Tables(instances, transitions)
        /\ tx[s].pc = "work" /\ tx[s].pc \in Statements /\ UNCHANGED tables
        /\ Current(s) = t /\ Row(s, i) = row
    BY Views DEF IInv, UpdateInstance, Statements
  <1>1. CASE row.sequence # t.expected
    BY <1>0, <1>1, RefusedStep DEF UpdateInstance
  <1>2. CASE row.sequence = t.expected
    <2>1. Advance(s, [tx[s] EXCEPT !.staged = @ \cup {t}, !.own[i] = Updated(row, t)])
      BY <1>0, <1>2 DEF UpdateInstance
    <2>2. [tx[s] EXCEPT !.staged = @ \cup {t}, !.own[i] = Updated(row, t)] = q
      BY <1>0
    <2>3. Advance(s, q)
      BY <2>1, <2>2
    <2>4. Session(Advanced(q), instances, transitions) /\ Advanced(q).held = tx[s].held
      BY <1>0, <1>2, UpdatedSession
    <2> HIDE DEF q
    <2> QED BY <1>0, <2>3, <2>4, AdvanceStep
  <1> QED
    BY <1>1, <1>2

(* concurrentTransition.                                                   *)
LEMMA RecheckStep ==
    ASSUME IInv, NEW s \in Calls, Recheck(s)
    PROVE  IInv'
  <1>1. tx[s].pc \in Statements /\ UNCHANGED tables
    BY DEF Recheck, Statements
  <1> QED
    BY <1>1, ReplayedStep, RefusedStep DEF Recheck, concurrentTransition

(* Only a statement can wait.                                              *)
LEMMA WaitingIsStatement ==
    ASSUME NEW s \in Calls, Deadlocked(s)
    PROVE  tx[s].pc \in Statements
  BY DEF Deadlocked, Knot, Blocked, Blockers, MayWait, Statements

(* The commit or the rollback.                                             *)
LEMMA FinishStep ==
    ASSUME IInv, NEW s \in Calls, Finish(s)
    PROVE  IInv'
  <1> USE DEF Log!Answers
  <1>0. tx[s].answer \in Log!Answers
    BY DEF IInv, Transaction
  <1>1. CASE CommitAcknowledged(s)
    BY <1>1, PublishStep DEF CommitAcknowledged
  <1>2. CASE CommitUnknown(s)
    BY <1>2, AnswerStep DEF CommitUnknown
  <1>3. CASE CommitLandsLate(s)
    BY <1>3, PublishStep DEF CommitLandsLate
  <1>4. CASE RollBack(s)
    BY <1>0, <1>4, CloseStep DEF RollBack
  <1>5. CASE CallerRollsBack(s)
    BY <1>5, CloseStep DEF CallerRollsBack
  <1>6. CASE CallerCommitsRefused(s)
    BY <1>6, PublishStep DEF CallerCommitsRefused
  <1> QED
    BY <1>1, <1>2, <1>3, <1>4, <1>5, <1>6 DEF Finish

(* The invariant holds at the start.                                       *)
LEMMA InitInductive == Init => IInv
  <1> SUFFICES ASSUME Init PROVE IInv
    OBVIOUS
  <1>1. Coherent({})
    BY DEF Coherent
  <1>2. Tables(instances, transitions)
    BY <1>1, NoRowType DEF Init, Tables, RowAgrees, NoRow
  <1>3. history = EventsOf(transitions)
    BY DEF Init, EventsOf
  <1>4. /\ Unused.pc = "idle" /\ Unused.staged = {} /\ Unused.held = {}
        /\ Unused.own = [i \in Instances |-> NoRow]
    BY DEF Unused
  <1>5. Place(Unused)
    BY <1>4 DEF Place, Statements
  <1>6. Session(Unused, instances, transitions)
    BY <1>1, <1>4, <1>5, UnusedType, ClosedSession DEF Init
  <1>7. tx \in [Calls -> Transaction] /\ \A s \in Calls : tx[s] = Unused
    BY UnusedType DEF Init
  <1> QED
    BY <1>2, <1>3, <1>4, <1>6, <1>7 DEF IInv, Exclusive

(* Every step keeps it.                                                    *)
LEMMA NextInductive == IInv /\ [Next]_vars => IInv'
  <1>1. ASSUME IInv, UNCHANGED vars PROVE IInv'
    BY <1>1 DEF vars, IInv, Exclusive
  <1>2. ASSUME IInv, NEW s \in Calls, Step(s) PROVE IInv'
    <2>1. ASSUME StatementFails(s) PROVE IInv'
      BY <1>2, <2>1, RefusedStep DEF StatementFails
    <2>2. ASSUME DeadlockDetected(s) PROVE IInv'
      BY <1>2, <2>2, RefusedStep, WaitingIsStatement DEF DeadlockDetected
    <2> QED BY <1>2, <2>1, <2>2, BeginStep, CheckStep, InsertInstanceStep, LockInstanceStep,
               InsertTransitionStep, InsertWorkStep, UpdateInstanceStep, RecheckStep,
               FinishStep DEF Step, Statement
  <1> QED
    BY <1>1, <1>2 DEF Next

(* It always holds.                                                        *)
LEMMA Inductive == Spec => []IInv
  BY InitInductive, NextInductive, PTL DEF Spec

-----------------------------------------------------------------------------
(* Theorems.                                                               *)

(* The tables and the transactions keep their types, and a transaction     *)
(* stages nothing but what is on its list (stageTransition).               *)
THEOREM StoreTypeCorrect == Spec => []TypeOK
  <1>1. ASSUME IInv PROVE TypeOK
    <2>1. transitions \subseteq Transitions /\ \A i \in Instances : instances[i].sequence \in Nat
      BY <1>1 DEF IInv, Tables, Rows
    <2>2. ASSUME NEW s \in Calls
          PROVE  /\ tx[s].pc \in PCs
                 /\ tx[s].batch \in Batches \cup {NoBatch}
                 /\ tx[s].staged \subseteq Range(tx[s].batch.list)
      BY <1>1 DEF IInv, Session, Transaction, Progress
    <2> QED BY <2>1, <2>2 DEF TypeOK
  <1> QED
    BY <1>1, Inductive, PTL

(* Every event of the history has exactly one writer: the transitions of   *)
(* an instance cover 1 .. sequence, and no two of them overlap.            *)
LEMMA EventsCounted ==
    ASSUME IInv, NEW i \in Instances
    PROVE  /\ {h.sequence : h \in {e \in history : e.instance = i}} = 1 .. instances[i].sequence
           /\ Cardinality({e \in history : e.instance = i}) = instances[i].sequence
  <1> DEFINE events == {e \in history : e.instance = i}
             n == instances[i].sequence
             Event(t, m) == [instance |-> t.instance, sequence |-> m, by |-> t.id]
  <1>0. /\ n \in Nat /\ transitions \subseteq Transitions /\ Coherent(transitions)
        /\ RowAgrees(i, instances[i], transitions) /\ history = EventsOf(transitions)
    BY DEF IInv, Tables, Rows
  <1>1. \A e : e \in events <=>
           \E t \in transitions, m \in Nat :
              /\ t.instance = i /\ t.expected < m /\ m <= End(t)
              /\ e = Event(t, m)
    <2>1. \A t \in transitions, m \in Nat :
             m \in (t.expected + 1) .. End(t) <=> t.expected < m /\ m <= End(t)
      BY <1>0, TransitionFacts
    <2>2. \A t \in transitions : \A m \in (t.expected + 1) .. End(t) : m \in Nat
      BY <1>0, TransitionFacts
    <2>3. \A t \in transitions, m \in Nat : Event(t, m).instance = t.instance
      OBVIOUS
    <2>4. \A e : e \in history <=>
             \E t \in transitions, m \in Nat : t.expected < m /\ m <= End(t) /\ e = Event(t, m)
      BY <1>0, <2>1, <2>2 DEF EventsOf
    <2> QED BY <2>3, <2>4
  <1>2. \A t \in transitions : t.instance = i => End(t) <= n
    BY <1>0 DEF RowAgrees
  <1>3. \A m \in 1 .. n : \E t \in transitions :
           t.instance = i /\ t.expected < m /\ m <= End(t)
    BY <1>0 DEF RowAgrees
  <1>4. \A e \in events : e.sequence \in 1 .. n
    BY <1>0, <1>1, <1>2, TransitionFacts
  <1>5. \A m \in 1 .. n : \E e \in events : e.sequence = m
    <2> SUFFICES ASSUME NEW m \in 1 .. n PROVE \E e \in events : e.sequence = m
      OBVIOUS
    <2>1. PICK t \in transitions : t.instance = i /\ t.expected < m /\ m <= End(t)
      BY <1>3
    <2>2. Event(t, m) \in events /\ Event(t, m).sequence = m
      BY <1>0, <1>1, <2>1
    <2> HIDE DEF Event
    <2> QED BY <2>2
  <1>6. \A d, e \in events : d.sequence = e.sequence => d = e
    <2> SUFFICES ASSUME NEW d \in events, NEW e \in events, d.sequence = e.sequence
                 PROVE  d = e
      OBVIOUS
    <2>1. PICK t \in transitions, m \in Nat :
             t.instance = i /\ t.expected < m /\ m <= End(t) /\ d = Event(t, m)
      BY <1>1
    <2>2. PICK u \in transitions, k \in Nat :
             u.instance = i /\ u.expected < k /\ k <= End(u) /\ e = Event(u, k)
      BY <1>1
    <2>3. m = k
      BY <2>1, <2>2
    <2>4. Compatible(t, u)
      BY <1>0 DEF Coherent
    <2>5. t = u
      <3>1. /\ t.expected \in Nat /\ u.expected \in Nat /\ End(t) \in Nat /\ End(u) \in Nat
        BY <1>0, TransitionFacts
      <3> QED BY <2>1, <2>2, <2>3, <2>4, <3>1 DEF Compatible
    <2> QED BY <2>1, <2>2, <2>3, <2>5
  <1> HIDE DEF events, n
  <1>7. {h.sequence : h \in events} = 1 .. n
    BY <1>4, <1>5
  <1>8. Cardinality(events) = n
    <2> DEFINE f == [e \in events |-> e.sequence]
    <2>1. f \in [events -> 1 .. n]
      BY <1>4
    <2>2. \A d, e \in events : f[d] = f[e] => d = e
      BY <1>6
    <2>3. \A m \in 1 .. n : \E e \in events : f[e] = m
      BY <1>5
    <2>4. f \in Injection(events, 1 .. n)
      BY <2>1, <2>2 DEF Injection, IsInjective
    <2>5. f \in Surjection(events, 1 .. n)
      BY <2>1, <2>3 DEF Surjection
    <2>6. IsFiniteSet(1 .. n) /\ Cardinality(1 .. n) = n
      BY <1>0, FS_Interval
    <2>7. Cardinality(events) = Cardinality(1 .. n)
      BY <2>4, <2>5, <2>6, FS_Injection
    <2> QED BY <2>6, <2>7
  <1> QED
    BY <1>7, <1>8 DEF events, n

(* At every commit the instance row, the transitions and the history       *)
(* agree: the row's sequence counts the events, they are numbered without  *)
(* a gap and written once, its definition is the one the last transition   *)
(* left, and it is archived when a terminal event is in the history.       *)
THEOREM TablesAlwaysAgree == Spec => []TablesAgree
  <1>1. ASSUME IInv, NEW i \in Instances
        PROVE  LET events == {h \in history : h.instance = i}
                   mine == {t \in transitions : t.instance = i}
               IN  /\ {h.sequence : h \in events} = 1 .. instances[i].sequence
                   /\ Cardinality(events) = instances[i].sequence
                   /\ \A t \in mine :
                        End(t) = instances[i].sequence =>
                            t.next = instances[i].definition
                   /\ instances[i].archived = \E t \in mine : t.terminal
    <2>0. /\ transitions \subseteq Transitions /\ Coherent(transitions)
          /\ instances[i] \in Rows /\ RowAgrees(i, instances[i], transitions)
      BY <1>1 DEF IInv, Tables
    <2>1. ASSUME NEW t \in transitions, t.instance = i, End(t) = instances[i].sequence
          PROVE  t.next = instances[i].definition
      <3>1. t.expected \in Nat /\ End(t) \in Nat /\ End(t) > t.expected
        BY <2>0, TransitionFacts
      <3>2. PICK u \in transitions : /\ u.instance = i
                                     /\ End(u) = instances[i].sequence
                                     /\ u.next = instances[i].definition
        BY <2>0, <2>1, <3>1 DEF RowAgrees
      <3>3. u.expected \in Nat /\ End(u) > u.expected
        BY <2>0, TransitionFacts
      <3>4. t = u
        BY <2>0, <2>1, <3>1, <3>2, <3>3 DEF Coherent, Compatible
      <3> QED BY <3>2, <3>4
    <2>2. instances[i].archived = \E t \in {t \in transitions : t.instance = i} : t.terminal
      BY <2>0, TransitionFacts DEF RowAgrees, Rows
    <2> QED BY <1>1, <2>1, <2>2, EventsCounted
  <1>2. IInv => TablesAgree
    BY <1>1 DEF TablesAgree
  <1> QED
    BY <1>2, Inductive, PTL

(* Where a call goes that finds its transition recorded.                   *)
LEMMA ReplayedPlace ==
    ASSUME tx \in [Calls -> Transaction], NEW s \in Calls, Replayed(s)
    PROVE  tx'[s].pc \in {"replayed", "check", "commit"}
  <1>0. tx[s] \in Transaction
    OBVIOUS
  <1>1. CASE tx[s].batch.mode = "commit"
    BY <1>0, <1>1 DEF Replayed, Transaction
  <1>2. CASE tx[s].batch.mode # "commit"
    <2>1. tx'[s] = Advanced(tx[s])
      BY <1>2 DEF Replayed, Advance, Advanced
    <2>2. Advanced(tx[s]).pc \in {"check", "commit"}
      BY <1>0 DEF Advanced, Transaction
    <2> QED BY <2>1, <2>2
  <1> QED
    BY <1>1, <1>2

(* A transition that is durable is never refused, whatever committed it    *)
(* and when: findTransition, the lock on the instance row and              *)
(* concurrentTransition between them let no exact replay fall through.     *)
THEOREM ReplaysNeverRefused == Spec => ExactReplayAccepted
  <1> DEFINE P(s) == tx[s].pc # "refused" /\ tx'[s].pc = "refused"
                        => Current(s) \notin transitions
  <1>1. ASSUME IInv, NEW o \in Calls, Step(o), NEW s \in Calls PROVE P(s)
    <2> SUFFICES ASSUME tx[s].pc # "refused", tx'[s].pc = "refused"
                 PROVE  Current(s) \notin transitions
      OBVIOUS
    <2>0. /\ tx \in [Calls -> Transaction] /\ tx[o] \in Transaction
          /\ Tables(instances, transitions)
          /\ Session(tx[o], instances, transitions)
          /\ Current(o) = At(tx[o]) /\ Recorded(o) = Seen(tx[o], transitions)
      BY <1>1, Views DEF IInv
    <2>1. CASE s # o
      BY <1>1, <2>0, <2>1 DEF Step, Begin, Statement, StatementFails, DeadlockDetected, Finish,
            Check, Replayed, Advance, Refused, Aborted, InsertInstance, LockInstance,
            InsertTransition, InsertWork, UpdateInstance, Recheck, concurrentTransition,
            CommitAcknowledged, CommitUnknown, CommitLandsLate, RollBack, CallerRollsBack,
            CallerCommitsRefused, Close
    <2>2. CASE s = o
      <3>1. CASE Check(s)
        <4>1. ASSUME Replayed(s) PROVE tx'[s].pc # "refused"
          BY <2>0, <4>1, ReplayedPlace
        <4>2. ASSUME tx' = [tx EXCEPT ![s].pc = "instance"] PROVE tx'[s].pc # "refused"
          BY <2>0, <2>2, <4>2 DEF Transaction
        <4>3. ~Exact(s, Current(s))
          BY <3>1, <4>1, <4>2 DEF Check
        <4> QED BY <4>3 DEF Exact, Recorded
      <3>2. CASE Recheck(s)
        <4>1. ASSUME Replayed(s) PROVE tx'[s].pc # "refused"
          BY <2>0, <4>1, ReplayedPlace
        <4>2. ~Exact(s, Current(s))
          BY <3>2, <4>1 DEF Recheck, concurrentTransition
        <4> QED BY <4>2 DEF Exact, Recorded
      <3>3. CASE LockInstance(s)
        <4>1. tx[s].pc \in Statements /\ Current(s) = At(tx[s])
          BY <2>0, <2>2, <3>3 DEF LockInstance, Statements
        <4>2. At(tx[s]) \in Transitions
          BY <2>0, <2>2, <4>1, AtFacts DEF Session
        <4>3. At(tx[s]).instance \in Instances /\ End(At(tx[s])) \in Nat /\ End(At(tx[s])) > 0
          BY <4>2, TransitionFacts
        <4>4. Row(s, At(tx[s]).instance) = NoRow
          BY <2>0, <2>2, <3>3, <4>1 DEF LockInstance, Transaction
        <4>5. instances[At(tx[s]).instance] = NoRow
          BY <4>4 DEF Row
        <4>6. RowAgrees(At(tx[s]).instance, NoRow, transitions)
          BY <2>0, <4>3, <4>5 DEF Tables
        <4> QED BY <4>1, <4>3, <4>6, NoRowType DEF RowAgrees
      <3>4. CASE UpdateInstance(s)
        <4>1. \A u \in Seen(tx[s], transitions) : u.id # At(tx[s]).id
          BY <2>0, <2>2, <3>4 DEF UpdateInstance, Session, Built
        <4> QED BY <2>0, <2>2, <4>1 DEF Seen
      <3>5. CASE \/ \E b \in Batches : Begin(s, b)
                 \/ InsertInstance(s) \/ InsertTransition(s) \/ InsertWork(s)
                 \/ StatementFails(s) \/ DeadlockDetected(s)
        BY <2>0, <2>2, <3>5 DEF Begin, InsertInstance, InsertTransition, InsertWork,
              StatementFails, DeadlockDetected, Aborted, Transaction
      <3>6. CASE Finish(s)
        <4>1. ASSUME NEW a, Close(s, a) PROVE tx'[s].pc = "done"
          BY <2>0, <4>1 DEF Close, Unused
        <4>2. ASSUME CommitUnknown(s) PROVE tx'[s].pc = "lost"
          BY <2>0, <4>2 DEF CommitUnknown, Transaction
        <4> QED BY <3>6, <4>1, <4>2 DEF Finish, CommitAcknowledged, CommitLandsLate,
                   RollBack, CallerRollsBack, CallerCommitsRefused
      <3> QED BY <1>1, <2>2, <3>1, <3>2, <3>3, <3>4, <3>5, <3>6 DEF Step, Statement
    <2> QED BY <2>1, <2>2
  <1>2. IInv /\ [Next]_vars => [\A s \in Calls : P(s)]_vars
    BY <1>1 DEF Next
  <1> QED
    BY <1>2, Inductive, PTL DEF Spec, ExactReplayAccepted

-----------------------------------------------------------------------------
(* The refinement: what a step of the store is to TransitionLog.           *)

OfferOf(r) ==
    IF r.pc \in Statements \cup {"commit", "lost"} THEN Range(r.batch.list)
    ELSE IF r.pc = "refused" THEN r.staged ELSE {}

(* The offer of a call, as a function of its own state.                    *)
LEMMA OfferFacts ==
    ASSUME NEW s \in Calls
    PROVE  Offer(s) = OfferOf(tx[s]) /\ Offer(s)' = OfferOf(tx'[s])
  <1>1. Offer(s) = OfferOf(tx[s])
    BY DEF Offer, OfferOf, Statements
  <1>2. Offer(s)' = OfferOf(tx'[s])
    BY DEF Offer, OfferOf, Statements
  <1> QED
    BY <1>1, <1>2

(* The log's notion of coherence is the tables'.                           *)
LEMMA LogCoherent ==
    ASSUME NEW T, Coherent(T)
    PROVE  Log!Coherent(T)
  BY DEF Log!Coherent, Coherent, Log!Compatible, Compatible, Log!Continues, Continues,
         Log!End, End

OthersKept(s) == \A o \in Calls \ {s} : tx'[o] = tx[o]

(* A step of one call leaves the others alone.                             *)
LEMMA StepKeepsOthers ==
    ASSUME IInv, NEW s \in Calls, Step(s)
    PROVE  OthersKept(s)
  <1>1. tx \in [Calls -> Transaction]
    BY DEF IInv
  <1> QED
    BY <1>1 DEF OthersKept, Step, Begin, Statement, StatementFails, DeadlockDetected, Finish,
          Check, Replayed, Advance, Refused, Aborted, InsertInstance, LockInstance,
          InsertTransition, InsertWork, UpdateInstance, Recheck, concurrentTransition,
          CommitAcknowledged, CommitUnknown, CommitLandsLate, RollBack, CallerRollsBack,
          CallerCommitsRefused, Close

offers == [c \in Calls |-> Offer(c)]

answers == [c \in Calls |-> tx[c].answer]

(* Such a step, as the log sees it.                                        *)
LEMMA MappedStep ==
    ASSUME NEW s \in Calls, OthersKept(s)
    PROVE  /\ offers' = [offers EXCEPT ![s] = OfferOf(tx'[s])]
           /\ answers' = [answers EXCEPT ![s] = tx'[s].answer]
           /\ offers[s] = OfferOf(tx[s])
           /\ answers[s] = tx[s].answer
  <1>1. \A c \in Calls : Offer(c) = OfferOf(tx[c]) /\ Offer(c)' = OfferOf(tx'[c])
    BY OfferFacts
  <1>2. offers = [c \in Calls |-> OfferOf(tx[c])]
    BY <1>1 DEF offers
  <1>3. offers' = [c \in Calls |-> OfferOf(tx'[c])]
    BY <1>1 DEF offers
  <1>4. \A c \in Calls \ {s} : OfferOf(tx'[c]) = OfferOf(tx[c])
    BY DEF OthersKept
  <1>5. offers' = [offers EXCEPT ![s] = OfferOf(tx'[s])]
    BY <1>2, <1>3, <1>4
  <1>6. answers' = [answers EXCEPT ![s] = tx'[s].answer]
    BY DEF answers, OthersKept
  <1> QED
    BY <1>2, <1>5, <1>6 DEF answers

(* A step that changes neither offer, answer nor log is no step of the     *)
(* log.                                                                    *)
LEMMA LogStutter ==
    ASSUME NEW s \in Calls, OthersKept(s), UNCHANGED transitions,
           OfferOf(tx'[s]) = OfferOf(tx[s]), tx'[s].answer = tx[s].answer
    PROVE  UNCHANGED Log!vars
  <1>1. offers' = offers
    BY MappedStep DEF offers
  <1>2. answers' = answers
    BY MappedStep DEF answers
  <1> QED
    BY <1>1, <1>2 DEF Log!vars, offers, answers

(* A commit is the log taking the offer.                                   *)
LEMMA LogTake ==
    ASSUME NEW s \in Calls, OthersKept(s), OfferOf(tx[s]) # {},
           transitions' = transitions \cup OfferOf(tx[s]), Coherent(transitions'),
           OfferOf(tx'[s]) = {},
           tx'[s].answer = IF tx[s].answer = "none" THEN "ok" ELSE tx[s].answer
    PROVE  Log!Next
  <1>1. Log!Coherent(transitions')
    BY LogCoherent
  <1>2. Log!Take(s)
    BY <1>1, MappedStep DEF Log!Take, offers, answers
  <1> QED
    BY <1>2 DEF Log!Next

(* A refusal or rollback is the offer withdrawn.                           *)
LEMMA LogWithdraw ==
    ASSUME NEW s \in Calls, OthersKept(s), OfferOf(tx[s]) # {}, UNCHANGED transitions,
           OfferOf(tx'[s]) \subseteq OfferOf(tx[s]),
           tx'[s].answer \in IF tx[s].answer = "none" THEN {"refused", "failed"}
                                                     ELSE {tx[s].answer}
    PROVE  Log!Next
  <1>1. /\ offers[s] # {}
        /\ \E T \in SUBSET offers[s] : offers' = [offers EXCEPT ![s] = T]
    BY MappedStep
  <1>2. \E a \in IF answers[s] = "none" THEN {"refused", "failed"} ELSE {answers[s]} :
           answers' = [answers EXCEPT ![s] = a]
    BY MappedStep
  <1>3. Log!Withdraw(s)
    BY <1>1, <1>2 DEF Log!Withdraw, offers, answers
  <1> QED
    BY <1>3 DEF Log!Next

(* A beginning is an offer made.                                           *)
LEMMA LogAsk ==
    ASSUME NEW s \in Calls, OthersKept(s), OfferOf(tx[s]) = {}, UNCHANGED transitions,
           OfferOf(tx'[s]) \subseteq Transitions,
           tx[s].answer = "none", tx'[s].answer = "none"
    PROVE  Log!Next
  <1>1. answers' = answers
    BY MappedStep DEF answers
  <1>2. Log!Ask(s, OfferOf(tx'[s]))
    BY <1>1, MappedStep DEF Log!Ask, offers, answers
  <1> QED
    BY <1>2 DEF Log!Next

(* An unknown commit is an answer that tells nothing.                      *)
LEMMA LogDoubt ==
    ASSUME NEW s \in Calls, OthersKept(s), OfferOf(tx[s]) # {}, UNCHANGED transitions,
           OfferOf(tx'[s]) = OfferOf(tx[s]),
           tx[s].answer = "none", tx'[s].answer = "unknown"
    PROVE  Log!Next
  <1>1. offers' = offers
    BY MappedStep DEF offers
  <1>2. Log!Doubt(s)
    BY <1>1, MappedStep DEF Log!Doubt, offers, answers
  <1> QED
    BY <1>2 DEF Log!Next

(* How a statement can end: the transaction goes on with the same list, or *)
(* the call is answered.                                                   *)
Outcome(r, q, T) ==
    \/ /\ q.pc \in Statements \cup {"commit"}
       /\ q.batch = r.batch /\ q.answer = r.answer
    \/ /\ q.pc = "replayed" /\ q.answer = "ok"
       /\ r.batch.mode = "commit" /\ At(r) \in Seen(r, T)
    \/ q.pc = "refused" /\ q.answer = "refused" /\ q.staged = r.staged
    \/ q.pc = "aborted" /\ q.answer = "failed"

(* What a statement may do to its call.                                    *)
LEMMA StatementOutcome ==
    ASSUME IInv, NEW s \in Calls, Statement(s) \/ StatementFails(s) \/ DeadlockDetected(s)
    PROVE  /\ tx[s].pc \in Statements
           /\ UNCHANGED transitions
           /\ Outcome(tx[s], tx'[s], transitions)
  <1>0. tx \in [Calls -> Transaction] /\ tx[s] \in Transaction
    BY DEF IInv
  <1>1. tx[s].pc \in Statements
    BY WaitingIsStatement DEF Statement, StatementFails, DeadlockDetected, Check, InsertInstance,
       LockInstance, InsertTransition, InsertWork, UpdateInstance, Recheck, Statements
  <1>2. UNCHANGED transitions
    BY DEF Statement, StatementFails, DeadlockDetected, Check, InsertInstance,
       LockInstance, InsertTransition, InsertWork, UpdateInstance, Recheck, tables
  <1> DEFINE Result == Outcome(tx[s], tx'[s], transitions)
  <1> SUFFICES Result
    BY <1>1, <1>2
  <1>3. ASSUME Refused(s) PROVE Result
    BY <1>0, <1>3 DEF Refused, Outcome, Transaction
  <1>4. ASSUME Aborted(s) PROVE Result
    BY <1>0, <1>4 DEF Aborted, Outcome, Transaction
  <1>5. ASSUME NEW r \in Transaction, r.batch = tx[s].batch, r.answer = tx[s].answer,
               Advance(s, r)
        PROVE  Result
    <2>1. tx'[s] = Advanced(r)
      BY <1>0, <1>5 DEF Advance, Advanced
    <2>2. /\ Advanced(r).pc \in {"check", "commit"}
          /\ Advanced(r).batch = r.batch /\ Advanced(r).answer = r.answer
      BY DEF Advanced, Transaction
    <2> QED BY <1>5, <2>1, <2>2 DEF Outcome, Statements
  <1>6. ASSUME Exact(s, Current(s)), Replayed(s) PROVE Result
    <2>1. At(tx[s]) \in Seen(tx[s], transitions)
      BY <1>6, Views DEF Exact
    <2>2. CASE tx[s].batch.mode = "commit"
      BY <1>0, <1>6, <2>1, <2>2 DEF Replayed, Outcome, Transaction
    <2>3. CASE tx[s].batch.mode # "commit"
      BY <1>0, <1>5, <1>6, <2>3 DEF Replayed
    <2> QED BY <2>2, <2>3
  <1>7. CASE Check(s)
    <2>1. ASSUME tx' = [tx EXCEPT ![s].pc = "instance"] PROVE Result
      BY <1>0, <2>1 DEF Outcome, Statements, Transaction
    <2> QED BY <1>3, <1>6, <1>7, <2>1 DEF Check
  <1>8. CASE InsertInstance(s)
    <2>1. /\ tx'[s].pc \in {"recheck", "insert"}
          /\ tx'[s].batch = tx[s].batch /\ tx'[s].answer = tx[s].answer
      BY <1>0, <1>8 DEF InsertInstance, Transaction
    <2> QED BY <2>1 DEF Outcome, Statements
  <1>9. CASE LockInstance(s)
    <2>1. ASSUME ~Refused(s)
          PROVE  /\ tx'[s].pc \in {"recheck", "insert"}
                 /\ tx'[s].batch = tx[s].batch /\ tx'[s].answer = tx[s].answer
      BY <1>0, <1>9, <2>1 DEF LockInstance, Transaction
    <2> QED BY <1>3, <2>1 DEF Outcome, Statements
  <1>10. CASE InsertTransition(s)
    <2>1. /\ tx'[s].pc \in {"recheck", "work"}
          /\ tx'[s].batch = tx[s].batch /\ tx'[s].answer = tx[s].answer
      BY <1>0, <1>10 DEF InsertTransition, Transaction
    <2> QED BY <2>1 DEF Outcome, Statements
  <1>11. CASE InsertWork(s)
    <2>1. ASSUME ~Aborted(s)
          PROVE  /\ tx'[s].pc = "work"
                 /\ tx'[s].batch = tx[s].batch /\ tx'[s].answer = tx[s].answer
      BY <1>0, <1>11, <2>1 DEF InsertWork, Transaction
    <2> QED BY <1>4, <2>1 DEF Outcome, Statements
  <1>12. CASE UpdateInstance(s)
    <2> DEFINE t == Current(s)
               staged == tx[s].staged \cup {t}
               own == [tx[s].own EXCEPT ![t.instance] = Updated(Row(s, t.instance), t)]
               r == [tx[s] EXCEPT !.staged = staged, !.own = own]
    <2>1. r.batch = tx[s].batch /\ r.answer = tx[s].answer /\ r.at = tx[s].at
      BY <1>0 DEF Transaction
    <2>2. CASE Refused(s)
      BY <1>3, <2>2
    <2>3. CASE ~Refused(s)
      <3>1. Advance(s, r)
        BY <1>0, <1>12, <2>3 DEF UpdateInstance
      <3>2. tx'[s] = Advanced(r)
        BY <1>0, <3>1 DEF Advance, Advanced
      <3>3. /\ Advanced(r).pc \in {"check", "commit"}
            /\ Advanced(r).batch = r.batch /\ Advanced(r).answer = r.answer
        BY <1>0 DEF Advanced, Transaction
      <3> QED BY <2>1, <3>2, <3>3 DEF Outcome, Statements
    <2> QED BY <2>2, <2>3
  <1>13. CASE Recheck(s)
    BY <1>3, <1>6, <1>13 DEF Recheck, concurrentTransition
  <1>14. CASE StatementFails(s) \/ DeadlockDetected(s)
    BY <1>4, <1>14 DEF StatementFails, DeadlockDetected
  <1> QED
    BY <1>7, <1>8, <1>9, <1>10, <1>11, <1>12, <1>13, <1>14 DEF Statement

(* A statement is a step of the log or none.                               *)
LEMMA StatementRefines ==
    ASSUME IInv, IInv', NEW s \in Calls, OthersKept(s),
           Statement(s) \/ StatementFails(s) \/ DeadlockDetected(s)
    PROVE  Log!Next \/ UNCHANGED Log!vars
  <1> DEFINE r == tx[s]
             q == tx'[s]
  <1>0. r \in Transaction /\ Session(r, instances, transitions)
    BY DEF IInv
  <1>1. /\ r.pc \in Statements /\ UNCHANGED transitions /\ Outcome(r, q, transitions)
    BY StatementOutcome
  <1>2. /\ r.answer = "none" /\ At(r) \in Range(r.batch.list)
        /\ r.staged \subseteq Range(r.batch.list)
        /\ r.batch.list \in Seq(Transitions) /\ r.at \in 1 .. Len(r.batch.list)
        /\ r.batch.mode = "commit" => r.staged = {} /\ Len(r.batch.list) <= 1
    BY <1>0, <1>1, AtFacts DEF Session, Place, Progress
  <1>3. OfferOf(r) = Range(r.batch.list) /\ OfferOf(r) # {}
    BY <1>1, <1>2 DEF OfferOf
  <1>4. CASE q.pc \in Statements \cup {"commit"} /\ q.batch = r.batch /\ q.answer = r.answer
    <2>1. OfferOf(q) = OfferOf(r)
      BY <1>1, <1>4 DEF OfferOf
    <2> QED BY <1>1, <1>4, <2>1, LogStutter
  <1>5. CASE /\ q.pc = "replayed" /\ q.answer = "ok"
             /\ r.batch.mode = "commit" /\ At(r) \in Seen(r, transitions)
    <2>1. OfferOf(q) = {}
      BY <1>5 DEF OfferOf, Statements
    <2>2. Range(r.batch.list) = {At(r)}
      BY <1>2, <1>5 DEF Range, At
    <2>3. transitions' = transitions \cup OfferOf(r) /\ Coherent(transitions')
      BY <1>1, <1>2, <1>3, <1>5, <2>2 DEF Seen, IInv, Tables
    <2> QED BY <1>2, <1>3, <1>5, <2>1, <2>3, LogTake
  <1>6. CASE q.pc = "refused" /\ q.answer = "refused" /\ q.staged = r.staged
    <2>1. OfferOf(q) = r.staged
      BY <1>6 DEF OfferOf, Statements
    <2> QED BY <1>1, <1>2, <1>3, <1>6, <2>1, LogWithdraw
  <1>7. CASE q.pc = "aborted" /\ q.answer = "failed"
    <2>1. OfferOf(q) = {}
      BY <1>7 DEF OfferOf, Statements
    <2> QED BY <1>1, <1>2, <1>3, <1>7, <2>1, LogWithdraw
  <1> QED
    BY <1>1, <1>4, <1>5, <1>6, <1>7 DEF Outcome

(* So is the end of a transaction.                                         *)
LEMMA FinishRefines ==
    ASSUME IInv, IInv', NEW s \in Calls, OthersKept(s), Finish(s)
    PROVE  Log!Next \/ UNCHANGED Log!vars
  <1> DEFINE r == tx[s]
             q == tx'[s]
  <1>0. r \in Transaction /\ tx \in [Calls -> Transaction]
        /\ Session(r, instances, transitions) /\ Coherent(transitions')
    BY DEF IInv, Tables
  <1>1. ASSUME NEW a, Close(s, a) PROVE OfferOf(q) = {} /\ q.answer = a
    <2>1. q.pc = "done" /\ q.answer = a
      BY <1>0, <1>1 DEF Close, Unused
    <2> QED BY <2>1 DEF OfferOf, Statements
  <1>2. ASSUME r.pc \in {"commit", "lost"}
        PROVE  /\ OfferOf(r) = Range(r.batch.list) /\ OfferOf(r) # {}
               /\ r.staged \subseteq OfferOf(r)
               /\ OfferOf(r) \subseteq transitions \cup r.staged
    <2>1. r.batch \in Batches
      BY <1>0, <1>2 DEF Session, Place
    <2>2. r.batch.list \in Seq(Transitions) /\ r.batch.list # <<>>
      BY <2>1, BatchesAssumption
    <2>3. Range(r.batch.list) # {}
      <3>1. Len(r.batch.list) >= 1
        BY <2>2
      <3>2. 1 \in DOMAIN r.batch.list
        BY <2>2, <3>1
      <3> QED BY <3>2 DEF Range
    <2> QED BY <1>0, <1>2, <2>3 DEF OfferOf, Session, Progress, Seen
  <1>3. ASSUME r.pc \in {"commit", "lost"}, Publish(s)
        PROVE  transitions' = transitions \cup OfferOf(r)
    BY <1>2, <1>3 DEF Publish
  <1>4. /\ r.pc = "commit" => r.answer = "none"
        /\ r.pc = "lost" => r.answer = "unknown"
        /\ r.pc = "refused" => r.answer = "refused"
    BY <1>0 DEF Session, Place
  <1>5. CASE CommitAcknowledged(s)
    BY <1>0, <1>1, <1>2, <1>3, <1>4, <1>5, LogTake DEF CommitAcknowledged
  <1>6. CASE CommitUnknown(s)
    <2>1. q.pc = "lost" /\ q.answer = "unknown" /\ q.batch = r.batch
      BY <1>0, <1>6 DEF CommitUnknown, Transaction
    <2>2. r.pc = "commit" /\ UNCHANGED transitions
      BY <1>6 DEF CommitUnknown, tables
    <2>3. OfferOf(q) = OfferOf(r)
      BY <2>1, <2>2 DEF OfferOf
    <2> QED BY <1>2, <1>4, <2>1, <2>2, <2>3, LogDoubt
  <1>7. CASE CommitLandsLate(s)
    BY <1>0, <1>1, <1>2, <1>3, <1>4, <1>7, LogTake DEF CommitLandsLate
  <1>8. CASE RollBack(s)
    <2>1. r.pc \in {"replayed", "refused", "aborted", "lost"} /\ UNCHANGED transitions
      BY <1>8 DEF RollBack, tables
    <2>2. OfferOf(q) = {} /\ q.answer = r.answer
      BY <1>1, <1>8 DEF RollBack
    <2>3. CASE OfferOf(r) = {}
      BY <2>1, <2>2, <2>3, LogStutter
    <2>4. CASE OfferOf(r) # {}
      <3>1. r.pc \in {"refused", "lost"}
        BY <2>1, <2>4 DEF OfferOf, Statements
      <3> QED BY <1>4, <2>1, <2>2, <2>4, <3>1, LogWithdraw
    <2> QED BY <2>3, <2>4
  <1>9. CASE CallerRollsBack(s)
    BY <1>1, <1>2, <1>4, <1>9, LogWithdraw DEF CallerRollsBack, tables
  <1>10. CASE CallerCommitsRefused(s)
    <2>1. OfferOf(r) = r.staged
      BY <1>10 DEF CallerCommitsRefused, OfferOf, Statements
    <2>2. transitions' = transitions \cup OfferOf(r)
      BY <1>10, <2>1 DEF CallerCommitsRefused, Publish
    <2>3. OfferOf(q) = {} /\ q.answer = "refused" /\ r.answer = "refused"
      BY <1>1, <1>4, <1>10 DEF CallerCommitsRefused
    <2>4. CASE r.staged = {}
      BY <2>1, <2>2, <2>3, <2>4, LogStutter
    <2>5. CASE r.staged # {}
      BY <1>0, <2>1, <2>2, <2>3, <2>5, LogTake
    <2> QED BY <2>4, <2>5
  <1> QED
    BY <1>5, <1>6, <1>7, <1>8, <1>9, <1>10 DEF Finish

(* So is its beginning.                                                    *)
LEMMA BeginRefines ==
    ASSUME IInv, IInv', NEW s \in Calls, OthersKept(s), NEW b \in Batches, Begin(s, b)
    PROVE  Log!Next
  <1>0. tx \in [Calls -> Transaction] /\ Session(tx[s], instances, transitions)
        /\ tx[s].pc = "idle" /\ UNCHANGED transitions
    BY DEF IInv, Begin, tables
  <1>1. tx[s] = Unused
    BY <1>0 DEF Session, Place
  <1>2. tx[s].answer = "none" /\ OfferOf(tx[s]) = {}
    BY <1>1 DEF Unused, OfferOf, Statements
  <1>3. tx'[s].pc = "check" /\ tx'[s].batch = b /\ tx'[s].answer = tx[s].answer
    BY <1>0 DEF Begin, Transaction
  <1>4. OfferOf(tx'[s]) = Range(b.list)
    BY <1>3 DEF OfferOf, Statements
  <1>5. Range(b.list) \subseteq Transitions
    BY BatchesAssumption DEF Range
  <1> QED
    BY <1>0, <1>2, <1>3, <1>4, <1>5, LogAsk

(* The statements of the PostgreSQL store, their locks and their failures  *)
(* implement TransitionLog: what a call offers becomes durable whole or    *)
(* not at all, and the durable transitions stay one chain per instance.    *)
THEOREM StoreImplementsLog == Spec => ImplementsLog
  <1>1. Init => Log!Init
    <2> SUFFICES ASSUME Init PROVE Log!Init
      OBVIOUS
    <2>1. \A s \in Calls : tx[s] = Unused
      BY DEF Init
    <2>2. \A s \in Calls : Offer(s) = {} /\ tx[s].answer = "none"
      BY <2>1, OfferFacts DEF OfferOf, Unused, Statements
    <2> QED BY <2>2 DEF Init, Log!Init
  <1>2. IInv /\ IInv' /\ [Next]_vars => [Log!Next]_(Log!vars)
    <2> SUFFICES ASSUME IInv, IInv', [Next]_vars
                 PROVE  Log!Next \/ UNCHANGED Log!vars
      OBVIOUS
    <2>1. CASE UNCHANGED vars
      BY <2>1 DEF vars, Log!vars, Offer
    <2>2. ASSUME NEW s \in Calls, Step(s) PROVE Log!Next \/ UNCHANGED Log!vars
      <3>1. OthersKept(s)
        BY <2>2, StepKeepsOthers
      <3> QED BY <2>2, <3>1, BeginRefines, StatementRefines, FinishRefines DEF Step
    <2> QED BY <2>1, <2>2 DEF Next
  <1> QED
    BY <1>1, <1>2, Inductive, PTL DEF Spec, Log!Spec, ImplementsLog
=============================================================================
