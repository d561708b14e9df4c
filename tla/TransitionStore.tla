-------------------------- MODULE TransitionStore --------------------------
(***************************************************************************)
(* The PostgreSQL transition store, statement by statement.                *)
(*                                                                         *)
(* A call is one database transaction under READ COMMITTED: either a       *)
(* Commit, which stages one transition and commits, or a caller's own      *)
(* transaction that stages a list of transitions with Stage and is then    *)
(* committed or rolled back by its owner.  A statement sees the committed  *)
(* tables and what its own transaction wrote, and waits for a row or a     *)
(* unique key that another open transaction holds.                         *)
(*                                                                         *)
(* A transaction is open on the server until the server commits it or      *)
(* rolls it back, which may be long after the call was answered: the       *)
(* answer to a COMMIT may be lost, and so may the ROLLBACK after an error. *)
(***************************************************************************)
EXTENDS Transitions, Sequences, FiniteSets, SequencesExt

CONSTANTS
    Calls,          \* transactions
    Batches         \* what a transaction may do: [mode, list]

VARIABLES
    instances,      \* workflow_instances
    transitions,    \* workflow_transitions
    history,        \* workflow_history: [instance, sequence, by]
    work,           \* work_id column of workflow_work
    tx              \* the transactions

vars == <<instances, transitions, history, work, tx>>
tables == <<instances, transitions, history, work>>

Modes == {"commit", "stage"}

ASSUME BatchesAssumption ==
    \A b \in Batches :
        /\ b.mode \in Modes
        /\ b.list \in Seq(Transitions)
        /\ b.list # <<>>
        /\ b.mode = "commit" => Len(b.list) <= 1

NoBatch == [mode |-> "none", list |-> <<>>]

NoRow == [sequence |-> 0, definition |-> "none", archived |-> FALSE]

(* A transaction that has not begun.  at is the position in its list,      *)
(* staged what it has staged, own the instance rows it has written, put    *)
(* the number of work rows of the current transition already inserted, and *)
(* held the rows and unique keys it has locked.                            *)
Unused ==
    [pc |-> "idle", batch |-> NoBatch, at |-> 1, staged |-> {},
     own |-> [i \in Instances |-> NoRow], put |-> 0, held |-> {},
     answer |-> "none"]

Statements == {"check", "instance", "insert", "work", "recheck"}

PCs == Statements \cup
         {"idle", "commit", "replayed", "refused", "aborted", "lost", "done"}

Current(s) == tx[s].batch.list[tx[s].at]

(***************************************************************************)
(* What a statement of s sees.                                             *)
(***************************************************************************)
Row(s, i) == IF tx[s].own[i] # NoRow THEN tx[s].own[i] ELSE instances[i]

Recorded(s) == transitions \cup tx[s].staged

WorkOf(T) == UNION {Range(t.work) : t \in T}

OwnWork(s) ==
    WorkOf(tx[s].staged)
      \cup {Current(s).work[n] : n \in 1 .. tx[s].put}

(***************************************************************************)
(* Locks.  An insert waits for an open transaction that inserted the same  *)
(* key, and no longer once that key is committed, unless the row it meets  *)
(* there is one that an open transaction has updated; SELECT ... FOR       *)
(* UPDATE waits for the holder of a committed row and passes over an       *)
(* uncommitted one.                                                        *)
(***************************************************************************)
Key(s) ==
    CASE tx[s].pc = "instance" -> <<"instance", Current(s).instance>>
      [] tx[s].pc = "insert"   -> <<"transition", Current(s).id>>
      [] tx[s].pc = "work"     -> <<"work", Current(s).work[tx[s].put + 1]>>

MayWait(s) ==
    \/ /\ tx[s].pc = "instance"
       /\ Current(s).expected = 0 \/ instances[Current(s).instance] # NoRow
    \/ /\ tx[s].pc = "insert"
       /\ \A t \in transitions : t.id # Current(s).id
    \/ /\ tx[s].pc = "work"
       /\ tx[s].put < Len(Current(s).work)
       /\ Current(s).work[tx[s].put + 1] \notin work

(* insertInstance is not held up by a lock alone on a committed row.       *)
OnlyLocked(s, o) ==
    /\ tx[s].pc = "instance"
    /\ Current(s).expected = 0
    /\ instances[Current(s).instance] # NoRow
    /\ tx[o].own[Current(s).instance] = NoRow

Blockers(s) ==
    IF MayWait(s)
    THEN {o \in Calls \ {s} : Key(s) \in tx[o].held /\ ~OnlyLocked(s, o)}
    ELSE {}

Blocked(s) == Blockers(s) # {}

(* A set of transactions each waiting for another of the set.              *)
Knot(D) == \A s \in D : Blocked(s) /\ Blockers(s) \cap D # {}

Deadlocked(s) == \E D \in SUBSET Calls : s \in D /\ Knot(D)

-----------------------------------------------------------------------------

Init ==
    /\ instances = [i \in Instances |-> NoRow]
    /\ transitions = {}
    /\ history = {}
    /\ work = {}
    /\ tx = [s \in Calls |-> Unused]

Begin(s, b) ==
    /\ tx[s].pc = "idle"
    /\ tx' = [tx EXCEPT ![s].pc = "check", ![s].batch = b]
    /\ UNCHANGED tables

(* The transition at hand is dealt with: staged, or found durable.  Commit *)
(* returns nil for an exact replay without committing anything.            *)
Advance(s, r) ==
    tx' = [tx EXCEPT ![s] =
             IF r.at < Len(r.batch.list)
             THEN [r EXCEPT !.pc = "check", !.at = @ + 1, !.put = 0]
             ELSE [r EXCEPT !.pc = "commit", !.put = 0]]

Replayed(s) ==
    IF tx[s].batch.mode = "commit"
    THEN tx' = [tx EXCEPT ![s].pc = "replayed", ![s].answer = "ok"]
    ELSE Advance(s, tx[s])

Refused(s) == tx' = [tx EXCEPT ![s].pc = "refused", ![s].answer = "refused"]

Aborted(s) == tx' = [tx EXCEPT ![s].pc = "aborted", ![s].answer = "failed"]

(* findTransition: the row with this identity, which as a mutant of Exact  *)
(* takes any reuse of an identity for a replay.                            *)
Reused(s, t) == \E u \in Recorded(s) : u.id = t.id

(* exactTransition: the fingerprint covers the whole transition, so equal  *)
(* fingerprints are equal transitions.                                     *)
Exact(s, t) == t \in Recorded(s)

Check(s) ==
    /\ tx[s].pc = "check"
    /\ \/ Exact(s, Current(s)) /\ Replayed(s)
       \/ /\ ~Exact(s, Current(s))
          /\ Reused(s, Current(s))
          /\ Refused(s)
       \/ /\ ~Reused(s, Current(s))
          /\ tx' = [tx EXCEPT ![s].pc = "instance"]
    /\ UNCHANGED tables

(* expectedSequence = 0: insertInstance, which leaves an existing row as   *)
(* it is.                                                                  *)
InsertInstance(s) ==
    LET t == Current(s)
    IN  /\ tx[s].pc = "instance"
        /\ t.expected = 0
        /\ ~Blocked(s)
        /\ IF Row(s, t.instance) # NoRow
           THEN tx' = [tx EXCEPT ![s].pc = "recheck"]
           ELSE tx' = [tx EXCEPT
                  ![s].pc = "insert",
                  ![s].held = @ \cup {<<"instance", t.instance>>},
                  ![s].own[t.instance] =
                      [sequence |-> 0, definition |-> t.definition,
                       archived |-> FALSE]]
        /\ UNCHANGED tables

(* Mutant of Matches: the pinned definition is not compared.               *)
MatchesSequenceOnly(row, t) == row.sequence = t.expected

Matches(row, t) ==
    /\ row.sequence = t.expected
    /\ row.definition = t.definition

(* Otherwise lockInstance, and the row must be the one the transition was  *)
(* built on.                                                               *)
LockInstance(s) ==
    LET t == Current(s)
    IN  /\ tx[s].pc = "instance"
        /\ t.expected > 0
        /\ ~Blocked(s)
        /\ IF Row(s, t.instance) = NoRow
           THEN Refused(s)
           ELSE tx' = [tx EXCEPT
                  ![s].pc = IF Matches(Row(s, t.instance), t)
                            THEN "insert" ELSE "recheck",
                  ![s].held = @ \cup {<<"instance", t.instance>>}]
        /\ UNCHANGED tables

(* insertTransition, and the inserts of the events, which the lock on the  *)
(* instance row keeps from meeting anyone.                                 *)
InsertTransition(s) ==
    LET t == Current(s)
    IN  /\ tx[s].pc = "insert"
        /\ ~Blocked(s)
        /\ IF Reused(s, t)
           THEN tx' = [tx EXCEPT ![s].pc = "recheck"]
           ELSE tx' = [tx EXCEPT
                  ![s].pc = "work",
                  ![s].held = @ \cup {<<"transition", t.id>>}]
        /\ UNCHANGED tables

(* One insertWork; a work identity already in use violates the primary key *)
(* and aborts the transaction.                                             *)
InsertWork(s) ==
    LET t == Current(s)
        w == t.work[tx[s].put + 1]
    IN  /\ tx[s].pc = "work"
        /\ tx[s].put < Len(t.work)
        /\ ~Blocked(s)
        /\ IF w \in work \cup OwnWork(s)
           THEN Aborted(s)
           ELSE tx' = [tx EXCEPT ![s].put = @ + 1,
                                 ![s].held = @ \cup {<<"work", w>>}]
        /\ UNCHANGED tables

(* Mutant of Updated: the row advances by one event per transition.        *)
UpdatedByOne(row, t) ==
    [sequence |-> row.sequence + 1, definition |-> t.next,
     archived |-> row.archived \/ t.terminal]

(* Mutant of Updated: the events are counted back from the expected one.   *)
UpdatedBackwards(row, t) ==
    [sequence |-> t.expected - t.size, definition |-> t.next,
     archived |-> row.archived \/ t.terminal]

Updated(row, t) ==
    [sequence |-> End(t), definition |-> t.next,
     archived |-> row.archived \/ t.terminal]

(* updateInstance, guarded by the sequence once more.                      *)
UpdateInstance(s) ==
    LET t == Current(s)
    IN  /\ tx[s].pc = "work"
        /\ tx[s].put = Len(t.work)
        /\ IF Row(s, t.instance).sequence = t.expected
           THEN Advance(s, [tx[s] EXCEPT
                              !.staged = @ \cup {t},
                              !.own[t.instance] =
                                  Updated(Row(s, t.instance), t)])
           ELSE Refused(s)
        /\ UNCHANGED tables

(* Mutant of concurrentTransition: a lost race is always a conflict.       *)
ConcurrentConflict(s) == Refused(s)

(* concurrentTransition: whoever won may have been this very transition.   *)
concurrentTransition(s) ==
    IF Exact(s, Current(s)) THEN Replayed(s) ELSE Refused(s)

Recheck(s) ==
    /\ tx[s].pc = "recheck"
    /\ concurrentTransition(s)
    /\ UNCHANGED tables

(* A statement of the call fails: lost connection, expired context.        *)
StatementFails(s) ==
    /\ tx[s].pc \in Statements
    /\ Aborted(s)
    /\ UNCHANGED tables

(* PostgreSQL breaks a wait that would never end by failing one statement. *)
DeadlockDetected(s) ==
    /\ Deadlocked(s)
    /\ Aborted(s)
    /\ UNCHANGED tables

-----------------------------------------------------------------------------

(* The server makes what s wrote visible and releases its locks.           *)
Publish(s) ==
    /\ instances' = [i \in Instances |-> Row(s, i)]
    /\ transitions' = transitions \cup tx[s].staged
    /\ history' = history \cup
         UNION {{[instance |-> t.instance, sequence |-> n, by |-> t.id] :
                    n \in (t.expected + 1) .. End(t)} : t \in tx[s].staged}
    /\ work' = work \cup WorkOf(tx[s].staged)

Close(s, a) ==
    tx' = [tx EXCEPT ![s] = [Unused EXCEPT !.pc = "done", !.batch = tx[s].batch,
                                           !.answer = a]]

CommitAcknowledged(s) ==
    /\ tx[s].pc = "commit"
    /\ Publish(s)
    /\ Close(s, "ok")

(* COMMIT is answered by an error: StoreCommitUnknown.                     *)
CommitUnknown(s) ==
    /\ tx[s].pc = "commit"
    /\ tx' = [tx EXCEPT ![s].pc = "lost", ![s].answer = "unknown"]
    /\ UNCHANGED tables

CommitLandsLate(s) ==
    /\ tx[s].pc = "lost"
    /\ Publish(s)
    /\ Close(s, "unknown")

(* Mutant of RollBack: only a transaction with a failed statement is       *)
(* rolled back, a refusal returns without ending it.                       *)
RollBackAbortedOnly(s) ==
    /\ tx[s].pc \in {"aborted", "lost"}
    /\ Close(s, tx[s].answer)
    /\ UNCHANGED tables

(* The deferred rollback of Commit, the owner's rollback after an error of *)
(* Stage, or the server giving up on a connection that is gone.            *)
RollBack(s) ==
    /\ tx[s].pc \in {"replayed", "refused", "aborted", "lost"}
    /\ Close(s, tx[s].answer)
    /\ UNCHANGED tables

(* The owner of a transaction decides against it after all.                *)
CallerRollsBack(s) ==
    /\ tx[s].pc = "commit"
    /\ tx[s].batch.mode = "stage"
    /\ Close(s, "failed")
    /\ UNCHANGED tables

(* The owner commits its own changes although Stage refused a transition:  *)
(* a refusal is no SQL error, so the transaction can still commit.         *)
CallerCommitsRefused(s) ==
    /\ tx[s].pc = "refused"
    /\ tx[s].batch.mode = "stage"
    /\ Publish(s)
    /\ Close(s, "refused")

Statement(s) ==
    \/ Check(s)
    \/ InsertInstance(s)
    \/ LockInstance(s)
    \/ InsertTransition(s)
    \/ InsertWork(s)
    \/ UpdateInstance(s)
    \/ Recheck(s)

Finish(s) ==
    \/ CommitAcknowledged(s)
    \/ CommitUnknown(s)
    \/ CommitLandsLate(s)
    \/ RollBack(s)
    \/ CallerRollsBack(s)
    \/ CallerCommitsRefused(s)

Step(s) ==
    \/ \E b \in Batches : Begin(s, b)
    \/ Statement(s)
    \/ StatementFails(s)
    \/ DeadlockDetected(s)
    \/ Finish(s)

Next == \E s \in Calls : Step(s)

Spec == Init /\ [][Next]_vars

-----------------------------------------------------------------------------

TypeOK ==
    /\ transitions \subseteq Transitions
    /\ \A i \in Instances : instances[i].sequence \in Nat
    /\ \A s \in Calls :
         /\ tx[s].pc \in PCs
         /\ tx[s].batch \in Batches \cup {NoBatch}
         /\ tx[s].staged \subseteq Range(tx[s].batch.list)

(* What a transaction may still make durable.                              *)
Offer(s) ==
    CASE tx[s].pc \in Statements \cup {"commit", "lost"} ->
            Range(tx[s].batch.list)
      [] tx[s].pc = "refused" -> tx[s].staged
      [] OTHER -> {}

(* The store keeps TransitionLog's promise: whatever the interleaving, a   *)
(* call becomes durable whole or not at all, an acknowledged transition    *)
(* is durable, one refused or failed is never made durable by that call,   *)
(* and the durable transitions of an instance form one unbroken chain.     *)
Log == INSTANCE TransitionLog WITH
           accepted <- transitions,
           offer <- [s \in Calls |-> Offer(s)],
           answer <- [s \in Calls |-> tx[s].answer]

ImplementsLog == Log!Spec

(* The three tables agree at every commit: an instance row's sequence is   *)
(* the last event of its history, events are numbered from one without a   *)
(* gap and each has one writer, the pinned definition is the one the last  *)
(* transition left, and an instance is archived once a terminal event is   *)
(* in its history (stageTransition).                                       *)
TablesAgree ==
    \A i \in Instances :
        LET events == {h \in history : h.instance = i}
            mine == {t \in transitions : t.instance = i}
        IN  /\ {h.sequence : h \in events} = 1 .. instances[i].sequence
            /\ Cardinality(events) = instances[i].sequence
            /\ \A t \in mine :
                 End(t) = instances[i].sequence =>
                     t.next = instances[i].definition
            /\ instances[i].archived = \E t \in mine : t.terminal

(* "Exact replay is accepted": a call is never refused a transition that   *)
(* is durable, even one that became durable while the call was running     *)
(* (concurrentTransition).                                                 *)
ExactReplayAccepted ==
    [][\A s \in Calls :
          tx[s].pc # "refused" /\ tx'[s].pc = "refused"
              => Current(s) \notin transitions]_vars

(* No standstill: while a call is unanswered or its transaction open, some *)
(* statement can go on or be broken off as a deadlock, whatever rows and   *)
(* keys callers lock in whatever order.  No call repeats a step, so every  *)
(* call is answered (stageTransition, rollback, Stage).                    *)
NoStandstill ==
    \/ \A s \in Calls : tx[s].pc \in {"idle", "done"}
    \/ ENABLED \E s \in Calls :
          Statement(s) \/ DeadlockDetected(s) \/ Finish(s)
=============================================================================
