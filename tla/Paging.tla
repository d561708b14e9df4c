------------------------------- MODULE Paging -------------------------------
(***************************************************************************)
(* Reading in pages what others go on changing: the keyset listings of     *)
(* instances and dead letters (administration.go, deadletter.go,           *)
(* postgres/store.go), and the traversal of a history (inspection.go).     *)
(*                                                                         *)
(* A listed record is known by its key <<time, identity>>: the creation    *)
(* time of an instance, the failure time of a dead letter.  The database   *)
(* orders identities by its collation, the constructors that validate a    *)
(* page by bytes.  A page is one statement and sees what is committed.     *)
(***************************************************************************)
EXTENDS Integers, Sequences, FiniteSets, SequencesExt

CONSTANTS
    ByteOrder,      \* the identities, in the order Go compares them
    Collation,      \* the identities, in the order the database does
    Times,          \* the creation and failure times callers may give
    PageLimits,     \* page limits and page sizes
    MaxEvents,      \* the MaxEvents of a traversal
    MaxHistory      \* bound: events in the history

ASSUME PagingAssumption ==
    /\ ByteOrder \in Seq(ToSet(ByteOrder))
    /\ Collation \in Seq(ToSet(Collation))
    /\ ToSet(ByteOrder) = ToSet(Collation)
    /\ Times \subseteq Nat \ {0}
    /\ PageLimits \subseteq Nat \ {0}
    /\ MaxEvents \in Nat \ {0}
    /\ MaxHistory \in Nat

VARIABLES
    rows,       \* per identity: its key's time (0: never inserted), and
                \* whether it is in the selection that is listed
    selection,  \* what is listed
    limit,      \* Limit or PageSize
    cursor,     \* the exclusive cursor, <<0, 0>> to start
    listed,     \* the keys listed so far
    steady,     \* the keys that have been in the selection since the start
    history,    \* the sequences at which committed transitions end
    after,      \* the last event delivered
    reading     \* how the listing or traversal stands

pagingVars == <<rows, selection, limit, cursor, listed, steady, history, after, reading>>

Selections == {"active", "archived", "all", "dead"}
IDs == ToSet(ByteOrder)

Index(order, id) == CHOOSE i \in DOMAIN order : order[i] = id

(* Keys in one order or the other; <<0, 0>> comes before all.              *)
Before(order, k, l) ==
    \/ k[1] < l[1]
    \/ k[1] = l[1] /\ Index(order, k[2]) < Index(order, l[2])

Zero == <<0, 0>>

Keys == {<<rows[id].at, id>> : id \in {id \in IDs : rows[id].in}}

(* Nobody reads: what the other checks of a run start from.                *)
PagingIdle ==
    /\ rows = [id \in IDs |-> [at |-> 0, in |-> FALSE]]
    /\ selection = "none"
    /\ limit = 1
    /\ cursor = Zero
    /\ listed = <<>>
    /\ steady = {}
    /\ history = {1}
    /\ after = 0
    /\ reading = "off"

(* A listing begins on a table someone has filled, ...                     *)
ListingInit ==
    /\ selection \in Selections
    /\ limit \in PageLimits
    /\ \E at \in [IDs -> Times \cup {0}], in \in SUBSET IDs :
          /\ \A id \in IDs : at[id] = 0 => id \notin in
          /\ selection = "all" => \A id \in IDs : at[id] # 0 => id \in in
          /\ rows = [id \in IDs |-> [at |-> at[id], in |-> id \in in]]
    /\ cursor = Zero
    /\ listed = <<>>
    /\ steady = Keys
    /\ history = {1}
    /\ after = 0
    /\ reading = "listing"

(* ... a traversal on a history of a few transitions.                      *)
TraversalInit ==
    /\ rows = [id \in IDs |-> [at |-> 0, in |-> FALSE]]
    /\ selection = "history"
    /\ limit \in PageLimits
    /\ cursor = Zero
    /\ listed = <<>>
    /\ steady = {}
    /\ history \in (SUBSET (1 .. MaxHistory)) \ {{}}
    /\ after = 0
    /\ reading = "traversal"

-----------------------------------------------------------------------------
(* What others commit meanwhile.                                           *)

Put(id, row) ==
    /\ rows' = [rows EXCEPT ![id] = row]
    /\ steady' = IF row.in /\ rows[id].at = row.at THEN steady
                 ELSE steady \ {<<rows[id].at, id>>}
    /\ UNCHANGED <<selection, limit, cursor, listed, history, after, reading>>

(* A new instance, with the creation time of its first event.              *)
Create(id) ==
    /\ reading = "listing"
    /\ selection # "dead"
    /\ rows[id].at = 0
    /\ \E at \in Times : Put(id, [at |-> at, in |-> selection # "archived"])

(* Its terminal transition sets archived_at.                               *)
Archive(id) ==
    /\ reading = "listing"
    /\ selection \in {"active", "archived"}
    /\ rows[id].at # 0
    /\ rows[id].in <=> selection = "active"
    /\ Put(id, [rows[id] EXCEPT !.in = selection = "archived"])

(* Work is dead-lettered, for the first time or again and then later, or   *)
(* resolved.                                                               *)
DeadLetter(id) ==
    /\ reading = "listing"
    /\ selection = "dead"
    /\ ~rows[id].in
    /\ \E at \in Times : at > rows[id].at /\ Put(id, [at |-> at, in |-> TRUE])

Resolve(id) ==
    /\ reading = "listing"
    /\ selection = "dead"
    /\ rows[id].in
    /\ Put(id, [rows[id] EXCEPT !.in = FALSE])

(* A transition appends one or two events to the history.                  *)
AppendTransition ==
    /\ reading = "traversal"
    /\ \E n \in {1, 2} :
          /\ Max(history) + n <= MaxHistory
          /\ history' = history \cup {Max(history) + n}
    /\ UNCHANGED <<rows, selection, limit, cursor, listed, steady, after, reading>>

-----------------------------------------------------------------------------
(* ORDER BY: a set of keys in the database's order.                        *)
Ordered(keys) ==
    CHOOSE s \in [1 .. Cardinality(keys) -> keys] :
        \A i, j \in DOMAIN s : i < j => Before(Collation, s[i], s[j])

(* The keys an exclusive cursor has not passed.                            *)
Later == {k \in Keys : cursor = Zero \/ Before(Collation, cursor, k)}

(* listActive, listArchived, listAll, listDeadLetters: the keys after the  *)
(* cursor, in the database's order, one more than fits the page.           *)
Query == SubSeq(Ordered(Later), 1, Min({Cardinality(Later), limit + 1}))

(* cursorBefore and deadLetterCursorBefore.                                *)
cursorBefore(previous, key) ==
    previous = Zero \/ Before(ByteOrder, previous, key)

(* NewInstanceListPage, NewDeadLetterPage: every item matches the          *)
(* selection and follows the one before it, the first one the cursor.  The *)
(* rest of item.valid() is about columns that a key does not have.         *)
PageValid(items) ==
    \A i \in DOMAIN items :
        /\ items[i] \in Keys
        /\ cursorBefore(IF i = 1 THEN cursor ELSE items[i - 1], items[i])

(* Mutant of NextCursor: the cursor of the row that did not fit.           *)
NextCursorOfLookahead(found) == IF found = <<>> THEN cursor ELSE found[Len(found)]

(* nextCursor: the key of the page's last item.                            *)
NextCursor(found) ==
    IF found = <<>> THEN cursor ELSE found[Min({Len(found), limit})]

(* ListInstances, ListDeadLetters: the next page of a caller that goes on  *)
(* as long as there is more.                                               *)
ListPage ==
    /\ reading = "listing"
    /\ LET found == Query
           items == SubSeq(found, 1, Min({Len(found), limit}))
       IN  IF ~PageValid(items)
           THEN reading' = "refused" /\ UNCHANGED <<cursor, listed>>
           ELSE /\ listed' = listed \o items
                /\ cursor' = NextCursor(found)
                /\ reading' = IF Len(found) > limit THEN "listing" ELSE "listed"
    /\ UNCHANGED <<rows, selection, limit, steady, history, after>>

-----------------------------------------------------------------------------
(* Mutant of HasMore: without the row that looks ahead.                    *)
HasMoreBare(n) == FALSE

(* History: whether there is an event beyond a page of n.                  *)
HasMore(n) == Max(history) > after + n

(* traverseHistory: a page, delivered, and whether to go on.               *)
TraversePage ==
    /\ reading = "traversal"
    /\ LET asked == Min({limit, MaxEvents - after})
           got == Min({asked, Max(history) - after})
       IN  /\ after' = after + got
           /\ reading' = CASE got = 0 \/ ~HasMore(asked) -> "delivered"
                           [] got # 0 /\ HasMore(asked) /\ after + got = MaxEvents -> "limit"
                           [] OTHER -> "traversal"
    /\ UNCHANGED <<rows, selection, limit, cursor, listed, steady, history>>

PagingNext ==
    \/ \E id \in IDs : Create(id)
    \/ \E id \in IDs : Archive(id)
    \/ \E id \in IDs : DeadLetter(id)
    \/ \E id \in IDs : Resolve(id)
    \/ ListPage
    \/ AppendTransition
    \/ TraversePage

PagingInit == ListingInit \/ TraversalInit

PagingSpec == PagingInit /\ [][PagingNext]_pagingVars

-----------------------------------------------------------------------------
(* Properties.                                                             *)

(* A listing that comes to its end has every record that was in its        *)
(* selection all the while, and no record twice, whatever was inserted,    *)
(* archived, resolved or dead-lettered between its pages and with whatever *)
(* times (docs/operations.md: "Listing uses stable keyset cursors").       *)
ListingComplete ==
    /\ \A i, j \in DOMAIN listed : listed[i] = listed[j] => i = j
    /\ reading = "listed" => steady \subseteq ToSet(listed)

(* ErrCorruptStore means "corrupt durable record": a page of records the   *)
(* store has written itself is never refused as one.                       *)
PageAccepted == reading # "refused"

(* A traversal that comes to its end has delivered a history the instance  *)
(* had, ending where a transition ended: InspectInstance never replays an  *)
(* operator's audit without its action, or half of a parallel schedule.    *)
(* It gives up at its limit only when there is more than the limit.        *)
TraversalIsWhole ==
    /\ reading = "delivered" => after \in history
    /\ reading = "limit" => after = MaxEvents /\ Max(history) > MaxEvents
=============================================================================
