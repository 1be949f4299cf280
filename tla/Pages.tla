-------------------------------- MODULE Pages --------------------------------
(***************************************************************************)
(* GET /api/v1/payments read page by page while the rows move: a cursor is *)
(* the place of the last row shown, and each page is one query of its own. *)
(* Between two pages debits fail or clear, files close, the demo is reset  *)
(* and seeded, and the clock is set, forward or back.                      *)
(***************************************************************************)
EXTENDS Integers, FiniteSets

CONSTANTS Ids,        \* payment ids, as numbers in the order of the strings
          Filters,    \* what ?status= lets through: one status, or them all
          Limits,     \* values of `limit`, one for each request
          MaxTime,    \* bound: the latest time of the clock
          MaxChanges  \* bound: writes during the story

Status == {"failed", "recovered", "written_off"}
Closed == {"recovered", "written_off"}

ASSUME PagesAssumption ==
  /\ Ids \subseteq Nat /\ IsFiniteSet(Ids)
  /\ Filters \subseteq {Status} \cup {{s} : s \in Status}
  /\ Limits \subseteq Nat \ {0}
  /\ MaxTime \in Nat \ {0} /\ MaxChanges \in Nat

NoTime == 0   \* failed_at is NULL: the debit cleared at its first presentation

VARIABLES now,      \* clock.now()
          present,  \* the rows of payments
          failedAt, \* payments.failed_at
          status,   \* payments.status
          wanted,   \* the filter of this walk, the same on every page
          walk,     \* the client's walk: before a page, between two, at the end
          cursor,   \* next_cursor, while it is between two pages
          shown,    \* history: how often this walk has shown each row
          touched,  \* history: the rows that were moved since it began
          changes

table == <<present, failedAt, status>>
vars  == <<now, table, wanted, walk, cursor, shown, touched, changes>>

Place   == [at : Nat, id : Nat]
NoPlace == [at |-> NoTime, id |-> 0]

Matches(r) == r \in present /\ status[r] \in wanted

Init ==
  /\ now = MaxTime
  /\ present \in SUBSET Ids
  /\ failedAt \in [Ids -> 0..MaxTime]
  /\ status \in [Ids -> Status]
  /\ \A r \in Ids :
       /\ r \notin present => failedAt[r] = NoTime /\ status[r] = "failed"
       /\ r \in present /\ failedAt[r] = NoTime => status[r] = "recovered"
  /\ wanted \in Filters
  /\ walk = "start" /\ cursor = NoPlace
  /\ shown = [r \in Ids |-> 0]
  /\ touched = {}
  /\ changes = 0

-----------------------------------------------------------------------------
(* ORDER BY failed_at DESC NULLS LAST, id DESC. *)
(* Fault: as Postgres sorts by itself. *)
NullsFirst(a, b) ==
  \/ failedAt[b] # NoTime /\ (failedAt[a] = NoTime \/ failedAt[a] > failedAt[b])
  \/ failedAt[a] = failedAt[b] /\ a > b
SortsBefore(a, b) ==
  \/ failedAt[a] # NoTime /\ (failedAt[b] = NoTime \/ failedAt[a] > failedAt[b])
  \/ failedAt[a] = failedAt[b] /\ a > b

(* The WHERE clause: the place d comes after the place of the cursor c. *)
(* Fault: without the branch for rows that have no date. *)
AfterIfDated(c, d) ==
  \/ d.at # NoTime /\ (d.at < c.at \/ (d.at = c.at /\ d.id < c.id))
  \/ c.at = NoTime /\ d.at = NoTime /\ d.id < c.id
After(c, d) ==
  IF c.at = NoTime THEN d.at = NoTime /\ d.id < c.id
  ELSE \/ d.at = NoTime
       \/ d.at < c.at
       \/ d.at = c.at /\ d.id < c.id

PlaceOf(r) == [at |-> failedAt[r], id |-> r]

Ahead ==
  {r \in Ids : Matches(r) /\ (walk = "start" \/ After(cursor, PlaceOf(r)))}

(* LIMIT n: the first n of the rows, or all of them. *)
Prefixes(rows, n) ==
  {p \in SUBSET rows :
     /\ \A a \in p, b \in rows \ p : SortsBefore(a, b)
     /\ Cardinality(p) = n \/ (p = rows /\ Cardinality(p) <= n)}

(* One row more is fetched than is shown, to know whether there is more. *)
(* Fault: the extra row is not fetched, a full page has a next one. *)
NextIfFull(fetched, page, n) ==
  IF Cardinality(page) = n
  THEN /\ \E last \in page : /\ \A r \in page \ {last} : SortsBefore(r, last)
                             /\ cursor' = PlaceOf(last)
       /\ walk' = "between"
  ELSE walk' = "end" /\ cursor' = NoPlace
NextCursor(fetched, page, n) ==
  IF Cardinality(fetched) > n
  THEN /\ \E last \in page : /\ \A r \in page \ {last} : SortsBefore(r, last)
                             /\ cursor' = PlaceOf(last)
       /\ walk' = "between"
  ELSE walk' = "end" /\ cursor' = NoPlace

GetPage(n) ==
  /\ walk # "end"
  /\ \E fetched \in Prefixes(Ahead, n + 1) : \E page \in Prefixes(fetched, n) :
       /\ NextCursor(fetched, page, n)
       /\ shown' = [r \in Ids |-> IF r \in page THEN shown[r] + 1 ELSE shown[r]]
  /\ UNCHANGED <<now, table, wanted, touched, changes>>

(* The client goes back to the first page, with this filter or another. *)
StartOver ==
  /\ walk # "start"
  /\ wanted' \in Filters
  /\ walk' = "start" /\ cursor' = NoPlace
  /\ shown' = [r \in Ids |-> 0]
  /\ touched' = {}
  /\ UNCHANGED <<now, table, changes>>

-----------------------------------------------------------------------------
Standing(r) == <<Matches(r), failedAt[r]>>

Write ==
  /\ changes < MaxChanges
  /\ changes' = changes + 1
  /\ UNCHANGED <<now, wanted, walk, cursor, shown>>
  /\ touched' = touched \cup {r \in Ids : Standing(r) # Standing(r)'}

(* _record_dishonour: a new row, or one that fails again. *)
(* Fault: the moment is left to whoever classifies the failure. *)
DishonourUndated(r) ==
  /\ r \notin present \/ status[r] \notin Closed
  /\ present' = present \cup {r}
  /\ failedAt' = failedAt
  /\ status' = [status EXCEPT ![r] = "failed"]
  /\ Write
Dishonour(r) ==
  /\ r \notin present \/ status[r] \notin Closed
  /\ present' = present \cup {r}
  /\ failedAt' = [failedAt EXCEPT ![r] = now]
  /\ status' = [status EXCEPT ![r] = "failed"]
  /\ Write

(* _record_success: a new row has no failed_at, an old one keeps its own. *)
Clear(r) ==
  /\ present' = present \cup {r}
  /\ status' = [status EXCEPT ![r] = "recovered"]
  /\ failedAt' = failedAt
  /\ Write

(* execute_due reaches the write-off of an open file. *)
WriteOff(r) ==
  /\ r \in present /\ status[r] \notin Closed
  /\ status' = [status EXCEPT ![r] = "written_off"]
  /\ UNCHANGED <<present, failedAt>>
  /\ Write

(* seed_demo dates what it has just ingested back, all at one commit. *)
Backdate(dates) ==
  /\ \A r \in Ids : dates[r] # failedAt[r] =>
       r \in present /\ NoTime < dates[r] /\ dates[r] < failedAt[r]
  /\ failedAt' = dates
  /\ UNCHANGED <<present, status>>
  /\ Write

(* reset_all truncates the tables; it sets the clock after the commit. *)
Truncate ==
  /\ present' = {}
  /\ failedAt' = [r \in Ids |-> NoTime]
  /\ status' = [r \in Ids |-> "failed"]
  /\ Write

(* Time passes, the clock is moved, or set back by a reset or a restart. *)
SetClock(t) ==
  /\ now' = t
  /\ UNCHANGED <<table, wanted, walk, cursor, shown, touched, changes>>

Next ==
  \/ StartOver \/ Truncate
  \/ \E n \in Limits : GetPage(n)
  \/ \E t \in 1..MaxTime : SetClock(t)
  \/ \E r \in Ids : Dishonour(r) \/ Clear(r) \/ WriteOff(r)
  \/ \E dates \in [Ids -> 0..MaxTime] : Backdate(dates)

Spec == Init /\ [][Next]_vars

-----------------------------------------------------------------------------
(* Types, and what rows have no date: those that are not there, and those *)
(* that cleared without ever failing (no row is ever kept "pending").      *)
TypeOK ==
  /\ now \in Nat \ {0}
  /\ present \subseteq Ids
  /\ failedAt \in [Ids -> Nat]
  /\ status \in [Ids -> Status]
  /\ \A r \in present : failedAt[r] = NoTime => status[r] = "recovered"
  /\ wanted \in Filters
  /\ walk \in {"start", "between", "end"}
  /\ cursor \in Place
  /\ shown \in [Ids -> Nat]
  /\ touched \subseteq Ids
  /\ changes \in Nat

(* The part of the list the walk has behind it. *)
Passed(r) ==
  walk = "end" \/ (walk = "between" /\ ~ After(cursor, PlaceOf(r)))

(* payments.py: the cursor keeps every row on exactly one page, whatever   *)
(* is inserted, moved or deleted around it between two pages: a row that   *)
(* is not itself moved is shown once when the walk has passed its place,   *)
(* undated rows included, and not before.                                  *)
UntouchedOnce ==
  \A r \in Ids \ touched :
    shown[r] = IF Matches(r) /\ Passed(r) THEN 1 ELSE 0

(* next_cursor is given only when the page it asks for would have a row, as *)
(* the table stands, and it asks for a place beyond the one asked for:      *)
(* no reader is sent to an empty page, or round in a circle.                *)
NextPageIsAhead ==
  [][shown' # shown /\ walk' = "between" =>
       /\ \E r \in Ids : Matches(r) /\ After(cursor', PlaceOf(r))
       /\ walk = "between" => After(cursor, cursor')]_vars
=============================================================================
