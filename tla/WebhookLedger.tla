---------------------------- MODULE WebhookLedger ----------------------------
(***************************************************************************)
(* POST /webhooks/pinch as it runs: several database sessions (the push    *)
(* endpoint, the poller and the simulator's queue call the same handler)   *)
(* ingest deliveries concurrently over Postgres at READ COMMITTED.         *)
(*                                                                         *)
(* A delivery first inserts its event id into webhook_events.  The unique  *)
(* index makes a second insert of the same id WAIT for the first session   *)
(* to end: it then fails if that session committed and proceeds if it      *)
(* rolled back.  The handler loads each payment when it reaches its entry, *)
(* decides in memory, and writes everything in one commit.  The ORM writes *)
(* a column only when the value differs from the one it loaded, which is   *)
(* why `base` (loaded) is kept beside `view` (decided).                    *)
(*                                                                         *)
(* A session may crash or be chosen as a deadlock victim at any point; its *)
(* transaction rolls back and the sender, having no 200, delivers again.   *)
(***************************************************************************)
EXTENDS SettlementLedger

CONSTANTS Sessions,    \* request and poller threads, one database session each
          Malformed,   \* events the envelope schema rejects
          NoEvent,     \* an idle session's event
          MaxCrashes   \* bound: sessions lost in the middle of a delivery

ASSUME SessionAssumption ==
  /\ Malformed \subseteq Events
  /\ NoEvent \notin Events
  /\ MaxCrashes \in Nat

VARIABLES customers,  \* committed customer rows
          pc,         \* where each session is in the handler
          event,      \* the event it is handling
          cursor,     \* the entry of the batch it is at
          inserted,   \* customers it has inserted and not yet committed
          base,       \* the payment statuses it loaded
          view,       \* the statuses it has decided on
          acked,      \* events a sender has had a 200 for
          applied,    \* history: how often an event's effects were committed
          crashes

sessionVars == <<pc, event, cursor, inserted, base, view>>
vars == <<ledger, status, customers, sessionVars, acked, applied, crashes>>

Unloaded == [p \in Payments |-> "unloaded"]

At(s)         == Batch[event[s]][cursor[s]]

(* Fault: the last entry of a batch is left out. *)
AtLastEntry(s) == cursor[s] >= Len(Batch[event[s]])
AtEnd(s)       == cursor[s] > Len(Batch[event[s]])

(* Session s has inserted event id e and not yet committed it. *)
(* Fault: a check-then-insert, with no unique index to wait on. *)
HoldsNothing(s, e) == FALSE
Holds(s, e)        == pc[s] \in {"applying", "adding"} /\ event[s] = e

(* The event is in the ledger for good. *)
(* Fault: a row another session has not committed yet counts as well. *)
RecordedOrHeld(s)  == event[s] \in ledger \/ \E t \in Sessions : Holds(t, event[s])
AlreadyRecorded(s) == event[s] \in ledger

(* The rows of customers that s can read, its own flushed ones included. *)
Visible(s, c) == c \in customers \cup inserted[s] \cup {NoPayer}

Init ==
  /\ LedgerInit
  /\ customers \in SUBSET Customers
  /\ \A e \in Events : \A i \in 1..Len(Batch[e]) :
       status[Batch[e][i].payment] # "absent" =>
         Batch[e][i].payer \in customers \cup {NoPayer}
  /\ pc       = [s \in Sessions |-> "idle"]
  /\ event    = [s \in Sessions |-> NoEvent]
  /\ cursor   = [s \in Sessions |-> 0]
  /\ inserted = [s \in Sessions |-> {}]
  /\ base     = [s \in Sessions |-> Unloaded]
  /\ view     = [s \in Sessions |-> Unloaded]
  /\ acked    = {}
  /\ applied  = [e \in Events |-> 0]
  /\ crashes  = 0

-----------------------------------------------------------------------------
(* The end of a session: its transaction is gone and the thread is free. *)
Release(s) ==
  /\ pc'       = [pc EXCEPT ![s] = "idle"]
  /\ event'    = [event EXCEPT ![s] = NoEvent]
  /\ cursor'   = [cursor EXCEPT ![s] = 0]
  /\ inserted' = [inserted EXCEPT ![s] = {}]
  /\ base'     = [base EXCEPT ![s] = Unloaded]
  /\ view'     = [view EXCEPT ![s] = Unloaded]

Rollback(s) ==
  /\ Release(s)
  /\ UNCHANGED <<ledger, status, customers, acked, applied>>

(* A 200 that may be lost on its way back to the sender. *)
Answer(e) == acked' \in {acked, acked \cup {e}}

(* A delivery of e reaches a session: first, repeated, pushed or polled. *)
Receive(s, e) ==
  /\ pc[s] = "idle"
  /\ pc' = [pc EXCEPT ![s] = "received"]
  /\ event' = [event EXCEPT ![s] = e]
  /\ UNCHANGED <<ledger, status, customers, cursor, inserted, base, view,
                 acked, applied, crashes>>

(* 400 invalid_payload: nothing is recorded and the sender is not told 200. *)
RejectMalformed(s) ==
  /\ pc[s] = "received"
  /\ event[s] \in Malformed
  /\ Rollback(s)
  /\ UNCHANGED crashes

(* The insert into webhook_events succeeds.  It waits while another session *)
(* holds the same id uncommitted.                                           *)
ClaimEvent(s) ==
  /\ pc[s] = "received"
  /\ event[s] \notin Malformed
  /\ event[s] \notin ledger
  /\ \A t \in Sessions : ~ Holds(t, event[s])
  /\ pc' = [pc EXCEPT ![s] = "applying"]
  /\ cursor' = [cursor EXCEPT ![s] = 1]
  /\ UNCHANGED <<ledger, status, customers, event, inserted, base, view,
                 acked, applied, crashes>>

(* The insert hits a committed row: roll back and answer 200 "duplicate". *)
AnswerDuplicate(s) ==
  /\ pc[s] = "received"
  /\ event[s] \notin Malformed
  /\ AlreadyRecorded(s)
  /\ Release(s)
  /\ Answer(event[s])
  /\ UNCHANGED <<ledger, status, customers, applied, crashes>>

(* An entry that is no settlement outcome is passed over. *)
SkipEntry(s) ==
  /\ pc[s] = "applying"
  /\ ~ AtEnd(s)
  /\ ~ Settles(At(s))
  /\ cursor' = [cursor EXCEPT ![s] = @ + 1]
  /\ UNCHANGED <<ledger, status, customers, pc, event, inserted, base, view,
                 acked, applied, crashes>>

(* db.get(Customer) found no row: one is about to be added and flushed. *)
MissCustomer(s) ==
  /\ pc[s] = "applying"
  /\ ~ AtEnd(s)
  /\ Settles(At(s))
  /\ ~ Visible(s, At(s).payer)
  /\ pc' = [pc EXCEPT ![s] = "adding"]
  /\ UNCHANGED <<ledger, status, customers, event, cursor, inserted, base, view,
                 acked, applied, crashes>>

(* The customer insert waits for a session that holds the same key. *)
AddCustomer(s) ==
  /\ pc[s] = "adding"
  /\ At(s).payer \notin customers
  /\ \A t \in Sessions : At(s).payer \notin inserted[t]
  /\ inserted' = [inserted EXCEPT ![s] = @ \cup {At(s).payer}]
  /\ pc' = [pc EXCEPT ![s] = "applying"]
  /\ UNCHANGED <<ledger, status, customers, event, cursor, base, view,
                 acked, applied, crashes>>

(* Another session committed that customer since the get: the flush raises *)
(* IntegrityError, which only the ledger insert catches, so it is a 500.   *)
CustomerTaken(s) ==
  /\ pc[s] = "adding"
  /\ At(s).payer \in customers
  /\ Rollback(s)
  /\ UNCHANGED crashes

(* _record_dishonour and _record_success on the status a session sees. *)
(* Fault: a dishonour leaves the column default of a new row in place. *)
LeftPending(entry, st) ==
  IF entry.outcome = "settled" THEN "recovered"
  ELSE IF st = "absent" THEN "pending" ELSE st
Recorded(entry, st) ==
  IF entry.outcome = "settled" THEN "recovered"
  ELSE IF st \in Terminal THEN st ELSE "failed"

(* db.get(Payment) reads the row once per session; later entries for the   *)
(* same payment see the session's own copy.                                *)
LoadedBase(s, p) == IF base[s][p] = "unloaded" THEN status[p] ELSE base[s][p]
LoadedView(s, p) == IF view[s][p] = "unloaded" THEN status[p] ELSE view[s][p]

ApplyEntry(s) ==
  /\ pc[s] = "applying"
  /\ ~ AtEnd(s)
  /\ Settles(At(s))
  /\ Visible(s, At(s).payer)
  /\ LET p == At(s).payment IN
       /\ base' = [base EXCEPT ![s][p] = LoadedBase(s, p)]
       /\ view' = [view EXCEPT ![s][p] = Recorded(At(s), LoadedView(s, p))]
  /\ cursor' = [cursor EXCEPT ![s] = @ + 1]
  /\ UNCHANGED <<ledger, status, customers, pc, event, inserted,
                 acked, applied, crashes>>

-----------------------------------------------------------------------------
(* The entry that first names p creates its row, with that entry's payer.  *)
(* payments.customer_id is NOT NULL, so a row created without one fails.   *)
CreatedWithoutPayer(e, p) ==
  \E i \in 1..Len(Batch[e]) :
    /\ Settles(Batch[e][i]) /\ Batch[e][i].payment = p
    /\ Batch[e][i].payer = NoPayer
    /\ \A j \in 1..(i - 1) : ~ (Settles(Batch[e][j]) /\ Batch[e][j].payment = p)

(* The flush at commit inserts the rows the session did not find. *)
(* Fault: an upsert, which overwrites a row that appeared meanwhile. *)
Upsertable(s) ==
  \A p \in Payments : base[s][p] = "absent" => ~ CreatedWithoutPayer(event[s], p)
Insertable(s) ==
  \A p \in Payments : base[s][p] = "absent" =>
    /\ status[p] = "absent"
    /\ ~ CreatedWithoutPayer(event[s], p)

(* Only a status that differs from the loaded one is written. *)
(* Fault: every loaded row is written back whole. *)
WrittenBack(s, p) == IF view[s][p] = "unloaded" THEN status[p] ELSE view[s][p]
Written(s, p) == IF view[s][p] = base[s][p] THEN status[p] ELSE view[s][p]

Commit(s) ==
  /\ pc[s] = "applying"
  /\ AtEnd(s)
  /\ Insertable(s)
  /\ ledger' = ledger \cup {event[s]}
  /\ customers' = customers \cup inserted[s]
  /\ status' = [p \in Payments |-> Written(s, p)]
  /\ applied' = [applied EXCEPT ![event[s]] = @ + 1]
  /\ Release(s)
  /\ Answer(event[s])
  /\ UNCHANGED crashes

(* IntegrityError at commit: a 500, and the delivery leaves no trace. *)
(* Fault: the error is swallowed and the sender is told 200. *)
CommitSwallowed(s) ==
  /\ pc[s] = "applying"
  /\ AtEnd(s)
  /\ ~ Insertable(s)
  /\ Release(s)
  /\ Answer(event[s])
  /\ UNCHANGED <<ledger, status, customers, applied, crashes>>
CommitRefused(s) ==
  /\ pc[s] = "applying"
  /\ AtEnd(s)
  /\ ~ Insertable(s)
  /\ Rollback(s)
  /\ UNCHANGED crashes

(* Postgres aborts a session that waits on a cycle of customer inserts. *)
WaitsFor(s, t) == pc[s] = "adding" /\ s # t /\ At(s).payer \in inserted[t]

DeadlockAbort(s) ==
  /\ \E C \in SUBSET Sessions :
       /\ s \in C
       /\ \A t \in C : (\E u \in C : WaitsFor(t, u)) /\ (\E u \in C : WaitsFor(u, t))
  /\ Rollback(s)
  /\ UNCHANGED crashes

(* The process, or its connection, dies in the middle of a delivery. *)
Crash(s) ==
  /\ crashes < MaxCrashes
  /\ pc[s] # "idle"
  /\ crashes' = crashes + 1
  /\ Rollback(s)

Handle(s) ==
  \/ RejectMalformed(s) \/ ClaimEvent(s) \/ AnswerDuplicate(s)
  \/ SkipEntry(s) \/ MissCustomer(s) \/ AddCustomer(s) \/ CustomerTaken(s)
  \/ ApplyEntry(s) \/ Commit(s) \/ CommitRefused(s) \/ DeadlockAbort(s)

Next ==
  \E s \in Sessions : Handle(s) \/ Crash(s) \/ (\E e \in Events : Receive(s, e))

Spec == Init /\ [][Next]_vars

(* A handler that can take a step takes it.  A session waiting for another *)
(* one's uncommitted insert is woken when that one ends, so it gets its    *)
(* turn if the key is free again and again.  An event its sender has no    *)
(* 200 for is delivered again whenever a session is free often enough.     *)
Fairness ==
  /\ \A s \in Sessions :
       /\ WF_vars(Handle(s))
       /\ SF_vars(ClaimEvent(s))
       /\ \A c \in Customers : SF_vars(AddCustomer(s) /\ At(s).payer = c)
  /\ \A e \in Events :
       SF_vars(e \notin acked /\ \E s \in Sessions : Receive(s, e))

FairSpec == Spec /\ Fairness

-----------------------------------------------------------------------------
LoadedStatus == Status \cup {"unloaded"}

(* Types of the tables and of every session's private copy. *)
TypeOK ==
  /\ ledger \in SUBSET Events
  /\ status \in [Payments -> Status]
  /\ customers \in SUBSET Customers
  /\ pc \in [Sessions -> {"idle", "received", "applying", "adding"}]
  /\ event \in [Sessions -> Events \cup {NoEvent}]
  /\ cursor \in [Sessions -> Nat]
  /\ inserted \in [Sessions -> SUBSET Customers]
  /\ base \in [Sessions -> [Payments -> LoadedStatus]]
  /\ view \in [Sessions -> [Payments -> LoadedStatus]]
  /\ acked \in SUBSET Events
  /\ applied \in [Events -> Nat]
  /\ crashes \in 0..MaxCrashes

(* Webhooks are idempotent on event_id: however deliveries overlap, crash  *)
(* or repeat, an event is in the ledger exactly when its batch took effect *)
(* and its batch takes effect at most once.                                *)
AppliedOnce ==
  \A e \in Events : applied[e] = IF e \in ledger THEN 1 ELSE 0

(* A 200 is final: an event is never acknowledged, as accepted or as a     *)
(* duplicate, unless its effects are committed.  A "duplicate" given while *)
(* the first delivery could still roll back would lose the event.          *)
AckedIsRecorded == acked \subseteq ledger

(* Money reported cleared stays cleared: once an event that settles p is   *)
(* recorded, no later or concurrent dishonour takes p out of recovered.    *)
SettledStaysRecovered ==
  \A e \in ledger, p \in Payments :
    Names(e, Len(Batch[e]), p, "settled") => status[p] = "recovered"

(* A batch is all or nothing: a recorded event left no payment it reports  *)
(* an outcome for without a row.                                           *)
RecordedLeavesRows ==
  \A e \in ledger : \A i \in 1..Len(Batch[e]) :
    Settles(Batch[e][i]) => status[Batch[e][i].payment] # "absent"

(* Every well-formed event is recorded in the end, whatever the order and  *)
(* overlap of deliveries, as long as sessions do not crash for ever.       *)
EveryEventRecorded ==
  \A e \in Events \ Malformed :
    (\A p \in Payments : ~ CreatedWithoutPayer(e, p)) => <>(e \in ledger)

(* Concurrent ingestion implements atomic settlement of whole batches. *)
ImplementsSettlement == LedgerSpec
=============================================================================
