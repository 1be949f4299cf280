------------------------- MODULE WebhookLedgerProofs -------------------------
(***************************************************************************)
(* Proofs about WebhookLedger, for any number of events, payments,         *)
(* customers, sessions and crashes, and any batches: idempotent ingestion, *)
(* acknowledgements that are final, and the refinement of atomic           *)
(* settlement, from which the status properties follow.                    *)
(***************************************************************************)
EXTENDS WebhookLedger, TLAPS

-----------------------------------------------------------------------------
(* The inductive invariant. *)

InHandler(s) == pc[s] \in {"applying", "adding"}

(* A session that holds nothing has no private state. *)
EmptyOutside ==
  \A s \in Sessions :
    /\ pc[s] # "idle" => event[s] \in Events
    /\ ~ InHandler(s) => /\ inserted[s] = {}
                         /\ base[s] = Unloaded
                         /\ view[s] = Unloaded

(* The event id a session holds is not in the ledger, nobody else holds it, *)
(* and the session is somewhere in its batch.                               *)
HeldOnce ==
  \A s \in Sessions : InHandler(s) =>
    /\ event[s] \notin ledger
    /\ cursor[s] \in 1..(Len(Batch[event[s]]) + 1)
    /\ \A t \in Sessions : InHandler(t) /\ event[t] = event[s] => t = s

(* What a session has decided about p is what the entries it has passed     *)
(* make of the status it loaded.                                            *)
ViewOf(s, p) ==
  LET n == cursor[s] - 1
      settled == Names(event[s], n, p, "settled")
      dishonoured == Names(event[s], n, p, "dishonoured")
  IN /\ ~ settled /\ ~ dishonoured => base[s][p] = "unloaded" /\ view[s][p] = "unloaded"
     /\ settled \/ dishonoured => base[s][p] \in Status
     /\ settled => view[s][p] = "recovered"
     /\ ~ settled /\ dishonoured =>
          view[s][p] = IF base[s][p] \in Terminal THEN base[s][p] ELSE "failed"

(* A session that is adding a customer is at an entry that names one. *)
AddingAtEntry ==
  \A s \in Sessions : pc[s] = "adding" => ~ AtEnd(s) /\ At(s).payer \in Customers

ViewsFollowBatch == \A s \in Sessions : InHandler(s) => \A p \in Payments : ViewOf(s, p)

(* What a session loaded may be stale, but only in one direction. *)
StaleOneWay ==
  \A s \in Sessions, p \in Payments :
    /\ base[s][p] = "failed" => status[p] # "absent"
    /\ base[s][p] = "recovered" => status[p] = "recovered"
    /\ base[s][p] = "written_off" => status[p] \in Terminal

IInv ==
  /\ TypeOK
  /\ EmptyOutside
  /\ HeldOnce
  /\ AddingAtEntry
  /\ ViewsFollowBatch
  /\ StaleOneWay
  /\ AppliedOnce
  /\ AckedIsRecorded

-----------------------------------------------------------------------------
LEMMA InitType == Init => TypeOK
BY SessionAssumption DEF Init, LedgerInit, TypeOK, Unloaded, LoadedStatus

(* Typing of the entry a session is at. *)
LEMMA EntryType ==
  ASSUME TypeOK, NEW s \in Sessions, event[s] \in Events, cursor[s] >= 1, ~ AtEnd(s)
  PROVE  /\ At(s) \in Entry
         /\ cursor[s] \in 1..Len(Batch[event[s]])
         /\ At(s) = Batch[event[s]][cursor[s]]
<1>1. Batch[event[s]] \in Seq(Entry)
  BY BatchAssumption
<1>2. cursor[s] \in 1..Len(Batch[event[s]])
  BY <1>1 DEF TypeOK, AtEnd
<1>. QED
  BY <1>1, <1>2 DEF At

(* A decided status is a real one, or both copies are still unloaded. *)
LEMMA WrittenType ==
  ASSUME IInv, NEW s \in Sessions, InHandler(s), NEW p \in Payments
  PROVE  Written(s, p) \in Status
<1>1. ViewOf(s, p)
  BY DEF IInv, ViewsFollowBatch
<1>2. status[p] \in Status
  BY DEF IInv, TypeOK
<1>. QED
  BY <1>1, <1>2 DEF ViewOf, Written, Status, Terminal

LEMMA RollbackType ==
  ASSUME TypeOK, NEW s \in Sessions, Rollback(s), crashes' \in 0..MaxCrashes
  PROVE  TypeOK'
BY DEF TypeOK, Rollback, Release, Unloaded, LoadedStatus

LEMMA RecordedType ==
  ASSUME NEW entry, NEW st \in Status
  PROVE  Recorded(entry, st) \in Status
BY DEF Recorded, Status, Terminal

LEMMA HandleType ==
  ASSUME IInv, NEW s \in Sessions, Handle(s)
  PROVE  TypeOK'
<1>. USE DEF IInv
<1>1. CASE RejectMalformed(s)
  BY <1>1, RollbackType DEF RejectMalformed, TypeOK
<1>2. CASE ClaimEvent(s)
  BY <1>2 DEF ClaimEvent, TypeOK
<1>3. CASE AnswerDuplicate(s)
  BY <1>3 DEF AnswerDuplicate, AlreadyRecorded, Answer, Release, TypeOK, Unloaded, LoadedStatus
<1>4. CASE SkipEntry(s)
  BY <1>4 DEF SkipEntry, TypeOK
<1>5. CASE MissCustomer(s)
  BY <1>5 DEF MissCustomer, TypeOK
<1>6. CASE AddCustomer(s)
  <2>2. inserted' \in [Sessions -> SUBSET Customers]
    BY <1>6 DEF AddCustomer, TypeOK, AddingAtEntry
  <2>. QED
    BY <1>6, <2>2 DEF AddCustomer, TypeOK
<1>7. CASE CustomerTaken(s)
  BY <1>7, RollbackType DEF CustomerTaken, TypeOK
<1>8. CASE ApplyEntry(s)
  <2>. DEFINE p == At(s).payment
  <2>1. event[s] \in Events /\ cursor[s] >= 1
    BY <1>8 DEF ApplyEntry, EmptyOutside, HeldOnce, InHandler, TypeOK
  <2>2. p \in Payments
    BY <1>8, <2>1, EntryType DEF ApplyEntry, Entry
  <2>3. ViewOf(s, p)
    BY <1>8, <2>2 DEF ApplyEntry, ViewsFollowBatch, InHandler
  <2>4. LoadedBase(s, p) \in Status /\ LoadedView(s, p) \in Status
    BY <2>2, <2>3 DEF ViewOf, LoadedBase, LoadedView, TypeOK, Status, Terminal
  <2>5. Recorded(At(s), LoadedView(s, p)) \in Status
    BY <2>4, RecordedType
  <2>. HIDE DEF p
  <2>6. /\ base' = [base EXCEPT ![s][p] = LoadedBase(s, p)]
        /\ view' = [view EXCEPT ![s][p] = Recorded(At(s), LoadedView(s, p))]
        /\ cursor' = [cursor EXCEPT ![s] = @ + 1]
        /\ UNCHANGED <<ledger, status, customers, pc, event, inserted, acked, applied, crashes>>
    BY <1>8 DEF ApplyEntry, p
  <2>7. base' \in [Sessions -> [Payments -> LoadedStatus]]
    BY <2>2, <2>4, <2>6 DEF TypeOK, LoadedStatus
  <2>8. view' \in [Sessions -> [Payments -> LoadedStatus]]
    BY <2>2, <2>5, <2>6 DEF TypeOK, LoadedStatus
  <2>. QED
    BY <2>6, <2>7, <2>8 DEF TypeOK
<1>9. CASE Commit(s)
  <2>1. InHandler(s) /\ event[s] \in Events
    BY <1>9 DEF Commit, InHandler, EmptyOutside
  <2>2. status' \in [Payments -> Status]
    BY <1>9, <2>1, WrittenType DEF Commit
  <2>3. ledger' \in SUBSET Events /\ acked' \in SUBSET Events
    BY <1>9, <2>1 DEF Commit, Answer, TypeOK
  <2>4. customers' \in SUBSET Customers /\ applied' \in [Events -> Nat]
    BY <1>9, <2>1 DEF Commit, TypeOK
  <2>5. UNCHANGED crashes /\ Release(s)
    BY <1>9 DEF Commit
  <2>. QED
    BY <2>2, <2>3, <2>4, <2>5 DEF Release, TypeOK, Unloaded, LoadedStatus
<1>10. CASE CommitRefused(s)
  BY <1>10, RollbackType DEF CommitRefused, TypeOK
<1>11. CASE DeadlockAbort(s)
  BY <1>11, RollbackType DEF DeadlockAbort, TypeOK
<1>. QED
  BY <1>1, <1>2, <1>3, <1>4, <1>5, <1>6, <1>7, <1>8, <1>9, <1>10, <1>11 DEF Handle

LEMMA StepType == IInv /\ [Next]_vars => TypeOK'
<1>. SUFFICES ASSUME IInv, [Next]_vars PROVE TypeOK'
  OBVIOUS
<1>1. ASSUME NEW s \in Sessions, Handle(s) PROVE TypeOK'
  BY <1>1, HandleType
<1>2. ASSUME NEW s \in Sessions, Crash(s) PROVE TypeOK'
  <2>1. crashes' \in 0..MaxCrashes
    BY <1>2, SessionAssumption DEF Crash, IInv, TypeOK
  <2>. QED
    BY <1>2, <2>1, RollbackType DEF Crash, IInv
<1>3. ASSUME NEW s \in Sessions, NEW e \in Events, Receive(s, e) PROVE TypeOK'
  BY <1>3 DEF Receive, IInv, TypeOK
<1>4. CASE UNCHANGED vars
  BY <1>4 DEF vars, sessionVars, IInv, TypeOK
<1>. QED
  BY <1>1, <1>2, <1>3, <1>4 DEF Next

-----------------------------------------------------------------------------
(* What each action does to the private state of the sessions. *)

LEMMA OutsideEmptyStep == IInv /\ [Next]_vars => EmptyOutside'
<1>. SUFFICES ASSUME IInv, [Next]_vars PROVE EmptyOutside'
  OBVIOUS
<1>. USE DEF IInv, EmptyOutside, InHandler
<1>0. TypeOK
  OBVIOUS
<1>1. ASSUME NEW s \in Sessions, Release(s) PROVE EmptyOutside'
  BY <1>0, <1>1 DEF Release, TypeOK
<1>2. ASSUME NEW s \in Sessions, Handle(s) PROVE EmptyOutside'
  <2>1. CASE ClaimEvent(s)
    BY <1>0, <2>1 DEF ClaimEvent, TypeOK
  <2>2. CASE SkipEntry(s)
    BY <1>0, <2>2 DEF SkipEntry, TypeOK
  <2>3. CASE MissCustomer(s)
    BY <1>0, <2>3 DEF MissCustomer, TypeOK
  <2>4. CASE AddCustomer(s)
    BY <1>0, <2>4 DEF AddCustomer, TypeOK
  <2>5. CASE ApplyEntry(s)
    BY <1>0, <2>5 DEF ApplyEntry, TypeOK
  <2>. QED
    BY <1>1, <1>2, <2>1, <2>2, <2>3, <2>4, <2>5
       DEF Handle, RejectMalformed, AnswerDuplicate, CustomerTaken, Commit,
           CommitRefused, DeadlockAbort, Rollback
<1>3. ASSUME NEW s \in Sessions, Crash(s) PROVE EmptyOutside'
  BY <1>1, <1>3 DEF Crash, Rollback
<1>4. ASSUME NEW s \in Sessions, NEW e \in Events, Receive(s, e) PROVE EmptyOutside'
  BY <1>0, <1>4 DEF Receive, TypeOK
<1>5. CASE UNCHANGED vars
  BY <1>5 DEF vars, sessionVars
<1>. QED
  BY <1>2, <1>3, <1>4, <1>5 DEF Next

LEMMA HeldOnceStep == IInv /\ [Next]_vars => HeldOnce'
<1>. SUFFICES ASSUME IInv, [Next]_vars PROVE HeldOnce'
  OBVIOUS
<1>. USE DEF IInv, HeldOnce, InHandler
<1>0. TypeOK /\ EmptyOutside
  OBVIOUS
<1>1. ASSUME NEW s \in Sessions, Release(s), ledger' = ledger PROVE HeldOnce'
  BY <1>0, <1>1 DEF Release, TypeOK
<1>2. ASSUME NEW s \in Sessions, Handle(s) PROVE HeldOnce'
  <2>1. CASE ClaimEvent(s)
    <3>1. event[s] \in Events /\ Batch[event[s]] \in Seq(Entry)
      BY <1>0, <2>1, BatchAssumption DEF ClaimEvent, EmptyOutside
    <3>. QED
      BY <1>0, <2>1, <3>1 DEF ClaimEvent, TypeOK, Holds
  <2>2. ASSUME SkipEntry(s) \/ ApplyEntry(s) PROVE HeldOnce'
    <3>1. /\ pc[s] = "applying" /\ ~ AtEnd(s)
          /\ cursor' = [cursor EXCEPT ![s] = @ + 1]
          /\ UNCHANGED <<ledger, pc, event>>
      BY <2>2 DEF SkipEntry, ApplyEntry
    <3>2. event[s] \in Events /\ Batch[event[s]] \in Seq(Entry)
      BY <1>0, <3>1, BatchAssumption DEF EmptyOutside
    <3>3. cursor[s] + 1 \in 1..(Len(Batch[event[s]]) + 1)
      BY <1>0, <3>1, <3>2 DEF TypeOK, AtEnd
    <3>. QED
      BY <1>0, <3>1, <3>3 DEF TypeOK
  <2>3. CASE MissCustomer(s)
    BY <1>0, <2>3 DEF MissCustomer, TypeOK
  <2>4. CASE AddCustomer(s)
    BY <1>0, <2>4 DEF AddCustomer, TypeOK
  <2>5. CASE Commit(s)
    BY <1>0, <2>5 DEF Commit, Release, TypeOK
  <2>. QED
    BY <1>1, <1>2, <2>1, <2>2, <2>3, <2>4, <2>5
       DEF Handle, RejectMalformed, AnswerDuplicate, CustomerTaken,
           CommitRefused, DeadlockAbort, Rollback
<1>3. ASSUME NEW s \in Sessions, Crash(s) PROVE HeldOnce'
  BY <1>1, <1>3 DEF Crash, Rollback
<1>4. ASSUME NEW s \in Sessions, NEW e \in Events, Receive(s, e) PROVE HeldOnce'
  BY <1>0, <1>4 DEF Receive, TypeOK
<1>5. CASE UNCHANGED vars
  BY <1>5 DEF vars, sessionVars
<1>. QED
  BY <1>2, <1>3, <1>4, <1>5 DEF Next

LEMMA AddingStep == IInv /\ [Next]_vars => AddingAtEntry'
<1>. SUFFICES ASSUME IInv, [Next]_vars PROVE AddingAtEntry'
  OBVIOUS
<1>. USE DEF IInv, AddingAtEntry, AtEnd, At
<1>0. TypeOK
  OBVIOUS
<1>1. ASSUME NEW s \in Sessions, Release(s) PROVE AddingAtEntry'
  BY <1>0, <1>1 DEF Release, TypeOK
<1>2. ASSUME NEW s \in Sessions, Handle(s) PROVE AddingAtEntry'
  <2>1. CASE ClaimEvent(s)
    BY <1>0, <2>1 DEF ClaimEvent, TypeOK
  <2>2. CASE SkipEntry(s)
    BY <1>0, <2>2 DEF SkipEntry, TypeOK
  <2>3. CASE MissCustomer(s)
    <3>1. event[s] \in Events /\ cursor[s] >= 1
      BY <1>0, <2>3 DEF MissCustomer, EmptyOutside, HeldOnce, InHandler, TypeOK
    <3>2. At(s).payer \in Customers
      BY <1>0, <2>3, <3>1, EntryType DEF MissCustomer, Entry, Visible
    <3>. QED
      BY <1>0, <2>3, <3>2 DEF MissCustomer, TypeOK
  <2>4. CASE AddCustomer(s)
    BY <1>0, <2>4 DEF AddCustomer, TypeOK
  <2>5. CASE ApplyEntry(s)
    BY <1>0, <2>5 DEF ApplyEntry, TypeOK
  <2>. QED
    BY <1>1, <1>2, <2>1, <2>2, <2>3, <2>4, <2>5
       DEF Handle, RejectMalformed, AnswerDuplicate, CustomerTaken, Commit,
           CommitRefused, DeadlockAbort, Rollback
<1>3. ASSUME NEW s \in Sessions, Crash(s) PROVE AddingAtEntry'
  BY <1>1, <1>3 DEF Crash, Rollback
<1>4. ASSUME NEW s \in Sessions, NEW e \in Events, Receive(s, e) PROVE AddingAtEntry'
  BY <1>0, <1>4 DEF Receive, TypeOK
<1>5. CASE UNCHANGED vars
  BY <1>5 DEF vars, sessionVars
<1>. QED
  BY <1>2, <1>3, <1>4, <1>5 DEF Next

-----------------------------------------------------------------------------
(* The prefix of a batch grows by one entry at a time. *)
LEMMA NamesStep ==
  ASSUME NEW e \in Events, NEW n \in Nat, NEW p, NEW o
  PROVE  Names(e, n + 1, p, o) <=>
           \/ Names(e, n, p, o)
           \/ Batch[e][n + 1].payment = p /\ Batch[e][n + 1].outcome = o
BY DEF Names

LEMMA NamesNone ==
  ASSUME NEW e, NEW p, NEW o PROVE ~ Names(e, 0, p, o)
BY DEF Names

(* One more entry applied keeps the decided status a function of the prefix. *)
LEMMA ApplyKeepsView ==
  ASSUME IInv, NEW s \in Sessions, ApplyEntry(s), NEW q \in Payments
  PROVE  ViewOf(s, q)'
<1>. DEFINE p == At(s).payment
            n == cursor[s] - 1
            e == event[s]
<1>. USE DEF IInv
<1>1. /\ pc[s] = "applying" /\ ~ AtEnd(s) /\ Settles(At(s))
      /\ base' = [base EXCEPT ![s][p] = LoadedBase(s, p)]
      /\ view' = [view EXCEPT ![s][p] = Recorded(At(s), LoadedView(s, p))]
      /\ cursor' = [cursor EXCEPT ![s] = @ + 1]
      /\ event' = event
  BY DEF ApplyEntry
<1>2. e \in Events /\ cursor[s] \in Nat /\ cursor[s] >= 1 /\ n \in Nat
  BY <1>1 DEF EmptyOutside, HeldOnce, InHandler, TypeOK
<1>3. p \in Payments /\ At(s) = Batch[e][n + 1]
  BY <1>1, <1>2, EntryType DEF Entry
<1>4. cursor'[s] - 1 = n + 1 /\ event'[s] = e
  BY <1>1, <1>2 DEF TypeOK
<1>5. ASSUME NEW o
      PROVE  Names(e, n + 1, q, o) <=>
               Names(e, n, q, o) \/ (p = q /\ At(s).outcome = o)
  <2>1. Names(e, n + 1, q, o) <=>
          \/ Names(e, n, q, o)
          \/ Batch[e][n + 1].payment = q /\ Batch[e][n + 1].outcome = o
    BY <1>2, NamesStep
  <2>. QED
    BY <1>3, <2>1
<1>6. ViewOf(s, p) /\ ViewOf(s, q)
  BY <1>1, <1>3 DEF ViewsFollowBatch, InHandler
<1>7. CASE q # p
  <2>1. base'[s][q] = base[s][q] /\ view'[s][q] = view[s][q]
    BY <1>1, <1>3, <1>7 DEF TypeOK
  <2>2. \A o : Names(e, n + 1, q, o) <=> Names(e, n, q, o)
    BY <1>5, <1>7
  <2>. HIDE DEF p
  <2>. QED
    BY <1>4, <1>6, <2>1, <2>2 DEF ViewOf
<1>8. CASE q = p
  <2>1. base'[s][p] = LoadedBase(s, p) /\ view'[s][p] = Recorded(At(s), LoadedView(s, p))
    BY <1>1, <1>3 DEF TypeOK
  <2>2. At(s).outcome \in {"settled", "dishonoured"}
    BY <1>1 DEF Settles
  <2>3. status[p] \in Status
    BY <1>3 DEF TypeOK
  <2>. DEFINE old == Names(e, n, p, "settled")
              dis == Names(e, n, p, "dishonoured")
  <2>4. /\ Names(e, n + 1, p, "settled") <=> old \/ At(s).outcome = "settled"
        /\ Names(e, n + 1, p, "dishonoured") <=> dis \/ At(s).outcome = "dishonoured"
    BY <1>5, <1>8
  <2>5. /\ ~ old /\ ~ dis => base[s][p] = "unloaded" /\ view[s][p] = "unloaded"
        /\ old \/ dis => base[s][p] \in Status
        /\ old => view[s][p] = "recovered"
        /\ ~ old /\ dis => view[s][p] = IF base[s][p] \in Terminal THEN base[s][p] ELSE "failed"
    BY <1>6 DEF ViewOf
  <2>. DEFINE b == base'[s][p]
              v == view'[s][p]
  <2>. HIDE DEF old, dis, p
  <2>6. b \in Status
    BY <2>1, <2>3, <2>5 DEF LoadedBase, Status, Terminal
  <2>7. old \/ At(s).outcome = "settled" => v = "recovered"
    BY <2>1, <2>2, <2>5 DEF Recorded, LoadedView, Status, Terminal
  <2>8. ~ old /\ At(s).outcome = "dishonoured" =>
          v = IF b \in Terminal THEN b ELSE "failed"
    BY <2>1, <2>2, <2>3, <2>5 DEF Recorded, LoadedView, LoadedBase, Status, Terminal
  <2>9. ~ (old \/ At(s).outcome = "settled") => At(s).outcome = "dishonoured"
    BY <2>2
  <2>. QED
    BY <1>4, <1>8, <2>2, <2>4, <2>6, <2>7, <2>8, <2>9 DEF ViewOf
<1>. QED
  BY <1>7, <1>8

LEMMA ViewsStep == IInv /\ [Next]_vars => ViewsFollowBatch'
<1>. SUFFICES ASSUME IInv, [Next]_vars, NEW t \in Sessions, InHandler(t)', NEW q \in Payments
              PROVE  ViewOf(t, q)'
  BY DEF ViewsFollowBatch
<1>. USE DEF IInv
<1>1. ASSUME InHandler(t), UNCHANGED <<event[t], cursor[t], base[t], view[t]>>
      PROVE  ViewOf(t, q)'
  <2>1. ViewOf(t, q)
    BY <1>1 DEF ViewsFollowBatch
  <2>. QED
    BY <1>1, <2>1 DEF ViewOf, Names
<1>2. ASSUME NEW s \in Sessions, Release(s) PROVE ViewOf(t, q)'
  <2>1. t # s
    BY <1>2 DEF Release, InHandler, TypeOK
  <2>2. InHandler(t) /\ UNCHANGED <<event[t], cursor[t], base[t], view[t]>>
    BY <1>2, <2>1 DEF Release, InHandler, TypeOK
  <2>. QED
    BY <1>1, <2>2
<1>3. ASSUME NEW s \in Sessions, Handle(s) PROVE ViewOf(t, q)'
  <2>1. CASE ClaimEvent(s)
    <3>1. CASE t = s
      <4>1. base[s] = Unloaded /\ view[s] = Unloaded
        BY <2>1 DEF ClaimEvent, EmptyOutside, InHandler
      <4>2. cursor'[s] = 1 /\ event' = event /\ base' = base /\ view' = view
        BY <2>1 DEF ClaimEvent, TypeOK
      <4>3. cursor'[s] - 1 = 0
        BY <4>2
      <4>. QED
        BY <3>1, <4>1, <4>2, <4>3, NamesNone DEF ViewOf, Unloaded
    <3>2. CASE t # s
      BY <1>1, <2>1, <3>2 DEF ClaimEvent, InHandler, TypeOK
    <3>. QED
      BY <3>1, <3>2
  <2>2. CASE SkipEntry(s)
    <3>1. CASE t = s
      <4>. DEFINE n == cursor[s] - 1
                  e == event[s]
      <4>1. /\ pc[s] = "applying" /\ ~ AtEnd(s) /\ ~ Settles(At(s))
            /\ cursor' = [cursor EXCEPT ![s] = @ + 1]
            /\ UNCHANGED <<event, base, view>>
        BY <2>2 DEF SkipEntry
      <4>2. e \in Events /\ cursor[s] \in Nat /\ cursor[s] >= 1 /\ n \in Nat
        BY <4>1 DEF EmptyOutside, HeldOnce, InHandler, TypeOK
      <4>3. At(s) = Batch[e][n + 1]
        BY <4>1, <4>2, EntryType
      <4>4. cursor'[s] - 1 = n + 1
        BY <4>1, <4>2 DEF TypeOK
      <4>5. \A o \in {"settled", "dishonoured"} : Names(e, n + 1, q, o) <=> Names(e, n, q, o)
        BY <4>1, <4>2, <4>3, NamesStep DEF Settles
      <4>6. ViewOf(s, q)
        BY <4>1 DEF ViewsFollowBatch, InHandler
      <4>. QED
        BY <3>1, <4>1, <4>4, <4>5, <4>6 DEF ViewOf
    <3>2. CASE t # s
      BY <1>1, <2>2, <3>2 DEF SkipEntry, InHandler, TypeOK
    <3>. QED
      BY <3>1, <3>2
  <2>3. CASE MissCustomer(s)
    BY <1>1, <2>3 DEF MissCustomer, InHandler, TypeOK
  <2>4. CASE AddCustomer(s)
    BY <1>1, <2>4 DEF AddCustomer, InHandler, TypeOK
  <2>5. CASE ApplyEntry(s)
    <3>1. CASE t = s
      BY <2>5, <3>1, ApplyKeepsView
    <3>2. CASE t # s
      <4>1. InHandler(t) /\ UNCHANGED <<event[t], cursor[t]>>
        BY <2>5, <3>2 DEF ApplyEntry, InHandler, TypeOK
      <4>2. UNCHANGED <<base[t], view[t]>>
        BY <2>5, <3>2 DEF ApplyEntry, TypeOK
      <4>. QED
        BY <1>1, <4>1, <4>2
    <3>. QED
      BY <3>1, <3>2
  <2>. QED
    BY <1>2, <1>3, <2>1, <2>2, <2>3, <2>4, <2>5
       DEF Handle, RejectMalformed, AnswerDuplicate, CustomerTaken, Commit,
           CommitRefused, DeadlockAbort, Rollback
<1>4. ASSUME NEW s \in Sessions, Crash(s) PROVE ViewOf(t, q)'
  BY <1>2, <1>4 DEF Crash, Rollback
<1>5. ASSUME NEW s \in Sessions, NEW e \in Events, Receive(s, e) PROVE ViewOf(t, q)'
  BY <1>1, <1>5 DEF Receive, InHandler, TypeOK
<1>6. CASE UNCHANGED vars
  BY <1>1, <1>6 DEF vars, sessionVars, InHandler
<1>. QED
  BY <1>3, <1>4, <1>5, <1>6 DEF Next

-----------------------------------------------------------------------------
(* The commit of a delivery is the atomic settlement of its batch. *)
LEMMA CommitSettles ==
  ASSUME IInv, NEW s \in Sessions, Commit(s)
  PROVE  Settle(event[s])
<1>. DEFINE e == event[s]
<1>. USE DEF IInv
<1>1. pc[s] = "applying" /\ InHandler(s) /\ AtEnd(s) /\ Insertable(s)
  BY DEF Commit, InHandler
<1>2. e \in Events /\ e \notin ledger /\ cursor[s] - 1 = Len(Batch[e])
  <2>1. e \in Events /\ Batch[e] \in Seq(Entry)
    BY <1>1, BatchAssumption DEF EmptyOutside
  <2>2. Len(Batch[e]) \in Nat /\ cursor[s] \in Nat
    BY <2>1 DEF TypeOK
  <2>3. e \notin ledger /\ cursor[s] \in 1..(Len(Batch[e]) + 1)
    BY <1>1 DEF HeldOnce
  <2>4. cursor[s] > Len(Batch[e])
    BY <1>1 DEF AtEnd
  <2>. QED
    BY <2>1, <2>2, <2>3, <2>4
<1>3. ASSUME NEW p \in Payments PROVE Written(s, p) = Settled(e, p, status[p])
  <2>1. ViewOf(s, p)
    BY <1>1 DEF ViewsFollowBatch
  <2>2. /\ base[s][p] = "failed" => status[p] # "absent"
        /\ base[s][p] = "recovered" => status[p] = "recovered"
        /\ base[s][p] = "written_off" => status[p] \in Terminal
        /\ base[s][p] = "absent" => status[p] = "absent"
    BY <1>1 DEF StaleOneWay, Insertable
  <2>3. status[p] \in Status
    BY DEF TypeOK
  <2>. DEFINE old == Names(e, Len(Batch[e]), p, "settled")
              dis == Names(e, Len(Batch[e]), p, "dishonoured")
  <2>4. /\ ~ old /\ ~ dis => base[s][p] = "unloaded" /\ view[s][p] = "unloaded"
        /\ old \/ dis => base[s][p] \in Status
        /\ old => view[s][p] = "recovered"
        /\ ~ old /\ dis => view[s][p] = IF base[s][p] \in Terminal THEN base[s][p] ELSE "failed"
    BY <1>2, <2>1 DEF ViewOf
  <2>5. Settled(e, p, status[p]) =
          IF old THEN "recovered" ELSE IF dis /\ status[p] \notin Terminal THEN "failed" ELSE status[p]
    BY DEF Settled
  <2>. HIDE DEF old, dis
  <2>. QED
    BY <2>2, <2>3, <2>4, <2>5 DEF Written, Status, Terminal
<1>4. status' = [p \in Payments |-> Settled(e, p, status[p])]
  BY <1>3 DEF Commit
<1>. QED
  BY <1>2, <1>4 DEF Settle, Commit

(* No other step touches the tables the settlement is about. *)
LEMMA StepSettles == IInv /\ [Next]_vars => (\E e \in Events : Settle(e)) \/ UNCHANGED ledgerVars
<1>. SUFFICES ASSUME IInv, [Next]_vars
              PROVE  (\E e \in Events : Settle(e)) \/ UNCHANGED ledgerVars
  OBVIOUS
<1>1. ASSUME NEW s \in Sessions, Commit(s) PROVE \E e \in Events : Settle(e)
  <2>1. event[s] \in Events
    BY <1>1 DEF Commit, IInv, EmptyOutside
  <2>. QED
    BY <1>1, <2>1, CommitSettles
<1>2. ASSUME NEW s \in Sessions, Handle(s), ~ Commit(s) PROVE UNCHANGED ledgerVars
  BY <1>2 DEF Handle, RejectMalformed, ClaimEvent, AnswerDuplicate, SkipEntry,
      MissCustomer, AddCustomer, CustomerTaken, ApplyEntry, CommitRefused,
      DeadlockAbort, Rollback, ledgerVars
<1>3. ASSUME NEW s \in Sessions, Crash(s) PROVE UNCHANGED ledgerVars
  BY <1>3 DEF Crash, Rollback, ledgerVars
<1>4. ASSUME NEW s \in Sessions, NEW e \in Events, Receive(s, e) PROVE UNCHANGED ledgerVars
  BY <1>4 DEF Receive, ledgerVars
<1>5. CASE UNCHANGED vars
  BY <1>5 DEF vars, ledgerVars
<1>. QED
  BY <1>1, <1>2, <1>3, <1>4, <1>5 DEF Next

(* Settlement moves a status only forward. *)
LEMMA SettledForward ==
  ASSUME NEW e, NEW p, NEW st \in Status
  PROVE  /\ Settled(e, p, st) \in Status
         /\ st # "absent" => Settled(e, p, st) # "absent"
         /\ st = "recovered" => Settled(e, p, st) = "recovered"
         /\ st \in Terminal => Settled(e, p, st) \in Terminal
BY DEF Settled, Status, Terminal

LEMMA StatusForward ==
  ASSUME IInv, [Next]_vars, NEW p \in Payments
  PROVE  /\ status[p] # "absent" => status'[p] # "absent"
         /\ status[p] = "recovered" => status'[p] = "recovered"
         /\ status[p] \in Terminal => status'[p] \in Terminal
<1>1. status[p] \in Status
  BY DEF IInv, TypeOK
<1>2. CASE UNCHANGED ledgerVars
  BY <1>2 DEF ledgerVars
<1>3. ASSUME NEW e \in Events, Settle(e)
      PROVE  status'[p] = Settled(e, p, status[p])
  BY <1>3 DEF Settle
<1>. QED
  BY <1>1, <1>2, <1>3, StepSettles, SettledForward

LEMMA StaleStep == IInv /\ [Next]_vars => StaleOneWay'
<1>. SUFFICES ASSUME IInv, [Next]_vars, NEW t \in Sessions, NEW q \in Payments
              PROVE  /\ base'[t][q] = "failed" => status'[q] # "absent"
                     /\ base'[t][q] = "recovered" => status'[q] = "recovered"
                     /\ base'[t][q] = "written_off" => status'[q] \in Terminal
  BY DEF StaleOneWay
<1>. USE DEF IInv
<1>0. /\ base[t][q] = "failed" => status[q] # "absent"
      /\ base[t][q] = "recovered" => status[q] = "recovered"
      /\ base[t][q] = "written_off" => status[q] \in Terminal
  BY DEF StaleOneWay
<1>1. CASE base'[t][q] = base[t][q]
  BY <1>0, <1>1, StatusForward DEF Terminal
<1>2. CASE base'[t][q] = "unloaded"
  BY <1>2
<1>3. CASE base'[t][q] = status[q] /\ status'[q] = status[q]
  BY <1>3 DEF Terminal
<1>4. ASSUME NEW s \in Sessions, Release(s)
      PROVE  base'[t][q] = base[t][q] \/ base'[t][q] = "unloaded"
  BY <1>4 DEF Release, TypeOK, Unloaded
<1>5. ASSUME NEW s \in Sessions, ApplyEntry(s)
      PROVE  \/ base'[t][q] = base[t][q]
             \/ base'[t][q] = status[q] /\ status'[q] = status[q]
  <2>. DEFINE p == At(s).payment
  <2>1. /\ base' = [base EXCEPT ![s][p] = LoadedBase(s, p)]
        /\ status' = status
    BY <1>5 DEF ApplyEntry
  <2>2. base'[t][q] = IF t = s /\ q = p THEN LoadedBase(s, p) ELSE base[t][q]
    BY <2>1 DEF TypeOK
  <2>. QED
    BY <2>1, <2>2 DEF LoadedBase
<1>6. ASSUME NEW s \in Sessions, Handle(s), ~ ApplyEntry(s)
      PROVE  base'[t][q] = base[t][q] \/ base'[t][q] = "unloaded"
  BY <1>4, <1>6 DEF Handle, RejectMalformed, ClaimEvent, AnswerDuplicate, SkipEntry,
      MissCustomer, AddCustomer, CustomerTaken, Commit, CommitRefused,
      DeadlockAbort, Rollback
<1>7. ASSUME NEW s \in Sessions, Crash(s)
      PROVE  base'[t][q] = base[t][q] \/ base'[t][q] = "unloaded"
  BY <1>4, <1>7 DEF Crash, Rollback
<1>8. ASSUME NEW s \in Sessions, NEW e \in Events, Receive(s, e)
      PROVE  base'[t][q] = base[t][q]
  BY <1>8 DEF Receive
<1>9. UNCHANGED vars => base'[t][q] = base[t][q]
  BY DEF vars, sessionVars
<1>. QED
  BY <1>1, <1>2, <1>3, <1>5, <1>6, <1>7, <1>8, <1>9 DEF Next

(* The counts and the acknowledgements follow the ledger. *)
LEMMA LedgerStep == IInv /\ [Next]_vars => AppliedOnce' /\ AckedIsRecorded'
<1>. SUFFICES ASSUME IInv, [Next]_vars PROVE AppliedOnce' /\ AckedIsRecorded'
  OBVIOUS
<1>. USE DEF IInv, AppliedOnce, AckedIsRecorded
<1>1. CASE UNCHANGED <<ledger, applied, acked>>
  BY <1>1
<1>2. ASSUME NEW s \in Sessions, Commit(s) PROVE AppliedOnce' /\ AckedIsRecorded'
  <2>1. event[s] \in Events /\ event[s] \notin ledger
    BY <1>2 DEF Commit, EmptyOutside, HeldOnce, InHandler
  <2>2. /\ ledger' = ledger \cup {event[s]}
        /\ applied' = [applied EXCEPT ![event[s]] = @ + 1]
        /\ acked' \in {acked, acked \cup {event[s]}}
    BY <1>2 DEF Commit, Answer
  <2>. QED
    BY <2>1, <2>2 DEF TypeOK
<1>3. ASSUME NEW s \in Sessions, AnswerDuplicate(s) PROVE AppliedOnce' /\ AckedIsRecorded'
  BY <1>3 DEF AnswerDuplicate, AlreadyRecorded, Answer
<1>4. ASSUME NEW s \in Sessions, Handle(s), ~ Commit(s), ~ AnswerDuplicate(s)
      PROVE  UNCHANGED <<ledger, applied, acked>>
  BY <1>4 DEF Handle, RejectMalformed, ClaimEvent, SkipEntry, MissCustomer, AddCustomer,
      CustomerTaken, ApplyEntry, CommitRefused, DeadlockAbort, Rollback
<1>5. ASSUME NEW s \in Sessions, Crash(s) PROVE UNCHANGED <<ledger, applied, acked>>
  BY <1>5 DEF Crash, Rollback
<1>6. ASSUME NEW s \in Sessions, NEW e \in Events, Receive(s, e)
      PROVE  UNCHANGED <<ledger, applied, acked>>
  BY <1>6 DEF Receive
<1>7. UNCHANGED vars => UNCHANGED <<ledger, applied, acked>>
  BY DEF vars
<1>. QED
  BY <1>1, <1>2, <1>3, <1>4, <1>5, <1>6, <1>7 DEF Next

LEMMA InitInv == Init => IInv
<1>. SUFFICES ASSUME Init PROVE IInv
  OBVIOUS
<1>1. TypeOK
  BY InitType
<1>. QED
  BY <1>1 DEF IInv, Init, LedgerInit, EmptyOutside, HeldOnce, AddingAtEntry, InHandler,
     ViewsFollowBatch, StaleOneWay, AppliedOnce, AckedIsRecorded, Unloaded

LEMMA StepInv == IInv /\ [Next]_vars => IInv'
BY StepType, OutsideEmptyStep, HeldOnceStep, AddingStep, ViewsStep, StaleStep, LedgerStep
   DEF IInv

(* In every reachable state the inductive invariant holds. *)
THEOREM Invariance == Spec => []IInv
BY InitInv, StepInv, PTL DEF Spec

-----------------------------------------------------------------------------
(* Tables and private copies keep their types. *)
THEOREM TypeCorrect == Spec => []TypeOK
BY Invariance, PTL DEF IInv

(* Webhooks are idempotent on event_id: one effect per recorded event. *)
THEOREM Idempotent == Spec => []AppliedOnce
BY Invariance, PTL DEF IInv

(* An event the sender has a 200 for is recorded. *)
THEOREM AckIsFinal == Spec => []AckedIsRecorded
BY Invariance, PTL DEF IInv

(* Concurrent ingestion implements atomic settlement of whole batches. *)
THEOREM Refinement == Spec => ImplementsSettlement
<1>1. Init => LedgerInit
  BY DEF Init
<1>2. IInv /\ [Next]_vars => [LedgerNext]_ledgerVars
  BY StepSettles DEF LedgerNext
<1>. QED
  BY <1>1, <1>2, Invariance, PTL DEF Spec, LedgerSpec, ImplementsSettlement

(* The two promises about statuses are kept by every settlement. *)
LEMMA SettleKeepsPromises ==
  ASSUME TypeOK, SettledStaysRecovered, RecordedLeavesRows,
         NEW e \in Events, Settle(e)
  PROVE  SettledStaysRecovered' /\ RecordedLeavesRows'
<1>1. /\ ledger' = ledger \cup {e}
      /\ \A p \in Payments : status'[p] = Settled(e, p, status[p])
  BY DEF Settle
<1>2. SettledStaysRecovered'
  <2>1. SUFFICES ASSUME NEW f \in ledger', NEW p \in Payments,
                        Names(f, Len(Batch[f]), p, "settled")
                 PROVE  status'[p] = "recovered"
    BY DEF SettledStaysRecovered, Names
  <2>2. CASE f = e
    BY <1>1, <2>1, <2>2 DEF Settled
  <2>3. CASE f \in ledger
    <3>1. status[p] = "recovered"
      BY <2>1, <2>3 DEF SettledStaysRecovered
    <3>. QED
      BY <1>1, <3>1 DEF Settled, Terminal
  <2>. QED
    BY <1>1, <2>1, <2>2, <2>3
<1>3. RecordedLeavesRows'
  <2>1. SUFFICES ASSUME NEW f \in ledger', NEW i \in 1..Len(Batch[f]), Settles(Batch[f][i])
                 PROVE  status'[Batch[f][i].payment] # "absent"
    BY DEF RecordedLeavesRows, Settles
  <2>. DEFINE p == Batch[f][i].payment
  <2>2. f \in Events
    BY <1>1 DEF TypeOK
  <2>3. Batch[f] \in Seq(Entry)
    BY <2>2, BatchAssumption
  <2>4. Batch[f][i] \in Entry
    BY <2>3
  <2>5. p \in Payments
    BY <2>4 DEF Entry
  <2>6. status[p] \in Status
    BY <2>5 DEF TypeOK
  <2>7. CASE f = e
    <3>1. Names(e, Len(Batch[e]), p, "settled") \/ Names(e, Len(Batch[e]), p, "dishonoured")
      BY <2>1, <2>7 DEF Names, Settles
    <3>2. Settled(e, p, status[p]) # "absent"
      BY <3>1, <2>6 DEF Settled, Status, Terminal
    <3>. QED
      BY <1>1, <2>5, <3>2
  <2>8. CASE f \in ledger
    <3>1. status[p] # "absent"
      BY <2>1, <2>8 DEF RecordedLeavesRows
    <3>. QED
      BY <1>1, <2>5, <2>6, <3>1, SettledForward
  <2>. QED
    BY <1>1, <2>1, <2>7, <2>8
<1>. QED
  BY <1>2, <1>3

LEMMA PromisesStep ==
  IInv /\ SettledStaysRecovered /\ RecordedLeavesRows /\ [Next]_vars
    => SettledStaysRecovered' /\ RecordedLeavesRows'
<1>. SUFFICES ASSUME IInv, SettledStaysRecovered, RecordedLeavesRows, [Next]_vars
              PROVE  SettledStaysRecovered' /\ RecordedLeavesRows'
  OBVIOUS
<1>1. CASE UNCHANGED ledgerVars
  BY <1>1 DEF ledgerVars, SettledStaysRecovered, RecordedLeavesRows, Names, Settles
<1>2. ASSUME NEW e \in Events, Settle(e)
      PROVE  SettledStaysRecovered' /\ RecordedLeavesRows'
  BY <1>2, SettleKeepsPromises DEF IInv
<1>. QED
  BY <1>1, <1>2, StepSettles

(* Money reported cleared stays cleared, whatever dishonour races it. *)
THEOREM ClearedStaysCleared == Spec => []SettledStaysRecovered
<1>1. Init => SettledStaysRecovered /\ RecordedLeavesRows
  BY DEF Init, LedgerInit, SettledStaysRecovered, RecordedLeavesRows
<1>. QED
  BY <1>1, PromisesStep, Invariance, PTL DEF Spec

(* A recorded batch left a row for every payment it reports on. *)
THEOREM BatchIsWhole == Spec => []RecordedLeavesRows
<1>1. Init => SettledStaysRecovered /\ RecordedLeavesRows
  BY DEF Init, LedgerInit, SettledStaysRecovered, RecordedLeavesRows
<1>. QED
  BY <1>1, PromisesStep, Invariance, PTL DEF Spec
=============================================================================
