-------------------------- MODULE SettlementLedger --------------------------
(***************************************************************************)
(* What ingestion of Pinch `bank-results` events promises: each event is   *)
(* taken at most once, and taking it applies its whole batch, in one step, *)
(* to the payments as they stand at that moment.  A settled entry always   *)
(* leaves the payment recovered; a dishonour leaves a closed payment as it *)
(* is and makes any other one failed.  There are no sessions, no locks, no *)
(* crashes and no duplicates at this level.                                *)
(***************************************************************************)
EXTENDS Naturals, Sequences

CONSTANTS Events,     \* event ids, the idempotency key of a delivery
          Payments,   \* payment ids an event can name
          Customers,  \* payer ids an event can name
          NoPayer,    \* an entry without a Payer object
          Batch       \* the entries of an event's Data.Payments, in order

Outcome  == {"dishonoured", "settled", "other"}
Terminal == {"recovered", "written_off"}
Status   == {"absent", "failed"} \cup Terminal

Entry == [payment : Payments, payer : Customers \cup {NoPayer}, outcome : Outcome]

ASSUME BatchAssumption ==
  /\ Batch \in [Events -> Seq(Entry)]
  /\ NoPayer \notin Customers

VARIABLES ledger,   \* the recorded event ids: the rows of webhook_events
          status    \* the committed status of each payment, or "absent"

ledgerVars == <<ledger, status>>

Settles(entry) == entry.outcome \in {"dishonoured", "settled"}

(* The first n entries of e's batch name payment p with outcome o. *)
Names(e, n, p, o) ==
  \E i \in 1..n : Batch[e][i].payment = p /\ Batch[e][i].outcome = o

(* What e's batch, taken whole, makes of a payment p whose status is st. *)
Settled(e, p, st) ==
  IF Names(e, Len(Batch[e]), p, "settled") THEN "recovered"
  ELSE IF Names(e, Len(Batch[e]), p, "dishonoured") /\ st \notin Terminal
       THEN "failed" ELSE st

LedgerInit ==
  /\ ledger = {}
  /\ status \in [Payments -> Status]

Settle(e) ==
  /\ e \notin ledger
  /\ ledger' = ledger \cup {e}
  /\ status' = [p \in Payments |-> Settled(e, p, status[p])]

LedgerNext == \E e \in Events : Settle(e)

LedgerSpec == LedgerInit /\ [][LedgerNext]_ledgerVars
=============================================================================
