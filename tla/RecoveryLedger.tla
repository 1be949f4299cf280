--------------------------- MODULE RecoveryLedger ---------------------------
(***************************************************************************)
(* services/repository.py over one customer's payments: a debit fails, is  *)
(* classified and planned for, its attempts fall due and are executed, its *)
(* presentations are answered, someone runs recovery again, the customer   *)
(* supplies new details.  Each action is one call, committed whole; what   *)
(* happens between the steps of two calls is the subject of DueWork.       *)
(*                                                                         *)
(* An attempt's id is the position plan() gave it, so a later plan writes  *)
(* over the rows of an earlier one; 0 is the `_fix` row of a details       *)
(* update.  A scheduled time is what plan() computed; the clock moves to   *)
(* instants at which something is due, in whatever leaps it is driven.     *)
(***************************************************************************)
EXTENDS StrategyEngine

CONSTANTS Payments,    \* the customer's payments
          Codes,       \* dishonour codes a debit may first fail with
          Answers,     \* for each code, those a later presentation may fail with
          Monthly,     \* the payments whose amount reads as a monthly bill
          Payday,      \* the customer's observed payday, or NoWeekday
          Start,       \* when the story begins
          Refusable,   \* the payments whose retries Pinch may refuse outright
          MaxFailed,   \* bound: the payments of them that fail
          MaxReruns    \* bound: calls of run-recovery on a classified payment

ASSUME LedgerAssumption ==
  /\ IsFiniteSet(Payments)
  /\ Answers \in [Codes -> SUBSET Codes]
  /\ Monthly \subseteq Payments
  /\ Refusable \subseteq Payments
  /\ Payday \in 0..NoWeekday
  /\ Start \in Nat /\ LocalDate(Start) >= 1
  /\ {MaxFailed, MaxReruns} \subseteq Nat

Fix == 0
NotClassified == "none"
NoCode == "none"

VARIABLES now,        \* the clock
          status,     \* payments.status, or "absent"
          code,       \* payments.raw_code
          class,      \* payments.failure_class
          failedAt,   \* payments.failed_at
          attempts,   \* each payment's rows of attempts, by id
          outbox,     \* outbox_messages: which row wrote which message, when
          presented,  \* history: the debits handed to Pinch, with their time
          answered,   \* history: the answers to them, "cleared" or a dishonour code
          reruns

rowVars == <<status, code, class, failedAt>>
vars == <<now, rowVars, attempts, outbox, presented, answered, reruns>>

Closed == {"recovered", "written_off"}
Done   == {"executed", "failed", "succeeded"}

SettlementTime == 48
BudgetWindow   == 30 * 24

Row(attempt) ==
  [action |-> attempt.action, channel |-> attempt.channel, at |-> attempt.at,
   status |-> IF attempt.at = NoTime THEN "skipped" ELSE "scheduled",
   done |-> NoTime]

(* One more row, or one more answer. *)
Adding(f, i, entry) == [j \in DOMAIN f \cup {i} |-> IF j = i THEN entry ELSE f[j]]

Rows(p) == {attempts[p][i] : i \in DOMAIN attempts[p]}

Due(p) ==
  {i \in DOMAIN attempts[p] : attempts[p][i].status = "scheduled" /\ attempts[p][i].at <= now}

Unanswered(p) == (DOMAIN presented[p]) \ DOMAIN answered[p]

AnswerDue(p, n) == n \in Unanswered(p) /\ presented[p][n].at + SettlementTime <= now

Init ==
  /\ now       = Start
  /\ status    = [p \in Payments |-> "absent"]
  /\ code      = [p \in Payments |-> NoCode]
  /\ class     = [p \in Payments |-> NotClassified]
  /\ failedAt  = [p \in Payments |-> NoTime]
  /\ attempts  = [p \in Payments |-> <<>>]
  /\ outbox    = {}
  /\ presented = [p \in Payments |-> <<>>]
  /\ answered  = [p \in Payments |-> <<>>]
  /\ reruns    = 0

-----------------------------------------------------------------------------
(* _record_dishonour: a closed payment is left alone, its code included. *)
(* Fault: a closed payment is opened again. *)
Reopened(p, c) ==
  /\ status' = [status EXCEPT ![p] = "failed"]
  /\ code' = [code EXCEPT ![p] = c]
  /\ failedAt' = [failedAt EXCEPT ![p] = now]
  /\ UNCHANGED class
Dishonoured(p, c) ==
  IF status[p] \in Closed THEN UNCHANGED rowVars
  ELSE /\ status' = [status EXCEPT ![p] = "failed"]
       /\ code' = [code EXCEPT ![p] = c]
       /\ failedAt' = [failedAt EXCEPT ![p] = now]
       /\ UNCHANGED class

(* The first presentation of a debit fails. *)
FirstDishonour(p, c) ==
  /\ status[p] = "absent"
  /\ Cardinality({q \in Payments : status[q] # "absent"}) < MaxFailed
  /\ Dishonoured(p, c)
  /\ UNCHANGED <<now, attempts, outbox, presented, answered, reruns>>

(* The bank answers the n-th presentation of p, never before it settles. *)
AnswerDishonour(p, n, c) ==
  /\ AnswerDue(p, n)
  /\ c \in Answers[code[p]]
  /\ Dishonoured(p, c)
  /\ answered' = [answered EXCEPT ![p] = Adding(@, n, c)]
  /\ UNCHANGED <<now, attempts, outbox, presented, reruns>>

(* _record_success: recovered, whatever the status was. *)
AnswerCleared(p, n) ==
  /\ AnswerDue(p, n)
  /\ status' = [status EXCEPT ![p] = "recovered"]
  /\ answered' = [answered EXCEPT ![p] = Adding(@, n, "cleared")]
  /\ UNCHANGED <<now, code, class, failedAt, attempts, outbox, presented, reruns>>

-----------------------------------------------------------------------------
(* _customer_context: only executed work counts, over all the payments. *)
Executed == UNION {{r \in Rows(p) : r.done # NoTime} : p \in Payments}

ExecutedRetries ==
  UNION {{p} \X {i \in DOMAIN attempts[p] : /\ attempts[p][i].action = "retry"
                                            /\ attempts[p][i].done # NoTime
                                            /\ attempts[p][i].done >= now - BudgetWindow} :
           p \in Payments}

LastContact ==
  LET times == {r.done : r \in {x \in Executed : x.action # "retry" /\ x.channel # "none"}}
  IN CHOOSE t \in times \cup {NoTime} : \A u \in times : u <= t

Customer ==
  [payday |-> Payday, used |-> Cardinality(ExecutedRetries), contact |-> LastContact]

(* One planned step is dropped per finished step of the same kind. *)
(* Fault: nothing is dropped, the whole ladder is planned again. *)
EveryStep(plan, history) == DOMAIN plan
StepsLeft(plan, history) ==
  {n \in DOMAIN plan :
     Cardinality({m \in 1..n : /\ plan[m].action = plan[n].action
                               /\ plan[m].channel = plan[n].channel})
       > Cardinality({i \in DOMAIN history : /\ history[i].action = plan[n].action
                                             /\ history[i].channel = plan[n].channel})}

(* Rows are written by id in time order, those without a time last: of a   *)
(* finished and a planned attempt with one id, the later in time remains.  *)
Kept(row, planned) == planned.at # NoTime /\ planned.at < row.at

(* Fault: an id that is in use is left alone, whatever the times are. *)
PersistedBeside(history, plan) ==
  LET left == StepsLeft(plan, history)
  IN [i \in DOMAIN history \cup left |->
        IF i \in DOMAIN history THEN history[i] ELSE Row(plan[i])]
Persisted(history, plan) ==
  LET left == StepsLeft(plan, history)
  IN [i \in DOMAIN history \cup left |->
        IF i \in DOMAIN history /\ (i \notin left \/ Kept(history[i], plan[i]))
        THEN history[i] ELSE Row(plan[i])]

History(rows) ==
  LET done == {i \in DOMAIN rows : rows[i].status \in Done} IN [i \in done |-> rows[i]]

Classified(p) ==
  /\ failedAt[p] # NoTime
  /\ class' = [class EXCEPT ![p] = Classify(code[p])]

(* run_recovery, committed with the plan that goes with the class. *)
Recover(p) ==
  /\ Classified(p)
  /\ attempts' = [attempts EXCEPT ![p] =
       Persisted(History(@), Plan([code |-> code[p], monthly |-> p \in Monthly],
                                  Customer, failedAt[p]))]
  /\ UNCHANGED <<now, status, code, failedAt, outbox, presented, answered>>

(* classify_unclassified: any payment the engine has not seen. *)
ClassifyNew(p) ==
  /\ class[p] = NotClassified
  /\ Recover(p)
  /\ UNCHANGED reruns

(* POST /payments/{id}/run-recovery on one it has. *)
RunAgain(p) ==
  /\ class[p] # NotClassified
  /\ reruns < MaxReruns
  /\ Recover(p)
  /\ reruns' = reruns + 1

-----------------------------------------------------------------------------
(* Fault: work is taken from every payment, open or not. *)
AnyPayment(p) == status[p] # "absent"
Workable(p) == status[p] \notin Closed

WriteOffs(p) == {i \in Due(p) : attempts[p][i].action = "write_off"}

(* Of the due attempts of one payment in time order, what runs: everything *)
(* up to its write-off; what shares its time may come before or after it.  *)
Taken(p, early) ==
  IF ~ Workable(p) THEN {}
  ELSE {i \in Due(p) :
          \A w \in WriteOffs(p) :
            i = w \/ attempts[p][i].at < attempts[p][w].at
              \/ (attempts[p][i].at = attempts[p][w].at /\ <<p, i>> \in early)}

Ties ==
  UNION {{p} \X {i \in Due(p) \ WriteOffs(p) :
                   \E w \in WriteOffs(p) : attempts[p][i].at = attempts[p][w].at} :
           p \in Payments}

RetriesOf(p, taken) == {i \in taken : attempts[p][i].action = "retry"}

(* The debits of one batch that Pinch accepts, in the order of their times. *)
Debits(p, taken, refused) ==
  LET retries == {i \in RetriesOf(p, taken) : <<p, i>> \notin refused}
      before(i) == Cardinality({j \in retries : attempts[p][j].at < attempts[p][i].at
                                  \/ (attempts[p][j].at = attempts[p][i].at /\ j < i)})
  IN [n \in 1..Cardinality(retries) |->
        [at |-> attempts[p][CHOOSE i \in retries : before(i) = n - 1].at,
         class |-> Classify(code[p])]]

(* A message row is written unless its id, the attempt's, has one already. *)
(* Fault: the id is that of the action, so an escalation is never sent.    *)
SentPerAction(p, taken) ==
  {[payment |-> p, id |-> i, action |-> attempts[p][i].action, at |-> attempts[p][i].at] :
     i \in {j \in taken : /\ attempts[p][j].channel # "none"
                          /\ \A m \in outbox :
                               ~ (m.payment = p /\ m.action = attempts[p][j].action)}}
Sent(p, taken) ==
  {[payment |-> p, id |-> i, action |-> attempts[p][i].action, at |-> attempts[p][i].at] :
     i \in {j \in taken : /\ attempts[p][j].channel # "none"
                          /\ \A m \in outbox : ~ (m.payment = p /\ m.id = j)}}

(* An executed row is dated by its schedule, not by when it was run. *)
Fired(p, i, refused) ==
  [attempts[p][i] EXCEPT !.status = IF <<p, i>> \in refused THEN "failed" ELSE "executed",
                         !.done = attempts[p][i].at]

(* execute_due: one batch over all payments, committed once. *)
ExecuteDue ==
  \E early \in SUBSET Ties :
    LET taken == [p \in Payments |-> Taken(p, early)] IN
    /\ \E p \in Payments : taken[p] # {}
    /\ \E refused \in SUBSET (UNION {{p} \X RetriesOf(p, taken[p]) : p \in Refusable}) :
         /\ attempts' = [p \in Payments |-> [i \in DOMAIN attempts[p] |->
              IF i \in taken[p] THEN Fired(p, i, refused) ELSE attempts[p][i]]]
         /\ presented' = [p \in Payments |-> presented[p] \o Debits(p, taken[p], refused)]
    /\ outbox' = outbox \cup UNION {Sent(p, taken[p]) : p \in Payments}
    /\ status' = [p \in Payments |->
         IF taken[p] \cap WriteOffs(p) # {} THEN "written_off" ELSE status[p]]
    /\ UNCHANGED <<now, code, class, failedAt, answered, reruns>>

-----------------------------------------------------------------------------
(* New bank details do not grant permission to debit these. *)
NotChargeable == {"payment_stopped", "authority_cancelled"}

(* update_payment_method on one payment: its first pending retry, or a new *)
(* row, is the debit that succeeded; what was still scheduled is skipped.  *)
(* Fault: the debit leaves no row of its own when no retry was pending. *)
Unrecorded(rows, used) ==
  [i \in DOMAIN rows |->
     IF i \in used THEN [rows[i] EXCEPT !.status = "succeeded", !.done = now]
     ELSE IF rows[i].status = "scheduled" THEN [rows[i] EXCEPT !.status = "skipped"]
     ELSE rows[i]]
Corrected(rows, used) ==
  LET skipped == [i \in DOMAIN rows |->
        IF i \in used THEN [rows[i] EXCEPT !.status = "succeeded", !.done = now]
        ELSE IF rows[i].status = "scheduled" THEN [rows[i] EXCEPT !.status = "skipped"]
        ELSE rows[i]]
  IN IF used = {}
     THEN Adding(skipped, Fix, [action |-> "retry", channel |-> "none", at |-> now,
                                status |-> "succeeded", done |-> now])
     ELSE skipped

FirstPendingRetry(rows) ==
  LET pending == {i \in DOMAIN rows : rows[i].action = "retry" /\ rows[i].status = "scheduled"}
  IN {i \in pending : \A j \in pending :
        rows[i].at < rows[j].at \/ (rows[i].at = rows[j].at /\ i <= j)}

UpdateDetails ==
  LET fixed == {p \in Payments : status[p] = "failed" /\ class[p] \notin NotChargeable} IN
  /\ fixed # {}
  /\ attempts' = [p \in Payments |->
       IF p \in fixed THEN Corrected(attempts[p], FirstPendingRetry(attempts[p]))
       ELSE attempts[p]]
  /\ status' = [p \in Payments |-> IF p \in fixed THEN "recovered" ELSE status[p]]
  /\ UNCHANGED <<now, code, class, failedAt, outbox, presented, answered, reruns>>

-----------------------------------------------------------------------------
(* The instants at which something falls due. *)
Moments ==
  UNION {{r.at : r \in {x \in Rows(p) : x.status = "scheduled"}} \cup
         {presented[p][n].at + SettlementTime : n \in Unanswered(p)} : p \in Payments}

(* Time passes, or the clock is moved: to the next moment or past several. *)
Advance(t) ==
  /\ t > now
  /\ now' = t
  /\ UNCHANGED <<rowVars, attempts, outbox, presented, answered, reruns>>

Next ==
  \/ \E p \in Payments, c \in Codes : FirstDishonour(p, c)
  \/ \E p \in Payments : \E n \in DOMAIN presented[p] :
       AnswerCleared(p, n) \/ \E c \in Codes : AnswerDishonour(p, n, c)
  \/ \E p \in Payments : ClassifyNew(p) \/ RunAgain(p)
  \/ ExecuteDue
  \/ UpdateDetails
  \/ \E t \in Moments : Advance(t)

Spec == Init /\ [][Next]_vars

(* The poller runs what is due, at every tick, and the clock goes on.  That *)
(* a failure is ever handed to the engine is not assumed: the code does it *)
(* when a page is viewed, or when a live tick has ingested something.      *)
FairSpec ==
  /\ Spec
  /\ WF_vars(ExecuteDue)
  /\ WF_vars(\E t \in Moments : Advance(t))

-----------------------------------------------------------------------------
AttemptRow ==
  [action : {"retry", "request_details_update", "offer_split", "save_offer",
             "notify_human", "write_off"},
   channel : {"none", "email", "sms"},
   at : Nat, status : Done \cup {"scheduled", "skipped"}, done : Nat]

(* Types of the rows; an attempt without a time is never pending. *)
TypeOK ==
  /\ now \in Nat
  /\ status \in [Payments -> {"absent", "failed"} \cup Closed]
  /\ code \in [Payments -> Codes \cup {NoCode}]
  /\ class \in [Payments -> DOMAIN StrategyTable \cup {NotClassified}]
  /\ failedAt \in [Payments -> Nat]
  /\ \A p \in Payments : \A r \in Rows(p) :
       r \in AttemptRow /\ (r.status # "skipped" => r.at # NoTime)
  /\ reruns \in 0..MaxReruns

(* A file that is closed is never worked on again: no debit is presented,  *)
(* no message written, and only money that cleared late changes its        *)
(* status.  Answers keep arriving for days after the write-off.            *)
ClosedStaysClosed ==
  [][\A p \in Payments : status[p] \in Closed =>
       /\ status'[p] = status[p] \/ (status'[p] = "recovered" /\ answered'[p] # answered[p])
       /\ presented'[p] = presented[p]
       /\ {m \in outbox' : m.payment = p} = {m \in outbox : m.payment = p}]_vars

(* Money counted as recovered has a cleared debit behind it, or the one    *)
(* the customer's new details were charged with (until recovery is run     *)
(* again, which can write over that row).                                  *)
RecoveredHasEvidence ==
  \A p \in Payments : status[p] = "recovered" /\ reruns = 0 =>
    \/ \E n \in DOMAIN answered[p] : answered[p][n] = "cleared"
    \/ \E r \in Rows(p) : r.status = "succeeded"

(* Repository.run_recovery: what already happened is a fact, no plan ever  *)
(* rewrites a finished attempt.                                            *)
HistoryIsKept ==
  [][\A p \in Payments : \A i \in DOMAIN attempts[p] :
       attempts[p][i].status \in Done =>
         /\ i \in DOMAIN attempts'[p]
         /\ attempts'[p][i] = attempts[p][i]]_vars

(* An executed message attempt has written its message, and every message  *)
(* is one an executed attempt stands for: none is lost, none invented      *)
(* (until recovery is run again).                                          *)
MessagesMatchAttempts ==
  reruns = 0 => \A p \in Payments :
    {<<i, attempts[p][i].action>> : i \in {j \in DOMAIN attempts[p] :
        attempts[p][j].status = "executed" /\ attempts[p][j].channel # "none"}}
      = {<<m.id, m.action>> : m \in {x \in outbox : x.payment = p}}

(* The reasons the bank has given for p, as classes. *)
ClassesGiven(p) ==
  {presented[p][n].class : n \in DOMAIN presented[p]} \cup
  {Classify(answered[p][n]) : n \in {m \in DOMAIN answered[p] : answered[p][m] # "cleared"}}

(* strategies.yaml: max_attempts bounds the retries of a payment, however  *)
(* often it fails again for that reason, and when recovery is run again on *)
(* what is left of its budget.  Run a second time it may meet the rows the *)
(* first has written over: those retries are debits, and count no more.    *)
MaxAttemptsIsKept ==
  reruns <= 1 =>
    \A p \in Payments :
      class[p] # NotClassified /\ ClassesGiven(p) \subseteq {class[p]} =>
        Len(presented[p]) <= StrategyTable[class[p]].max

(* An open file always has its write-off ahead of it, no further from the  *)
(* last failure than the longest horizon: failing again, running recovery  *)
(* again, refusals and new reasons never leave one that nothing can close. *)
(* A monthly debit is excepted once recovery was run again: with a horizon *)
(* that is then shorter, the write-off can be due before an executed retry *)
(* that has its id, and the row of that retry is the one that remains.     *)
OpenFileHasItsEnd ==
  \A p \in Payments :
    status[p] = "failed" /\ class[p] # NotClassified /\ (p \in Monthly => reruns = 0) =>
      \E r \in Rows(p) : /\ r.action = "write_off" /\ r.status = "scheduled"
                         /\ r.at <= failedAt[p] + MonthlyWriteOffAfter

(* Hard failures are never retried: no debit is presented while the last   *)
(* answer of the bank is a hard one.                                       *)
HardNeverPresented ==
  \A p \in Payments : \A n \in DOMAIN presented[p] :
    presented[p][n].class \notin HardFailures

(* Every failed payment that the engine has seen is recovered or written    *)
(* off in the end, however it is answered, refused and planned for.  Out   *)
(* is a monthly debit once recovery was run again: there the write-off can *)
(* be lost (see OpenFileHasItsEnd), and nothing else closes the file.      *)
EveryFileCloses ==
  \A p \in Payments :
    status[p] = "failed" /\ class[p] # NotClassified
      ~> status[p] \in Closed \/ (p \in Monthly /\ reruns > 0)

(* The ledger keeps what FileLifecycle promises, whatever is planned.      *)
Lifecycle ==
  INSTANCE FileLifecycle WITH
    file <- [p \in Payments |->
               IF status[p] = "failed" THEN "open"
               ELSE IF status[p] = "recovered" THEN "paid"
               ELSE IF status[p] = "written_off" THEN "lost" ELSE "absent"],
    inFlight <- [p \in Payments |-> Cardinality(Unanswered(p))]

KeepsFileLifecycle == Lifecycle!Spec
=============================================================================
