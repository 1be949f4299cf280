------------------------------ MODULE DueWork ------------------------------
(***************************************************************************)
(* Repository.execute_due, statement by statement, over the attempts of    *)
(* one payment: the poller thread and the requests that drain run it in    *)
(* sessions of their own, while the customer's new details and the bank's  *)
(* answers change the same rows in theirs.                                 *)
(*                                                                         *)
(* Postgres at READ COMMITTED, sessions with autoflush off: a worker locks *)
(* the attempts it selects and skips locked ones, reads the payment once,  *)
(* without a lock, and writes everything when it commits, payments before  *)
(* attempts.  A debit is presented in a transaction of the client's own.   *)
(***************************************************************************)
EXTENDS Naturals, FiniteSets

CONSTANTS Attempts, Workers,
          Kind,         \* each attempt's action: "retry", "write_off" or "other"
          Time,         \* each attempt's scheduled_for
          Settlement,   \* how long the bank takes to answer a debit
          Nobody,
          LastTime,     \* bound: where the clock stops
          MaxRequests,  \* bound: requests of the customer
          MaxCrashes    \* bound: workers that fail between two steps

ASSUME DueWorkAssumption ==
  /\ Kind \in [Attempts -> {"retry", "write_off", "other"}]
  /\ Time \in [Attempts -> Nat]
  /\ Nobody \notin Workers
  /\ Settlement \in Nat /\ LastTime \in Nat /\ MaxRequests \in Nat /\ MaxCrashes \in Nat

VARIABLES clock,
          pay,       \* payments.status, as committed
          row,       \* attempts.status, as committed
          owner,     \* the worker that holds each attempt's row lock
          payLock,   \* whether the customer's session holds the payment's row lock
          todo,      \* the attempts each worker has selected and not looked at
          seen,      \* payments.status in each worker's session
          mine,      \* each worker's statuses to be written at commit
          presenting,\* the retries each worker is handing to Pinch
          debits,    \* history: how often each retry was presented
          answers,   \* how many of these debits are answered
          clerk,     \* the session of a settlement: the status it read
          details,   \* the customer's session: "idle", "read", "writing"
          pending,   \* the attempts it read as scheduled
          requests, crashes,
          lost       \* history: batches that were rolled back

workerVars == <<owner, todo, seen, mine, presenting>>
bankVars   == <<debits, answers>>
userVars   == <<payLock, details, pending, requests>>
vars == <<clock, pay, row, workerVars, bankVars, clerk, userVars, crashes, lost>>

Closed == {"recovered", "written_off"}

Init ==
  /\ clock = 0
  /\ pay = "failed"
  /\ row = [a \in Attempts |-> "scheduled"]
  /\ owner = [a \in Attempts |-> Nobody]
  /\ payLock = FALSE
  /\ todo = [w \in Workers |-> {}]
  /\ seen = [w \in Workers |-> "unread"]
  /\ mine = [w \in Workers |-> [a \in Attempts |-> "none"]]
  /\ presenting = [w \in Workers |-> {}]
  /\ debits = [a \in Attempts |-> 0]
  /\ answers = [a \in Attempts |-> 0]
  /\ clerk = "idle"
  /\ details = "idle"
  /\ pending = {}
  /\ requests = 0
  /\ crashes = 0
  /\ lost = 0

-----------------------------------------------------------------------------
Batch(w) == {a \in Attempts : owner[a] = w}

Idle(w) == Batch(w) = {}

(* Due, on an open payment. *)
Ripe(a) == row[a] = "scheduled" /\ Time[a] <= clock /\ pay \notin Closed

(* Rows the customer's session is writing, or is next in line for. *)
Taken(a) == details = "writing" /\ a \in pending

(* SELECT ... FOR UPDATE OF attempts SKIP LOCKED. *)
(* Fault: a plain SELECT, which takes no notice of locks. *)
Selected == {a \in Attempts : Ripe(a)}
Claimable == {a \in Attempts : Ripe(a) /\ owner[a] = Nobody /\ ~ Taken(a)}

Claim(w) ==
  /\ Idle(w)
  /\ Claimable # {}
  /\ todo' = [todo EXCEPT ![w] = Claimable]
  /\ owner' = [a \in Attempts |-> IF a \in Claimable THEN w ELSE owner[a]]
  /\ UNCHANGED <<clock, pay, row, seen, mine, presenting, bankVars, clerk, userVars,
                 crashes, lost>>

(* order_by(scheduled_for); _load reads the payment for the first attempt  *)
(* and finds it in the session from then on.                               *)
Earliest(w) == {a \in todo[w] : \A b \in todo[w] : Time[a] <= Time[b]}

Loaded(w) == IF seen[w] = "unread" THEN pay ELSE seen[w]

Ready(w) == ~ Idle(w) /\ presenting[w] = {}

(* The file was closed, in this batch or before: nothing behind it fires. *)
PassOver(w, a) ==
  /\ Loaded(w) \in Closed
  /\ UNCHANGED <<mine, presenting>>
  /\ seen' = [seen EXCEPT ![w] = Loaded(w)]

WriteOff(w, a) ==
  /\ Loaded(w) \notin Closed
  /\ Kind[a] = "write_off"
  /\ mine' = [mine EXCEPT ![w][a] = "executed"]
  /\ seen' = [seen EXCEPT ![w] = "written_off"]
  /\ UNCHANGED presenting

(* A message or a note to a human. *)
Carry(w, a) ==
  /\ Loaded(w) \notin Closed
  /\ Kind[a] = "other"
  /\ mine' = [mine EXCEPT ![w][a] = "executed"]
  /\ seen' = [seen EXCEPT ![w] = Loaded(w)]
  /\ UNCHANGED presenting

(* retry_payment: its first session looks the payment up and refuses a     *)
(* recovered one.                                                          *)
CheckRetry(w, a) ==
  /\ Loaded(w) \notin Closed
  /\ Kind[a] = "retry"
  /\ IF pay = "recovered"
     THEN /\ mine' = [mine EXCEPT ![w][a] = "failed"]
          /\ UNCHANGED presenting
     ELSE /\ presenting' = [presenting EXCEPT ![w] = {a}]
          /\ UNCHANGED mine
  /\ seen' = [seen EXCEPT ![w] = Loaded(w)]

Handle(w) ==
  /\ Ready(w)
  /\ \E a \in Earliest(w) :
       /\ todo' = [todo EXCEPT ![w] = @ \ {a}]
       /\ PassOver(w, a) \/ WriteOff(w, a) \/ Carry(w, a) \/ CheckRetry(w, a)
  /\ UNCHANGED <<clock, pay, row, owner, bankVars, clerk, userVars, crashes, lost>>

(* Its second session queues the settlement, and commits by itself. *)
Submit(w) ==
  \E a \in presenting[w] :
    /\ debits' = [debits EXCEPT ![a] = @ + 1]
    /\ mine' = [mine EXCEPT ![w][a] = "executed"]
    /\ presenting' = [presenting EXCEPT ![w] = {}]
    /\ UNCHANGED <<clock, pay, row, owner, todo, seen, answers, clerk, userVars,
                   crashes, lost>>

ClosesFile(w) == \E a \in Attempts : mine[w][a] # "none" /\ Kind[a] = "write_off"

(* The end of w's transaction: its locks go, its session with them. *)
(* Fault: rolled back, but the locks are kept. *)
Hang(w) ==
  /\ todo' = [todo EXCEPT ![w] = {}]
  /\ seen' = [seen EXCEPT ![w] = "unread"]
  /\ mine' = [mine EXCEPT ![w] = [a \in Attempts |-> "none"]]
  /\ presenting' = [presenting EXCEPT ![w] = {}]
  /\ UNCHANGED owner
End(w) ==
  /\ owner' = [a \in Attempts |-> IF owner[a] = w THEN Nobody ELSE owner[a]]
  /\ todo' = [todo EXCEPT ![w] = {}]
  /\ seen' = [seen EXCEPT ![w] = "unread"]
  /\ mine' = [mine EXCEPT ![w] = [a \in Attempts |-> "none"]]
  /\ presenting' = [presenting EXCEPT ![w] = {}]

(* What w's commit leaves in a row. *)
(* Fault: every attempt is written, decided or not. *)
WrittenBlind(w, a) == mine[w][a]
(* Fault: what ran before the write-off of its batch is not written. *)
WrittenIfOpen(w, a) ==
  IF mine[w][a] = "none" \/ (ClosesFile(w) /\ Kind[a] # "write_off")
  THEN row[a] ELSE mine[w][a]
Written(w, a) == IF mine[w][a] = "none" THEN row[a] ELSE mine[w][a]

(* A write-off waits for the payment's row; the attempts are locked before. *)
Commit(w) ==
  /\ Ready(w) /\ todo[w] = {}
  /\ ClosesFile(w) => ~ payLock
  /\ row' = [a \in Attempts |-> Written(w, a)]
  /\ pay' = IF ClosesFile(w) THEN "written_off" ELSE pay
  /\ End(w)
  /\ UNCHANGED <<clock, bankVars, clerk, userVars, crashes, lost>>

RollBack(w) ==
  /\ End(w)
  /\ lost' = lost + 1
  /\ UNCHANGED <<clock, pay, row, bankVars, clerk, userVars>>

(* The process stops, the database goes away, the client raises. *)
Crash(w) ==
  /\ ~ Idle(w) /\ crashes < MaxCrashes
  /\ crashes' = crashes + 1
  /\ RollBack(w)

-----------------------------------------------------------------------------
(* update_payment_method, for a payment that may be charged: it reads the  *)
(* open payment and its attempts, without locks.                           *)
ReadOpen ==
  /\ details = "idle" /\ requests < MaxRequests
  /\ pay = "failed"
  /\ details' = "read"
  /\ pending' = {a \in Attempts : row[a] = "scheduled"}
  /\ requests' = requests + 1
  /\ UNCHANGED <<clock, pay, row, workerVars, bankVars, clerk, payLock, crashes, lost>>

(* Its flush writes the payment first ... *)
LockPayment ==
  /\ details = "read" /\ ~ payLock
  /\ details' = "writing" /\ payLock' = TRUE
  /\ UNCHANGED <<clock, pay, row, workerVars, bankVars, clerk, pending, requests,
                 crashes, lost>>

(* ... and then the attempts it read as scheduled, for whose locks it      *)
(* waits: the first retry as the debit that succeeded, the rest as skipped.*)
FirstRetry ==
  {a \in pending : /\ Kind[a] = "retry"
                   /\ \A b \in pending : Kind[b] = "retry" => Time[a] <= Time[b]}

WriteRows ==
  /\ details = "writing"
  /\ \A a \in pending : owner[a] = Nobody
  /\ \/ FirstRetry = {} /\ row' = [a \in Attempts |-> IF a \in pending THEN "skipped" ELSE row[a]]
     \/ \E r \in FirstRetry :
          row' = [a \in Attempts |-> IF a = r THEN "succeeded"
                                     ELSE IF a \in pending THEN "skipped" ELSE row[a]]
  /\ pay' = "recovered"
  /\ details' = "idle" /\ payLock' = FALSE /\ pending' = {}
  /\ UNCHANGED <<clock, workerVars, bankVars, clerk, requests, crashes, lost>>

(* A worker waits for the payment's row, the customer's session for an     *)
(* attempt of the worker's: Postgres ends one of the two.                  *)
Deadlocked(w) ==
  /\ details = "writing" /\ \E a \in pending : owner[a] = w
  /\ Ready(w) /\ todo[w] = {} /\ ClosesFile(w)

WorkerIsVictim(w) ==
  /\ Deadlocked(w)
  /\ RollBack(w)
  /\ UNCHANGED crashes

CustomerIsVictim(w) ==
  /\ Deadlocked(w)
  /\ details' = "idle" /\ payLock' = FALSE /\ pending' = {}
  /\ UNCHANGED <<clock, pay, row, workerVars, bankVars, clerk, requests, crashes, lost>>

-----------------------------------------------------------------------------
(* The bank's answers, dated from the scheduled time whenever the debit    *)
(* was presented, each in the ingesting session: a dishonour leaves the    *)
(* status as it is; a cleared debit makes it recovered, unless the session *)
(* read that already: then there is no change to write.                    *)
Answerable ==
  {a \in Attempts : answers[a] < debits[a] /\ Time[a] + Settlement <= clock}

Dishonour(a) ==
  /\ a \in Answerable
  /\ answers' = [answers EXCEPT ![a] = @ + 1]
  /\ UNCHANGED <<clock, pay, row, workerVars, debits, clerk, userVars, crashes, lost>>

ReadCleared(a) ==
  /\ a \in Answerable /\ clerk = "idle"
  /\ clerk' = pay
  /\ answers' = [answers EXCEPT ![a] = @ + 1]
  /\ UNCHANGED <<clock, pay, row, workerVars, debits, userVars, crashes, lost>>

RecordCleared ==
  /\ clerk # "idle" /\ ~ payLock
  /\ pay' = IF clerk = "recovered" THEN pay ELSE "recovered"
  /\ clerk' = "idle"
  /\ UNCHANGED <<clock, row, workerVars, bankVars, userVars, crashes, lost>>

Tick ==
  /\ clock < LastTime
  /\ clock' = clock + 1
  /\ UNCHANGED <<pay, row, workerVars, bankVars, clerk, userVars, crashes, lost>>

-----------------------------------------------------------------------------
Work(w) == Handle(w) \/ Submit(w) \/ Commit(w)

Victim(w) == WorkerIsVictim(w) \/ CustomerIsVictim(w)

Next ==
  \/ \E w \in Workers : Claim(w) \/ Work(w) \/ Crash(w) \/ Victim(w)
  \/ ReadOpen \/ LockPayment \/ WriteRows
  \/ \E a \in Attempts : Dishonour(a) \/ ReadCleared(a)
  \/ RecordCleared
  \/ Tick

Spec == Init /\ [][Next]_vars

(* A worker that may go on does, the poller asks again on every tick, and  *)
(* a waiting session is woken or ended by the database.                    *)
FairSpec ==
  /\ Spec
  /\ \A w \in Workers : WF_vars(Claim(w)) /\ WF_vars(Work(w)) /\ WF_vars(Victim(w))
  /\ WF_vars(LockPayment) /\ WF_vars(WriteRows) /\ WF_vars(RecordCleared)

-----------------------------------------------------------------------------
RowStatus == {"scheduled", "executed", "failed", "succeeded", "skipped"}

(* Types of the tables and of the sessions' private state. *)
TypeOK ==
  /\ clock \in Nat
  /\ pay \in {"failed"} \cup Closed
  /\ row \in [Attempts -> RowStatus]
  /\ owner \in [Attempts -> Workers \cup {Nobody}]
  /\ payLock \in BOOLEAN
  /\ todo \in [Workers -> SUBSET Attempts]
  /\ seen \in [Workers -> {"unread", "failed"} \cup Closed]
  /\ mine \in [Workers -> [Attempts -> {"none", "executed", "failed"}]]
  /\ presenting \in [Workers -> SUBSET Attempts]
  /\ debits \in [Attempts -> Nat]
  /\ answers \in [Attempts -> Nat]
  /\ clerk \in {"idle", "failed"} \cup Closed
  /\ details \in {"idle", "read", "writing"}
  /\ pending \in SUBSET Attempts
  /\ requests \in 0..MaxRequests /\ crashes \in 0..MaxCrashes /\ lost \in Nat

(* A worker looks at, presents and decides only on rows it has locked and  *)
(* that are still to be done: another session's commit never pulls a row   *)
(* out from under it.                                                      *)
WorksOnLockedRows ==
  \A w \in Workers : \A a \in Attempts :
    a \in todo[w] \cup presenting[w] \/ mine[w][a] # "none" =>
      owner[a] = w /\ row[a] = "scheduled"

(* However many workers run at once, a scheduled retry is one debit: a     *)
(* second one is presented only when a batch that had presented it was     *)
(* rolled back.                                                            *)
PresentedOnce == \A a \in Attempts : debits[a] <= 1 + lost

(* A debit the bank was handed is never again work to do: outside of a     *)
(* running batch its attempt has left "scheduled", unless one was rolled   *)
(* back.                                                                   *)
PresentedIsRecorded ==
  \A a \in Attempts :
    debits[a] > 0 /\ owner[a] = Nobody /\ lost = 0 => row[a] # "scheduled"

(* What is due is done, or the file is closed: no lock, no skipped row, no *)
(* deadlock leaves an attempt behind.                                      *)
DueWorkIsDone ==
  \A a \in Attempts : Ripe(a) ~> ~ Ripe(a)

(* strategy_engine.py, apply_plan: recovered is terminal; money once       *)
(* recorded as received is never written off.                              *)
RecoveredIsTerminal == [][pay = "recovered" => pay' = "recovered"]_vars
=============================================================================
