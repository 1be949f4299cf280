# Verification of the Pinch recovery engine

TLA+ models of the recovery engine in `src/backend/app`, the TLC runs that check
them on small instances, and theorems about them checked by TLAPS.

## 1. The system

A customer's direct debit fails. Pinch reports it in a `bank-results` event; the
engine records the failure, decides what to do (retry on a day the account may
have money, write to the customer, hand over to a human, write off), executes
the actions when they fall due and learns the outcome from further events. It is
a FastAPI process on one Postgres database at READ COMMITTED, with one daemon
thread; HTTP requests and the thread each use their own session.

| part | state it keeps | operations | who calls it | what must hold |
|---|---|---|---|---|
| webhook ingestion (`api/webhooks.py`) | `webhook_events`, `payments`, `customers` | `POST /webhooks/pinch` | Pinch's push, the event poll, the simulator's queue, all in parallel | once per event id; a batch is all or nothing; money reported cleared stays cleared |
| strategy engine (`services/strategy_engine.py`, `scheduler.py`, `classifier.py`, `strategies.yaml`) | none (pure) | `plan`, `classify` | the repository | never retry a hard failure, stay inside the retry budget and the message cap, nothing after the write-off |
| calendar (`core/holidays.py`, `services/scheduler.py`) | none (pure) | `next_payday`, `next_month_equivalent`, `business_day` | strategy engine, mock Pinch client | a retry never lands on a day banks are shut, and never earlier than asked |
| recovery repository (`services/repository.py`) | `payments`, `attempts` | classify, re-run recovery, execute due work, customer fixes details | requests, simulator, poller thread | what happened is not rewritten by a re-plan; a closed file stays closed |
| due-action poller (`services/scheduler.py`, `main.py`) | one thread | start, stop, tick | application lifespan | at most one poller; a failing tick does not end it |
| event poll (`services/event_ingest.py`, `api/pinch.py`) | none (re-reads the ledger) | poll | `main.py`, `POST /pinch/poll` | no event is missed; order by event date |
| Pinch client, mock and live (`services/pinch_client.py`) | own short sessions; the Pinch ids on `customers`; live token cache | retry, update method, create payment, list events | repository, event poll | a presentation is never sent twice; a debit charges the payer of the customer it is for |
| simulator (`sim/`) | `sim_pending_webhooks`, process-global clock offset | create scenario, deliver due, fast-forward, drain, reset | demo UI | the same seed tells the same story however it is driven |
| outbox and copy (`services/outbox.py`, `reasoning.py`) | `outbox_messages` | record a message | repository, web UI | a message is sent once |
| read API and pages (`api/payments.py`, `routers/`, `web/`) | none (the cursor is the client's) | list, show, buttons | browser | keyset pages neither repeat nor lose rows |
| demo data (`sim/seed.py`) | none (writes every table, and dates back what ingestion dated) | seed, reset | demo UI | the dashboard opens on a plausible month |

How they interact. Ingestion only records (`failure_class` stays NULL);
classification and planning happen on a later call to the repository. The
repository writes `attempts`; the poller, the clock buttons and the drain execute
those that are due, calling the Pinch client, which queues a settlement event in
the simulator (mock) or creates a payment at Pinch (live); the answer returns
through ingestion. The three writers of a payment's status (ingestion, due work,
the customer's details update) share nothing but the rows. The live client keeps
Pinch's ids for a customer in `customers`, reads them before a series of requests
and writes them after the last.

What is hard here: the same event in two sessions at once, sessions that act on
rows another one is changing, work that commits in a session of its own before
its caller does, re-planning over a history that has moved on, a clock that jumps,
and the arithmetic of dates (month ends, Easter, half-day offsets between UTC and
AEST).

## 2. Plan

The order is by importance: what records money first, then what spends it.

Done:

1. `SettlementLedger` and `WebhookLedger`: ingestion; proved, refinement included.
2. `Calendar`, `StrategyEngine`: the pure algorithms with the values of
   `strategies.yaml`, checked on enumerated inputs; every property proved.
3. `RecoveryLedger`, refining `FileLifecycle`: payments and their attempts through
   classification, due work, re-planning, corrected details and settlements;
   proved, refinement included.
4. `DueWork`: `execute_due` in several workers against the details update and the
   settlements, with row locks and the mock client's own transactions; proved.
5. `SimReplay`: the clock, the queue and the replay of a leap beside the poller's
   batches, real time, failures and restarts; proved.
6. `LiveLoop`: the tick of the poller with the real Pinch, the event poll and the
   nonce of a retry; the debit per retry and the end of the loop are proved.
7. `Pages`: the keyset pages of `api/payments.py` while rows move under them; proved.
8. `PayerAccounts`: the live client's payers, sources and debits, request by
   request, and the customers under which their results are recorded; proved.

To come, in this order: two replays, or a reset during one, in `SimReplay`;
`run_recovery` as a session of `DueWork`; the live token cache.

## 3. Modules and the code

| module | models | state | actions |
|---|---|---|---|
| `SettlementLedger` | what ingestion promises: a batch is recorded once and whole | `ledger` = `webhook_events`, `status` = `payments.status` | `Settle(e)` = one accepted event |
| `WebhookLedger` | `POST /webhooks/pinch` over concurrent sessions | the committed tables, and for each session its place in the handler, the customers it has flushed, the statuses it loaded (`base`) and decided (`view`) | one per step that another session can see or come between: claim of the event id, entry, flush of a customer, commit, each error path, deadlock, loss of the process |
| `Calendar` | `core/holidays.py`, date helpers of `services/scheduler.py`, and Python's dates | none | operators |
| `StrategyEngine` | `services/strategy_engine.py`, `classifier.py`, `strategies.yaml` | none | `Plan`, `Classify` |
| `RecoveryLedger` | `services/repository.py`, each call whole | the clock, `payments`, `attempts`, `outbox_messages`; history: debits and answers | `FirstDishonour`, `AnswerDishonour`, `AnswerCleared` (ingestion), `ClassifyNew`, `RunAgain`, `ExecuteDue`, `UpdateDetails`, `Advance` |
| `FileLifecycle` | what the ledger promises of a file | open, paid, lost; debits in flight | open, work, answer, correct |
| `DueWork` | `execute_due` statement by statement over one payment | rows, row locks, each worker's session, the customer's session, the session of a settlement | claim, handle one attempt, present, commit, roll back; read, lock, write; deadlock victims; tick |
| `SimReplay` | `sim/service.py`, `core/clock.py` | offset, queue, ledger, one file's rows, each request's variables, each batch claimed and not committed | start, select, deliver, mark, hop, land, return; `execute_due`, by the request or the poller: claim, handle one attempt, commit; a request that creates a scenario meanwhile; a request or batch that fails, real time, restart |
| `LiveLoop` | `main.py`, `DueActionPoller`, `event_ingest.py`, `LivePinchClient.retry_payment` | debits and events at Pinch, the tables, the tick's place | the tick step by step with each way a request can fail, push, page view, start, stop, kill |
| `Pages` | `GET /api/v1/payments` and its walk by cursor; the writes of `payments` that move a row in it | the clock, the table, the client's walk and cursor; history: how often each row was shown, which rows moved | `GetPage`, `StartOver`; `Dishonour`, `Clear` (ingestion), `WriteOff`, `Backdate` (seed, all its rows at one commit), `Truncate` (reset), `SetClock` |
| `PayerAccounts` | `LivePinchClient` request by request, and what ingestion keeps of a debit's payer | `customers` with their Pinch ids, the payment rows' customers, each call's loaded copy; at Pinch payers, sources, debits | `BeginTest`, `BeginUpdate`, `BeginRetry`, `PostPayer`, `PostSource`, `PostPayment`, `Commit` (changed columns only), `Stop` (at any request), `Ingest` |

How to read them against the code:

- A step of a model is what lies between two points at which another session,
  thread or the bank can come in: a database statement that locks or waits, a
  commit, an HTTP request. `RecoveryLedger` takes a whole call as a step, since
  its questions are about sequences of calls; `DueWork` opens `execute_due` and
  `update_payment_method` up, `SimReplay`, `LiveLoop` and `PayerAccounts` their own
  subject. A page of `Pages` is one query, hence one step.
- Sessions are READ COMMITTED with autoflush off: rows are read when the code
  first gets them and then found in the session's identity map, and only columns
  that differ from what was read are written at commit.
- Times are whole hours (`Calendar`, `StrategyEngine`, `RecoveryLedger`) or small
  numbers that keep the order of instants (`DueWork`, `SimReplay`, `Pages`).
- Names preceded by "Fault:" are forms a bug would give the definition below
  them. No specification uses them; each shows that a property can fail.

## 4. What the runs check

Runs that pass:

| run | states | question and instance |
|---|---|---|
| `webhook_ledger` | 35,974 | Two sessions, four events over two payments and two customers, one event malformed and one that ends with an entry without a payer, one loss of a session, from every database such batches can meet. The batches name the payments in crossing order, one repeats a payment: overlaps on the event id, on a payment and on a new customer all happen, deadlock included. The entry without a payer is taken where its payment has a row and fails the whole batch where it has none, which `EveryEventRecorded` excepts. Two sessions suffice for every conflict of pairs; the proofs cover any number. |
| `plans` | 102,234 | The calendar every 11 hours from 2000 to 2027, so every hour of the day on every kind of date; 28 years are the whole cycle of weekdays and leap years, and 2000 is a year whose Easter runs into Anzac Day. The computus is compared with a table of paschal moons for 1916 to 2195. Beside it, plans for a failure every 79 hours of four years, for one code of each class and an unknown one, small and monthly debits, with or without a payday, for a budget unused, with three, two and one retries left and spent, and a last message absent, before or after the failure. |
| `recovery` | 794,282 | One debit, either small or monthly, from its failure, before Australia Day, to the end of its file, with the real plans for four classes of codes, any answers, late ones included, refusals, new details at any time, any leap of the clock, and recovery run again once at any moment. |
| `due_work` | 99,687 | Two workers, one details update and the bank over a message, two retries and a write-off that is due with the second retry; one crash. |
| `sim_replay` | 4,977,178 | Leaps of 12 or 24 over two retries, a write-off, a failure delivered twice, and a scenario created at any moment to be delivered now or later; three minds of the bank, in which one retry clears, or the second does if it is counted as a first; and one upset: a unit of real time, a request or a batch that fails, or a restart. The poller claims, handles and commits its batches between any two steps of the others. The second retry, the write-off and the answer to the first retry all fall on one moment, 12, and what is due together comes in either order. Four steps are allowed to a replay, one less than the moments there may be. Real time, the correction at the end of a replay, the step cap, a restart (which gives back the machine's time) and a hop past rows the poller has in hand can carry the clock over a moment; a poller that claims at a moment whose answer would recover the file, and is still undelivered, comes too early to it. Stories in which that happened have `slipped`: `LedgerIsOfItsTime` and the first half of `SettledOnReturn` except them, the rest is said of all. |
| `live_loop` | 32,432 | One debit that fails and its retry, three debits at Pinch altogether, pages of two events, one event that cannot be parsed or one that has no payer, two starts of the process; every request may be refused, break or be answered too late. |
| `pages` | 1,646,882 | Every table of up to four rows, undated or dated at two moments, so that rows share a date and the id decides; pages of one and two rows, with and without a filter, and two writes or settings of the clock before, between and after them. Three pages and two writes are enough for a row to jump in front of the reader, behind, and back. |
| `payer_accounts` | 395,916 | Two local customers, two payers and two sources, three debits, two calls at a time, modulo symmetry: both calls may be the first of one customer, or of two customers with crossed results, and each may stop after any request. |

What they show: the concurrent handler implements atomic ingestion
(`ImplementsSettlement`); the repository keeps the life of a file
(`KeepsFileLifecycle`) and closes each one that was handed to the engine
(`EveryFileCloses`, with one exception below); a scheduled retry
is one debit unless a batch is rolled back (`PresentedOnce`) and, live, even then
(`RetryDebitedOnce`); the ledger after a replay is a function of simulated time
and not of the path to it (`LedgerIsOfItsTime`), what a request asks of the clock is
what it moves (`SettledOnReturn`); the poller survives its ticks (`TicksGoOn`) and
stops when told (`StopIsFinal`); a row no write moved is shown once, on whatever
page (`UntouchedOnce`); whatever calls are lost or overtaken, the row of a debit
belongs to the customer of the payer it charged, and a retry charges the payer of
its row's customer (`RowOwedByItsPayer`, `RetryChargesItsPayer`).

Where a property is said of less than all runs, it is because the code does not
promise more: `RecoveredHasEvidence` and `MessagesMatchAttempts` hold until recovery
is run again (`history_rewritten` shows what happens then), `MaxAttemptsIsKept`
while the bank gives codes of one class and recovery is run again at most once,
`LedgerIsOfItsTime` and the first half of `SettledOnReturn` while no moment was
passed without its work being done and the poller was not early, the latter but for
rows the poller had claimed when the request last looked, `OpenFileHasItsEnd` and
`EveryFileCloses` for a monthly debit until recovery is run again (and the second for
files that have their class), `ListedIngested` of events that have no payerless one
in front of them, `SubstitutesAreApart` outside the years in which
Christmas is a Sunday, `LongHorizonIsUsed` outside those in which Easter is on 23
April. Section 6 has each.

A type invariant is a property of the runs `webhook_ledger`, `due_work` and `pages`;
that of `PayerAccounts` is part of its proved invariant. `RecoveryLedger` proves
its own without a run; `SimReplay` and `LiveLoop` define theirs, of which the proofs
use what they need.

Four runs are violated, each by what the code does against what the repository
says of itself: `history_rewritten`, `hard_presented`, `recovered_overwritten`,
`settlement_lost`; see section 6.

Bounds. `MaxCrashes`, `MaxRequests`, `MaxFailed`, `MaxReruns`, `MaxUpsets`,
`MaxBoots`, `MaxOdd`, `MaxDebits`, `MaxRetries`, `MaxChanges`, `MaxTime`, `LastTime` and `Horizon` cap what has no bound in the
code, in guards of the actions they name. Deadlock is not checked where the story
ends (a closed file, the last year, a horizon, no debit left); in `webhook_ledger`, where senders
may always deliver again, it is.

Fairness.

- `WebhookLedger`: a session that can go on does (threads run); a session that
  waits for another's uncommitted key is woken when that one ends (Postgres); an
  event without a 200 is delivered again while a session is free (Pinch retries,
  the poll lists it).
- `RecoveryLedger`: the poller executes what is due, and time goes on. Nobody is
  assumed to hand a new failure to the engine: a live tick does only when it has
  ingested something itself (`main.py:83-91`), otherwise it waits for a page view.
  `EveryFileCloses` speaks of files that have been.
- `DueWork`: a worker goes on, the poller comes again, the database wakes or ends
  waiting sessions. Nothing is assumed of the customer.
- `LiveLoop`: the thread runs and the seconds between polls pass; a request made
  again and again is answered in the end (strong fairness on polling ticks, the
  listing and each fetch). A tick in which the thread died would be a `Kill`, after
  which nothing is promised until the next start.
- `SimReplay`, `Pages` and `PayerAccounts` are checked for safety only: a replay runs
  in one request, a client may stop reading, and a call of the live client that
  stops is not made again by anyone.

## 5. What is proved

TLAPS checks 10386 obligations, for every value of the constants, from the named
assumptions of the modules alone.

**`WebhookLedgerProofs`**: for any events, batches, payments, customers and number
of sessions, `TypeCorrect`, `Idempotent`, `AckIsFinal`, `ClearedStaysCleared`,
`BatchIsWhole` and `Refinement` (`Spec => LedgerSpec`). The properties are not
inductive: that a batch takes effect once rests on what sessions hold before they
commit. The invariant adds to them

- `EmptyOutside`: a session outside the handler holds nothing;
- `HeldOnce`: an event id held by a session is not committed, and nobody else's;
- `AddingAtEntry`, `ViewsFollowBatch`: what a session has decided for a payment is
  what the entries up to its place say, from the status it loaded;
- `StaleOneWay`: a loaded status may be stale, but only in ways in which writing
  the decided one is still right. This is where it matters that `recovered` is
  never left, that a new row is inserted and not upserted, and that an unchanged
  column is not written.

**`DueWorkProofs`**: for any workers, attempts, schedule and crashes, `TypesHold`,
`RowsStayLocked`, `RetryPresentedOnce` and `DebitIsRecorded`. The invariant adds
`Undecided` (what a worker has still to look at it has not decided) and
`DebitsAccounted` (every debit but one is owed to a rolled-back batch, and that one
to a row that is written or a decision a running batch holds): without them a
worker could present an attempt another one had presented and not yet written.

**`PagesProofs`**: for any rows, filters, limits and changes, `PagesTypes`,
`PagesShowUntouchedOnce` and `PagesLeadOn`. The code compares a cursor in one form
(a disjunction of three cases) and sorts in another; the argument is that the two
are one order (`After` is what `SortsBefore` says of a row and a place), so a page
is a prefix of what lies ahead of the cursor, and what it leaves is what lies ahead
of its last row. The invariant: a row that has not been moved was shown once if
it lies at or behind the cursor and never if ahead.

**`PayerAccountsProofs`**: for any customers, payers, sources, debits and number of
calls, `RowsKeepTheirPayer` and `RetriesChargeTheirPayer`. The rows alone do not
carry it: a call writes back a copy of a customer that others may have changed
since. The invariant adds

- `KeyedByPayer`: a customer whose key is a payer's id has that payer and a source
  of that payer;
- `CallsOnPayers`: so has every copy of one that a call has loaded, whichever
  columns it will write;
- `CallsOnRows`: a call that retries holds the customer of its row, which by
  `RowsByPayer` is keyed by the payer that was debited; so the copy it charges from
  is one of those above.

The assumption it needs is that the id a caller gives a new customer is not one of
Pinch's payer ids.

**`StrategyEngineProofs`**: the calendar and the plans, for every hour of any years
the cache of holidays covers (1984 to 2031, with the moons of 1900 to 2199), any
steps of the walks, any codes, sizes, paydays, budgets and last messages
(`TriedPaydays`, `TriedBudgets`, `TriedContacts` are constants). All nine properties of the run `plans`
are proved: `RollEndsOnFirstOpenDay`, `PaydayMovesOn`, `MonthStepKeepsTheDay`,
`SubstitutesStayApart`, `EasterIsAfterTheMoon`, `RetriesAreOnOpenDays`,
`RetriesKeepTheirInterval`, `MessagesAreADayApart`, `LongHorizonIsNeeded`. The
invariant of a walk is small (`WalkInvHolds`); the arguments are in the lemmas:

- `SetInduction`: induction over the naturals for a set of them, from the
  well-foundedness of finite sets. `EarliestExists`, `LatestExists` and
  `StepwiseExists` follow from it: bounded sets of integers have ends, and a
  function defined step by step exists, so that the recursive retry dates
  (`RetryTimesStep`) and the walk over the messages (`ContactWalkStep`) are what
  their definitions say.
- `DateSplits`, `DateJoins`, `YearOfIsTheYear`: dates are years, months and days and
  back; `MonthStepIsAMonth` rests on them.
- `EasterFollowsMoon`: the computus is the Sunday after the moon of the table, for
  each golden number and both centuries; `ClosedDays`: among any days in a row that
  are closed there are at most four, or five around an Easter on 23 April
  (`ThreeInFive` does the weekdays), so a roll is near (`RollIsNear`) and the bound
  of fourteen days is never reached.
- `PlanHasParts`: a plan is its retries, its messages, its alerts and one write-off,
  nothing of it later than that. `RecoveryLedgerProofs` rests on this one.

**`RecoveryLedgerProofs`**: for any finitely many payments, any codes and answers,
any monthly and refusable debits and any number of runs, `TypesHold`,
`RecoveredIsEvidenced`, `MessagesAreOfAttempts`, `OpenFilesEnd`,
`ClosedFilesStayClosed`, `BudgetIsKept`, and `KeepsTheLifecycle`, that the ledger implements
`FileLifecycle`. The assumptions: the start is an instant of the calendar, and the
payday is a weekday or none. The invariant (`LedgerInvHolds`) adds, for each file,

- `Heard`: a payment that has not failed has no row, no class and no debit;
- `FixCloses`: before the class there is no row but that of the charge on new
  details, and that one closes the file. So the first plan meets no finished row,
  which is what makes messages and evidence last until recovery is run again;
- `EndIsAhead`: the write-off of an open file is not done, and without the long
  horizon no row is later than the short one. So of a finished row and the
  write-off planned again under its id the write-off is later, and remains
  (`MergedRows`);
- in `Types`, that executed rows are dated no later than the clock (the last contact
  exists) and rows without a channel are debits and write-offs (a refusal never
  costs a message).

That a debit has the time of a row needs the order of a batch: the ranks of
finitely many retries are all the numbers below theirs (`EveryRankIsTaken`).

`BudgetIsKept` needs an invariant of its own (`BudgetInv`): while the bank keeps to
one class, the debits made and the retries still ahead are within the budget
(`WithinBudget`), and until recovery is run again no debit is without its finished
row. A plan has no more retries than the budget, at its head (`PlanStartsWithLadder`);
one made over finished rows writes over the first of them and has as many fewer as
there are of them (`RetriesLeft`); a batch turns what was ahead into debits one for
one. After the first re-plan written-over rows no longer count, which is why the
second is not covered.

**`SimReplayProofs`**: for any attempts, requests, leaps, bounds and restarts,
`ReplaySwallowsNothing` (a delivery is ticked off only after its event is in the
ledger), `DriverGetsWhatItAsked` and `ReplaySettles` (with one request moving the
clock, the offset at rest is what was asked for, and a request returns with
nothing due left behind but what the poller had claimed when it last looked), and
`ReplayTellsOneStory` (the ledger at rest is that of its moment, whatever path led
there). Two invariants carry the last two.

- `ReplayInv`: as long as the clock has not slipped, all that is due is due at one
  moment (`OneMoment`); when the driver looks for the next, nothing is but what it
  skipped (`NothingLeft`), and while it delivers, what is due in the queue is on its
  list (`Listed`). An open batch, the driver's or the poller's, holds all the
  attempts that are due, on a file that no answer is about to recover
  (`BatchIsAll`). So two batches are never open at once, and one settles a moment.
- `StoryInv` adds `Booked` (the queue follows from the rows and the open batches, the
  ledger from the queue, the status from the ledger) and `WorkIsOfItsTime`: rows are
  executed in the order of their times, so each retry was counted after those before
  it; it was presented only if nothing had recovered or closed the file by its time,
  and a closed file leaves only what such a thing explains.

They assume that one request at a time drives (`SoleDriver`); callers that create
scenarios, the poller's batches and failures come in anywhere, and attempts may tie
with each other and with answers. Of a retry and a write-off of one moment either
may be first, and the story told is that of one of the two orders.

**`LiveLoopProofs`**: `RetriesDebitOnce` (a row has at most one debit more than
executions on record, and their nonces differ), and `AtMostOneMoreTick` (of a loop
that was stopped), for any retries, answers lost and ticks failed.

Only model-checked: liveness (`EveryEventRecorded`, `DueWorkIsDone`,
`EveryFileCloses`, `ListedIngested`, `TicksGoOn`, the second half of
`StopIsFinal`), which needs fairness and ENABLED and is beyond this prover. Every
invariant a passing run checks is proved.

## 6. Where the code and what is said of it part

Paths are relative to `src/backend/app` unless they begin with `src/`.

Shown by runs:

- `history_rewritten`: ids of attempts are positions in a plan. A re-plan of a
  payday ladder is shorter once part of the budget is spent, and its later steps
  land on executed rows (`services/repository.py:385` against 291-293). The same
  step can overwrite the row that says a corrected debit succeeded.
- `hard_presented`: a repeated dishonour stores the new code but leaves class and
  ladder, so a payment the customer has stopped is presented again
  (`services/repository.py:486` against `src/README.md:121-122`).
- `recovered_overwritten`: `execute_due` reads the status without a lock and its
  write-off overwrites a settlement committed meanwhile (`services/repository.py:470`
  against `services/strategy_engine.py:537-538`).
- `settlement_lost`: a live retry's answer names the new Pinch id, and ingestion
  looks payments up by primary key only (`api/webhooks.py:82` against
  `models/payment.py:40-42`). The answer makes a row of its own, which if
  dishonoured gets a ladder of its own.

Met while modelling, without a run that stays:

- Christmas on a Sunday: it is observed on Monday the 26th, and Boxing Day, itself
  a Monday, is not moved to the 27th (`core/holidays.py:64`, 60-62).
- An entry without a payer for a new payment fails at commit (`webhook_ledger` has
  one); the batch is answered 500 at each redelivery (`api/webhooks.py:84`, `models/payment.py:22`, against
  `api/webhooks.py:45-47`). Through the poll it ends the tick before the older
  events of the page are fetched (`services/event_ingest.py:99` against 64-65).
  `live_loop` has such an event, and `ListedIngested` excepts what is behind it on the
  page: with `BehindPayerless` dropped, TLC finds it violated.
- The monthly third retry is counted from the failure, the second from the first:
  they can fall hours apart (`services/strategy_engine.py:297` against 15-16).
- A monthly retry rolled over Easter can tie with the write-off 35 days after the
  failure, and where Good Friday is the 21st of April (2000, 2079) the five closed
  days to Anzac Day put it past: of a failure on 21 March the attempt that the long
  horizon is for is skipped (`services/strategy_engine.py:276` against 258-262).
- Recovery run again on a monthly debit can take its write-off away: the third
  retry was executed a month after the failure, the answers have since given
  another code, and the shorter plan's write-off, three weeks after the last
  failure, has that retry's id and is due before it. Of two attempts with one id
  the later is written last (`services/repository.py:375-404`), so the finished retry
  remains and nothing can close the file (against `services/repository.py:291-293`).
  `recovery` has such a debit; with the exception for monthly ones dropped, TLC finds
  `OpenFileHasItsEnd` violated, and `EveryFileCloses` too.
- A debit blocked by the bank is never retried (`services/strategy_engine.py:218`
  against `src/README.md:138`, "Once, at 48h").
- A repeated dishonour moves `failed_at`, so a re-run puts the write-off further
  away (`api/webhooks.py:143` against `services/strategy_engine.py:169-170`).
- Budget and message cap are read when a plan is made and not when it is carried
  out: two payments of one customer planned together exceed both
  (`services/repository.py:486` and 502 against `services/strategies.yaml:171-176`).
- When the bank changes its mind about the class of a failure and recovery is run
  again over it, the rewritten rows free their numbers: a class with a budget of
  four may see five debits. So it may with one class when recovery is run again
  more than once, since the second re-plan does not count the debits whose rows
  the first has written over: for insufficient-funds, `Payday = 2` and
  `MaxReruns = 5` TLC finds the fifth debit (`services/repository.py:385` against
  `services/strategies.yaml:17`). `MaxAttemptsIsKept` is therefore said of one class and
  one re-run.
- `get_plan` says that computing a plan again gives the same trace
  (`services/repository.py:220-223`), but a plan depends on the customer's last message
  and spent budget, which carrying it out changes.
- What is left scheduled on a closed payment is reported as due
  (`sim/service.py:373` against `sim/routes.py:53-54`).
- A dishonour that arrives late for a closed payment is dropped with its code, by
  one of two tests for it; the other cannot be reached (`api/webhooks.py:111`, 130-131).
- New details are charged for a stopped payment that is not classified yet, or was
  classified under an earlier code (`services/repository.py:721` against 717-720).
- Simulator: two fast-forwards at once, or a reset during one, and the correction
  at the end sets the clock back over the other's (`sim/service.py:312` against
  273-275). A moment that real time runs past between a drain and the search for
  the next is worked on at a later moment (292 against 267-269). While the poller has
  rows claimed and not committed (`services/repository.py:447`, 505), a drain sees
  nothing due (349-352): the replay hops on and leaves that moment behind, whose
  executions the odds of the next retry do not count yet, or returns with the work
  unfinished, against `sim/routes.py:46-47` and against 53-54, where anything still
  due means the round cap. The poller, woken
  between a hop and the delivery of that moment's settlements, presents a retry
  its settlement would have spared. The odds of a retry count what was executed
  before its batch (`services/pinch_client.py:361`). `/ui/fast-forward`
  (`routers/web.py:327-343`) leaps where `/sim/fast-forward` replays. A dishonour
  delivered inside a replay waits for its class until a page is viewed. Real
  time, claimed rows and the early poller are in `sim_replay`, as exceptions TLC shows
  to be needed:
  without `slipped` for a hop past claimed rows, or for a poller that comes before an
  answer, `LedgerIsOfItsTime` is violated, and without `skipped` `SettledOnReturn`.
  The poller comes too early where a retry falls due exactly when another one's answer
  does. Plans have such ties: the two retries of a technical error are a day apart
  (`services/strategies.yaml:102`), but a public holiday between them makes it two,
  and an answer takes two (`sim/service.py:66`), as with a failure on 23 April 2024,
  before Anzac Day. A retry and a write-off of one moment run in either order
  (`services/repository.py:443`), and tell two stories. The mark
  of a delivery may be written after another request has emptied the queue, when
  its event is already in the new ledger (`sim/service.py:207-212`).
- Pages: a row that fails again while a client reads (`failed_at` becomes now,
  `api/webhooks.py:143`) jumps behind the reader and is on no page; the seed's
  backdating (`sim/seed.py:319-323`) can show a row twice. An undated row is one
  that cleared the first time; the docstring's pending payments
  (`api/payments.py:85-86`) have no row.
- Demo data: a page viewed between the seed's delivery and its backdating has the
  failures classified and planned from the hour of seeding
  (`sim/seed.py:311-322`).
- Live: two due retries of one payment in one batch share a nonce, the second is
  lost and marked executed (`services/pinch_client.py:749` against 745-748). An
  event ingested by a tick that then fails, or pushed, is not classified by later
  ticks (`main.py:90` against 74-76). One page of 50 is all a poll reads; what is
  driven off it between two polls is not seen (`services/event_ingest.py:56` against
  5-7). A refused or lost answer leaves what Pinch has made: payers, sources and,
  test payments having no nonce, debits are made again next time
  (`services/pinch_client.py:918-961`). A test payment's dishonour is recorded under
  a second customer whose key is the payer's id, not the one it was made for
  (`api/webhooks.py:59-72`). New details that race with two first test payments of
  a local customer can pair one payer with the other's source; only customers keyed
  by a payer, the ones debits are recorded under, are safe from that. The live
  client's `update_payment_method` has no caller: new details are never told to
  Pinch (`models/customer.py:39-40`).

## 7. What is not modelled, and what the models leave out

- Configuration, migrations, templates and the read API's summaries: declarations,
  text, and queries that change nothing.
- Demo data: its reset and its backdating are actions of `Pages`; which rows it
  draws is data.
- The live client's token cache: a token that is refused or cannot be had is a
  request refused, which `LiveLoop` and `PayerAccounts` have at every request. That
  its expiry is on the simulated clock (`services/pinch_client.py:621`, 648) is
  left out.
- Copy: that a message row is written once per attempt is in `RecoveryLedger`; the
  wording is text.
- `WebhookLedger`: amounts, e-mail addresses and the caches of Pinch ids. The flush of
  a new customer (`api/webhooks.py:66`) sends the payment rows that earlier entries
  have added as well, so their locks are held, and their conflicts seen, from there;
  the model writes them at the commit, with the same committed outcomes.
- `RecoveryLedger`: reasoning, tone and notes; which presentations the mock clears
  is left open. Of planned steps of one kind a re-plan drops the first in time
  (`services/repository.py:358`), the model the first by id, which is the same
  unless the dates of a ladder come out of the order of its ids.
- `DueWork`: one payment. A session that waits for a row gets it before workers
  that claim later, as in Postgres. `run_recovery` in a parallel session and
  batches over several payments are left out; the client is the mock.
- `SimReplay`: one request drives at a time (callers that create scenarios run beside
  it), resets are left out. Within `execute_due` the status is read once in a batch,
  and the mock client's check and its submission are one step, which `DueWork` takes
  apart. A settlement queued again by a batch after a rollback is one with the first
  if their contents are the same: two deliveries of it would change nothing more.
- `Pages`: one client. `/ui` lists have no cursor.
- `PayerAccounts`: the nonce (`LiveLoop`'s), `pinch_payment_id`, and the refusal of
  test payments with live money, which is settled when the process starts.
- `LiveLoop`: which retries are due is left open (the dates are
  `StrategyEngine`'s), there is no write-off, a row is classified in one step, and
  the number of debits is bounded.
