----------------------------- MODULE SimReplay -----------------------------
(***************************************************************************)
(* sim/service.py: requests that move the simulated clock replay what lies *)
(* between, moment by moment.  Each delivers what is due from the queue of *)
(* settlements, executes what is due, and hops to the next moment; the     *)
(* offset of the clock is shared by the whole process, and lost with it,   *)
(* while the queue and the ledger are in the database.                     *)
(*                                                                         *)
(* The story is one file in recovery, with the attempts the engine planned *)
(* for it, a later failure waiting in the queue, to be delivered twice, and *)
(* a scenario that is created meanwhile, to be delivered now or later.     *)
(*                                                                         *)
(* execute_due is run by every replay and by the poller's thread: each     *)
(* claims the rows it is to execute, skips those another has claimed, and  *)
(* writes them when it commits, while the mock bank queues each settlement *)
(* in a session of its own.  The status is read once in a batch, and the   *)
(* two sessions of the mock client are one step, which DueWork takes apart.*)
(***************************************************************************)
EXTENDS Integers, FiniteSets, SequencesExt

CONSTANTS Drivers,     \* request threads that fast-forward
          Callers,     \* request threads that create a scenario
          Poller,      \* the thread that executes what is due, unasked
          Delays,      \* delay_seconds of a scenario
          Attempts,    \* the attempts of the file in recovery
          Kind,        \* "retry" or "write_off"
          Time,        \* when each is due
          Settlement,  \* SETTLEMENT_SECONDS
          Minds,       \* the bank's: sets of <<retry, retries counted before>>
          FailsAt,     \* when the other debit fails
          Leaps,       \* how far a request may move the clock
          Horizon,     \* bound: how far the clock is moved altogether
          MaxRounds,   \* drain_due's max_rounds
          MaxSteps,    \* advance_to's max_steps
          MaxUpsets    \* bound: restarts, failed requests and real seconds, together

ASSUME ReplayAssumption ==
  /\ IsFiniteSet(Attempts)
  /\ Kind \in [Attempts -> {"retry", "write_off"}]
  /\ Time \in [Attempts -> Nat]
  /\ Settlement \in Nat \ {0}
  /\ \A mind \in Minds : mind \subseteq Attempts \X Nat
  /\ {FailsAt, Horizon, MaxRounds, MaxSteps, MaxUpsets} \subseteq Nat
  /\ Leaps \subseteq Nat \ {0} /\ Delays \subseteq Nat
  /\ Drivers \cap Callers = {} /\ Poller \notin Drivers \cup Callers
  /\ Attempts \cap {"failure", "scenario"} = {}

Threads   == Drivers \cup Callers
Executors == Drivers \cup {Poller}

Retries == {a \in Attempts : Kind[a] = "retry"}

VARIABLES real,      \* the machine's clock
          offset,    \* clock._offset
          queue,     \* sim_pending_webhooks
          delivered, \* those of them with a delivered_at
          ledger,    \* webhook_events
          status,    \* the file's status, as committed
          row,       \* its attempts' statuses, as committed
          work,      \* each executor's batch, not committed
          clears,    \* the bank's mind
          pc, target, goal, todo, busy, rounds, steps, landed,  \* each request's
          skipped,   \* history: what was claimed by others when it last looked
          asked,     \* history: how far requests have moved this process's clock
          reached,   \* history: the furthest the clock has stood
          slipped,   \* history: a moment was not worked on in its time
          crashes

story   == <<queue, delivered, ledger, status, row>>
request == <<pc, target, goal, todo, busy, rounds, steps, landed, skipped>>
vars == <<real, offset, story, work, clears, request, asked, reached, slipped, crashes>>

now == real + offset

Later(t) == IF t > reached THEN t ELSE reached

Closed == {"recovered", "written_off"}

(* The answer to a retry: fixed by the payment, its class and customer, the *)
(* day of the retry, and how many were counted before it.  One presented    *)
(* twice, the first time by a batch that was rolled back, has two events    *)
(* of one content and one time: they are one here.                          *)
Settles(a, n) ==
  [event |-> [of |-> a, count |-> n], number |-> 1, at |-> Time[a] + Settlement]

Cleared(event) == <<event.of, event.count>> \in clears

Failure  == [of |-> "failure", count |-> 0]
Scenario == [of |-> "scenario", count |-> 0]

(* No transaction open. *)
NoBatch == [held |-> {}, left |-> {}, executed |-> {}, refused |-> {}, seen |-> "unread"]

Init ==
  /\ real = 0 /\ offset = 0
  /\ queue = {[event |-> Failure, number |-> n, at |-> FailsAt] : n \in 1..2}
  /\ delivered = {} /\ ledger = {}
  /\ status = "failed"
  /\ row = [a \in Attempts |-> "scheduled"]
  /\ work = [x \in Executors |-> NoBatch]
  /\ clears \in Minds
  /\ pc = [d \in Threads |-> "idle"]
  /\ target = [d \in Threads |-> 0] /\ goal = [d \in Threads |-> 0]
  /\ todo = [d \in Threads |-> <<>>] /\ busy = [d \in Threads |-> FALSE]
  /\ rounds = [d \in Threads |-> 0] /\ steps = [d \in Threads |-> 0]
  /\ landed = [d \in Threads |-> FALSE] /\ skipped = [d \in Threads |-> {}]
  /\ asked = 0 /\ reached = 0 /\ slipped = FALSE /\ crashes = 0

(* The requests of these threads are over, and their variables gone. *)
Ended(threads) ==
  LET Without(f, none) == [d \in Threads |-> IF d \in threads THEN none ELSE f[d]] IN
  /\ pc' = Without(pc, "idle")
  /\ target' = Without(target, 0) /\ goal' = Without(goal, 0)
  /\ todo' = Without(todo, <<>>) /\ busy' = Without(busy, FALSE)
  /\ rounds' = Without(rounds, 0) /\ steps' = Without(steps, 0)
  /\ landed' = Without(landed, FALSE) /\ skipped' = Without(skipped, {})

(* So are their transactions, and with them what was not committed. *)
RolledBack(executors) ==
  work' = [x \in Executors |-> IF x \in executors THEN NoBatch ELSE work[x]]

-----------------------------------------------------------------------------
(* What has its time: rows of the queue, attempts of an open file. *)
DueRows == {q \in queue \ delivered : q.at <= now}

DueAttempts ==
  IF status \in Closed THEN {}
  ELSE {a \in Attempts : row[a] = "scheduled" /\ Time[a] <= now}

(* FOR UPDATE SKIP LOCKED. *)
Claimable == {a \in DueAttempts : \A x \in Executors : a \notin work[x].held}

(* _executed_retry_count, in a session of its own: what is committed with  *)
(* an executed_at.                                                         *)
Executed == Cardinality({a \in Retries : row[a] # "scheduled"})

(* The moments the story still has: deliveries, and of an open file what   *)
(* is planned and how it would settle.  A replay stops at them; real time, *)
(* the correction at the end of a replay, one that has made all its steps  *)
(* and a restart do not.                                                   *)
Ahead ==
  {q.at : q \in {r \in queue \ delivered : r.event.of # "scenario"}} \cup
  (IF status \in Closed THEN {}
   ELSE LET planned == {a \in Attempts : row[a] = "scheduled"}
        IN {Time[a] : a \in planned} \cup {Time[a] + Settlement : a \in planned \cap Retries})

Passes(from, to) == \E t \in Ahead : from < t /\ t <= to

(* Due, and not done: the poller may have claimed it, and not committed. *)
Due == {t \in Ahead : t <= now}

(* An answer that is due and would recover the file is still to come. *)
Awaited == \E q \in DueRows : q.event \notin ledger /\ Cleared(q.event)

(* ingest_pinch_webhook of one delivery, committed; a known event changes  *)
(* nothing, a repeated dishonour leaves the status as it is, and what is   *)
(* not an answer to the file's retries is about another payment.           *)
Ingest(q) ==
  IF q.event \in ledger THEN UNCHANGED <<ledger, status>>
  ELSE /\ ledger' = ledger \cup {q.event}
       /\ status' = IF Cleared(q.event) THEN "recovered" ELSE status

-----------------------------------------------------------------------------
(* POST /sim/fast-forward: advance_to, which drains before it moves. *)
FastForward(d, seconds) ==
  /\ pc[d] = "idle"
  /\ asked + seconds <= Horizon
  /\ goal' = [goal EXCEPT ![d] = offset + seconds]
  /\ target' = [target EXCEPT ![d] = now + seconds]
  /\ pc' = [pc EXCEPT ![d] = "select"]
  /\ rounds' = [rounds EXCEPT ![d] = 1] /\ steps' = [steps EXCEPT ![d] = 0]
  /\ landed' = [landed EXCEPT ![d] = FALSE] /\ skipped' = [skipped EXCEPT ![d] = {}]
  /\ asked' = asked + seconds
  /\ UNCHANGED <<real, offset, story, work, clears, todo, busy, reached, slipped, crashes>>

(* POST /sim/scenarios: its deliveries are queued, and if they are due at  *)
(* once this request delivers whatever is.                                 *)
CreateScenario(c, delay) ==
  /\ pc[c] = "idle"
  /\ \A q \in queue : q.event # Scenario
  /\ queue' = queue \cup {[event |-> Scenario, number |-> 1, at |-> now + delay]}
  /\ pc' = [pc EXCEPT ![c] = IF delay = 0 THEN "select" ELSE "idle"]
  /\ UNCHANGED <<real, offset, delivered, ledger, status, row, work, clears, target, goal, todo,
                 busy, rounds, steps, landed, skipped, asked, reached, slipped, crashes>>

(* deliver_due reads what is pending, in order; a tie falls either way, *)
InOrder(rows) ==
  {s \in SetToSeqs(rows) : \A i \in 1..Len(s) - 1 :
     s[i].at < s[i + 1].at \/ (s[i].at = s[i + 1].at /\ s[i].number <= s[i + 1].number)}

Select(d) ==
  /\ pc[d] = "select"
  /\ \E list \in InOrder(DueRows) : todo' = [todo EXCEPT ![d] = list]
  /\ busy' = [busy EXCEPT ![d] = DueRows # {}]
  /\ pc' = [pc EXCEPT ![d] = "deliver"]
  /\ UNCHANGED <<real, offset, story, work, clears, target, goal, rounds, steps, landed,
                 skipped, asked, reached, slipped, crashes>>

(* hands over one delivery, in a transaction of the handler's, *)
(* Fault: delivered_at is written before the handler runs. *)
DeliverMarked(d, q) ==
  /\ delivered' = delivered \cup {q}
  /\ UNCHANGED <<queue, ledger, status, row>>
Deliver(d, q) ==
  /\ Ingest(q)
  /\ UNCHANGED <<queue, delivered, row>>

DeliverDue(d) ==
  /\ pc[d] = "deliver" /\ todo[d] # <<>>
  /\ Deliver(d, Head(todo[d]))
  /\ pc' = [pc EXCEPT ![d] = "mark"]
  /\ UNCHANGED <<real, offset, work, clears, target, goal, todo, busy, rounds, steps, landed,
                 skipped, asked, reached, slipped, crashes>>

(* and then writes its delivered_at. *)
Mark(d) ==
  /\ pc[d] = "mark"
  /\ delivered' = delivered \cup {Head(todo[d])}
  /\ todo' = [todo EXCEPT ![d] = Tail(@)]
  /\ pc' = [pc EXCEPT ![d] = "deliver"]
  /\ UNCHANGED <<real, offset, queue, ledger, status, row, work, clears, target, goal, busy,
                 rounds, steps, landed, skipped, asked, reached, slipped, crashes>>

(* A scenario's request answers with what it has delivered. *)
Answer(c) ==
  /\ c \in Callers
  /\ pc[c] = "deliver" /\ todo[c] = <<>>
  /\ Ended({c})
  /\ UNCHANGED <<real, offset, story, work, clears, asked, reached, slipped, crashes>>

-----------------------------------------------------------------------------
(* execute_due: the second half of a round of drain_due, or the poller's.  *)
Executing(x) ==
  \/ x = Poller
  \/ x \in Drivers /\ pc[x] = "deliver" /\ todo[x] = <<>>

(* It claims what is due and not claimed; the poller, which delivers       *)
(* nothing, may do so before an answer of that moment has been delivered.  *)
Claim(x) ==
  /\ Executing(x)
  /\ work[x].held = {} /\ Claimable # {}
  /\ work' = [work EXCEPT ![x] = [NoBatch EXCEPT !.held = Claimable, !.left = Claimable]]
  /\ skipped' = IF x = Poller THEN skipped
                ELSE [skipped EXCEPT ![x] = DueAttempts \ Claimable]
  /\ slipped' = (slipped \/ (x = Poller /\ Awaited))
  /\ UNCHANGED <<real, offset, story, clears, pc, target, goal, todo, busy, rounds, steps,
                 landed, asked, reached, crashes>>

(* order_by(scheduled_for), and no further: a tie falls either way. *)
Earliest(x) == {a \in work[x].left : \A b \in work[x].left : Time[a] <= Time[b]}

Loaded(x) == IF work[x].seen = "unread" THEN status ELSE work[x].seen

(* The file was closed, in this batch or before: nothing behind it fires. *)
PassOver(x, a) ==
  /\ Loaded(x) \in Closed
  /\ work' = [work EXCEPT ![x].left = @ \ {a}, ![x].seen = Loaded(x)]
  /\ UNCHANGED queue

WriteOff(x, a) ==
  /\ Loaded(x) \notin Closed /\ Kind[a] = "write_off"
  /\ work' = [work EXCEPT ![x].left = @ \ {a}, ![x].seen = "written_off",
                          ![x].executed = @ \cup {a}]
  /\ UNCHANGED queue

(* retry_payment, of a payment that has been recovered meanwhile, *)
Refuse(x, a) ==
  /\ Loaded(x) \notin Closed /\ Kind[a] = "retry" /\ status = "recovered"
  /\ work' = [work EXCEPT ![x].left = @ \ {a}, ![x].seen = Loaded(x),
                          ![x].refused = @ \cup {a}]
  /\ UNCHANGED queue

(* and of one that has not: the settlement is queued and committed. *)
Present(x, a) ==
  /\ Loaded(x) \notin Closed /\ Kind[a] = "retry" /\ status # "recovered"
  /\ work' = [work EXCEPT ![x].left = @ \ {a}, ![x].seen = Loaded(x),
                          ![x].executed = @ \cup {a}]
  /\ queue' = queue \cup {Settles(a, Executed)}

Handle(x) ==
  /\ Executing(x)
  /\ \E a \in Earliest(x) : PassOver(x, a) \/ WriteOff(x, a) \/ Refuse(x, a) \/ Present(x, a)
  /\ UNCHANGED <<real, offset, delivered, ledger, status, row, clears, request, asked,
                 reached, slipped, crashes>>

(* The end of a round of drain_due; the last round did nothing, or was the *)
(* last allowed.                                                           *)
EndRound(d, ran) ==
  IF (busy[d] \/ ran) /\ rounds[d] < MaxRounds
  THEN /\ rounds' = [rounds EXCEPT ![d] = @ + 1]
       /\ pc' = [pc EXCEPT ![d] = "select"]
  ELSE /\ pc' = [pc EXCEPT ![d] = IF landed[d] THEN "correct" ELSE "seek"]
       /\ UNCHANGED rounds

(* A batch that only passed rows over has nothing to commit, and keeps      *)
(* locks on a closed file's rows, which nobody asks for.                   *)
Commit(x) ==
  /\ Executing(x)
  /\ work[x].held # {} /\ work[x].left = {}
  /\ row' = [a \in Attempts |-> IF a \in work[x].executed THEN "executed"
                               ELSE IF a \in work[x].refused THEN "failed" ELSE row[a]]
  /\ status' = IF \E a \in work[x].executed : Kind[a] = "write_off" THEN "written_off" ELSE status
  /\ RolledBack({x})
  /\ IF x = Poller THEN UNCHANGED <<pc, rounds>>
     ELSE EndRound(x, work[x].executed \cup work[x].refused # {})
  /\ UNCHANGED <<real, offset, queue, delivered, ledger, clears, target, goal, todo, busy,
                 steps, landed, skipped, asked, reached, slipped, crashes>>

NothingToDo(d) ==
  /\ d \in Drivers /\ Executing(d)
  /\ work[d].held = {} /\ Claimable = {}
  /\ EndRound(d, FALSE)
  /\ skipped' = [skipped EXCEPT ![d] = DueAttempts]
  /\ UNCHANGED <<real, offset, story, work, clears, target, goal, todo, busy, steps, landed,
                 asked, reached, slipped, crashes>>

-----------------------------------------------------------------------------
(* _next_event_at: attempts of a closed file count as well. *)
Times == {q.at : q \in queue \ delivered} \cup
         {Time[a] : a \in {b \in Attempts : row[b] = "scheduled"}}

(* Fault: only settlements are stopped at. *)
MomentsOfQueue(d) ==
  {t \in {q.at : q \in queue \ delivered} : now < t /\ t <= target[d]}
Moments(d) == {t \in Times : now < t /\ t <= target[d]}

MoveTo(d, t) ==
  /\ offset' = offset + (t - now)
  /\ reached' = Later(t)
  /\ pc' = [pc EXCEPT ![d] = "select"]
  /\ rounds' = [rounds EXCEPT ![d] = 1]

(* The next moment, though the poller may still have this one's in hand. *)
Hop(d) ==
  /\ pc[d] = "seek" /\ steps[d] < MaxSteps
  /\ \E t \in Moments(d) : (\A u \in Moments(d) : t <= u) /\ MoveTo(d, t)
  /\ steps' = [steps EXCEPT ![d] = @ + 1]
  /\ slipped' = (slipped \/ Due # {})
  /\ UNCHANGED <<real, story, work, clears, target, goal, todo, busy, landed, skipped, asked,
                 crashes>>

(* The rest of the way, if there is one, and a last drain. *)
Land(d) ==
  /\ pc[d] = "seek"
  /\ steps[d] = MaxSteps \/ Moments(d) = {}
  /\ landed' = [landed EXCEPT ![d] = TRUE]
  /\ IF target[d] > now THEN MoveTo(d, target[d])
     ELSE pc' = [pc EXCEPT ![d] = "correct"] /\ UNCHANGED <<offset, rounds, reached>>
  /\ slipped' = (slipped \/ ((steps[d] = MaxSteps \/ Due # {}) /\ Passes(now, target[d])))
  /\ UNCHANGED <<real, story, work, clears, target, goal, todo, busy, steps, skipped, asked,
                 crashes>>

(* The offset is corrected by the time the replay took. *)
(* Fault: it is not. *)
Uncorrected(d) == offset
Corrected(d) == goal[d]

Return(d) ==
  /\ pc[d] = "correct"
  /\ offset' = Corrected(d)
  /\ reached' = Later(real + Corrected(d))
  /\ slipped' = (slipped \/ Passes(now, real + Corrected(d)))
  /\ Ended({d})
  /\ UNCHANGED <<real, story, work, clears, asked, crashes>>

-----------------------------------------------------------------------------
(* A handler raises, or the database goes away: what was not committed is  *)
(* rolled back, and the clock stays where the request has got.             *)
Fail(x) ==
  /\ real + crashes < MaxUpsets
  /\ crashes' = crashes + 1
  /\ IF x = Poller THEN work[x].held # {} /\ UNCHANGED <<request, asked>>
     ELSE /\ pc[x] \in {"select", "deliver", "mark", "seek"}
          /\ Ended({x})
          /\ asked' = IF x \in Drivers THEN offset ELSE asked
  /\ RolledBack({x})
  /\ UNCHANGED <<real, offset, story, clears, reached, slipped>>

Tick ==
  /\ real + crashes < MaxUpsets
  /\ real' = real + 1
  /\ reached' = Later(now + 1)
  /\ slipped' = (slipped \/ Passes(now, now + 1))
  /\ UNCHANGED <<offset, story, work, clears, request, asked, crashes>>

(* The process restarts: requests end where they are, the offset is gone. *)
Restart ==
  /\ real + crashes < MaxUpsets
  /\ crashes' = crashes + 1
  /\ offset' = 0 /\ asked' = 0
  /\ slipped' = (slipped \/ \E t \in Ahead : t <= real)
  /\ Ended(Threads) /\ RolledBack(Executors)
  /\ UNCHANGED <<real, story, clears, reached>>

Replay(d) ==
  \/ Select(d) \/ DeliverDue(d) \/ Mark(d) \/ Answer(d)
  \/ NothingToDo(d) \/ Hop(d) \/ Land(d) \/ Return(d)

Execute(x) == Claim(x) \/ Handle(x) \/ Commit(x)

Next ==
  \/ \E d \in Threads : Replay(d)
  \/ \E d \in Drivers, seconds \in Leaps : FastForward(d, seconds)
  \/ \E c \in Callers, delay \in Delays : CreateScenario(c, delay)
  \/ \E x \in Executors : Execute(x)
  \/ \E x \in Threads \cup {Poller} : Fail(x)
  \/ Tick \/ Restart

Spec == Init /\ [][Next]_vars

-----------------------------------------------------------------------------
AtRest ==
  /\ \A d \in Threads : pc[d] = "idle"
  /\ \A x \in Executors : work[x].held = {}
  /\ DueRows = {} /\ DueAttempts = {}
  /\ now >= reached

(* Types of the tables and of each thread's variables. *)
TypeOK ==
  /\ real \in 0..MaxUpsets /\ offset \in Int
  /\ delivered \subseteq queue
  /\ ledger \subseteq {q.event : q \in queue}
  /\ status \in {"failed"} \cup Closed
  /\ row \in [Attempts -> {"scheduled", "executed", "failed"}]
  /\ \A x \in Executors : UNION {work[x].left, work[x].executed, work[x].refused} \subseteq work[x].held
  /\ pc \in [Threads -> {"idle", "select", "deliver", "mark", "seek", "correct"}]
  /\ \A d \in Threads : ToSet(todo[d]) \subseteq queue
  /\ rounds \in [Threads -> 0..MaxRounds] /\ steps \in [Threads -> 0..MaxSteps]

(* The story as simulated time alone tells it: the n-th retry is presented *)
(* unless the file is closed by then, and answered after the settlement.   *)
(* Of a retry and a write-off of one moment either may be first.           *)
Before(a) == Cardinality({b \in Retries : Time[b] < Time[a]})
Answers == {a \in Retries : <<a, Before(a)>> \in clears}
WriteOffAt == {Time[a] : a \in {b \in Attempts : Kind[b] = "write_off"}}
Tied == {a \in Retries : Time[a] \in WriteOffAt}

RecoveredBy(a, t) ==
  \E b \in Answers : Time[b] + Settlement <= t /\ Time[b] < Time[a]

PresentedBy(t, first) ==
  {a \in Retries : /\ Time[a] <= t
                   /\ ~ RecoveredBy(a, Time[a])
                   /\ \A w \in WriteOffAt : Time[a] < w \/ (Time[a] = w /\ a \in first)}

StatusAt(t, first) ==
  IF \E a \in Answers \cap PresentedBy(t, first) : Time[a] + Settlement <= t THEN "recovered"
  ELSE IF \E w \in WriteOffAt : w <= t THEN "written_off" ELSE "failed"

Presented == {q.event.of : q \in queue} \cap Retries

(* sim/routes.py: the ledger a sixty-day jump produces is the ledger twenty *)
(* three-day steps produce, whether or not requests failed or the process   *)
(* was restarted on the way.  Out are a clock that has slipped past a       *)
(* moment, where no request stops, or past one whose work the poller still  *)
(* had in hand, and a poller that was first to a moment at which an answer  *)
(* would have spared it the work.                                           *)
LedgerIsOfItsTime ==
  AtRest /\ ~ slipped =>
    /\ \E first \in SUBSET Tied :
         /\ status = StatusAt(now, first)
         /\ Presented = PresentedBy(now, first)
    /\ Failure \in ledger <=> FailsAt <= now

(* A delivery is ticked off only when its event is in the ledger: a restart *)
(* between the two loses nothing and repeats what the ledger absorbs.       *)
NothingSwallowed == \A q \in delivered : q.event \in ledger

(* When a request returns, the ledger has settled up to where it was sent, *)
(* but for a scenario that came in on the way, for attempts that the       *)
(* poller had claimed when it last looked, and for what a clock that has   *)
(* slipped leaves to the next request; and a caller who asks for three     *)
(* days gets three days, however long the replay took, as a request that   *)
(* fails leaves the clock where it had got.                                *)
SettledOnReturn ==
  /\ \A d \in Drivers : pc[d] = "correct" /\ ~ slipped =>
       /\ \A q \in queue \ delivered : q.at > target[d] \/ q.event.of = "scenario"
       /\ status \notin Closed =>
            \A a \in Attempts \ skipped[d] : row[a] = "scheduled" => Time[a] > target[d]
  /\ (\A d \in Drivers : pc[d] = "idle") => offset = asked
=============================================================================
