--------------------------- MODULE StrategyEngine ---------------------------
(***************************************************************************)
(* services/strategy_engine.py: what the engine decides for one failed     *)
(* payment.  Plan is pure, as plan() is: from the dishonour code, the size *)
(* of the debit, what is known of the customer and the instant of the      *)
(* failure it returns the attempts in the order plan() adds them, which is *)
(* the order that gives them their ids.  The table is strategies.yaml.     *)
(* Notes, tone and reasoning are text and are left out.                    *)
(***************************************************************************)
EXTENDS Calendar, Sequences

NoTime == 0        \* None: an attempt that is skipped, a customer not contacted
NoWeekday == 7     \* no observed payday
NoRetry == [delay |-> 0, align |-> FALSE]

-----------------------------------------------------------------------------
(* strategies.yaml: times in hours. *)
Message(action, channel, delay) ==
  [action |-> action, channel |-> channel, delay |-> delay]

Details(channel, delay) == Message("request_details_update", channel, delay)

Strategy(max, retry, messages, humans) ==
  [max |-> max, retry |-> retry, messages |-> messages, humans |-> humans]

StrategyTable ==
  [insufficient_funds |->
     Strategy(4, [delay |-> 120, align |-> TRUE],
              <<Details("email", 0), Message("offer_split", "email", 240)>>, <<>>),
   invalid_account |->
     Strategy(0, NoRetry, <<Details("email", 0), Details("sms", 48)>>, <<96>>),
   authority_cancelled |->
     Strategy(0, NoRetry, <<Message("save_offer", "email", 0)>>, <<24>>),
   payment_stopped |-> Strategy(0, NoRetry, <<>>, <<0>>),
   technical |-> Strategy(2, [delay |-> 24, align |-> FALSE], <<>>, <<>>),
   expired_card |->
     Strategy(0, NoRetry, <<Details("email", 0), Details("sms", 48)>>, <<>>),
   do_not_honour |->
     Strategy(0, NoRetry, <<Details("email", 0), Details("sms", 48)>>, <<96>>),
   unknown |-> Strategy(1, [delay |-> 72, align |-> FALSE], <<>>, <<0>>)]

HardFailures ==
  {"invalid_account", "authority_cancelled", "payment_stopped", "do_not_honour"}

CodeIndex ==
  [insufficient_funds |-> {"insufficient-funds"},
   invalid_account |-> {"invalid-account"},
   authority_cancelled |-> {"authority-cancelled"},
   payment_stopped |-> {"payment-stopped"},
   technical |-> {"technical-error", "temporary-problem"},
   expired_card |-> {"invalid-card", "unsupported-card"},
   do_not_honour |-> {"blocked-by-bank"},
   unknown |-> {}]

FailureClass ==
  {"insufficient_funds", "invalid_account", "authority_cancelled", "payment_stopped",
   "technical", "expired_card", "do_not_honour", "unknown"}

(* What the loader asks of a table before the service starts. *)
Loads(table, codes) ==
  /\ DOMAIN table = FailureClass
  /\ \A class \in HardFailures : table[class].max = 0 /\ table[class].retry = NoRetry
  /\ \A c, d \in DOMAIN codes : c # d => codes[c] \cap codes[d] = {}

ASSUME TableLoads == Loads(StrategyTable, CodeIndex)

(* A code in no row, or none at all, is "unknown". *)
Classify(code) ==
  LET rows == {class \in DOMAIN CodeIndex : code \in CodeIndex[class]}
  IN IF rows = {} THEN "unknown" ELSE CHOOSE class \in rows : TRUE

MaxRetriesInWindow   == 5
MessageGap           == 24
DefaultPaydays       == {3, 4}
WriteOffAfter        == 21 * 24
MonthlyWriteOffAfter == 35 * 24
MonthlyAttempt       == 3

-----------------------------------------------------------------------------
(* A payment is [code, monthly]: monthly stands for amount_cents at or     *)
(* above monthly_payer_min_cents.  A customer is [payday, used, contact]:  *)
(* the observed payday, the retries in the window, the last message.       *)
Attempt(action, channel, at) == [action |-> action, channel |-> channel, at |-> at]

Paydays(customer) ==
  IF customer.payday = NoWeekday THEN DefaultPaydays ELSE {customer.payday}

BudgetLeft(customer) ==
  IF customer.used < MaxRetriesInWindow THEN MaxRetriesInWindow - customer.used ELSE 0

AllowsRetries(class) ==
  class \notin HardFailures /\ StrategyTable[class].max > 0

(* How many retries the ladder has. *)
Repeats(class, customer) ==
  IF ~ AllowsRetries(class) THEN 0
  ELSE EarliestOf({StrategyTable[class].max, BudgetLeft(customer)})

(* The third retry of a monthly-sized debit steps to the next billing date. *)
(* Fault: decided from the size alone, not from the ladder that is left. *)
EscalatesBySize(class, payment, customer) ==
  payment.monthly /\ StrategyTable[class].retry.align
Escalates(class, payment, customer) ==
  /\ payment.monthly
  /\ Repeats(class, customer) >= MonthlyAttempt
  /\ StrategyTable[class].retry.align

WriteOffAt(escalates, at) ==
  at + (IF escalates THEN MonthlyWriteOffAfter ELSE WriteOffAfter)

(* Where a retry counted from `previous` wants to be. *)
Aimed(retry, customer, previous) ==
  IF retry.align THEN NextPayday(previous + retry.delay, Paydays(customer))
  ELSE previous + retry.delay

(* Every retry, aligned or not, is moved to a day the banks are open. *)
(* Fault: only a payday is rolled, not a fixed interval. *)
RolledIfAligned(retry, t) == IF retry.align THEN RollToBusinessDay(t) ELSE t
Presentable(retry, t) == RollToBusinessDay(t)

(* The retry a repeat is counted from: the one before it, but the failure *)
(* itself for the first monthly step.                                     *)
(* Fault: always the failure. *)
FromFailure(times, n, escalates) == times[0]
CountedFrom(times, n, escalates) ==
  IF escalates /\ n = MonthlyAttempt THEN times[0] ELSE times[n - 1]

(* When each repeat would be presented; number 0 is the failure. *)
RetryTimes(retry, repeats, escalates, customer, at) ==
  LET times[n \in 0..repeats] ==
        IF n = 0 THEN at
        ELSE LET previous == CountedFrom(times, n, escalates)
             IN Presentable(retry, IF escalates /\ n >= MonthlyAttempt
                                   THEN NextMonthEquivalent(previous)
                                   ELSE Aimed(retry, customer, previous))
  IN times

(* Past the write-off an attempt is recorded as skipped, without a time. *)
Within(writeOff, t) == IF t > writeOff THEN NoTime ELSE t

Ladder(times, repeats, writeOff) ==
  [n \in 1..repeats |-> Attempt("retry", "none", Within(writeOff, times[n]))]

(* A ladder the budget suppresses altogether leaves one skipped retry. *)
Retries(class, payment, customer, at) ==
  IF AllowsRetries(class) /\ BudgetLeft(customer) = 0
  THEN <<Attempt("retry", "none", NoTime)>>
  ELSE Ladder(RetryTimes(StrategyTable[class].retry, Repeats(class, customer),
                         Escalates(class, payment, customer), customer, at),
              Repeats(class, customer),
              WriteOffAt(Escalates(class, payment, customer), at))

Dates(attempts) == {attempts[i].at : i \in DOMAIN attempts} \ {NoTime}

(* An offer to split waits a day after the last retry that has a date. *)
Held(message, retryDates, t) ==
  IF message.action # "offer_split" THEN t
  ELSE IF retryDates = {} THEN NoTime
  ELSE CHOOSE h \in {t} \cup {r + 24 : r \in retryDates} :
         h >= t /\ \A r \in retryDates : h >= r + 24

Apart(contact, t) ==
  IF contact # NoTime /\ t # NoTime /\ t < contact + MessageGap
  THEN contact + MessageGap ELSE t

(* Fault: the gap is kept to the customer's earlier messages only. *)
NoteNothing(contact, t) == contact
NoteContact(contact, t) == IF t = NoTime THEN contact ELSE t

(* Messages are walked in schedule order, each kept clear of the last one. *)
(* walk[i] is the time of the i-th and the latest contact after it.        *)
ContactWalk(messages, retryDates, contact, at, writeOff) ==
  LET walk[i \in 0..Len(messages)] ==
        IF i = 0 THEN [at |-> NoTime, contact |-> contact]
        ELSE LET t == Within(writeOff,
                        Apart(walk[i - 1].contact,
                              Held(messages[i], retryDates, at + messages[i].delay)))
             IN [at |-> t, contact |-> NoteContact(walk[i - 1].contact, t)]
  IN walk

Messages(messages, retryDates, contact, at, writeOff) ==
  LET walk == ContactWalk(messages, retryDates, contact, at, writeOff)
  IN [i \in DOMAIN messages |->
        Attempt(messages[i].action, messages[i].channel, walk[i].at)]

Humans(delays, at) == [i \in DOMAIN delays |-> Attempt("notify_human", "none", at + delays[i])]

(* What follows a ladder of retries that is already laid out. *)
Completed(retries, strategy, customer, at, writeOff) ==
  retries \o Messages(strategy.messages, Dates(retries), customer.contact, at, writeOff)
    \o Humans(strategy.humans, at) \o <<Attempt("write_off", "none", writeOff)>>

PlanFor(class, payment, customer, at) ==
  Completed(Retries(class, payment, customer, at), StrategyTable[class], customer, at,
            WriteOffAt(Escalates(class, payment, customer), at))

(* The attempts in the order they are added: the n-th has id att_<pay>_n. *)
Plan(payment, customer, at) ==
  PlanFor(Classify(payment.code), payment, customer, at)
=============================================================================
