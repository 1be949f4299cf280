------------------------------ MODULE LiveLoop ------------------------------
(***************************************************************************)
(* The loop with the real Pinch: main.py's tick on the poller's timer      *)
(* (services/scheduler.py), event_ingest.poll_events, and the debits       *)
(* LivePinchClient.retry_payment raises.  Pinch pushes its events as well; *)
(* requests fail with a status, or with an exception that ends the tick.   *)
(*                                                                         *)
(* A debit at Pinch is named by its number; a row of payments is keyed by  *)
(* the number of the debit whose event made it.                            *)
(***************************************************************************)
EXTENDS Integers, Sequences, FiniteSets

CONSTANTS Originals,  \* debits 1..Originals were raised outside recovery
          MaxDebits,  \* bound: debits altogether
          MaxRetries, \* retries in the plan of a row
          PageSize,   \* page_size
          MaxOdd,     \* bound: events that cannot be ingested
          MaxBoots    \* bound: starts of the process

ASSUME LoopAssumption ==
  /\ {Originals, MaxDebits, MaxRetries, PageSize, MaxOdd, MaxBoots} \subseteq Nat

Debit == 1..MaxDebits

(* Events about no debit of ours: one that cannot be parsed, and one whose  *)
(* payment has neither a row nor a payer.                                  *)
Malformed == 0
Payerless == -1
Retry == Debit \X (1..MaxRetries)

VARIABLES debits,   \* at Pinch: the row each is for, and its nonce
          events,   \* at Pinch, oldest first: the debit answered, or an odd one
          cleared,  \* the debits that went through
          seen,     \* webhook_events
          status,   \* payments.status
          planned, executed,  \* scheduled retries, and those with an executed_at
          classified,
          pc, stopped,        \* the poller
          todo,     \* events of the page still to be fetched, newest first
          news,     \* result["ingested"] of this poll is not empty
          work,     \* rows to classify, or due retries claimed
          did,      \* retries executed in this batch, not committed
          late,     \* history: ticks begun since stop(); -1 before it
          boots

pinch == <<debits, events, cleared>>
rows  == <<seen, status, planned, executed, classified>>
local == <<todo, news, work, did>>
vars  == <<pinch, rows, pc, stopped, local, late, boots>>

Init ==
  /\ debits = [d \in 1..Originals |-> [row |-> d, nonce |-> -1]]
  /\ events = <<>> /\ cleared = {}
  /\ seen = {}
  /\ status = [d \in Debit |-> "none"]
  /\ planned = {} /\ executed = {} /\ classified = {}
  /\ pc = "off" /\ stopped = TRUE
  /\ todo = <<>> /\ news = FALSE /\ work = {} /\ did = {}
  /\ late = -1 /\ boots = 0

-----------------------------------------------------------------------------
(* Pinch.  The bank answers each debit once; odd events are few. *)
Settle(d) ==
  /\ d \in DOMAIN debits /\ \A e \in DOMAIN events : events[e] # d
  /\ events' = Append(events, d)
  /\ IF d > Originals THEN cleared' \in {cleared, cleared \cup {d}} ELSE cleared' = cleared
  /\ UNCHANGED <<debits, rows, pc, stopped, local, late, boots>>

OddEvent ==
  /\ Cardinality({e \in DOMAIN events : events[e] \notin Debit}) < MaxOdd
  /\ \E odd \in {Malformed, Payerless} : events' = Append(events, odd)
  /\ UNCHANGED <<debits, cleared, rows, pc, stopped, local, late, boots>>

Listed == {e \in DOMAIN events : e > Len(events) - PageSize}

(* _resolve_payment: the row of an answer is the one keyed by its own debit, *)
(* not the row whose pinch_payment_id names it.                              *)
RowOf(d) == d

(* ingest_pinch_webhook: an odd event leaves nothing behind. *)
Ingest(e) ==
  IF events[e] \notin Debit \/ e \in seen THEN UNCHANGED rows
  ELSE LET row == RowOf(events[e]) IN
       /\ seen' = seen \cup {e}
       /\ status' = [status EXCEPT ![row] =
                       IF events[e] \in cleared THEN "recovered"
                       ELSE IF @ = "recovered" THEN @ ELSE "failed"]
       /\ UNCHANGED <<planned, executed, classified>>

(* A webhook; nothing says that it comes, or that it comes once. *)
Push(e) ==
  /\ e \in DOMAIN events
  /\ Ingest(e)
  /\ UNCHANGED <<pinch, pc, stopped, local, late, boots>>

-----------------------------------------------------------------------------
(* DueActionPoller. *)
Start ==
  /\ boots < MaxBoots /\ pc = "off" /\ stopped
  /\ boots' = boots + 1
  /\ stopped' = FALSE /\ late' = -1
  /\ pc' = "arm"
  /\ UNCHANGED <<pinch, rows, local>>

(* _schedule: the flag is read, then the new timer is made. *)
(* Fault: only a tick that went well schedules the next one. *)
ScheduleIfWell(failed) == IF stopped \/ failed THEN "off" ELSE "arm"
Schedule(failed) == IF stopped THEN "off" ELSE "arm"

Arm ==
  /\ pc = "arm"
  /\ pc' = "wait"
  /\ UNCHANGED <<pinch, rows, stopped, local, late, boots>>

EndTick(failed) ==
  /\ pc' = Schedule(failed)
  /\ todo' = <<>> /\ news' = FALSE /\ work' = {} /\ did' = {}
  /\ UNCHANGED <<stopped, late, boots>>

(* stop() cancels the timer it knows of: one just being made gets away. *)
(* Fault: the flag is not set. *)
CancelOnly == stopped' = stopped /\ pc' = IF pc = "wait" THEN "off" ELSE pc
Cancel == stopped' = TRUE /\ pc' = IF pc = "wait" THEN "off" ELSE pc

Stop ==
  /\ ~ stopped
  /\ Cancel
  /\ late' = 0
  /\ UNCHANGED <<pinch, rows, local, boots>>

(* The process dies, with the session of its tick. *)
Kill ==
  /\ pc # "off"
  /\ pc' = "off" /\ stopped' = TRUE /\ late' = -1
  /\ todo' = <<>> /\ news' = FALSE /\ work' = {} /\ did' = {}
  /\ UNCHANGED <<pinch, rows, boots>>

(* A tick; whether it polls depends on the seconds since the last poll. *)
Fire(polls) ==
  /\ pc = "wait"
  /\ pc' = IF polls THEN "list" ELSE "select"
  /\ late' = IF late >= 0 THEN late + 1 ELSE late
  /\ UNCHANGED <<pinch, rows, stopped, local, boots>>

-----------------------------------------------------------------------------
(* poll_events: one page, newest first, without what is in the ledger. *)
Unseen == Listed \ seen

NewestFirst(es) ==
  [i \in 1..Cardinality(es) |->
     CHOOSE e \in es : Cardinality({f \in es : f >= e}) = i]

List ==
  /\ pc = "list"
  /\ todo' = NewestFirst(Unseen)
  /\ pc' = "fetch"
  /\ UNCHANGED <<pinch, rows, stopped, news, work, did, late, boots>>

ListRefused ==
  /\ pc = "list"
  /\ pc' = "select"
  /\ UNCHANGED <<pinch, rows, stopped, local, late, boots>>

Raises == pc \in {"list", "fetch"} /\ EndTick(TRUE) /\ UNCHANGED <<pinch, rows>>

(* The handler raises for a payment it cannot link to a customer. *)
(* Fault: an answer that is an error is read as if it were a result. *)
AnyOdd(e) == events[e] \notin Debit
Uningestible(e) == events[e] = Payerless

Fetch(e) ==
  /\ pc = "fetch" /\ todo # <<>> /\ e = Head(todo)
  /\ Ingest(e)
  /\ IF Uningestible(e) THEN EndTick(TRUE)
     ELSE /\ todo' = Tail(todo)
          /\ news' = (news \/ (events[e] \in Debit /\ e \notin seen))
          /\ UNCHANGED <<pc, stopped, work, did, late, boots>>
  /\ UNCHANGED pinch

FetchMissing ==
  /\ pc = "fetch" /\ todo # <<>>
  /\ todo' = Tail(todo)
  /\ UNCHANGED <<pinch, rows, pc, stopped, news, work, did, late, boots>>

Unclassified == {d \in Debit : status[d] = "failed" /\ d \notin classified}

(* Only a poll that ingested something classifies. *)
Polled ==
  /\ pc = "fetch" /\ todo = <<>>
  /\ pc' = IF news THEN "classify" ELSE "select"
  /\ work' = IF news THEN Unclassified ELSE {}
  /\ UNCHANGED <<pinch, rows, stopped, todo, news, did, late, boots>>

(* run_recovery of a row never planned for. *)
Classify(d) ==
  /\ classified' = classified \cup {d}
  /\ planned' = IF d \in classified THEN planned ELSE planned \cup ({d} \X (1..MaxRetries))
  /\ UNCHANGED <<seen, status, executed>>

ClassifyNext ==
  /\ pc = "classify"
  /\ IF work = {} THEN pc' = "select" /\ UNCHANGED <<rows, work>>
     ELSE \E d \in work : Classify(d) /\ work' = work \ {d} /\ UNCHANGED pc
  /\ UNCHANGED <<pinch, stopped, todo, news, did, late, boots>>

(* A page that is viewed, or POST /pinch/poll, classifies as well. *)
View(d) ==
  /\ d \in Unclassified
  /\ Classify(d)
  /\ UNCHANGED <<pinch, pc, stopped, local, late, boots>>

-----------------------------------------------------------------------------
(* execute_due; which retries have fallen due is left open. *)
Select ==
  /\ pc = "select"
  /\ \E due \in SUBSET {r \in planned : status[r[1]] # "recovered"} :
       /\ \A r \in due : \A n \in 1..r[2] : <<r[1], n>> \in due \cup executed
       /\ work' = due
  /\ pc' = "present"
  /\ UNCHANGED <<pinch, rows, stopped, todo, news, did, late, boots>>

(* The nonce counts what is committed: a batch that is rolled back comes   *)
(* with the nonce it had, and Pinch answers with the debit it has.         *)
(* Fault: a fresh one for every request. *)
FreshNonce(row) == Len(debits)
Nonce(row) == Cardinality({r \in executed : r[1] = row})

Known(row) == \E d \in DOMAIN debits : debits[d] = [row |-> row, nonce |-> Nonce(row)]

Raise(row) ==
  IF Known(row) THEN UNCHANGED debits
  ELSE /\ Len(debits) < MaxDebits
       /\ debits' = Append(debits, [row |-> row, nonce |-> Nonce(row)])

Earliest(r) == r \in work /\ \A s \in work : s[1] = r[1] => r[2] <= s[2]

(* POST /payments is accepted, or refused with a status, or not sent since *)
(* the payment has recovered meanwhile.                                    *)
Present(r) ==
  /\ pc = "present" /\ Earliest(r)
  /\ status[r[1]] # "recovered" /\ Raise(r[1])
  /\ work' = work \ {r} /\ did' = did \cup {r}
  /\ UNCHANGED <<events, cleared, rows, pc, stopped, todo, news, late, boots>>

Refuse(r) ==
  /\ pc = "present" /\ Earliest(r)
  /\ work' = work \ {r} /\ did' = did \cup {r}
  /\ UNCHANGED <<pinch, rows, pc, stopped, todo, news, late, boots>>

(* No answer: the debit may have been raised or not.  The batch is lost.   *)
NoAnswer(r) ==
  /\ pc = "present" /\ Earliest(r) /\ status[r[1]] # "recovered"
  /\ Raise(r[1]) \/ UNCHANGED debits
  /\ EndTick(TRUE)
  /\ UNCHANGED <<events, cleared, rows>>

Commit ==
  /\ pc = "present" /\ work = {}
  /\ planned' = planned \ did
  /\ executed' = executed \cup did
  /\ EndTick(FALSE)
  /\ UNCHANGED <<pinch, seen, status, classified>>

-----------------------------------------------------------------------------
Bank == OddEvent \/ \E d \in Debit : Settle(d)
Poll == List \/ ListRefused \/ Raises \/ FetchMissing \/ Polled \/ ClassifyNext
Execute == Select \/ Commit \/ \E r \in Retry : Present(r) \/ Refuse(r) \/ NoAnswer(r)
Tick == Arm \/ Poll \/ Execute \/ \E e \in DOMAIN events : Fetch(e)
Requests == (\E e \in DOMAIN events : Push(e)) \/ \E d \in Debit : View(d)

Next ==
  \/ Bank \/ Requests
  \/ Start \/ Stop \/ Kill
  \/ Tick \/ Fire(TRUE) \/ Fire(FALSE)

(* The thread runs, the seconds between two polls pass, and a request that *)
(* is made again and again is answered in the end.                         *)
Fairness ==
  /\ WF_vars(Tick) /\ WF_vars(Fire(FALSE) \/ Fire(TRUE))
  /\ SF_vars(Fire(TRUE)) /\ SF_vars(List)
  /\ \A e \in 1..(MaxDebits + MaxOdd) : SF_vars(e \in DOMAIN events /\ Fetch(e))

Spec == Init /\ [][Next]_vars
FairSpec == Spec /\ Fairness

-----------------------------------------------------------------------------
(* Types of Pinch's side, the tables and the tick's variables. *)
TypeOK ==
  /\ debits \in Seq([row : Debit, nonce : -1..MaxDebits]) /\ Len(debits) <= MaxDebits
  /\ events \in Seq(Debit \cup {Malformed, Payerless})
  /\ cleared \subseteq DOMAIN debits
  /\ seen \subseteq DOMAIN events
  /\ status \in [Debit -> {"none", "failed", "recovered"}]
  /\ classified \subseteq Debit
  /\ planned \subseteq Retry /\ executed \subseteq Retry
  /\ pc \in {"off", "arm", "wait", "list", "fetch", "classify", "select", "present"}
  /\ stopped \in BOOLEAN /\ news \in BOOLEAN
  /\ \A i \in DOMAIN todo : todo[i] \in DOMAIN events
  /\ work \subseteq IF pc = "classify" THEN Debit ELSE Retry
  /\ did \subseteq planned

(* pinch_client.py: a retry is one debit, however often its request is sent *)
(* again after lost answers, failed ticks and restarts: beside the debits   *)
(* of retries on record a row has at most the one it is just presenting.    *)
RetryDebitedOnce ==
  \A row \in Debit :
    Cardinality({d \in DOMAIN debits : d > Originals /\ debits[d].row = row})
      <= Cardinality({r \in executed : r[1] = row}) + 1

(* event_ingest.py: an event on the page is ingested in the end, pushed or *)
(* not, whatever requests fail and whatever event cannot be parsed, unless *)
(* newer events drive it off the page or the poller is stopped.  Out is an *)
(* event behind one without a payer: what the docstring says, that one     *)
(* event which cannot be ingested does not cost the rest of the batch, is  *)
(* not so for that kind, which ends every tick where it stands.            *)
BehindPayerless(e) == \E f \in Listed : f > e /\ events[f] = Payerless

ListedIngested ==
  \A e \in 1..(MaxDebits + MaxOdd) :
    (e \in Listed /\ events[e] \in Debit)
      ~> (e \in seen \/ e \notin Listed \/ stopped \/ BehindPayerless(e))

(* scheduler.py: a tick that fails does not end the poller. *)
TicksGoOn == []<>(stopped \/ pc \in {"list", "select"})

(* stop() lets at most one more tick begin, and then the thread is gone. *)
StopIsFinal ==
  /\ [](late <= 1)
  /\ [](late >= 0 => <>(pc = "off" \/ late = -1))

(* models/payment.py: a settlement is matched back to the row it was raised *)
(* for, so a retry that went through makes its file recovered.              *)
ClearedRetryRecovers ==
  \A e \in seen : events[e] \in cleared => status[debits[events[e]].row] = "recovered"
=============================================================================
