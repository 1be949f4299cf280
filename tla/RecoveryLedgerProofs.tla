------------------------ MODULE RecoveryLedgerProofs ------------------------
(***************************************************************************)
(* The recovery ledger for any payments, codes, answers and number of      *)
(* runs: types, what a closed file keeps, the evidence behind recovered    *)
(* money, the messages, the write-off that is always ahead, the budget of  *)
(* debits, and the life of a file that FileLifecycle promises.             *)
(***************************************************************************)
EXTENDS RecoveryLedger, StrategyEngineProofs

-----------------------------------------------------------------------------
(* The rows of one payment: finitely many, well typed, dated no later than *)
(* the clock; debits and write-offs write to nobody.                       *)
TypedRow(row, time) ==
  /\ row \in AttemptRow
  /\ row.status # "skipped" => row.at # NoTime
  /\ row.action \in {"retry", "write_off"} => row.channel = "none"
  /\ row.done <= time

TypedRows(rows, time) ==
  /\ DOMAIN rows \subseteq Nat /\ IsFiniteSet(DOMAIN rows)
  /\ \A i \in DOMAIN rows : TypedRow(rows[i], time)

Presentations == [at : Nat, class : FailureClass]

Types ==
  /\ now \in Nat /\ Start <= now
  /\ status \in [Payments -> {"absent", "failed"} \cup Closed]
  /\ code \in [Payments -> Codes \cup {NoCode}]
  /\ class \in [Payments -> FailureClass \cup {NotClassified}]
  /\ failedAt \in [Payments -> Nat]
  /\ DOMAIN attempts = Payments /\ DOMAIN presented = Payments /\ DOMAIN answered = Payments
  /\ reruns \in 0..MaxReruns
  /\ \A p \in Payments :
       /\ TypedRows(attempts[p], now)
       /\ presented[p] \in Seq(Presentations)
       /\ DOMAIN answered[p] \subseteq DOMAIN presented[p]

(* A payment nobody heard of has nothing; one that failed did so since the *)
(* start.                                                                  *)
Heard(p) ==
  /\ status[p] = "absent" =>
       /\ failedAt[p] = NoTime /\ class[p] = NotClassified
       /\ DOMAIN attempts[p] = {} /\ presented[p] = <<>>
  /\ status[p] # "absent" => failedAt[p] \in Start..now

(* Before it is classified a payment has no row but that of its charge     *)
(* with new details, which closes it.                                      *)
FixCloses(p) ==
  /\ class[p] = NotClassified => DOMAIN attempts[p] \subseteq {Fix}
  /\ Fix \in DOMAIN attempts[p] =>
       status[p] = "recovered" /\ attempts[p][Fix].status = "succeeded"

(* The write-off of an open file is not done, and no row of a file without *)
(* the long horizon is later than the short one.                           *)
EndIsAhead(p) ==
  /\ status[p] = "failed" =>
       \A i \in DOMAIN attempts[p] :
         attempts[p][i].action = "write_off" => attempts[p][i].status \notin Done
  /\ p \notin Monthly =>
       \A i \in DOMAIN attempts[p] \ {Fix} : attempts[p][i].at <= failedAt[p] + WriteOffAfter

HasItsEnd(p) ==
  status[p] = "failed" /\ class[p] # NotClassified /\ (p \in Monthly => reruns = 0) =>
    \E i \in DOMAIN attempts[p] :
      /\ attempts[p][i].action = "write_off" /\ attempts[p][i].status = "scheduled"
      /\ attempts[p][i].at <= failedAt[p] + MonthlyWriteOffAfter

(* The ids of the rows that wrote a message are those of the messages. *)
MessagesMatch(p) ==
  reruns = 0 =>
    {<<i, attempts[p][i].action>> : i \in {j \in DOMAIN attempts[p] :
        attempts[p][j].status = "executed" /\ attempts[p][j].channel # "none"}}
      = {<<m.id, m.action>> : m \in {x \in outbox : x.payment = p}}

HasEvidence(p) ==
  status[p] = "recovered" /\ reruns = 0 =>
    \/ \E n \in DOMAIN answered[p] : answered[p][n] = "cleared"
    \/ \E i \in DOMAIN attempts[p] : attempts[p][i].status = "succeeded"

FileInv(p) ==
  /\ Heard(p) /\ FixCloses(p) /\ EndIsAhead(p) /\ HasItsEnd(p)
  /\ MessagesMatch(p) /\ HasEvidence(p)

LedgerInv == Types /\ \A p \in Payments : FileInv(p)

-----------------------------------------------------------------------------
(* The start is an instant of the calendar, and so is everything after it. *)
LEMMA StartIsAnInstant ==
  /\ Start \in Nat /\ Start # NoTime
  /\ \A t \in Nat : Start <= t => t \in Instants /\ t # NoTime
BY LedgerAssumption DEF Instants, Dates1, LocalDate, AEST, NoTime

(* The ledger begins empty. *)
LEMMA InitIsSound == Init => LedgerInv
<1>. SUFFICES ASSUME Init PROVE LedgerInv OBVIOUS
<1>. USE DEF Init, NoTime, Fix, NotClassified, NoCode
<1>1. Types
  <2>1. DOMAIN <<>> = {} OBVIOUS
  <2>2. TypedRows(<<>>, now) BY <2>1, FS_EmptySet DEF TypedRows
  <2>3. <<>> \in Seq(Presentations) OBVIOUS
  <2>. QED BY <2>1, <2>2, <2>3, LedgerAssumption DEF Types
<1>2. ASSUME NEW p \in Payments
      PROVE  FileInv(p)
  <2>1. DOMAIN attempts[p] = {} /\ status[p] = "absent" OBVIOUS
  <2>. QED BY <2>1 DEF FileInv, Heard, FixCloses, EndIsAhead, HasItsEnd, MessagesMatch, HasEvidence
<1>. QED BY <1>1, <1>2 DEF LedgerInv

-----------------------------------------------------------------------------
(* What is planned for a payment. *)
PlanFits(p, debit) ==
  /\ p \in Seq(PlannedAttempts) /\ Len(p) \in DOMAIN p
  /\ \E writeOff \in {failedAt[debit] + WriteOffAfter, failedAt[debit] + MonthlyWriteOffAfter} :
       /\ debit \notin Monthly => writeOff = failedAt[debit] + WriteOffAfter
       /\ p[Len(p)] = Attempt("write_off", "none", writeOff)
       /\ \A i \in DOMAIN p : p[i].at <= writeOff
  /\ \A i \in DOMAIN p :
       /\ p[i].action = "write_off" => i = Len(p)
       /\ p[i].channel # "none" => p[i].action \notin {"retry", "write_off"}

(* The latest message is one of the executed rows, or there is none. *)
LEMMA CustomerTyped == Types => Customer \in CustomerRecords
<1>. SUFFICES ASSUME Types PROVE Customer \in CustomerRecords OBVIOUS
<1>1. Cardinality(ExecutedRetries) \in Nat
  <2>. DEFINE Places(p) == {p} \X DOMAIN attempts[p]
              all == {Places(p) : p \in Payments}
  <2>1. \A p \in Payments : IsFiniteSet(Places(p))
    <3>. TAKE p \in Payments
    <3>1. IsFiniteSet(DOMAIN attempts[p]) BY DEF Types, TypedRows
    <3>2. IsFiniteSet({p}) BY FS_Singleton
    <3>. QED BY <3>1, <3>2, FS_Product
  <2>2. IsFiniteSet(all)
    <3>. HIDE DEF Places
    <3>1. [p \in Payments |-> Places(p)] \in Surjection(Payments, all) BY DEF Surjection
    <3>. HIDE DEF all
    <3>. QED BY <3>1, FS_Surjection, LedgerAssumption
  <2>3. IsFiniteSet(UNION all)
    <3>1. \A T \in all : IsFiniteSet(T) BY <2>1
    <3>. HIDE DEF all, Places
    <3>. QED BY <2>2, <3>1, FS_UNION
  <2>4. ExecutedRetries \in SUBSET UNION all
    <3>1. \A x \in ExecutedRetries : \E p \in Payments : x \in Places(p) BY DEF ExecutedRetries
    <3>. QED BY <3>1
  <2>. HIDE DEF all
  <2>. QED BY <2>3, <2>4, FS_Subset, FS_CardinalityType
<1>2. LastContact \in Nat
  <2>. DEFINE times == {r.done : r \in {x \in Executed : x.action # "retry" /\ x.channel # "none"}}
              S == times \cup {NoTime}
  <2>1. \A r \in Executed : r.done \in Nat /\ r.done <= now
    BY DEF Executed, Rows, Types, TypedRows, TypedRow, AttemptRow
  <2>2. S \in SUBSET Int /\ S \in SUBSET Nat /\ S # {} /\ \A x \in S : x <= now
    <3>1. now \in Nat BY DEF Types
    <3>. QED BY <2>1, <3>1 DEF NoTime
  <2>3. now \in Int BY DEF Types
  <2>4. \E x \in S : \A y \in S : y <= x
    <3>. HIDE DEF S
    <3>. QED BY <2>2, <2>3, LatestExists
  <2>5. LastContact = CHOOSE t \in S : \A u \in times : u <= t BY DEF LastContact
  <2>6. LastContact \in S
    <3>1. \E t \in S : \A u \in times : u <= t BY <2>4
    <3>. HIDE DEF S, times
    <3>. QED BY <2>5, <3>1
  <2>. QED BY <2>2, <2>6
<1>. QED BY <1>1, <1>2, LedgerAssumption DEF Customer, CustomerRecords

(* Only a monthly debit can have the long horizon. *)
LEMMA PlanFitsThePayment ==
  ASSUME Types, NEW p \in Payments, failedAt[p] \in Start..now
  PROVE  PlanFits(Plan([code |-> code[p], monthly |-> p \in Monthly], Customer, failedAt[p]), p)
<1>. DEFINE debit == [code |-> code[p], monthly |-> p \in Monthly]
            t == failedAt[p]
            pl == Plan(debit, Customer, t)
            class0 == Classify(debit.code)
            escalates == Escalates(class0, debit, Customer)
            writeOff == WriteOffAt(escalates, t)
            retries == Retries(class0, debit, Customer, t)
            sent == Messages(StrategyTable[class0].messages, Dates(retries), Customer.contact,
                             t, writeOff)
            alerts == Humans(StrategyTable[class0].humans, t)
<1>1. debit.monthly \in BOOLEAN /\ (debit.monthly => p \in Monthly)
  <2>1. debit.monthly = (p \in Monthly) BY Zenon
  <2>2. (p \in Monthly) \in BOOLEAN
    <3>1. CASE p \in Monthly BY <3>1
    <3>2. CASE p \notin Monthly BY <3>2
    <3>. QED BY <3>1, <3>2
  <2>. HIDE DEF debit
  <2>. QED BY <2>1, <2>2, Zenon
<1>2. t \in Instants BY StartIsAnInstant DEF Types
<1>3. Customer \in CustomerRecords BY CustomerTyped
<1>4. p \notin Monthly => writeOff = t + WriteOffAfter
  BY <1>1 DEF Escalates, WriteOffAt
<1>. HIDE DEF debit
<1>5. /\ writeOff \in {t + WriteOffAfter, t + MonthlyWriteOffAfter}
      /\ PlanParts(pl, retries, sent, alerts, writeOff)
  <2>. HIDE DEF t
  <2>. QED BY <1>1, <1>2, <1>3, PlanHasParts
<1>. HIDE DEF pl, retries, sent, alerts, writeOff
<1>6. Len(pl) \in DOMAIN pl
  <2>1. pl \in Seq(PlannedAttempts) /\ pl[Len(pl)] = Attempt("write_off", "none", writeOff)
    BY <1>5 DEF PlanParts
  <2>. QED BY <1>5, <2>1 DEF PlanParts
<1>7. \A i \in DOMAIN pl : pl[i].at <= writeOff BY <1>5 DEF PlanParts
<1>8. \A i \in DOMAIN pl :
        /\ pl[i].action = "write_off" => i = Len(pl)
        /\ pl[i].channel # "none" => pl[i].action \notin {"retry", "write_off"}
  BY <1>5 DEF PlanParts
<1>9. pl \in Seq(PlannedAttempts) /\ pl[Len(pl)] = Attempt("write_off", "none", writeOff)
  BY <1>5 DEF PlanParts
<1>10. PlanFits(pl, p) BY <1>4, <1>5, <1>6, <1>7, <1>8, <1>9 DEF PlanFits
<1>. QED BY <1>10 DEF pl, debit

(* repository.py, _merge_attempts and _persist_attempts: every row is a    *)
(* finished one of before or a planned attempt; a finished one whose id no *)
(* attempt has remains; and the write-off of the plan is among them when   *)
(* none is done and nothing done is later.                                 *)
Merged(rows, p, new) ==
  /\ TypedRows(new, now)
  /\ \A i \in DOMAIN new :
       \/ i \in DOMAIN rows /\ rows[i].status \in Done /\ new[i] = rows[i]
       \/ i \in DOMAIN p /\ new[i] = Row(p[i])
  /\ \A i \in DOMAIN rows :
       rows[i].status \in Done /\ i \notin DOMAIN p => i \in DOMAIN new /\ new[i] = rows[i]
  /\ (\A i \in DOMAIN rows : rows[i].status \in Done =>
        rows[i].action # "write_off" /\ (i \in DOMAIN p => rows[i].at <= p[Len(p)].at))
     => Len(p) \in DOMAIN new /\ new[Len(p)] = Row(p[Len(p)])

LEMMA PlannedRow ==
  ASSUME now \in Nat, NEW attempt \in PlannedAttempts,
         attempt.channel # "none" => attempt.action \notin {"retry", "write_off"}
  PROVE  /\ TypedRow(Row(attempt), now)
         /\ Row(attempt).action = attempt.action /\ Row(attempt).channel = attempt.channel
         /\ Row(attempt).at = attempt.at
         /\ Row(attempt).status \in {"scheduled", "skipped"}
         /\ attempt.at # NoTime => Row(attempt).status = "scheduled"
BY DEF PlannedAttempts, Actions, Row, TypedRow, AttemptRow, NoTime, Done

LEMMA MergedRows ==
  ASSUME now \in Nat, NEW rows, TypedRows(rows, now), NEW pl, NEW p \in Payments, PlanFits(pl, p),
         failedAt[p] \in Nat
  PROVE  Merged(rows, pl, Persisted(History(rows), pl))
<1>. DEFINE history == History(rows)
            left == StepsLeft(pl, history)
            new == Persisted(history, pl)
            end == Len(pl)
<1>1. /\ DOMAIN history = {i \in DOMAIN rows : rows[i].status \in Done}
      /\ \A i \in DOMAIN history : history[i] = rows[i]
  BY DEF History
<1>. HIDE DEF history
<1>2. /\ pl \in Seq(PlannedAttempts) /\ DOMAIN pl = 1..end /\ end \in Nat /\ end \in DOMAIN pl
      /\ \A i \in DOMAIN pl : pl[i] \in PlannedAttempts
  BY DEF PlanFits
<1>3. left \subseteq DOMAIN pl BY DEF StepsLeft
<1>4. /\ DOMAIN new = DOMAIN history \cup left
      /\ \A i \in DOMAIN new :
           new[i] = IF i \in DOMAIN history /\ (i \notin left \/ Kept(history[i], pl[i]))
                    THEN history[i] ELSE Row(pl[i])
  BY DEF Persisted
<1>5. \A i \in DOMAIN pl : TypedRow(Row(pl[i]), now)
  <2>. TAKE i \in DOMAIN pl
  <2>1. pl[i].channel # "none" => pl[i].action \notin {"retry", "write_off"} BY DEF PlanFits
  <2>. QED BY <1>2, <2>1, PlannedRow
<1>6. \A i \in DOMAIN new :
        \/ i \in DOMAIN rows /\ rows[i].status \in Done /\ new[i] = rows[i]
        \/ i \in DOMAIN pl /\ new[i] = Row(pl[i])
  <2>. HIDE DEF new, left
  <2>. QED BY <1>1, <1>3, <1>4
<1>7. TypedRows(new, now)
  <2>1. IsFiniteSet(DOMAIN pl) BY <1>2, FS_Interval
  <2>2. IsFiniteSet(DOMAIN rows \cup DOMAIN pl) BY <2>1, FS_Union DEF TypedRows
  <2>. HIDE DEF new, left
  <2>3. DOMAIN new \in SUBSET (DOMAIN rows \cup DOMAIN pl) BY <1>1, <1>3, <1>4
  <2>4. IsFiniteSet(DOMAIN new) BY <2>2, <2>3, FS_Subset
  <2>5. DOMAIN new \subseteq Nat BY <1>2, <2>3 DEF TypedRows
  <2>. QED BY <1>5, <1>6, <2>4, <2>5 DEF TypedRows
<1>8. \A i \in DOMAIN rows :
        rows[i].status \in Done /\ i \notin DOMAIN pl => i \in DOMAIN new /\ new[i] = rows[i]
  <2>. HIDE DEF new, left
  <2>. QED BY <1>1, <1>3, <1>4
<1>9. ASSUME \A i \in DOMAIN rows : rows[i].status \in Done =>
               rows[i].action # "write_off" /\ (i \in DOMAIN pl => rows[i].at <= pl[end].at)
      PROVE  end \in DOMAIN new /\ new[end] = Row(pl[end])
  <2>. DEFINE same == {m \in 1..end : /\ pl[m].action = pl[end].action
                                      /\ pl[m].channel = pl[end].channel}
              spent == {i \in DOMAIN history : /\ history[i].action = pl[end].action
                                               /\ history[i].channel = pl[end].channel}
  <2>1. pl[end].action = "write_off" /\ pl[end].at \in Nat
    <3>1. pl[end].action = "write_off" BY DEF PlanFits, Attempt
    <3>. QED BY <1>2, <3>1 DEF PlannedAttempts
  <2>2. same = {end}
    <3>1. \A m \in same : m = end BY <1>2, <2>1 DEF PlanFits
    <3>. QED BY <1>2, <3>1
  <2>3. spent = {} BY <1>1, <1>9, <2>1
  <2>4. Cardinality(same) = 1 /\ Cardinality(spent) = 0
    <3>. HIDE DEF same, spent
    <3>. QED BY <2>2, <2>3, FS_Singleton, FS_EmptySet
  <2>5. end \in left BY <1>2, <2>4 DEF StepsLeft
  <2>6. end \in DOMAIN history => ~ Kept(history[end], pl[end])
    <3>. SUFFICES ASSUME end \in DOMAIN history PROVE ~ Kept(history[end], pl[end]) OBVIOUS
    <3>1. history[end] = rows[end] /\ rows[end].at <= pl[end].at BY <1>1, <1>2, <1>9
    <3>2. rows[end].at \in Nat BY <1>1 DEF TypedRows, TypedRow, AttemptRow
    <3>. QED BY <2>1, <3>1, <3>2 DEF Kept
  <2>. HIDE DEF new, left
  <2>. QED BY <1>4, <2>5, <2>6
<1>. QED BY <1>6, <1>7, <1>8, <1>9 DEF Merged, history

-----------------------------------------------------------------------------
(* The debits of one batch: ranked by their times, then by their ids, the  *)
(* retries have every rank below their number.                             *)
Earlier(rows, R, i) == {j \in R : rows[j].at < rows[i].at \/ (rows[j].at = rows[i].at /\ j < i)}

LEMMA EveryRankIsTaken ==
  ASSUME NEW R \in SUBSET Nat, IsFiniteSet(R), NEW rows, \A i \in R : rows[i].at \in Nat
  PROVE  /\ Cardinality(R) \in Nat
         /\ \A n \in 1..Cardinality(R) : \E i \in R : Cardinality(Earlier(rows, R, i)) = n - 1
<1>. DEFINE N == Cardinality(R)
            rank == [i \in R |-> Cardinality(Earlier(rows, R, i))]
            T == 0..(N - 1)
<1>1. N \in Nat BY FS_CardinalityType
<1>2. ASSUME NEW i \in R
      PROVE  /\ IsFiniteSet(Earlier(rows, R, i)) /\ i \notin Earlier(rows, R, i)
             /\ Cardinality(Earlier(rows, R, i)) \in T
  <2>1. i \notin Earlier(rows, R, i) BY DEF Earlier
  <2>2. Earlier(rows, R, i) \in SUBSET (R \ {i}) BY <2>1 DEF Earlier
  <2>3. IsFiniteSet(R \ {i}) /\ Cardinality(R \ {i}) = N - 1 BY FS_RemoveElement
  <2>4. /\ IsFiniteSet(Earlier(rows, R, i))
        /\ Cardinality(Earlier(rows, R, i)) <= N - 1
    BY <2>2, <2>3, FS_Subset
  <2>5. Cardinality(Earlier(rows, R, i)) \in Nat BY <2>4, FS_CardinalityType
  <2>. QED BY <1>1, <2>1, <2>4, <2>5
<1>3. ASSUME NEW i \in R, NEW j \in R, i \in Earlier(rows, R, j)
      PROVE  Cardinality(Earlier(rows, R, i)) < Cardinality(Earlier(rows, R, j))
  <2>. DEFINE S == Earlier(rows, R, i) \cup {i}
  <2>1. \A k \in Earlier(rows, R, i) : k \in Earlier(rows, R, j)
    <3>. TAKE k \in Earlier(rows, R, i)
    <3>1. k \in R /\ k \in Nat /\ i \in Nat /\ j \in Nat BY DEF Earlier
    <3>2. rows[k].at \in Nat /\ rows[i].at \in Nat /\ rows[j].at \in Nat BY <3>1
    <3>. QED BY <1>3, <3>1, <3>2 DEF Earlier
  <2>2. S \in SUBSET Earlier(rows, R, j) BY <1>3, <2>1
  <2>3. Cardinality(S) = Cardinality(Earlier(rows, R, i)) + 1 BY <1>2, FS_AddElement
  <2>4. Cardinality(S) <= Cardinality(Earlier(rows, R, j))
    <3>. HIDE DEF S
    <3>. QED BY <1>2, <2>2, FS_Subset
  <2>5. Cardinality(Earlier(rows, R, i)) \in Nat /\ Cardinality(Earlier(rows, R, j)) \in Nat
    BY <1>2
  <2>. QED BY <2>3, <2>4, <2>5
<1>4. rank \in Injection(R, T)
  <2>1. rank \in [R -> T] BY <1>2
  <2>2. ASSUME NEW i \in R, NEW j \in R, i # j PROVE rank[i] # rank[j]
    <3>1. rows[i].at \in Nat /\ rows[j].at \in Nat /\ i \in Nat /\ j \in Nat OBVIOUS
    <3>2. i \in Earlier(rows, R, j) \/ j \in Earlier(rows, R, i) BY <2>2, <3>1 DEF Earlier
    <3>3. rank[i] \in Int /\ rank[j] \in Int
      <4>. HIDE DEF rank
      <4>. QED BY <1>1, <2>1
    <3>4. CASE i \in Earlier(rows, R, j) BY <1>3, <3>3, <3>4
    <3>5. CASE j \in Earlier(rows, R, i) BY <1>3, <3>3, <3>5
    <3>. QED BY <3>2, <3>4, <3>5
  <2>. HIDE DEF rank
  <2>. QED BY <2>1, <2>2 DEF Injection, IsInjective
<1>5. IsFiniteSet(T) /\ Cardinality(T) = N
  <2>. HIDE DEF N
  <2>1. 0 \in Int /\ N - 1 \in Int BY <1>1
  <2>2. IsFiniteSet(T) /\ Cardinality(T) = IF 0 > N - 1 THEN 0 ELSE N - 1 - 0 + 1
    BY ONLY <2>1, FS_Interval
  <2>. QED BY <1>1, <2>2
<1>6. rank \in Surjection(R, T)
  <2>. HIDE DEF rank, T
  <2>. QED BY <1>4, <1>5, FS_Injection
<1>7. ASSUME NEW n \in 1..N PROVE \E i \in R : Cardinality(Earlier(rows, R, i)) = n - 1
  <2>1. n - 1 \in T BY <1>1
  <2>2. \E i \in R : rank[i] = n - 1
    <3>. HIDE DEF rank, T
    <3>. QED BY <1>6, <2>1 DEF Surjection
  <2>. QED BY <2>2
<1>. QED BY <1>1, <1>7

(* pinch_client.py, retry_payment: one debit per accepted retry, and none  *)
(* when nothing is taken.                                                  *)
LEMMA DebitsTyped ==
  ASSUME Types, NEW p \in Payments, NEW taken \in SUBSET Due(p), NEW refused
  PROVE  /\ Debits(p, taken, refused) \in Seq(Presentations)
         /\ taken = {} => Debits(p, taken, refused) = <<>>
<1>. DEFINE R == {i \in RetriesOf(p, taken) : <<p, i>> \notin refused}
            rows == attempts[p]
            debit(n) == rows[CHOOSE i \in R : Cardinality(Earlier(rows, R, i)) = n - 1].at
<1>1. /\ R \in SUBSET Nat /\ IsFiniteSet(R) /\ \A i \in R : rows[i].at \in Nat
  <2>1. R \in SUBSET DOMAIN rows BY DEF RetriesOf, Due
  <2>2. TypedRows(rows, now) BY DEF Types
  <2>. HIDE DEF R, rows
  <2>. QED BY <2>1, <2>2, FS_Subset DEF TypedRows, TypedRow, AttemptRow
<1>2. Debits(p, taken, refused) =
        [n \in 1..Cardinality(R) |-> [at |-> debit(n), class |-> Classify(code[p])]]
  BY DEF Debits, Earlier
<1>3. ASSUME NEW n \in 1..Cardinality(R) PROVE debit(n) \in Nat
  <2>. HIDE DEF R, rows
  <2>1. \E i \in R : Cardinality(Earlier(rows, R, i)) = n - 1 BY <1>1, EveryRankIsTaken
  <2>2. (CHOOSE i \in R : Cardinality(Earlier(rows, R, i)) = n - 1) \in R BY <2>1
  <2>. QED BY <1>1, <2>2
<1>4. Cardinality(R) \in Nat BY <1>1, EveryRankIsTaken
<1>5. \A n \in 1..Cardinality(R) :
        [at |-> debit(n), class |-> Classify(code[p])] \in Presentations
  BY <1>3, ClassifyTyped DEF Presentations
<1>6. Debits(p, taken, refused) \in Seq(Presentations)
  <2>. HIDE DEF R, debit
  <2>. QED BY <1>2, <1>4, <1>5
<1>7. ASSUME taken = {} PROVE Debits(p, taken, refused) = <<>>
  <2>1. R = {} BY <1>7 DEF RetriesOf
  <2>2. Cardinality(R) = 0
    <3>. HIDE DEF R
    <3>. QED BY <2>1, FS_EmptySet
  <2>. HIDE DEF R, debit
  <2>. QED BY <1>2, <2>2
<1>. QED BY <1>6, <1>7

-----------------------------------------------------------------------------
(* One step at a time.  A step leaves a file alone when nothing of it      *)
(* changes; time may pass and recovery be run again on another.            *)
Untouched(p) ==
  /\ status'[p] = status[p] /\ class'[p] = class[p] /\ failedAt'[p] = failedAt[p]
  /\ attempts'[p] = attempts[p] /\ presented'[p] = presented[p] /\ answered'[p] = answered[p]
  /\ {m \in outbox' : m.payment = p} = {m \in outbox : m.payment = p}

Goes == now' \in Nat /\ now' >= now /\ (reruns' = 0 => reruns = 0)

LEMMA UntouchedKeeps ==
  ASSUME LedgerInv, NEW p \in Payments, Untouched(p), Goes
  PROVE  FileInv(p)'
<1>0. FileInv(p) /\ failedAt[p] \in Nat /\ now \in Nat /\ Start \in Nat
  BY LedgerAssumption DEF LedgerInv, Types
<1>1. Heard(p)' BY <1>0 DEF FileInv, Heard, Untouched, Goes
<1>2. FixCloses(p)' BY <1>0 DEF FileInv, FixCloses, Untouched
<1>3. EndIsAhead(p)' BY <1>0 DEF FileInv, EndIsAhead, Untouched
<1>4. HasItsEnd(p)' BY <1>0 DEF FileInv, HasItsEnd, Untouched, Goes
<1>5. MessagesMatch(p)' BY <1>0 DEF FileInv, MessagesMatch, Untouched, Goes
<1>6. HasEvidence(p)' BY <1>0 DEF FileInv, HasEvidence, Untouched, Goes
<1>. QED BY <1>1, <1>2, <1>3, <1>4, <1>5, <1>6 DEF FileInv

LEMMA LaterRows ==
  ASSUME NEW rows, NEW t \in Nat, NEW u \in Nat, t <= u, TypedRows(rows, t)
  PROVE  TypedRows(rows, u)
BY DEF TypedRows, TypedRow, AttemptRow

(* A first dishonour opens a file that has nothing yet. *)
LEMMA FirstDishonourIsSound ==
  ASSUME LedgerInv, NEW p \in Payments, NEW c \in Codes, FirstDishonour(p, c)
  PROVE  LedgerInv'
<1>1. /\ status[p] = "absent" /\ status' = [status EXCEPT ![p] = "failed"]
      /\ code' = [code EXCEPT ![p] = c] /\ failedAt' = [failedAt EXCEPT ![p] = now]
      /\ UNCHANGED <<now, class, attempts, outbox, presented, answered, reruns>>
  BY DEF FirstDishonour, Dishonoured, Closed
<1>2. Types' BY <1>1 DEF LedgerInv, Types
<1>3. ASSUME NEW q \in Payments, q # p PROVE FileInv(q)'
  <2>1. Untouched(q) /\ Goes BY <1>1, <1>3 DEF Untouched, Goes, LedgerInv, Types
  <2>. QED BY <2>1, UntouchedKeeps
<1>4. FileInv(p)'
  <2>1. FileInv(p) /\ DOMAIN attempts[p] = {} /\ class[p] = NotClassified
    BY <1>1 DEF LedgerInv, FileInv, Heard
  <2>2. status'[p] = "failed" /\ failedAt'[p] = now BY <1>1 DEF LedgerInv, Types
  <2>3. Heard(p)' BY <1>1, <2>1, <2>2, LedgerAssumption DEF Heard, LedgerInv, Types
  <2>4. FixCloses(p)' /\ EndIsAhead(p)' /\ HasItsEnd(p)' /\ HasEvidence(p)'
    BY <1>1, <2>1, <2>2 DEF FixCloses, EndIsAhead, HasItsEnd, HasEvidence
  <2>5. MessagesMatch(p)' BY <1>1, <2>1 DEF FileInv, MessagesMatch
  <2>. QED BY <2>3, <2>4, <2>5 DEF FileInv
<1>. QED BY <1>2, <1>3, <1>4 DEF LedgerInv

(* An answer adds to the history of a file that was opened before. *)
LEMMA AnswerRecorded ==
  ASSUME Types, NEW p \in Payments, NEW n, AnswerDue(p, n), NEW answer,
         answered' = [answered EXCEPT ![p] = Adding(@, n, answer)]
  PROVE  /\ DOMAIN answered' = Payments
         /\ n \in DOMAIN presented[p] /\ n \notin DOMAIN answered[p]
         /\ \A q \in Payments : q # p => answered'[q] = answered[q]
         /\ DOMAIN answered'[p] = DOMAIN answered[p] \cup {n} /\ answered'[p][n] = answer
         /\ \A m \in DOMAIN answered[p] : answered'[p][m] = answered[p][m]
BY DEF Types, AnswerDue, Unanswered, Adding

LEMMA AnswerDishonourIsSound ==
  ASSUME LedgerInv, NEW p \in Payments, NEW n, NEW c \in Codes, AnswerDishonour(p, n, c)
  PROVE  LedgerInv'
<1>0. Types /\ AnswerDue(p, n) /\ answered' = [answered EXCEPT ![p] = Adding(@, n, c)]
  BY DEF LedgerInv, AnswerDishonour
<1>1. /\ UNCHANGED <<now, class, attempts, outbox, presented, reruns>>
      /\ Dishonoured(p, c)
  BY DEF AnswerDishonour, Dishonoured, rowVars
<1>2. /\ DOMAIN answered' = Payments
      /\ n \in DOMAIN presented[p] /\ n \notin DOMAIN answered[p]
      /\ \A q \in Payments : q # p => answered'[q] = answered[q]
      /\ DOMAIN answered'[p] = DOMAIN answered[p] \cup {n} /\ answered'[p][n] = c
      /\ \A m \in DOMAIN answered[p] : answered'[p][m] = answered[p][m]
  BY <1>0, AnswerRecorded
<1>3. /\ status' \in [Payments -> {"absent", "failed"} \cup Closed]
      /\ code' \in [Payments -> Codes \cup {NoCode}] /\ failedAt' \in [Payments -> Nat]
      /\ \A q \in Payments : q # p => status'[q] = status[q] /\ failedAt'[q] = failedAt[q]
      /\ status[p] \in Closed => status'[p] = status[p] /\ failedAt'[p] = failedAt[p]
      /\ status[p] \notin Closed => status'[p] = "failed" /\ failedAt'[p] = now
  BY <1>0, <1>1 DEF Dishonoured, Types, rowVars
<1>4. Types' BY <1>0, <1>1, <1>2, <1>3 DEF Types
<1>5. ASSUME NEW q \in Payments, q # p PROVE FileInv(q)'
  <2>1. Untouched(q) /\ Goes BY <1>0, <1>1, <1>2, <1>3, <1>5 DEF Untouched, Goes, Types
  <2>. QED BY <2>1, UntouchedKeeps
<1>6. FileInv(p)'
  <2>0. FileInv(p) /\ now \in Nat /\ failedAt[p] \in Nat /\ Start <= now /\ Start \in Nat
        /\ failedAt[p] <= now /\ status[p] # "absent"
    <3>1. presented[p] # <<>> BY <1>2
    <3>. QED BY <1>0, <3>1, LedgerAssumption DEF LedgerInv, FileInv, Heard, Types
  <2>1. status[p] \notin Closed => status[p] = "failed" BY <1>0, <2>0 DEF Types
  <2>2. status'[p] = status[p] /\ failedAt'[p] \in Start..now /\ failedAt[p] <= failedAt'[p]
    BY <1>3, <2>0, <2>1 DEF FileInv, Heard
  <2>3. Heard(p)' BY <1>1, <2>0, <2>2 DEF FileInv, Heard
  <2>4. FixCloses(p)' BY <1>1, <2>0, <2>2 DEF FileInv, FixCloses
  <2>5. \A i \in DOMAIN attempts[p] : attempts[p][i].at \in Nat
    BY <1>0 DEF Types, TypedRows, TypedRow, AttemptRow
  <2>6. EndIsAhead(p)'
    BY <1>1, <2>0, <2>2, <2>5 DEF FileInv, EndIsAhead, WriteOffAfter
  <2>7. HasItsEnd(p)'
    BY <1>1, <2>0, <2>2, <2>5 DEF FileInv, HasItsEnd, MonthlyWriteOffAfter
  <2>8. MessagesMatch(p)' BY <1>1, <2>0 DEF FileInv, MessagesMatch
  <2>9. HasEvidence(p)' BY <1>1, <1>2, <2>0, <2>2 DEF FileInv, HasEvidence
  <2>. QED BY <2>3, <2>4, <2>6, <2>7, <2>8, <2>9 DEF FileInv
<1>. QED BY <1>4, <1>5, <1>6 DEF LedgerInv

LEMMA AnswerClearedIsSound ==
  ASSUME LedgerInv, NEW p \in Payments, NEW n, AnswerCleared(p, n)
  PROVE  LedgerInv'
<1>0. Types /\ AnswerDue(p, n) /\ answered' = [answered EXCEPT ![p] = Adding(@, n, "cleared")]
  BY DEF LedgerInv, AnswerCleared
<1>1. /\ UNCHANGED <<now, code, class, failedAt, attempts, outbox, presented, reruns>>
      /\ status' = [status EXCEPT ![p] = "recovered"]
  BY DEF AnswerCleared
<1>2. /\ DOMAIN answered' = Payments
      /\ n \in DOMAIN presented[p] /\ n \notin DOMAIN answered[p]
      /\ \A q \in Payments : q # p => answered'[q] = answered[q]
      /\ DOMAIN answered'[p] = DOMAIN answered[p] \cup {n} /\ answered'[p][n] = "cleared"
  BY <1>0, AnswerRecorded
<1>3. Types' BY <1>0, <1>1, <1>2 DEF Types, Closed
<1>4. ASSUME NEW q \in Payments, q # p PROVE FileInv(q)'
  <2>1. Untouched(q) /\ Goes BY <1>0, <1>1, <1>2, <1>4 DEF Untouched, Goes, Types
  <2>. QED BY <2>1, UntouchedKeeps
<1>5. FileInv(p)'
  <2>1. FileInv(p) /\ status[p] # "absent" /\ status'[p] = "recovered"
    <3>1. presented[p] # <<>> BY <1>2
    <3>. QED BY <1>0, <1>1, <3>1 DEF LedgerInv, FileInv, Heard, Types
  <2>2. Heard(p)' /\ FixCloses(p)' BY <1>1, <2>1 DEF FileInv, Heard, FixCloses
  <2>3. EndIsAhead(p)' /\ HasItsEnd(p)' BY <1>1, <2>1 DEF FileInv, EndIsAhead, HasItsEnd
  <2>4. MessagesMatch(p)' BY <1>1, <2>1 DEF FileInv, MessagesMatch
  <2>5. HasEvidence(p)' BY <1>2 DEF HasEvidence
  <2>. QED BY <2>1, <2>2, <2>3, <2>4, <2>5 DEF FileInv
<1>. QED BY <1>3, <1>4, <1>5 DEF LedgerInv

(* Time passes over rows that were dated before. *)
LEMMA AdvanceIsSound ==
  ASSUME LedgerInv, NEW t \in Moments, Advance(t)
  PROVE  LedgerInv'
<1>0. Types /\ now \in Nat BY DEF LedgerInv, Types
<1>1. UNCHANGED <<status, code, class, failedAt, attempts, outbox, presented, answered, reruns>>
      /\ now' = t /\ t > now
  BY DEF Advance, rowVars
<1>2. t \in Nat
  <2>1. PICK p \in Payments :
          \/ \E r \in {x \in Rows(p) : x.status = "scheduled"} : t = r.at
          \/ \E n \in Unanswered(p) : t = presented[p][n].at + SettlementTime
    BY DEF Moments
  <2>2. ASSUME NEW r \in Rows(p) PROVE r.at \in Nat
    BY <1>0 DEF Types, Rows, TypedRows, TypedRow, AttemptRow
  <2>3. ASSUME NEW n \in Unanswered(p) PROVE presented[p][n].at + SettlementTime \in Nat
    <3>1. presented[p] \in Seq(Presentations) /\ n \in DOMAIN presented[p]
      BY <1>0 DEF Types, Unanswered
    <3>2. presented[p][n] \in Presentations BY <3>1
    <3>. QED BY <3>2 DEF Presentations, SettlementTime
  <2>. QED BY <2>1, <2>2, <2>3
<1>3. Types'
  <2>1. ASSUME NEW p \in Payments PROVE TypedRows(attempts[p], now)'
    <3>1. TypedRows(attempts[p], now) BY <1>0 DEF Types
    <3>2. TypedRows(attempts[p], t) BY <1>0, <1>1, <1>2, <3>1, LaterRows
    <3>. QED BY <1>1, <3>2
  <2>2. Start <= now' BY <1>0, <1>1, <1>2, LedgerAssumption DEF Types
  <2>. QED BY <1>0, <1>1, <1>2, <2>1, <2>2 DEF Types
<1>4. ASSUME NEW p \in Payments PROVE FileInv(p)'
  <2>1. Untouched(p) /\ Goes BY <1>0, <1>1, <1>2 DEF Untouched, Goes
  <2>. QED BY <2>1, UntouchedKeeps
<1>. QED BY <1>3, <1>4 DEF LedgerInv

(* Running recovery: before the first class there is no row but that of    *)
(* new details, and later nothing done is beyond the end that is planned,  *)
(* save for a monthly debit.                                               *)
LEMMA RecoverIsSound ==
  ASSUME LedgerInv, NEW p \in Payments, Recover(p),
         reruns' \in 0..MaxReruns,
         \/ class[p] = NotClassified /\ reruns' = reruns
         \/ class[p] # NotClassified /\ reruns' # 0
  PROVE  LedgerInv'
<1>0. Types /\ FileInv(p) BY DEF LedgerInv
<1>. DEFINE debit == [code |-> code[p], monthly |-> p \in Monthly]
            pl == Plan(debit, Customer, failedAt[p])
            rows == attempts[p]
            new == Persisted(History(rows), pl)
<1>1. /\ UNCHANGED <<now, status, code, failedAt, outbox, presented, answered>>
      /\ class' = [class EXCEPT ![p] = Classify(code[p])] /\ failedAt[p] # NoTime
      /\ attempts' = [attempts EXCEPT ![p] = new]
  BY DEF Recover, Classified
<1>2. status[p] # "absent" /\ failedAt[p] \in Start..now
  BY <1>0, <1>1 DEF FileInv, Heard
<1>3. PlanFits(pl, p) BY <1>0, <1>2, PlanFitsThePayment
<1>. HIDE DEF pl
<1>4. TypedRows(rows, now) /\ now \in Nat /\ failedAt[p] \in Nat BY <1>0 DEF Types
<1>5. Merged(rows, pl, new)
  <2>. HIDE DEF rows
  <2>. QED BY <1>3, <1>4, MergedRows
<1>. HIDE DEF new
<1>6. /\ attempts'[p] = new /\ DOMAIN attempts' = Payments
      /\ class'[p] \in FailureClass
      /\ \A q \in Payments : q # p => attempts'[q] = attempts[q] /\ class'[q] = class[q]
  BY <1>0, <1>1, ClassifyTyped DEF Types
<1>7. Types'
  <2>1. ASSUME NEW q \in Payments PROVE TypedRows(attempts[q], now)'
    <3>1. CASE q = p BY <1>1, <1>5, <1>6, <3>1 DEF Merged
    <3>2. CASE q # p BY <1>0, <1>1, <1>6, <3>2 DEF Types
    <3>. QED BY <3>1, <3>2
  <2>2. class' \in [Payments -> FailureClass \cup {NotClassified}]
    BY <1>0, <1>1, ClassifyTyped DEF Types
  <2>. QED BY <1>0, <1>1, <1>6, <2>1, <2>2 DEF Types
<1>8. ASSUME NEW q \in Payments, q # p PROVE FileInv(q)'
  <2>1. Untouched(q) /\ Goes BY <1>0, <1>1, <1>6, <1>8 DEF Untouched, Goes, Types
  <2>. QED BY <2>1, UntouchedKeeps
<1>9. FileInv(p)'
  <2>. DEFINE end == Len(pl)
  <2>1. PICK writeOff \in {failedAt[p] + WriteOffAfter, failedAt[p] + MonthlyWriteOffAfter} :
          /\ p \notin Monthly => writeOff = failedAt[p] + WriteOffAfter
          /\ pl[end] = Attempt("write_off", "none", writeOff)
          /\ \A i \in DOMAIN pl : pl[i].at <= writeOff
    BY <1>3 DEF PlanFits
  <2>2. /\ \A i \in DOMAIN pl : i # Fix /\ i \in Nat /\ pl[i] \in PlannedAttempts
        /\ \A i \in DOMAIN pl : pl[i].action = "write_off" => i = end
        /\ end \in DOMAIN pl
    BY <1>3 DEF PlanFits, Fix
  <2>3. \A i \in DOMAIN pl :
          /\ Row(pl[i]).action = pl[i].action /\ Row(pl[i]).channel = pl[i].channel
          /\ Row(pl[i]).at = pl[i].at /\ Row(pl[i]).status \in {"scheduled", "skipped"}
          /\ pl[i].at # NoTime => Row(pl[i]).status = "scheduled"
    <3>. TAKE i \in DOMAIN pl
    <3>1. pl[i].channel # "none" => pl[i].action \notin {"retry", "write_off"}
      BY <1>3 DEF PlanFits
    <3>. QED BY <1>4, <2>2, <3>1, PlannedRow
  <2>4. \A i \in DOMAIN new :
          \/ i \in DOMAIN rows /\ rows[i].status \in Done /\ new[i] = rows[i]
          \/ i \in DOMAIN pl /\ new[i] = Row(pl[i])
    BY <1>5 DEF Merged
  <2>5. class[p] = NotClassified => DOMAIN rows \subseteq {Fix}
    BY <1>0 DEF FileInv, FixCloses
  <2>6. Heard(p)' BY <1>0, <1>1, <1>2 DEF FileInv, Heard
  <2>7. FixCloses(p)'
    <3>1. class'[p] # NotClassified BY <1>6 DEF FailureClass, NotClassified
    <3>2. Fix \in DOMAIN new => Fix \in DOMAIN rows /\ new[Fix] = rows[Fix] BY <2>2, <2>4
    <3>. QED BY <1>0, <1>1, <1>6, <3>1, <3>2 DEF FileInv, FixCloses
  <2>8. EndIsAhead(p)'
    <3>1. ASSUME status[p] = "failed", NEW i \in DOMAIN new, new[i].action = "write_off"
          PROVE  new[i].status \notin Done
      <4>1. CASE i \in DOMAIN rows /\ rows[i].status \in Done /\ new[i] = rows[i]
        BY <1>0, <3>1, <4>1 DEF FileInv, EndIsAhead
      <4>2. CASE i \in DOMAIN pl /\ new[i] = Row(pl[i]) BY <2>3, <4>2 DEF Done
      <4>. QED BY <2>4, <4>1, <4>2
    <3>2. ASSUME p \notin Monthly, NEW i \in DOMAIN new, i # Fix
          PROVE  new[i].at <= failedAt[p] + WriteOffAfter
      <4>1. CASE i \in DOMAIN rows /\ rows[i].status \in Done /\ new[i] = rows[i]
        BY <1>0, <3>2, <4>1 DEF FileInv, EndIsAhead
      <4>2. CASE i \in DOMAIN pl /\ new[i] = Row(pl[i]) BY <2>1, <2>3, <3>2, <4>2
      <4>. QED BY <2>4, <4>1, <4>2
    <3>. QED BY <1>1, <1>6, <3>1, <3>2 DEF EndIsAhead
  <2>9. HasItsEnd(p)'
    <3>. SUFFICES ASSUME status[p] = "failed", p \in Monthly => reruns' = 0
                  PROVE  /\ end \in DOMAIN new /\ new[end].action = "write_off"
                         /\ new[end].status = "scheduled"
                         /\ new[end].at <= failedAt[p] + MonthlyWriteOffAfter
      BY <1>1, <1>6 DEF HasItsEnd
    <3>0. pl[end].at = writeOff /\ pl[end].action = "write_off" BY <2>1 DEF Attempt
    <3>1. ASSUME NEW i \in DOMAIN rows, rows[i].status \in Done
          PROVE  /\ rows[i].action # "write_off"
                 /\ i \in DOMAIN pl => rows[i].at <= pl[end].at
      <4>1. rows[i].action # "write_off" BY <1>0, <3>1 DEF FileInv, EndIsAhead
      <4>2. ASSUME i \in DOMAIN pl PROVE rows[i].at <= pl[end].at
        <5>1. i # Fix BY <2>2, <4>2
        <5>2. p \notin Monthly BY <2>5, <5>1
        <5>3. rows[i].at <= failedAt[p] + WriteOffAfter
          BY <1>0, <5>1, <5>2 DEF FileInv, EndIsAhead
        <5>. QED BY <2>1, <3>0, <5>2, <5>3
      <4>. QED BY <4>1, <4>2
    <3>2. end \in DOMAIN new /\ new[end] = Row(pl[end]) BY <1>5, <3>1 DEF Merged
    <3>3. writeOff <= failedAt[p] + MonthlyWriteOffAfter /\ writeOff # NoTime
      BY <1>4, <2>1 DEF MonthlyWriteOffAfter, WriteOffAfter, NoTime
    <3>. QED BY <2>2, <2>3, <3>0, <3>2, <3>3
  <2>10. MessagesMatch(p)'
    <3>. SUFFICES ASSUME reruns' = 0 PROVE MessagesMatch(p)' BY DEF MessagesMatch
    <3>1. class[p] = NotClassified /\ reruns = 0 OBVIOUS
    <3>2. {j \in DOMAIN rows : rows[j].status = "executed" /\ rows[j].channel # "none"} = {}
      BY <1>0, <2>5, <3>1 DEF FileInv, FixCloses
    <3>3. {j \in DOMAIN new : new[j].status = "executed" /\ new[j].channel # "none"} = {}
      <4>. SUFFICES ASSUME NEW j \in DOMAIN new, new[j].status = "executed",
                           new[j].channel # "none"
                    PROVE  FALSE
        OBVIOUS
      <4>1. ~ (j \in DOMAIN pl /\ new[j] = Row(pl[j])) BY <2>3
      <4>2. j \in DOMAIN rows /\ new[j] = rows[j] BY <2>4, <4>1
      <4>. QED BY <3>2, <4>2
    <3>4. MessagesMatch(p) BY <1>0 DEF FileInv
    <3>. QED BY <1>1, <1>6, <3>1, <3>2, <3>3, <3>4 DEF MessagesMatch
  <2>11. HasEvidence(p)'
    <3>. SUFFICES ASSUME status'[p] = "recovered", reruns' = 0
                  PROVE  HasEvidence(p)'
      BY DEF HasEvidence
    <3>1. class[p] = NotClassified /\ reruns = 0 /\ HasEvidence(p) BY <1>0 DEF FileInv
    <3>2. \A i \in DOMAIN rows : rows[i].status = "succeeded" => i \in DOMAIN new /\ new[i] = rows[i]
      BY <1>5, <2>2, <2>5, <3>1 DEF Merged, Done
    <3>. QED BY <1>1, <1>6, <3>1, <3>2 DEF HasEvidence
  <2>. QED BY <2>6, <2>7, <2>8, <2>9, <2>10, <2>11 DEF FileInv
<1>. QED BY <1>7, <1>8, <1>9 DEF LedgerInv

LEMMA ClassifyNewIsSound ==
  ASSUME LedgerInv, NEW p \in Payments, ClassifyNew(p)
  PROVE  LedgerInv'
<1>1. reruns \in 0..MaxReruns BY DEF LedgerInv, Types
<1>. QED BY <1>1, RecoverIsSound DEF ClassifyNew

LEMMA RunAgainIsSound ==
  ASSUME LedgerInv, NEW p \in Payments, RunAgain(p)
  PROVE  LedgerInv'
<1>1. reruns \in 0..MaxReruns BY DEF LedgerInv, Types
<1>2. reruns' \in 0..MaxReruns /\ reruns' # 0 BY <1>1, LedgerAssumption DEF RunAgain
<1>. QED BY <1>2, RecoverIsSound DEF RunAgain

-----------------------------------------------------------------------------
(* New details: what was done stays as it was, and one row succeeds. *)
Settled(rows, new) ==
  /\ TypedRows(new, now)
  /\ \A i \in DOMAIN rows : i \in DOMAIN new
  /\ \A i \in DOMAIN new :
       \/ /\ i \in DOMAIN rows
          /\ new[i].action = rows[i].action /\ new[i].channel = rows[i].channel
          /\ new[i].at = rows[i].at
          /\ new[i].status = "executed" <=> rows[i].status = "executed"
       \/ /\ i = Fix /\ i \notin DOMAIN rows
          /\ new[i].status = "succeeded"
  /\ \E i \in DOMAIN new : new[i].status = "succeeded"

LEMMA CorrectedRows ==
  ASSUME now \in Nat, now # NoTime, NEW rows, TypedRows(rows, now), Fix \notin DOMAIN rows
  PROVE  Settled(rows, Corrected(rows, FirstPendingRetry(rows)))
<1>. DEFINE used == FirstPendingRetry(rows)
            skipped == [i \in DOMAIN rows |->
              IF i \in used THEN [rows[i] EXCEPT !.status = "succeeded", !.done = now]
              ELSE IF rows[i].status = "scheduled" THEN [rows[i] EXCEPT !.status = "skipped"]
              ELSE rows[i]]
            fix == [action |-> "retry", channel |-> "none", at |-> now,
                    status |-> "succeeded", done |-> now]
            new == Corrected(rows, used)
<1>1. used \subseteq {i \in DOMAIN rows : rows[i].action = "retry" /\ rows[i].status = "scheduled"}
  BY DEF FirstPendingRetry
<1>. HIDE DEF used
<1>2. ASSUME NEW i \in DOMAIN rows
      PROVE  /\ TypedRow(skipped[i], now)
             /\ skipped[i].action = rows[i].action /\ skipped[i].channel = rows[i].channel
             /\ skipped[i].at = rows[i].at
             /\ skipped[i].status = "executed" <=> rows[i].status = "executed"
             /\ i \in used => skipped[i].status = "succeeded"
  <2>1. TypedRow(rows[i], now) BY DEF TypedRows
  <2>2. CASE i \in used
    <3>1. skipped[i] = [rows[i] EXCEPT !.status = "succeeded", !.done = now] BY <2>2
    <3>2. rows[i].status = "scheduled" BY <1>1, <2>2
    <3>. HIDE DEF skipped
    <3>3. rows[i] \in AttemptRow /\ rows[i].at # NoTime
          /\ (rows[i].action = "retry" => rows[i].channel = "none")
      BY <2>1, <3>2 DEF TypedRow
    <3>4. skipped[i] \in AttemptRow BY <3>1, <3>3 DEF AttemptRow, Done
    <3>5. /\ skipped[i].action = rows[i].action /\ skipped[i].channel = rows[i].channel
          /\ skipped[i].at = rows[i].at
          /\ skipped[i].status = "succeeded" /\ skipped[i].done = now
      BY <3>1, <3>3 DEF AttemptRow
    <3>6. rows[i].action = "retry" BY <1>1, <2>2
    <3>7. TypedRow(skipped[i], now) BY <3>3, <3>4, <3>5, <3>6 DEF TypedRow
    <3>. QED BY <3>2, <3>5, <3>7
  <2>3. CASE i \notin used /\ rows[i].status = "scheduled"
    <3>1. skipped[i] = [rows[i] EXCEPT !.status = "skipped"] BY <2>3
    <3>. HIDE DEF skipped
    <3>. QED BY <2>1, <2>3, <3>1 DEF TypedRow, AttemptRow, Done
  <2>4. CASE i \notin used /\ rows[i].status # "scheduled"
    <3>1. skipped[i] = rows[i] BY <2>4
    <3>. HIDE DEF skipped
    <3>. QED BY <2>1, <2>4, <3>1
  <2>. QED BY <2>2, <2>3, <2>4
<1>3. DOMAIN skipped = DOMAIN rows OBVIOUS
<1>4. TypedRow(fix, now) BY DEF TypedRow, AttemptRow, Done
<1>5. new = IF used = {} THEN Adding(skipped, Fix, fix) ELSE skipped BY DEF Corrected
<1>. HIDE DEF skipped, new
<1>6. IsFiniteSet(DOMAIN rows) /\ DOMAIN rows \subseteq Nat BY DEF TypedRows
<1>7. CASE used = {}
  <2>1. DOMAIN new = DOMAIN rows \cup {Fix} /\ new[Fix] = fix
        /\ \A i \in DOMAIN rows : new[i] = skipped[i]
    BY <1>3, <1>5, <1>7 DEF Adding
  <2>2. IsFiniteSet(DOMAIN new) /\ DOMAIN new \subseteq Nat
    BY <1>6, <2>1, FS_AddElement DEF Fix
  <2>3. TypedRows(new, now) BY <1>2, <1>4, <2>1, <2>2 DEF TypedRows
  <2>4. fix.status = "succeeded" OBVIOUS
  <2>. HIDE DEF fix
  <2>5. \A i \in DOMAIN new :
          \/ /\ i \in DOMAIN rows
             /\ new[i].action = rows[i].action /\ new[i].channel = rows[i].channel
             /\ new[i].at = rows[i].at
             /\ new[i].status = "executed" <=> rows[i].status = "executed"
          \/ /\ i = Fix /\ i \notin DOMAIN rows
             /\ new[i].status = "succeeded"
    <3>. TAKE i \in DOMAIN new
    <3>1. CASE i \in DOMAIN rows BY <1>2, <2>1, <3>1
    <3>2. CASE i \notin DOMAIN rows BY <2>1, <2>4, <3>2
    <3>. QED BY <3>1, <3>2
  <2>6. Settled(rows, new) BY <2>1, <2>3, <2>4, <2>5 DEF Settled
  <2>. QED BY <2>6 DEF new, used
<1>8. CASE used # {}
  <2>1. new = skipped BY <1>5, <1>8
  <2>2. TypedRows(new, now) BY <1>2, <1>3, <1>6, <2>1 DEF TypedRows
  <2>3. PICK i \in used : TRUE BY <1>8
  <2>4. i \in DOMAIN new /\ new[i].status = "succeeded" BY <1>1, <1>2, <1>3, <2>1, <2>3
  <2>5. \A k \in DOMAIN new :
          /\ k \in DOMAIN rows
          /\ new[k].action = rows[k].action /\ new[k].channel = rows[k].channel
          /\ new[k].at = rows[k].at
          /\ new[k].status = "executed" <=> rows[k].status = "executed"
    BY <1>2, <1>3, <2>1
  <2>6. Settled(rows, new) BY <1>3, <2>1, <2>2, <2>4, <2>5 DEF Settled
  <2>. QED BY <2>6 DEF new, used
<1>. QED BY <1>7, <1>8

(* A payment that is charged with new details has evidence of it, and      *)
(* keeps the messages it has.                                              *)
LEMMA UpdateDetailsIsSound ==
  ASSUME LedgerInv, UpdateDetails
  PROVE  LedgerInv'
<1>0. Types BY DEF LedgerInv
<1>. DEFINE fixed == {p \in Payments : status[p] = "failed" /\ class[p] \notin NotChargeable}
<1>1. /\ attempts' = [p \in Payments |->
           IF p \in fixed THEN Corrected(attempts[p], FirstPendingRetry(attempts[p]))
           ELSE attempts[p]]
      /\ status' = [p \in Payments |-> IF p \in fixed THEN "recovered" ELSE status[p]]
      /\ UNCHANGED <<now, code, class, failedAt, outbox, presented, answered, reruns>>
  BY DEF UpdateDetails
<1>2. \A p \in fixed : p \in Payments /\ status[p] = "failed" OBVIOUS
<1>. HIDE DEF fixed
<1>3. ASSUME NEW p \in Payments, p \notin fixed PROVE FileInv(p)'
  <2>1. Untouched(p) /\ Goes BY <1>0, <1>1, <1>3 DEF Untouched, Goes, Types
  <2>. QED BY <2>1, UntouchedKeeps
<1>4. ASSUME NEW p \in fixed PROVE Settled(attempts[p], attempts'[p])
  <2>1. p \in Payments /\ FileInv(p) /\ status[p] = "failed" BY <1>2 DEF LedgerInv
  <2>2. Fix \notin DOMAIN attempts[p] BY <2>1 DEF FileInv, FixCloses
  <2>3. now \in Nat /\ now # NoTime /\ TypedRows(attempts[p], now)
    BY <1>0, <2>1, StartIsAnInstant DEF Types
  <2>4. attempts'[p] = Corrected(attempts[p], FirstPendingRetry(attempts[p])) BY <1>1, <2>1
  <2>. QED BY <2>2, <2>3, <2>4, CorrectedRows
<1>5. ASSUME NEW p \in fixed PROVE FileInv(p)'
  <2>. DEFINE rows == attempts[p]
              new == attempts'[p]
  <2>0. p \in Payments /\ FileInv(p) /\ status[p] = "failed" BY <1>2 DEF LedgerInv
  <2>1. status'[p] = "recovered" BY <1>1, <2>0
  <2>2. Settled(rows, new) BY <1>4
  <2>3. Heard(p)' BY <1>1, <2>0, <2>1 DEF FileInv, Heard
  <2>4. FixCloses(p)'
    <3>1. class[p] = NotClassified => DOMAIN new \subseteq {Fix}
      BY <2>0, <2>2 DEF FileInv, FixCloses, Settled
    <3>2. Fix \in DOMAIN new => new[Fix].status = "succeeded"
      BY <2>0, <2>2 DEF FileInv, FixCloses, Settled
    <3>. QED BY <1>1, <2>1, <3>1, <3>2 DEF FixCloses
  <2>5. EndIsAhead(p)'
    <3>1. ASSUME p \notin Monthly, NEW i \in DOMAIN new, i # Fix
          PROVE  new[i].at <= failedAt[p] + WriteOffAfter
      BY <2>0, <2>2, <3>1 DEF FileInv, EndIsAhead, Settled
    <3>. QED BY <1>1, <2>1, <3>1 DEF EndIsAhead
  <2>6. HasItsEnd(p)' BY <2>1 DEF HasItsEnd
  <2>7. MessagesMatch(p)'
    <3>. DEFINE before == {j \in DOMAIN rows : rows[j].status = "executed" /\ rows[j].channel # "none"}
                after == {j \in DOMAIN new : new[j].status = "executed" /\ new[j].channel # "none"}
    <3>1. before = after
      <4>1. \A j \in before : j \in after BY <2>2 DEF Settled
      <4>2. \A j \in after : j \in before BY <2>2 DEF Settled
      <4>. QED BY <4>1, <4>2
    <3>2. \A j \in after : new[j].action = rows[j].action BY <2>2 DEF Settled
    <3>3. MessagesMatch(p) = (reruns = 0 => {<<i, rows[i].action>> : i \in before}
                                = {<<m.id, m.action>> : m \in {x \in outbox : x.payment = p}})
      BY DEF MessagesMatch
    <3>4. MessagesMatch(p)' = (reruns' = 0 => {<<i, new[i].action>> : i \in after}
                                = {<<m.id, m.action>> : m \in {x \in outbox' : x.payment = p}})
      BY DEF MessagesMatch
    <3>5. {<<i, rows[i].action>> : i \in before} = {<<i, new[i].action>> : i \in after}
      <4>. HIDE DEF before, after, rows, new
      <4>. QED BY <3>1, <3>2
    <3>6. MessagesMatch(p) BY <2>0 DEF FileInv
    <3>. HIDE DEF before, after, rows, new
    <3>. QED BY <1>1, <3>3, <3>4, <3>5, <3>6
  <2>8. HasEvidence(p)' BY <2>2 DEF HasEvidence, Settled
  <2>. QED BY <2>3, <2>4, <2>5, <2>6, <2>7, <2>8 DEF FileInv
<1>6. Types'
  <2>1. ASSUME NEW p \in Payments PROVE TypedRows(attempts[p], now)'
    <3>1. CASE p \in fixed BY <1>1, <1>4, <3>1 DEF Settled
    <3>2. CASE p \notin fixed BY <1>0, <1>1, <3>2 DEF Types
    <3>. QED BY <3>1, <3>2
  <2>2. status' \in [Payments -> {"absent", "failed"} \cup Closed] BY <1>0, <1>1 DEF Types, Closed
  <2>. QED BY <1>0, <1>1, <2>1, <2>2 DEF Types
<1>. QED BY <1>3, <1>5, <1>6 DEF LedgerInv

-----------------------------------------------------------------------------
(* One batch of due work: what it takes from one payment, what it leaves   *)
(* in its rows, its debits, its status and its messages.                   *)
Worked(p, taken, refused) ==
  /\ taken \in SUBSET Due(p)
  /\ taken # {} => status[p] \notin Closed
  /\ \A i \in taken : <<p, i>> \in refused => attempts[p][i].action = "retry"
  /\ attempts'[p] = [i \in DOMAIN attempts[p] |->
       IF i \in taken THEN Fired(p, i, refused) ELSE attempts[p][i]]
  /\ presented'[p] = presented[p] \o Debits(p, taken, refused)
  /\ status'[p] = IF taken \cap WriteOffs(p) # {} THEN "written_off" ELSE status[p]
  /\ {m \in outbox' : m.payment = p} = {m \in outbox : m.payment = p} \cup Sent(p, taken)

LEMMA SentIsOfThePayment ==
  ASSUME NEW p, NEW taken
  PROVE  /\ \A m \in Sent(p, taken) : m.payment = p
         /\ Sent(p, {}) = {}
BY DEF Sent

LEMMA BatchIsWork ==
  ASSUME ExecuteDue
  PROVE  /\ UNCHANGED <<now, code, class, failedAt, answered, reruns>>
         /\ DOMAIN attempts' = Payments /\ DOMAIN presented' = Payments
         /\ status' = [p \in Payments |-> status'[p]]
         /\ \A p \in Payments : \E taken, refused : Worked(p, taken, refused)
<1>1. PICK early \in SUBSET Ties :
        LET taken == [p \in Payments |-> Taken(p, early)] IN
        /\ \E p \in Payments : taken[p] # {}
        /\ \E refused \in SUBSET (UNION {{p} \X RetriesOf(p, taken[p]) : p \in Refusable}) :
             /\ attempts' = [p \in Payments |-> [i \in DOMAIN attempts[p] |->
                  IF i \in taken[p] THEN Fired(p, i, refused) ELSE attempts[p][i]]]
             /\ presented' = [p \in Payments |-> presented[p] \o Debits(p, taken[p], refused)]
        /\ outbox' = outbox \cup UNION {Sent(p, taken[p]) : p \in Payments}
        /\ status' = [p \in Payments |->
             IF taken[p] \cap WriteOffs(p) # {} THEN "written_off" ELSE status[p]]
        /\ UNCHANGED <<now, code, class, failedAt, answered, reruns>>
  BY DEF ExecuteDue
<1>. DEFINE taken == [p \in Payments |-> Taken(p, early)]
<1>2. PICK refused \in SUBSET (UNION {{p} \X RetriesOf(p, taken[p]) : p \in Refusable}) :
        /\ attempts' = [p \in Payments |-> [i \in DOMAIN attempts[p] |->
             IF i \in taken[p] THEN Fired(p, i, refused) ELSE attempts[p][i]]]
        /\ presented' = [p \in Payments |-> presented[p] \o Debits(p, taken[p], refused)]
  BY <1>1
<1>3. /\ outbox' = outbox \cup UNION {Sent(p, taken[p]) : p \in Payments}
      /\ status' = [p \in Payments |->
           IF taken[p] \cap WriteOffs(p) # {} THEN "written_off" ELSE status[p]]
      /\ UNCHANGED <<now, code, class, failedAt, answered, reruns>>
  BY <1>1
<1>4. ASSUME NEW p \in Payments
      PROVE  taken[p] \in SUBSET Due(p) /\ (taken[p] # {} => status[p] \notin Closed)
  BY DEF Taken, Workable
<1>. HIDE DEF taken
<1>5. ASSUME NEW p \in Payments PROVE Worked(p, taken[p], refused)
  <2>1. \A i \in taken[p] : <<p, i>> \in refused => attempts[p][i].action = "retry"
    <3>. TAKE i \in taken[p]
    <3>. SUFFICES ASSUME <<p, i>> \in refused PROVE attempts[p][i].action = "retry" OBVIOUS
    <3>1. PICK q \in Refusable : <<p, i>> \in {q} \X RetriesOf(q, taken[q]) OBVIOUS
    <3>2. p = q /\ i \in RetriesOf(q, taken[q]) BY <3>1
    <3>. QED BY <3>2 DEF RetriesOf
  <2>2. {m \in outbox' : m.payment = p}
          = {m \in outbox : m.payment = p} \cup Sent(p, taken[p])
    <3>1. \A q \in Payments : \A m \in Sent(q, taken[q]) : m.payment = q
      BY SentIsOfThePayment
    <3>2. \A m \in outbox' : m \in outbox \/ \E q \in Payments : m \in Sent(q, taken[q])
      BY <1>3
    <3>3. \A m : m \in outbox \/ m \in Sent(p, taken[p]) => m \in outbox' BY <1>3
    <3>. QED BY <3>1, <3>2, <3>3
  <2>3. attempts'[p] = [i \in DOMAIN attempts[p] |->
          IF i \in taken[p] THEN Fired(p, i, refused) ELSE attempts[p][i]]
    BY <1>2
  <2>4. presented'[p] = presented[p] \o Debits(p, taken[p], refused) BY <1>2
  <2>5. status'[p] = IF taken[p] \cap WriteOffs(p) # {} THEN "written_off" ELSE status[p]
    BY <1>3
  <2>. QED BY <1>4, <2>1, <2>2, <2>3, <2>4, <2>5 DEF Worked
<1>6. DOMAIN attempts' = Payments /\ DOMAIN presented' = Payments BY <1>2
<1>7. status' = [p \in Payments |-> status'[p]] BY <1>3
<1>. QED BY <1>3, <1>5, <1>6, <1>7

(* What the work changes in a row: only whether it is done. *)
LEMMA WorkedRows ==
  ASSUME Types, NEW p \in Payments, NEW taken, NEW refused, Worked(p, taken, refused)
  PROVE  /\ DOMAIN attempts'[p] = DOMAIN attempts[p] /\ taken \subseteq DOMAIN attempts[p]
         /\ TypedRows(attempts'[p], now)
         /\ \A i \in DOMAIN attempts[p] :
              /\ attempts'[p][i].action = attempts[p][i].action
              /\ attempts'[p][i].channel = attempts[p][i].channel
              /\ attempts'[p][i].at = attempts[p][i].at
              /\ i \notin taken => attempts'[p][i].status = attempts[p][i].status
              /\ i \in taken => attempts[p][i].status = "scheduled"
                                /\ (attempts[p][i].channel # "none" =>
                                      attempts'[p][i].status = "executed")
         /\ presented'[p] \in Seq(Presentations)
         /\ DOMAIN presented[p] \subseteq DOMAIN presented'[p]
         /\ taken = {} => presented'[p] = presented[p]
<1>. DEFINE rows == attempts[p]
            new == attempts'[p]
<1>1. TypedRows(rows, now) /\ now \in Nat BY DEF Types
<1>2. /\ taken \in SUBSET Due(p)
      /\ \A i \in taken : <<p, i>> \in refused => rows[i].action = "retry"
      /\ DOMAIN new = DOMAIN rows
      /\ \A i \in DOMAIN rows : new[i] = IF i \in taken THEN Fired(p, i, refused) ELSE rows[i]
  BY DEF Worked
<1>3. \A i \in taken : i \in DOMAIN rows /\ rows[i].status = "scheduled" /\ rows[i].at <= now
  BY <1>2 DEF Due
<1>4. ASSUME NEW i \in DOMAIN rows
      PROVE  /\ TypedRow(new[i], now)
             /\ new[i].action = rows[i].action /\ new[i].channel = rows[i].channel
             /\ new[i].at = rows[i].at
             /\ i \notin taken => new[i].status = rows[i].status
             /\ i \in taken => rows[i].status = "scheduled"
                               /\ (rows[i].channel # "none" => new[i].status = "executed")
  <2>1. TypedRow(rows[i], now) BY <1>1 DEF TypedRows
  <2>2. CASE i \notin taken
    <3>1. new[i] = rows[i] BY <1>2, <2>2
    <3>. HIDE DEF rows, new
    <3>. QED BY <2>1, <2>2, <3>1
  <2>3. CASE i \in taken
    <3>1. PICK outcome \in {"failed", "executed"} :
            /\ new[i] = [rows[i] EXCEPT !.status = outcome, !.done = rows[i].at]
            /\ outcome = "failed" => rows[i].action = "retry"
      <4>1. CASE <<p, i>> \in refused
        <5>1. new[i] = [rows[i] EXCEPT !.status = "failed", !.done = rows[i].at]
          BY <1>2, <2>3, <4>1 DEF Fired
        <5>. QED BY <1>2, <2>3, <4>1, <5>1
      <4>2. CASE <<p, i>> \notin refused
        <5>1. new[i] = [rows[i] EXCEPT !.status = "executed", !.done = rows[i].at]
          BY <1>2, <2>3, <4>2 DEF Fired
        <5>. QED BY <5>1
      <4>. QED BY <4>1, <4>2
    <3>2. rows[i].status = "scheduled" /\ rows[i].at <= now BY <1>3, <2>3
    <3>3. rows[i] \in AttemptRow /\ rows[i].at # NoTime
          /\ (rows[i].action \in {"retry", "write_off"} => rows[i].channel = "none")
      BY <2>1, <3>2 DEF TypedRow
    <3>. HIDE DEF rows, new
    <3>4. new[i] \in AttemptRow BY <3>1, <3>3 DEF AttemptRow, Done
    <3>5. /\ new[i].action = rows[i].action /\ new[i].channel = rows[i].channel
          /\ new[i].at = rows[i].at /\ new[i].done = rows[i].at /\ new[i].status = outcome
      BY <3>1, <3>3 DEF AttemptRow
    <3>6. TypedRow(new[i], now) BY <3>2, <3>3, <3>4, <3>5 DEF TypedRow
    <3>7. rows[i].channel # "none" => new[i].status = "executed" BY <3>1, <3>3, <3>5
    <3>. QED BY <2>3, <3>2, <3>5, <3>6, <3>7
  <2>. QED BY <2>2, <2>3
<1>5. TypedRows(new, now)
  <2>. HIDE DEF rows, new
  <2>. QED BY <1>1, <1>2, <1>4 DEF TypedRows
<1>6. /\ presented'[p] \in Seq(Presentations)
      /\ DOMAIN presented[p] \subseteq DOMAIN presented'[p]
      /\ taken = {} => presented'[p] = presented[p]
  <2>1. /\ Debits(p, taken, refused) \in Seq(Presentations)
        /\ taken = {} => Debits(p, taken, refused) = <<>>
    BY <1>2, DebitsTyped
  <2>2. presented[p] \in Seq(Presentations) /\ presented'[p] = presented[p] \o Debits(p, taken, refused)
    BY DEF Types, Worked
  <2>. QED BY <2>1, <2>2
<1>. QED BY <1>2, <1>3, <1>4, <1>5, <1>6

(* A message is written for every row that is executed with a channel, and *)
(* none of these had one.                                                  *)
LEMMA WorkedMessages ==
  ASSUME LedgerInv, NEW p \in Payments, NEW taken, NEW refused, Worked(p, taken, refused),
         reruns' = reruns
  PROVE  MessagesMatch(p)'
<1>. SUFFICES ASSUME reruns = 0 PROVE MessagesMatch(p)' BY DEF MessagesMatch
<1>. DEFINE rows == attempts[p]
            new == attempts'[p]
            before == {j \in DOMAIN rows : rows[j].status = "executed" /\ rows[j].channel # "none"}
            after == {j \in DOMAIN new : new[j].status = "executed" /\ new[j].channel # "none"}
            fresh == {j \in taken : rows[j].channel # "none"}
            had == {x \in outbox : x.payment = p}
            has == {x \in outbox' : x.payment = p}
<1>1. Types /\ FileInv(p) BY DEF LedgerInv
<1>2. /\ DOMAIN new = DOMAIN rows /\ taken \subseteq DOMAIN rows
      /\ \A i \in DOMAIN rows :
           /\ new[i].action = rows[i].action
           /\ new[i].channel = rows[i].channel
           /\ i \notin taken => new[i].status = rows[i].status
           /\ i \in taken => rows[i].status = "scheduled"
                             /\ (rows[i].channel # "none" => new[i].status = "executed")
  BY <1>1, WorkedRows
<1>3. after = before \cup fresh
  <2>. HIDE DEF rows, new
  <2>1. ASSUME NEW j \in after PROVE j \in before \/ j \in fresh
    <3>1. CASE j \in taken BY <1>2, <3>1
    <3>2. CASE j \notin taken BY <1>2, <3>2
    <3>. QED BY <3>1, <3>2
  <2>2. ASSUME NEW j \in before PROVE j \in after
    <3>1. j \notin taken BY <1>2
    <3>. QED BY <1>2, <3>1
  <2>3. ASSUME NEW j \in fresh PROVE j \in after BY <1>2
  <2>. HIDE DEF before, after, fresh
  <2>. QED BY <2>1, <2>2, <2>3
<1>4. {<<i, rows[i].action>> : i \in before} = {<<m.id, m.action>> : m \in had}
  BY <1>1 DEF FileInv, MessagesMatch
<1>5. \A j \in fresh : \A m \in outbox : ~ (m.payment = p /\ m.id = j)
  <2>. SUFFICES ASSUME NEW j \in fresh, NEW m \in had, m.id = j PROVE FALSE OBVIOUS
  <2>1. <<m.id, m.action>> \in {<<i, rows[i].action>> : i \in before}
    <3>. HIDE DEF had, before, rows
    <3>. QED BY <1>4
  <2>2. j \in before BY <2>1
  <2>. QED BY <1>2, <2>2
<1>6. Sent(p, taken) = {[payment |-> p, id |-> i, action |-> rows[i].action, at |-> rows[i].at] :
                          i \in fresh}
  BY <1>5 DEF Sent
<1>7. {<<m.id, m.action>> : m \in Sent(p, taken)} = {<<i, rows[i].action>> : i \in fresh}
  <2>. DEFINE message(i) == [payment |-> p, id |-> i, action |-> rows[i].action, at |-> rows[i].at]
  <2>1. \A i \in fresh : /\ message(i) \in Sent(p, taken)
                         /\ message(i).id = i /\ message(i).action = rows[i].action
    BY <1>6
  <2>2. \A m \in Sent(p, taken) : \E i \in fresh : m.id = i /\ m.action = rows[i].action
    BY <1>6
  <2>. HIDE DEF fresh, rows, message
  <2>. QED BY <2>1, <2>2
<1>8. has = had \cup Sent(p, taken) BY DEF Worked
<1>9. {<<i, new[i].action>> : i \in after} = {<<i, rows[i].action>> : i \in before \cup fresh}
  <2>1. \A i \in after : new[i].action = rows[i].action BY <1>2
  <2>. HIDE DEF rows, new, before, after, fresh
  <2>. QED BY <1>3, <2>1
<1>10. {<<i, new[i].action>> : i \in after} = {<<m.id, m.action>> : m \in has}
  <2>. HIDE DEF rows, new, before, after, fresh, had, has
  <2>. QED BY <1>4, <1>7, <1>8, <1>9
<1>. QED BY <1>10 DEF MessagesMatch

(* A batch works on open files only. *)
LEMMA ExecuteDueIsSound ==
  ASSUME LedgerInv, ExecuteDue
  PROVE  LedgerInv'
<1>0. Types BY DEF LedgerInv
<1>1. /\ UNCHANGED <<now, code, class, failedAt, answered, reruns>>
      /\ DOMAIN attempts' = Payments /\ DOMAIN presented' = Payments
      /\ status' = [p \in Payments |-> status'[p]]
      /\ \A p \in Payments : \E taken, refused : Worked(p, taken, refused)
  BY BatchIsWork
<1>2. ASSUME NEW p \in Payments
      PROVE  /\ FileInv(p)' /\ TypedRows(attempts[p], now)'
             /\ status'[p] \in {"absent", "failed"} \cup Closed
             /\ presented'[p] \in Seq(Presentations)
             /\ DOMAIN answered'[p] \subseteq DOMAIN presented'[p]
  <2>1. PICK taken, refused : Worked(p, taken, refused) BY <1>1
  <2>. DEFINE rows == attempts[p]
              new == attempts'[p]
  <2>2. /\ DOMAIN new = DOMAIN rows /\ taken \subseteq DOMAIN rows
        /\ TypedRows(new, now)
        /\ \A i \in DOMAIN rows :
             /\ new[i].action = rows[i].action /\ new[i].at = rows[i].at
             /\ i \notin taken => new[i].status = rows[i].status
             /\ i \in taken => rows[i].status = "scheduled"
        /\ presented'[p] \in Seq(Presentations)
        /\ DOMAIN presented[p] \subseteq DOMAIN presented'[p]
        /\ taken = {} => presented'[p] = presented[p]
    BY <1>0, <2>1, WorkedRows
  <2>3. /\ taken \in SUBSET Due(p) /\ (taken # {} => status[p] \notin Closed)
        /\ status'[p] = IF taken \cap WriteOffs(p) # {} THEN "written_off" ELSE status[p]
    BY <2>1 DEF Worked
  <2>4. FileInv(p) /\ status[p] \in {"absent", "failed"} \cup Closed
    BY <1>0 DEF LedgerInv, Types
  <2>5. taken # {} => status[p] = "failed"
    BY <2>2, <2>3, <2>4 DEF FileInv, Heard
  <2>6. taken = {} => status'[p] = status[p] BY <2>3
  <2>7. status'[p] = status[p] \/ status'[p] = "written_off" BY <2>3
  <2>8. ASSUME status'[p] = "failed", NEW i \in DOMAIN rows, rows[i].action = "write_off"
        PROVE  new[i].status = rows[i].status
    <3>1. taken \cap WriteOffs(p) = {} BY <2>3, <2>8
    <3>2. i \notin taken BY <2>3, <2>8, <3>1 DEF WriteOffs
    <3>. QED BY <2>2, <3>2
  <2>. HIDE DEF rows, new
  <2>9. Heard(p)'
    <3>1. ASSUME status'[p] = "absent"
          PROVE  /\ failedAt[p] = NoTime /\ class[p] = NotClassified
                 /\ DOMAIN new = {} /\ presented'[p] = <<>>
      <4>1. status[p] = "absent" /\ taken = {} BY <2>5, <2>7, <3>1
      <4>. QED BY <2>2, <2>4, <4>1 DEF FileInv, Heard, rows
    <3>2. status'[p] # "absent" => status[p] # "absent"
      BY <2>5, <2>6
    <3>. QED BY <1>1, <2>4, <3>1, <3>2 DEF FileInv, Heard, new
  <2>10. FixCloses(p)'
    <3>1. Fix \in DOMAIN rows => status[p] = "recovered" /\ rows[Fix].status = "succeeded"
      BY <2>4 DEF FileInv, FixCloses, rows
    <3>2. Fix \in DOMAIN rows => taken = {} BY <2>5, <3>1
    <3>3. Fix \in DOMAIN rows => new[Fix].status = rows[Fix].status
      BY <2>2, <3>2
    <3>. QED BY <1>1, <2>2, <2>4, <2>6, <3>1, <3>2, <3>3 DEF FileInv, FixCloses, rows, new
  <2>11. EndIsAhead(p)'
    <3>1. ASSUME status'[p] = "failed", NEW i \in DOMAIN rows, rows[i].action = "write_off"
          PROVE  new[i].status \notin Done
      <4>1. status[p] = "failed" BY <2>7, <3>1
      <4>2. rows[i].status \notin Done BY <2>4, <3>1, <4>1 DEF FileInv, EndIsAhead, rows
      <4>. QED BY <2>8, <3>1, <4>2
    <3>2. p \notin Monthly =>
            \A i \in DOMAIN rows \ {Fix} : rows[i].at <= failedAt[p] + WriteOffAfter
      BY <2>4 DEF FileInv, EndIsAhead, rows
    <3>. QED BY <1>1, <2>2, <3>1, <3>2 DEF EndIsAhead, new
  <2>12. HasItsEnd(p)'
    <3>. SUFFICES ASSUME status'[p] = "failed", class[p] # NotClassified,
                         p \in Monthly => reruns = 0
                  PROVE  HasItsEnd(p)'
      BY <1>1 DEF HasItsEnd
    <3>1. status[p] = "failed" BY <2>7
    <3>2. PICK i \in DOMAIN rows :
            /\ rows[i].action = "write_off" /\ rows[i].status = "scheduled"
            /\ rows[i].at <= failedAt[p] + MonthlyWriteOffAfter
      BY <2>4, <3>1 DEF FileInv, HasItsEnd, rows
    <3>3. /\ i \in DOMAIN new /\ new[i].action = "write_off" /\ new[i].status = "scheduled"
          /\ new[i].at <= failedAt[p] + MonthlyWriteOffAfter
      BY <2>2, <2>8, <3>2
    <3>. QED BY <1>1, <3>3 DEF HasItsEnd, new
  <2>13. MessagesMatch(p)' BY <1>1, <2>1, WorkedMessages
  <2>14. HasEvidence(p)'
    <3>. SUFFICES ASSUME status'[p] = "recovered", reruns = 0 PROVE HasEvidence(p)'
      BY <1>1 DEF HasEvidence
    <3>1. status[p] = "recovered" /\ taken = {} BY <2>5, <2>7
    <3>2. \A i \in DOMAIN rows : i \in DOMAIN new /\ new[i].status = rows[i].status
      BY <2>2, <3>1
    <3>. QED BY <1>1, <2>4, <3>1, <3>2 DEF FileInv, HasEvidence, rows, new
  <2>15. FileInv(p)' BY <2>9, <2>10, <2>11, <2>12, <2>13, <2>14 DEF FileInv
  <2>16. DOMAIN answered'[p] \subseteq DOMAIN presented'[p] BY <1>0, <1>1, <2>2 DEF Types
  <2>17. status'[p] \in {"absent", "failed"} \cup Closed BY <2>4, <2>7 DEF Closed
  <2>. QED BY <1>1, <2>2, <2>15, <2>16, <2>17 DEF new
<1>3. Types'
  <2>1. status' \in [Payments -> {"absent", "failed"} \cup Closed] BY <1>1, <1>2
  <2>. QED BY <1>0, <1>1, <1>2, <2>1 DEF Types
<1>. QED BY <1>2, <1>3 DEF LedgerInv

-----------------------------------------------------------------------------
LEMMA StepIsSound == LedgerInv /\ [Next]_vars => LedgerInv'
<1>. SUFFICES ASSUME LedgerInv, [Next]_vars PROVE LedgerInv' OBVIOUS
<1>1. ASSUME NEW p \in Payments, NEW c \in Codes, FirstDishonour(p, c) PROVE LedgerInv'
  BY <1>1, FirstDishonourIsSound
<1>2. ASSUME NEW p \in Payments, NEW n, AnswerCleared(p, n) PROVE LedgerInv'
  BY <1>2, AnswerClearedIsSound
<1>3. ASSUME NEW p \in Payments, NEW n, NEW c \in Codes, AnswerDishonour(p, n, c)
      PROVE  LedgerInv'
  BY <1>3, AnswerDishonourIsSound
<1>4. ASSUME NEW p \in Payments, ClassifyNew(p) \/ RunAgain(p) PROVE LedgerInv'
  BY <1>4, ClassifyNewIsSound, RunAgainIsSound
<1>5. CASE ExecuteDue BY <1>5, ExecuteDueIsSound
<1>6. CASE UpdateDetails BY <1>6, UpdateDetailsIsSound
<1>7. ASSUME NEW t \in Moments, Advance(t) PROVE LedgerInv' BY <1>7, AdvanceIsSound
<1>8. CASE UNCHANGED vars
  <2>1. Types' BY <1>8 DEF LedgerInv, Types, vars, rowVars
  <2>2. ASSUME NEW p \in Payments PROVE FileInv(p)'
    <3>1. Untouched(p) /\ Goes
      BY <1>8 DEF Untouched, Goes, vars, rowVars, LedgerInv, Types
    <3>. QED BY <3>1, UntouchedKeeps
  <2>. QED BY <2>1, <2>2 DEF LedgerInv
<1>. QED BY <1>1, <1>2, <1>3, <1>4, <1>5, <1>6, <1>7, <1>8 DEF Next

(* The invariant that the properties of the ledger follow from. *)
THEOREM LedgerInvHolds == Spec => []LedgerInv
BY InitIsSound, StepIsSound, PTL DEF Spec

(* Types of the rows; an attempt without a time is never pending. *)
THEOREM TypesHold == Spec => []TypeOK
<1>1. LedgerInv => TypeOK
  <2>. SUFFICES ASSUME LedgerInv PROVE TypeOK OBVIOUS
  <2>1. DOMAIN StrategyTable = FailureClass BY TableLoads DEF Loads
  <2>2. \A p \in Payments : \A r \in Rows(p) :
          r \in AttemptRow /\ (r.status # "skipped" => r.at # NoTime)
    BY DEF LedgerInv, Types, Rows, TypedRows, TypedRow
  <2>. QED BY <2>1, <2>2 DEF LedgerInv, Types, TypeOK
<1>. QED BY <1>1, LedgerInvHolds, PTL

(* Money counted as recovered has a cleared debit or a charge behind it.   *)
THEOREM RecoveredIsEvidenced == Spec => []RecoveredHasEvidence
<1>1. LedgerInv => RecoveredHasEvidence
  BY DEF LedgerInv, FileInv, HasEvidence, RecoveredHasEvidence, Rows
<1>. QED BY <1>1, LedgerInvHolds, PTL

(* The messages written are those of the executed attempts, one each.      *)
THEOREM MessagesAreOfAttempts == Spec => []MessagesMatchAttempts
<1>1. LedgerInv => MessagesMatchAttempts
  BY DEF LedgerInv, FileInv, MessagesMatch, MessagesMatchAttempts
<1>. QED BY <1>1, LedgerInvHolds, PTL

(* An open file, once classified, has its write-off ahead of it.           *)
THEOREM OpenFilesEnd == Spec => []OpenFileHasItsEnd
<1>1. LedgerInv => OpenFileHasItsEnd
  BY DEF LedgerInv, FileInv, HasItsEnd, OpenFileHasItsEnd, Rows
<1>. QED BY <1>1, LedgerInvHolds, PTL

-----------------------------------------------------------------------------
(* What one step does to a closed file, by the action that makes it. *)
ClosedKept(p) ==
  status[p] \in Closed =>
    /\ status'[p] = status[p] \/ (status'[p] = "recovered" /\ answered'[p] # answered[p])
    /\ presented'[p] = presented[p]
    /\ {m \in outbox' : m.payment = p} = {m \in outbox : m.payment = p}

LEMMA StepKeepsClosed ==
  ASSUME LedgerInv, Next, NEW p \in Payments
  PROVE  ClosedKept(p)
<1>0. Types BY DEF LedgerInv
<1>. SUFFICES ASSUME status[p] \in Closed PROVE ClosedKept(p) BY DEF ClosedKept
<1>1. ASSUME NEW q \in Payments, NEW c \in Codes, FirstDishonour(q, c) PROVE ClosedKept(p)
  <2>1. q # p BY <1>1 DEF FirstDishonour, Closed
  <2>. QED BY <1>0, <1>1, <2>1 DEF ClosedKept, FirstDishonour, Dishonoured, rowVars, Types
<1>2. ASSUME NEW q \in Payments, NEW n, AnswerCleared(q, n) PROVE ClosedKept(p)
  <2>1. /\ AnswerDue(q, n) /\ answered' = [answered EXCEPT ![q] = Adding(@, n, "cleared")]
        /\ status' = [status EXCEPT ![q] = "recovered"] /\ UNCHANGED <<presented, outbox>>
    BY <1>2 DEF AnswerCleared
  <2>2. /\ n \notin DOMAIN answered[q] /\ DOMAIN answered'[q] = DOMAIN answered[q] \cup {n}
    BY <1>0, <2>1, AnswerRecorded
  <2>3. answered'[q] # answered[q] BY <2>2
  <2>. QED BY <1>0, <2>1, <2>3 DEF ClosedKept, Types
<1>3. ASSUME NEW q \in Payments, NEW n, NEW c \in Codes, AnswerDishonour(q, n, c)
      PROVE  ClosedKept(p)
  <2>1. Dishonoured(q, c) /\ UNCHANGED <<presented, outbox>> BY <1>3 DEF AnswerDishonour
  <2>2. status'[p] = status[p] BY <1>0, <2>1 DEF Dishonoured, rowVars, Types
  <2>. QED BY <2>1, <2>2 DEF ClosedKept
<1>4. ASSUME NEW q \in Payments, ClassifyNew(q) \/ RunAgain(q) PROVE ClosedKept(p)
  BY <1>4 DEF ClassifyNew, RunAgain, Recover, ClosedKept
<1>5. CASE ExecuteDue
  <2>1. PICK taken, refused : Worked(p, taken, refused) BY <1>5, BatchIsWork
  <2>2. taken = {} BY <2>1 DEF Worked
  <2>3. presented'[p] = presented[p] BY <1>0, <2>1, <2>2, WorkedRows
  <2>4. Sent(p, taken) = {} BY <2>2, SentIsOfThePayment
  <2>. QED BY <2>1, <2>2, <2>3, <2>4 DEF ClosedKept, Worked
<1>6. CASE UpdateDetails BY <1>6 DEF UpdateDetails, ClosedKept, Closed
<1>7. ASSUME NEW t \in Moments, Advance(t) PROVE ClosedKept(p)
  BY <1>7 DEF Advance, rowVars, ClosedKept
<1>. QED BY <1>1, <1>2, <1>3, <1>4, <1>5, <1>6, <1>7 DEF Next

(* A closed file is never worked on: no debit, no message, and only money  *)
(* that cleared late changes its status.                                   *)
THEOREM ClosedFilesStayClosed == Spec => ClosedStaysClosed
<1>. DEFINE Kept0 == \A p \in Payments : status[p] \in Closed =>
       /\ status'[p] = status[p] \/ (status'[p] = "recovered" /\ answered'[p] # answered[p])
       /\ presented'[p] = presented[p]
       /\ {m \in outbox' : m.payment = p} = {m \in outbox : m.payment = p}
<1>1. LedgerInv /\ [Next]_vars => [Kept0]_vars
  BY StepKeepsClosed DEF ClosedKept
<1>. QED BY <1>1, LedgerInvHolds, PTL DEF Spec, ClosedStaysClosed

-----------------------------------------------------------------------------
(* FileLifecycle: each file takes one of its steps. *)
LEMMA FlightIsFinite ==
  ASSUME NEW debits \in Seq(Presentations), NEW answers
  PROVE  /\ IsFiniteSet(DOMAIN debits \ DOMAIN answers)
         /\ Cardinality(DOMAIN debits \ DOMAIN answers) \in Nat
<1>1. DOMAIN debits = 1..Len(debits) /\ Len(debits) \in Nat OBVIOUS
<1>2. IsFiniteSet(DOMAIN debits) BY <1>1, FS_Interval
<1>. QED BY <1>2, FS_Difference, FS_CardinalityType

FileStep(p) ==
  \/ Lifecycle!Open(p) \/ Lifecycle!Work(p) \/ Lifecycle!Answer(p)
  \/ Lifecycle!Correct(p) \/ Lifecycle!Still(p)

LEMMA StillFile ==
  ASSUME NEW p \in Payments, status'[p] = status[p], presented'[p] = presented[p],
         answered'[p] = answered[p]
  PROVE  FileStep(p)
<1>1. Unanswered(p)' = Unanswered(p) BY DEF Unanswered
<1>2. Cardinality(Unanswered(p))' = Cardinality(Unanswered(p)) BY <1>1
<1>3. Lifecycle!Still(p) BY <1>2 DEF Lifecycle!Still
<1>. QED BY <1>3 DEF FileStep

LEMMA AnsweredFile ==
  ASSUME Types, NEW p \in Payments, NEW n, AnswerDue(p, n), NEW answer,
         answered' = [answered EXCEPT ![p] = Adding(@, n, answer)], presented' = presented,
         status'[p] \in {status[p], "recovered"}
  PROVE  FileStep(p)
<1>1. /\ n \in DOMAIN presented[p] /\ n \notin DOMAIN answered[p]
      /\ DOMAIN answered'[p] = DOMAIN answered[p] \cup {n}
  BY AnswerRecorded
<1>2. Unanswered(p)' = Unanswered(p) \ {n} /\ n \in Unanswered(p) BY <1>1 DEF Unanswered
<1>3. IsFiniteSet(Unanswered(p)) /\ Cardinality(Unanswered(p)) \in Nat
  BY FlightIsFinite DEF Unanswered, Types
<1>4. Cardinality(Unanswered(p) \ {n}) = Cardinality(Unanswered(p)) - 1
  BY <1>2, <1>3, FS_RemoveElement
<1>5. Cardinality(Unanswered(p)) > 0 BY <1>2, <1>3, FS_EmptySet
<1>6. Cardinality(Unanswered(p))' = Cardinality(Unanswered(p)) - 1 BY <1>2, <1>4
<1>7. Lifecycle!Answer(p) BY <1>5, <1>6 DEF Lifecycle!Answer
<1>. QED BY <1>7 DEF FileStep

LEMMA StepIsALifeStep ==
  ASSUME LedgerInv, LedgerInv', Next, NEW p \in Payments
  PROVE  FileStep(p)
<1>0. Types /\ FileInv(p) /\ Types' BY DEF LedgerInv
<1>1. ASSUME NEW q \in Payments, NEW c \in Codes, FirstDishonour(q, c) PROVE FileStep(p)
  <2>1. /\ status[q] = "absent" /\ status' = [status EXCEPT ![q] = "failed"]
        /\ UNCHANGED <<presented, answered>>
    BY <1>1 DEF FirstDishonour, Dishonoured, Closed
  <2>2. CASE q # p BY <1>0, <2>1, <2>2, StillFile DEF Types
  <2>3. CASE q = p
    <3>1. Unanswered(p)' = Unanswered(p) BY <2>1 DEF Unanswered
    <3>2. Cardinality(Unanswered(p))' = Cardinality(Unanswered(p)) BY <3>1
    <3>3. status[p] = "absent" /\ status'[p] = "failed" BY <1>0, <2>1, <2>3 DEF Types
    <3>4. Lifecycle!Open(p) BY <3>2, <3>3 DEF Lifecycle!Open
    <3>. QED BY <3>4 DEF FileStep
  <2>. QED BY <2>2, <2>3
<1>2. ASSUME NEW q \in Payments, NEW n, AnswerCleared(q, n) PROVE FileStep(p)
  <2>1. /\ AnswerDue(q, n) /\ answered' = [answered EXCEPT ![q] = Adding(@, n, "cleared")]
        /\ status' = [status EXCEPT ![q] = "recovered"] /\ presented' = presented
    BY <1>2 DEF AnswerCleared
  <2>2. CASE q # p BY <1>0, <2>1, <2>2, StillFile DEF Types
  <2>3. CASE q = p
    <3>1. status'[p] = "recovered" BY <1>0, <2>1, <2>3 DEF Types
    <3>. QED BY <1>0, <2>1, <2>3, <3>1, AnsweredFile
  <2>. QED BY <2>2, <2>3
<1>3. ASSUME NEW q \in Payments, NEW n, NEW c \in Codes, AnswerDishonour(q, n, c)
      PROVE  FileStep(p)
  <2>1. /\ AnswerDue(q, n) /\ answered' = [answered EXCEPT ![q] = Adding(@, n, c)]
        /\ Dishonoured(q, c) /\ presented' = presented
    BY <1>3 DEF AnswerDishonour
  <2>2. status[q] # "absent"
    <3>1. presented[q] # <<>> BY <2>1 DEF AnswerDue, Unanswered
    <3>. QED BY <3>1 DEF LedgerInv, FileInv, Heard
  <2>3. status[q] \notin Closed => status[q] = "failed" BY <1>0, <2>2 DEF Types
  <2>4. status'[p] = status[p] BY <1>0, <2>1, <2>3 DEF Dishonoured, rowVars, Types
  <2>5. CASE q # p BY <1>0, <2>1, <2>4, <2>5, StillFile DEF Types
  <2>6. CASE q = p BY <1>0, <2>1, <2>4, <2>6, AnsweredFile
  <2>. QED BY <2>5, <2>6
<1>4. ASSUME NEW q \in Payments, ClassifyNew(q) \/ RunAgain(q) PROVE FileStep(p)
  <2>1. UNCHANGED <<status, presented, answered>> BY <1>4 DEF ClassifyNew, RunAgain, Recover
  <2>. QED BY <2>1, StillFile
<1>5. CASE ExecuteDue
  <2>1. answered' = answered /\ \E taken, refused : Worked(p, taken, refused)
    BY <1>5, BatchIsWork
  <2>2. PICK taken, refused : Worked(p, taken, refused) BY <2>1
  <2>3. /\ DOMAIN presented[p] \subseteq DOMAIN presented'[p]
        /\ taken \subseteq DOMAIN attempts[p]
        /\ taken = {} => presented'[p] = presented[p]
    BY <1>0, <2>2, WorkedRows
  <2>4. status'[p] = (IF taken \cap WriteOffs(p) # {} THEN "written_off" ELSE status[p])
        /\ (taken # {} => status[p] \notin Closed)
    BY <2>2 DEF Worked
  <2>5. CASE taken = {} BY <2>1, <2>3, <2>4, <2>5, StillFile
  <2>6. CASE taken # {}
    <3>1. status[p] = "failed" /\ status'[p] \in {"failed", "written_off"}
      BY <1>0, <2>3, <2>4, <2>6 DEF FileInv, Heard, Types
    <3>2. Unanswered(p) \in SUBSET Unanswered(p)' BY <2>1, <2>3 DEF Unanswered
    <3>3. IsFiniteSet(Unanswered(p)')
      <4>1. presented'[p] \in Seq(Presentations) BY <1>0 DEF Types
      <4>. QED BY <4>1, FlightIsFinite DEF Unanswered
    <3>4. Cardinality(Unanswered(p)) <= Cardinality(Unanswered(p)')
      BY <3>2, <3>3, FS_Subset
    <3>5. Cardinality(Unanswered(p)) \in Nat /\ Cardinality(Unanswered(p)') \in Nat
      <4>1. IsFiniteSet(Unanswered(p)) BY <3>2, <3>3, FS_Subset
      <4>. QED BY <3>3, <4>1, FS_CardinalityType
    <3>6. Cardinality(Unanswered(p))' >= Cardinality(Unanswered(p)) BY <3>4, <3>5
    <3>7. Lifecycle!Work(p) BY <3>1, <3>6 DEF Lifecycle!Work
    <3>. QED BY <3>7 DEF FileStep
  <2>. QED BY <2>5, <2>6
<1>6. CASE UpdateDetails
  <2>1. UNCHANGED <<presented, answered>>
        /\ (status'[p] = status[p] \/ (status[p] = "failed" /\ status'[p] = "recovered"))
    BY <1>6 DEF UpdateDetails
  <2>2. CASE status'[p] = status[p] BY <2>1, <2>2, StillFile
  <2>3. CASE status[p] = "failed" /\ status'[p] = "recovered"
    <3>1. Unanswered(p)' = Unanswered(p) BY <2>1 DEF Unanswered
    <3>2. Cardinality(Unanswered(p))' = Cardinality(Unanswered(p)) BY <3>1
    <3>3. Lifecycle!Correct(p) BY <2>3, <3>2 DEF Lifecycle!Correct
    <3>. QED BY <3>3 DEF FileStep
  <2>. QED BY <2>1, <2>2, <2>3
<1>7. ASSUME NEW t \in Moments, Advance(t) PROVE FileStep(p)
  <2>1. UNCHANGED <<status, presented, answered>> BY <1>7 DEF Advance, rowVars
  <2>. QED BY <2>1, StillFile
<1>. QED BY <1>1, <1>2, <1>3, <1>4, <1>5, <1>6, <1>7 DEF Next

(* The ledger implements FileLifecycle: every step of it is, for each      *)
(* file, one of those FileLifecycle allows.                                *)
THEOREM KeepsTheLifecycle == Spec => KeepsFileLifecycle
<1>1. Init => Lifecycle!Init
  <2>. SUFFICES ASSUME Init PROVE Lifecycle!Init OBVIOUS
  <2>1. ASSUME NEW p \in Payments PROVE Cardinality(Unanswered(p)) = 0
    <3>1. Unanswered(p) = {} BY DEF Init, Unanswered
    <3>. QED BY <3>1, FS_EmptySet
  <2>. QED BY <2>1 DEF Init, Lifecycle!Init
<1>2. LedgerInv /\ LedgerInv' /\ [Next]_vars => [Lifecycle!Next]_(Lifecycle!vars)
  <2>. SUFFICES ASSUME LedgerInv, LedgerInv', [Next]_vars
                PROVE  [Lifecycle!Next]_(Lifecycle!vars)
    OBVIOUS
  <2>1. CASE Next
    <3>1. \A p \in Payments : FileStep(p) BY <2>1, StepIsALifeStep
    <3>2. \A p \in Payments : Cardinality(Unanswered(p))' \in Nat
      <4>1. \A p \in Payments : presented'[p] \in Seq(Presentations) BY DEF LedgerInv, Types
      <4>. QED BY <4>1, FlightIsFinite DEF Unanswered
    <3>. QED BY <3>1, <3>2 DEF FileStep, Lifecycle!Next
  <2>2. CASE UNCHANGED vars BY <2>2 DEF vars, rowVars, Lifecycle!vars, Unanswered
  <2>. QED BY <2>1, <2>2
<1>. QED BY <1>1, <1>2, LedgerInvHolds, PTL DEF Spec, KeepsFileLifecycle, Lifecycle!Spec
-----------------------------------------------------------------------------
(* What a payment has used of its budget of debits, and what is ahead. *)
DoneRetries(rows) ==
  {i \in DOMAIN rows : rows[i].action = "retry" /\ rows[i].status \in Done}
RetriesAhead(rows) ==
  {i \in DOMAIN rows : rows[i].action = "retry" /\ rows[i].status = "scheduled"}

Most(c) == StrategyTable[c].max

WithinBudget(p) ==
  Len(presented[p]) + Cardinality(RetriesAhead(attempts[p])) <= Most(class[p])

(* Until recovery is run again every debit has a finished retry, by which  *)
(* the next plan is cut, and the class is one the bank has given; once it  *)
(* was run, the two plans together stay in the budget if that class is the *)
(* only one.                                                               *)
Budgeted(p) ==
  /\ class[p] = NotClassified => presented[p] = <<>>
  /\ reruns = 0 /\ class[p] # NotClassified =>
       /\ WithinBudget(p)
       /\ Len(presented[p]) <= Cardinality(DoneRetries(attempts[p]))
       /\ DOMAIN answered[p] = {} => class[p] = Classify(code[p])
       /\ presented[p] # <<>> => class[p] \in ClassesGiven(p)
  /\ reruns <= 1 /\ class[p] # NotClassified /\ ClassesGiven(p) \subseteq {class[p]} =>
       WithinBudget(p)

BudgetInv == LedgerInv /\ \A p \in Payments : Budgeted(p)

LEMMA MostTyped == \A c \in FailureClass : Most(c) \in Nat
BY TableShape DEF Most, StrategyShape

LEMMA CountsTyped ==
  ASSUME NEW rows, NEW t, TypedRows(rows, t)
  PROVE  /\ IsFiniteSet(DoneRetries(rows)) /\ Cardinality(DoneRetries(rows)) \in Nat
         /\ IsFiniteSet(RetriesAhead(rows)) /\ Cardinality(RetriesAhead(rows)) \in Nat
<1>1. IsFiniteSet(DOMAIN rows) BY DEF TypedRows
<1>2. DoneRetries(rows) \in SUBSET DOMAIN rows /\ RetriesAhead(rows) \in SUBSET DOMAIN rows
  BY DEF DoneRetries, RetriesAhead
<1>. QED BY <1>1, <1>2, FS_Subset, FS_CardinalityType

(* strategy_engine.py, plan: the ladder comes first, no longer than the    *)
(* budget of its class, unless it is a single retry without a time.        *)
LadderFirst(pl, r, most) ==
  /\ r \in Nat
  /\ \A i \in 1..r : i \in DOMAIN pl /\ pl[i].action = "retry" /\ pl[i].channel = "none"
  /\ \A i \in DOMAIN pl : pl[i].action = "retry" => i \in 1..r
  /\ r <= most \/ \A i \in 1..r : pl[i].at = NoTime

LEMMA PlanStartsWithLadder ==
  ASSUME Types, NEW p \in Payments, failedAt[p] \in Start..now
  PROVE  \E r : LadderFirst(Plan([code |-> code[p], monthly |-> p \in Monthly],
                                 Customer, failedAt[p]),
                            r, Most(Classify(code[p])))
<1>. DEFINE debit == [code |-> code[p], monthly |-> p \in Monthly]
            t == failedAt[p]
            pl == Plan(debit, Customer, t)
            class0 == Classify(debit.code)
            escalates == Escalates(class0, debit, Customer)
            writeOff == WriteOffAt(escalates, t)
            retries == Retries(class0, debit, Customer, t)
            sent == Messages(StrategyTable[class0].messages, Dates(retries), Customer.contact,
                             t, writeOff)
            alerts == Humans(StrategyTable[class0].humans, t)
<1>1. debit.monthly \in BOOLEAN /\ debit.code = code[p]
  <2>1. debit.monthly = (p \in Monthly) /\ debit.code = code[p] BY Zenon
  <2>2. (p \in Monthly) \in BOOLEAN
    <3>1. CASE p \in Monthly BY <3>1
    <3>2. CASE p \notin Monthly BY <3>2
    <3>. QED BY <3>1, <3>2
  <2>. HIDE DEF debit
  <2>. QED BY <2>1, <2>2, Zenon
<1>2. t \in Instants BY StartIsAnInstant DEF Types
<1>3. Customer \in CustomerRecords BY CustomerTyped
<1>. HIDE DEF debit
<1>4. PlanParts(pl, retries, sent, alerts, writeOff)
  <2>. HIDE DEF t
  <2>. QED BY <1>1, <1>2, <1>3, PlanHasParts
<1>5. class0 \in FailureClass BY ClassifyTyped
<1>6. /\ retries \in Seq(PlannedAttempts)
      /\ \A i \in DOMAIN retries : retries[i].action = "retry" /\ retries[i].channel = "none"
  <2>. HIDE DEF t, class0
  <2>. QED BY <1>1, <1>2, <1>3, <1>5, RetriesShape
<1>7. Len(retries) <= Most(class0) \/ \A i \in 1..Len(retries) : retries[i].at = NoTime
  <2>. HIDE DEF class0, t
  <2>1. CASE AllowsRetries(class0) /\ BudgetLeft(Customer) = 0
    <3>1. retries = <<Attempt("retry", "none", NoTime)>> BY <2>1 DEF Retries
    <3>. QED BY <3>1 DEF Attempt
  <2>2. CASE ~ (AllowsRetries(class0) /\ BudgetLeft(Customer) = 0)
    <3>1. Len(retries) = Repeats(class0, Customer)
      <4>. DEFINE times == RetryTimes(StrategyTable[class0].retry, Repeats(class0, Customer),
                                      escalates, Customer, t)
      <4>1. Repeats(class0, Customer) \in Nat BY <1>3, <1>5, RepeatsTyped
      <4>2. retries = Ladder(times, Repeats(class0, Customer), writeOff)
        BY <2>2 DEF Retries
      <4>. HIDE DEF times, retries, writeOff
      <4>. QED BY <4>1, <4>2 DEF Ladder
    <3>2. Repeats(class0, Customer) <= Most(class0)
      <4>. DEFINE S == {StrategyTable[class0].max, BudgetLeft(Customer)}
      <4>1. Most(class0) \in Nat /\ BudgetLeft(Customer) \in Nat
        BY <1>3, <1>5, MostTyped, RepeatsTyped
      <4>2. CASE ~ AllowsRetries(class0) BY <4>1, <4>2 DEF Repeats
      <4>3. CASE AllowsRetries(class0)
        <5>1. Repeats(class0, Customer) = EarliestOf(S) BY <4>3 DEF Repeats
        <5>2. S \in SUBSET Int /\ S # {} /\ Most(class0) \in S
              /\ (\E low \in Int : \A x \in S : low <= x)
          <6>1. \A x \in S : x \in Nat BY <4>1 DEF Most
          <6>. QED BY <6>1 DEF Most
        <5>3. \A x \in S : EarliestOf(S) <= x
          <6>. HIDE DEF S
          <6>. QED BY <5>2, EarliestExists
        <5>. QED BY <5>1, <5>2, <5>3
      <4>. QED BY <4>2, <4>3
    <3>. QED BY <3>1, <3>2
  <2>. QED BY <2>1, <2>2
<1>8. LadderFirst(pl, Len(retries), Most(class0))
  <2>. HIDE DEF pl, retries, sent, alerts, writeOff, class0
  <2>1. Len(retries) \in Nat /\ DOMAIN retries = 1..Len(retries) BY <1>6
  <2>2. \A i \in DOMAIN retries : i \in DOMAIN pl /\ pl[i] = retries[i] BY <1>4 DEF PlanParts
  <2>3. \A i \in DOMAIN pl : pl[i].action = "retry" => i \in DOMAIN retries
    BY <1>4 DEF PlanParts
  <2>4. \A i \in 1..Len(retries) :
          i \in DOMAIN pl /\ pl[i].action = "retry" /\ pl[i].channel = "none"
    BY <1>6, <2>1, <2>2
  <2>5. Len(retries) <= Most(class0) \/ \A i \in 1..Len(retries) : pl[i].at = NoTime
    BY <1>7, <2>1, <2>2
  <2>. QED BY <2>1, <2>3, <2>4, <2>5 DEF LadderFirst
<1>. QED BY <1>1, <1>8 DEF debit

(* repository.py, _merge_attempts: one retry is dropped for each that is   *)
(* finished.                                                               *)
LEMMA RetriesLeft ==
  ASSUME NEW rows, TypedRows(rows, now), NEW pl, NEW r, NEW most \in Nat,
         LadderFirst(pl, r, most)
  PROVE  LET ahead == RetriesAhead(Persisted(History(rows), pl))
             spent == Cardinality(DoneRetries(rows))
         IN /\ Cardinality(ahead) \in Nat /\ Cardinality(ahead) <= most
            /\ Cardinality(ahead) + spent <= most \/ Cardinality(ahead) = 0
<1>. DEFINE history == History(rows)
            left == StepsLeft(pl, history)
            new == Persisted(history, pl)
            ahead == RetriesAhead(new)
            spent == Cardinality(DoneRetries(rows))
            rest == (spent + 1)..r
<1>1. /\ DOMAIN history = {i \in DOMAIN rows : rows[i].status \in Done}
      /\ \A i \in DOMAIN history : history[i] = rows[i]
  BY DEF History
<1>. HIDE DEF history
<1>2. spent \in Nat /\ r \in Nat BY CountsTyped DEF LadderFirst
<1>3. {i \in DOMAIN history : history[i].action = "retry" /\ history[i].channel = "none"}
        = DoneRetries(rows)
  <2>1. \A i \in DOMAIN rows : rows[i].action = "retry" => rows[i].channel = "none"
    BY DEF TypedRows, TypedRow
  <2>. QED BY <1>1, <2>1 DEF DoneRetries
<1>4. ASSUME NEW i \in ahead PROVE i \in rest /\ pl[i].at # NoTime
  <2>1. i \in DOMAIN new /\ new[i].action = "retry" /\ new[i].status = "scheduled"
    BY DEF RetriesAhead
  <2>2. i \in left /\ new[i] = Row(pl[i])
    <3>1. ~ (i \in DOMAIN history /\ new[i] = history[i]) BY <1>1, <2>1 DEF Done
    <3>. QED BY <2>1, <3>1 DEF Persisted
  <2>3. pl[i].action = "retry" /\ pl[i].at # NoTime BY <2>1, <2>2 DEF Row
  <2>4. i \in 1..r /\ i \in DOMAIN pl BY <2>2, <2>3 DEF LadderFirst, StepsLeft
  <2>5. pl[i].channel = "none" BY <2>4 DEF LadderFirst
  <2>6. {m \in 1..i : pl[m].action = pl[i].action /\ pl[m].channel = pl[i].channel} = 1..i
    <3>1. \A m \in 1..i : m \in 1..r BY <1>2, <2>4
    <3>. QED BY <2>3, <2>5, <3>1 DEF LadderFirst
  <2>7. Cardinality(1..i) = i
    <3>1. 1 \in Int /\ i \in Int /\ i >= 1 BY <1>2, <2>4
    <3>. QED BY <3>1, FS_Interval
  <2>8. i > spent BY <1>3, <2>2, <2>3, <2>5, <2>6, <2>7 DEF StepsLeft
  <2>. QED BY <1>2, <2>3, <2>4, <2>8
<1>5. IsFiniteSet(rest) /\ Cardinality(rest) = IF spent + 1 > r THEN 0 ELSE r - spent
  <2>. HIDE DEF spent
  <2>1. spent + 1 \in Int /\ r \in Int BY <1>2
  <2>2. IsFiniteSet(rest) /\ Cardinality(rest) = IF spent + 1 > r THEN 0 ELSE r - (spent + 1) + 1
    BY ONLY <2>1, FS_Interval
  <2>. QED BY <1>2, <2>2
<1>6. Cardinality(ahead) <= Cardinality(rest) /\ Cardinality(ahead) \in Nat
  <2>1. ahead \in SUBSET rest BY <1>4
  <2>. HIDE DEF ahead, rest
  <2>. QED BY <1>5, <2>1, FS_Subset, FS_CardinalityType
<1>7. r > most => Cardinality(ahead) = 0
  <2>. SUFFICES ASSUME r > most PROVE Cardinality(ahead) = 0 OBVIOUS
  <2>1. \A i \in 1..r : pl[i].at = NoTime BY <1>2 DEF LadderFirst
  <2>2. ahead = {} BY <1>2, <1>4, <2>1
  <2>. HIDE DEF ahead
  <2>. QED BY <2>2, FS_EmptySet
<1>8. Cardinality(ahead) <= most /\ (Cardinality(ahead) + spent <= most \/ Cardinality(ahead) = 0)
  <2>. HIDE DEF ahead, spent, rest
  <2>. QED BY <1>2, <1>5, <1>6, <1>7
<1>. QED BY <1>6, <1>8 DEF history

-----------------------------------------------------------------------------
(* A payment of which nothing changes stays within its budget, whatever is *)
(* done to another.                                                        *)
Rests(p) ==
  /\ class'[p] = class[p] /\ code'[p] = code[p] /\ presented'[p] = presented[p]
  /\ answered'[p] = answered[p] /\ attempts'[p] = attempts[p]

RerunsGrow == reruns \in Nat /\ reruns' \in Nat /\ reruns <= reruns'

LEMMA RestingStaysBudgeted ==
  ASSUME BudgetInv, NEW p \in Payments, Rests(p), RerunsGrow
  PROVE  Budgeted(p)'
<1>1. Budgeted(p) BY DEF BudgetInv
<1>2. WithinBudget(p)' = WithinBudget(p) BY DEF WithinBudget, Rests
<1>3. ClassesGiven(p)' = ClassesGiven(p) BY DEF ClassesGiven, Rests
<1>. QED BY <1>1, <1>2, <1>3 DEF Budgeted, Rests, RerunsGrow

(* An answer only adds to the classes that the bank has given. *)
LEMMA AnswerStaysBudgeted ==
  ASSUME BudgetInv, NEW p \in Payments, NEW n, AnswerDue(p, n), NEW answer,
         answered' = [answered EXCEPT ![p] = Adding(@, n, answer)],
         class' = class, presented' = presented, attempts' = attempts, reruns' = reruns
  PROVE  Budgeted(p)'
<1>1. Budgeted(p) /\ Types BY DEF BudgetInv, LedgerInv
<1>2. /\ DOMAIN answered'[p] = DOMAIN answered[p] \cup {n}
      /\ n \notin DOMAIN answered[p]
      /\ \A m \in DOMAIN answered[p] : answered'[p][m] = answered[p][m]
  BY <1>1, AnswerRecorded
<1>3. ClassesGiven(p) \subseteq ClassesGiven(p)' BY <1>2 DEF ClassesGiven
<1>4. WithinBudget(p)' = WithinBudget(p) BY DEF WithinBudget
<1>5. DOMAIN answered'[p] # {} BY <1>2
<1>. QED BY <1>1, <1>3, <1>4, <1>5 DEF Budgeted

-----------------------------------------------------------------------------
(* pinch_client.py, retry_payment: no more debits than retries taken, each *)
(* with the class of the payment's reason.                                 *)
LEMMA DebitsCounted ==
  ASSUME Types, NEW p \in Payments, NEW taken \in SUBSET Due(p), NEW refused
  PROVE  /\ IsFiniteSet(RetriesOf(p, taken))
         /\ Len(Debits(p, taken, refused)) <= Cardinality(RetriesOf(p, taken))
         /\ \A n \in DOMAIN Debits(p, taken, refused) :
              Debits(p, taken, refused)[n].class = Classify(code[p])
<1>. DEFINE R == {i \in RetriesOf(p, taken) : <<p, i>> \notin refused}
            rows == attempts[p]
            debit(n) == rows[CHOOSE i \in R : Cardinality(Earlier(rows, R, i)) = n - 1].at
<1>1. IsFiniteSet(RetriesOf(p, taken)) /\ R \in SUBSET RetriesOf(p, taken)
  <2>1. RetriesOf(p, taken) \in SUBSET DOMAIN rows BY DEF RetriesOf, Due
  <2>2. IsFiniteSet(DOMAIN rows) BY DEF Types, TypedRows
  <2>3. R \in SUBSET RetriesOf(p, taken) OBVIOUS
  <2>. HIDE DEF R
  <2>. QED BY <2>1, <2>2, <2>3, FS_Subset
<1>2. Debits(p, taken, refused) =
        [n \in 1..Cardinality(R) |-> [at |-> debit(n), class |-> Classify(code[p])]]
  BY DEF Debits, Earlier
<1>. HIDE DEF R, debit
<1>3. Cardinality(R) \in Nat /\ Cardinality(R) <= Cardinality(RetriesOf(p, taken))
  <2>1. IsFiniteSet(R) BY <1>1, FS_Subset
  <2>. QED BY <1>1, <2>1, FS_Subset, FS_CardinalityType
<1>4. Len(Debits(p, taken, refused)) = Cardinality(R) BY <1>2, <1>3
<1>. QED BY <1>1, <1>2, <1>3, <1>4

(* What is taken is ahead no more and finished from then on. *)
LEMMA WorkedCounts ==
  ASSUME Types, NEW p \in Payments, NEW taken, NEW refused, Worked(p, taken, refused)
  PROVE  LET R == RetriesOf(p, taken)
             rows == attempts[p]
             new == attempts'[p]
         IN /\ IsFiniteSet(R) /\ Cardinality(R) \in Nat
            /\ Cardinality(RetriesAhead(new)) = Cardinality(RetriesAhead(rows)) - Cardinality(R)
            /\ Cardinality(DoneRetries(new)) = Cardinality(DoneRetries(rows)) + Cardinality(R)
<1>. DEFINE R == RetriesOf(p, taken)
            rows == attempts[p]
            new == attempts'[p]
<1>1. /\ DOMAIN new = DOMAIN rows /\ taken \subseteq DOMAIN rows
      /\ \A i \in DOMAIN rows :
           /\ new[i].action = rows[i].action
           /\ i \notin taken => new[i].status = rows[i].status
           /\ i \in taken => rows[i].status = "scheduled"
  BY WorkedRows
<1>2. TypedRows(rows, now) /\ taken \in SUBSET Due(p) BY DEF Types, Worked
<1>3. \A i \in taken : new[i].status \in {"failed", "executed"}
  <2>. TAKE i \in taken
  <2>1. i \in DOMAIN rows /\ rows[i] \in AttemptRow BY <1>1, <1>2 DEF TypedRows, TypedRow
  <2>2. new[i] = Fired(p, i, refused) BY <2>1 DEF Worked
  <2>. HIDE DEF new
  <2>. QED BY <2>1, <2>2 DEF Fired, AttemptRow
<1>4. IsFiniteSet(R) BY <1>2, DebitsCounted
<1>5. \A i : i \in R <=> i \in taken /\ rows[i].action = "retry" BY DEF RetriesOf
<1>. HIDE DEF R, rows, new
<1>6. Cardinality(R) \in Nat BY <1>4, FS_CardinalityType
<1>7. /\ IsFiniteSet(DoneRetries(rows)) /\ Cardinality(DoneRetries(rows)) \in Nat
      /\ IsFiniteSet(RetriesAhead(rows)) /\ Cardinality(RetriesAhead(rows)) \in Nat
  BY <1>2, CountsTyped
<1>8. R \in SUBSET RetriesAhead(rows)
  BY <1>1, <1>5 DEF RetriesAhead
<1>9. RetriesAhead(new) = RetriesAhead(rows) \ R
  <2>1. ASSUME NEW i PROVE i \in RetriesAhead(new) <=> i \in RetriesAhead(rows) \ R
    <3>1. CASE i \in taken BY <1>1, <1>3, <1>5, <3>1 DEF RetriesAhead
    <3>2. CASE i \notin taken BY <1>1, <1>5, <3>2 DEF RetriesAhead
    <3>. QED BY <3>1, <3>2
  <2>. QED BY <2>1
<1>10. DoneRetries(new) = DoneRetries(rows) \cup R /\ DoneRetries(rows) \cap R = {}
  <2>1. ASSUME NEW i
        PROVE  /\ i \in DoneRetries(new) <=> i \in DoneRetries(rows) \cup R
               /\ i \in R => i \notin DoneRetries(rows)
    <3>1. CASE i \in taken BY <1>1, <1>3, <1>5, <3>1 DEF DoneRetries, Done
    <3>2. CASE i \notin taken BY <1>1, <1>5, <3>2 DEF DoneRetries
    <3>. QED BY <3>1, <3>2
  <2>. QED BY <2>1
<1>11. Cardinality(RetriesAhead(new)) = Cardinality(RetriesAhead(rows)) - Cardinality(R)
  <2>1. RetriesAhead(rows) \cap R = R BY <1>8
  <2>2. Cardinality(RetriesAhead(rows) \ R)
          = Cardinality(RetriesAhead(rows)) - Cardinality(RetriesAhead(rows) \cap R)
    BY <1>7, FS_Difference
  <2>. QED BY <1>9, <2>1, <2>2
<1>12. Cardinality(DoneRetries(new)) = Cardinality(DoneRetries(rows)) + Cardinality(R)
  <2>1. Cardinality(DoneRetries(rows) \cup R)
          = Cardinality(DoneRetries(rows)) + Cardinality(R)
            - Cardinality(DoneRetries(rows) \cap R)
    BY <1>4, <1>7, FS_Union
  <2>2. Cardinality(DoneRetries(rows) \cap R) = 0 BY <1>10, FS_EmptySet
  <2>. QED BY <1>6, <1>7, <1>10, <2>1, <2>2
<1>. QED BY <1>4, <1>6, <1>11, <1>12 DEF R, rows, new

(* A batch spends of what is ahead, and its debits have their retries.     *)
LEMMA WorkStaysBudgeted ==
  ASSUME BudgetInv, NEW p \in Payments, NEW taken, NEW refused, Worked(p, taken, refused),
         class' = class, code' = code, answered' = answered, reruns' = reruns
  PROVE  Budgeted(p)'
<1>. DEFINE R == RetriesOf(p, taken)
            rows == attempts[p]
            new == attempts'[p]
            fresh == Debits(p, taken, refused)
<1>0. Types /\ FileInv(p) /\ Budgeted(p) BY DEF BudgetInv, LedgerInv
<1>1. taken \in SUBSET Due(p) /\ presented'[p] = presented[p] \o fresh BY DEF Worked
<1>2. presented[p] \in Seq(Presentations) /\ fresh \in Seq(Presentations)
      /\ (taken = {} => presented'[p] = presented[p])
  BY <1>0, <1>1, DebitsTyped, WorkedRows DEF Types
<1>3. /\ Len(fresh) <= Cardinality(R)
      /\ \A n \in DOMAIN fresh : fresh[n].class = Classify(code[p])
  BY <1>0, <1>1, DebitsCounted
<1>4. /\ Cardinality(R) \in Nat
      /\ Cardinality(RetriesAhead(new)) = Cardinality(RetriesAhead(rows)) - Cardinality(R)
      /\ Cardinality(DoneRetries(new)) = Cardinality(DoneRetries(rows)) + Cardinality(R)
  BY <1>0, WorkedCounts
<1>5. /\ Cardinality(DoneRetries(rows)) \in Nat /\ Cardinality(RetriesAhead(rows)) \in Nat
  <2>1. TypedRows(rows, now) BY <1>0 DEF Types
  <2>. HIDE DEF rows
  <2>. QED BY <2>1, CountsTyped
<1>6. ASSUME class[p] = NotClassified PROVE presented'[p] = <<>>
  <2>1. presented[p] = <<>> BY <1>0, <1>6 DEF Budgeted
  <2>2. \A i \in DOMAIN rows : i = Fix /\ rows[i].status = "succeeded"
    BY <1>0, <1>6 DEF FileInv, FixCloses
  <2>3. taken = {} BY <1>1, <2>2 DEF Due
  <2>. QED BY <1>2, <2>1, <2>3
<1>. HIDE DEF R, rows, new, fresh
<1>7. /\ Len(presented'[p]) = Len(presented[p]) + Len(fresh)
      /\ Len(presented[p]) \in Nat /\ Len(fresh) \in Nat
      /\ \A n \in DOMAIN presented[p] : n \in DOMAIN presented'[p]
                                        /\ presented'[p][n] = presented[p][n]
      /\ presented[p] = <<>> => presented'[p] = fresh
  BY <1>1, <1>2
<1>8. ClassesGiven(p) \subseteq ClassesGiven(p)' BY <1>7 DEF ClassesGiven
<1>9. ASSUME WithinBudget(p), class[p] # NotClassified PROVE WithinBudget(p)'
  <2>1. Most(class[p]) \in Nat BY <1>0, <1>9, MostTyped DEF Types
  <2>2. Len(presented[p]) + Cardinality(RetriesAhead(rows)) <= Most(class[p])
    BY <1>9 DEF WithinBudget, rows
  <2>3. Len(presented'[p]) + Cardinality(RetriesAhead(new)) <= Most(class[p])
    BY <1>3, <1>4, <1>5, <1>7, <2>1, <2>2
  <2>. QED BY <2>3 DEF WithinBudget, Most, new
<1>10. ASSUME reruns = 0, class[p] # NotClassified
       PROVE  /\ Len(presented'[p]) <= Cardinality(DoneRetries(new))
              /\ presented'[p] # <<>> => class[p] \in ClassesGiven(p)'
  <2>1. /\ Len(presented[p]) <= Cardinality(DoneRetries(rows))
        /\ DOMAIN answered[p] = {} => class[p] = Classify(code[p])
        /\ presented[p] # <<>> => class[p] \in ClassesGiven(p)
    BY <1>0, <1>10 DEF Budgeted, rows
  <2>2. Len(presented'[p]) <= Cardinality(DoneRetries(new))
    BY <1>3, <1>4, <1>5, <1>7, <2>1
  <2>3. ASSUME presented'[p] # <<>>, presented[p] = <<>> PROVE class[p] \in ClassesGiven(p)'
    <3>1. presented'[p] = fresh /\ 1 \in DOMAIN fresh BY <1>2, <1>7, <2>3
    <3>2. DOMAIN answered[p] = {}
      <4>1. DOMAIN answered[p] \subseteq DOMAIN presented[p] BY <1>0 DEF Types
      <4>. QED BY <2>3, <4>1
    <3>3. class[p] = Classify(code[p]) BY <2>1, <3>2
    <3>4. presented'[p][1].class = class[p] /\ 1 \in DOMAIN presented'[p]
      BY <1>3, <3>1, <3>3
    <3>. QED BY <3>4 DEF ClassesGiven
  <2>. QED BY <1>8, <2>1, <2>2, <2>3
<1>. QED BY <1>0, <1>6, <1>8, <1>9, <1>10 DEF Budgeted, new

(* New details leave nothing ahead, and undo nothing that was done. *)
LEMMA CorrectedCounts ==
  ASSUME NEW rows, TypedRows(rows, now), NEW new, new = Corrected(rows, FirstPendingRetry(rows)),
         Fix \notin DOMAIN rows, TypedRows(new, now)
  PROVE  /\ Cardinality(RetriesAhead(new)) = 0
         /\ Cardinality(DoneRetries(rows)) <= Cardinality(DoneRetries(new))
<1>. DEFINE used == FirstPendingRetry(rows)
            skipped == [i \in DOMAIN rows |->
              IF i \in used THEN [rows[i] EXCEPT !.status = "succeeded", !.done = now]
              ELSE IF rows[i].status = "scheduled" THEN [rows[i] EXCEPT !.status = "skipped"]
              ELSE rows[i]]
            fix == [action |-> "retry", channel |-> "none", at |-> now,
                    status |-> "succeeded", done |-> now]
<1>1. new = IF used = {} THEN Adding(skipped, Fix, fix) ELSE skipped BY DEF Corrected
<1>2. \A i \in DOMAIN rows : rows[i] \in AttemptRow BY DEF TypedRows, TypedRow
<1>3. \A i \in used : i \in DOMAIN rows /\ rows[i].status = "scheduled"
  BY DEF FirstPendingRetry
<1>. HIDE DEF used
<1>4. ASSUME NEW i \in DOMAIN rows
      PROVE  /\ skipped[i].status # "scheduled"
             /\ rows[i].status \in Done => skipped[i] = rows[i]
  <2>1. CASE i \in used
    <3>1. skipped[i] = [rows[i] EXCEPT !.status = "succeeded", !.done = now] BY <2>1
    <3>. HIDE DEF skipped
    <3>. QED BY <1>2, <1>3, <2>1, <3>1 DEF AttemptRow, Done
  <2>2. CASE i \notin used /\ rows[i].status = "scheduled"
    <3>1. skipped[i] = [rows[i] EXCEPT !.status = "skipped"] BY <2>2
    <3>. HIDE DEF skipped
    <3>. QED BY <1>2, <2>2, <3>1 DEF AttemptRow, Done
  <2>3. CASE i \notin used /\ rows[i].status # "scheduled"
    <3>1. skipped[i] = rows[i] BY <2>3
    <3>. HIDE DEF skipped
    <3>. QED BY <2>3, <3>1
  <2>. QED BY <2>1, <2>2, <2>3
<1>5. DOMAIN skipped = DOMAIN rows /\ fix.status # "scheduled" OBVIOUS
<1>. HIDE DEF skipped, fix
<1>6. /\ \A i \in DOMAIN new : new[i].status # "scheduled"
      /\ \A i \in DOMAIN rows : i \in DOMAIN new /\ new[i] = skipped[i]
  <2>1. CASE used = {}
    <3>1. DOMAIN new = DOMAIN rows \cup {Fix} /\ new[Fix] = fix
          /\ \A i \in DOMAIN rows : new[i] = skipped[i]
      BY <1>1, <1>5, <2>1 DEF Adding
    <3>. QED BY <1>4, <1>5, <3>1
  <2>2. CASE used # {} BY <1>1, <1>4, <1>5, <2>2
  <2>. QED BY <2>1, <2>2
<1>7. RetriesAhead(new) = {} BY <1>6 DEF RetriesAhead
<1>8. DoneRetries(rows) \in SUBSET DoneRetries(new) BY <1>4, <1>6 DEF DoneRetries
<1>9. IsFiniteSet(DoneRetries(new)) BY CountsTyped
<1>. QED BY <1>7, <1>8, <1>9, FS_EmptySet, FS_Subset

LEMMA CorrectionStaysBudgeted ==
  ASSUME BudgetInv, LedgerInv', NEW p \in Payments, UpdateDetails, reruns \in Nat
  PROVE  Budgeted(p)'
<1>. DEFINE fixed == {q \in Payments : status[q] = "failed" /\ class[q] \notin NotChargeable}
            rows == attempts[p]
            new == attempts'[p]
<1>0. Types /\ FileInv(p) /\ Budgeted(p) /\ Types' BY DEF BudgetInv, LedgerInv
<1>1. /\ new = IF p \in fixed THEN Corrected(rows, FirstPendingRetry(rows)) ELSE rows
      /\ UNCHANGED <<now, class, code, presented, answered, reruns>>
  BY DEF UpdateDetails
<1>2. CASE p \notin fixed
  <2>1. Rests(p) BY <1>1, <1>2 DEF Rests
  <2>2. RerunsGrow BY <1>1 DEF RerunsGrow
  <2>. QED BY <2>1, <2>2, RestingStaysBudgeted
<1>3. CASE p \in fixed
  <2>1. TypedRows(rows, now) /\ TypedRows(new, now) BY <1>0, <1>1 DEF Types
  <2>2. Fix \notin DOMAIN rows BY <1>0, <1>3 DEF FileInv, FixCloses
  <2>3. new = Corrected(rows, FirstPendingRetry(rows)) BY <1>1, <1>3
  <2>4. ClassesGiven(p)' = ClassesGiven(p) BY <1>1 DEF ClassesGiven
  <2>5. presented[p] \in Seq(Presentations) BY <1>0 DEF Types
  <2>. HIDE DEF rows, new
  <2>6. /\ Cardinality(RetriesAhead(new)) = 0
        /\ Cardinality(DoneRetries(rows)) <= Cardinality(DoneRetries(new))
    BY <2>1, <2>2, <2>3, CorrectedCounts
  <2>7. /\ Cardinality(RetriesAhead(rows)) \in Nat
        /\ Cardinality(DoneRetries(rows)) \in Nat /\ Cardinality(DoneRetries(new)) \in Nat
    BY <2>1, CountsTyped
  <2>8. ASSUME WithinBudget(p), class[p] # NotClassified PROVE WithinBudget(p)'
    <3>1. Most(class[p]) \in Nat BY <1>0, <2>8, MostTyped DEF Types
    <3>2. Len(presented[p]) + Cardinality(RetriesAhead(rows)) <= Most(class[p])
      BY <2>8 DEF WithinBudget, rows
    <3>3. Len(presented[p]) + Cardinality(RetriesAhead(new)) <= Most(class[p])
      BY <2>5, <2>6, <2>7, <3>1, <3>2
    <3>. QED BY <1>1, <3>3 DEF WithinBudget, Most, new
  <2>9. Len(presented[p]) <= Cardinality(DoneRetries(rows)) =>
          Len(presented[p]) <= Cardinality(DoneRetries(new))
    BY <2>5, <2>6, <2>7
  <2>. QED BY <1>0, <1>1, <2>4, <2>8, <2>9 DEF Budgeted, rows, new
<1>. QED BY <1>2, <1>3

-----------------------------------------------------------------------------
(* run_recovery: the new plan is cut by what is finished, so it and the    *)
(* debits that are out stay within the budget of one class.                *)
LEMMA RecoverStaysBudgeted ==
  ASSUME BudgetInv, LedgerInv', NEW p \in Payments, Recover(p), reruns \in Nat,
         \/ class[p] = NotClassified /\ reruns' = reruns
         \/ class[p] # NotClassified /\ reruns' = reruns + 1
  PROVE  Budgeted(p)'
<1>. DEFINE pl == Plan([code |-> code[p], monthly |-> p \in Monthly], Customer, failedAt[p])
            rows == attempts[p]
            ahead == Cardinality(RetriesAhead(attempts'[p]))
            spent == Cardinality(DoneRetries(rows))
            debits == Len(presented[p])
            most == Most(class'[p])
<1>0. Types /\ FileInv(p) /\ Budgeted(p) BY DEF BudgetInv, LedgerInv
<1>1. /\ UNCHANGED <<now, code, presented, answered>> /\ failedAt[p] # NoTime
      /\ class' = [class EXCEPT ![p] = Classify(code[p])]
      /\ attempts' = [attempts EXCEPT ![p] = Persisted(History(@), pl)]
  BY DEF Recover, Classified
<1>2. failedAt[p] \in Start..now BY <1>0, <1>1 DEF FileInv, Heard
<1>3. class'[p] = Classify(code[p]) /\ attempts'[p] = Persisted(History(rows), pl)
  BY <1>0, <1>1 DEF Types
<1>4. class'[p] \in FailureClass /\ class'[p] # NotClassified
  BY <1>3, ClassifyTyped DEF FailureClass, NotClassified
<1>5. PICK r : LadderFirst(pl, r, most) BY <1>0, <1>2, <1>3, PlanStartsWithLadder
<1>6. TypedRows(rows, now) /\ most \in Nat BY <1>0, <1>4, MostTyped DEF Types
<1>7. /\ ahead <= most /\ ahead \in Nat /\ spent \in Nat /\ debits \in Nat
      /\ ahead + spent <= most \/ ahead = 0
  <2>. HIDE DEF rows, pl, most
  <2>1. /\ ahead \in Nat /\ ahead <= most
        /\ ahead + spent <= most \/ ahead = 0
    BY <1>3, <1>5, <1>6, RetriesLeft
  <2>2. spent \in Nat BY <1>6, CountsTyped
  <2>3. debits \in Nat
    <3>1. presented[p] \in Seq(Presentations) BY <1>0 DEF Types
    <3>. QED BY <3>1
  <2>. QED BY <2>1, <2>2, <2>3
<1>8. ClassesGiven(p)' = ClassesGiven(p) BY <1>1 DEF ClassesGiven
<1>. HIDE DEF pl, rows, ahead, spent, debits, most
<1>9. debits + ahead <= most => WithinBudget(p)'
  BY <1>1 DEF WithinBudget, ahead, debits, most
<1>10. CASE class[p] = NotClassified
  <2>1. presented[p] = <<>> /\ presented'[p] = <<>> BY <1>0, <1>1, <1>10 DEF Budgeted
  <2>2. debits = 0 BY <2>1 DEF debits
  <2>3. WithinBudget(p)' BY <1>7, <1>9, <2>2
  <2>4. Len(presented'[p]) <= Cardinality(DoneRetries(attempts'[p]))
    <3>1. TypedRows(attempts'[p], now) BY <1>1 DEF LedgerInv, Types
    <3>. QED BY <2>1, <3>1, CountsTyped
  <2>. QED BY <1>1, <1>3, <1>4, <2>1, <2>3, <2>4 DEF Budgeted
<1>11. CASE class[p] # NotClassified
  <2>1. reruns' # 0 /\ (reruns' <= 1 => reruns = 0) BY <1>11
  <2>2. ASSUME reruns = 0, ClassesGiven(p) \subseteq {class'[p]}
        PROVE  WithinBudget(p)'
    <3>1. /\ Len(presented[p]) <= Cardinality(DoneRetries(rows))
          /\ presented[p] # <<>> => class[p] \in ClassesGiven(p)
          /\ WithinBudget(p)
      BY <1>0, <1>11, <2>2 DEF Budgeted, rows
    <3>2. CASE presented[p] = <<>>
      <4>1. debits = 0 BY <3>2 DEF debits
      <4>. QED BY <1>7, <1>9, <4>1
    <3>3. CASE presented[p] # <<>>
      <4>1. class[p] = class'[p] BY <2>2, <3>1, <3>3
      <4>2. debits <= spent BY <3>1 DEF debits, spent
      <4>3. debits <= most
        <5>1. debits + Cardinality(RetriesAhead(rows)) <= most
          BY <3>1, <4>1 DEF WithinBudget, debits, most, rows
        <5>2. Cardinality(RetriesAhead(rows)) \in Nat BY <1>6, CountsTyped
        <5>. QED BY <1>6, <1>7, <5>1, <5>2
      <4>4. debits + ahead <= most BY <1>6, <1>7, <4>2, <4>3
      <4>. QED BY <1>9, <4>4
    <3>. QED BY <3>2, <3>3
  <2>. QED BY <1>4, <1>8, <2>1, <2>2 DEF Budgeted
<1>. QED BY <1>10, <1>11

LEMMA StepStaysBudgeted == BudgetInv /\ [Next]_vars => BudgetInv'
<1>. SUFFICES ASSUME BudgetInv, [Next]_vars PROVE BudgetInv' OBVIOUS
<1>1. LedgerInv /\ Types /\ LedgerInv' BY StepIsSound DEF BudgetInv, LedgerInv
<1>2. reruns \in Nat /\ reruns' \in Nat BY <1>1, LedgerAssumption DEF LedgerInv, Types
<1>. SUFFICES ASSUME NEW p \in Payments PROVE Budgeted(p)' BY <1>1 DEF BudgetInv
<1>3. ASSUME Rests(p), reruns <= reruns' PROVE Budgeted(p)'
  BY <1>2, <1>3, RestingStaysBudgeted DEF RerunsGrow
<1>4. ASSUME NEW q \in Payments, NEW c \in Codes, FirstDishonour(q, c) PROVE Budgeted(p)'
  <2>1. /\ status[q] = "absent" /\ code' = [code EXCEPT ![q] = c]
        /\ UNCHANGED <<class, attempts, presented, answered, reruns>>
    BY <1>4 DEF FirstDishonour, Dishonoured, Closed
  <2>2. CASE p # q
    <3>1. Rests(p) BY <1>1, <2>1, <2>2 DEF Rests, Types
    <3>. QED BY <1>2, <1>3, <2>1, <3>1
  <2>3. CASE p = q
    <3>1. class[p] = NotClassified /\ presented[p] = <<>>
      BY <1>1, <2>1, <2>3 DEF LedgerInv, FileInv, Heard
    <3>. QED BY <2>1, <3>1 DEF Budgeted
  <2>. QED BY <2>2, <2>3
<1>5. ASSUME NEW q \in Payments, NEW n, NEW answer, AnswerDue(q, n),
             answered' = [answered EXCEPT ![q] = Adding(@, n, answer)],
             UNCHANGED <<class, attempts, presented, reruns>>,
             p # q => code'[p] = code[p]
      PROVE  Budgeted(p)'
  <2>1. CASE p # q
    <3>1. answered'[p] = answered[p] BY <1>1, <1>5, <2>1 DEF Types
    <3>2. Rests(p) BY <1>5, <2>1, <3>1 DEF Rests
    <3>. QED BY <1>2, <1>3, <1>5, <3>2
  <2>2. CASE p = q BY <1>5, <2>2, AnswerStaysBudgeted
  <2>. QED BY <2>1, <2>2
<1>6. ASSUME NEW q \in Payments, NEW n, AnswerCleared(q, n) PROVE Budgeted(p)'
  <2>1. /\ AnswerDue(q, n) /\ answered' = [answered EXCEPT ![q] = Adding(@, n, "cleared")]
        /\ UNCHANGED <<class, attempts, presented, reruns>> /\ code' = code
    BY <1>6 DEF AnswerCleared
  <2>. QED BY <1>5, <2>1
<1>7. ASSUME NEW q \in Payments, NEW n, NEW c \in Codes, AnswerDishonour(q, n, c)
      PROVE  Budgeted(p)'
  <2>1. /\ AnswerDue(q, n) /\ answered' = [answered EXCEPT ![q] = Adding(@, n, c)]
        /\ UNCHANGED <<class, attempts, presented, reruns>>
    BY <1>7 DEF AnswerDishonour, Dishonoured, rowVars
  <2>2. p # q => code'[p] = code[p]
    BY <1>1, <1>7 DEF AnswerDishonour, Dishonoured, rowVars, Types
  <2>. QED BY <1>5, <2>1, <2>2
<1>8. ASSUME NEW q \in Payments, ClassifyNew(q) \/ RunAgain(q) PROVE Budgeted(p)'
  <2>1. /\ Recover(q)
        /\ \/ class[q] = NotClassified /\ reruns' = reruns
           \/ class[q] # NotClassified /\ reruns' = reruns + 1
    BY <1>8 DEF ClassifyNew, RunAgain
  <2>2. CASE p = q BY <1>1, <1>2, <2>1, <2>2, RecoverStaysBudgeted
  <2>3. CASE p # q
    <3>1. Rests(p) BY <1>1, <2>1, <2>3 DEF Rests, Recover, Classified, Types
    <3>. QED BY <1>2, <1>3, <2>1, <3>1
  <2>. QED BY <2>2, <2>3
<1>9. CASE ExecuteDue
  <2>1. /\ UNCHANGED <<class, code, answered, reruns>>
        /\ \E taken, refused : Worked(p, taken, refused)
    BY <1>9, BatchIsWork
  <2>. QED BY <2>1, WorkStaysBudgeted
<1>10. CASE UpdateDetails BY <1>1, <1>2, <1>10, CorrectionStaysBudgeted
<1>11. ASSUME NEW t \in Moments, Advance(t) PROVE Budgeted(p)'
  <2>1. Rests(p) /\ reruns' = reruns BY <1>11 DEF Advance, Rests, rowVars
  <2>. QED BY <1>2, <1>3, <2>1
<1>12. CASE UNCHANGED vars
  <2>1. Rests(p) /\ reruns' = reruns BY <1>12 DEF vars, rowVars, Rests
  <2>. QED BY <1>2, <1>3, <2>1
<1>. QED BY <1>4, <1>6, <1>7, <1>8, <1>9, <1>10, <1>11, <1>12 DEF Next

(* strategies.yaml: a payment that only ever fails for the reason it is    *)
(* worked for is debited no more often than max_attempts allows, however   *)
(* often it fails again, and when recovery was run again on it.            *)
THEOREM BudgetIsKept == Spec => []MaxAttemptsIsKept
<1>1. Init => BudgetInv
  <2>. SUFFICES ASSUME Init PROVE BudgetInv OBVIOUS
  <2>1. ASSUME NEW p \in Payments PROVE class[p] = NotClassified /\ presented[p] = <<>>
    BY DEF Init
  <2>. QED BY <2>1, InitIsSound DEF BudgetInv, Budgeted
<1>2. BudgetInv => MaxAttemptsIsKept
  <2>. SUFFICES ASSUME BudgetInv, reruns <= 1, NEW p \in Payments, class[p] # NotClassified,
                       ClassesGiven(p) \subseteq {class[p]}
                PROVE  Len(presented[p]) <= StrategyTable[class[p]].max
    BY DEF MaxAttemptsIsKept
  <2>1. Types /\ WithinBudget(p) BY DEF BudgetInv, LedgerInv, Budgeted
  <2>2. Most(class[p]) \in Nat BY <2>1, MostTyped DEF Types
  <2>3. presented[p] \in Seq(Presentations) /\ TypedRows(attempts[p], now)
    BY <2>1 DEF Types
  <2>4. Len(presented[p]) \in Nat /\ Cardinality(RetriesAhead(attempts[p])) \in Nat
    BY <2>3, CountsTyped
  <2>. QED BY <2>1, <2>2, <2>4 DEF WithinBudget, Most
<1>. QED BY <1>1, <1>2, StepStaysBudgeted, PTL DEF Spec
=============================================================================
