--------------------------- MODULE LiveLoopProofs ---------------------------
(***************************************************************************)
(* A retry is one debit, whatever answers are lost and ticks fail, and     *)
(* stop() lets at most one more tick begin: for any number of debits,      *)
(* retries, starts and any page size.                                      *)
(***************************************************************************)
EXTENDS LiveLoop, FiniteSetTheorems, FunctionTheorems, SequenceTheorems, TLAPS

ExecutedOf(row) == {r \in executed : r[1] = row}
DebitsOf(row)   == {d \in DOMAIN debits : d > Originals /\ debits[d].row = row}

TablesTyped ==
  /\ debits \in Seq([row : Nat, nonce : Int])
  /\ executed \subseteq Retry /\ did \subseteq Retry

(* A debit of a retry carries a nonce that counts executions on record,    *)
(* now or at an earlier time.                                              *)
NoncesCounted ==
  \A d \in DOMAIN debits : d > Originals =>
    /\ debits[d].row \in Debit
    /\ debits[d].nonce \in 0..Cardinality(ExecutedOf(debits[d].row))

(* Pinch has no two of one row with the same nonce. *)
NoncesApart ==
  \A d, e \in DOMAIN debits :
    d > Originals /\ e > Originals /\ debits[d] = debits[e] => d = e

IInv == TablesTyped /\ NoncesCounted /\ NoncesApart

-----------------------------------------------------------------------------
LEMMA RetriesFinite == IsFiniteSet(Retry)
<1>1. IsFiniteSet(Debit) /\ IsFiniteSet(1..MaxRetries)
  BY LoopAssumption, FS_Interval DEF Debit
<1>. QED BY <1>1, FS_Product DEF Retry

LEMMA ExecutedCounts ==
  ASSUME executed \subseteq Retry, NEW row
  PROVE  IsFiniteSet(ExecutedOf(row)) /\ Cardinality(ExecutedOf(row)) \in Nat
<1>1. ExecutedOf(row) \in SUBSET Retry BY DEF ExecutedOf
<1>. QED BY <1>1, RetriesFinite, FS_Subset, FS_CardinalityType

(* Pinch's answer to a known nonce is the debit it has; a new one gets the *)
(* count of this moment, which no debit of the row carries.                *)
LEMMA RaiseHolds ==
  ASSUME IInv, NEW row \in Debit, Raise(row), UNCHANGED executed, did' \subseteq Retry
  PROVE  IInv'
<1>. USE DEF IInv
<1>1. CASE UNCHANGED debits
  BY <1>1 DEF TablesTyped, NoncesCounted, NoncesApart, ExecutedOf
<1>2. CASE ~ Known(row) /\ debits' = Append(debits, [row |-> row, nonce |-> Nonce(row)])
  <2>. DEFINE new == [row |-> row, nonce |-> Nonce(row)]
  <2>1. Nonce(row) \in Nat /\ Nonce(row) = Cardinality(ExecutedOf(row))
    BY ExecutedCounts DEF TablesTyped, Nonce, ExecutedOf
  <2>2. row \in Nat /\ new \in [row : Nat, nonce : Int]
    BY <2>1, LoopAssumption DEF Debit
  <2>3. /\ debits' \in Seq([row : Nat, nonce : Int])
        /\ DOMAIN debits' = DOMAIN debits \cup {Len(debits) + 1}
        /\ \A d \in DOMAIN debits : debits'[d] = debits[d]
        /\ debits'[Len(debits) + 1] = new
        /\ Len(debits) + 1 \notin DOMAIN debits
    <3>. HIDE DEF new
    <3>. QED BY <1>2, <2>2 DEF new, TablesTyped
  <2>4. TablesTyped' BY <2>3 DEF TablesTyped
  <2>5. \A r : ExecutedOf(r)' = ExecutedOf(r) BY DEF ExecutedOf
  <2>6. NoncesCounted' BY <2>1, <2>3, <2>5 DEF NoncesCounted
  <2>7. \A d \in DOMAIN debits : debits[d] # new BY <1>2 DEF Known
  <2>8. NoncesApart'
    <3>. HIDE DEF new
    <3>. QED BY <2>3, <2>7 DEF NoncesApart
  <2>. QED BY <2>4, <2>6, <2>8
<1>. QED BY <1>1, <1>2 DEF Raise

(* More executions on record leave every nonce within the count. *)
LEMMA CommitHolds ==
  ASSUME IInv, Commit
  PROVE  IInv'
<1>. USE DEF IInv
<1>1. /\ UNCHANGED debits /\ did' = {}
      /\ executed \subseteq executed' /\ executed' \subseteq Retry
  BY DEF Commit, EndTick, pinch, TablesTyped
<1>2. TablesTyped' BY <1>1 DEF TablesTyped
<1>3. NoncesCounted'
  <2>. SUFFICES ASSUME NEW row
       PROVE  /\ Cardinality(ExecutedOf(row)) \in Nat
              /\ Cardinality(ExecutedOf(row)') \in Nat
              /\ Cardinality(ExecutedOf(row)) <= Cardinality(ExecutedOf(row)')
    BY <1>1 DEF NoncesCounted
  <2>1. ExecutedOf(row) \in SUBSET ExecutedOf(row)' BY <1>1 DEF ExecutedOf
  <2>2. ExecutedOf(row)' \in SUBSET Retry BY <1>1 DEF ExecutedOf
  <2>3. IsFiniteSet(ExecutedOf(row)') BY <2>2, RetriesFinite, FS_Subset
  <2>. QED BY <2>1, <2>3, FS_Subset, FS_CardinalityType
<1>4. NoncesApart' BY <1>1 DEF NoncesApart
<1>. QED BY <1>2, <1>3, <1>4

(* Every other step leaves the debits and the record alone. *)
LEMMA StillHolds ==
  ASSUME IInv, UNCHANGED <<debits, executed>>, did' \subseteq Retry
  PROVE  IInv'
BY DEF IInv, TablesTyped, NoncesCounted, NoncesApart, ExecutedOf

LEMMA InitHolds == Init => IInv
<1>. SUFFICES ASSUME Init PROVE IInv OBVIOUS
<1>1. Originals \in Nat BY LoopAssumption
<1>2. debits \in [1..Originals -> [row : Nat, nonce : Int]] BY <1>1 DEF Init
<1>3. DOMAIN debits = 1..Originals /\ debits \in Seq([row : Nat, nonce : Int])
  BY <1>1, <1>2, SeqDef
<1>. QED BY <1>1, <1>3 DEF Init, IInv, TablesTyped, NoncesCounted, NoncesApart

LEMMA StepHolds == IInv /\ [Next]_vars => IInv'
<1>. SUFFICES ASSUME IInv, [Next]_vars PROVE IInv' OBVIOUS
<1>. USE StillHolds
<1>0. did \subseteq Retry BY DEF IInv, TablesTyped
<1>1. CASE UNCHANGED vars BY <1>0, <1>1 DEF vars, pinch, rows, local
<1>2. CASE Bank
  BY <1>0, <1>2 DEF Bank, Settle, OddEvent, rows, local
<1>3. CASE Requests
  BY <1>0, <1>3 DEF Requests, Push, Ingest, View, Classify, pinch, rows, local
<1>4. CASE Start \/ Stop \/ Kill
  BY <1>0, <1>4 DEF Start, Stop, Kill, pinch, rows, local
<1>5. CASE Arm \/ Fire(TRUE) \/ Fire(FALSE)
  BY <1>0, <1>5 DEF Arm, Fire, pinch, rows, local
<1>6. CASE Poll
  <2>1. UNCHANGED <<debits, executed>>
    BY <1>6 DEF Poll, List, ListRefused, Raises, FetchMissing, Polled, ClassifyNext, Classify,
                pinch, rows
  <2>2. did' = did \/ did' = {}
    BY <1>6 DEF Poll, List, ListRefused, Raises, EndTick, FetchMissing, Polled, ClassifyNext, local
  <2>. QED BY <1>0, <2>1, <2>2
<1>7. ASSUME NEW e \in DOMAIN events, Fetch(e) PROVE IInv'
  <2>1. UNCHANGED <<debits, executed>> BY <1>7 DEF Fetch, Ingest, pinch, rows
  <2>2. did' = did \/ did' = {} BY <1>7 DEF Fetch, EndTick
  <2>. QED BY <1>0, <2>1, <2>2
<1>8. CASE Select BY <1>0, <1>8 DEF Select, pinch, rows
<1>9. CASE Commit BY <1>9, CommitHolds
<1>10. ASSUME NEW r \in Retry, Present(r) PROVE IInv'
  <2>1. r[1] \in Debit /\ did' \subseteq Retry BY <1>0, <1>10 DEF Present, Retry
  <2>. QED BY <1>10, <2>1, RaiseHolds DEF Present, rows
<1>11. ASSUME NEW r \in Retry, Refuse(r) PROVE IInv'
  BY <1>0, <1>11 DEF Refuse, pinch, rows
<1>12. ASSUME NEW r \in Retry, NoAnswer(r) PROVE IInv'
  <2>1. r[1] \in Debit /\ did' \subseteq Retry /\ UNCHANGED executed
    BY <1>12 DEF NoAnswer, EndTick, Retry, rows
  <2>2. CASE Raise(r[1]) BY <2>1, <2>2, RaiseHolds
  <2>3. CASE UNCHANGED debits BY <2>1, <2>3
  <2>. QED BY <1>12, <2>2, <2>3 DEF NoAnswer
<1>. QED
  BY <1>1, <1>2, <1>3, <1>4, <1>5, <1>6, <1>7, <1>8, <1>9, <1>10, <1>11, <1>12
  DEF Next, Tick, Execute

(* A retry is one debit: the nonces of a row's debits are different and    *)
(* none is above the number of its executions on record, so there is at    *)
(* most one debit more than executions.                                    *)
LEMMA NoncesBoundDebits == IInv => RetryDebitedOnce
<1>. SUFFICES ASSUME IInv, NEW row \in Debit
     PROVE  Cardinality(DebitsOf(row)) <= Cardinality(ExecutedOf(row)) + 1
  BY DEF RetryDebitedOnce, DebitsOf, ExecutedOf
<1>. DEFINE n == Cardinality(ExecutedOf(row))
            f == [d \in DebitsOf(row) |-> debits[d].nonce]
<1>1. n \in Nat BY ExecutedCounts DEF IInv, TablesTyped
<1>2. f \in [DebitsOf(row) -> 0..n] BY DEF DebitsOf, IInv, NoncesCounted
<1>3. \A d, e \in DebitsOf(row) : f[d] = f[e] => d = e
  <2>. SUFFICES ASSUME NEW d \in DebitsOf(row), NEW e \in DebitsOf(row),
                       debits[d].nonce = debits[e].nonce
       PROVE  debits[d] = debits[e]
    BY DEF DebitsOf, IInv, NoncesApart
  <2>. HIDE DEF f, n
  <2>1. debits[d] \in [row : Nat, nonce : Int] /\ debits[e] \in [row : Nat, nonce : Int]
    <3>. DEFINE R == [row : Nat, nonce : Int]
    <3>1. debits \in Seq(R) BY DEF IInv, TablesTyped
    <3>2. d \in DOMAIN debits /\ e \in DOMAIN debits BY DEF DebitsOf
    <3>. HIDE DEF R
    <3>3. debits \in [1..Len(debits) -> R] /\ DOMAIN debits = 1..Len(debits)
      BY <3>1, LenProperties
    <3>4. debits[d] \in R /\ debits[e] \in R BY <3>2, <3>3
    <3>. QED BY <3>4 DEF R
  <2>. QED BY <2>1 DEF DebitsOf
<1>4. f \in Injection(DebitsOf(row), 0..n)
  <2>. HIDE DEF f, n
  <2>. QED BY <1>2, <1>3, Fun_IsInj
<1>5. IsFiniteSet(0..n) /\ Cardinality(0..n) = n + 1
  <2>. HIDE DEF n
  <2>. QED BY <1>1, FS_Interval
<1>. HIDE DEF f, n
<1>6. Cardinality(DebitsOf(row)) <= Cardinality(0..n) BY <1>4, <1>5, FS_Injection
<1>. QED BY <1>5, <1>6 DEF n

(* pinch_client.py, retry_payment: the nonce counts what is committed, so  *)
(* that a request sent again after a lost answer, a failed tick or a       *)
(* restart finds the debit the first one made.                             *)
THEOREM RetriesDebitOnce == Spec => []RetryDebitedOnce
BY InitHolds, StepHolds, NoncesBoundDebits, PTL DEF Spec

-----------------------------------------------------------------------------
(* After stop() the flag is set, and once one more tick has begun there is *)
(* no timer left to begin another.                                         *)
Winding ==
  /\ late \in {-1, 0, 1}
  /\ late >= 0 => stopped
  /\ late = 1 => pc \notin {"arm", "wait"}

(* scheduler.py, stop(): the timer it cancels may be an old one, but the   *)
(* tick of the new one finds the flag set and does not schedule another.   *)
THEOREM AtMostOneMoreTick == Spec => [](late <= 1)
<1>1. Init => Winding BY DEF Init, Winding
<1>2. Winding /\ [Next]_vars => Winding'
  <2>. SUFFICES ASSUME Winding, [Next]_vars PROVE Winding' OBVIOUS
  <2>. USE DEF Winding
  <2>1. CASE UNCHANGED vars BY <2>1 DEF vars
  <2>2. CASE Bank BY <2>2 DEF Bank, Settle, OddEvent
  <2>3. CASE Requests BY <2>3 DEF Requests, Push, View
  <2>4. CASE Start \/ Stop \/ Kill BY <2>4 DEF Start, Stop, Cancel, Kill
  <2>5. CASE Arm BY <2>5 DEF Arm
  <2>6. CASE Fire(TRUE) \/ Fire(FALSE) BY <2>6 DEF Fire
  <2>7. CASE Poll
    <3>1. CASE Raises BY <3>1 DEF Raises, EndTick, Schedule
    <3>2. CASE ~ Raises
      BY <2>7, <3>2 DEF Poll, List, ListRefused, FetchMissing, Polled, ClassifyNext
    <3>. QED BY <3>1, <3>2
  <2>8. ASSUME NEW e \in DOMAIN events, Fetch(e) PROVE Winding'
    BY <2>8 DEF Fetch, EndTick, Schedule
  <2>9. CASE Select BY <2>9 DEF Select
  <2>10. CASE Commit BY <2>10 DEF Commit, EndTick, Schedule
  <2>11. ASSUME NEW r \in Retry, Present(r) \/ Refuse(r) \/ NoAnswer(r) PROVE Winding'
    BY <2>11 DEF Present, Refuse, NoAnswer, EndTick, Schedule
  <2>. QED
    BY <2>1, <2>2, <2>3, <2>4, <2>5, <2>6, <2>7, <2>8, <2>9, <2>10, <2>11
    DEF Next, Tick, Execute
<1>3. Winding => late <= 1 BY DEF Winding
<1>. QED BY <1>1, <1>2, <1>3, PTL DEF Spec
=============================================================================
