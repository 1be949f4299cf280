--------------------------- MODULE DueWorkProofs ---------------------------
(***************************************************************************)
(* For any number of workers and attempts, any schedule, any number of     *)
(* crashes: the row locks taken by SKIP LOCKED are held as long as they    *)
(* are relied on, and a scheduled retry is presented once, but for batches *)
(* that are rolled back.                                                   *)
(***************************************************************************)
EXTENDS DueWork, TLAPS

(* What a worker has still to look at or to present is not decided yet. *)
Undecided ==
  \A w \in Workers : \A a \in Attempts :
    /\ a \in todo[w] => a \notin presenting[w]
    /\ a \in todo[w] \cup presenting[w] => mine[w][a] = "none"

(* The row is written, or a running batch holds what it will be. *)
Decided(a) == row[a] # "scheduled" \/ \E w \in Workers : mine[w][a] # "none"

(* Every debit but one is owed to a batch that was rolled back, and that   *)
(* one to a decision.                                                      *)
DebitsAccounted ==
  \A a \in Attempts :
    /\ debits[a] <= 1 + lost
    /\ ~ Decided(a) => debits[a] <= lost

LockInv == WorksOnLockedRows /\ Undecided

IInv == TypeOK /\ LockInv /\ DebitsAccounted

-----------------------------------------------------------------------------
LEMMA InitEstablishes == Init => IInv
<1> SUFFICES ASSUME Init PROVE IInv
    OBVIOUS
<1>1. TypeOK
  <2>1. /\ mine \in [Workers -> [Attempts -> {"none", "executed", "failed"}]]
        /\ todo \in [Workers -> SUBSET Attempts]
        /\ presenting \in [Workers -> SUBSET Attempts]
        /\ owner \in [Attempts -> Workers \cup {Nobody}]
    BY DEF Init
  <2>2. requests \in 0..MaxRequests /\ crashes \in 0..MaxCrashes
    BY DueWorkAssumption DEF Init
  <2>3. /\ row \in [Attempts -> RowStatus]
        /\ seen \in [Workers -> {"unread", "failed"} \cup Closed]
        /\ debits \in [Attempts -> Nat] /\ answers \in [Attempts -> Nat]
    BY DEF Init, RowStatus
  <2> QED BY <2>1, <2>2, <2>3 DEF Init, TypeOK
<1>2. LockInv
  BY DEF Init, LockInv, WorksOnLockedRows, Undecided
<1>3. DebitsAccounted
  BY DEF Init, DebitsAccounted, Decided
<1> QED BY <1>1, <1>2, <1>3 DEF IInv

(* The end of a transaction leaves well-typed sessions. *)
LEMMA EndTyped ==
  ASSUME TypeOK, NEW w \in Workers, End(w)
  PROVE  /\ owner' \in [Attempts -> Workers \cup {Nobody}]
         /\ todo' \in [Workers -> SUBSET Attempts]
         /\ seen' \in [Workers -> {"unread", "failed"} \cup Closed]
         /\ mine' \in [Workers -> [Attempts -> {"none", "executed", "failed"}]]
         /\ presenting' \in [Workers -> SUBSET Attempts]
  BY DEF TypeOK, End

LEMMA WorkTyped ==
  ASSUME TypeOK, NEW w \in Workers, Claim(w) \/ Handle(w) \/ Submit(w) \/ Commit(w)
  PROVE  TypeOK'
<1>1. CASE Claim(w)
  BY <1>1 DEF TypeOK, Claim, Claimable, bankVars, userVars
<1>2. CASE Handle(w)
  <2>1. PICK a \in Earliest(w) :
          /\ todo' = [todo EXCEPT ![w] = @ \ {a}]
          /\ PassOver(w, a) \/ WriteOff(w, a) \/ Carry(w, a) \/ CheckRetry(w, a)
    BY <1>2 DEF Handle
  <2>2. a \in Attempts /\ Loaded(w) \in {"failed"} \cup Closed
    BY DEF TypeOK, Earliest, Loaded
  <2>3. /\ mine' \in [Workers -> [Attempts -> {"none", "executed", "failed"}]]
        /\ presenting' \in [Workers -> SUBSET Attempts]
    <3>1. CASE PassOver(w, a)
      BY <3>1 DEF TypeOK, PassOver
    <3>2. CASE WriteOff(w, a)
      BY <2>2, <3>2 DEF TypeOK, WriteOff
    <3>3. CASE Carry(w, a)
      BY <2>2, <3>3 DEF TypeOK, Carry
    <3>4. CASE CheckRetry(w, a)
      <4>1. CASE pay = "recovered"
        <5>1. presenting' = presenting /\ mine' = [mine EXCEPT ![w][a] = "failed"]
          BY <3>4, <4>1 DEF CheckRetry
        <5> QED BY <2>2, <5>1 DEF TypeOK
      <4>2. CASE pay # "recovered"
        <5>1. mine' = mine /\ presenting' = [presenting EXCEPT ![w] = {a}]
          BY <3>4, <4>2 DEF CheckRetry
        <5> QED BY <2>2, <5>1 DEF TypeOK
      <4> QED BY <4>1, <4>2
    <3> QED BY <2>1, <3>1, <3>2, <3>3, <3>4
  <2>4. seen' \in [Workers -> {"unread", "failed"} \cup Closed]
    BY <2>1, <2>2 DEF TypeOK, PassOver, WriteOff, Carry, CheckRetry, Closed
  <2>5. todo' \in [Workers -> SUBSET Attempts]
    BY <2>1 DEF TypeOK
  <2> QED BY <1>2, <2>3, <2>4, <2>5 DEF TypeOK, Handle, bankVars, userVars
<1>3. CASE Submit(w)
  BY <1>3 DEF TypeOK, Submit, userVars
<1>4. CASE Commit(w)
  <2>1. row' \in [Attempts -> RowStatus]
    BY <1>4 DEF Commit, TypeOK, Written, RowStatus
  <2>2. pay' \in {"failed"} \cup Closed
    BY <1>4 DEF Commit, TypeOK, Closed
  <2> QED BY <1>4, <2>1, <2>2, EndTyped DEF Commit, TypeOK, bankVars, userVars
<1> QED BY <1>1, <1>2, <1>3, <1>4

LEMMA RollBackTyped ==
  ASSUME TypeOK, NEW w \in Workers, RollBack(w), crashes' \in 0..MaxCrashes
  PROVE  TypeOK'
  BY EndTyped DEF RollBack, TypeOK, bankVars, userVars

LEMMA OthersTyped ==
  ASSUME TypeOK,
         \/ ReadOpen \/ LockPayment \/ WriteRows \/ RecordCleared \/ Tick
         \/ \E a \in Attempts : Dishonour(a) \/ ReadCleared(a)
         \/ \E w \in Workers : CustomerIsVictim(w)
  PROVE  TypeOK'
<1> USE DEF workerVars, bankVars, userVars
<1>1. CASE ReadOpen
  BY <1>1, DueWorkAssumption DEF TypeOK, ReadOpen
<1>2. CASE LockPayment
  BY <1>2 DEF TypeOK, LockPayment
<1>3. CASE WriteRows
  <2>1. row' \in [Attempts -> RowStatus]
    BY <1>3 DEF WriteRows, TypeOK, RowStatus
  <2> QED BY <1>3, <2>1 DEF TypeOK, WriteRows, Closed
<1>4. CASE RecordCleared
  BY <1>4 DEF TypeOK, RecordCleared, Closed
<1>5. CASE Tick
  BY <1>5 DEF TypeOK, Tick
<1>6. ASSUME NEW a \in Attempts, Dishonour(a) PROVE TypeOK'
  BY <1>6 DEF TypeOK, Dishonour
<1>7. ASSUME NEW a \in Attempts, ReadCleared(a) PROVE TypeOK'
  BY <1>7 DEF TypeOK, ReadCleared, Closed
<1>8. ASSUME NEW w \in Workers, CustomerIsVictim(w) PROVE TypeOK'
  BY <1>8 DEF TypeOK, CustomerIsVictim
<1> QED BY <1>1, <1>2, <1>3, <1>4, <1>5, <1>6, <1>7, <1>8

-----------------------------------------------------------------------------
(* Ending w's transaction: the rows it held are free, no other worker's    *)
(* rows are touched, and nothing of w's is left undecided.                 *)
LEMMA EndKeepsLocks ==
  ASSUME TypeOK, LockInv, NEW w \in Workers, End(w),
         \A v \in Workers : \A a \in Attempts :
           owner[a] = v /\ v # w /\ row[a] = "scheduled" => row'[a] = "scheduled"
  PROVE  LockInv'
<1> SUFFICES ASSUME NEW v \in Workers, NEW a \in Attempts
             PROVE  /\ (a \in todo[v] \cup presenting[v] \/ mine[v][a] # "none" =>
                          owner[a] = v /\ row[a] = "scheduled")'
                    /\ (a \in todo[v] => a \notin presenting[v])'
                    /\ (a \in todo[v] \cup presenting[v] => mine[v][a] = "none")'
    BY DEF LockInv, WorksOnLockedRows, Undecided
<1>1. CASE v = w
  BY <1>1 DEF End, TypeOK
<1>2. CASE v # w
  <2>1. /\ todo'[v] = todo[v] /\ presenting'[v] = presenting[v]
        /\ mine'[v][a] = mine[v][a]
    BY <1>2 DEF End, TypeOK
  <2>2. owner[a] = v => owner'[a] = v
    BY <1>2 DEF End
  <2> QED BY <1>2, <2>1, <2>2 DEF LockInv, WorksOnLockedRows, Undecided
<1> QED BY <1>1, <1>2

LEMMA WorkKeepsLocks ==
  ASSUME TypeOK, LockInv, NEW w \in Workers,
         Claim(w) \/ Handle(w) \/ Submit(w) \/ Commit(w)
  PROVE  LockInv'
<1>1. CASE Claim(w)
  <2> SUFFICES ASSUME NEW v \in Workers, NEW a \in Attempts
               PROVE  /\ (a \in todo[v] \cup presenting[v] \/ mine[v][a] # "none" =>
                            owner[a] = v /\ row[a] = "scheduled")'
                      /\ (a \in todo[v] => a \notin presenting[v])'
                      /\ (a \in todo[v] \cup presenting[v] => mine[v][a] = "none")'
      BY DEF LockInv, WorksOnLockedRows, Undecided
  <2>1. /\ presenting' = presenting /\ mine' = mine /\ row' = row
        /\ todo'[v] = IF v = w THEN Claimable ELSE todo[v]
        /\ owner'[a] = IF a \in Claimable THEN w ELSE owner[a]
    BY <1>1 DEF Claim, TypeOK
  <2>2. CASE a \in Claimable
    <3>1. owner[a] = Nobody /\ row[a] = "scheduled"
      BY <2>2 DEF Claimable, Ripe
    <3>2. a \notin todo[v] \cup presenting[v] /\ mine[v][a] = "none"
      BY <3>1, DueWorkAssumption DEF LockInv, WorksOnLockedRows
    <3> QED BY <2>1, <2>2, <3>1, <3>2
  <2>3. CASE a \notin Claimable
    <3>1. owner'[a] = owner[a]
      BY <2>1, <2>3
    <3>2. v = w => a \notin todo[v] \cup presenting[v] /\ mine[v][a] = "none"
      BY <1>1 DEF Claim, Idle, Batch, LockInv, WorksOnLockedRows
    <3> QED BY <2>1, <2>3, <3>1, <3>2 DEF LockInv, WorksOnLockedRows, Undecided
  <2> QED BY <2>2, <2>3
<1>2. CASE Handle(w)
  <2>1. PICK b \in Earliest(w) :
          /\ todo' = [todo EXCEPT ![w] = @ \ {b}]
          /\ PassOver(w, b) \/ WriteOff(w, b) \/ Carry(w, b) \/ CheckRetry(w, b)
    BY <1>2 DEF Handle
  <2>2. b \in Attempts /\ b \in todo[w] /\ owner' = owner /\ row' = row
    BY <1>2 DEF TypeOK, Earliest, Handle
  <2>3. presenting[w] = {}
    BY <1>2 DEF Handle, Ready
  <2>4. presenting' = presenting \/ presenting' = [presenting EXCEPT ![w] = {b}]
    BY <2>1 DEF PassOver, WriteOff, Carry, CheckRetry
  <2>5. \/ mine' = mine
        \/ /\ \E s \in {"executed", "failed"} : mine' = [mine EXCEPT ![w][b] = s]
           /\ presenting' = presenting
    BY <2>1 DEF PassOver, WriteOff, Carry, CheckRetry
  <2> SUFFICES ASSUME NEW v \in Workers, NEW a \in Attempts
               PROVE  /\ (a \in todo[v] \cup presenting[v] \/ mine[v][a] # "none" =>
                            owner[a] = v /\ row[a] = "scheduled")'
                      /\ (a \in todo[v] => a \notin presenting[v])'
                      /\ (a \in todo[v] \cup presenting[v] => mine[v][a] = "none")'
      BY DEF LockInv, WorksOnLockedRows, Undecided
  <2>6. CASE v = w
    <3>1. todo'[v] = todo[v] \ {b}
      BY <2>1, <2>6 DEF TypeOK
    <3>2. presenting'[v] = {} \/ presenting'[v] = {b}
      BY <2>3, <2>4, <2>6 DEF TypeOK
    <3>3. ASSUME a # b PROVE mine'[v][a] = mine[v][a]
      <4>1. ASSUME NEW s \in {"executed", "failed"}, mine' = [mine EXCEPT ![w][b] = s]
            PROVE  mine'[v][a] = mine[v][a]
        BY <2>2, <3>3, <4>1 DEF TypeOK
      <4> QED BY <2>5, <4>1
    <3>4. a = b => presenting'[v] = {} \/ mine'[v][a] = mine[v][a]
      BY <2>3, <2>5, <2>6
    <3> QED BY <2>2, <2>3, <2>6, <3>1, <3>2, <3>3, <3>4
            DEF LockInv, WorksOnLockedRows, Undecided
  <2>7. CASE v # w
    <3>1. /\ todo'[v] = todo[v] /\ presenting'[v] = presenting[v]
          /\ mine'[v] = mine[v]
      BY <2>1, <2>4, <2>5, <2>7 DEF TypeOK
    <3> QED BY <2>2, <3>1 DEF LockInv, WorksOnLockedRows, Undecided
  <2> QED BY <2>6, <2>7
<1>3. CASE Submit(w)
  <2>1. PICK b \in presenting[w] :
          /\ mine' = [mine EXCEPT ![w][b] = "executed"]
          /\ presenting' = [presenting EXCEPT ![w] = {}]
          /\ owner' = owner /\ row' = row /\ todo' = todo
    BY <1>3 DEF Submit
  <2>2. b \in Attempts
    BY DEF TypeOK
  <2> SUFFICES ASSUME NEW v \in Workers, NEW a \in Attempts
               PROVE  /\ (a \in todo[v] \cup presenting[v] \/ mine[v][a] # "none" =>
                            owner[a] = v /\ row[a] = "scheduled")'
                      /\ (a \in todo[v] => a \notin presenting[v])'
                      /\ (a \in todo[v] \cup presenting[v] => mine[v][a] = "none")'
      BY DEF LockInv, WorksOnLockedRows, Undecided
  <2>3. presenting'[v] \subseteq presenting[v]
    BY <2>1 DEF TypeOK
  <2>4. CASE v = w /\ a = b
    <3>1. presenting'[v] = {} /\ a \notin todo'[v]
      BY <2>1, <2>4 DEF TypeOK, LockInv, Undecided
    <3> QED BY <2>1, <2>2, <2>4, <3>1 DEF LockInv, WorksOnLockedRows, Undecided
  <2>5. CASE ~ (v = w /\ a = b)
    <3>1. mine'[v][a] = mine[v][a]
      BY <2>1, <2>2, <2>5 DEF TypeOK
    <3> QED BY <2>1, <2>3, <3>1 DEF LockInv, WorksOnLockedRows, Undecided
  <2> QED BY <2>4, <2>5
<1>4. CASE Commit(w)
  <2>1. ASSUME NEW v \in Workers, NEW a \in Attempts, owner[a] = v, v # w
        PROVE  row'[a] = row[a]
    <3>1. mine[w][a] = "none"
      BY <2>1 DEF LockInv, WorksOnLockedRows
    <3> QED BY <1>4, <3>1 DEF Commit, Written
  <2> QED BY <1>4, <2>1, EndKeepsLocks DEF Commit
<1> QED BY <1>1, <1>2, <1>3, <1>4

(* The customer's session writes only rows that no worker holds. *)
LEMMA WriteRowsKeepsHeld ==
  ASSUME WriteRows, TypeOK, NEW a \in Attempts, owner[a] # Nobody
  PROVE  row'[a] = row[a]
<1>1. a \notin pending
  BY DEF WriteRows
<1> QED BY <1>1 DEF WriteRows, FirstRetry

LEMMA OthersKeepLocks ==
  ASSUME TypeOK, LockInv, UNCHANGED workerVars, WriteRows \/ row' = row
  PROVE  LockInv'
<1>1. \A v \in Workers, a \in Attempts :
        owner[a] = v => row'[a] = row[a]
  BY WriteRowsKeepsHeld, DueWorkAssumption
<1> QED BY <1>1 DEF LockInv, WorksOnLockedRows, Undecided, workerVars

-----------------------------------------------------------------------------
(* A step that presents nothing and leaves decided what was decided. *)
LEMMA AccountsKept ==
  ASSUME TypeOK, DebitsAccounted, UNCHANGED <<debits, lost>>,
         \A a \in Attempts : Decided(a) => Decided(a)'
  PROVE  DebitsAccounted'
  BY DEF DebitsAccounted

LEMMA WorkKeepsAccounts ==
  ASSUME TypeOK, LockInv, DebitsAccounted, NEW w \in Workers,
         Claim(w) \/ Handle(w) \/ Submit(w) \/ Commit(w)
  PROVE  DebitsAccounted'
<1>1. CASE Claim(w)
  BY <1>1, AccountsKept DEF Claim, Decided, bankVars
<1>2. CASE Handle(w)
  <2>1. /\ debits' = debits /\ lost' = lost /\ row' = row
        /\ \/ mine' = mine
           \/ \E b \in Attempts, s \in {"executed", "failed"} :
                mine' = [mine EXCEPT ![w][b] = s]
    BY <1>2 DEF Handle, PassOver, WriteOff, Carry, CheckRetry, Earliest, TypeOK, bankVars
  <2>2. ASSUME NEW a \in Attempts, NEW v \in Workers, mine[v][a] # "none"
        PROVE  mine'[v][a] # "none"
    BY <2>1, <2>2 DEF TypeOK
  <2> QED BY <2>1, <2>2, AccountsKept DEF Decided
<1>3. CASE Submit(w)
  <2>1. PICK b \in presenting[w] :
          /\ debits' = [debits EXCEPT ![b] = @ + 1]
          /\ mine' = [mine EXCEPT ![w][b] = "executed"]
          /\ row' = row /\ lost' = lost
    BY <1>3 DEF Submit
  <2>2. b \in Attempts
    BY DEF TypeOK
  <2>3. ~ Decided(b)
    <3>1. owner[b] = w /\ row[b] = "scheduled" /\ mine[w][b] = "none"
      BY <2>2 DEF LockInv, WorksOnLockedRows, Undecided
    <3> QED BY <2>2, <3>1 DEF Decided, LockInv, WorksOnLockedRows
  <2>4. Decided(b)' /\ debits'[b] <= 1 + lost'
    BY <2>1, <2>2, <2>3 DEF Decided, DebitsAccounted, TypeOK
  <2>5. ASSUME NEW a \in Attempts, a # b
        PROVE  debits'[a] = debits[a] /\ (Decided(a)' <=> Decided(a))
    BY <2>1, <2>2, <2>5 DEF Decided, TypeOK
  <2> QED BY <2>1, <2>4, <2>5 DEF DebitsAccounted
<1>4. CASE Commit(w)
  <2>1. ASSUME NEW a \in Attempts, Decided(a) PROVE Decided(a)'
    <3>1. CASE mine[w][a] # "none"
      BY <1>4, <3>1 DEF Commit, Written, Decided, TypeOK
    <3>2. CASE mine[w][a] = "none"
      <4>1. row'[a] = row[a]
        BY <1>4, <3>2 DEF Commit, Written
      <4>2. ASSUME NEW v \in Workers, v # w PROVE mine'[v] = mine[v]
        BY <1>4, <4>2 DEF Commit, End, TypeOK
      <4> QED BY <2>1, <3>2, <4>1, <4>2 DEF Decided
    <3> QED BY <3>1, <3>2
  <2> QED BY <1>4, <2>1, AccountsKept DEF Commit, bankVars
<1> QED BY <1>1, <1>2, <1>3, <1>4

(* A batch that is rolled back pays for whatever it had presented. *)
LEMMA RollBackKeepsAccounts ==
  ASSUME TypeOK, DebitsAccounted, NEW w \in Workers, RollBack(w)
  PROVE  DebitsAccounted'
  BY DEF TypeOK, RollBack, DebitsAccounted, bankVars

LEMMA OthersKeepAccounts ==
  ASSUME TypeOK, DebitsAccounted, UNCHANGED <<mine, debits, lost>>, WriteRows \/ row' = row
  PROVE  DebitsAccounted'
<1>1. \A a \in Attempts : row[a] # "scheduled" => row'[a] # "scheduled"
  BY DEF WriteRows
<1> QED BY <1>1, AccountsKept DEF Decided

-----------------------------------------------------------------------------
LEMMA NextPreserves == IInv /\ [Next]_vars => IInv'
<1> SUFFICES ASSUME IInv, [Next]_vars PROVE IInv'
    OBVIOUS
<1> USE DEF IInv
<1>1. ASSUME NEW w \in Workers, Claim(w) \/ Work(w) PROVE IInv'
  BY <1>1, WorkTyped, WorkKeepsLocks, WorkKeepsAccounts DEF Work
<1>2. ASSUME NEW w \in Workers, Crash(w) \/ WorkerIsVictim(w) PROVE IInv'
  <2>1. RollBack(w) /\ crashes' \in 0..MaxCrashes
    BY <1>2, DueWorkAssumption DEF Crash, WorkerIsVictim, TypeOK
  <2>2. row' = row /\ End(w)
    BY <2>1 DEF RollBack
  <2> QED BY <2>1, <2>2, RollBackTyped, EndKeepsLocks, RollBackKeepsAccounts
<1>3. CASE \/ ReadOpen \/ LockPayment \/ WriteRows \/ RecordCleared \/ Tick
           \/ \E a \in Attempts : Dishonour(a) \/ ReadCleared(a)
           \/ \E w \in Workers : CustomerIsVictim(w)
  <2>1. UNCHANGED workerVars /\ UNCHANGED <<debits, lost>> /\ (WriteRows \/ row' = row)
    BY <1>3 DEF ReadOpen, LockPayment, WriteRows, RecordCleared, Tick, Dishonour,
                ReadCleared, CustomerIsVictim, bankVars
  <2> QED BY <1>3, <2>1, OthersTyped, OthersKeepLocks, OthersKeepAccounts DEF workerVars
<1>4. CASE UNCHANGED vars
  BY <1>4 DEF vars, workerVars, bankVars, userVars, TypeOK, LockInv, WorksOnLockedRows,
              Undecided, DebitsAccounted, Decided
<1> QED BY <1>1, <1>2, <1>3, <1>4 DEF Next, Victim

LEMMA Inductive == Spec => []IInv
  BY InitEstablishes, NextPreserves, PTL DEF Spec

(* Types of the tables and of the sessions. *)
THEOREM TypesHold == Spec => []TypeOK
<1>1. IInv => TypeOK
  BY DEF IInv
<1> QED BY <1>1, Inductive, PTL

(* SKIP LOCKED and the order of the flush are enough: whatever the         *)
(* customer's session does, a worker's rows are its own until it ends.     *)
THEOREM RowsStayLocked == Spec => []WorksOnLockedRows
<1>1. IInv => WorksOnLockedRows
  BY DEF IInv, LockInv
<1> QED BY <1>1, Inductive, PTL

(* execute_due: one scheduled retry is one debit, however many workers     *)
(* run, unless a batch is rolled back after it presented it.               *)
THEOREM RetryPresentedOnce == Spec => []PresentedOnce
<1>1. IInv => PresentedOnce
  BY DEF IInv, DebitsAccounted, PresentedOnce
<1> QED BY <1>1, Inductive, PTL

(* A debit Pinch was handed is recorded with its attempt, or a batch was   *)
(* rolled back.                                                            *)
THEOREM DebitIsRecorded == Spec => []PresentedIsRecorded
<1>1. IInv => PresentedIsRecorded
  <2> SUFFICES ASSUME IInv, NEW a \in Attempts,
                      debits[a] > 0, owner[a] = Nobody, lost = 0
               PROVE  row[a] # "scheduled"
      BY DEF PresentedIsRecorded
  <2>1. Decided(a)
    BY DEF IInv, DebitsAccounted, TypeOK
  <2>2. \A w \in Workers : mine[w][a] = "none"
    BY DueWorkAssumption DEF IInv, LockInv, WorksOnLockedRows
  <2> QED BY <2>1, <2>2 DEF Decided
<1> QED BY <1>1, Inductive, PTL
=============================================================================
