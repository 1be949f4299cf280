--------------------------- MODULE SimReplayProofs ---------------------------
(***************************************************************************)
(* For any attempts, requests, leaps and bounds: what is ticked off is in  *)
(* the ledger, a single driver gets exactly the time it asked for and      *)
(* leaves nothing due behind but what the poller has in hand, and what the *)
(* ledger says at rest is what its moment says, whatever path led there.   *)
(***************************************************************************)
EXTENDS SimReplay, FiniteSetTheorems, TLAPS

Pcs == {"idle", "select", "deliver", "mark", "seek", "correct"}

PcTyped == pc \in [Threads -> Pcs] /\ DOMAIN todo = Threads

(* Between the handler's commit and the delivered_at that goes with it the *)
(* event is in the ledger already.                                         *)
MarkedIsIngested ==
  \A d \in Threads : pc[d] = "mark" => Head(todo[d]).event \in ledger

IInv == PcTyped /\ MarkedIsIngested /\ NothingSwallowed

-----------------------------------------------------------------------------
LEMMA InitHolds == Init => IInv
BY DEF Init, IInv, PcTyped, Pcs, MarkedIsIngested, NothingSwallowed

(* A step of one request that neither delivers nor ticks off. *)
LEMMA MovesHold ==
  ASSUME IInv, NEW d \in Threads, UNCHANGED <<delivered, ledger>>,
         NEW p \in Pcs \ {"mark"}, pc' = [pc EXCEPT ![d] = p],
         UNCHANGED todo \/ \E list : todo' = [todo EXCEPT ![d] = list]
  PROVE  IInv'
BY DEF IInv, PcTyped, Pcs, MarkedIsIngested, NothingSwallowed

LEMMA EndedHolds ==
  ASSUME IInv, UNCHANGED <<delivered, ledger>>, NEW threads, Ended(threads)
  PROVE  IInv'
BY DEF IInv, PcTyped, Pcs, MarkedIsIngested, NothingSwallowed, Ended

LEMMA StillHolds ==
  ASSUME IInv, UNCHANGED <<delivered, ledger, pc, todo>>
  PROVE  IInv'
BY DEF IInv, PcTyped, MarkedIsIngested, NothingSwallowed

LEMMA DeliverHolds ==
  ASSUME IInv, NEW d \in Threads, DeliverDue(d)
  PROVE  IInv'
<1>1. /\ UNCHANGED <<delivered, todo>> /\ pc' = [pc EXCEPT ![d] = "mark"]
      /\ ledger \subseteq ledger' /\ Head(todo[d]).event \in ledger'
  BY DEF DeliverDue, Deliver, Ingest
<1>. QED BY <1>1 DEF IInv, PcTyped, Pcs, MarkedIsIngested, NothingSwallowed

LEMMA MarkHolds ==
  ASSUME IInv, NEW d \in Threads, Mark(d)
  PROVE  IInv'
<1>1. /\ delivered' = delivered \cup {Head(todo[d])} /\ ledger' = ledger
      /\ pc[d] = "mark" /\ pc' = [pc EXCEPT ![d] = "deliver"]
      /\ todo' = [todo EXCEPT ![d] = Tail(@)]
  BY DEF Mark
<1>. QED BY <1>1 DEF IInv, PcTyped, Pcs, MarkedIsIngested, NothingSwallowed

LEMMA EndRoundMoves ==
  ASSUME NEW d, NEW ran, EndRound(d, ran)
  PROVE  \E p \in {"select", "correct", "seek"} :
           pc' = [pc EXCEPT ![d] = p] /\ (p = "correct" => landed[d])
BY DEF EndRound

LEMMA StepHolds == IInv /\ [Next]_vars => IInv'
<1>. SUFFICES ASSUME IInv, [Next]_vars PROVE IInv' OBVIOUS
<1>1. CASE UNCHANGED vars BY <1>1, StillHolds DEF vars, story, request
<1>2. ASSUME NEW d \in Threads, Replay(d) PROVE IInv'
  <2>1. CASE Select(d)
    <3>1. \E list : todo' = [todo EXCEPT ![d] = list] BY <2>1 DEF Select
    <3>2. UNCHANGED <<delivered, ledger>> BY <2>1 DEF Select, story
    <3>3. pc' = [pc EXCEPT ![d] = "deliver"] BY <2>1 DEF Select
    <3>. QED BY <3>1, <3>2, <3>3, MovesHold DEF Pcs
  <2>2. CASE DeliverDue(d) BY <2>2, DeliverHolds
  <2>3. CASE Mark(d) BY <2>3, MarkHolds
  <2>4. CASE Answer(d) BY <2>4, EndedHolds DEF Answer, story
  <2>5. CASE NothingToDo(d)
    <3>1. UNCHANGED <<delivered, ledger, todo>> BY <2>5 DEF NothingToDo, story
    <3>2. \E p \in {"select", "correct", "seek"} : pc' = [pc EXCEPT ![d] = p]
      BY <2>5, EndRoundMoves DEF NothingToDo
    <3>. QED BY <3>1, <3>2, MovesHold DEF Pcs
  <2>6. CASE Hop(d) BY <2>6, MovesHold DEF Hop, MoveTo, story, Pcs
  <2>7. CASE Land(d)
    <3>1. UNCHANGED <<delivered, ledger, todo>> BY <2>7 DEF Land, story
    <3>2. \E p \in {"select", "correct"} : pc' = [pc EXCEPT ![d] = p]
      BY <2>7 DEF Land, MoveTo
    <3>. QED BY <3>1, <3>2, MovesHold DEF Pcs
  <2>8. CASE Return(d) BY <2>8, EndedHolds DEF Return, story
  <2>. QED BY <1>2, <2>1, <2>2, <2>3, <2>4, <2>5, <2>6, <2>7, <2>8 DEF Replay
<1>3. ASSUME NEW d \in Drivers, NEW seconds \in Leaps, FastForward(d, seconds) PROVE IInv'
  BY <1>3, MovesHold DEF FastForward, story, Threads, Pcs
<1>4. ASSUME NEW c \in Callers, NEW delay \in Delays, CreateScenario(c, delay) PROVE IInv'
  <2>1. \E p \in {"select", "idle"} : pc' = [pc EXCEPT ![c] = p] BY <1>4 DEF CreateScenario
  <2>. QED BY <1>4, <2>1, MovesHold DEF CreateScenario, Threads, Pcs
<1>5. ASSUME NEW x \in Executors, Execute(x) PROVE IInv'
  <2>1. CASE Claim(x) BY <2>1, StillHolds DEF Claim, story
  <2>2. CASE Handle(x) BY <2>2, StillHolds DEF Handle, request
  <2>3. CASE Commit(x)
    <3>1. UNCHANGED <<delivered, ledger, todo>> BY <2>3 DEF Commit
    <3>2. CASE x = Poller BY <2>3, <3>1, <3>2, StillHolds DEF Commit
    <3>3. CASE x # Poller
      <4>1. \E p \in {"select", "correct", "seek"} : pc' = [pc EXCEPT ![x] = p]
        BY <2>3, <3>3, EndRoundMoves DEF Commit
      <4>. QED BY <3>1, <3>3, <4>1, MovesHold DEF Pcs, Executors, Threads
    <3>. QED BY <3>2, <3>3
  <2>. QED BY <1>5, <2>1, <2>2, <2>3 DEF Execute
<1>6. ASSUME NEW x \in Threads \cup {Poller}, Fail(x) PROVE IInv'
  BY <1>6, EndedHolds, StillHolds DEF Fail, story, request
<1>7. CASE Tick BY <1>7, StillHolds DEF Tick, story, request
<1>8. CASE Restart BY <1>8, EndedHolds DEF Restart, story
<1>. QED BY <1>1, <1>2, <1>3, <1>4, <1>5, <1>6, <1>7, <1>8 DEF Next

(* sim/service.py, deliver_due: delivered_at is written after the handler  *)
(* has committed, never before.                                            *)
THEOREM ReplaySwallowsNothing == Spec => []NothingSwallowed
<1>1. IInv => NothingSwallowed BY DEF IInv
<1>. QED BY <1>1, InitHolds, StepHolds, PTL DEF Spec

-----------------------------------------------------------------------------
(* With one request moving the clock: on its way it knows where the offset *)
(* is to end, and at rest the offset is what has been asked for.           *)
Settled ==
  /\ pc \in [Threads -> Pcs]
  /\ DOMAIN goal = Threads
  /\ \A d \in Drivers : IF pc[d] = "idle" THEN offset = asked ELSE goal[d] = asked
  /\ \A c \in Callers : pc[c] \notin {"seek", "correct"}

(* sim/service.py, advance_to: a caller who asks for three days gets three *)
(* days, however long the replay took, as long as no other request moves   *)
(* the clock meanwhile; one that fails leaves the clock where it had got,  *)
(* and the next counts from there.                                         *)
THEOREM DriverGetsWhatItAsked ==
  ASSUME \A d, e \in Drivers : d = e, Drivers # {}
  PROVE  Spec => []((\A d \in Drivers : pc[d] = "idle") => offset = asked)
<1>. USE ReplayAssumption DEF Threads, Pcs
<1>1. Init => Settled BY DEF Init, Settled
<1>2. Settled /\ [Next]_vars => Settled'
  <2>. SUFFICES ASSUME Settled, [Next]_vars PROVE Settled' OBVIOUS
  <2>. USE DEF Settled
  <2>1. CASE UNCHANGED vars BY <2>1 DEF vars, story, request
  <2>2. ASSUME NEW d \in Threads, Replay(d) PROVE Settled'
    <3>1. CASE Select(d) BY <3>1 DEF Select
    <3>2. CASE DeliverDue(d) BY <3>2 DEF DeliverDue
    <3>3. CASE Mark(d) BY <3>3 DEF Mark
    <3>4. CASE Answer(d) BY <3>4 DEF Answer, Ended
    <3>5. CASE NothingToDo(d)
      <4>1. d \in Drivers /\ pc[d] = "deliver" /\ UNCHANGED <<offset, goal, asked>>
        BY <3>5 DEF NothingToDo, Executing
      <4>2. PICK p \in {"select", "correct", "seek"} : pc' = [pc EXCEPT ![d] = p]
        BY <3>5, EndRoundMoves DEF NothingToDo
      <4>. QED BY <4>1, <4>2
    <3>6. CASE Hop(d) BY <3>6 DEF Hop, MoveTo
    <3>7. CASE Land(d) BY <3>7 DEF Land, MoveTo
    <3>8. CASE Return(d) BY <3>8 DEF Return, Corrected, Ended
    <3>. QED BY <2>2, <3>1, <3>2, <3>3, <3>4, <3>5, <3>6, <3>7, <3>8 DEF Replay
  <2>3. ASSUME NEW d \in Drivers, NEW seconds \in Leaps, FastForward(d, seconds) PROVE Settled'
    BY <2>3 DEF FastForward
  <2>4. ASSUME NEW c \in Callers, NEW delay \in Delays, CreateScenario(c, delay) PROVE Settled'
    BY <2>4 DEF CreateScenario
  <2>5. ASSUME NEW x \in Executors, Execute(x) PROVE Settled'
    <3>1. CASE Claim(x) BY <3>1 DEF Claim
    <3>2. CASE Handle(x) BY <3>2 DEF Handle, request
    <3>3. CASE Commit(x) /\ x = Poller BY <3>3 DEF Commit
    <3>4. CASE Commit(x) /\ x # Poller
      BY <3>4, EndRoundMoves DEF Commit, Executing, Executors
    <3>. QED BY <2>5, <3>1, <3>2, <3>3, <3>4 DEF Execute
  <2>6. ASSUME NEW x \in Threads \cup {Poller}, Fail(x) PROVE Settled'
    <3>1. CASE x = Poller BY <2>6, <3>1 DEF Fail, request
    <3>2. CASE x # Poller
      <4>1. /\ pc' = [d \in Threads |-> IF d \in {x} THEN "idle" ELSE pc[d]]
            /\ goal' = [d \in Threads |-> IF d \in {x} THEN 0 ELSE goal[d]]
            /\ offset' = offset /\ asked' = IF x \in Drivers THEN offset ELSE asked
        BY <2>6, <3>2 DEF Fail, Ended
      <4>. QED BY <3>2, <4>1
    <3>. QED BY <3>1, <3>2
  <2>7. CASE Tick BY <2>7 DEF Tick, request
  <2>8. CASE Restart BY <2>8 DEF Restart, Ended
  <2>. QED BY <2>1, <2>2, <2>3, <2>4, <2>5, <2>6, <2>7, <2>8 DEF Next
<1>3. Settled => ((\A d \in Drivers : pc[d] = "idle") => offset = asked) BY DEF Settled
<1>. QED BY <1>1, <1>2, <1>3, PTL DEF Spec
-----------------------------------------------------------------------------
(* The clock, and what is due.                                             *)
Open == status \notin Closed

Batches ==
  [held : SUBSET Attempts, left : SUBSET Attempts, executed : SUBSET Attempts,
   refused : SUBSET Attempts, seen : {"unread", "failed"} \cup Closed]

Types ==
  /\ real \in Nat /\ offset \in Nat /\ reached \in Int
  /\ status \in {"failed"} \cup Closed
  /\ row \in [Attempts -> {"scheduled", "executed", "failed"}]
  /\ work \in [Executors -> Batches]
  /\ clears \in Minds
  /\ pc \in [Threads -> Pcs]
  /\ target \in [Threads -> Int] /\ goal \in [Threads -> Int]
  /\ DOMAIN landed = Threads /\ DOMAIN skipped = Threads
  /\ IsFiniteSet(queue) /\ \A q \in queue : q.at \in Int
  /\ \A c \in Callers : pc[c] \notin {"seek", "correct"}

(* A request knows where the clock is to go, and never sets it back. *)
ClockForward ==
  /\ now <= reached
  /\ \A d \in Drivers : pc[d] # "idle" => offset <= goal[d] /\ target[d] <= real + goal[d]
  /\ \A d \in Drivers : pc[d] # "idle" /\ (landed[d] \/ pc[d] = "correct") => target[d] <= now

(* What a thread has listed is in the queue, and its time has come. *)
ListsAreDue ==
  /\ todo \in [Threads -> Seq(queue)]
  /\ \A d \in Threads : \A i \in 1..Len(todo[d]) : todo[d][i].at <= now
  /\ \A d \in Threads : pc[d] = "mark" => todo[d] # <<>>

(* What an executor has claimed is still to be done, has its time, and is  *)
(* nobody else's.                                                          *)
LocksAreDue ==
  /\ \A x \in Executors : \A a \in work[x].held : row[a] = "scheduled" /\ Time[a] <= now
  /\ \A x \in Executors :
       UNION {work[x].left, work[x].executed, work[x].refused} \subseteq work[x].held
  /\ \A x, y \in Executors : x # y => work[x].held \cap work[y].held = {}

(* As long as the clock has not slipped: what is due is due at one moment, *)
(* what is due in the queue while a driver delivers is on its list, what   *)
(* is left when it looks for the next moment others had claimed, and a     *)
(* batch has all there is to execute, on a file that is open and that no   *)
(* answer is about to recover.                                             *)
Listed(d) ==
  \A q \in queue \ delivered :
    q.event.of # "scenario" /\ q.at <= now => \E i \in 1..Len(todo[d]) : todo[d][i] = q

NothingLeft(d) ==
  /\ \A q \in queue \ delivered : q.event.of # "scenario" => q.at > now
  /\ DueAttempts \subseteq skipped[d]

BatchIsAll(x) ==
  /\ Open /\ DueAttempts \subseteq work[x].held /\ ~ Awaited
  /\ work[x].refused = {}
  /\ IF \E w \in work[x].executed : Kind[w] = "write_off"
     THEN work[x].seen = "written_off"
     ELSE /\ work[x].seen \in {"unread", "failed"}
          /\ work[x].held \subseteq work[x].left \cup work[x].executed

OneMoment ==
  /\ \A t, u \in Due : t = u
  /\ \A d \in Drivers : pc[d] \in {"seek", "correct"} => NothingLeft(d)
  /\ \A d \in Drivers : pc[d] \in {"deliver", "mark"} => Listed(d)
  /\ \A x \in Executors : work[x].held # {} => BatchIsAll(x)

ReplayInv ==
  Types /\ ClockForward /\ ListsAreDue /\ LocksAreDue /\ (~ slipped => OneMoment)

(* One request at a time moves the clock. *)
SoleDriver == \A d, e \in Drivers : d = e

LEMMA AheadHas ==
  ASSUME NEW t
  PROVE  t \in Ahead <=>
           \/ \E q \in queue \ delivered : q.event.of # "scenario" /\ t = q.at
           \/ /\ Open
              /\ \E a \in Attempts : /\ row[a] = "scheduled"
                                     /\ \/ t = Time[a]
                                        \/ Kind[a] = "retry" /\ t = Time[a] + Settlement
BY DEF Ahead, Open, Retries

LEMMA AheadHasNext ==
  ASSUME NEW t
  PROVE  t \in Ahead' <=>
           \/ \E q \in queue' \ delivered' : q.event.of # "scenario" /\ t = q.at
           \/ /\ Open'
              /\ \E a \in Attempts : /\ row'[a] = "scheduled"
                                     /\ \/ t = Time[a]
                                        \/ Kind[a] = "retry" /\ t = Time[a] + Settlement
BY DEF Ahead, Open, Retries

LEMMA SameAhead ==
  ASSUME UNCHANGED <<queue, delivered, status, row>>
  PROVE  Ahead' = Ahead
BY DEF Ahead, Retries

LEMMA AheadTyped ==
  ASSUME Types
  PROVE  Ahead \subseteq Int
BY ReplayAssumption, AheadHas DEF Types

LEMMA ListHasAll ==
  ASSUME NEW S, IsFiniteSet(S), NEW s \in SetToSeqs(S)
  PROVE  s \in Seq(S) /\ \A x \in S : \E i \in 1..Len(s) : s[i] = x
<1>. DEFINE n == Cardinality(S)
<1>1. n \in Nat BY FS_CardinalityType
<1>2. s \in [1..n -> S] /\ \A i, j \in 1..n : i # j => s[i] # s[j] BY DEF SetToSeqs
<1>3. s \in Injection(1..n, S) BY <1>2 DEF Injection, IsInjective
<1>4. IsFiniteSet(1..n) /\ Cardinality(1..n) = n BY <1>1, FS_Interval
<1>5. s \in Surjection(1..n, S) BY <1>3, <1>4, FS_Injection
<1>. HIDE DEF n
<1>6. s \in Seq(S) /\ Len(s) = n BY <1>1, <1>2
<1>. QED BY <1>5, <1>6 DEF Surjection

LEMMA SeqGrows ==
  ASSUME NEW S, NEW T, S \subseteq T, NEW s \in Seq(S)
  PROVE  s \in Seq(T)
<1>1. s \in [1..Len(s) -> S] /\ Len(s) \in Nat OBVIOUS
<1>2. s \in [1..Len(s) -> T] BY <1>1
<1>. QED BY <1>1, <1>2

LEMMA DueAttemptsHas ==
  /\ \A a : a \in DueAttempts <=>
               Open /\ a \in Attempts /\ row[a] = "scheduled" /\ Time[a] <= now
  /\ \A a : (a \in DueAttempts)' <=>
               Open' /\ a \in Attempts /\ row'[a] = "scheduled" /\ Time[a] <= now'
BY DEF DueAttempts, Open

(* Scenarios are about other payments. *)
LEMMA ClearedIsAnswer ==
  ASSUME Types, NEW e, Cleared(e)
  PROVE  e.of \in Attempts /\ e.of # "scenario" /\ e.of # "failure"
<1>1. clears \subseteq Attempts \X Nat BY ReplayAssumption DEF Types
<1>. QED BY <1>1, ReplayAssumption DEF Cleared

(* What makes nothing due. *)
LEMMA MomentsCarry ==
  ASSUME Types, OneMoment, clears' = clears, ledger \subseteq ledger',
         Due' \subseteq Due, DueAttempts' \subseteq DueAttempts,
         now' \in Int, \A q \in queue' : q.at \in Int,
         \A q \in queue' \ delivered' : q.event.of # "scenario" /\ q.at <= now' =>
                                          q \in queue \ delivered /\ q.at <= now,
         \A e \in Drivers : pc'[e] \in {"seek", "correct"} =>
                              NothingLeft(e)' \/ (/\ pc[e] \in {"seek", "correct"}
                                                  /\ skipped'[e] = skipped[e]),
         \A e \in Drivers : pc'[e] \in {"deliver", "mark"} => Listed(e)',
         \A x \in Executors : work'[x].held # {} =>
                                (work'[x] = work[x] /\ Open') \/ BatchIsAll(x)'
  PROVE  OneMoment'
<1>1. \A e \in Drivers : pc'[e] \in {"seek", "correct"} => NothingLeft(e)'
  <2>. SUFFICES ASSUME NEW e \in Drivers, pc'[e] \in {"seek", "correct"}, ~ NothingLeft(e)'
                PROVE  FALSE
    OBVIOUS
  <2>1. NothingLeft(e) /\ skipped'[e] = skipped[e] BY DEF OneMoment
  <2>2. now \in Int BY DEF Types, now
  <2>3. ASSUME NEW q \in queue' \ delivered', q.event.of # "scenario" PROVE q.at > now'
    <3>1. q.at \in Int OBVIOUS
    <3>2. q.at <= now' => q \in queue \ delivered /\ q.at <= now /\ q.at > now
      BY <2>1, <2>3 DEF NothingLeft
    <3>. QED BY <2>2, <3>1, <3>2
  <2>. QED BY <2>1, <2>3 DEF NothingLeft
<1>2. ASSUME NEW x \in Executors, work'[x].held # {}, ~ BatchIsAll(x)' PROVE FALSE
  <2>1. BatchIsAll(x) /\ work'[x] = work[x] /\ Open' BY <1>2 DEF OneMoment
  <2>2. ASSUME Awaited' PROVE Awaited
    <3>1. PICK q \in queue' \ delivered' : q.at <= now' /\ q.event \notin ledger' /\ Cleared(q.event)
      BY <2>2 DEF Awaited, DueRows, Cleared
    <3>2. q \in queue \ delivered /\ q.at <= now BY <3>1, ClearedIsAnswer
    <3>. QED BY <3>1, <3>2 DEF Awaited, DueRows
  <2>. QED BY <1>2, <2>1, <2>2 DEF BatchIsAll
<1>. QED BY <1>1, <1>2 DEF OneMoment

LEMMA ListedCarry ==
  ASSUME NEW e, Listed(e), todo'[e] = todo[e],
         \A q \in queue' \ delivered' : q.event.of # "scenario" /\ q.at <= now' =>
                                          q \in queue \ delivered /\ q.at <= now
  PROVE  Listed(e)'
BY DEF Listed

LEMMA LocksCarry ==
  ASSUME Types, LocksAreDue, UNCHANGED row, now <= now', now' \in Int,
         \A x \in Executors : work'[x] = work[x] \/ work'[x] = NoBatch
  PROVE  LocksAreDue'
<1>1. now \in Int BY DEF Types, now
<1>2. \A x \in Executors : /\ work'[x].held \subseteq work[x].held
                           /\ work'[x].left \subseteq work'[x].held
                           /\ work'[x].executed \subseteq work'[x].held
                           /\ work'[x].refused \subseteq work'[x].held
  BY DEF NoBatch, LocksAreDue
<1>3. ASSUME NEW x \in Executors, NEW a \in work'[x].held PROVE row'[a] = "scheduled" /\ Time[a] <= now'
  <2>1. a \in work[x].held BY <1>2
  <2>2. a \in Attempts BY <2>1 DEF Types, Batches
  <2>3. Time[a] \in Nat BY <2>2, ReplayAssumption
  <2>4. row[a] = "scheduled" /\ Time[a] <= now BY <2>1 DEF LocksAreDue
  <2>. QED BY <1>1, <2>3, <2>4
<1>4. \A x, y \in Executors : x # y => work'[x].held \cap work'[y].held = {}
  BY <1>2 DEF LocksAreDue
<1>. QED BY <1>2, <1>3, <1>4 DEF LocksAreDue

LEMMA RolledBackIs ==
  ASSUME Types, NEW xs, RolledBack(xs)
  PROVE  /\ work' \in [Executors -> Batches]
         /\ \A x \in Executors : work'[x] = work[x] \/ work'[x] = NoBatch
         /\ \A x \in xs \cap Executors : work'[x] = NoBatch
         /\ \A x \in Executors \ xs : work'[x] = work[x]
<1>1. NoBatch \in Batches BY DEF NoBatch, Batches
<1>. QED BY <1>1 DEF RolledBack, Types

-----------------------------------------------------------------------------
LEMMA InitReplay == Init => ReplayInv
<1>. SUFFICES ASSUME Init PROVE ReplayInv OBVIOUS
<1>1. \A x \in Executors : work[x] = NoBatch BY DEF Init
<1>2. Types
  <2>. DEFINE f == [n \in 1..2 |-> [event |-> Failure, number |-> n, at |-> FailsAt]]
  <2>1. queue = {[event |-> Failure, number |-> n, at |-> FailsAt] : n \in 1..2} BY DEF Init
  <2>2. f \in Surjection(1..2, queue) BY <2>1 DEF Surjection
  <2>3. IsFiniteSet(1..2)
    <3>1. 1 \in Int /\ 2 \in Int OBVIOUS
    <3>. QED BY <3>1, FS_Interval
  <2>. HIDE DEF f
  <2>4. IsFiniteSet(queue) BY <2>2, <2>3, FS_Surjection
  <2>5. \A q \in queue : q.at \in Int BY <2>1, ReplayAssumption
  <2>6. NoBatch \in Batches BY DEF NoBatch, Batches
  <2>7. work \in [Executors -> Batches] BY <2>6 DEF Init
  <2>. QED BY <2>4, <2>5, <2>7 DEF Types, Init, Threads, Pcs
<1>3. ClockForward BY DEF Init, ClockForward, now, Threads
<1>4. ListsAreDue BY DEF Init, ListsAreDue
<1>5. LocksAreDue BY <1>1 DEF LocksAreDue, NoBatch
<1>6. OneMoment
  <2>1. \A t \in Due : t = 0
    <3>. SUFFICES ASSUME NEW t \in Due PROVE t = 0 OBVIOUS
    <3>1. t \in Ahead /\ t <= 0 BY DEF Due, Init, now
    <3>2. \A q \in queue : q.at \in Nat BY ReplayAssumption DEF Init
    <3>3. t \in Nat BY <3>1, <3>2, AheadHas, ReplayAssumption
    <3>. QED BY <3>1, <3>3
  <2>2. \A d \in Drivers : pc[d] = "idle" BY DEF Init, Threads
  <2>. QED BY <1>1, <2>1, <2>2 DEF OneMoment, NoBatch
<1>. QED BY <1>2, <1>3, <1>4, <1>5, <1>6 DEF ReplayInv

(* Steps of a request that leave the clock alone. *)
LEMMA SelectKeeps ==
  ASSUME ReplayInv, NEW d \in Threads, Select(d)
  PROVE  ReplayInv'
<1>. USE DEF ReplayInv
<1>1. PICK list \in InOrder(DueRows) : todo' = [todo EXCEPT ![d] = list] BY DEF Select
<1>2. IsFiniteSet(DueRows) BY FS_Subset DEF DueRows, Types
<1>3. list \in SetToSeqs(DueRows) BY <1>1 DEF InOrder
<1>4. list \in Seq(DueRows) /\ \A x \in DueRows : \E i \in 1..Len(list) : list[i] = x
  BY <1>2, <1>3, ListHasAll
<1>5. list \in Seq(queue) BY <1>4, SeqGrows DEF DueRows
<1>6. /\ pc[d] = "select" /\ pc' = [pc EXCEPT ![d] = "deliver"]
      /\ UNCHANGED <<real, offset, queue, delivered, ledger, status, row, work, clears, target,
                     goal, landed, skipped, reached, slipped>>
  BY DEF Select, story
<1>7. Types' BY <1>6 DEF Types, Pcs
<1>8. ClockForward' BY <1>6 DEF ClockForward, now, Types, Threads
<1>9. now' = now /\ now \in Int BY <1>6 DEF now, Types
<1>10. ListsAreDue'
  <2>1. todo' \in [Threads -> Seq(queue')] BY <1>1, <1>5, <1>6 DEF ListsAreDue
  <2>2. \A i \in 1..Len(list) : list[i].at <= now BY <1>4 DEF DueRows
  <2>3. \A e \in Threads : todo'[e] = IF e = d THEN list ELSE todo[e] BY <1>1 DEF ListsAreDue
  <2>. QED BY <1>6, <1>9, <2>1, <2>2, <2>3 DEF ListsAreDue, Types
<1>11. LocksAreDue' BY <1>6, <1>9, LocksCarry
<1>12. ASSUME ~ slipped' PROVE OneMoment'
  <2>1. OneMoment BY <1>6, <1>12
  <2>2. Ahead' = Ahead BY <1>6, SameAhead
  <2>3. Due' = Due BY <1>9, <2>2 DEF Due
  <2>4. DueAttempts' = DueAttempts BY <1>6, <1>9 DEF DueAttempts
  <2>5. Listed(d)'
    <3>1. todo'[d] = list BY <1>1 DEF ListsAreDue
    <3>2. \A q \in queue \ delivered : q.at <= now => q \in DueRows BY DEF DueRows
    <3>. QED BY <1>4, <1>6, <1>9, <3>1, <3>2 DEF Listed
  <2>6. \A e \in Drivers : e # d /\ Listed(e) => Listed(e)'
    BY <1>1, <1>6, <1>9 DEF Listed, ListsAreDue, Threads
  <2>7. \A e \in Drivers : pc'[e] \in {"deliver", "mark"} => Listed(e)'
    BY <1>6, <2>1, <2>5, <2>6 DEF OneMoment, Types, Threads
  <2>8. \A e \in Drivers : pc'[e] \in {"seek", "correct"} => pc[e] \in {"seek", "correct"}
    BY <1>6 DEF Types, Threads
  <2>9. \A x \in Executors : work'[x].held # {} => work'[x] = work[x] /\ Open'
    BY <1>6, <2>1 DEF OneMoment, BatchIsAll, Open
  <2>10. \A q \in queue' : q.at \in Int BY <1>6 DEF Types
  <2>. HIDE DEF ReplayInv
  <2>. QED BY <1>6, <1>9, <2>1, <2>3, <2>4, <2>7, <2>8, <2>9, <2>10, MomentsCarry DEF ReplayInv
<1>. QED BY <1>7, <1>8, <1>10, <1>11, <1>12

(* A delivery leaves an open batch's file as it is: the answer that would   *)
(* have recovered it came before.                                          *)
LEMMA DeliverKeeps ==
  ASSUME ReplayInv, IInv, NEW d \in Threads, DeliverDue(d)
  PROVE  ReplayInv'
<1>. USE DEF ReplayInv
<1>. DEFINE q0 == Head(todo[d])
<1>1. /\ pc[d] = "deliver" /\ pc' = [pc EXCEPT ![d] = "mark"] /\ todo[d] # <<>>
      /\ UNCHANGED <<real, offset, queue, delivered, row, work, clears, target, goal, landed,
                     todo, skipped, reached, slipped>>
      /\ Ingest(q0)
  BY DEF DeliverDue, Deliver
<1>2. q0 \in queue /\ q0.at <= now
  <2>1. todo[d] \in Seq(queue) BY DEF ListsAreDue
  <2>2. q0 = todo[d][1] /\ 1 \in 1..Len(todo[d]) /\ q0 \in queue BY <1>1, <2>1
  <2>. QED BY <2>2 DEF ListsAreDue
<1>. HIDE DEF q0
<1>3. status' \in {"failed"} \cup Closed /\ (Open' => Open) /\ ledger \subseteq ledger'
  BY <1>1 DEF Ingest, Closed, Types, Open
<1>4. Types' BY <1>1, <1>3 DEF Types, Pcs
<1>5. ClockForward' BY <1>1 DEF ClockForward, now, Types, Threads
<1>6. ListsAreDue' BY <1>1 DEF ListsAreDue, now, Types
<1>7. now' = now /\ now \in Int BY <1>1 DEF now, Types
<1>8. LocksAreDue' BY <1>1, <1>7, LocksCarry
<1>9. ASSUME ~ slipped' PROVE OneMoment'
  <2>1. OneMoment BY <1>1, <1>9
  <2>2. Ahead' \subseteq Ahead BY <1>1, <1>3, AheadHas, AheadHasNext
  <2>3. Due' \subseteq Due BY <1>7, <2>2 DEF Due
  <2>4. DueAttempts' \subseteq DueAttempts BY <1>1, <1>3, <1>7, DueAttemptsHas
  <2>5. ASSUME NEW e \in Drivers, pc'[e] \in {"deliver", "mark"} PROVE Listed(e)'
    <3>1. pc[e] \in {"deliver", "mark"} BY <1>1, <2>5 DEF Types, Threads
    <3>2. Listed(e) /\ todo'[e] = todo[e] BY <1>1, <2>1, <3>1 DEF OneMoment
    <3>3. queue' = queue /\ delivered' = delivered BY <1>1
    <3>. QED BY <1>7, <3>2, <3>3, ListedCarry
  <2>6. \A e \in Drivers : pc'[e] \in {"seek", "correct"} => pc[e] \in {"seek", "correct"}
    BY <1>1 DEF Types, Threads
  <2>7. ASSUME NEW x \in Executors, work'[x].held # {} PROVE work'[x] = work[x] /\ Open'
    <3>1. Open /\ ~ Awaited BY <1>1, <2>1, <2>7 DEF OneMoment, BatchIsAll
    <3>2. q0.event \in ledger \/ ~ Cleared(q0.event)
      BY <1>2, <3>1 DEF Awaited, DueRows, IInv, NothingSwallowed
    <3>. QED BY <1>1, <3>1, <3>2 DEF Ingest, Open
  <2>8. \A q \in queue' : q.at \in Int BY <1>1 DEF Types
  <2>. HIDE DEF ReplayInv
  <2>. QED BY <1>1, <1>3, <1>7, <2>1, <2>3, <2>4, <2>5, <2>6, <2>7, <2>8, MomentsCarry DEF ReplayInv
<1>. QED BY <1>4, <1>5, <1>6, <1>8, <1>9

LEMMA MarkKeeps ==
  ASSUME ReplayInv, NEW d \in Threads, Mark(d)
  PROVE  ReplayInv'
<1>. USE DEF ReplayInv
<1>1. /\ pc[d] = "mark" /\ pc' = [pc EXCEPT ![d] = "deliver"]
      /\ delivered' = delivered \cup {Head(todo[d])}
      /\ todo' = [todo EXCEPT ![d] = Tail(@)]
      /\ UNCHANGED <<real, offset, queue, ledger, status, row, work, clears, target, goal,
                     landed, skipped, reached, slipped>>
  BY DEF Mark
<1>2. todo[d] \in Seq(queue) /\ todo[d] # <<>> BY <1>1 DEF ListsAreDue
<1>3. /\ Tail(todo[d]) \in Seq(queue) /\ Len(Tail(todo[d])) = Len(todo[d]) - 1
      /\ Len(todo[d]) \in Nat /\ Head(todo[d]) = todo[d][1]
      /\ \A i \in 1..Len(Tail(todo[d])) : Tail(todo[d])[i] = todo[d][i + 1]
  BY <1>2
<1>4. Types' BY <1>1 DEF Types, Pcs
<1>5. ClockForward' BY <1>1 DEF ClockForward, now, Types, Threads
<1>6. now' = now /\ now \in Int BY <1>1 DEF now, Types
<1>7. ListsAreDue'
  <2>1. todo' \in [Threads -> Seq(queue')] BY <1>1, <1>3 DEF ListsAreDue
  <2>2. \A e \in Threads : todo'[e] = IF e = d THEN Tail(todo[d]) ELSE todo[e]
    BY <1>1 DEF ListsAreDue
  <2>3. \A i \in 1..Len(Tail(todo[d])) : Tail(todo[d])[i].at <= now
    <3>. SUFFICES ASSUME NEW i \in 1..Len(Tail(todo[d])) PROVE Tail(todo[d])[i].at <= now
      OBVIOUS
    <3>1. i + 1 \in 1..Len(todo[d]) BY <1>3
    <3>. QED BY <1>3, <3>1 DEF ListsAreDue
  <2>4. \A e \in Threads : \A i \in 1..Len(todo'[e]) : todo'[e][i].at <= now'
    BY <1>6, <2>2, <2>3 DEF ListsAreDue
  <2>5. \A e \in Threads : pc'[e] = "mark" => todo'[e] # <<>>
    BY <1>1, <2>2 DEF ListsAreDue, Types
  <2>. QED BY <2>1, <2>4, <2>5 DEF ListsAreDue
<1>8. LocksAreDue' BY <1>1, <1>6, LocksCarry
<1>9. ASSUME ~ slipped' PROVE OneMoment'
  <2>1. OneMoment BY <1>1, <1>9
  <2>2. Open' = Open BY <1>1 DEF Open
  <2>3. Ahead' \subseteq Ahead BY <1>1, <2>2, AheadHas, AheadHasNext
  <2>4. Due' \subseteq Due BY <1>6, <2>3 DEF Due
  <2>5. DueAttempts' \subseteq DueAttempts BY <1>1, <1>6, <2>2, DueAttemptsHas
  <2>6. \A e \in Drivers : pc'[e] \in {"deliver", "mark"} => pc[e] \in {"deliver", "mark"}
    BY <1>1 DEF Types, Threads
  <2>7. ASSUME NEW e \in Drivers, Listed(e) PROVE Listed(e)'
    <3>1. CASE e # d
      <4>1. todo'[e] = todo[e] BY <1>1, <3>1 DEF ListsAreDue, Threads
      <4>. QED BY <1>1, <1>6, <2>7, <4>1, ListedCarry
    <3>2. CASE e = d
      <4>. SUFFICES ASSUME NEW q \in queue' \ delivered', q.event.of # "scenario", q.at <= now'
                    PROVE  \E i \in 1..Len(todo'[e]) : todo'[e][i] = q
        BY DEF Listed
      <4>1. q \in queue \ delivered /\ q # Head(todo[d]) BY <1>1
      <4>2. PICK i \in 1..Len(todo[d]) : todo[d][i] = q BY <1>6, <2>7, <3>2, <4>1 DEF Listed
      <4>3. i # 1 BY <1>3, <4>1, <4>2
      <4>4. i - 1 \in 1..Len(Tail(todo[d])) /\ (i - 1) + 1 = i BY <1>3, <4>3
      <4>5. Tail(todo[d])[i - 1] = q BY <1>3, <4>2, <4>4
      <4>6. todo'[e] = Tail(todo[d]) BY <1>1, <3>2 DEF ListsAreDue
      <4>. QED BY <4>4, <4>5, <4>6
    <3>. QED BY <3>1, <3>2
  <2>8. \A e \in Drivers : pc'[e] \in {"seek", "correct"} => pc[e] \in {"seek", "correct"}
    BY <1>1 DEF Types, Threads
  <2>9. \A e \in Drivers : pc'[e] \in {"deliver", "mark"} => Listed(e)'
    BY <2>1, <2>6, <2>7 DEF OneMoment
  <2>10. \A x \in Executors : work'[x].held # {} => work'[x] = work[x] /\ Open'
    BY <1>1, <2>1, <2>2 DEF OneMoment, BatchIsAll
  <2>11. \A q \in queue' : q.at \in Int BY <1>1 DEF Types
  <2>. HIDE DEF ReplayInv
  <2>. QED BY <1>1, <1>6, <2>1, <2>4, <2>5, <2>8, <2>9, <2>10, <2>11, MomentsCarry DEF ReplayInv
<1>. QED BY <1>4, <1>5, <1>7, <1>8, <1>9


(* Requests and transactions that end where they are. *)
LEMMA EndKeeps ==
  ASSUME ReplayInv,
         UNCHANGED <<real, offset, queue, delivered, ledger, status, row, clears, reached, slipped>>,
         pc' \in [Threads -> Pcs], target' \in [Threads -> Int], goal' \in [Threads -> Int],
         DOMAIN landed' = Threads, DOMAIN skipped' = Threads, todo' \in [Threads -> Seq(queue)],
         \A e \in Threads : \/ pc'[e] = "idle" /\ todo'[e] = <<>>
                            \/ /\ pc'[e] = pc[e] /\ todo'[e] = todo[e] /\ target'[e] = target[e]
                               /\ goal'[e] = goal[e] /\ landed'[e] = landed[e]
                               /\ skipped'[e] = skipped[e],
         work' \in [Executors -> Batches],
         \A x \in Executors : work'[x] = work[x] \/ work'[x] = NoBatch
  PROVE  ReplayInv'
<1>. USE DEF ReplayInv
<1>1. now' = now /\ now \in Int BY DEF now, Types
<1>2. \A e \in Drivers : e \in Threads BY DEF Threads
<1>3. Types'
  <2>1. \A c \in Callers : pc'[c] \notin {"seek", "correct"} BY DEF Types, Threads
  <2>. QED BY <2>1 DEF Types
<1>4. ClockForward' BY <1>1, <1>2 DEF ClockForward
<1>5. ListsAreDue'
  <2>1. \A e \in Threads : \A i \in 1..Len(todo'[e]) : todo'[e][i].at <= now'
    <3>. SUFFICES ASSUME NEW e \in Threads, NEW i \in 1..Len(todo'[e])
                  PROVE  todo'[e][i].at <= now'
      OBVIOUS
    <3>1. Len(<<>>) = 0 /\ 1..0 = {} OBVIOUS
    <3>2. todo'[e] = todo[e] BY <3>1
    <3>. QED BY <1>1, <3>2 DEF ListsAreDue
  <2>2. \A e \in Threads : pc'[e] = "mark" => todo'[e] # <<>> BY DEF ListsAreDue
  <2>. QED BY <2>1, <2>2 DEF ListsAreDue
<1>6. LocksAreDue' BY <1>1, LocksCarry
<1>7. ASSUME ~ slipped' PROVE OneMoment'
  <2>1. OneMoment BY <1>7
  <2>2. Due' = Due BY <1>1, SameAhead DEF Due
  <2>3. DueAttempts' = DueAttempts BY <1>1 DEF DueAttempts
  <2>4. ASSUME NEW e \in Drivers, pc'[e] \in {"deliver", "mark"} PROVE Listed(e)'
    <3>1. Listed(e) /\ todo'[e] = todo[e] BY <1>2, <2>1, <2>4 DEF OneMoment
    <3>. QED BY <1>1, <3>1, ListedCarry
  <2>5. \A e \in Drivers : pc'[e] \in {"seek", "correct"} =>
                             pc[e] \in {"seek", "correct"} /\ skipped'[e] = skipped[e]
    BY <1>2
  <2>6. \A x \in Executors : work'[x].held # {} => work'[x] = work[x] /\ Open'
    BY <2>1 DEF OneMoment, BatchIsAll, Open, NoBatch
  <2>7. \A q \in queue' : q.at \in Int BY DEF Types
  <2>. HIDE DEF ReplayInv
  <2>. QED BY <1>1, <2>1, <2>2, <2>3, <2>4, <2>5, <2>6, <2>7, MomentsCarry DEF ReplayInv
<1>. QED BY <1>3, <1>4, <1>5, <1>6, <1>7

LEMMA EndedIs ==
  ASSUME Types, ListsAreDue, NEW threads, Ended(threads)
  PROVE  /\ pc' \in [Threads -> Pcs] /\ target' \in [Threads -> Int] /\ goal' \in [Threads -> Int]
         /\ DOMAIN landed' = Threads /\ DOMAIN skipped' = Threads /\ todo' \in [Threads -> Seq(queue)]
         /\ \A e \in Threads \cap threads : pc'[e] = "idle" /\ todo'[e] = <<>>
         /\ \A e \in Threads \ threads :
              /\ pc'[e] = pc[e] /\ todo'[e] = todo[e] /\ target'[e] = target[e]
              /\ goal'[e] = goal[e] /\ landed'[e] = landed[e] /\ skipped'[e] = skipped[e]
<1>1. /\ pc' = [e \in Threads |-> IF e \in threads THEN "idle" ELSE pc[e]]
      /\ todo' = [e \in Threads |-> IF e \in threads THEN <<>> ELSE todo[e]]
      /\ target' = [e \in Threads |-> IF e \in threads THEN 0 ELSE target[e]]
      /\ goal' = [e \in Threads |-> IF e \in threads THEN 0 ELSE goal[e]]
      /\ landed' = [e \in Threads |-> IF e \in threads THEN FALSE ELSE landed[e]]
      /\ skipped' = [e \in Threads |-> IF e \in threads THEN {} ELSE skipped[e]]
  BY DEF Ended
<1>2. pc' \in [Threads -> Pcs] BY <1>1 DEF Types, Pcs
<1>3. target' \in [Threads -> Int] /\ goal' \in [Threads -> Int] BY <1>1 DEF Types
<1>4. todo' \in [Threads -> Seq(queue)]
  <2>1. <<>> \in Seq(queue) OBVIOUS
  <2>. QED BY <1>1, <2>1 DEF ListsAreDue
<1>. QED BY <1>1, <1>2, <1>3, <1>4

LEMMA AnswerKeeps ==
  ASSUME ReplayInv, NEW c \in Threads, Answer(c)
  PROVE  ReplayInv'
<1>1. Ended({c}) /\ UNCHANGED <<real, offset, queue, delivered, ledger, status, row, clears,
                                reached, slipped, work>>
  BY DEF Answer, story
<1>2. work' \in [Executors -> Batches] BY <1>1 DEF ReplayInv, Types
<1>. QED BY <1>1, <1>2, EndedIs, EndKeeps DEF ReplayInv

LEMMA FailKeeps ==
  ASSUME ReplayInv, NEW x \in Threads \cup {Poller}, Fail(x)
  PROVE  ReplayInv'
<1>1. RolledBack({x}) /\ UNCHANGED <<real, offset, queue, delivered, ledger, status, row, clears,
                                    reached, slipped>>
  BY DEF Fail, story
<1>2. CASE x # Poller
  <2>1. Ended({x}) BY <1>2 DEF Fail
  <2>. QED BY <1>1, <2>1, EndedIs, RolledBackIs, EndKeeps DEF ReplayInv
<1>3. CASE x = Poller
  <2>1. UNCHANGED <<pc, target, goal, todo, landed, skipped>> BY <1>3 DEF Fail, request
  <2>2. /\ pc' \in [Threads -> Pcs] /\ target' \in [Threads -> Int] /\ goal' \in [Threads -> Int]
        /\ DOMAIN landed' = Threads /\ DOMAIN skipped' = Threads /\ todo' \in [Threads -> Seq(queue)]
    BY <2>1 DEF ReplayInv, Types, ListsAreDue
  <2>. QED BY <1>1, <2>1, <2>2, RolledBackIs, EndKeeps DEF ReplayInv
<1>. QED BY <1>2, <1>3

-----------------------------------------------------------------------------
(* execute_due, in each of its steps. *)
LEMMA NoRowIsDue ==
  ASSUME Types, NEW d, Listed(d), todo[d] = <<>>
  PROVE  /\ \A q \in queue \ delivered : q.event.of # "scenario" => q.at > now
         /\ ~ Awaited
<1>1. now \in Int /\ Len(todo[d]) = 0 BY DEF Types, now
<1>2. \A q \in queue \ delivered : q.event.of # "scenario" => q.at > now
  BY <1>1 DEF Listed, Types
<1>3. ASSUME Awaited PROVE FALSE
  <2>1. PICK q \in queue \ delivered : q.at <= now /\ Cleared(q.event)
    BY <1>3 DEF Awaited, DueRows
  <2>. QED BY <1>1, <1>2, <2>1, ClearedIsAnswer DEF Types
<1>. QED BY <1>2, <1>3

LEMMA ClaimKeeps ==
  ASSUME ReplayInv, NEW x \in Executors, Claim(x)
  PROVE  ReplayInv'
<1>. USE DEF ReplayInv
<1>. DEFINE batch == [NoBatch EXCEPT !.held = Claimable, !.left = Claimable]
<1>1. /\ work' = [work EXCEPT ![x] = batch] /\ work[x].held = {} /\ Claimable # {}
      /\ UNCHANGED <<real, offset, queue, delivered, ledger, status, row, clears, pc, target,
                     goal, todo, landed, reached>>
      /\ (~ slipped' => ~ slipped /\ (x = Poller => ~ Awaited))
  BY DEF Claim, story
<1>2. \A e \in Threads : skipped'[e] = skipped[e] \/ pc[e] = "deliver"
  BY DEF Claim, Executing
<1>3. DOMAIN skipped' = Threads BY DEF Claim, Types
<1>4. Claimable \subseteq DueAttempts /\ DueAttempts \subseteq Attempts
  BY DEF Claimable, DueAttempts
<1>5. now' = now /\ now \in Int BY <1>1 DEF now, Types
<1>6. /\ batch.held = Claimable /\ batch.left = Claimable /\ batch.executed = {}
      /\ batch.refused = {} /\ batch.seen = "unread"
  BY DEF NoBatch
<1>7. batch \in Batches BY <1>4 DEF NoBatch, Batches
<1>. HIDE DEF batch
<1>8. Types'
  <2>1. work' \in [Executors -> Batches] BY <1>1, <1>7 DEF Types
  <2>. QED BY <1>1, <1>3, <2>1 DEF Types
<1>9. ClockForward' BY <1>1, <1>5 DEF ClockForward
<1>10. ListsAreDue' BY <1>1, <1>5 DEF ListsAreDue
<1>11. \A y \in Executors : work'[y] = IF y = x THEN batch ELSE work[y] BY <1>1 DEF Types
<1>12. LocksAreDue'
  <2>1. \A a \in Claimable : row[a] = "scheduled" /\ Time[a] <= now BY <1>4, DueAttemptsHas
  <2>2. \A y \in Executors : Claimable \cap work[y].held = {} BY DEF Claimable
  <2>. QED BY <1>1, <1>5, <1>6, <1>11, <2>1, <2>2 DEF LocksAreDue
<1>13. ASSUME ~ slipped' PROVE OneMoment'
  <2>1. OneMoment /\ (x = Poller => ~ Awaited) BY <1>1, <1>13
  <2>2. Due' = Due BY <1>1, <1>5, SameAhead DEF Due
  <2>3. DueAttempts' = DueAttempts BY <1>1, <1>5 DEF DueAttempts
  <2>4. ASSUME NEW e \in Drivers, pc'[e] \in {"deliver", "mark"} PROVE Listed(e)'
    <3>1. Listed(e) /\ todo'[e] = todo[e] BY <1>1, <2>1, <2>4 DEF OneMoment
    <3>2. queue' = queue /\ delivered' = delivered BY <1>1
    <3>. QED BY <1>5, <3>1, <3>2, ListedCarry
  <2>5. \A e \in Drivers : pc'[e] \in {"seek", "correct"} =>
                             pc[e] \in {"seek", "correct"} /\ skipped'[e] = skipped[e]
    BY <1>1, <1>2 DEF Threads
  <2>6. ~ Awaited
    <3>1. CASE x = Poller BY <2>1, <3>1
    <3>2. CASE x # Poller
      <4>1. x \in Drivers /\ pc[x] = "deliver" /\ todo[x] = <<>> BY <3>2 DEF Claim, Executing
      <4>2. Listed(x) BY <2>1, <4>1 DEF OneMoment
      <4>. QED BY <4>1, <4>2, NoRowIsDue
    <3>. QED BY <3>1, <3>2
  <2>7. DueAttempts \subseteq Claimable
    <3>. SUFFICES ASSUME NEW a \in DueAttempts, NEW y \in Executors, a \in work[y].held
                  PROVE  FALSE
      BY DEF Claimable
    <3>1. DueAttempts \subseteq work[y].held BY <2>1 DEF OneMoment, BatchIsAll
    <3>. QED BY <1>1, <3>1 DEF Claimable
  <2>8. Open BY <1>1, <1>4, DueAttemptsHas
  <2>9. BatchIsAll(x)'
    <3>1. Awaited' = Awaited BY <1>1, <1>5 DEF Awaited, DueRows, Cleared
    <3>2. Open' = Open BY <1>1 DEF Open
    <3>3. work'[x] = batch BY <1>11
    <3>. QED BY <1>6, <2>3, <2>6, <2>7, <2>8, <3>1, <3>2, <3>3 DEF BatchIsAll
  <2>10. \A y \in Executors : work'[y].held # {} => (work'[y] = work[y] /\ Open') \/ BatchIsAll(y)'
    <3>1. Open' BY <1>1, <2>8 DEF Open
    <3>. QED BY <1>11, <2>9, <3>1
  <2>11. \A q \in queue' : q.at \in Int BY <1>1 DEF Types
  <2>12. queue' = queue /\ delivered' = delivered /\ clears' = clears /\ ledger' = ledger BY <1>1
  <2>. HIDE DEF ReplayInv
  <2>. QED BY <1>5, <2>1, <2>2, <2>3, <2>4, <2>5, <2>10, <2>11, <2>12, MomentsCarry DEF ReplayInv
<1>. QED BY <1>8, <1>9, <1>10, <1>12, <1>13


LEMMA HandledIs ==
  ASSUME work \in [Executors -> Batches], status \in {"failed"} \cup Closed,
         NEW x \in Executors, NEW a \in Attempts,
         PassOver(x, a) \/ WriteOff(x, a) \/ Refuse(x, a) \/ Present(x, a)
  PROVE  /\ work' \in [Executors -> Batches] /\ \A y \in Executors \ {x} : work'[y] = work[y]
         /\ work'[x].held = work[x].held /\ work'[x].left = work[x].left \ {a}
         /\ work'[x].executed \subseteq work[x].executed \cup {a}
         /\ work'[x].refused \subseteq work[x].refused \cup {a}
         /\ work'[x].seen = IF WriteOff(x, a) THEN "written_off" ELSE Loaded(x)
         /\ PassOver(x, a) => work'[x].executed = work[x].executed
         /\ ~ PassOver(x, a) /\ ~ Refuse(x, a) => work'[x].executed = work[x].executed \cup {a}
         /\ ~ Refuse(x, a) => work'[x].refused = work[x].refused
<1>1. work[x] \in Batches OBVIOUS
<1>2. Loaded(x) \in {"failed"} \cup Closed BY <1>1 DEF Loaded, Batches
<1>3. /\ PassOver(x, a) => ~ WriteOff(x, a) /\ ~ Refuse(x, a) /\ ~ Present(x, a)
      /\ WriteOff(x, a) => ~ Refuse(x, a) /\ ~ Present(x, a)
      /\ Refuse(x, a) => ~ Present(x, a)
  BY DEF PassOver, WriteOff, Refuse, Present
<1>4. PICK b \in Batches :
        /\ work' = [work EXCEPT ![x] = b]
        /\ b.held = work[x].held /\ b.left = work[x].left \ {a}
        /\ b.seen = IF WriteOff(x, a) THEN "written_off" ELSE Loaded(x)
        /\ b.executed = IF PassOver(x, a) \/ Refuse(x, a) THEN work[x].executed
                        ELSE work[x].executed \cup {a}
        /\ b.refused = IF Refuse(x, a) THEN work[x].refused \cup {a} ELSE work[x].refused
  <2>1. CASE PassOver(x, a)
    <3>. DEFINE b == [work[x] EXCEPT !.left = @ \ {a}, !.seen = Loaded(x)]
    <3>1. b \in Batches BY <1>1, <1>2 DEF Batches
    <3>2. /\ b.held = work[x].held /\ b.left = work[x].left \ {a} /\ b.seen = Loaded(x)
          /\ b.executed = work[x].executed /\ b.refused = work[x].refused
      BY <1>1 DEF Batches
    <3>3. work' = [work EXCEPT ![x] = b] BY <2>1 DEF PassOver
    <3>. HIDE DEF b
    <3>. QED BY <1>3, <2>1, <3>1, <3>2, <3>3
  <2>2. CASE WriteOff(x, a)
    <3>. DEFINE b == [work[x] EXCEPT !.left = @ \ {a}, !.seen = "written_off", !.executed = @ \cup {a}]
    <3>1. b \in Batches BY <1>1 DEF Batches, Closed
    <3>2. /\ b.held = work[x].held /\ b.left = work[x].left \ {a} /\ b.seen = "written_off"
          /\ b.executed = work[x].executed \cup {a} /\ b.refused = work[x].refused
      BY <1>1 DEF Batches
    <3>3. work' = [work EXCEPT ![x] = b] BY <2>2 DEF WriteOff
    <3>. HIDE DEF b
    <3>. QED BY <1>3, <2>2, <3>1, <3>2, <3>3
  <2>3. CASE Refuse(x, a)
    <3>. DEFINE b == [work[x] EXCEPT !.left = @ \ {a}, !.seen = Loaded(x), !.refused = @ \cup {a}]
    <3>1. b \in Batches BY <1>1, <1>2 DEF Batches
    <3>2. /\ b.held = work[x].held /\ b.left = work[x].left \ {a} /\ b.seen = Loaded(x)
          /\ b.executed = work[x].executed /\ b.refused = work[x].refused \cup {a}
      BY <1>1 DEF Batches
    <3>3. work' = [work EXCEPT ![x] = b] BY <2>3 DEF Refuse
    <3>. HIDE DEF b
    <3>. QED BY <1>3, <2>3, <3>1, <3>2, <3>3
  <2>4. CASE Present(x, a)
    <3>. DEFINE b == [work[x] EXCEPT !.left = @ \ {a}, !.seen = Loaded(x), !.executed = @ \cup {a}]
    <3>1. b \in Batches BY <1>1, <1>2 DEF Batches
    <3>2. /\ b.held = work[x].held /\ b.left = work[x].left \ {a} /\ b.seen = Loaded(x)
          /\ b.executed = work[x].executed \cup {a} /\ b.refused = work[x].refused
      BY <1>1 DEF Batches
    <3>3. work' = [work EXCEPT ![x] = b] BY <2>4 DEF Present
    <3>. HIDE DEF b
    <3>. QED BY <1>3, <2>4, <3>1, <3>2, <3>3
  <2>. QED BY <2>1, <2>2, <2>3, <2>4
<1>5. work'[x] = b /\ work' \in [Executors -> Batches] /\ \A y \in Executors \ {x} : work'[y] = work[y]
  BY <1>4
<1>. QED BY <1>4, <1>5

LEMMA HandleKeeps ==
  ASSUME ReplayInv, NEW x \in Executors, Handle(x)
  PROVE  ReplayInv'
<1>. USE DEF ReplayInv
<1>1. PICK a \in work[x].left :
         PassOver(x, a) \/ WriteOff(x, a) \/ Refuse(x, a) \/ Present(x, a)
  BY DEF Handle, Earliest
<1>2. UNCHANGED <<real, offset, delivered, ledger, status, row, clears, pc, target, goal, todo,
                  landed, skipped, reached, slipped>>
  BY DEF Handle, request
<1>3. work[x] \in Batches /\ a \in work[x].held /\ a \in Attempts
      /\ row[a] = "scheduled" /\ Time[a] <= now
  <2>1. work[x] \in Batches BY DEF Types
  <2>. QED BY <1>1, <2>1 DEF LocksAreDue, Batches
<1>4. work' \in [Executors -> Batches] /\ \A y \in Executors \ {x} : work'[y] = work[y]
  BY <1>1, <1>3, HandledIs DEF Types
<1>. DEFINE batch == work'[x]
<1>5. /\ batch.held = work[x].held /\ batch.left = work[x].left \ {a}
      /\ batch.executed \subseteq work[x].executed \cup {a}
      /\ batch.refused \subseteq work[x].refused \cup {a}
      /\ batch.seen = IF WriteOff(x, a) THEN "written_off" ELSE Loaded(x)
      /\ PassOver(x, a) => batch.executed = work[x].executed
      /\ ~ PassOver(x, a) /\ ~ Refuse(x, a) => batch.executed = work[x].executed \cup {a}
      /\ ~ Refuse(x, a) => batch.refused = work[x].refused
  BY <1>1, <1>3, HandledIs DEF Types
<1>. HIDE DEF batch
<1>6. now' = now /\ now \in Int BY <1>2 DEF now, Types
<1>7. queue \subseteq queue' /\ \A q \in queue' \ queue : Present(x, a) /\ q = Settles(a, Executed)
  BY <1>1 DEF PassOver, WriteOff, Refuse, Present
<1>8. Time[a] \in Nat /\ Settlement \in Nat /\ Settlement # 0 BY <1>3, ReplayAssumption
<1>9. IsFiniteSet(queue') /\ \A q \in queue' : q.at \in Int
  <2>1. queue' = queue \/ queue' = queue \cup {Settles(a, Executed)}
    BY <1>1 DEF PassOver, WriteOff, Refuse, Present
  <2>2. IsFiniteSet(queue \cup {Settles(a, Executed)}) BY FS_AddElement DEF Types
  <2>3. Settles(a, Executed).at \in Int BY <1>8 DEF Settles
  <2>. QED BY <2>1, <2>2, <2>3 DEF Types
<1>10. Types' BY <1>2, <1>4, <1>9 DEF Types
<1>11. ClockForward' BY <1>2, <1>6 DEF ClockForward
<1>12. ListsAreDue'
  <2>1. \A e \in Threads : todo[e] \in Seq(queue') BY <1>7, SeqGrows DEF ListsAreDue
  <2>. QED BY <1>2, <1>6, <2>1 DEF ListsAreDue
<1>13. LocksAreDue'
  <2>1. UNION {batch.left, batch.executed, batch.refused} \subseteq batch.held
    BY <1>3, <1>5 DEF LocksAreDue
  <2>2. \A y \in Executors : work'[y].held = work[y].held BY <1>4, <1>5 DEF batch
  <2>3. \A y \in Executors :
          UNION {work'[y].left, work'[y].executed, work'[y].refused} \subseteq work'[y].held
    BY <1>4, <2>1 DEF LocksAreDue, batch
  <2>. QED BY <1>2, <1>6, <2>2, <2>3 DEF LocksAreDue
<1>14. ASSUME ~ slipped' PROVE OneMoment'
  <2>1. OneMoment /\ BatchIsAll(x) BY <1>2, <1>3, <1>14 DEF OneMoment
  <2>2. Open /\ status = "failed" BY <2>1 DEF BatchIsAll, Open, Types
  <2>3. \A q \in queue' \ queue : q.at > now
    <3>. SUFFICES ASSUME Present(x, a) PROVE Time[a] + Settlement > now BY <1>7 DEF Settles
    <3>1. Kind[a] = "retry" BY DEF Present
    <3>2. Time[a] \in Due BY <1>3, <2>2, AheadHas DEF Due
    <3>3. Time[a] + Settlement \in Ahead BY <1>3, <2>2, <3>1, AheadHas
    <3>. QED BY <1>6, <1>8, <2>1, <3>2, <3>3 DEF Due, OneMoment
  <2>4. \A q \in queue' \ delivered' : q.at <= now' => q \in queue \ delivered /\ q.at <= now
    BY <1>2, <1>6, <1>9, <2>3
  <2>5. Due' \subseteq Due
    <3>. SUFFICES ASSUME NEW t \in Due' PROVE t \in Due OBVIOUS
    <3>1. t \in Ahead' /\ t <= now BY <1>6 DEF Due
    <3>2. CASE \E q \in queue' \ delivered' : q.event.of # "scenario" /\ t = q.at
      BY <1>6, <2>4, <3>1, <3>2, AheadHas DEF Due
    <3>3. CASE ~ \E q \in queue' \ delivered' : q.event.of # "scenario" /\ t = q.at
      <4>1. Open' = Open BY <1>2 DEF Open
      <4>2. t \in Ahead BY <1>2, <3>1, <3>3, <4>1, AheadHas, AheadHasNext
      <4>. QED BY <3>1, <4>2 DEF Due
    <3>. QED BY <3>2, <3>3
  <2>6. DueAttempts' = DueAttempts BY <1>2, <1>6 DEF DueAttempts
  <2>7. ASSUME NEW e \in Drivers, pc'[e] \in {"deliver", "mark"} PROVE Listed(e)'
    <3>1. Listed(e) /\ todo'[e] = todo[e] BY <1>2, <2>1, <2>7 DEF OneMoment
    <3>. QED BY <2>4, <3>1, ListedCarry
  <2>8. BatchIsAll(x)'
    <3>1. ASSUME Awaited' PROVE FALSE
      <4>1. PICK q \in queue' \ delivered' : q.at <= now' /\ q.event \notin ledger' /\ Cleared(q.event)
        BY <1>2, <3>1 DEF Awaited, DueRows, Cleared
      <4>2. q \in queue \ delivered /\ q.at <= now BY <2>4, <4>1
      <4>. QED BY <1>2, <2>1, <4>1, <4>2 DEF BatchIsAll, Awaited, DueRows
    <3>2. ~ Refuse(x, a) BY <2>2 DEF Refuse
    <3>3. work'[x] = batch /\ Open' BY <1>2, <2>2 DEF Open, batch
    <3>4. batch.refused = {} BY <1>5, <2>1, <3>2 DEF BatchIsAll
    <3>5. IF \E w \in batch.executed : Kind[w] = "write_off"
          THEN batch.seen = "written_off"
          ELSE /\ batch.seen \in {"unread", "failed"}
               /\ batch.held \subseteq batch.left \cup batch.executed
      <4>1. CASE PassOver(x, a)
        <5>1. ~ WriteOff(x, a) /\ Loaded(x) \in Closed BY <4>1 DEF PassOver, WriteOff
        <5>2. work[x].seen \notin {"unread", "failed"} /\ Loaded(x) = work[x].seen
          BY <2>2, <5>1 DEF Loaded, Closed
        <5>. QED BY <1>5, <2>1, <4>1, <5>1, <5>2 DEF BatchIsAll
      <4>2. CASE WriteOff(x, a)
        <5>1. ~ PassOver(x, a) /\ Kind[a] = "write_off" BY <4>2 DEF PassOver, WriteOff
        <5>. QED BY <1>5, <3>2, <4>2, <5>1
      <4>3. CASE Present(x, a)
        <5>1. ~ PassOver(x, a) /\ ~ WriteOff(x, a) /\ Kind[a] # "write_off" /\ Loaded(x) \notin Closed
          BY <4>3 DEF PassOver, WriteOff, Present
        <5>2. work[x].seen \in {"unread", "failed"} /\ Loaded(x) = "failed"
          BY <1>3, <2>2, <5>1 DEF Loaded, Batches
        <5>3. /\ ~ \E w \in work[x].executed : Kind[w] = "write_off"
              /\ work[x].held \subseteq work[x].left \cup work[x].executed
          BY <2>1, <5>2 DEF BatchIsAll
        <5>. QED BY <1>5, <3>2, <5>1, <5>2, <5>3
      <4>. QED BY <1>1, <3>2, <4>1, <4>2, <4>3
    <3>6. DueAttempts' \subseteq batch.held BY <1>5, <2>1, <2>6 DEF BatchIsAll
    <3>. QED BY <3>1, <3>3, <3>4, <3>5, <3>6 DEF BatchIsAll
  <2>9. \A y \in Executors : work'[y].held # {} => (work'[y] = work[y] /\ Open') \/ BatchIsAll(y)'
    <3>1. Open' BY <1>2, <2>2 DEF Open
    <3>. QED BY <1>4, <2>8, <3>1
  <2>. HIDE DEF ReplayInv
  <2>. QED BY <1>2, <1>6, <1>9, <2>1, <2>4, <2>5, <2>6, <2>7, <2>9, MomentsCarry DEF ReplayInv
<1>. QED BY <1>10, <1>11, <1>12, <1>13, <1>14

LEMMA EndRoundIs ==
  ASSUME Types, NEW d \in Drivers, NEW ran, EndRound(d, ran), pc[d] = "deliver"
  PROVE  /\ pc' \in [Threads -> Pcs]
         /\ \A e \in Threads \ {d} : pc'[e] = pc[e]
         /\ pc'[d] \in {"select", "seek", "correct"} /\ (pc'[d] = "correct" => landed[d])
         /\ \A c \in Callers : pc'[c] \notin {"seek", "correct"}
<1>1. PICK p \in {"select", "correct", "seek"} :
         pc' = [pc EXCEPT ![d] = p] /\ (p = "correct" => landed[d])
  BY EndRoundMoves
<1>2. d \in Threads /\ d \notin Callers BY ReplayAssumption DEF Threads
<1>. QED BY <1>1, <1>2 DEF Types, Pcs, Threads

LEMMA CommitKeeps ==
  ASSUME ReplayInv, NEW x \in Executors, Commit(x)
  PROVE  ReplayInv'
<1>. USE DEF ReplayInv
<1>1. /\ work[x].held # {} /\ work[x].left = {} /\ RolledBack({x})
      /\ row' = [a \in Attempts |-> IF a \in work[x].executed THEN "executed"
                                   ELSE IF a \in work[x].refused THEN "failed" ELSE row[a]]
      /\ status' = IF \E a \in work[x].executed : Kind[a] = "write_off" THEN "written_off" ELSE status
      /\ UNCHANGED <<real, offset, queue, delivered, ledger, clears, target, goal, todo, landed,
                     skipped, reached, slipped>>
  BY DEF Commit
<1>2. work[x] \in Batches BY DEF Types
<1>3. now' = now /\ now \in Int BY <1>1 DEF now, Types
<1>4. \A d \in Drivers : d \in Threads BY DEF Threads
<1>6. /\ pc' \in [Threads -> Pcs]
      /\ \A e \in Threads : pc'[e] = pc[e] \/ (e = x /\ x \in Drivers /\ pc[e] = "deliver" /\ todo[e] = <<>>)
      /\ \A e \in Threads : pc'[e] # pc[e] =>
           pc'[e] \in {"select", "seek", "correct"} /\ (pc'[e] = "correct" => landed[e])
      /\ \A c \in Callers : pc'[c] \notin {"seek", "correct"}
  <2>1. CASE x = Poller BY <2>1 DEF Commit, Types
  <2>2. CASE x # Poller
    <3>1. x \in Drivers /\ pc[x] = "deliver" /\ todo[x] = <<>> BY <2>2 DEF Commit, Executing
    <3>2. EndRound(x, work[x].executed \cup work[x].refused # {}) BY <2>2 DEF Commit
    <3>. QED BY <3>1, <3>2, EndRoundIs
  <2>. QED BY <2>1, <2>2
<1>7. Types'
  <2>1. row' \in [Attempts -> {"scheduled", "executed", "failed"}] BY <1>1 DEF Types
  <2>2. status' \in {"failed"} \cup Closed BY <1>1 DEF Types, Closed
  <2>. QED BY <1>1, <1>6, <2>1, <2>2, RolledBackIs DEF Types
<1>8. ClockForward' BY <1>1, <1>3, <1>4, <1>6 DEF ClockForward
<1>9. ListsAreDue' BY <1>1, <1>3, <1>6 DEF ListsAreDue
<1>10. work'[x] = NoBatch /\ \A y \in Executors \ {x} : work'[y] = work[y]
  BY <1>1, RolledBackIs
<1>11. LocksAreDue'
  <2>1. \A y \in Executors \ {x} : \A a \in work[y].held : row'[a] = row[a]
    BY <1>1 DEF LocksAreDue, Types, Batches
  <2>. QED BY <1>1, <1>3, <1>10, <2>1 DEF LocksAreDue, NoBatch
<1>12. ASSUME ~ slipped' PROVE OneMoment'
  <2>1. OneMoment /\ BatchIsAll(x) /\ Open BY <1>1, <1>12 DEF OneMoment, BatchIsAll
  <2>2. \A a \in Attempts : row'[a] = "scheduled" => row[a] = "scheduled" BY <1>1
  <2>3. Due' \subseteq Due
    <3>1. Ahead' \subseteq Ahead BY <1>1, <2>1, <2>2, AheadHas, AheadHasNext
    <3>. QED BY <1>3, <3>1 DEF Due
  <2>4. DueAttempts' \subseteq DueAttempts BY <1>3, <2>1, <2>2, DueAttemptsHas
  <2>5. \A y \in Executors : work'[y].held = {}
    <3>. SUFFICES ASSUME NEW y \in Executors \ {x}, work[y].held # {} PROVE FALSE
      BY <1>10 DEF NoBatch
    <3>1. PICK a \in work[x].held : TRUE BY <1>1
    <3>2. a \in DueAttempts BY <1>2, <2>1, DueAttemptsHas DEF LocksAreDue, Batches
    <3>3. a \in work[y].held BY <2>1, <3>2 DEF OneMoment, BatchIsAll
    <3>. QED BY <3>3 DEF LocksAreDue
  <2>6. ASSUME NEW e \in Drivers, pc'[e] \in {"seek", "correct"}, pc[e] \notin {"seek", "correct"}
        PROVE  NothingLeft(e)'
    <3>1. pc[e] = "deliver" /\ todo[e] = <<>> BY <1>4, <1>6, <2>6
    <3>2. Listed(e) BY <2>1, <3>1 DEF OneMoment
    <3>3. \A q \in queue' \ delivered' : q.event.of # "scenario" => q.at > now'
      BY <1>1, <1>3, <3>1, <3>2, NoRowIsDue
    <3>4. DueAttempts' = {}
      <4>. SUFFICES ASSUME NEW a \in DueAttempts' PROVE FALSE OBVIOUS
      <4>1. Open' /\ a \in Attempts /\ row'[a] = "scheduled" BY DueAttemptsHas
      <4>2. ~ \E w \in work[x].executed : Kind[w] = "write_off"
        BY <1>1, <4>1 DEF Open, Closed
      <4>3. a \in work[x].held BY <2>1, <2>4 DEF BatchIsAll
      <4>4. a \in work[x].executed BY <1>1, <2>1, <4>2, <4>3 DEF BatchIsAll
      <4>. QED BY <1>1, <4>1, <4>4
    <3>. QED BY <3>3, <3>4 DEF NothingLeft
  <2>7. \A e \in Drivers : pc'[e] \in {"seek", "correct"} =>
          NothingLeft(e)' \/ (pc[e] \in {"seek", "correct"} /\ skipped'[e] = skipped[e])
    BY <1>1, <2>6
  <2>8. ASSUME NEW e \in Drivers, pc'[e] \in {"deliver", "mark"} PROVE Listed(e)'
    <3>1. pc[e] \in {"deliver", "mark"} BY <1>4, <1>6, <2>8
    <3>2. Listed(e) /\ todo'[e] = todo[e] BY <1>1, <2>1, <3>1 DEF OneMoment
    <3>3. queue' = queue /\ delivered' = delivered BY <1>1
    <3>. QED BY <1>3, <3>2, <3>3, ListedCarry
  <2>9. \A q \in queue' : q.at \in Int BY <1>1 DEF Types
  <2>10. \A y \in Executors : work'[y].held # {} => (work'[y] = work[y] /\ Open') \/ BatchIsAll(y)'
    BY <2>5
  <2>11. queue' = queue /\ delivered' = delivered /\ clears' = clears /\ ledger' = ledger BY <1>1
  <2>. HIDE DEF ReplayInv
  <2>. QED BY <1>3, <2>1, <2>3, <2>4, <2>7, <2>8, <2>9, <2>10, <2>11, MomentsCarry DEF ReplayInv
<1>. QED BY <1>7, <1>8, <1>9, <1>11, <1>12

LEMMA NothingToDoKeeps ==
  ASSUME ReplayInv, NEW d \in Threads, NothingToDo(d)
  PROVE  ReplayInv'
<1>. USE DEF ReplayInv
<1>1. /\ d \in Drivers /\ pc[d] = "deliver" /\ todo[d] = <<>> /\ EndRound(d, FALSE)
      /\ skipped' = [skipped EXCEPT ![d] = DueAttempts]
      /\ UNCHANGED <<real, offset, queue, delivered, ledger, status, row, work, clears, target,
                     goal, todo, landed, reached, slipped>>
  BY ReplayAssumption DEF NothingToDo, Executing, story
<1>2. /\ pc' \in [Threads -> Pcs]
      /\ \A e \in Threads \ {d} : pc'[e] = pc[e]
      /\ pc'[d] \in {"select", "seek", "correct"} /\ (pc'[d] = "correct" => landed[d])
      /\ \A c \in Callers : pc'[c] \notin {"seek", "correct"}
  BY <1>1, EndRoundIs
<1>3. now' = now /\ now \in Int BY <1>1 DEF now, Types
<1>4. Types' BY <1>1, <1>2 DEF Types
<1>5. ClockForward' BY <1>1, <1>2, <1>3 DEF ClockForward, Threads
<1>6. ListsAreDue' BY <1>1, <1>2, <1>3 DEF ListsAreDue
<1>7. LocksAreDue' BY <1>1, <1>3, LocksCarry
<1>8. ASSUME ~ slipped' PROVE OneMoment'
  <2>1. OneMoment BY <1>1, <1>8
  <2>2. Due' = Due BY <1>1, <1>3, SameAhead DEF Due
  <2>3. DueAttempts' = DueAttempts BY <1>1, <1>3 DEF DueAttempts
  <2>4. NothingLeft(d)'
    <3>1. Listed(d) BY <1>1, <2>1 DEF OneMoment
    <3>2. \A q \in queue' \ delivered' : q.event.of # "scenario" => q.at > now'
      BY <1>1, <1>3, <3>1, NoRowIsDue
    <3>3. skipped'[d] = DueAttempts BY <1>1 DEF Types
    <3>. QED BY <2>3, <3>2, <3>3 DEF NothingLeft
  <2>5. ASSUME NEW e \in Drivers, pc'[e] \in {"seek", "correct"}
        PROVE  NothingLeft(e)' \/ (pc[e] \in {"seek", "correct"} /\ skipped'[e] = skipped[e])
    <3>1. CASE e = d BY <2>4, <3>1
    <3>2. CASE e # d BY <1>1, <1>2, <2>5, <3>2 DEF Types, Threads
    <3>. QED BY <3>1, <3>2
  <2>6. ASSUME NEW e \in Drivers, pc'[e] \in {"deliver", "mark"} PROVE Listed(e)'
    <3>1. pc[e] \in {"deliver", "mark"} BY <1>1, <1>2, <2>6 DEF Threads
    <3>2. Listed(e) /\ todo'[e] = todo[e] BY <1>1, <2>1, <3>1 DEF OneMoment
    <3>3. queue' = queue /\ delivered' = delivered BY <1>1
    <3>. QED BY <1>3, <3>2, <3>3, ListedCarry
  <2>7. \A x \in Executors : work'[x].held # {} => work'[x] = work[x] /\ Open'
    BY <1>1, <2>1 DEF OneMoment, BatchIsAll, Open
  <2>8. \A q \in queue' : q.at \in Int BY <1>1 DEF Types
  <2>. HIDE DEF ReplayInv
  <2>. QED BY <1>1, <1>3, <2>1, <2>2, <2>3, <2>5, <2>6, <2>7, <2>8, MomentsCarry DEF ReplayInv
<1>. QED BY <1>4, <1>5, <1>6, <1>7, <1>8

-----------------------------------------------------------------------------
(* Moves of the clock. *)
LEMMA PassesNone ==
  ASSUME Types, now' \in Int, now <= now', UNCHANGED <<queue, delivered, status, row>>,
         ~ Passes(now, now')
  PROVE  /\ Due' \subseteq Due /\ DueAttempts' \subseteq DueAttempts
         /\ \A q \in queue' \ delivered' : q.event.of # "scenario" /\ q.at <= now' =>
                                             q \in queue \ delivered /\ q.at <= now
<1>1. Ahead' = Ahead BY SameAhead
<1>2. Ahead \subseteq Int BY AheadTyped
<1>3. now \in Int BY DEF Types, now
<1>4. \A t \in Ahead : t <= now' => t <= now BY <1>2, <1>3 DEF Passes
<1>5. Due' \subseteq Due BY <1>1, <1>4 DEF Due
<1>6. DueAttempts' \subseteq DueAttempts
  <2>. SUFFICES ASSUME NEW a \in DueAttempts' PROVE a \in DueAttempts OBVIOUS
  <2>1. Open' /\ a \in Attempts /\ row'[a] = "scheduled" /\ Time[a] <= now' BY DueAttemptsHas
  <2>2. Open BY <2>1 DEF Open
  <2>3. Time[a] \in Ahead BY <2>1, <2>2, AheadHas
  <2>. QED BY <1>4, <2>1, <2>2, <2>3, DueAttemptsHas
<1>7. \A q \in queue \ delivered : q.event.of # "scenario" => q.at \in Ahead BY AheadHas
<1>. QED BY <1>4, <1>5, <1>6, <1>7

(* A step that moves the clock past no moment, and starts no listing. *)
LEMMA SteadyMoments ==
  ASSUME ReplayInv, ~ slipped, now' \in Int, now <= now', ~ Passes(now, now'),
         UNCHANGED <<queue, delivered, ledger, status, row, work, clears>>,
         \A e \in Drivers : pc'[e] \in {"seek", "correct"} =>
                              pc[e] \in {"seek", "correct"} /\ skipped'[e] = skipped[e],
         \A e \in Drivers : pc'[e] \in {"deliver", "mark"} =>
                              pc[e] \in {"deliver", "mark"} /\ todo'[e] = todo[e]
  PROVE  OneMoment'
<1>1. OneMoment /\ Types BY DEF ReplayInv
<1>2. /\ Due' \subseteq Due /\ DueAttempts' \subseteq DueAttempts
      /\ \A q \in queue' \ delivered' : q.event.of # "scenario" /\ q.at <= now' =>
                                          q \in queue \ delivered /\ q.at <= now
  BY <1>1, PassesNone
<1>3. \A e \in Drivers : pc'[e] \in {"deliver", "mark"} => Listed(e)'
  BY <1>1, <1>2, ListedCarry DEF OneMoment
<1>4. \A x \in Executors : work'[x].held # {} => work'[x] = work[x] /\ Open'
  BY <1>1 DEF OneMoment, BatchIsAll, Open
<1>5. \A q \in queue' : q.at \in Int BY <1>1 DEF Types
<1>. QED BY <1>1, <1>2, <1>3, <1>4, <1>5, MomentsCarry

LEMMA ListsLater ==
  ASSUME Types, ListsAreDue, now' \in Int, now <= now', UNCHANGED queue,
         todo' \in [Threads -> Seq(queue)],
         \A e \in Threads : todo'[e] = todo[e] \/ todo'[e] = <<>>,
         \A e \in Threads : pc'[e] = "mark" => todo'[e] # <<>>
  PROVE  ListsAreDue'
<1>1. ASSUME NEW e \in Threads, NEW i \in 1..Len(todo'[e]) PROVE todo'[e][i].at <= now'
  <2>1. Len(<<>>) = 0 /\ 1..0 = {} OBVIOUS
  <2>2. todo'[e] = todo[e] BY <2>1
  <2>3. todo[e][i] \in queue /\ todo[e][i].at <= now BY <2>2 DEF ListsAreDue
  <2>4. now \in Int /\ todo[e][i].at \in Int BY <2>3 DEF Types, now
  <2>. QED BY <2>2, <2>3, <2>4
<1>. QED BY <1>1 DEF ListsAreDue

LEMMA HopKeeps ==
  ASSUME SoleDriver, ReplayInv, NEW d \in Threads, Hop(d)
  PROVE  ReplayInv'
<1>. USE DEF ReplayInv
<1>1. PICK t \in Moments(d) : (\A u \in Moments(d) : t <= u) /\ MoveTo(d, t) BY DEF Hop
<1>2. /\ pc[d] = "seek" /\ pc' = [pc EXCEPT ![d] = "select"]
      /\ offset' = offset + (t - now) /\ reached' = Later(t)
      /\ slipped' = (slipped \/ Due # {})
      /\ UNCHANGED <<real, queue, delivered, ledger, status, row, work, clears, target, goal,
                     landed, todo, skipped>>
  BY <1>1 DEF Hop, MoveTo, story
<1>3. d \in Drivers BY <1>2 DEF Types, Threads
<1>4. t \in Times /\ now < t /\ t <= target[d] BY <1>1 DEF Moments
<1>5. t \in Int BY <1>4, ReplayAssumption DEF Times, Types
<1>6. now \in Int /\ real \in Nat /\ offset \in Nat /\ reached \in Int /\ now = real + offset
      /\ target[d] \in Int /\ goal[d] \in Int
  BY DEF Types, now
<1>7. now' = t /\ offset' \in Nat /\ offset <= offset' /\ offset' <= goal[d]
  <2>1. now' = t BY <1>2, <1>5, <1>6 DEF now
  <2>2. target[d] <= real + goal[d] BY <1>2, <1>3 DEF ClockForward
  <2>. QED BY <1>2, <1>4, <1>5, <1>6, <2>1, <2>2
<1>8. reached' \in Int /\ t <= reached' BY <1>2, <1>5, <1>6 DEF Later
<1>9. Types' BY <1>2, <1>7, <1>8 DEF Types, Pcs
<1>10. \A e \in Drivers : e = d BY <1>3 DEF SoleDriver
<1>11. ClockForward'
  <2>1. pc'[d] = "select" BY <1>2 DEF Types
  <2>2. target[d] <= real + goal[d] /\ (landed[d] => target[d] <= now)
    BY <1>2, <1>3 DEF ClockForward
  <2>3. landed[d] => target[d] <= t BY <1>4, <1>5, <1>6, <2>2
  <2>. QED BY <1>2, <1>7, <1>8, <1>10, <2>1, <2>2, <2>3 DEF ClockForward
<1>12. now <= now' /\ now' \in Int BY <1>4, <1>5, <1>6, <1>7
<1>13. ListsAreDue' BY <1>2, <1>12, ListsLater DEF ListsAreDue, Types
<1>14. LocksAreDue' BY <1>2, <1>12, LocksCarry
<1>15. ASSUME ~ slipped' PROVE OneMoment'
  <2>1. Due = {} BY <1>2, <1>15
  <2>2. Ahead' = Ahead BY <1>2, SameAhead
  <2>3. \A u \in Due' : u = t
    <3>. SUFFICES ASSUME NEW u \in Due' PROVE u = t OBVIOUS
    <3>1. u \in Ahead /\ u <= t /\ u \in Int BY <1>7, <2>2, AheadTyped DEF Due
    <3>2. ~ (u <= now) BY <2>1, <3>1 DEF Due
    <3>3. \A v \in Times : now < v /\ v <= target[d] => t <= v BY <1>1 DEF Moments
    <3>4. CASE u \in Times BY <1>4, <1>5, <1>6, <3>1, <3>2, <3>3, <3>4
    <3>5. CASE u \notin Times
      <4>1. PICK a \in Attempts : /\ row[a] = "scheduled" /\ Open
                                  /\ u = Time[a] + Settlement
        BY <3>1, <3>5, AheadHas DEF Times
      <4>2. Time[a] \in Times /\ Time[a] \in Ahead BY <4>1, AheadHas DEF Times
      <4>3. Time[a] \in Nat /\ Settlement \in Nat \ {0} BY ReplayAssumption
      <4>4. now < Time[a] BY <1>6, <2>1, <4>2, <4>3 DEF Due
      <4>. QED BY <1>4, <1>5, <1>6, <3>1, <3>3, <4>1, <4>2, <4>3, <4>4
    <3>. QED BY <3>4, <3>5
  <2>4. \A e \in Drivers : pc'[e] = "select" BY <1>2, <1>10 DEF Types
  <2>5. \A x \in Executors : work'[x].held = {}
    <3>. SUFFICES ASSUME NEW x \in Executors, NEW a \in work[x].held PROVE FALSE BY <1>2
    <3>1. Open BY <1>2, <1>15 DEF OneMoment, BatchIsAll
    <3>2. a \in Attempts /\ row[a] = "scheduled" /\ Time[a] <= now
      BY DEF LocksAreDue, Types, Batches
    <3>3. Time[a] \in Due BY <3>1, <3>2, AheadHas DEF Due
    <3>. QED BY <2>1, <3>3
  <2>. QED BY <2>3, <2>4, <2>5 DEF OneMoment
<1>. QED BY <1>9, <1>11, <1>13, <1>14, <1>15

LEMMA LandKeeps ==
  ASSUME SoleDriver, ReplayInv, NEW d \in Threads, Land(d)
  PROVE  ReplayInv'
<1>. USE DEF ReplayInv
<1>1. /\ pc[d] = "seek" /\ landed' = [landed EXCEPT ![d] = TRUE]
      /\ slipped' = (slipped \/ ((steps[d] = MaxSteps \/ Due # {}) /\ Passes(now, target[d])))
      /\ UNCHANGED <<real, queue, delivered, ledger, status, row, work, clears, target, goal,
                     todo, skipped>>
  BY DEF Land, story
<1>2. d \in Drivers BY <1>1 DEF Types, Threads
<1>3. \A e \in Drivers : e = d BY <1>2 DEF SoleDriver
<1>4. now \in Int /\ real \in Nat /\ offset \in Nat /\ reached \in Int /\ now = real + offset
      /\ target[d] \in Int /\ goal[d] \in Int /\ target[d] <= real + goal[d] /\ offset <= goal[d]
  BY <1>1, <1>2 DEF Types, now, ClockForward
<1>5. PICK p \in {"select", "correct"} :
        /\ pc' = [pc EXCEPT ![d] = p]
        /\ \/ /\ p = "select" /\ target[d] > now
              /\ offset' = offset + (target[d] - now) /\ reached' = Later(target[d])
           \/ /\ p = "correct" /\ target[d] <= now /\ UNCHANGED <<offset, reached>>
  BY <1>4 DEF Land, MoveTo
<1>6. /\ offset' \in Nat /\ offset' <= goal[d] /\ reached' \in Int /\ now' <= reached'
      /\ now <= now' /\ target[d] <= now' /\ now' \in Int /\ (p = "select" => now' = target[d])
      /\ (p = "correct" => now' = now)
  <2>1. now <= reached BY DEF ClockForward
  <2>. QED BY <1>1, <1>4, <1>5, <2>1 DEF now, Later
<1>7. Types'
  <2>1. \A c \in Callers : pc'[c] \notin {"seek", "correct"}
    BY <1>2, <1>5, ReplayAssumption DEF Types, Threads
  <2>. QED BY <1>1, <1>5, <1>6, <2>1 DEF Types, Pcs
<1>8. ClockForward'
  <2>1. \A e \in Drivers : offset' <= goal'[e] /\ target'[e] <= real' + goal'[e] /\ target'[e] <= now'
    BY <1>1, <1>3, <1>4, <1>6
  <2>. QED BY <1>6, <2>1 DEF ClockForward
<1>9. ListsAreDue' BY <1>1, <1>5, <1>6, ListsLater DEF ListsAreDue, Types
<1>10. LocksAreDue' BY <1>1, <1>6, LocksCarry
<1>11. ASSUME ~ slipped' PROVE OneMoment'
  <2>1. ~ Passes(now, now')
    <3>. SUFFICES ASSUME NEW u \in Ahead, now < u, u <= now' PROVE FALSE BY DEF Passes
    <3>1. p = "select" /\ u <= target[d] /\ u \in Int BY <1>4, <1>5, <1>6, AheadTyped
    <3>2. steps[d] # MaxSteps /\ Due = {} BY <1>1, <1>11, <3>1 DEF Passes
    <3>3. Moments(d) = {} BY <3>2 DEF Land
    <3>4. u \notin Times BY <3>1, <3>3 DEF Moments
    <3>5. PICK a \in Attempts : /\ row[a] = "scheduled" /\ Open
                                /\ u = Time[a] + Settlement
      BY <3>4, AheadHas DEF Times
    <3>6. Time[a] \in Times /\ Time[a] \in Ahead BY <3>5, AheadHas DEF Times
    <3>7. Time[a] \in Nat /\ Settlement \in Nat BY ReplayAssumption
    <3>8. now < Time[a] BY <1>4, <3>2, <3>6, <3>7 DEF Due
    <3>9. Time[a] <= target[d] BY <1>4, <3>1, <3>5, <3>7
    <3>. QED BY <3>3, <3>6, <3>8, <3>9 DEF Moments
  <2>2. \A e \in Drivers : pc'[e] \in {"seek", "correct"} => pc[e] = "seek" /\ skipped'[e] = skipped[e]
    BY <1>1, <1>3
  <2>3. \A e \in Drivers : pc'[e] \notin {"deliver", "mark"} BY <1>3, <1>5 DEF Types
  <2>4. ~ slipped BY <1>1, <1>11
  <2>. HIDE DEF ReplayInv
  <2>. QED BY <1>1, <1>6, <2>1, <2>2, <2>3, <2>4, SteadyMoments
<1>. QED BY <1>7, <1>8, <1>9, <1>10, <1>11

LEMMA ReturnKeeps ==
  ASSUME SoleDriver, ReplayInv, NEW d \in Threads, Return(d)
  PROVE  ReplayInv'
<1>. USE DEF ReplayInv
<1>1. /\ pc[d] = "correct" /\ offset' = goal[d] /\ reached' = Later(real + goal[d])
      /\ slipped' = (slipped \/ Passes(now, real + goal[d]))
      /\ UNCHANGED <<real, queue, delivered, ledger, status, row, work, clears>> /\ Ended({d})
  BY DEF Return, Corrected, story
<1>2. d \in Drivers BY <1>1 DEF Types, Threads
<1>3. \A e \in Drivers : e = d BY <1>2 DEF SoleDriver
<1>4. now \in Int /\ real \in Nat /\ offset \in Nat /\ reached \in Int /\ now = real + offset
      /\ goal[d] \in Int /\ offset <= goal[d] /\ now <= reached
  BY <1>1, <1>2 DEF Types, now, ClockForward
<1>5. /\ offset' \in Nat /\ reached' \in Int /\ now' = real + goal[d] /\ now' <= reached'
      /\ now <= now' /\ now' \in Int
  BY <1>1, <1>4 DEF now, Later
<1>6. \A e \in Threads : \/ pc'[e] = "idle" /\ todo'[e] = <<>>
                         \/ pc'[e] = pc[e] /\ todo'[e] = todo[e]
  BY <1>1, EndedIs
<1>7. \A e \in Drivers : pc'[e] = "idle" BY <1>1, <1>3, EndedIs DEF Threads
<1>8. Types'
  <2>1. \A e \in Callers : pc'[e] \notin {"seek", "correct"} BY <1>6 DEF Types, Threads
  <2>. QED BY <1>1, <1>5, <2>1, EndedIs DEF Types
<1>9. ClockForward' BY <1>5, <1>7 DEF ClockForward
<1>10. ListsAreDue'
  <2>1. todo' \in [Threads -> Seq(queue)] /\ UNCHANGED queue BY <1>1, EndedIs
  <2>2. \A e \in Threads : todo'[e] = todo[e] \/ todo'[e] = <<>> BY <1>6
  <2>3. \A e \in Threads : pc'[e] = "mark" => todo'[e] # <<>> BY <1>6 DEF ListsAreDue
  <2>. QED BY <1>5, <2>1, <2>2, <2>3, ListsLater
<1>11. LocksAreDue' BY <1>1, <1>5, LocksCarry
<1>12. ASSUME ~ slipped' PROVE OneMoment'
  <2>1. ~ slipped /\ ~ Passes(now, now') BY <1>1, <1>5, <1>12
  <2>. HIDE DEF ReplayInv
  <2>. QED BY <1>1, <1>5, <1>7, <2>1, SteadyMoments
<1>. QED BY <1>8, <1>9, <1>10, <1>11, <1>12

LEMMA FastForwardKeeps ==
  ASSUME SoleDriver, ReplayInv, NEW d \in Drivers, NEW seconds \in Leaps, FastForward(d, seconds)
  PROVE  ReplayInv'
<1>. USE DEF ReplayInv
<1>1. /\ pc[d] = "idle" /\ pc' = [pc EXCEPT ![d] = "select"]
      /\ goal' = [goal EXCEPT ![d] = offset + seconds]
      /\ target' = [target EXCEPT ![d] = now + seconds]
      /\ landed' = [landed EXCEPT ![d] = FALSE] /\ skipped' = [skipped EXCEPT ![d] = {}]
      /\ UNCHANGED <<real, offset, queue, delivered, ledger, status, row, work, clears, todo,
                     reached, slipped>>
  BY DEF FastForward, story
<1>2. seconds \in Nat BY ReplayAssumption
<1>3. \A e \in Drivers : e = d BY DEF SoleDriver
<1>4. d \in Threads /\ d \notin Callers BY ReplayAssumption DEF Threads
<1>5. now \in Int /\ real \in Nat /\ offset \in Nat /\ now = real + offset /\ now' = now
  BY <1>1 DEF Types, now
<1>6. Types' BY <1>1, <1>2, <1>4, <1>5 DEF Types, Pcs
<1>7. ClockForward'
  <2>1. /\ goal'[d] = offset + seconds /\ target'[d] = now + seconds
        /\ landed'[d] = FALSE /\ pc'[d] = "select"
    BY <1>1, <1>4 DEF Types
  <2>. QED BY <1>1, <1>2, <1>3, <1>5, <2>1 DEF ClockForward
<1>8. ListsAreDue' BY <1>1, <1>5 DEF ListsAreDue, Types
<1>9. LocksAreDue' BY <1>1, <1>5, LocksCarry
<1>10. ASSUME ~ slipped' PROVE OneMoment'
  <2>1. ~ slipped /\ ~ Passes(now, now') BY <1>1, <1>5, <1>10, AheadTyped DEF Passes
  <2>2. \A e \in Drivers : pc'[e] = "select" BY <1>1, <1>3, <1>4 DEF Types
  <2>. HIDE DEF ReplayInv
  <2>. QED BY <1>1, <1>5, <2>1, <2>2, SteadyMoments
<1>. QED BY <1>6, <1>7, <1>8, <1>9, <1>10

LEMMA CreateScenarioKeeps ==
  ASSUME ReplayInv, NEW c \in Callers, NEW delay \in Delays, CreateScenario(c, delay)
  PROVE  ReplayInv'
<1>. USE DEF ReplayInv
<1>. DEFINE q0 == [event |-> Scenario, number |-> 1, at |-> now + delay]
<1>1. /\ queue' = queue \cup {q0} /\ pc[c] = "idle"
      /\ UNCHANGED <<real, offset, delivered, ledger, status, row, work, clears, target, goal,
                     todo, landed, skipped, reached, slipped>>
  BY DEF CreateScenario
<1>2. PICK p \in {"select", "idle"} : pc' = [pc EXCEPT ![c] = p] BY DEF CreateScenario
<1>3. c \in Threads /\ c \notin Drivers BY ReplayAssumption DEF Threads
<1>4. now \in Int /\ now' = now /\ delay \in Nat BY <1>1, ReplayAssumption DEF Types, now
<1>5. q0.event.of = "scenario" /\ q0.at \in Int BY <1>4 DEF Scenario
<1>. HIDE DEF q0
<1>6. Types'
  <2>1. IsFiniteSet(queue') BY <1>1, FS_AddElement DEF Types
  <2>2. \A q \in queue' : q.at \in Int BY <1>1, <1>5 DEF Types
  <2>3. pc' \in [Threads -> Pcs] BY <1>2 DEF Types, Pcs
  <2>4. \A e \in Callers : pc'[e] \notin {"seek", "correct"} BY <1>2 DEF Types, Threads
  <2>. QED BY <1>1, <2>1, <2>2, <2>3, <2>4 DEF Types
<1>7. \A e \in Drivers : pc'[e] = pc[e] BY <1>2, <1>3 DEF Types, Threads
<1>8. ClockForward' BY <1>1, <1>4, <1>7 DEF ClockForward
<1>9. ListsAreDue'
  <2>1. \A e \in Threads : todo[e] \in Seq(queue') BY <1>1, SeqGrows DEF ListsAreDue
  <2>. QED BY <1>1, <1>2, <1>4, <2>1 DEF ListsAreDue, Types
<1>10. LocksAreDue' BY <1>1, <1>4, LocksCarry
<1>11. ASSUME ~ slipped' PROVE OneMoment'
  <2>1. OneMoment BY <1>1, <1>11
  <2>2. \A q \in queue' \ delivered' : q.event.of # "scenario" => q \in queue \ delivered
    BY <1>1, <1>5
  <2>3. Ahead' \subseteq Ahead
    <3>1. Open' => Open BY <1>1 DEF Open
    <3>. QED BY <1>1, <2>2, <3>1, AheadHas, AheadHasNext
  <2>4. Due' \subseteq Due BY <1>4, <2>3 DEF Due
  <2>5. DueAttempts' = DueAttempts BY <1>1, <1>4 DEF DueAttempts
  <2>6. \A e \in Drivers : pc'[e] \in {"deliver", "mark"} => Listed(e)'
    BY <1>1, <1>4, <1>7, <2>1, <2>2, ListedCarry DEF OneMoment
  <2>7. \A x \in Executors : work'[x].held # {} => work'[x] = work[x] /\ Open'
    BY <1>1, <2>1 DEF OneMoment, BatchIsAll, Open
  <2>8. \A q \in queue' : q.at \in Int BY <1>6 DEF Types
  <2>. HIDE DEF ReplayInv
  <2>. QED BY <1>1, <1>4, <1>7, <2>1, <2>2, <2>4, <2>5, <2>6, <2>7, <2>8, MomentsCarry
       DEF ReplayInv
<1>. QED BY <1>6, <1>8, <1>9, <1>10, <1>11

LEMMA TickKeeps ==
  ASSUME ReplayInv, Tick
  PROVE  ReplayInv'
<1>. USE DEF ReplayInv
<1>1. /\ real' = real + 1 /\ reached' = Later(now + 1)
      /\ slipped' = (slipped \/ Passes(now, now + 1))
      /\ UNCHANGED <<offset, queue, delivered, ledger, status, row, work, clears, pc, target,
                     goal, todo, landed, skipped>>
  BY DEF Tick, story, request
<1>2. /\ now \in Int /\ real \in Nat /\ offset \in Nat /\ reached \in Int
      /\ now' = now + 1 /\ reached' \in Int /\ now' <= reached' /\ now <= now' /\ now' \in Int
  BY <1>1 DEF Types, now, Later
<1>3. Types' BY <1>1, <1>2 DEF Types
<1>4. ClockForward'
  <2>1. \A d \in Drivers : goal[d] \in Int /\ target[d] \in Int BY DEF Types, Threads
  <2>. QED BY <1>1, <1>2, <2>1 DEF ClockForward
<1>5. ListsAreDue' BY <1>1, <1>2, ListsLater DEF ListsAreDue
<1>6. LocksAreDue' BY <1>1, <1>2, LocksCarry
<1>7. ASSUME ~ slipped' PROVE OneMoment'
  <2>1. ~ slipped /\ ~ Passes(now, now') BY <1>1, <1>2, <1>7
  <2>. HIDE DEF ReplayInv
  <2>. QED BY <1>1, <1>2, <2>1, SteadyMoments
<1>. QED BY <1>3, <1>4, <1>5, <1>6, <1>7

LEMMA RestartKeeps ==
  ASSUME ReplayInv, Restart
  PROVE  ReplayInv'
<1>. USE DEF ReplayInv
<1>1. /\ offset' = 0 /\ slipped' = (slipped \/ \E t \in Ahead : t <= real)
      /\ UNCHANGED <<real, queue, delivered, ledger, status, row, clears, reached>>
      /\ Ended(Threads) /\ RolledBack(Executors)
  BY DEF Restart, story
<1>2. /\ real \in Nat /\ offset \in Nat /\ reached \in Int /\ now = real + offset
      /\ now' = real /\ now <= reached
  BY <1>1 DEF Types, now, ClockForward
<1>3. \A e \in Threads : pc'[e] = "idle" /\ todo'[e] = <<>> BY <1>1, EndedIs
<1>4. \A x \in Executors : work'[x] = NoBatch BY <1>1, RolledBackIs
<1>5. Types' BY <1>1, <1>2, <1>3, EndedIs, RolledBackIs DEF Types, Threads
<1>6. ClockForward' BY <1>1, <1>2, <1>3 DEF ClockForward, Threads
<1>7. ListsAreDue'
  <2>1. todo' \in [Threads -> Seq(queue')] BY <1>1, EndedIs
  <2>. QED BY <1>3, <2>1 DEF ListsAreDue
<1>8. LocksAreDue' BY <1>4 DEF LocksAreDue, NoBatch
<1>9. ASSUME ~ slipped' PROVE OneMoment'
  <2>1. Due' = {} BY <1>1, <1>2, <1>9, SameAhead DEF Due
  <2>. QED BY <1>3, <1>4, <2>1 DEF OneMoment, Threads, NoBatch
<1>. QED BY <1>5, <1>6, <1>7, <1>8, <1>9

LEMMA StepReplay == SoleDriver /\ IInv /\ ReplayInv /\ [Next]_vars => ReplayInv'
<1>. SUFFICES ASSUME SoleDriver, IInv, ReplayInv, [Next]_vars PROVE ReplayInv' OBVIOUS
<1>1. CASE UNCHANGED vars
  <2>. USE DEF ReplayInv
  <2>1. UNCHANGED <<real, offset, queue, delivered, ledger, status, row, work, clears, pc, target,
                    goal, todo, landed, skipped, reached, slipped>>
    BY <1>1 DEF vars, story, request
  <2>2. now' = now /\ now \in Int BY <2>1 DEF now, Types
  <2>3. Types' /\ ClockForward' /\ ListsAreDue' BY <2>1, <2>2 DEF Types, ClockForward, ListsAreDue
  <2>4. LocksAreDue' BY <2>1, <2>2, LocksCarry
  <2>5. ASSUME ~ slipped' PROVE OneMoment'
    <3>1. ~ slipped /\ ~ Passes(now, now') BY <2>1, <2>2, <2>5, AheadTyped DEF Passes
    <3>. HIDE DEF ReplayInv
    <3>. QED BY <2>1, <2>2, <3>1, SteadyMoments
  <2>. QED BY <2>3, <2>4, <2>5
<1>2. ASSUME NEW d \in Threads, Replay(d) PROVE ReplayInv'
  BY <1>2, SelectKeeps, DeliverKeeps, MarkKeeps, AnswerKeeps, NothingToDoKeeps, HopKeeps,
     LandKeeps, ReturnKeeps DEF Replay
<1>3. ASSUME NEW x \in Executors, Execute(x) PROVE ReplayInv'
  BY <1>3, ClaimKeeps, HandleKeeps, CommitKeeps DEF Execute
<1>. QED BY <1>1, <1>2, <1>3, FastForwardKeeps, CreateScenarioKeeps, FailKeeps, TickKeeps,
            RestartKeeps DEF Next

(* sim/service.py, advance_to: when a request returns, the ledger has      *)
(* settled up to where it was sent, as long as requests that move the      *)
(* clock come one at a time and the clock has not slipped past a moment,   *)
(* but for what the poller had claimed when the request last looked.       *)
(* A clock that stands past a delivery stands at the moment it is due, for *)
(* a replay goes from one to the next; so the list a driver has read is    *)
(* all that is due there, a batch is every attempt that is, whoever has    *)
(* claimed it, and what a batch settles comes later: after one round       *)
(* nothing is due but what another has in hand.                            *)
THEOREM ReplaySettles ==
  ASSUME SoleDriver, Drivers # {}
  PROVE  Spec => []SettledOnReturn
<1>1. ReplayInv => \A d \in Drivers : pc[d] = "correct" /\ ~ slipped =>
        /\ \A q \in queue \ delivered : q.at > target[d] \/ q.event.of = "scenario"
        /\ status \notin Closed =>
             \A a \in Attempts \ skipped[d] : row[a] = "scheduled" => Time[a] > target[d]
  <2>. SUFFICES ASSUME ReplayInv, NEW d \in Drivers, pc[d] = "correct", ~ slipped
                PROVE  /\ \A q \in queue \ delivered : q.at > target[d] \/ q.event.of = "scenario"
                       /\ status \notin Closed =>
                            \A a \in Attempts \ skipped[d] :
                              row[a] = "scheduled" => Time[a] > target[d]
    OBVIOUS
  <2>1. NothingLeft(d) /\ target[d] <= now BY DEF ReplayInv, OneMoment, ClockForward
  <2>2. target[d] \in Int /\ now \in Int BY DEF ReplayInv, Types, now, Threads
  <2>3. \A q \in queue : q.at \in Int BY DEF ReplayInv, Types
  <2>4. \A a \in Attempts : Time[a] \in Nat BY ReplayAssumption
  <2>5. \A q \in queue \ delivered : q.at > target[d] \/ q.event.of = "scenario"
    BY <2>1, <2>2, <2>3 DEF NothingLeft
  <2>6. ASSUME status \notin Closed, NEW a \in Attempts \ skipped[d], row[a] = "scheduled"
        PROVE  Time[a] > target[d]
    <3>1. a \notin DueAttempts BY <2>1 DEF NothingLeft
    <3>2. ~ (Time[a] <= now) BY <2>6, <3>1, DueAttemptsHas DEF Open
    <3>. QED BY <2>1, <2>2, <2>4, <3>2
  <2>. QED BY <2>5, <2>6
<1>2. Spec => [](IInv /\ ReplayInv)
  BY InitHolds, StepHolds, InitReplay, StepReplay, PTL DEF Spec
<1>3. Spec => []((\A d \in Drivers : pc[d] = "idle") => offset = asked)
  BY DriverGetsWhatItAsked DEF SoleDriver
<1>4. ReplayInv /\ ((\A d \in Drivers : pc[d] = "idle") => offset = asked) => SettledOnReturn
  BY <1>1 DEF SettledOnReturn
<1>. QED BY <1>2, <1>3, <1>4, PTL
-----------------------------------------------------------------------------
(* What is written down is of what was done, whether or not the clock has  *)
(* slipped: the queue of the retries, the ledger of the queue, the status  *)
(* of the ledger.                                                          *)
QueueIsOfTheWork ==
  /\ \A q \in queue : \/ q.event \in {Failure, Scenario}
                      \/ /\ q.event.of \in Retries /\ Time[q.event.of] <= reached
                         /\ q = Settles(q.event.of, q.event.count)
  /\ \A q \in queue : q.event = Failure => q.at = FailsAt
  /\ \E q \in queue : q.event = Failure
  /\ \A a \in Retries : row[a] = "executed" => a \in Presented
  /\ \A x \in Executors : work[x].executed \cap Retries \subseteq Presented

LedgerIsOfTheQueue ==
  /\ \A e \in ledger : \E q \in queue : q.event = e /\ q.at <= reached
  /\ \A a \in Attempts : row[a] = "executed" => Time[a] <= reached

StatusIsOfTheLedger ==
  /\ status = "recovered" => \E e \in ledger : Cleared(e)
  /\ status = "written_off" => \E w \in Attempts : row[w] = "executed" /\ Kind[w] = "write_off"
  /\ \A w \in Attempts : row[w] = "executed" /\ Kind[w] = "write_off" => ~ Open

Booked == QueueIsOfTheWork /\ LedgerIsOfTheQueue /\ StatusIsOfTheLedger

(* While the clock has not slipped: work is done in the order of its time, *)
(* so each retry is counted after those before it, and only those are done *)
(* that the bank's answers and the write-off left to do.                   *)
PresentedInTime(q) ==
  LET a == q.event.of IN
  /\ q.event.count = Before(a)
  /\ ~ RecoveredBy(a, Time[a])
  /\ \A w \in WriteOffAt : Time[a] <= w

WorkIsOfItsTime ==
  /\ \A a \in Attempts : row[a] # "failed"
  /\ (\E e \in ledger : Cleared(e)) => status = "recovered"
  /\ Open => \A a, b \in Attempts :
               row[a] = "executed" /\ row[b] = "scheduled" => Time[a] < Time[b]
  /\ \A q \in queue : q.event.of \in Retries => PresentedInTime(q)
  /\ ~ Open => \A a \in Retries : row[a] = "scheduled" =>
                 RecoveredBy(a, Time[a]) \/ \E w \in WriteOffAt : w <= Time[a]

StoryInv == ReplayInv /\ IInv /\ Booked /\ (~ slipped => WorkIsOfItsTime)

LEMMA RetryRow ==
  ASSUME Booked, NEW q \in queue, q.event.of \in Attempts
  PROVE  /\ q.event.of \in Retries /\ q.event.of \in Presented
         /\ q.at = Time[q.event.of] + Settlement /\ Time[q.event.of] <= reached
<1>1. q.event # Failure /\ q.event # Scenario BY ReplayAssumption DEF Failure, Scenario
<1>2. /\ q.event.of \in Retries /\ Time[q.event.of] <= reached
      /\ q = Settles(q.event.of, q.event.count)
  BY <1>1 DEF Booked, QueueIsOfTheWork
<1>3. q.at = Settles(q.event.of, q.event.count).at BY <1>2
<1>4. q.at = Time[q.event.of] + Settlement BY <1>3 DEF Settles
<1>. QED BY <1>2, <1>4 DEF Presented

(* An answer that clears is that to a retry in its place. *)
LEMMA AnswerRow ==
  ASSUME Types, Booked, WorkIsOfItsTime, NEW q \in queue, Cleared(q.event)
  PROVE  /\ q.event.of \in Answers /\ q.event.of \in Presented
         /\ q.at = Time[q.event.of] + Settlement
<1>1. q.event.of \in Attempts BY ClearedIsAnswer
<1>2. q.event.of \in Retries BY <1>1, RetryRow
<1>3. q.event.count = Before(q.event.of) BY <1>2 DEF WorkIsOfItsTime, PresentedInTime
<1>. QED BY <1>1, <1>2, <1>3, RetryRow DEF Answers, Cleared

LEMMA PresentedRow ==
  ASSUME Booked, WorkIsOfItsTime, NEW a \in Presented
  PROVE  /\ a \in Retries /\ Time[a] <= reached
         /\ ~ RecoveredBy(a, Time[a]) /\ \A w \in WriteOffAt : Time[a] <= w
         /\ \E q \in queue : /\ q.event.of = a /\ q.at = Time[a] + Settlement
                             /\ Cleared(q.event) <=> a \in Answers
<1>1. PICK q \in queue : q.event.of = a /\ a \in Retries BY DEF Presented
<1>2. a \in Attempts BY <1>1 DEF Retries
<1>3. PresentedInTime(q) BY <1>1 DEF WorkIsOfItsTime
<1>4. Cleared(q.event) <=> a \in Answers BY <1>1, <1>3 DEF PresentedInTime, Cleared, Answers
<1>. QED BY <1>1, <1>2, <1>3, <1>4, RetryRow DEF PresentedInTime

LEMMA StillRecovered ==
  ASSUME UNCHANGED clears
  PROVE  /\ Answers' = Answers
         /\ \A a, t : RecoveredBy(a, t)' <=> RecoveredBy(a, t)
         /\ \A q : PresentedInTime(q)' <=> PresentedInTime(q)
<1>1. Answers' = Answers BY DEF Answers
<1>2. \A a, t : RecoveredBy(a, t)' <=> RecoveredBy(a, t) BY <1>1 DEF RecoveredBy
<1>. QED BY <1>1, <1>2 DEF PresentedInTime

-----------------------------------------------------------------------------
(* The books. *)
LEMMA HandleBooks ==
  ASSUME ReplayInv, Booked, NEW x \in Executors, Handle(x)
  PROVE  Booked'
<1>. USE DEF Booked, ReplayInv
<1>1. PICK a \in work[x].left :
         PassOver(x, a) \/ WriteOff(x, a) \/ Refuse(x, a) \/ Present(x, a)
  BY DEF Handle, Earliest
<1>2. UNCHANGED <<ledger, status, row, clears, reached>> BY DEF Handle
<1>3. a \in work[x].held /\ a \in Attempts /\ Time[a] <= now
  BY <1>1 DEF LocksAreDue, Types, Batches
<1>4. Time[a] <= reached
  <2>1. now \in Int /\ reached \in Int /\ now <= reached BY DEF Types, now, ClockForward
  <2>2. Time[a] \in Nat BY <1>3, ReplayAssumption
  <2>. QED BY <1>3, <2>1, <2>2
<1>. DEFINE q0 == Settles(a, Executed)
<1>5. queue' = IF Present(x, a) THEN queue \cup {q0} ELSE queue
  BY <1>1 DEF PassOver, WriteOff, Refuse, Present
<1>6. /\ q0.event.of = a /\ q0.event.count = Executed /\ q0 = Settles(q0.event.of, q0.event.count)
      /\ Present(x, a) => a \in Retries
  BY <1>3 DEF Settles, Present, Retries
<1>7. q0.event # Failure /\ q0.event # Scenario
  BY <1>3, <1>6, ReplayAssumption DEF Failure, Scenario
<1>. HIDE DEF q0
<1>8. Presented \subseteq Presented' /\ (Present(x, a) => a \in Presented')
  BY <1>5, <1>6 DEF Presented
<1>9. \A y \in Executors : work'[y].executed \cap Retries \subseteq Presented'
  <2>1. \A y \in Executors \ {x} : work'[y] = work[y] BY <1>1, <1>3, HandledIs DEF Types
  <2>2. work'[x].executed \subseteq work[x].executed \cup {a} BY <1>1, <1>3, HandledIs DEF Types
  <2>3. PassOver(x, a) => work'[x].executed = work[x].executed
    BY <1>1, <1>3, HandledIs DEF Types
  <2>4. CASE Present(x, a) BY <1>8, <2>1, <2>2, <2>4 DEF QueueIsOfTheWork
  <2>5. CASE PassOver(x, a) BY <1>8, <2>1, <2>3, <2>5 DEF QueueIsOfTheWork
  <2>6. CASE WriteOff(x, a)
    <3>1. a \notin Retries BY <2>6 DEF WriteOff, Retries
    <3>. QED BY <1>8, <2>1, <2>2, <3>1 DEF QueueIsOfTheWork
  <2>7. CASE Refuse(x, a)
    <3>1. work'[x].executed = work[x].executed
      <4>1. work[x] \in Batches BY DEF Types
      <4>2. work'[x] = [work[x] EXCEPT !.left = @ \ {a}, !.seen = Loaded(x), !.refused = @ \cup {a}]
        BY <2>7 DEF Refuse, Types
      <4>. QED BY <4>1, <4>2 DEF Batches
    <3>. QED BY <1>8, <2>1, <3>1 DEF QueueIsOfTheWork
  <2>. QED BY <1>1, <2>4, <2>5, <2>6, <2>7
<1>10. QueueIsOfTheWork'
  <2>1. \A q \in queue' : \/ q.event \in {Failure, Scenario}
                          \/ /\ q.event.of \in Retries /\ Time[q.event.of] <= reached'
                             /\ q = Settles(q.event.of, q.event.count)
    BY <1>2, <1>4, <1>5, <1>6 DEF QueueIsOfTheWork
  <2>2. \A q \in queue' : q.event = Failure => q.at = FailsAt
    BY <1>5, <1>7 DEF QueueIsOfTheWork
  <2>3. \E q \in queue' : q.event = Failure BY <1>5 DEF QueueIsOfTheWork
  <2>4. \A b \in Retries : row'[b] = "executed" => b \in Presented'
    BY <1>2, <1>8 DEF QueueIsOfTheWork
  <2>. QED BY <1>9, <2>1, <2>2, <2>3, <2>4 DEF QueueIsOfTheWork, Settles
<1>11. LedgerIsOfTheQueue' BY <1>2, <1>5 DEF LedgerIsOfTheQueue
<1>12. StatusIsOfTheLedger' BY <1>2 DEF StatusIsOfTheLedger, Open, Cleared
<1>. QED BY <1>10, <1>11, <1>12

LEMMA CommitBooks ==
  ASSUME ReplayInv, Booked, NEW x \in Executors, Commit(x)
  PROVE  Booked'
<1>. USE DEF Booked, ReplayInv
<1>1. /\ RolledBack({x})
      /\ row' = [a \in Attempts |-> IF a \in work[x].executed THEN "executed"
                                   ELSE IF a \in work[x].refused THEN "failed" ELSE row[a]]
      /\ status' = IF \E a \in work[x].executed : Kind[a] = "write_off" THEN "written_off" ELSE status
      /\ UNCHANGED <<queue, ledger, clears, reached>>
  BY DEF Commit
<1>2. work[x].executed \subseteq Attempts /\ work[x].executed \subseteq work[x].held
  BY DEF Types, Batches, LocksAreDue
<1>3. \A a \in Attempts : row'[a] = "executed" <=> row[a] = "executed" \/ a \in work[x].executed
  BY <1>1 DEF LocksAreDue
<1>4. Presented' = Presented BY <1>1 DEF Presented
<1>5. QueueIsOfTheWork'
  <2>1. \A y \in Executors : work'[y].executed \subseteq work[y].executed
    BY <1>1, RolledBackIs DEF NoBatch
  <2>2. \A a \in Retries : row'[a] = "executed" => a \in Presented'
    BY <1>3, <1>4 DEF QueueIsOfTheWork, Retries
  <2>3. \A y \in Executors : work'[y].executed \cap Retries \subseteq Presented'
    BY <1>4, <2>1 DEF QueueIsOfTheWork
  <2>. QED BY <1>1, <2>2, <2>3 DEF QueueIsOfTheWork, Settles
<1>6. LedgerIsOfTheQueue'
  <2>1. ASSUME NEW a \in work[x].executed PROVE Time[a] <= reached
    <3>1. Time[a] <= now /\ a \in Attempts BY <1>2 DEF LocksAreDue
    <3>2. now <= reached /\ now \in Int /\ reached \in Int BY DEF Types, now, ClockForward
    <3>3. Time[a] \in Nat BY <3>1, ReplayAssumption
    <3>. QED BY <3>1, <3>2, <3>3
  <2>. QED BY <1>1, <1>3, <2>1 DEF LedgerIsOfTheQueue
<1>7. StatusIsOfTheLedger'
  <2>1. status' = "recovered" => \E e \in ledger' : Cleared(e)'
    BY <1>1 DEF StatusIsOfTheLedger, Cleared
  <2>2. status' = "written_off" => \E w \in Attempts : row'[w] = "executed" /\ Kind[w] = "write_off"
    BY <1>1, <1>2, <1>3 DEF StatusIsOfTheLedger
  <2>3. ASSUME NEW w \in Attempts, row'[w] = "executed", Kind[w] = "write_off" PROVE ~ Open'
    <3>1. CASE w \in work[x].executed BY <1>1, <2>3, <3>1 DEF Open, Closed
    <3>2. CASE row[w] = "executed"
      <4>1. ~ Open BY <2>3, <3>2 DEF StatusIsOfTheLedger
      <4>. QED BY <1>1, <4>1 DEF Open, Closed
    <3>. QED BY <1>3, <2>3, <3>1, <3>2
  <2>. QED BY <2>1, <2>2, <2>3 DEF StatusIsOfTheLedger
<1>. QED BY <1>5, <1>6, <1>7

LEMMA IngestBooks ==
  ASSUME Types, Booked, NEW q \in queue, q.at <= now, now <= reached, Ingest(q),
         UNCHANGED <<queue, row, work, clears, reached>>
  PROVE  Booked'
<1>. USE DEF Booked
<1>1. QueueIsOfTheWork' BY DEF QueueIsOfTheWork, Settles, Presented
<1>2. LedgerIsOfTheQueue'
  <2>1. q.at <= reached BY DEF Types, now
  <2>2. ledger' \subseteq ledger \cup {q.event} BY DEF Ingest
  <2>3. \A e \in ledger' : \E r \in queue : r.event = e /\ r.at <= reached
    BY <2>1, <2>2 DEF LedgerIsOfTheQueue
  <2>. QED BY <2>3 DEF LedgerIsOfTheQueue
<1>3. StatusIsOfTheLedger'
  <2>1. CASE q.event \in ledger
    BY <2>1 DEF Ingest, StatusIsOfTheLedger, Open, Cleared
  <2>2. CASE q.event \notin ledger
    <3>1. /\ ledger' = ledger \cup {q.event}
          /\ status' = IF Cleared(q.event) THEN "recovered" ELSE status
      BY <2>2 DEF Ingest
    <3>2. status' = "recovered" => \E e \in ledger' : Cleared(e)'
      BY <3>1 DEF StatusIsOfTheLedger, Cleared
    <3>3. (status' = "written_off" => status = "written_off") /\ (~ Open => ~ Open')
      BY <3>1 DEF Open, Closed
    <3>. QED BY <3>2, <3>3 DEF StatusIsOfTheLedger
  <2>. QED BY <2>1, <2>2
<1>. QED BY <1>1, <1>2, <1>3

(* A step that neither delivers nor writes up leaves the books but for the *)
(* queue's scenarios, and time goes on.                                    *)
Quiet ==
  /\ UNCHANGED <<ledger, status, row, clears>>
  /\ queue \subseteq queue' /\ \A q \in queue' \ queue : q.event = Scenario
  /\ \A x \in Executors : work'[x].executed \subseteq work[x].executed

LEMMA BooksCarry ==
  ASSUME Types, Types', Booked, reached <= reached', Quiet
  PROVE  Booked'
<1>. USE DEF Booked, Quiet
<1>1. reached \in Int /\ reached' \in Int BY DEF Types
<1>2. Presented \subseteq Presented' BY DEF Presented
<1>3. QueueIsOfTheWork'
  <2>1. ASSUME NEW q \in queue'
        PROVE  \/ q.event \in {Failure, Scenario}
               \/ /\ q.event.of \in Retries /\ Time[q.event.of] <= reached'
                  /\ q = Settles(q.event.of, q.event.count)
    <3>1. CASE q \in queue
      <4>1. \A a \in Retries : Time[a] \in Nat BY ReplayAssumption DEF Retries
      <4>. QED BY <1>1, <3>1, <4>1 DEF QueueIsOfTheWork
    <3>. QED BY <3>1
  <2>2. \A q \in queue' : q.event = Failure => q.at = FailsAt
    BY DEF QueueIsOfTheWork, Failure, Scenario
  <2>3. \E q \in queue' : q.event = Failure BY DEF QueueIsOfTheWork
  <2>4. \A a \in Retries : row'[a] = "executed" => a \in Presented'
    BY <1>2 DEF QueueIsOfTheWork
  <2>5. \A x \in Executors : work'[x].executed \cap Retries \subseteq Presented'
    BY <1>2 DEF QueueIsOfTheWork
  <2>. QED BY <2>1, <2>2, <2>3, <2>4, <2>5 DEF QueueIsOfTheWork, Settles
<1>4. LedgerIsOfTheQueue'
  <2>1. ASSUME NEW e \in ledger PROVE \E q \in queue' : q.event = e /\ q.at <= reached'
    <3>1. PICK q \in queue : q.event = e /\ q.at <= reached BY <2>1 DEF LedgerIsOfTheQueue
    <3>2. q.at \in Int BY DEF Types
    <3>. QED BY <1>1, <3>1, <3>2
  <2>2. ASSUME NEW a \in Attempts, row[a] = "executed" PROVE Time[a] <= reached'
    <3>1. Time[a] <= reached /\ Time[a] \in Nat BY <2>2, ReplayAssumption DEF LedgerIsOfTheQueue
    <3>. QED BY <1>1, <3>1
  <2>. QED BY <2>1, <2>2 DEF LedgerIsOfTheQueue
<1>5. StatusIsOfTheLedger' BY DEF StatusIsOfTheLedger, Open, Cleared
<1>. QED BY <1>3, <1>4, <1>5

-----------------------------------------------------------------------------
(* The work. *)
LEMMA WorkCarries ==
  ASSUME WorkIsOfItsTime, UNCHANGED <<ledger, status, row, clears>>,
         \A q \in queue' : q \in queue \/ (q.event.of \in Retries => PresentedInTime(q))
  PROVE  WorkIsOfItsTime'
<1>1. \A q \in queue' : q.event.of \in Retries => PresentedInTime(q)'
  BY StillRecovered DEF WorkIsOfItsTime
<1>. QED BY <1>1, StillRecovered DEF WorkIsOfItsTime, Open, Cleared

(* While a batch is open, what was executed is what has its time before    *)
(* any of it: its number is its place.                                     *)
LEMMA ExecutedIsBefore ==
  ASSUME ReplayInv, ~ slipped, WorkIsOfItsTime, NEW x \in Executors, NEW a \in work[x].held
  PROVE  /\ a \in Attempts /\ Time[a] \in Due
         /\ \A b \in Attempts : Time[b] < Time[a] <=> row[b] = "executed"
         /\ Executed = Before(a)
<1>. USE DEF ReplayInv
<1>1. OneMoment /\ Open BY DEF OneMoment, BatchIsAll
<1>2. a \in Attempts /\ row[a] = "scheduled" /\ Time[a] <= now
  BY DEF LocksAreDue, Types, Batches
<1>3. Time[a] \in Due BY <1>1, <1>2, AheadHas DEF Due
<1>4. now \in Int /\ Time[a] \in Nat BY <1>2, ReplayAssumption DEF Types, now
<1>5. \A b \in Attempts : row[b] \in {"scheduled", "executed"} BY DEF Types, WorkIsOfItsTime
<1>6. ASSUME NEW b \in Attempts PROVE Time[b] < Time[a] <=> row[b] = "executed"
  <2>1. row[b] = "executed" => Time[b] < Time[a] BY <1>1, <1>2 DEF WorkIsOfItsTime
  <2>2. ASSUME row[b] = "scheduled", Time[b] < Time[a] PROVE FALSE
    <3>1. Time[b] \in Nat BY ReplayAssumption
    <3>2. Time[b] <= now BY <1>2, <1>4, <2>2, <3>1
    <3>3. Time[b] \in Due BY <1>1, <2>2, <3>2, AheadHas DEF Due
    <3>4. Time[b] = Time[a] BY <1>1, <1>3, <3>3 DEF OneMoment
    <3>. QED BY <1>4, <2>2, <3>1, <3>4
  <2>. QED BY <1>5, <2>1, <2>2
<1>7. {b \in Retries : row[b] # "scheduled"} = {b \in Retries : Time[b] < Time[a]}
  BY <1>5, <1>6 DEF Retries
<1>. QED BY <1>2, <1>3, <1>6, <1>7 DEF Executed, Before

LEMMA HandleWork ==
  ASSUME StoryInv, ~ slipped, NEW x \in Executors, Handle(x)
  PROVE  WorkIsOfItsTime'
<1>. USE DEF StoryInv
<1>1. PICK a \in work[x].left :
         PassOver(x, a) \/ WriteOff(x, a) \/ Refuse(x, a) \/ Present(x, a)
  BY DEF Handle, Earliest
<1>2. UNCHANGED <<ledger, status, row, clears>> BY DEF Handle
<1>3. a \in work[x].held BY <1>1 DEF ReplayInv, LocksAreDue
<1>4. WorkIsOfItsTime /\ OneMoment /\ BatchIsAll(x) BY <1>3 DEF ReplayInv, OneMoment
<1>5. /\ a \in Attempts /\ Time[a] \in Due /\ Executed = Before(a)
      /\ \A b \in Attempts : Time[b] < Time[a] <=> row[b] = "executed"
  BY <1>3, <1>4, ExecutedIsBefore
<1>6. Open /\ ~ Awaited /\ Time[a] \in Nat BY <1>4, <1>5, ReplayAssumption DEF BatchIsAll
<1>7. ASSUME NEW w \in WriteOffAt PROVE Time[a] <= w
  <2>1. PICK b \in Attempts : Kind[b] = "write_off" /\ w = Time[b] BY DEF WriteOffAt
  <2>2. row[b] # "executed" BY <1>6, <2>1 DEF Booked, StatusIsOfTheLedger
  <2>3. Time[b] \in Nat BY ReplayAssumption
  <2>. QED BY <1>5, <1>6, <2>1, <2>2, <2>3
<1>8. ASSUME RecoveredBy(a, Time[a]) PROVE FALSE
  <2>1. PICK b \in Answers : Time[b] + Settlement <= Time[a] /\ Time[b] < Time[a]
    BY <1>8 DEF RecoveredBy
  <2>2. b \in Retries /\ b \in Attempts BY DEF Answers, Retries
  <2>3. b \in Presented BY <1>5, <2>1, <2>2 DEF Booked, QueueIsOfTheWork
  <2>4. PICK q \in queue : /\ q.event.of = b /\ q.at = Time[b] + Settlement /\ Cleared(q.event)
    BY <1>4, <2>3, PresentedRow
  <2>5. q.event \notin ledger
    <3>1. status # "recovered" BY <1>6 DEF Open, Closed
    <3>. QED BY <1>4, <2>4, <3>1 DEF WorkIsOfItsTime
  <2>6. q \notin delivered BY <2>5 DEF IInv, NothingSwallowed
  <2>7. q.at <= now
    <3>1. Time[a] <= now /\ now \in Int BY <1>5 DEF Due, ReplayInv, Types, now
    <3>2. q.at \in Int BY DEF ReplayInv, Types
    <3>. QED BY <1>6, <2>1, <2>4, <3>1, <3>2
  <2>. QED BY <1>6, <2>4, <2>5, <2>6, <2>7 DEF Awaited, DueRows
<1>9. \A q \in queue' \ queue : q = Settles(a, Executed)
  BY <1>1 DEF PassOver, WriteOff, Refuse, Present
<1>10. \A q \in queue' : q \in queue \/ PresentedInTime(q)
  <2>1. Settles(a, Executed).event.of = a /\ Settles(a, Executed).event.count = Executed
    BY DEF Settles
  <2>. QED BY <1>5, <1>7, <1>8, <1>9, <2>1 DEF PresentedInTime
<1>. QED BY <1>2, <1>4, <1>10, WorkCarries

LEMMA CommitWork ==
  ASSUME StoryInv, ~ slipped, NEW x \in Executors, Commit(x)
  PROVE  WorkIsOfItsTime'
<1>. USE DEF StoryInv
<1>1. /\ work[x].held # {} /\ work[x].left = {}
      /\ row' = [a \in Attempts |-> IF a \in work[x].executed THEN "executed"
                                   ELSE IF a \in work[x].refused THEN "failed" ELSE row[a]]
      /\ status' = IF \E a \in work[x].executed : Kind[a] = "write_off" THEN "written_off" ELSE status
      /\ UNCHANGED <<queue, ledger, clears>>
  BY DEF Commit
<1>2. WorkIsOfItsTime /\ OneMoment /\ BatchIsAll(x) /\ Open /\ work[x].refused = {}
  BY <1>1 DEF ReplayInv, OneMoment, BatchIsAll
<1>3. /\ work[x].executed \subseteq work[x].held /\ work[x].executed \subseteq Attempts
      /\ \A a \in work[x].held : Time[a] <= now
  BY DEF ReplayInv, LocksAreDue, Types, Batches
<1>4. now \in Int /\ \A a \in Attempts : Time[a] \in Nat
  BY ReplayAssumption DEF ReplayInv, Types, now
<1>5. \A a \in Attempts : /\ row'[a] = "executed" <=> row[a] = "executed" \/ a \in work[x].executed
                          /\ row'[a] = "scheduled" => row[a] = "scheduled" /\ a \notin work[x].executed
                          /\ row'[a] # "failed"
  BY <1>1, <1>2 DEF WorkIsOfItsTime
<1>6. (\E e \in ledger' : Cleared(e)') => status' = "recovered"
  <2>1. status # "recovered" BY <1>2 DEF Open, Closed
  <2>. QED BY <1>1, <1>2, <2>1 DEF WorkIsOfItsTime, Cleared
<1>7. ASSUME Open', NEW a \in Attempts, NEW b \in Attempts,
             row'[a] = "executed", row'[b] = "scheduled"
      PROVE  Time[a] < Time[b]
  <2>1. row[b] = "scheduled" /\ b \notin work[x].executed BY <1>5, <1>7
  <2>2. CASE row[a] = "executed" BY <1>2, <2>1, <2>2 DEF WorkIsOfItsTime
  <2>3. CASE a \in work[x].executed
    <3>1. ~ \E w \in work[x].executed : Kind[w] = "write_off" BY <1>1, <1>7 DEF Open, Closed
    <3>2. DueAttempts \subseteq work[x].executed BY <1>1, <1>2, <3>1 DEF BatchIsAll
    <3>3. ~ (Time[b] <= now) BY <1>2, <2>1, <3>2, DueAttemptsHas
    <3>4. Time[a] <= now BY <1>3, <2>3
    <3>. QED BY <1>4, <3>3, <3>4
  <2>. QED BY <1>5, <1>7, <2>2, <2>3
<1>8. ASSUME ~ Open', NEW a \in Retries, row'[a] = "scheduled"
      PROVE  \E w \in WriteOffAt : w <= Time[a]
  <2>1. PICK w \in work[x].executed : Kind[w] = "write_off" BY <1>1, <1>2, <1>8 DEF Open
  <2>2. w \in Attempts /\ w \in work[x].held /\ Time[w] \in WriteOffAt
    BY <1>3, <2>1 DEF WriteOffAt
  <2>3. a \in Attempts /\ row[a] = "scheduled" BY <1>5, <1>8 DEF Retries
  <2>4. Time[a] <= now => Time[a] \in Due BY <1>2, <2>3, AheadHas DEF Due
  <2>5. Time[w] \in Due BY <1>2, <2>2, ExecutedIsBefore
  <2>6. Time[w] <= Time[a]
    <3>1. Time[a] <= now => Time[a] = Time[w] BY <1>2, <2>4, <2>5 DEF OneMoment
    <3>. QED BY <1>3, <1>4, <2>2, <2>3, <3>1
  <2>. QED BY <2>2, <2>6
<1>9. \A q \in queue' : q.event.of \in Retries => PresentedInTime(q)'
  BY <1>1, <1>2, StillRecovered DEF WorkIsOfItsTime
<1>. QED BY <1>5, <1>6, <1>7, <1>8, <1>9 DEF WorkIsOfItsTime

(* An answer that recovers the file comes before what it leaves undone, or *)
(* at the same moment: what is still to be done then, it spares.           *)
LEMMA IngestWork ==
  ASSUME StoryInv, ~ slipped, NEW q \in queue, q.at <= now, Ingest(q),
         UNCHANGED <<queue, row, clears>>
  PROVE  WorkIsOfItsTime'
<1>. USE DEF StoryInv
<1>1. Types /\ WorkIsOfItsTime /\ OneMoment BY DEF ReplayInv
<1>2. CASE q.event \in ledger BY <1>1, <1>2, WorkCarries DEF Ingest
<1>3. CASE q.event \notin ledger
  <2>1. /\ ledger' = ledger \cup {q.event}
        /\ status' = IF Cleared(q.event) THEN "recovered" ELSE status
    BY <1>3 DEF Ingest
  <2>2. (\E e \in ledger' : Cleared(e)') => status' = "recovered"
    BY <1>1, <2>1 DEF WorkIsOfItsTime, Cleared
  <2>3. Open' => Open BY <2>1 DEF Open, Closed
  <2>4. ASSUME ~ Open', NEW a \in Retries, row[a] = "scheduled"
        PROVE  RecoveredBy(a, Time[a]) \/ \E w \in WriteOffAt : w <= Time[a]
    <3>1. CASE ~ Open BY <1>1, <2>4, <3>1 DEF WorkIsOfItsTime
    <3>2. CASE Open
      <4>1. Cleared(q.event) BY <2>1, <2>4, <3>2 DEF Open
      <4>. DEFINE b == q.event.of
      <4>2. b \in Answers /\ q.at = Time[b] + Settlement BY <1>1, <4>1, AnswerRow
      <4>3. q.event.of # "scenario" BY <1>1, <4>1, ClearedIsAnswer
      <4>4. q \notin delivered BY <1>3 DEF IInv, NothingSwallowed
      <4>5. q.at \in Due BY <4>3, <4>4, AheadHas DEF Due
      <4>6. a \in Attempts /\ b \in Attempts BY <4>2 DEF Retries, Answers
      <4>7. Time[a] \in Nat /\ Time[b] \in Nat /\ Settlement \in Nat \ {0} /\ now \in Int
        BY <1>1, <4>6, ReplayAssumption DEF Types, now
      <4>8. Time[a] <= now => Time[a] \in Due BY <2>4, <3>2, <4>6, AheadHas DEF Due
      <4>9. Time[a] <= now => Time[a] = q.at BY <1>1, <4>5, <4>8 DEF OneMoment
      <4>. HIDE DEF b
      <4>10. Time[b] + Settlement <= Time[a] /\ Time[b] < Time[a] BY <4>2, <4>7, <4>9
      <4>. QED BY <4>2, <4>10 DEF RecoveredBy
    <3>. QED BY <3>1, <3>2
  <2>5. \A p \in queue' : p.event.of \in Retries => PresentedInTime(p)'
    BY <1>1, StillRecovered DEF WorkIsOfItsTime
  <2>. QED BY <1>1, <2>2, <2>3, <2>4, <2>5, StillRecovered DEF WorkIsOfItsTime
<1>. QED BY <1>2, <1>3

-----------------------------------------------------------------------------
(* Every step delivers, handles, commits, or leaves the story but for a    *)
(* scenario.                                                               *)
LEMMA StepKinds ==
  ASSUME Types, [Next]_vars
  PROVE  \/ \E d \in Threads : DeliverDue(d)
         \/ \E x \in Executors : Handle(x) \/ Commit(x)
         \/ Quiet
<1>1. CASE UNCHANGED vars BY <1>1 DEF Quiet, vars, story
<1>2. ASSUME NEW d \in Threads, Replay(d), ~ DeliverDue(d) PROVE Quiet
  BY <1>2 DEF Replay, Quiet, Select, Mark, Answer, NothingToDo, Hop, Land, Return, story
<1>3. ASSUME NEW d \in Drivers, NEW seconds \in Leaps, FastForward(d, seconds) PROVE Quiet
  BY <1>3 DEF FastForward, Quiet, story
<1>4. ASSUME NEW c \in Callers, NEW delay \in Delays, CreateScenario(c, delay) PROVE Quiet
  <2>1. \A q \in queue' \ queue : q.event = Scenario BY <1>4 DEF CreateScenario
  <2>. QED BY <1>4, <2>1 DEF CreateScenario, Quiet
<1>5. ASSUME NEW x \in Executors, Claim(x) PROVE Quiet
  <2>1. work' = [work EXCEPT ![x] = [NoBatch EXCEPT !.held = Claimable, !.left = Claimable]]
    BY <1>5 DEF Claim
  <2>2. [NoBatch EXCEPT !.held = Claimable, !.left = Claimable].executed = {} BY DEF NoBatch
  <2>3. \A y \in Executors : work'[y].executed \subseteq work[y].executed
    BY <2>1, <2>2 DEF Types
  <2>. QED BY <1>5, <2>3 DEF Claim, Quiet, story
<1>6. ASSUME NEW x \in Threads \cup {Poller}, Fail(x) PROVE Quiet
  <2>1. RolledBack({x}) /\ UNCHANGED <<queue, ledger, status, row, clears>>
    BY <1>6 DEF Fail, story
  <2>. QED BY <2>1, RolledBackIs DEF Quiet, NoBatch
<1>7. CASE Tick BY <1>7 DEF Tick, Quiet, story
<1>8. CASE Restart
  <2>1. RolledBack(Executors) /\ UNCHANGED <<queue, ledger, status, row, clears>>
    BY <1>8 DEF Restart, story
  <2>. QED BY <2>1, RolledBackIs DEF Quiet, NoBatch
<1>. QED BY <1>1, <1>2, <1>3, <1>4, <1>5, <1>6, <1>7, <1>8 DEF Next, Execute

LEMMA LaterIsLater ==
  ASSUME reached \in Int, NEW t \in Int
  PROVE  reached <= Later(t)
BY DEF Later

LEMMA HistoryGrows ==
  ASSUME ReplayInv, [Next]_vars
  PROVE  reached <= reached' /\ (slipped => slipped')
<1>. USE DEF ReplayInv
<1>1. reached \in Int /\ now \in Int /\ real \in Int BY DEF Types, now
<1>2. CASE UNCHANGED <<reached, slipped>> BY <1>1, <1>2
<1>3. ASSUME NEW d \in Threads, Replay(d) PROVE reached <= reached' /\ (slipped => slipped')
  <2>1. goal[d] \in Int /\ target[d] \in Int BY DEF Types
  <2>2. CASE Hop(d)
    <3>1. PICK t \in Times : reached' = Later(t) BY <2>2 DEF Hop, MoveTo, Moments
    <3>2. t \in Int BY ReplayAssumption DEF Times, Types
    <3>. QED BY <1>1, <2>2, <3>1, <3>2, LaterIsLater DEF Hop
  <2>3. CASE Land(d)
    <3>1. reached' = reached \/ reached' = Later(target[d]) BY <2>3 DEF Land, MoveTo
    <3>2. slipped => slipped' BY <2>3 DEF Land
    <3>. QED BY <1>1, <2>1, <3>1, <3>2, LaterIsLater
  <2>4. CASE Return(d)
    <3>1. reached' = Later(real + goal[d]) /\ real + goal[d] \in Int
      BY <1>1, <2>1, <2>4 DEF Return, Corrected
    <3>. QED BY <1>1, <2>4, <3>1, LaterIsLater DEF Return
  <2>5. CASE ~ Hop(d) /\ ~ Land(d) /\ ~ Return(d)
    BY <1>2, <1>3, <2>5 DEF Replay, Select, DeliverDue, Mark, Answer, NothingToDo
  <2>. QED BY <2>2, <2>3, <2>4, <2>5
<1>4. ASSUME NEW x \in Executors, Execute(x) PROVE reached <= reached' /\ (slipped => slipped')
  <2>1. reached' = reached BY <1>4 DEF Execute, Claim, Handle, Commit
  <2>2. slipped => slipped'
    <3>1. CASE Claim(x) BY <3>1 DEF Claim
    <3>2. CASE Handle(x) BY <3>2 DEF Handle
    <3>3. CASE Commit(x) BY <3>3 DEF Commit
    <3>. QED BY <1>4, <3>1, <3>2, <3>3 DEF Execute
  <2>. QED BY <1>1, <2>1, <2>2
<1>5. CASE Tick
  <2>1. reached' = Later(now + 1) /\ now + 1 \in Int BY <1>1, <1>5 DEF Tick
  <2>. QED BY <1>1, <1>5, <2>1, LaterIsLater DEF Tick
<1>6. CASE Restart
  <2>1. reached' = reached BY <1>6 DEF Restart
  <2>2. slipped => slipped' BY <1>6 DEF Restart
  <2>. QED BY <1>1, <2>1, <2>2
<1>. QED BY <1>2, <1>3, <1>4, <1>5, <1>6 DEF Next, vars, FastForward, CreateScenario, Fail

LEMMA InitStory == Init => StoryInv
<1>. SUFFICES ASSUME Init PROVE StoryInv OBVIOUS
<1>1. /\ queue = {[event |-> Failure, number |-> n, at |-> FailsAt] : n \in 1..2}
      /\ ledger = {} /\ status = "failed"
      /\ \A a \in Attempts : row[a] = "scheduled"
      /\ \A x \in Executors : work[x] = NoBatch
  BY DEF Init
<1>2. Open /\ \A a \in Retries : row[a] = "scheduled" BY <1>1 DEF Open, Closed, Retries
<1>3. \A q \in queue : q.event = Failure /\ q.at = FailsAt BY <1>1
<1>4. \E q \in queue : q.event = Failure
  <2>1. [event |-> Failure, number |-> 1, at |-> FailsAt] \in queue BY <1>1
  <2>. QED BY <2>1
<1>5. Booked
  <2>1. QueueIsOfTheWork BY <1>1, <1>2, <1>3, <1>4 DEF QueueIsOfTheWork, NoBatch
  <2>. QED BY <1>1, <2>1 DEF Booked, LedgerIsOfTheQueue, StatusIsOfTheLedger
<1>6. WorkIsOfItsTime
  <2>1. \A q \in queue : q.event.of \notin Retries
    BY <1>3, ReplayAssumption DEF Failure, Retries
  <2>. QED BY <1>1, <1>2, <2>1 DEF WorkIsOfItsTime
<1>. QED BY <1>5, <1>6, InitReplay, InitHolds DEF StoryInv

LEMMA StepStory == SoleDriver /\ StoryInv /\ [Next]_vars => StoryInv'
<1>. SUFFICES ASSUME SoleDriver, StoryInv, [Next]_vars PROVE StoryInv' OBVIOUS
<1>1. ReplayInv /\ IInv /\ Booked /\ Types BY DEF StoryInv, ReplayInv
<1>2. ReplayInv' /\ IInv' /\ Types' BY <1>1, StepReplay, StepHolds DEF ReplayInv
<1>3. reached <= reached' /\ (slipped => slipped') BY <1>1, HistoryGrows
<1>4. ASSUME NEW d \in Threads, DeliverDue(d) PROVE Booked' /\ (~ slipped' => WorkIsOfItsTime')
  <2>. DEFINE q == Head(todo[d])
  <2>1. /\ todo[d] # <<>> /\ Ingest(q) /\ UNCHANGED <<queue, row, work, clears, reached>>
    BY <1>4 DEF DeliverDue, Deliver
  <2>2. todo[d] \in Seq(queue) BY <1>1 DEF ReplayInv, ListsAreDue
  <2>3. q \in queue /\ q = todo[d][1] /\ 1 \in 1..Len(todo[d]) BY <2>1, <2>2
  <2>4. q.at <= now /\ now <= reached BY <1>1, <2>3 DEF ReplayInv, ListsAreDue, ClockForward
  <2>. HIDE DEF q
  <2>. QED BY <1>1, <1>3, <2>1, <2>3, <2>4, IngestBooks, IngestWork
<1>5. ASSUME NEW x \in Executors, Handle(x) \/ Commit(x)
      PROVE  Booked' /\ (~ slipped' => WorkIsOfItsTime')
  BY <1>1, <1>3, <1>5, HandleBooks, CommitBooks, HandleWork, CommitWork
<1>6. ASSUME Quiet PROVE Booked' /\ (~ slipped' => WorkIsOfItsTime')
  <2>1. \A q \in queue' : q \in queue \/ q.event.of \notin Retries
    BY <1>6, ReplayAssumption DEF Quiet, Scenario, Retries
  <2>2. ~ slipped' => WorkIsOfItsTime'
    BY <1>3, <1>6, <2>1, WorkCarries DEF Quiet, StoryInv
  <2>. QED BY <1>1, <1>2, <1>3, <1>6, <2>2, BooksCarry
<1>7. Booked' /\ (~ slipped' => WorkIsOfItsTime') BY <1>1, <1>4, <1>5, <1>6, StepKinds
<1>. QED BY <1>2, <1>7 DEF StoryInv

-----------------------------------------------------------------------------
(* At rest all that is due is done, and the clock is at its furthest.  Of  *)
(* a retry and a write-off of one moment, the queue tells which was first. *)
First == Presented \cap Tied

LEMMA AtRestIs ==
  ASSUME StoryInv, AtRest
  PROVE  /\ now = reached /\ now \in Int /\ Booked /\ Types
         /\ \A q \in queue : q.at <= now => q.event \in ledger
<1>1. now = reached /\ now \in Int
  BY DEF AtRest, StoryInv, ReplayInv, ClockForward, Types, now
<1>2. \A q \in queue : q.at <= now => q.event \in ledger
  BY DEF AtRest, DueRows, StoryInv, IInv, NothingSwallowed
<1>. QED BY <1>1, <1>2 DEF StoryInv, ReplayInv

LEMMA AtRestPresented ==
  ASSUME StoryInv, ~ slipped, AtRest
  PROVE  Presented = PresentedBy(now, First)
<1>1. WorkIsOfItsTime /\ Booked /\ Types /\ now = reached /\ now \in Int
  BY AtRestIs DEF StoryInv
<1>2. \A a \in Retries : a \in Attempts /\ Time[a] \in Nat BY ReplayAssumption DEF Retries
<1>3. \A w \in WriteOffAt : w \in Nat BY ReplayAssumption DEF WriteOffAt
<1>4. ASSUME NEW a \in Presented PROVE a \in PresentedBy(now, First)
  <2>1. /\ a \in Retries /\ Time[a] <= now
        /\ ~ RecoveredBy(a, Time[a]) /\ \A w \in WriteOffAt : Time[a] <= w
    BY <1>1, PresentedRow
  <2>2. ASSUME NEW w \in WriteOffAt, ~ (Time[a] < w) PROVE Time[a] = w /\ a \in First
    <3>1. Time[a] = w BY <1>2, <1>3, <2>1, <2>2
    <3>. QED BY <2>1, <3>1 DEF First, Tied
  <2>. QED BY <2>1, <2>2 DEF PresentedBy
<1>5. ASSUME NEW a \in PresentedBy(now, First), a \notin Presented PROVE FALSE
  <2>1. /\ a \in Retries /\ Time[a] <= now /\ ~ RecoveredBy(a, Time[a])
        /\ \A w \in WriteOffAt : Time[a] < w
    BY <1>5 DEF PresentedBy, First
  <2>2. row[a] = "scheduled"
    BY <1>1, <1>2, <1>5, <2>1 DEF Booked, QueueIsOfTheWork, WorkIsOfItsTime, Types
  <2>3. ~ Open BY <1>2, <2>1, <2>2, DueAttemptsHas DEF AtRest
  <2>4. PICK w \in WriteOffAt : w <= Time[a] BY <1>1, <2>1, <2>2, <2>3 DEF WorkIsOfItsTime
  <2>. QED BY <1>2, <1>3, <2>1, <2>4
<1>6. PresentedBy(now, First) \subseteq Retries /\ Presented \subseteq Retries
  BY DEF PresentedBy, Presented
<1>. QED BY <1>4, <1>5, <1>6

LEMMA AtRestStatus ==
  ASSUME StoryInv, ~ slipped, AtRest
  PROVE  status = StatusAt(now, First)
<1>1. WorkIsOfItsTime /\ Booked /\ Types /\ now = reached /\ now \in Int
  BY AtRestIs DEF StoryInv
<1>2. status \in {"failed", "recovered", "written_off"} BY <1>1 DEF Types, Closed
<1>3. ASSUME NEW a \in Answers \cap Presented, Time[a] + Settlement <= now
      PROVE  status = "recovered"
  <2>1. PICK q \in queue : q.at = Time[a] + Settlement /\ Cleared(q.event)
    BY <1>1, PresentedRow
  <2>. QED BY <1>1, <1>3, <2>1, AtRestIs DEF WorkIsOfItsTime
<1>4. ASSUME status = "recovered" PROVE \E a \in Answers \cap Presented : Time[a] + Settlement <= now
  <2>1. PICK e \in ledger : Cleared(e) BY <1>1, <1>4 DEF Booked, StatusIsOfTheLedger
  <2>2. PICK q \in queue : q.event = e /\ q.at <= reached BY <1>1 DEF Booked, LedgerIsOfTheQueue
  <2>. QED BY <1>1, <2>1, <2>2, AnswerRow
<1>5. ASSUME status = "written_off" PROVE \E w \in WriteOffAt : w <= now
  <2>1. PICK w \in Attempts : row[w] = "executed" /\ Kind[w] = "write_off"
    BY <1>1, <1>5 DEF Booked, StatusIsOfTheLedger
  <2>2. Time[w] <= now BY <1>1, <2>1 DEF Booked, LedgerIsOfTheQueue
  <2>. QED BY <2>1, <2>2 DEF WriteOffAt
<1>6. ASSUME status = "failed", NEW w \in WriteOffAt, w <= now PROVE FALSE
  <2>1. PICK b \in Attempts : Kind[b] = "write_off" /\ w = Time[b] BY DEF WriteOffAt
  <2>2. Open BY <1>6 DEF Open, Closed
  <2>3. row[b] # "executed" BY <1>1, <2>1, <2>2 DEF Booked, StatusIsOfTheLedger
  <2>4. row[b] = "scheduled" BY <1>1, <2>3 DEF Types, WorkIsOfItsTime
  <2>. QED BY <1>6, <2>1, <2>2, <2>4, DueAttemptsHas DEF AtRest
<1>. QED BY <1>2, <1>3, <1>4, <1>5, <1>6, AtRestPresented DEF StatusAt

LEMMA AtRestFailure ==
  ASSUME StoryInv, AtRest
  PROVE  Failure \in ledger <=> FailsAt <= now
<1>1. Booked /\ now = reached BY AtRestIs
<1>2. ASSUME Failure \in ledger PROVE FailsAt <= now
  <2>1. PICK q \in queue : q.event = Failure /\ q.at <= reached
    BY <1>1, <1>2 DEF Booked, LedgerIsOfTheQueue
  <2>. QED BY <1>1, <2>1 DEF Booked, QueueIsOfTheWork
<1>3. ASSUME FailsAt <= now PROVE Failure \in ledger
  <2>1. PICK q \in queue : q.event = Failure BY <1>1 DEF Booked, QueueIsOfTheWork
  <2>2. q.at = FailsAt BY <1>1, <2>1 DEF Booked, QueueIsOfTheWork
  <2>. QED BY <1>3, <2>1, <2>2, AtRestIs
<1>. QED BY <1>2, <1>3

(* sim/routes.py: the ledger a sixty-day jump produces is the ledger any   *)
(* other way there produces, for every plan, leap, restart and rollback,   *)
(* with the poller executing at any time in between, as long as requests   *)
(* that move the clock come one at a time, and the clock does not slip.    *)
(* While it does not, an open batch is all there is to execute at its      *)
(* moment, on a file that no answer is about to recover, and what was      *)
(* executed is what came before it: so each retry is counted in its place, *)
(* and presented if and only if its time says so.                          *)
THEOREM ReplayTellsOneStory ==
  ASSUME SoleDriver
  PROVE  Spec => []LedgerIsOfItsTime
<1>1. StoryInv => LedgerIsOfItsTime
  <2>. SUFFICES ASSUME StoryInv, AtRest, ~ slipped
                PROVE  /\ \E first \in SUBSET Tied : /\ status = StatusAt(now, first)
                                                    /\ Presented = PresentedBy(now, first)
                       /\ Failure \in ledger <=> FailsAt <= now
    BY DEF LedgerIsOfItsTime
  <2>1. First \in SUBSET Tied BY DEF First
  <2>2. status = StatusAt(now, First) /\ Presented = PresentedBy(now, First)
    BY AtRestPresented, AtRestStatus
  <2>3. Failure \in ledger <=> FailsAt <= now BY AtRestFailure
  <2>. QED BY <2>1, <2>2, <2>3
<1>. QED BY <1>1, InitStory, StepStory, PTL DEF Spec
=============================================================================
