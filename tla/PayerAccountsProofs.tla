------------------------ MODULE PayerAccountsProofs ------------------------
(***************************************************************************)
(* A customer whose key is a payer's id keeps that payer, for any number   *)
(* of concurrent calls, payers, sources and debits: a call writes only     *)
(* what it made, and it makes a payer only for a customer that has none.   *)
(***************************************************************************)
EXTENDS PayerAccounts, TLAPS

(* Rows are recorded under the debited payer's own key. *)
RowsByPayer ==
  \A d \in Debits : owner[d] # none =>
    Debited(d) /\ owner[d] = debit[d].payer /\ owner[d] \in known

(* Such a customer has its key for payer, and an account of that payer's. *)
KeyedByPayer ==
  \A p \in Payers :
    /\ payer[p] \in {p, none}
    /\ p \in known => payer[p] = p
    /\ source[p] # none => attached[source[p]] = p

(* So has every copy of it that a call has loaded. *)
CallsOnPayers ==
  \A s \in Sessions : session[s].customer \in Payers =>
    /\ session[s].customer \in known
    /\ session[s].payer = session[s].customer
    /\ session[s].newPayer = FALSE
    /\ session[s].source # none => attached[session[s].source] = session[s].customer

(* A retry is of a recorded row, and no other call is. *)
CallsOnRows ==
  \A s \in Sessions :
    /\ session[s].op = "retry" =>
         session[s].row \in Debits /\ owner[session[s].row] = session[s].customer
    /\ session[s].op = "test" => session[s].row = none
    /\ session[s].op # "idle" => session[s].customer \in Customers
    /\ session[s].op = "retry" => session[s].customer \in Payers

Retried ==
  /\ RetryChargesItsPayer
  /\ \A d \in Debits : debit[d].retryOf # none => Debited(d) /\ Debited(debit[d].retryOf)

IInv == TypeOK /\ RowsByPayer /\ KeyedByPayer /\ CallsOnPayers /\ CallsOnRows /\ Retried

-----------------------------------------------------------------------------
LEMMA InitHolds == Init => IInv
<1>. SUFFICES ASSUME Init PROVE IInv OBVIOUS
<1>1. TypeOK BY AccountsAssumption DEF Init, TypeOK, CallType, NoCall, Customers
<1>2. RowsByPayer BY DEF Init, RowsByPayer
<1>3. KeyedByPayer BY AccountsAssumption DEF Init, KeyedByPayer, Customers
<1>4. CallsOnPayers BY AccountsAssumption DEF Init, CallsOnPayers, NoCall, Customers
<1>5. CallsOnRows BY AccountsAssumption DEF Init, CallsOnRows, NoCall
<1>6. Retried BY DEF Init, Retried, RetryChargesItsPayer
<1>. QED BY <1>1, <1>2, <1>3, <1>4, <1>5, <1>6 DEF IInv

(* A call begins with what is committed. *)
LEMMA LoadHolds ==
  ASSUME IInv, NEW s \in Sessions, NEW op \in {"test", "update", "retry"},
         NEW c \in Customers, NEW d \in Debits \cup {none}, Load(s, op, c, d),
         c \in Payers => c \in known,
         op = "retry" => d \in Debits /\ owner[d] = c /\ c \in Payers,
         op = "test" => d = none
  PROVE  IInv'
<1>. USE DEF IInv
<1>1. TypeOK' BY DEF Load, TypeOK, CallType, local, pinch
<1>2. /\ session'[s].op = op /\ session'[s].customer = c /\ session'[s].row = d
      /\ session'[s].payer = payer[c] /\ session'[s].source = source[c]
      /\ session'[s].newPayer = FALSE
      /\ \A t \in Sessions \ {s} : session'[t] = session[t]
  BY DEF Load, TypeOK
<1>3. UNCHANGED <<local, pinch>> BY DEF Load
<1>4. RowsByPayer' BY <1>3 DEF RowsByPayer, Debited, local, pinch
<1>5. KeyedByPayer' BY <1>3 DEF KeyedByPayer, local, pinch
<1>6. CallsOnPayers'
  <2>. SUFFICES ASSUME NEW t \in Sessions, session'[t].customer \in Payers
       PROVE  /\ session'[t].customer \in known
              /\ session'[t].payer = session'[t].customer
              /\ session'[t].newPayer = FALSE
              /\ session'[t].source # none => attached[session'[t].source] = session'[t].customer
    BY <1>3 DEF CallsOnPayers, local, pinch
  <2>1. CASE t = s BY <1>2, <2>1 DEF KeyedByPayer
  <2>2. CASE t # s BY <1>2, <2>2 DEF CallsOnPayers
  <2>. QED BY <2>1, <2>2
<1>7. CallsOnRows'
  <2>1. \A t \in Sessions \ {s} : session'[t] = session[t] BY <1>2
  <2>. QED BY <1>2, <1>3, <2>1 DEF CallsOnRows, local
<1>8. Retried' BY <1>3 DEF Retried, RetryChargesItsPayer, Debited, pinch
<1>. QED BY <1>1, <1>4, <1>5, <1>6, <1>7, <1>8

LEMMA PostPayerHolds ==
  ASSUME IInv, NEW s \in Sessions, PostPayer(s)
  PROVE  IInv'
<1>. USE DEF IInv
<1>1. PICK p \in Payers :
        /\ madeFor' = [madeFor EXCEPT ![p] = session[s].customer]
        /\ session' = [session EXCEPT ![s].payer = p, ![s].newPayer = TRUE]
  BY DEF PostPayer
<1>2. TypeOK'
  <2>1. session[s] \in CallType /\ session[s].customer \in Customers \cup {none}
    BY DEF TypeOK, CallType
  <2>2. [session[s] EXCEPT !.payer = p, !.newPayer = TRUE] \in CallType
    BY <2>1 DEF CallType
  <2>3. session' \in [Sessions -> CallType] BY <1>1, <2>2 DEF TypeOK
  <2>4. madeFor' \in [Payers -> Customers \cup {none}] BY <1>1, <2>1 DEF TypeOK
  <2>. QED BY <2>3, <2>4 DEF PostPayer, TypeOK, local
<1>3. /\ session[s].op # "retry" /\ session[s].payer = none
      /\ session'[s].op = session[s].op /\ session'[s].row = session[s].row
      /\ session'[s].customer = session[s].customer
      /\ \A t \in Sessions \ {s} : session'[t] = session[t]
  BY <1>1 DEF PostPayer, NeedsPayer, TypeOK, CallType
<1>4. session[s].customer \notin Payers BY <1>3, AccountsAssumption DEF CallsOnPayers, Customers
<1>5. UNCHANGED <<local, attached, debit>> BY DEF PostPayer
<1>6. RowsByPayer' BY <1>5 DEF RowsByPayer, Debited, local
<1>7. KeyedByPayer' BY <1>5 DEF KeyedByPayer, local
<1>8. CallsOnPayers'
  <2>. SUFFICES ASSUME NEW t \in Sessions, session'[t].customer \in Payers
       PROVE  t # s
    BY <1>3, <1>5 DEF CallsOnPayers, local
  <2>. QED BY <1>3, <1>4
<1>9. CallsOnRows'
  <2>. SUFFICES ASSUME NEW t \in Sessions
       PROVE  /\ session'[t].op = session[t].op /\ session'[t].row = session[t].row
              /\ session'[t].customer = session[t].customer
    BY <1>5 DEF CallsOnRows, local
  <2>. QED BY <1>3
<1>10. Retried' BY <1>5 DEF Retried, RetryChargesItsPayer, Debited
<1>. QED BY <1>2, <1>6, <1>7, <1>8, <1>9, <1>10

LEMMA PostSourceHolds ==
  ASSUME IInv, NEW s \in Sessions, PostSource(s)
  PROVE  IInv'
<1>. USE DEF IInv
<1>1. PICK x \in Sources :
        /\ attached[x] = none
        /\ attached' = [attached EXCEPT ![x] = session[s].payer]
        /\ session' = [session EXCEPT
             ![s].source = x, ![s].newSource = TRUE,
             ![s].op = IF @ = "update" THEN "saving" ELSE @]
  BY DEF PostSource
<1>2. TypeOK'
  <2>1. session[s] \in CallType /\ session[s].payer \in Payers \cup {none}
    BY DEF TypeOK, CallType
  <2>2. \A op \in {session[s].op, "saving"} :
          [session[s] EXCEPT !.source = x, !.newSource = TRUE, !.op = op] \in CallType
    BY <2>1 DEF CallType
  <2>3. session' \in [Sessions -> CallType] BY <1>1, <2>2 DEF TypeOK
  <2>4. attached' \in [Sources -> Payers \cup {none}] BY <1>1, <2>1 DEF TypeOK
  <2>. QED BY <2>3, <2>4 DEF PostSource, TypeOK, local
<1>3. /\ session[s].op \in {"test", "update"}
      /\ session'[s].op \in {session[s].op, "saving"} /\ session'[s].row = session[s].row
      /\ session'[s].customer = session[s].customer /\ session'[s].payer = session[s].payer
      /\ session'[s].newPayer = session[s].newPayer /\ session'[s].source = x
      /\ \A t \in Sessions \ {s} : session'[t] = session[t]
  BY <1>1 DEF PostSource, TypeOK, CallType
<1>4. UNCHANGED <<local, madeFor, debit>> BY DEF PostSource
<1>5. \A y \in Sources : attached[y] # none => attached'[y] = attached[y]
  BY <1>1 DEF TypeOK
<1>6. RowsByPayer' BY <1>4 DEF RowsByPayer, Debited, local
<1>7. KeyedByPayer'
  <2>. SUFFICES ASSUME NEW p \in Payers, source[p] # none
       PROVE  attached'[source[p]] = p
    BY <1>4 DEF KeyedByPayer, local
  <2>1. source[p] \in Sources /\ attached[source[p]] = p
    BY DEF KeyedByPayer, TypeOK, Customers
  <2>. QED BY <1>5, <2>1, AccountsAssumption DEF Customers
<1>8. CallsOnPayers'
  <2>. SUFFICES ASSUME NEW t \in Sessions, session'[t].customer \in Payers
       PROVE  /\ session'[t].customer \in known
              /\ session'[t].payer = session'[t].customer
              /\ session'[t].newPayer = FALSE
              /\ session'[t].source # none => attached'[session'[t].source] = session'[t].customer
    BY <1>4 DEF CallsOnPayers, local
  <2>1. CASE t = s
    <3>1. attached'[x] = session[s].payer BY <1>1 DEF TypeOK
    <3>. QED BY <1>3, <2>1, <3>1 DEF CallsOnPayers
  <2>2. CASE t # s
    <3>1. session'[t] = session[t] BY <1>3, <2>2
    <3>2. session[t].source \in Sources \cup {none} BY DEF TypeOK, CallType
    <3>. QED BY <1>5, <3>1, <3>2, AccountsAssumption DEF CallsOnPayers, Customers
  <2>. QED BY <2>1, <2>2
<1>9. CallsOnRows'
  <2>. SUFFICES ASSUME NEW t \in Sessions
       PROVE  /\ session'[t].op \in {session[t].op, "saving"}
              /\ session'[t].op = "saving" => session[t].op # "idle"
              /\ session'[t].row = session[t].row
              /\ session'[t].customer = session[t].customer
    BY <1>4 DEF CallsOnRows, local
  <2>1. CASE t = s BY <1>3, <2>1
  <2>2. CASE t # s BY <1>3, <2>2
  <2>. QED BY <2>1, <2>2
<1>10. Retried'
  <2>. SUFFICES ASSUME NEW d \in Debits, debit[d].retryOf # none, debit[d].source # none
       PROVE  attached'[debit[d].source] = debit[d].payer
    BY <1>4 DEF Retried, RetryChargesItsPayer, Debited
  <2>1. debit[d].source \in Sources /\ debit[d].payer # none BY DEF TypeOK, Retried, Debited
  <2>2. attached[debit[d].source] = debit[d].payer BY DEF Retried, RetryChargesItsPayer
  <2>. QED BY <1>5, <2>1, <2>2
<1>. QED BY <1>2, <1>6, <1>7, <1>8, <1>9, <1>10

LEMMA PostPaymentHolds ==
  ASSUME IInv, NEW s \in Sessions, PostPayment(s)
  PROVE  IInv'
<1>. USE DEF IInv
<1>1. PICK n \in Debits :
        /\ ~ Debited(n)
        /\ debit' = [debit EXCEPT ![n] =
             [payer |-> session[s].payer, source |-> session[s].source,
              retryOf |-> session[s].row]]
  BY DEF PostPayment
<1>2. /\ session[s] \in CallType /\ session[s].payer # none
      /\ session[s].op \in {"retry", "test"}
      /\ session' = [session EXCEPT ![s].op = "saving"]
  BY DEF PostPayment, NeedsPayer, TypeOK
<1>3. UNCHANGED <<local, madeFor, attached>> BY DEF PostPayment
<1>4. /\ debit'[n].payer = session[s].payer /\ debit'[n].source = session[s].source
      /\ debit'[n].retryOf = session[s].row
      /\ \A d \in Debits \ {n} : debit'[d] = debit[d]
  BY <1>1 DEF TypeOK
<1>5. TypeOK'
  <2>1. [session[s] EXCEPT !.op = "saving"] \in CallType BY <1>2 DEF CallType
  <2>2. session' \in [Sessions -> CallType] BY <1>2, <2>1 DEF TypeOK
  <2>3. debit' \in [Debits -> [payer : Payers \cup {none}, source : Sources \cup {none},
                               retryOf : Debits \cup {none}]]
    BY <1>1, <1>2 DEF TypeOK, CallType
  <2>. QED BY <1>3, <2>2, <2>3 DEF TypeOK, local
<1>6. RowsByPayer' BY <1>1, <1>3, <1>4 DEF RowsByPayer, Debited, local
<1>7. KeyedByPayer' BY <1>3 DEF KeyedByPayer, local
<1>8. \A t \in Sessions :
        /\ session'[t].customer = session[t].customer /\ session'[t].row = session[t].row
        /\ session'[t].payer = session[t].payer /\ session'[t].source = session[t].source
        /\ session'[t].newPayer = session[t].newPayer
        /\ session'[t].op \in {session[t].op, "saving"}
        /\ session'[t].op = "saving" => session[t].op # "idle"
  <2>1. session'[s] = [session[s] EXCEPT !.op = "saving"] BY <1>2 DEF TypeOK
  <2>2. \A t \in Sessions \ {s} : session'[t] = session[t] BY <1>2 DEF TypeOK
  <2>3. session'[s].customer = session[s].customer /\ session'[s].row = session[s].row
        /\ session'[s].payer = session[s].payer /\ session'[s].source = session[s].source
        /\ session'[s].newPayer = session[s].newPayer /\ session'[s].op = "saving"
    BY <1>2, <2>1 DEF CallType
  <2>. QED BY <1>2, <2>2, <2>3
<1>9. CallsOnPayers' BY <1>3, <1>8 DEF CallsOnPayers, local
<1>10. CallsOnRows' BY <1>3, <1>8 DEF CallsOnRows, local
<1>11. Retried'
  <2>. SUFFICES ASSUME NEW d \in Debits, debit'[d].retryOf # none
       PROVE  /\ debit'[d].payer # none
              /\ debit'[debit'[d].retryOf].payer # none
              /\ debit'[d].payer = debit'[debit'[d].retryOf].payer
              /\ debit'[d].source # none => attached'[debit'[d].source] = debit'[d].payer
    BY DEF Retried, RetryChargesItsPayer, Debited
  <2>1. CASE d = n
    <3>1. /\ session[s].op = "retry" /\ session[s].row \in Debits
          /\ owner[session[s].row] = session[s].customer /\ session[s].customer \in Payers
      BY <1>2, <1>4, <2>1 DEF CallsOnRows
    <3>2. /\ Debited(session[s].row)
          /\ debit[session[s].row].payer = session[s].payer
          /\ session[s].source # none => attached[session[s].source] = session[s].payer
      BY <3>1, AccountsAssumption DEF RowsByPayer, CallsOnPayers, Customers
    <3>3. session[s].row # n BY <1>1, <3>2
    <3>. QED BY <1>2, <1>3, <1>4, <2>1, <3>1, <3>2, <3>3 DEF Debited
  <2>2. CASE d # n
    <3>1. /\ debit'[d] = debit[d]
          /\ Debited(d) /\ Debited(debit[d].retryOf)
          /\ debit[d].retryOf \in Debits
      BY <1>4, <2>2 DEF Retried, TypeOK
    <3>2. debit'[debit[d].retryOf] = debit[debit[d].retryOf] BY <1>1, <1>4, <3>1
    <3>. QED BY <1>3, <3>1, <3>2 DEF Retried, RetryChargesItsPayer, Debited
  <2>. QED BY <2>1, <2>2
<1>. QED BY <1>5, <1>6, <1>7, <1>9, <1>10, <1>11

(* A call that is over has nothing to keep. *)
LEMMA Forgotten ==
  ASSUME IInv, NEW s \in Sessions, session' = [session EXCEPT ![s] = NoCall],
         known \subseteq known', UNCHANGED <<owner, attached>>
  PROVE  CallsOnPayers' /\ CallsOnRows' /\ session' \in [Sessions -> CallType]
<1>1. NoCall \in CallType BY DEF NoCall, CallType
<1>2. session'[s] = NoCall /\ \A t \in Sessions \ {s} : session'[t] = session[t]
  BY DEF IInv, TypeOK
<1>3. NoCall.customer \notin Payers /\ NoCall.op = "idle"
  BY AccountsAssumption DEF NoCall, Customers
<1>4. CallsOnPayers'
  <2>. SUFFICES ASSUME NEW t \in Sessions, session'[t].customer \in Payers
       PROVE  session'[t] = session[t]
    BY DEF CallsOnPayers, IInv
  <2>. QED BY <1>2, <1>3
<1>5. CallsOnRows'
  <2>. SUFFICES ASSUME NEW t \in Sessions
       PROVE  session'[t] = session[t] \/ session'[t].op = "idle"
    BY DEF CallsOnRows, IInv
  <2>. QED BY <1>2, <1>3
<1>6. session' \in [Sessions -> CallType] BY <1>1 DEF IInv, TypeOK
<1>. QED BY <1>4, <1>5, <1>6

LEMMA CommitHolds ==
  ASSUME IInv, NEW s \in Sessions, Commit(s)
  PROVE  IInv'
<1>. USE DEF IInv
<1>0. DEFINE call == session[s]
<1>1. call \in CallType /\ call.customer \in Customers
  BY DEF Commit, TypeOK, CallsOnRows
<1>2. /\ known' = known \cup {call.customer}
      /\ payer' = [payer EXCEPT ![call.customer] = IF call.newPayer THEN call.payer ELSE @]
      /\ source' = [source EXCEPT ![call.customer] = IF call.newSource THEN call.source ELSE @]
      /\ session' = [session EXCEPT ![s] = NoCall]
      /\ UNCHANGED <<owner, recovered, madeFor, attached, debit>>
  BY DEF Commit, pinch
<1>3. CallsOnPayers' /\ CallsOnRows' /\ session' \in [Sessions -> CallType]
  BY <1>2, Forgotten
<1>4. TypeOK'
  <2>1. payer' \in [Customers -> Payers \cup {none}] BY <1>1, <1>2 DEF TypeOK, CallType
  <2>2. source' \in [Customers -> Sources \cup {none}] BY <1>1, <1>2 DEF TypeOK, CallType
  <2>3. known' \subseteq Customers BY <1>1, <1>2 DEF TypeOK
  <2>. QED BY <1>2, <1>3, <2>1, <2>2, <2>3 DEF TypeOK
<1>5. RowsByPayer' BY <1>2 DEF RowsByPayer, Debited
<1>6. KeyedByPayer'
  <2>. SUFFICES ASSUME NEW p \in Payers
       PROVE  /\ payer'[p] \in {p, none}
              /\ p \in known' => payer'[p] = p
              /\ source'[p] # none => attached'[source'[p]] = p
    BY DEF KeyedByPayer
  <2>0. p \in Customers BY DEF Customers
  <2>1. CASE p = call.customer
    <3>1. /\ p \in known /\ call.payer = p /\ call.newPayer = FALSE
          /\ call.source # none => attached[call.source] = p
      BY <2>1 DEF CallsOnPayers
    <3>2. payer'[p] = payer[p] BY <1>2, <2>0, <2>1, <3>1 DEF TypeOK
    <3>3. source'[p] \in {source[p], call.source} BY <1>2, <2>0, <2>1 DEF TypeOK
    <3>. QED BY <1>2, <3>1, <3>2, <3>3 DEF KeyedByPayer
  <2>2. CASE p # call.customer
    <3>1. payer'[p] = payer[p] /\ source'[p] = source[p] BY <1>2, <2>0, <2>2 DEF TypeOK
    <3>. QED BY <1>2, <2>2, <3>1 DEF KeyedByPayer
  <2>. QED BY <2>1, <2>2
<1>7. Retried' BY <1>2 DEF Retried, RetryChargesItsPayer, Debited
<1>. QED BY <1>3, <1>4, <1>5, <1>6, <1>7

LEMMA StopHolds ==
  ASSUME IInv, NEW s \in Sessions, Stop(s)
  PROVE  IInv'
<1>1. UNCHANGED <<local, pinch>> /\ session' = [session EXCEPT ![s] = NoCall] BY DEF Stop
<1>2. CallsOnPayers' /\ CallsOnRows' /\ session' \in [Sessions -> CallType]
  BY <1>1, Forgotten DEF local, pinch
<1>3. TypeOK' BY <1>1, <1>2 DEF IInv, TypeOK, local, pinch
<1>4. RowsByPayer' /\ KeyedByPayer' /\ Retried'
  BY <1>1 DEF IInv, RowsByPayer, KeyedByPayer, Retried, RetryChargesItsPayer, Debited, local, pinch
<1>. QED BY <1>2, <1>3, <1>4 DEF IInv

LEMMA IngestHolds ==
  ASSUME IInv, NEW d \in Debits, NEW cleared \in BOOLEAN, Ingest(d, cleared)
  PROVE  IInv'
<1>. USE DEF IInv
<1>0. DEFINE c == debit[d].payer
<1>1. c \in Payers /\ c \in Customers /\ owner[d] = none /\ Debited(d)
  BY DEF Ingest, Debited, TypeOK, Customers
<1>2. /\ known' = known \cup {c}
      /\ payer' = [payer EXCEPT ![c] = IF @ = none THEN c ELSE @]
      /\ owner' = [owner EXCEPT ![d] = c]
      /\ recovered' \subseteq recovered \cup {d}
      /\ UNCHANGED <<source, session, madeFor, attached, debit>>
  BY DEF Ingest, CustomerOf, pinch
<1>3. TypeOK'
  <2>1. payer' \in [Customers -> Payers \cup {none}] BY <1>1, <1>2 DEF TypeOK
  <2>2. owner' \in [Debits -> Customers \cup {none}] BY <1>1, <1>2 DEF TypeOK
  <2>3. known' \subseteq Customers /\ recovered' \subseteq Debits BY <1>1, <1>2 DEF TypeOK
  <2>. QED BY <1>2, <2>1, <2>2, <2>3 DEF TypeOK
<1>4. owner'[d] = c /\ \A e \in Debits \ {d} : owner'[e] = owner[e]
  BY <1>2 DEF TypeOK
<1>5. RowsByPayer' BY <1>1, <1>2, <1>4 DEF RowsByPayer, Debited
<1>6. KeyedByPayer'
  <2>. SUFFICES ASSUME NEW p \in Payers
       PROVE  payer'[p] \in {p, none} /\ (p \in known' => payer'[p] = p)
    BY <1>2 DEF KeyedByPayer
  <2>1. payer'[c] = c BY <1>1, <1>2 DEF KeyedByPayer, TypeOK
  <2>2. p # c => payer'[p] = payer[p] BY <1>2 DEF TypeOK, Customers
  <2>. QED BY <1>2, <2>1, <2>2 DEF KeyedByPayer
<1>7. CallsOnPayers' BY <1>2 DEF CallsOnPayers
<1>8. CallsOnRows'
  <2>1. \A e \in Debits : owner[e] # none => owner'[e] = owner[e] BY <1>1, <1>4
  <2>2. \A s \in Sessions : session[s].op = "retry" =>
          owner[session[s].row] # none /\ session[s].row \in Debits
    BY AccountsAssumption DEF CallsOnRows, Customers
  <2>. QED BY <1>2, <2>1, <2>2 DEF CallsOnRows
<1>9. Retried' BY <1>2 DEF Retried, RetryChargesItsPayer, Debited
<1>. QED BY <1>3, <1>5, <1>6, <1>7, <1>8, <1>9

LEMMA NextHolds == IInv /\ [Next]_vars => IInv'
<1>. SUFFICES ASSUME IInv, [Next]_vars PROVE IInv' OBVIOUS
<1>1. ASSUME NEW s \in Sessions, NEW c \in Customers, BeginTest(s, c) PROVE IInv'
  <2>1. c \in Payers => c \in known BY <1>1, AccountsAssumption DEF BeginTest
  <2>. QED BY <1>1, <2>1, LoadHolds DEF BeginTest
<1>2. ASSUME NEW s \in Sessions, NEW c \in Customers, BeginUpdate(s, c) PROVE IInv'
  BY <1>2, LoadHolds DEF BeginUpdate
<1>3. ASSUME NEW s \in Sessions, NEW d \in Debits, BeginRetry(s, d) PROVE IInv'
  <2>1. /\ owner[d] \in known /\ owner[d] \in Customers /\ owner[d] \in Payers
    BY <1>3, AccountsAssumption DEF BeginRetry, IInv, RowsByPayer, Debited, TypeOK, Customers
  <2>2. Load(s, "retry", owner[d], d) BY <1>3 DEF BeginRetry
  <2>. QED BY <2>1, <2>2, LoadHolds
<1>4. ASSUME NEW s \in Sessions, PostPayer(s) PROVE IInv' BY <1>4, PostPayerHolds
<1>5. ASSUME NEW s \in Sessions, PostSource(s) PROVE IInv' BY <1>5, PostSourceHolds
<1>6. ASSUME NEW s \in Sessions, PostPayment(s) PROVE IInv' BY <1>6, PostPaymentHolds
<1>7. ASSUME NEW s \in Sessions, Commit(s) PROVE IInv' BY <1>7, CommitHolds
<1>8. ASSUME NEW s \in Sessions, Stop(s) PROVE IInv' BY <1>8, StopHolds
<1>9. ASSUME NEW d \in Debits, NEW cleared \in BOOLEAN, Ingest(d, cleared) PROVE IInv'
  BY <1>9, IngestHolds
<1>10. CASE UNCHANGED vars
  BY <1>10 DEF vars, local, pinch, IInv, TypeOK, RowsByPayer, KeyedByPayer, CallsOnPayers,
               CallsOnRows, Retried, RetryChargesItsPayer, Debited
<1>. QED
  BY <1>1, <1>2, <1>3, <1>4, <1>5, <1>6, <1>7, <1>8, <1>9, <1>10 DEF Next, Call

-----------------------------------------------------------------------------
(* The customer a payment is recorded under keeps the payer that was *)
(* debited, however calls, refusals and results interleave.          *)
THEOREM RowsKeepTheirPayer == Spec => []RowOwedByItsPayer
<1>1. IInv => RowOwedByItsPayer
  BY DEF IInv, RowsByPayer, KeyedByPayer, RowOwedByItsPayer, Debited, TypeOK
<1>. QED BY <1>1, InitHolds, NextHolds, PTL DEF Spec

(* A retry charges the payer of the failed debit, and an account of theirs. *)
THEOREM RetriesChargeTheirPayer == Spec => []RetryChargesItsPayer
<1>1. IInv => RetryChargesItsPayer BY DEF IInv, Retried
<1>. QED BY <1>1, InitHolds, NextHolds, PTL DEF Spec
=============================================================================
