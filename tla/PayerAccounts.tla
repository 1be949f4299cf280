--------------------------- MODULE PayerAccounts ---------------------------
(***************************************************************************)
(* services/pinch_client.py, LivePinchClient: the payers, sources and      *)
(* debits its calls make at Pinch one request after the other, against the *)
(* customers table it reads when a call begins and writes when it ends;    *)
(* and api/webhooks.py, which records a debit under the payer the event    *)
(* names.                                                                  *)
(*                                                                         *)
(* A call may stop after any of its requests: refused, unanswered, killed. *)
(* What Pinch has made by then stays there, and the session is rolled back.*)
(* How a repeated request is recognised by its nonce is LiveLoop's.        *)
(***************************************************************************)
CONSTANTS Local,     \* ids of customers made here
          Payers,    \* ids of payers at Pinch; a customer may have one for its key
          Sources,   \* bank accounts of payers
          Debits,    \* payments at Pinch
          Sessions,  \* concurrent calls of the client
          none

Customers == Local \cup Payers

(* The id a caller gives a new customer is not one of Pinch's for a payer. *)
ASSUME AccountsAssumption ==
  /\ Local \cap Payers = {}
  /\ none \notin Customers \cup Sources \cup Debits

VARIABLES
  known,     \* the rows of the customers table
  payer,     \* their pinch_payer_id
  source,    \* their pinch_source_id
  owner,     \* the payment row of a debit: its customer_id
  recovered, \* the payment rows that are recovered
  session,   \* what each call has loaded and been given
  madeFor,   \* Pinch: whose name and e-mail a payer has
  attached,  \* Pinch: the payer of a source
  debit      \* Pinch: whom a payment charges, and what it says it is a retry of

local == <<known, payer, source, owner, recovered>>
pinch == <<madeFor, attached, debit>>
vars  == <<local, session, pinch>>

Debited(d) == debit[d].payer # none

NoCall == [op |-> "idle", customer |-> none, row |-> none,
           payer |-> none, source |-> none, newPayer |-> FALSE, newSource |-> FALSE]

Init ==
  /\ known \in SUBSET Local
  /\ payer = [c \in Customers |-> none] /\ source = [c \in Customers |-> none]
  /\ owner = [d \in Debits |-> none] /\ recovered = {}
  /\ session = [s \in Sessions |-> NoCall]
  /\ madeFor = [p \in Payers |-> none] /\ attached = [x \in Sources |-> none]
  /\ debit = [d \in Debits |-> [payer |-> none, source |-> none, retryOf |-> none]]

-----------------------------------------------------------------------------
(* A call loads the customer as committed, or has just inserted it. *)
Load(s, op, c, d) ==
  /\ session[s].op = "idle"
  /\ session' = [session EXCEPT ![s] =
       [op |-> op, customer |-> c, row |-> d, payer |-> payer[c], source |-> source[c],
        newPayer |-> FALSE, newSource |-> FALSE]]
  /\ UNCHANGED <<local, pinch>>

(* create_test_payment; a second insert of one id waits for the first. *)
BeginTest(s, c) ==
  /\ c \in known \/ (c \in Local /\ \A t \in Sessions : session[t].customer # c)
  /\ Load(s, "test", c, none)

(* update_payment_method. *)
BeginUpdate(s, c) ==
  /\ c \in known
  /\ Load(s, "update", c, none)

(* retry_payment: refused for a recovered payment and without a payer. *)
BeginRetry(s, d) ==
  /\ owner[d] \in known /\ d \notin recovered
  /\ payer[owner[d]] # none
  /\ Load(s, "retry", owner[d], d)

(* POST /payers, if the customer had none when it was loaded. *)
(* Fault: whenever this call has not made one. *)
PayerOfThisCall(s) == session[s].op # "retry" /\ ~ session[s].newPayer
NeedsPayer(s) == session[s].payer = none

PostPayer(s) ==
  /\ session[s].op \in {"test", "update"} /\ ~ session[s].newSource
  /\ NeedsPayer(s)
  /\ \E p \in Payers :
       /\ madeFor[p] = none
       /\ madeFor' = [madeFor EXCEPT ![p] = session[s].customer]
       /\ session' = [session EXCEPT ![s].payer = p, ![s].newPayer = TRUE]
  /\ UNCHANGED <<local, attached, debit>>

(* POST /payers/{id}/sources: a test payment makes one if there is none, *)
(* an update makes one always, and is done.                              *)
PostSource(s) ==
  /\ ~ NeedsPayer(s)
  /\ \/ session[s].op = "update"
     \/ session[s].op = "test" /\ session[s].source = none
  /\ \E x \in Sources :
       /\ attached[x] = none
       /\ attached' = [attached EXCEPT ![x] = session[s].payer]
       /\ session' = [session EXCEPT
            ![s].source = x, ![s].newSource = TRUE,
            ![s].op = IF @ = "update" THEN "saving" ELSE @]
  /\ UNCHANGED <<local, madeFor, debit>>

(* POST /payments, with the source if there is one. *)
PostPayment(s) ==
  /\ ~ NeedsPayer(s)
  /\ \/ session[s].op = "retry"
     \/ session[s].op = "test" /\ session[s].source # none
  /\ \E d \in Debits :
       /\ ~ Debited(d)
       /\ debit' = [debit EXCEPT ![d] =
            [payer |-> session[s].payer, source |-> session[s].source,
             retryOf |-> session[s].row]]
  /\ session' = [session EXCEPT ![s].op = "saving"]
  /\ UNCHANGED <<local, madeFor, attached>>

(* The commit writes the columns this call has set, and no other. *)
Commit(s) ==
  LET call == session[s] IN
  /\ call.op = "saving"
  /\ known' = known \cup {call.customer}
  /\ payer' = [payer EXCEPT ![call.customer] = IF call.newPayer THEN call.payer ELSE @]
  /\ source' = [source EXCEPT ![call.customer] = IF call.newSource THEN call.source ELSE @]
  /\ session' = [session EXCEPT ![s] = NoCall]
  /\ UNCHANGED <<owner, recovered, pinch>>

Stop(s) ==
  /\ session[s].op # "idle"
  /\ session' = [session EXCEPT ![s] = NoCall]
  /\ UNCHANGED <<local, pinch>>

-----------------------------------------------------------------------------
(* _resolve_customer: the payer's id is the key of its customer here. *)
(* Fault: the customer whose e-mail address the payer has. *)
SameAddress(p) == madeFor[p]
CustomerOf(p) == p

(* ingest_pinch_webhook: the result of a debit that has no row yet. *)
Ingest(d, cleared) ==
  /\ Debited(d) /\ owner[d] = none
  /\ LET c == CustomerOf(debit[d].payer) IN
     /\ known' = known \cup {c}
     /\ payer' = [payer EXCEPT ![c] = IF @ = none THEN debit[d].payer ELSE @]
     /\ owner' = [owner EXCEPT ![d] = c]
  /\ recovered' = IF cleared THEN recovered \cup {d} ELSE recovered
  /\ UNCHANGED <<source, session, pinch>>

Call(s) ==
  \/ \E c \in Customers : BeginTest(s, c)
  \/ \E c \in Customers : BeginUpdate(s, c)
  \/ \E d \in Debits : BeginRetry(s, d)
  \/ PostPayer(s)
  \/ PostSource(s)
  \/ PostPayment(s)
  \/ Commit(s)
  \/ Stop(s)

Next ==
  \/ \E s \in Sessions : Call(s)
  \/ \E d \in Debits, cleared \in BOOLEAN : Ingest(d, cleared)

Spec == Init /\ [][Next]_vars

-----------------------------------------------------------------------------
CallType ==
  [op : {"idle", "test", "update", "retry", "saving"},
   customer : Customers \cup {none}, row : Debits \cup {none},
   payer : Payers \cup {none}, source : Sources \cup {none},
   newPayer : BOOLEAN, newSource : BOOLEAN]

(* Types of the tables, of the calls and of what is at Pinch. *)
TypeOK ==
  /\ known \subseteq Customers
  /\ payer \in [Customers -> Payers \cup {none}]
  /\ source \in [Customers -> Sources \cup {none}]
  /\ owner \in [Debits -> Customers \cup {none}]
  /\ recovered \subseteq Debits
  /\ session \in [Sessions -> CallType]
  /\ madeFor \in [Payers -> Customers \cup {none}]
  /\ attached \in [Sources -> Payers \cup {none}]
  /\ debit \in [Debits -> [payer : Payers \cup {none}, source : Sources \cup {none},
                           retryOf : Debits \cup {none}]]

(* webhooks.py, _resolve_customer: whatever calls, races and failures made  *)
(* and changed payers meanwhile, the customer a payment is recorded under   *)
(* keeps the payer that was debited, so that the next call knows whom to    *)
(* charge.                                                                  *)
RowOwedByItsPayer ==
  \A d \in Debits : owner[d] # none =>
    owner[d] \in known /\ payer[owner[d]] = debit[d].payer

(* retry_payment: a retry charges whom the failed debit charged, and an     *)
(* account of theirs, though both are copied when the call begins and other *)
(* calls write the customer's row before it ends.                           *)
RetryChargesItsPayer ==
  \A d \in Debits : debit[d].retryOf # none =>
    /\ debit[d].payer = debit[debit[d].retryOf].payer
    /\ debit[d].source # none => attached[debit[d].source] = debit[d].payer
=============================================================================
