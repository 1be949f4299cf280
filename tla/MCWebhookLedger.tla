--------------------------- MODULE MCWebhookLedger ---------------------------
(***************************************************************************)
(* Instances of WebhookLedger for TLC: small bank-results batches that     *)
(* name the same two payments in different orders, so that sessions meet   *)
(* on events, on payments and on the insertion of new customers.           *)
(***************************************************************************)
EXTENDS WebhookLedger, TLC

CONSTANTS e1, e2, e3, e4, p1, p2, c1, c2, s1, s2

Item(p, c, o) == [payment |-> p, payer |-> c, outcome |-> o]

(* Crossing batches: each session adds the customer the other wants next; *)
(* and one that ends with an entry without a payer, so that it is refused *)
(* unless that payment has a row already.                                 *)
MCBatch ==
  e1 :> <<Item(p1, c1, "dishonoured"), Item(p2, c2, "settled")>> @@
  e2 :> <<Item(p2, c2, "dishonoured"), Item(p1, c1, "settled")>> @@
  e3 :> <<Item(p1, c1, "other"), Item(p2, c2, "dishonoured"), Item(p2, c2, "settled"),
        Item(p1, NoPayer, "dishonoured")>> @@
  e4 :> <<>>
=============================================================================
