--------------------------- MODULE FileLifecycle ---------------------------
(***************************************************************************)
(* What the ledger promises of a failed payment's file, whatever ladder is *)
(* worked on it: it is opened by a dishonour, worked while it is open, and *)
(* closes as paid or lost.  A closed file is not worked on; the answers to *)
(* debits still in flight arrive all the same, and one that cleared makes  *)
(* even a lost file paid.  One step may work on the files of many payments.*)
(***************************************************************************)
EXTENDS Naturals

CONSTANT Payments

VARIABLES file,       \* "absent", "open", "paid" or "lost"
          inFlight    \* debits handed to Pinch and not answered yet

vars == <<file, inFlight>>

Init ==
  /\ file = [p \in Payments |-> "absent"]
  /\ inFlight = [p \in Payments |-> 0]

Open(p) ==
  /\ file[p] = "absent" /\ file'[p] = "open"
  /\ inFlight'[p] = inFlight[p]

Work(p) ==
  /\ file[p] = "open" /\ file'[p] \in {"open", "lost"}
  /\ inFlight'[p] >= inFlight[p]

Answer(p) ==
  /\ inFlight[p] > 0 /\ inFlight'[p] = inFlight[p] - 1
  /\ file'[p] \in {file[p], "paid"}

(* The customer's new details are charged at once. *)
Correct(p) ==
  /\ file[p] = "open" /\ file'[p] = "paid"
  /\ inFlight'[p] = inFlight[p]

Still(p) == file'[p] = file[p] /\ inFlight'[p] = inFlight[p]

Next ==
  /\ file' \in [Payments -> {"absent", "open", "paid", "lost"}]
  /\ inFlight' \in [Payments -> Nat]
  /\ \A p \in Payments : Open(p) \/ Work(p) \/ Answer(p) \/ Correct(p) \/ Still(p)

Spec == Init /\ [][Next]_vars
=============================================================================
