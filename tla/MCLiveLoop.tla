----------------------------- MODULE MCLiveLoop -----------------------------
(***************************************************************************)
(* Instances of LiveLoop for TLC: a failed debit with a ladder of retries, *)
(* an event that cannot be parsed, or one that cannot be linked to a payer, *)
(* and pages of two events.                                                *)
(***************************************************************************)
EXTENDS LiveLoop
=============================================================================
