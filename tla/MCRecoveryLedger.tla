-------------------------- MODULE MCRecoveryLedger --------------------------
(***************************************************************************)
(* Instances of RecoveryLedger for TLC, with the real plans: a customer    *)
(* whose debits fail on Thursday, 15 January 2026 at 10:00 local time.     *)
(***************************************************************************)
EXTENDS RecoveryLedger

MCStart == Instant(Date(2026, 1, 15), 10)
MCHolidays == [y \in 2025..2027 |-> Holidays(y)]

(* The bank may give any reason again, whatever it gave before. *)
MCAnyAnswer == [c \in Codes |-> Codes]

CONSTANTS p1, p2
=============================================================================
