-------------------------- MODULE MCPayerAccounts --------------------------
(***************************************************************************)
(* Two local customers, and payers, sources and debits enough for two      *)
(* calls that make their own of each and one after them.                   *)
(***************************************************************************)
EXTENDS PayerAccounts, TLC

Symmetry == Permutations(Local) \cup Permutations(Payers) \cup Permutations(Sources)
            \cup Permutations(Debits) \cup Permutations(Sessions)
=============================================================================
