----------------------------- MODULE MCDueWork -----------------------------
(***************************************************************************)
(* Two workers over the last days of a file: a message, then two retries,  *)
(* the second due together with the write-off.                             *)
(***************************************************************************)
EXTENDS DueWork, TLC

CONSTANTS m, r1, r2, off, w1, w2

MCKind == m :> "other" @@ r1 :> "retry" @@ r2 :> "retry" @@ off :> "write_off"
MCTime == m :> 0 @@ r1 :> 1 @@ r2 :> 2 @@ off :> 2
=============================================================================
