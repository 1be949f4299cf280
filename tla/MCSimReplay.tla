---------------------------- MODULE MCSimReplay ----------------------------
(***************************************************************************)
(* Two retries and a write-off: the second retry and the write-off are due *)
(* at one moment, which is also when the first retry is answered; the      *)
(* second is answered after it.                                            *)
(***************************************************************************)
EXTENDS SimReplay, TLC

CONSTANTS r1, r2, off, d1, c1

MCKind == r1 :> "retry" @@ r2 :> "retry" @@ off :> "write_off"
MCTime == r1 :> 4 @@ r2 :> 12 @@ off :> 12

(* The first retry clears, the second, or the second only as a first one:  *)
(* when it shares its batch with the one before.                           *)
MCMinds == {{<<r1, 0>>}, {<<r2, 1>>}, {<<r2, 0>>}}
=============================================================================
