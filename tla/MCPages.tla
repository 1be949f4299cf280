------------------------------- MODULE MCPages -------------------------------
(***************************************************************************)
(* An instance of Pages for TLC: every table of up to four rows, dated at  *)
(* two moments or not at all, so that rows share a date, read with and     *)
(* without a filter.                                                       *)
(***************************************************************************)
EXTENDS Pages

MCFilters == {Status, {"recovered"}}
=============================================================================
