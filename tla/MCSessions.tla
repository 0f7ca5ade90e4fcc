----------------------------- MODULE MCSessions -----------------------------
(***************************************************************************)
(* Small instances of Sessions.  Calls are model values; they are not       *)
(* declared symmetric, because one run checks a liveness property.          *)
(***************************************************************************)
EXTENDS Sessions, TLC
=============================================================================
