---------------------------- MODULE MCEInvoicing ----------------------------
(***************************************************************************)
(* Small instances of EInvoicing.  Calls and tasks are model values; they   *)
(* are not declared symmetric, because a run checks a liveness property.    *)
(***************************************************************************)
EXTENDS EInvoicing, TLC
=============================================================================
