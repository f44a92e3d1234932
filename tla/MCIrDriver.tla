------------------------------ MODULE MCIrDriver ------------------------------
(***************************************************************************)
(* IrDriver with two files that read with different counts, and a device   *)
(* that comes back once.                                                   *)
(***************************************************************************)
EXTENDS IrDriver, TLC

CONSTANTS f1, f2

MCFiles == {f1, f2}
MCCount == (f1 :> 1) @@ (f2 :> 2)
=============================================================================
