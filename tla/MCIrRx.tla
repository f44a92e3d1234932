------------------------------- MODULE MCIrRx -------------------------------
(***************************************************************************)
(* IrRx with two callers and timeouts of a few units of time.  A tick is   *)
(* two units long, so waits are rounded; 0 is out of range.                *)
(***************************************************************************)
EXTENDS IrRx, TLC

MCRequested == {0, 3}
CallerSymmetry == Permutations(Callers)
=============================================================================
