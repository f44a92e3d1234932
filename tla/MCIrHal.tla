------------------------------- MODULE MCIrHal -------------------------------
(***************************************************************************)
(* IrHal with two binder threads, a READ and a WRITE, and one call more    *)
(* than there are sequence numbers, so that a number comes back.           *)
(***************************************************************************)
EXTENDS IrHal

MCCommands == {"READ", "WRITE"}
MCSeqModulus == 2
MCMaxCalls == 3
=============================================================================
