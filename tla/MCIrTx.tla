------------------------------- MODULE MCIrTx -------------------------------
(***************************************************************************)
(* IrTx with two senders and codes of different length and carrier, one of *)
(* them on the default carrier and one that ir_code_is_valid rejects.      *)
(***************************************************************************)
EXTENDS IrTx

Code(v, hz, s) == [valid |-> v, carrier |-> hz, symbols |-> s]
MCCodes == {Code(TRUE, 0, <<"a1", "a2", "a3">>), Code(TRUE, 40, <<"b1", "b2">>),
            Code(FALSE, 40, <<"b1">>)}
=============================================================================
