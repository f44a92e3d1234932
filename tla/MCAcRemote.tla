------------------------------ MODULE MCAcRemote ------------------------------
(***************************************************************************)
(* AcRemote with two commands, one brand and two controls; the app starts  *)
(* with nothing saved, or with the state of an older version.              *)
(***************************************************************************)
EXTENDS AcRemote

CONSTANTS c1, c2, b1

MCCommands == {c1, c2}
MCBrands == {b1}

\* One control without a brand, and without a temperature and a power of its own; the
\* temperature of the state is out of range.
MCLegacy == {[controls |-> <<[id |-> 1, brand |-> Blank, irCommands |-> MCCommands]>>,
              activeControlId |-> 1, nextControlId |-> 1, temperature |-> 3, isOn |-> FALSE]}
=============================================================================
