---------------------------- MODULE MCIrProtocol ----------------------------
(***************************************************************************)
(* IrProtocol with payloads of at most two units.  The host sends requests *)
(* intact and damaged (a wrong CRC, a length altered to a plausible one    *)
(* and to one too long, a lost unit), a response and stray bytes.  No      *)
(* payload holds a whole packet.                                           *)
(***************************************************************************)
EXTENDS IrProtocol

Request(command, length) == Fields(command, 1, FALSE, TRUE, length)
Ping  == Packet(Request("PING", 0), <<>>)
Read  == Packet(Request("READ", 0), <<>>)
Write == Packet(Request("WRITE", 2), <<I, R>>)
Odd   == Packet(Fields("PING", 2, FALSE, FALSE, 0), <<>>)
Reply == Packet(Fields("PING", 1, TRUE, TRUE, 0), <<>>)

WithLength(m, n) == [m EXCEPT ![3].length = n]
Lossy(m, i) == RemoveAt(m, i)

MCMessages ==
  {Ping, Read, Write, Odd, Reply,
   [Write EXCEPT ![5] = Byte("bad")], WithLength(Ping, 1), WithLength(Ping, 2),
   WithLength(Ping, 3), Lossy(Write, 4), Lossy(Ping, 2), <<I>>}
=============================================================================
