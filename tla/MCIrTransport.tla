---------------------------- MODULE MCIrTransport ----------------------------
(***************************************************************************)
(* IrTransport with a ring of five bytes, chunks of three and reads of     *)
(* two, so that a chunk may take two reads and both the ring and the queue *)
(* (small in MCIrTransport.cfg) can fill.                                  *)
(***************************************************************************)
EXTENDS IrTransport

MCRingSize == 5
MCChunkMax == 3
MCMaxLen == 2
MCMaxBytes == 7
=============================================================================
