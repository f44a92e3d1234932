------------------------------ MODULE MCIrCode ------------------------------
(***************************************************************************)
(* IrCode with codes of at most two symbols and a count of three bits.     *)
(* Raw frames have up to four symbols with phases of both levels and of    *)
(* no length, one unit, and the longest; patterns are empty, short, odd,   *)
(* too long, or so long that the count wraps.                              *)
(***************************************************************************)
EXTENDS IrCode

RawPhase  == [level : {0, 1}, duration : {0, 1, 32767}]
RawSymbol == RawPhase \X RawPhase
ShortPhase == [level : {0, 1}, duration : {0, 1}]
MCRawFrames == UNION {[1 .. n -> RawSymbol] : n \in 0 .. 2}
               \cup [1 .. 3 -> ShortPhase \X ShortPhase]
               \cup [1 .. 4 -> {<<[level |-> 0, duration |-> 1], [level |-> 1, duration |-> 0]>>}]

Durations == {-32768, -1, 0, 1, 2, 32767, 32768, 65537}
MCPatterns == [size : 0 .. 6 \cup {16, 17, 18}, cycle : Durations \X Durations,
               carrier : {-1, 0, 19999, 20000, 60000, 60001}]

WordSample == {0, 1, 32768, 32769, 65535}
MCPayloads ==
  [count : 0 .. 3, flags : {0, 1}, resolution : {Resolution, 1},
   carrier : {0, 19999, 38000}, words : UNION {[1 .. n -> WordSample] : n \in 0 .. 4}]
  \cup [count : {2, 3}, flags : {0}, resolution : {Resolution}, carrier : {0},
        words : [1 .. 6 -> {1, 32769}]]
=============================================================================
