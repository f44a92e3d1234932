------------------------------- MODULE IrCode -------------------------------
(***************************************************************************)
(* An infrared code on its ways through the system: captured (ir_rx.c),    *)
(* encoded into a payload (ir_protocol.c), built by the AIDL service from  *)
(* a pattern (Ir.cpp) or handed in by a client, and decoded for            *)
(* transmission.                                                           *)
(*                                                                         *)
(* A code is a header and its phases, two for each symbol; a payload the   *)
(* same with a word of sixteen bits for each phase.  Little-endian bytes   *)
(* are left out: both sides use the same order for every field.  So are    *)
(* payloads too short for a header or with half a word at their end, whose *)
(* length is refused.                                                      *)
(***************************************************************************)
EXTENDS Integers, Sequences

CONSTANTS MaxSymbols,    \* IR_MAX_SYMBOLS, kMaxSymbols: 256
          MemSymbols,    \* IR_RX_MEM_SYMBOLS: 320
          CountModulus,  \* 2^16, what a uint16_t holds
          RawFrames,     \* what the receiver may record
          Patterns,      \* what a client may ask to transmit, with its carrier
          Payloads       \* what a client may hand in ready made

VARIABLES
  job,       \* what to do, with its input
  stage,     \* "begin", "payload" (built), "refused" (nothing to send) or "judged"
  payload,
  status,    \* of the decoding
  code       \* what would be transmitted

vars == <<job, stage, payload, status, code>>

-----------------------------------------------------------------------------
MaxDuration == 32767
Resolution  == 1000000
MinCarrier  == 20000
MaxCarrier  == 60000

\* The fifteen bits of a duration, and the sixteen of a word.
Ticks == {d \in Nat : d <= MaxDuration}
Words == {w \in Nat : w < 65536}

ASSUME SymbolsAssumption == /\ MaxSymbols \in Nat \ {0}
                            /\ MemSymbols \in Nat
                            /\ CountModulus \in Nat
                            /\ MaxSymbols < CountModulus

ASSUME InputsAssumption ==
  /\ \A raw \in RawFrames : raw \in Seq([1 .. 2 -> [level : {0, 1}, duration : Ticks]])
  /\ \A p \in Patterns : /\ p.size \in Nat /\ p.carrier \in Int
                         /\ p.cycle \in Seq(Int) /\ p.cycle # <<>>
  /\ Payloads \subseteq [count : 0 .. CountModulus - 1, flags : Nat, resolution : Nat,
                         carrier : Nat, words : Seq(Words)]

Phase(level, duration) == [level |-> level, duration |-> duration]
Code(carrier, phases) ==
  [symbol_count |-> Len(phases) \div 2, flags |-> 0, resolution_hz |-> Resolution,
   carrier_hz |-> carrier, phases |-> phases]
NoCode == Code(0, <<>>)

CarrierOK(carrier) == carrier = 0 \/ carrier \in MinCarrier .. MaxCarrier

\* Zero duration is allowed only for the final SPACE.
ValidPhase(c, i) ==
  /\ c.phases[i].level = i % 2
  /\ c.phases[i].duration \in Ticks
  /\ c.phases[i].duration = 0 => i = 2 * c.symbol_count

Valid(c) ==
  /\ c.symbol_count \in 1 .. MaxSymbols
  /\ c.flags = 0
  /\ c.resolution_hz = Resolution
  /\ CarrierOK(c.carrier_hz)
  /\ \A i \in 1 .. 2 * c.symbol_count : ValidPhase(c, i)

-----------------------------------------------------------------------------
(* ir_protocol_encode_code and ir_protocol_decode_code.                    *)

Word(phase) == 32768 * phase.level + phase.duration
PhaseOf(word) == Phase(word \div 32768, word % 32768)

Encode(c) ==
  [count |-> c.symbol_count, flags |-> c.flags, resolution |-> c.resolution_hz,
   carrier |-> c.carrier_hz, words |-> [i \in 1 .. 2 * c.symbol_count |-> Word(c.phases[i])]]

Decoded(p) ==
  [symbol_count |-> p.count, flags |-> p.flags, resolution_hz |-> p.resolution,
   carrier_hz |-> p.carrier, phases |-> [i \in 1 .. 2 * p.count |-> PhaseOf(p.words[i])]]

\* len = 12 + 4 * count, in words of two bytes after the prefix.
LengthOKSlip(p) == Len(p.words) >= 2 * p.count
LengthOK(p) == Len(p.words) = 2 * p.count

DecodeStatus(p) ==
  IF Len(p.words) > 2 * MaxSymbols THEN "INVALID_LENGTH"
  ELSE IF p.count \notin 1 .. MaxSymbols THEN "INVALID_PAYLOAD"
  ELSE IF ~LengthOK(p) THEN "INVALID_LENGTH"
  ELSE IF Valid(Decoded(p)) THEN "OK" ELSE "INVALID_PAYLOAD"

-----------------------------------------------------------------------------
(* normalize_frame.  A raw symbol is two phases; the receiver is active-low. *)

RawPhases(raw) ==
  [i \in 1 .. 2 * Len(raw) |->
     LET phase == raw[(i + 1) \div 2][2 - (i % 2)]
     IN  Phase(1 - phase.level, phase.duration)]

\* "Discard electrical idle before the first MARK."
IsIdleSlip(phases, phase) == FALSE
IsIdle(phases, phase) == phases = <<>> /\ phase.level = 0

FollowsOn(phases, phase) ==
  /\ Len(phases) < 2 * MaxSymbols
  /\ phase.level = (Len(phases) + 1) % 2

Collect(acc, phase) ==
  IF acc.ended \/ acc.failed \/ (phase.duration # 0 /\ IsIdle(acc.phases, phase)) THEN acc
  ELSE IF phase.duration = 0 THEN [acc EXCEPT !.ended = TRUE]
  ELSE IF FollowsOn(acc.phases, phase) THEN [acc EXCEPT !.phases = Append(@, phase)]
  ELSE [acc EXCEPT !.failed = TRUE]

Collecting(all) ==
  LET acc[n \in 0 .. Len(all)] ==
        IF n = 0 THEN [phases |-> <<>>, ended |-> FALSE, failed |-> FALSE]
        ELSE Collect(acc[n - 1], all[n])
  IN  acc

Collected(raw) == Collecting(RawPhases(raw))[2 * Len(raw)]

\* The unused half of the last symbol is zero, that is a SPACE of no length.
Padded(phases) == IF Len(phases) % 2 = 0 THEN phases ELSE Append(phases, Phase(0, 0))

FrameOf(raw) == Code(0, Padded(Collected(raw).phases))

NormalizeOK(raw) ==
  /\ Len(raw) > 0 /\ Len(raw) < MemSymbols
  /\ ~Collected(raw).failed
  /\ Valid(FrameOf(raw))

-----------------------------------------------------------------------------
(* transmit of the AIDL service.  A pattern is its size and the intervals  *)
(* it repeats, so that one longer than a uint16_t counts is cheap to have. *)

Interval(p, i) == p.cycle[((i - 1) % Len(p.cycle)) + 1]

CarrierAsked(p) == IF p.carrier > 0 THEN p.carrier ELSE 0

\* static_cast<uint16_t>
SymbolCount(p) == ((p.size + 1) \div 2) % CountModulus

PatternOK(p) == CarrierOK(CarrierAsked(p)) /\ SymbolCount(p) \in 1 .. MaxSymbols

\* Too long is cut to the longest; what is negative wraps.
Duration(us) == ((IF us > MaxDuration THEN MaxDuration ELSE us) % 65536) % 32768

PatternWordSlip(p, i) == Word(Phase(i % 2, Duration(Interval(p, i))))
PatternWord(p, i) ==
  Word(Phase(i % 2, IF i <= p.size THEN Duration(Interval(p, i)) ELSE 0))

PatternPayload(p) ==
  [count |-> SymbolCount(p), flags |-> 0, resolution |-> Resolution, carrier |-> CarrierAsked(p),
   words |-> [i \in 1 .. 2 * SymbolCount(p) |-> PatternWord(p, i)]]

-----------------------------------------------------------------------------
Jobs == [kind : {"capture"}, input : RawFrames]
        \cup [kind : {"transmit"}, input : Patterns]
        \cup [kind : {"write"}, input : Payloads]

Init ==
  /\ job \in Jobs
  /\ stage = "begin"
  /\ payload = Encode(NoCode)
  /\ status = "none"
  /\ code = NoCode

Build(ok, p) ==
  /\ stage' = IF ok THEN "payload" ELSE "refused"
  /\ payload' = IF ok THEN p ELSE payload
  /\ UNCHANGED <<job, status, code>>

\* READ: normalize_frame and ir_protocol_encode_code.
Capture ==
  /\ stage = "begin" /\ job.kind = "capture"
  /\ Build(NormalizeOK(job.input), Encode(FrameOf(job.input)))

\* An empty pattern is a success that sends nothing.
Transmit ==
  /\ stage = "begin" /\ job.kind = "transmit"
  /\ Build(job.input.size > 0 /\ PatternOK(job.input), PatternPayload(job.input))

\* A payload of a client goes out as it is; kMaxPayload is its only limit.
Write ==
  /\ stage = "begin" /\ job.kind = "write"
  /\ Build(Len(job.input.words) <= 2 * MaxSymbols, job.input)

\* WRITE: ir_protocol_decode_code.  A captured payload comes back this way.
Decode ==
  /\ stage = "payload"
  /\ stage' = "judged"
  /\ status' = DecodeStatus(payload)
  /\ code' = IF status' = "OK" THEN Decoded(payload) ELSE NoCode
  /\ UNCHANGED <<job, payload>>

Next == Capture \/ Transmit \/ Write \/ Decode
Spec == Init /\ [][Next]_vars

-----------------------------------------------------------------------------
\* The frame a reader of the documentation expects: the phases before the first one
\* without length, from the first MARK on.
Expected(raw) ==
  LET all   == RawPhases(raw)
      ends  == {i \in DOMAIN all : all[i].duration = 0} \cup {Len(all) + 1}
      last  == (CHOOSE i \in ends : \A j \in ends : i <= j) - 1
      marks == {i \in 1 .. last : all[i].level = 1} \cup {last + 1}
      first == CHOOSE i \in marks : \A j \in marks : i <= j
  IN  SubSeq(all, first, last)

Alternating(phases) == \A i \in DOMAIN phases : phases[i].level = i % 2

\* docs/ir_protocol.md: "o payload devolvido por READ pode ser usado em WRITE".  A frame
\* that alternates and fits is captured, its payload is accepted, and what is then
\* transmitted is what was received; any other frame is refused.
CaptureReplays ==
  job.kind = "capture" /\ stage # "begin" =>
    LET e    == Expected(job.input)
        good == /\ Len(job.input) \in 1 .. MemSymbols - 1
                /\ Len(e) \in 1 .. 2 * MaxSymbols
                /\ Alternating(e)
    IN  /\ good <=> stage # "refused"
        /\ stage = "judged" => status = "OK" /\ code.phases = Padded(e)

\* A payload that is accepted is the one that encodes the code transmitted: nothing in
\* it is ignored, and no two payloads mean the same.
AcceptedIsCanonical == status = "OK" => Valid(code) /\ Encode(code) = payload

PatternPhases(p) == Padded([i \in 1 .. p.size |-> Phase(i % 2, Interval(p, i))])

InRange(p) ==
  /\ p.size \in 1 .. 2 * MaxSymbols
  /\ \A i \in 1 .. p.size : Interval(p, i) \in 1 .. MaxDuration
  /\ CarrierOK(CarrierAsked(p))

\* A pattern within the limits of the protocol, of an odd length too, is accepted by
\* the firmware and transmitted as it is.
PatternFaithful ==
  job.kind = "transmit" /\ stage = "judged" /\ InRange(job.input) =>
    /\ status = "OK"
    /\ code.phases = PatternPhases(job.input)

=============================================================================
