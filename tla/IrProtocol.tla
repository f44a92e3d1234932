----------------------------- MODULE IrProtocol -----------------------------
(***************************************************************************)
(* The packet parser and the protocol task (FW/main/ir_protocol.c).        *)
(*                                                                         *)
(* The task reads the UART in chunks, appends byte after byte to `input'   *)
(* and parses after each one; when the line has been idle with a packet    *)
(* incomplete it throws bytes away one at a time, so that packets hidden   *)
(* behind a damaged but plausible length are still found.                  *)
(*                                                                         *)
(* Abstracted: a header is four units instead of sixteen bytes, the two    *)
(* bytes of the magic, one unit for the ten bytes from version to payload  *)
(* length, and one for the CRC.  The CRC unit holds what it was computed   *)
(* over, so it matches exactly that.  A unit read as header fields that is *)
(* none is read as Misread.  ir_rx_capture and ir_tx_send are any of their *)
(* outcomes (IrRx and IrTx model them).                                    *)
(***************************************************************************)
EXTENDS Integers, FiniteSets, Sequences, SequencesExt

CONSTANTS Messages,    \* the runs of units the host may put on the line
          MaxMessages, \* bound on how many it sends
          MaxPayload,  \* IR_PROTOCOL_MAX_PAYLOAD, in units
          ChunkMax,    \* sizeof(bytes) of protocol_task, in units
          MisreadLength \* what a stray unit reads as when taken for a length

VARIABLES
  wire,    \* units sent and not read from the UART yet
  chunk,   \* bytes of the last read that are still to be fed
  input,   \* input[0 .. used)
  taskPc,  \* "read", "feed", "parse" or "expire"
  caller,  \* who called parse_buffer: "feed" or "expire"
  count,   \* messages sent so far
  asked,   \* history: the intact requests sent and not lost with a flush
  served,  \* history: the responses process_request has written
  refused  \* history: the error responses to damaged packets

answers == <<served, refused>>
vars == <<wire, chunk, input, taskPc, caller, count, asked, answers>>

-----------------------------------------------------------------------------
(* Units and packets.                                                      *)

HeaderSize == 4
MaxPacket == HeaderSize + MaxPayload

Byte(b) == [kind |-> "byte", value |-> b]
I == Byte("I")
R == Byte("R")

\* clean: the version is 1 and the reserved flags and the status are 0.
Fields(command, sequence, response, clean, length) ==
  [kind |-> "fields", command |-> command, sequence |-> sequence,
   response |-> response, clean |-> clean, length |-> length]

Sum(fields, payload) == [kind |-> "crc", of |-> <<fields, payload>>]
Packet(fields, payload) == <<I, R, fields, Sum(fields, payload)>> \o payload

Misread == Fields("OTHER", 0, FALSE, FALSE, MisreadLength)

\* What the host means as a request the firmware must answer.
IsRequest(m) ==
  /\ Len(m) >= HeaderSize
  /\ m[3].kind = "fields"
  /\ m[3].length = Len(m) - HeaderSize /\ m[3].length <= MaxPayload
  /\ m = Packet(m[3], SubSeq(m, HeaderSize + 1, Len(m)))
  /\ ~m[3].response

\* The CRC at i follows what it was computed over, as far back as the message shows.
Backed(m, i) ==
  /\ m[i].kind = "crc"
  /\ i >= 2 => m[i-1] = m[i].of[1]
  /\ i >= 3 => m[i-2] = R
  /\ i >= 4 => m[i-3] = I

Units == UNION {Range(m) : m \in Messages}

ASSUME BoundsAssumption == MaxPayload \in Nat /\ MisreadLength \in Nat /\ ChunkMax \in Nat
ASSUME UnitsAssumption ==
  /\ Messages \subseteq Seq(Units)
  /\ \A u \in Units : /\ u.kind = "fields" => u.length \in Nat
                      /\ u.kind = "crc" => u.of[1].kind = "fields" /\ u.of[1].length \in Nat

\* Of an intact packet a message has nothing, the whole, or what no other message
\* completes: it cuts none off behind its CRC and has no head missing before it; and
\* no message holds anything beside a packet that is intact.
ASSUME MessagesAssumption ==
  \A m \in Messages : \A i \in DOMAIN m : Backed(m, i) =>
    /\ i = HeaderSize
    /\ Len(m) >= i + m[3].length
    /\ m[i] = Sum(m[3], SubSeq(m, i + 1, i + m[3].length)) => Len(m) = i + m[3].length

-----------------------------------------------------------------------------
(* parse_buffer looks at input.                                            *)

Magic   == Len(input) >= 2 /\ input[1] = I /\ input[2] = R
Header  == IF input[3].kind = "fields" THEN input[3] ELSE Misread
TooLongSlip == Header.length > MaxPayload + 1
TooLong == Header.length > MaxPayload
Payload == SubSeq(input, HeaderSize + 1, HeaderSize + Header.length)
CrcOKSlip == input[HeaderSize].kind = "crc"
CrcOK   == input[HeaderSize] = Sum(input[3], Payload)

Sound   == Magic /\ ~TooLong /\ CrcOK

\* Line 216-229: too few bytes to decide.
Incomplete ==
  \/ Len(input) < 2
  \/ Magic /\ Len(input) < HeaderSize
  \/ Magic /\ Len(input) >= HeaderSize /\ ~TooLong /\ Len(input) < HeaderSize + Header.length

DiscardSlip(n) == <<>>
Discard(n) == SubSeq(input, n + 1, Len(input))

\* ir_protocol_decode_code, as far as the status goes.
DecodeStatus(payload) ==
  IF payload = <<>> THEN "INVALID_LENGTH"
  ELSE IF \E i \in 1 .. Len(payload) : payload[i] = Byte("bad") THEN "INVALID_PAYLOAD"
  ELSE "OK"

\* The statuses process_request may answer to what is in input.
Statuses ==
  IF ~Header.clean THEN {"INVALID_PAYLOAD"}
  ELSE CASE Header.command = "READ" ->
              IF Payload # <<>> THEN {"INVALID_LENGTH"}
              ELSE {"OK", "NO_DATA", "BUSY", "INTERNAL_ERROR"}
         [] Header.command = "WRITE" ->
              IF DecodeStatus(Payload) # "OK" THEN {DecodeStatus(Payload)}
              ELSE {"OK", "BUSY", "TX_ERROR"}
         [] Header.command = "PING" ->
              IF Payload # <<>> THEN {"INVALID_LENGTH"} ELSE {"OK"}
         [] OTHER -> {"INVALID_COMMAND"}

\* respond, with the fields of the packet at the head of input.
Answer(status) == [request |-> Header, status |-> status]

-----------------------------------------------------------------------------
Init ==
  /\ wire = <<>>
  /\ chunk = <<>>
  /\ input = <<>>
  /\ taskPc = "read"
  /\ caller = "feed"
  /\ count = 0
  /\ asked = <<>>
  /\ served = <<>>
  /\ refused = <<>>

\* The host sends a message without a pause inside it.
Send(m) ==
  /\ count < MaxMessages
  /\ count' = count + 1
  /\ wire' = wire \o m
  /\ asked' = IF IsRequest(m) THEN Append(asked, m[3]) ELSE asked
  /\ UNCHANGED <<chunk, input, taskPc, caller, answers>>

\* ir_transport_read returns n bytes, at most sizeof(bytes).
ReadSizes == 1 .. ChunkMax
ReadBytes(n) ==
  /\ taskPc = "read"
  /\ n <= Len(wire)
  /\ chunk' = SubSeq(wire, 1, n)
  /\ wire' = SubSeq(wire, n + 1, Len(wire))
  /\ taskPc' = "feed"
  /\ UNCHANGED <<input, caller, count, asked, answers>>

\* It returns 0: an idle line with a packet incomplete is expired.
StaleInputSlip == Len(input) >= HeaderSize
StaleInput == input # <<>>
ReadNothing ==
  /\ taskPc = "read"
  /\ wire = <<>>
  /\ taskPc' = IF StaleInput THEN "expire" ELSE "read"
  /\ UNCHANGED <<wire, chunk, input, caller, count, asked, answers>>

\* It returns -1 after flushing the n bytes received so far, and the parser is
\* reset.  Of the requests still unanswered only those that start behind the
\* flushed bytes survive.
StartsRequest(i) ==
  \E j \in i + HeaderSize - 1 .. Len(wire) : IsRequest(SubSeq(wire, i, j))
ReadError(n) ==
  /\ taskPc = "read"
  /\ n <= Len(wire)
  /\ wire' = SubSeq(wire, n + 1, Len(wire))
  /\ input' = <<>>
  /\ LET left == Cardinality({i \in n + 1 .. Len(wire) : StartsRequest(i)})
     IN  asked' = SubSeq(asked, 1, Len(served)) \o
                  SubSeq(asked, Len(asked) - left + 1, Len(asked))
  /\ UNCHANGED <<chunk, taskPc, caller, count, answers>>

\* ir_protocol_feed, one byte: a full buffer would lose its first.
MakeRoom == IF Len(input) = MaxPacket THEN Discard(1) ELSE input
FeedByte ==
  /\ taskPc = "feed"
  /\ chunk # <<>>
  /\ input' = Append(MakeRoom, Head(chunk))
  /\ chunk' = Tail(chunk)
  /\ taskPc' = "parse"
  /\ caller' = "feed"
  /\ UNCHANGED <<wire, count, asked, answers>>

FeedDone ==
  /\ taskPc = "feed"
  /\ chunk = <<>>
  /\ taskPc' = "read"
  /\ UNCHANGED <<wire, chunk, input, caller, count, asked, answers>>

\* ir_protocol_expire, one turn of its loop.
ExpireByte ==
  /\ taskPc = "expire"
  /\ input # <<>>
  /\ input' = Discard(1)
  /\ taskPc' = "parse"
  /\ caller' = "expire"
  /\ UNCHANGED <<wire, chunk, count, asked, answers>>

ExpireDone ==
  /\ taskPc = "expire"
  /\ input = <<>>
  /\ taskPc' = "read"
  /\ UNCHANGED <<wire, chunk, input, caller, count, asked, answers>>

\* parse_buffer returns to its caller.
ParseReturn ==
  /\ taskPc = "parse"
  /\ Incomplete
  /\ taskPc' = caller
  /\ UNCHANGED <<wire, chunk, input, caller, count, asked, answers>>

\* No magic, an impossible length or a wrong CRC: resume one byte later.  The last
\* two are answered unless they look like a response.
Skip ==
  /\ taskPc = "parse"
  /\ ~Incomplete
  /\ ~Sound
  /\ refused' = IF ~Magic \/ Header.response THEN refused
                ELSE Append(refused, Answer(IF TooLong THEN "INVALID_LENGTH" ELSE "CRC_ERROR"))
  /\ input' = Discard(1)
  /\ UNCHANGED <<wire, chunk, taskPc, caller, count, asked, served>>

\* process_request, which ignores responses and answers everything else.
Process ==
  /\ taskPc = "parse"
  /\ ~Incomplete
  /\ Sound
  /\ IF Header.response THEN UNCHANGED served
     ELSE \E s \in Statuses : served' = Append(served, Answer(s))
  /\ input' = Discard(HeaderSize + Header.length)
  /\ UNCHANGED <<wire, chunk, taskPc, caller, count, asked, refused>>

Task == \/ \E n \in ReadSizes : ReadBytes(n)
        \/ ReadNothing \/ FeedByte \/ FeedDone \/ ExpireByte \/ ExpireDone
        \/ ParseReturn \/ Skip \/ Process

Next == \/ Task
        \/ \E n \in 0 .. ChunkMax : ReadError(n)
        \/ \E m \in Messages : Send(m)

\* protocol_task is always scheduled.
Spec == Init /\ [][Next]_vars /\ WF_vars(Task)

-----------------------------------------------------------------------------

\* Whatever garbage, damage, responses or flushes lie between them, the requests
\* processed are requests the host asked, each at most once and in its order.
ServedInOrder ==
  /\ Len(served) <= Len(asked)
  /\ \A i \in 1 .. Len(served) : served[i].request = asked[i]

\* Once the line is idle and the parser has nothing left, every intact request that
\* no flush took has been processed, also those hidden behind a damaged but
\* plausible length (the comment of ir_protocol_expire).
Drained == taskPc = "read" /\ wire = <<>> /\ input = <<>>
NothingMissed == Drained => Len(served) = Len(asked)

\* "parse_buffer always consumes a full maximum-size packet" (line 247): the buffer
\* has room whenever the task feeds the next byte, so no byte is pushed out of it.
BufferHasRoom == taskPc = "feed" => Len(input) < MaxPacket

\* The parser always empties: no truncated packet and no stray byte stays in input
\* for ever to swallow the next request.
Drains == []<>Drained
=============================================================================
