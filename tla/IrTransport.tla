----------------------------- MODULE IrTransport -----------------------------
(***************************************************************************)
(* ir_transport_read of ir_transport_uart.c against the ESP-IDF UART       *)
(* driver.  The driver's interrupt puts bytes into a ring and says so in a *)
(* queue of events; the reader believes the events (pending_bytes) and     *)
(* reads as many bytes from the ring.  Ring and queue fill up separately,  *)
(* and after an error the two are emptied by two calls.                    *)
(*                                                                         *)
(* The driver is external: a chunk that finds no room in the ring is put   *)
(* aside, reception stops until room is made, and an event that finds the  *)
(* queue full is lost.  A byte is its number in what the host sent.        *)
(***************************************************************************)
EXTENDS Integers, Sequences, SequencesExt, FiniteSetsExt

CONSTANTS RingSize,   \* 4096
          QueueSize,  \* 32
          ChunkMax,   \* bytes one interrupt takes from the FIFO at most
          MaxLen,     \* what the protocol task asks for: 128
          MaxBytes,   \* bound on the bytes the host sends
          MaxErrors   \* bound on the errors of the line

ASSUME SizesAssumption ==
  /\ {RingSize, QueueSize, ChunkMax, MaxLen} \subseteq Nat \ {0}
  /\ {MaxBytes, MaxErrors} \subseteq Nat

VARIABLES
  ring,           \* bytes of the driver that are not read yet
  aside,          \* the chunk that found the ring full; reception waits
  events,         \* the queue of the driver
  pending_bytes,
  pc,             \* "call", "wait" in xQueueReceive, "take", "emptied" after the flush
  result,         \* what the last call returned
  sent,           \* how many bytes the host has sent
  errors,         \* how many errors the line has had
  got,            \* history: the bytes handed over since the last -1
  unseen          \* history: an event found the queue full, or came between flush and reset

driverVars == <<ring, aside, events, sent, errors, unseen>>
vars == <<driverVars, pending_bytes, pc, result, got>>

-----------------------------------------------------------------------------
DataEvent(n) == [type |-> "data", size |-> n]
Event(type)  == [type |-> type, size |-> 0]

\* The driver, set up as it is, posts UART_DATA and these, after which the input is
\* flushed: FIFO_OVF, BUFFER_FULL, and BREAK, PARITY_ERR and FRAME_ERR as one.
FlushingSlip == {"buffer_full", "line_error"}
Flushing == {"fifo_ovf", "buffer_full", "line_error"}

Amount == Min({pending_bytes, MaxLen})

\* xQueueReset
ResetQueueSlip == events
ResetQueue == <<>>

Bytes(n) == [i \in 1 .. n |-> sent + i]

Post(event) ==
  LET room == Len(events) < QueueSize
  IN  /\ events' = IF room THEN Append(events, event) ELSE events
      /\ unseen' = (unseen \/ ~room \/ pc = "emptied")

Init ==
  /\ ring = <<>> /\ aside = <<>> /\ events = <<>>
  /\ pending_bytes = 0
  /\ pc = "call"
  /\ result = 0
  /\ sent = 0 /\ errors = 0
  /\ got = <<>>
  /\ unseen = FALSE

-----------------------------------------------------------------------------
(* The driver's interrupt.                                                 *)

Receive ==
  /\ aside = <<>>
  /\ \E n \in 1 .. Min({ChunkMax, MaxBytes - sent}) :
       /\ sent' = sent + n
       /\ IF Len(ring) + n <= RingSize
          THEN ring' = ring \o Bytes(n) /\ UNCHANGED aside /\ Post(DataEvent(n))
          ELSE aside' = Bytes(n) /\ UNCHANGED ring /\ Post(Event("buffer_full"))
  /\ UNCHANGED <<errors, pending_bytes, pc, result, got>>

\* The hardware FIFO overflows: what it held is gone.
Overflow ==
  /\ \E n \in 1 .. Min({ChunkMax, MaxBytes - sent}) : sent' = sent + n
  /\ Post(Event("fifo_ovf"))
  /\ UNCHANGED <<ring, aside, errors, pending_bytes, pc, result, got>>

LineError ==
  /\ errors < MaxErrors
  /\ errors' = errors + 1
  /\ Post(Event("line_error"))
  /\ UNCHANGED <<ring, aside, sent, pending_bytes, pc, result, got>>

-----------------------------------------------------------------------------
(* ir_transport_read.                                                      *)

\* Bytes announced earlier are read without looking at the queue.
Enter ==
  /\ pc = "call"
  /\ pc' = IF pending_bytes = 0 THEN "wait" ELSE "take"
  /\ UNCHANGED <<driverVars, pending_bytes, result, got>>

\* xQueueReceive gives up.
WaitOver ==
  /\ pc = "wait"
  /\ events = <<>>
  /\ result' = 0
  /\ pc' = "call"
  /\ UNCHANGED <<driverVars, pending_bytes, got>>

TakeData ==
  /\ pc = "wait"
  /\ events # <<>>
  /\ Head(events).type = "data"
  /\ pending_bytes' = Head(events).size
  /\ events' = Tail(events)
  /\ pc' = "take"
  /\ UNCHANGED <<ring, aside, sent, errors, unseen, result, got>>

\* uart_flush_input: the chunk put aside goes too, and reception resumes.
Flush ==
  /\ ring' = <<>>
  /\ aside' = <<>>
  /\ pc' = "emptied"

\* An event of any other type would be ignored.
TakeError ==
  /\ pc = "wait"
  /\ events # <<>>
  /\ Head(events).type # "data"
  /\ events' = Tail(events)
  /\ IF Head(events).type \in Flushing
     THEN Flush /\ UNCHANGED result
     ELSE pc' = "call" /\ result' = 0 /\ UNCHANGED <<ring, aside>>
  /\ UNCHANGED <<sent, errors, unseen, pending_bytes, got>>

\* uart_read_bytes; then the driver moves what it put aside into the room made.
ReadRing ==
  /\ pc = "take"
  /\ LET n    == Min({Amount, Len(ring)})
         rest == SubSeq(ring, n + 1, Len(ring))
         fits == Len(rest) + Len(aside) <= RingSize
     IN  IF n = 0
         THEN Flush /\ UNCHANGED <<pending_bytes, result, got>>
         ELSE /\ ring' = IF fits THEN rest \o aside ELSE rest
              /\ aside' = IF fits THEN <<>> ELSE aside
              /\ pending_bytes' = pending_bytes - n
              /\ got' = got \o SubSeq(ring, 1, n)
              /\ result' = n
              /\ pc' = "call"
  /\ UNCHANGED <<events, sent, errors, unseen>>

\* xQueueReset after the flush: the interrupt may have come in between.
ResetAfterFlush ==
  /\ pc = "emptied"
  /\ events' = ResetQueue
  /\ pending_bytes' = 0
  /\ result' = -1
  /\ got' = <<>>
  /\ pc' = "call"
  /\ UNCHANGED <<ring, aside, sent, errors, unseen>>

Interrupt == Receive \/ Overflow \/ LineError
Read == Enter \/ WaitOver \/ TakeData \/ TakeError \/ ReadRing \/ ResetAfterFlush

Next == Interrupt \/ Read

Spec == Init /\ [][Next]_vars /\ WF_vars(Read)

-----------------------------------------------------------------------------
\* What the first n events announce, on top of what was announced before.
Totals(queue, first) ==
  LET total[n \in 0 .. Len(queue)] == IF n = 0 THEN first ELSE total[n - 1] + queue[n].size
  IN  total

Announced == Totals(events, pending_bytes)[Len(events)]

\* The ring always holds every byte that pending_bytes and the queue promise, whatever
\* was flushed, reset, dropped or put aside: a read never waits for bytes that are gone.
AnnouncedPresent == pc # "emptied" => Announced <= Len(ring)

\* ir_transport_uart.h: "-1 on loss/error (reset parser)".  Bytes handed to the parser
\* without a -1 in between follow one another as sent, unless some event was lost itself:
\* there was no room for it, or xQueueReset threw it away unseen.
LossIsReported ==
  unseen \/ \A i \in 1 .. Len(got) - 1 : got[i + 1] = got[i] + 1

\* docs/ir_protocol.md: zero only "se não houver dados disponíveis no período".
ZeroMeansEmpty == [][WaitOver => ring = <<>>]_vars
=============================================================================
