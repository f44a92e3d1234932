-------------------------------- MODULE IrHal --------------------------------
(***************************************************************************)
(* Requests and answers between the AIDL HAL (Ir.cpp), the driver's read   *)
(* (ir.c) and the firmware's protocol task, over a line that loses and     *)
(* damages packets.                                                        *)
(*                                                                         *)
(* Binder threads call the service; mLock lets one of them at a time       *)
(* through exchangePacket, which numbers the request, writes it, and       *)
(* reads until the answer with its command and number comes or the time    *)
(* is up.  The driver has no poll operation, so poll returns at once and   *)
(* the thread waits inside read, where ir_read skips the packets that      *)
(* carry only FTDI status.                                                 *)
(*                                                                         *)
(* Abstracted: a packet is a record; what the parser cannot use is lost    *)
(* (IrProtocol models such a parser byte by byte).  Of the time only       *)
(* matters whether the deadline has passed.  The payload is left out.      *)
(***************************************************************************)
EXTENDS Integers, FiniteSets, Sequences, SequencesExt

CONSTANTS Clients,     \* binder threads
          NoClient,    \* mLock is free
          Commands,    \* the commands they send
          SeqModulus,  \* 2^16, the numbers a sequence_id can take
          MaxCalls,    \* bound on the calls
          MaxRestarts  \* bound on the restarts of the service

ASSUME ClientsAssumption == NoClient \notin Clients /\ IsFiniteSet(Clients)
ASSUME BoundsAssumption == /\ SeqModulus \in Nat \ {0}
                           /\ MaxCalls \in Nat
                           /\ MaxRestarts \in Nat

VARIABLES
  lock,       \* the holder of mLock, or NoClient
  pc,         \* [Clients -> where the thread is]
  answer,     \* [Clients -> the answer its exchange accepted, or NoAnswer]
  mSequence,
  current,    \* the request of the exchange under way
  expired,    \* steady_clock::now() >= deadline
  rxBuffer,   \* answers read and not looked at yet
  toDevice,   \* requests on the way to the firmware, the ring of its UART included
  serving,    \* the request the firmware works on, or NoRequest
  toHost,     \* answers on the way back, the buffers of the driver included
  life,       \* how often the service has restarted
  calls       \* history: how many calls mLock has let in so far

halVars  == <<lock, pc, answer, mSequence, current, expired, rxBuffer>>
lineVars == <<toDevice, serving, toHost>>
vars == <<halVars, lineVars, life, calls>>

-----------------------------------------------------------------------------
\* id and life are history: they tell apart requests with equal numbers.
Request(command, seq, id, l) == [command |-> command, seq |-> seq, id |-> id, life |-> l]
NoRequest == Request("none", 0, 0, 0)

Requests == [command : Commands, seq : 0 .. SeqModulus - 1, id : 1 .. MaxCalls,
             life : 0 .. MaxRestarts]
Statuses == {"OK", "FAILED"}
Answers  == [request : Requests, status : Statuses]
NoAnswer == [request |-> NoRequest, status |-> "none"]

MatchesSlip(r) == r.command = current.command
Matches(r) == r.command = current.command /\ r.seq = current.seq

LateSlip == FALSE
Late == expired

\* ++mSequence on sixteen bits.
NextSequenceSlip == mSequence + 1
NextSequence == (mSequence + 1) % SeqModulus

Waiting == {c \in Clients : pc[c] = "waiting"}

Init ==
  /\ lock = NoClient
  /\ pc = [c \in Clients |-> "idle"]
  /\ answer = [c \in Clients |-> NoAnswer]
  /\ mSequence = 0
  /\ current = NoRequest
  /\ expired = FALSE
  /\ rxBuffer = <<>>
  /\ toDevice = <<>>
  /\ serving = NoRequest
  /\ toHost = <<>>
  /\ life = 0
  /\ calls = 0

-----------------------------------------------------------------------------
(* The service.                                                            *)

Call(c) ==
  /\ pc[c] = "idle"
  /\ calls + Cardinality(Waiting) < MaxCalls
  /\ pc' = [pc EXCEPT ![c] = "waiting"]
  /\ UNCHANGED <<lock, answer, mSequence, current, expired, rxBuffer, lineVars, life, calls>>

Acquire(c) ==
  /\ pc[c] = "waiting"
  /\ lock = NoClient
  /\ lock' = c
  /\ pc' = [pc EXCEPT ![c] = "open"]
  /\ calls' = calls + 1
  /\ UNCHANGED <<answer, mSequence, current, expired, rxBuffer, lineVars, life>>

\* exchangePacket opens the device and numbers the request.
Open(c) ==
  /\ pc[c] = "open"
  /\ \/ /\ pc' = [pc EXCEPT ![c] = "unlock"]
        /\ UNCHANGED <<mSequence, current>>
     \/ /\ mSequence' = NextSequence
        /\ \E command \in Commands : current' = Request(command, mSequence', calls, life)
        /\ pc' = [pc EXCEPT ![c] = "write"]
  /\ UNCHANGED <<lock, answer, expired, rxBuffer, lineVars, life, calls>>

\* The write loop.  A transfer that fails may have reached the device all the same.
Write(c) ==
  /\ pc[c] = "write"
  /\ \/ /\ toDevice' = Append(toDevice, [request |-> current, intact |-> TRUE])
        /\ pc' \in {[pc EXCEPT ![c] = "loop"], [pc EXCEPT ![c] = "unlock"]}
     \/ /\ UNCHANGED toDevice
        /\ pc' = [pc EXCEPT ![c] = "unlock"]
  /\ UNCHANGED <<lock, answer, mSequence, current, expired, rxBuffer, serving, toHost, life, calls>>

\* The condition of the outer loop: what arrived too late is not even parsed.
Loop(c) ==
  /\ pc[c] = "loop"
  /\ pc' = [pc EXCEPT ![c] = IF Late THEN "unlock" ELSE "parse"]
  /\ UNCHANGED <<lock, answer, mSequence, current, expired, rxBuffer, lineVars, life, calls>>

\* The inner loop drops every answer that is not to this request.
Parse(c) ==
  /\ pc[c] = "parse"
  /\ rxBuffer # <<>>
  /\ IF Matches(Head(rxBuffer).request)
     THEN /\ answer' = [answer EXCEPT ![c] = Head(rxBuffer)]
          /\ pc' = [pc EXCEPT ![c] = "unlock"]
     ELSE UNCHANGED <<answer, pc>>
  /\ rxBuffer' = Tail(rxBuffer)
  /\ UNCHANGED <<lock, mSequence, current, expired, lineVars, life, calls>>

\* Nothing left to parse: the clock is read again, then poll and read.
NeedMore(c) ==
  /\ pc[c] = "parse"
  /\ rxBuffer = <<>>
  /\ pc' = [pc EXCEPT ![c] = IF Late THEN "unlock" ELSE "read"]
  /\ UNCHANGED <<lock, answer, mSequence, current, expired, rxBuffer, lineVars, life, calls>>

\* ir_read returns data once there is some.
ReadBytes(c) ==
  /\ pc[c] = "read"
  /\ \E n \in 1 .. Len(toHost) :
       /\ rxBuffer' = rxBuffer \o SubSeq(toHost, 1, n)
       /\ toHost' = SubSeq(toHost, n + 1, Len(toHost))
  /\ pc' = [pc EXCEPT ![c] = "loop"]
  /\ UNCHANGED <<lock, answer, mSequence, current, expired, toDevice, serving, life, calls>>

\* Bytes that are no packet, or are one only with bytes that never come.
ReadNoise(c) ==
  /\ pc[c] = "read"
  /\ pc' = [pc EXCEPT ![c] = "loop"]
  /\ UNCHANGED <<lock, answer, mSequence, current, expired, rxBuffer, lineVars, life, calls>>

\* usb_bulk_msg fails: any error but EINTR and EAGAIN ends the exchange.
ReadFails(c) ==
  /\ pc[c] = "read"
  /\ pc' = [pc EXCEPT ![c] = "unlock"]
  /\ UNCHANGED <<lock, answer, mSequence, current, expired, rxBuffer, lineVars, life, calls>>

DeadlinePasses(c) ==
  /\ pc[c] \in {"loop", "parse", "read"}
  /\ ~expired
  /\ expired' = TRUE
  /\ UNCHANGED <<lock, pc, answer, mSequence, current, rxBuffer, lineVars, life, calls>>

\* The call returns; the descriptor, rxBuffer, the request, its answer and the deadline were
\* its own.
Unlock(c) ==
  /\ pc[c] = "unlock"
  /\ pc' = [pc EXCEPT ![c] = "idle"]
  /\ lock' = NoClient
  /\ answer' = [answer EXCEPT ![c] = NoAnswer]
  /\ current' = NoRequest
  /\ rxBuffer' = <<>>
  /\ expired' = FALSE
  /\ UNCHANGED <<mSequence, lineVars, life, calls>>

\* The process dies and init starts it again.  It cannot die inside ir_read, which
\* waits for the transfer and looks for no signal.
Restart ==
  /\ life < MaxRestarts
  /\ \A c \in Clients : pc[c] # "read"
  /\ life' = life + 1
  /\ lock' = NoClient
  /\ pc' = [c \in Clients |-> "idle"]
  /\ answer' = [c \in Clients |-> NoAnswer]
  /\ mSequence' = 0
  /\ current' = NoRequest
  /\ expired' = FALSE
  /\ rxBuffer' = <<>>
  /\ UNCHANGED <<lineVars, calls>>

-----------------------------------------------------------------------------
(* The firmware serves one request after another, and the line.            *)

Take ==
  /\ serving = NoRequest
  /\ toDevice # <<>>
  /\ IF Head(toDevice).intact
     THEN serving' = Head(toDevice).request /\ UNCHANGED toHost
     ELSE /\ toHost' = Append(toHost, [request |-> Head(toDevice).request, status |-> "FAILED"])
          /\ UNCHANGED serving
  /\ toDevice' = Tail(toDevice)
  /\ UNCHANGED <<halVars, life, calls>>

Serve ==
  /\ serving # NoRequest
  /\ \E s \in Statuses :
       toHost' = Append(toHost, [request |-> serving, status |-> s])
  /\ serving' = NoRequest
  /\ UNCHANGED <<halVars, toDevice, life, calls>>

\* The firmware answers a damaged request with the number it reads in it.
Damage ==
  /\ \E i \in 1 .. Len(toDevice), seq \in 0 .. SeqModulus - 1 :
       /\ toDevice[i].intact
       /\ toDevice' = [toDevice EXCEPT
                          ![i] = [request |-> [@.request EXCEPT !.seq = seq], intact |-> FALSE]]
  /\ UNCHANGED <<halVars, serving, toHost, life, calls>>

Lose ==
  /\ \/ \E i \in 1 .. Len(toDevice) : toDevice' = RemoveAt(toDevice, i) /\ UNCHANGED toHost
     \/ \E i \in 1 .. Len(toHost) : toHost' = RemoveAt(toHost, i) /\ UNCHANGED toDevice
  /\ UNCHANGED <<halVars, serving, life, calls>>

Firmware == Take \/ Serve

Step(c) == \/ Acquire(c) \/ Open(c) \/ Write(c) \/ Loop(c) \/ Parse(c) \/ NeedMore(c)
           \/ ReadBytes(c) \/ Unlock(c)

Next == \/ \E c \in Clients : \/ Call(c) \/ Step(c) \/ DeadlinePasses(c)
                              \/ ReadNoise(c) \/ ReadFails(c)
        \/ Restart \/ Firmware \/ Damage \/ Lose

\* Threads run, time passes, the firmware serves; reads need neither data nor errors.
Fairness ==
  /\ \A c \in Clients : WF_vars(Step(c)) /\ WF_vars(DeadlinePasses(c))
  /\ WF_vars(Firmware)

Spec == Init /\ [][Next]_vars /\ Fairness

\* The same when every read returns sooner or later, with or without use.
TalkativeSpec ==
  Spec /\ \A c \in Clients : WF_vars(ReadBytes(c) \/ ReadNoise(c) \/ ReadFails(c))

-----------------------------------------------------------------------------
TypeOK ==
  /\ lock \in Clients \cup {NoClient}
  /\ pc \in [Clients -> {"idle", "waiting", "open", "write", "loop", "parse", "read", "unlock"}]
  /\ answer \in [Clients -> Answers \cup {NoAnswer}]
  /\ mSequence \in 0 .. SeqModulus - 1
  /\ current \in Requests \cup {NoRequest}
  /\ expired \in BOOLEAN
  /\ rxBuffer \in Seq(Answers)
  /\ toDevice \in Seq([request : Requests, intact : BOOLEAN])
  /\ serving \in Requests \cup {NoRequest}
  /\ toHost \in Seq(Answers)
  /\ life \in 0 .. MaxRestarts
  /\ calls \in 0 .. MaxCalls

Accepted(c) == pc[c] = "unlock" /\ answer[c] # NoAnswer

\* Late, lost and damaged packets never make the success of one request pass for
\* that of another one of the same life of the service, also not across calls of
\* different threads that gave up, until the sixteen bits have run through all their
\* numbers.  (An error answer to a damaged request may.)
AnswerIsOwn ==
  \A c \in Clients : Accepted(c) /\ answer[c].status = "OK" =>
    \/ answer[c].request = current
    \/ answer[c].request.life < life
    \/ current.id - answer[c].request.id >= SeqModulus

\* Every call returns.  IIr.aidl:52: a read waits "up to timeoutSeconds"; no call keeps its thread, and
\* through mLock all the others, for ever.
CallReturns == \A c \in Clients : pc[c] # "idle" ~> pc[c] = "idle"
=============================================================================
