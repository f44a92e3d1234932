-------------------------------- MODULE IrRx --------------------------------
(***************************************************************************)
(* One-shot capture of an infrared frame (FW/main/ir_rx.c).                *)
(*                                                                         *)
(* Three kinds of actors share the state below:                            *)
(*   - the callers of ir_rx_capture, on either core;                       *)
(*   - rx_task, the only task that operates the RMT receive channel;       *)
(*   - the RMT interrupt, which calls rx_done.  It runs on rx_task's core, *)
(*     so rx_task never runs while rx_done does, but rx_done may run       *)
(*     between any two statements of rx_task.                              *)
(*                                                                         *)
(* A capture is a rendezvous: the caller that holds capture_lock posts     *)
(* RX_CAPTURE and waits for capture_done; rx_task enables the receiver,    *)
(* judges every completion the interrupt posts, and disables the receiver  *)
(* before it acknowledges.                                                 *)
(*                                                                         *)
(* Abstracted: a frame is the instant it completed and whether is_last and *)
(* normalize_frame accept it (IrCode models the content).  The instant is  *)
(* also the frame's identity, so a frame of an earlier capture cannot pass *)
(* for a new one.  Time is counted in units of which a FreeRTOS tick has   *)
(* TickLen.  Locals and arguments return to their initial value when they  *)
(* are dead, so that equal situations are equal states.                    *)
(***************************************************************************)
EXTENDS Integers, Sequences

CONSTANTS Callers,     \* tasks that call ir_rx_capture
          NoCaller,    \* capture_lock is free
          Requested,   \* values callers pass as timeout_ms, in units of time
          MaxTimeout,  \* the largest timeout_ms ir_rx_capture accepts
          TickLen,     \* units of time in one FreeRTOS tick
          Horizon      \* bound on the clock: no request is made after it

ASSUME CallersAssumption == NoCaller \notin Callers
ASSUME TimeAssumption == /\ Requested \subseteq Nat
                         /\ MaxTimeout \in Nat \ {0}
                         /\ TickLen \in Nat \ {0}
                         /\ Horizon \in Nat

VARIABLES
  now,            \* esp_timer_get_time()
  captureLock,    \* the holder of capture_lock, or NoCaller
  callerPc,       \* [Callers -> where the caller is in ir_rx_capture]
  timeout,        \* [Callers -> the timeout_ms argument of the call]
  reply,          \* [Callers -> what the last call returned]
  code,           \* [Callers -> the caller's ir_code_t buffer]
  eventQueue,     \* event_queue
  captureDone,    \* capture_done: TRUE when it has been given
  captureResult,  \* capture_result
  running, faulted, deadline, pendingFrame, rawSymbols,
  rmt,            \* the RMT receive channel
  taskPc,         \* where rx_task is
  event,          \* rx_task's local event
  wakeTick,       \* the tick at which xQueueReceive gives up, or Forever
  result,         \* the argument of finish_capture
  window          \* history: the reception window of the current request

rxVars   == <<running, faulted, deadline, pendingFrame>>
taskVars == <<taskPc, event, wakeTick, result>>
callVars == <<captureLock, callerPc, timeout, reply, code>>
ackVars  == <<captureDone, captureResult>>
vars == <<now, callVars, eventQueue, ackVars, rxVars, rawSymbols, rmt, taskVars, window>>

-----------------------------------------------------------------------------
\* A definition named ..Slip is a mistake in the next one that the checks notice.
EventQueueDepth == 2

\* receive_config: the driver stops receiving when a frame ends.
PartialRxSlip == TRUE
PartialRx == FALSE

Forever == -1

Frame == [valid : BOOLEAN, at : Nat]
Blank == [valid |-> FALSE, at |-> 0]

\* esp_err_t, as far as the code tells the values apart.
Errors  == {"ESP_FAIL", "ESP_ERR_INVALID_STATE"}
Results == Errors \cup {"ESP_OK", "ESP_ERR_TIMEOUT"}
Replies == Results \cup {"ESP_ERR_INVALID_ARG", "ESP_ERR_NOT_FINISHED"}

Event == [type : {"RX_COMPLETE", "RX_CAPTURE"}, timeout : Nat, completed : Nat]
CaptureEvent(t)  == [type |-> "RX_CAPTURE", timeout |-> t, completed |-> 0]
CompleteEvent(t) == [type |-> "RX_COMPLETE", timeout |-> 0, completed |-> t]
NoEvent == CompleteEvent(0)

Window == [open : BOOLEAN, from : Nat, until : Nat]
Shut   == [open |-> FALSE, from |-> 0, until |-> 0]

CallerStates == {"idle", "send", "wait", "read", "release"}
TaskStates   == {"computeWait", "receive", "expired", "dispatch", "arm",
                 "finish", "reset", "acknowledge"}

CurrentTick == now \div TickLen
TicksUntil(t) == (t - now + TickLen - 1) \div TickLen

\* The decisions of the code, one operator each.
LockFreeSlip == TRUE
LockFree == captureLock = NoCaller

CopiesFrameSlip == TRUE
CopiesFrame == captureResult = "ESP_OK"

CanStart == ~faulted

DeadlineForWrong(t) == now - t
DeadlineFor(t) == now + t

InTimeSlip(completed) == TRUE
InTime(completed) == completed <= deadline

PastDeadlineSlip == TRUE
PastDeadline == now >= deadline

\* Lines 138-145: the wait is rounded up to whole ticks, zero past the deadline.
WakeTickSlip == Forever
WakeTick == IF ~running THEN Forever
            ELSE IF now < deadline THEN CurrentTick + TicksUntil(deadline)
            ELSE CurrentTick

Init ==
  /\ now = 0
  /\ captureLock = NoCaller
  /\ callerPc = [c \in Callers |-> "idle"]
  /\ timeout = [c \in Callers |-> 0]
  /\ reply = [c \in Callers |-> "ESP_OK"]
  /\ code = [c \in Callers |-> Blank]
  /\ eventQueue = <<>>
  /\ captureDone = FALSE
  /\ captureResult = "ESP_OK"
  /\ running = FALSE
  /\ faulted = FALSE
  /\ deadline = 0
  /\ pendingFrame = Blank
  /\ rawSymbols = Blank
  /\ rmt = "disabled"
  /\ taskPc = "computeWait"
  /\ event = NoEvent
  /\ wakeTick = Forever
  /\ result = "ESP_OK"
  /\ window = Shut

-----------------------------------------------------------------------------
(* The callers: ir_rx_capture.                                             *)

\* The early returns: a timeout out of range, or another capture in progress.
Refuse(c, t) ==
  /\ callerPc[c] = "idle"
  /\ \/ /\ t \notin 1 .. MaxTimeout
        /\ reply' = [reply EXCEPT ![c] = "ESP_ERR_INVALID_ARG"]
     \/ /\ t \in 1 .. MaxTimeout
        /\ ~LockFree
        /\ reply' = [reply EXCEPT ![c] = "ESP_ERR_NOT_FINISHED"]
  /\ UNCHANGED <<now, captureLock, callerPc, timeout, code, eventQueue, ackVars,
                 rxVars, rawSymbols, rmt, taskVars, window>>

Lock(c, t) ==
  /\ callerPc[c] = "idle"
  /\ now < Horizon
  /\ t \in 1 .. MaxTimeout
  /\ LockFree
  /\ captureLock' = c
  /\ timeout' = [timeout EXCEPT ![c] = t]
  /\ callerPc' = [callerPc EXCEPT ![c] = "send"]
  /\ UNCHANGED <<now, reply, code, eventQueue, ackVars, rxVars, rawSymbols, rmt,
                 taskVars, window>>

SendRequest(c) ==
  /\ callerPc[c] = "send"
  /\ Len(eventQueue) < EventQueueDepth
  /\ eventQueue' = Append(eventQueue, CaptureEvent(timeout[c]))
  /\ callerPc' = [callerPc EXCEPT ![c] = "wait"]
  /\ UNCHANGED <<now, captureLock, timeout, reply, code, ackVars, rxVars,
                 rawSymbols, rmt, taskVars, window>>

TakeDone(c) ==
  /\ callerPc[c] = "wait"
  /\ captureDone
  /\ captureDone' = FALSE
  /\ callerPc' = [callerPc EXCEPT ![c] = "read"]
  /\ UNCHANGED <<now, captureLock, timeout, reply, code, eventQueue, captureResult,
                 rxVars, rawSymbols, rmt, taskVars, window>>

ReadResult(c) ==
  /\ callerPc[c] = "read"
  /\ reply' = [reply EXCEPT ![c] = captureResult]
  /\ code' = IF CopiesFrame THEN [code EXCEPT ![c] = pendingFrame] ELSE code
  /\ callerPc' = [callerPc EXCEPT ![c] = "release"]
  /\ UNCHANGED <<now, captureLock, timeout, eventQueue, ackVars, rxVars, rawSymbols,
                 rmt, taskVars, window>>

Release(c) ==
  /\ callerPc[c] = "release"
  /\ captureLock' = NoCaller
  /\ callerPc' = [callerPc EXCEPT ![c] = "idle"]
  /\ timeout' = [timeout EXCEPT ![c] = 0]
  /\ window' = Shut
  /\ UNCHANGED <<now, reply, code, eventQueue, ackVars, rxVars, rawSymbols, rmt,
                 taskVars>>

-----------------------------------------------------------------------------
(* rx_task.                                                                *)

ComputeWait ==
  /\ taskPc = "computeWait"
  /\ wakeTick' = WakeTick
  /\ taskPc' = "receive"
  /\ UNCHANGED <<now, callVars, eventQueue, ackVars, rxVars, rawSymbols, rmt, event,
                 result, window>>

Receive ==
  /\ taskPc = "receive"
  /\ eventQueue # <<>>
  /\ event' = Head(eventQueue)
  /\ eventQueue' = Tail(eventQueue)
  /\ taskPc' = "dispatch"
  /\ wakeTick' = Forever
  /\ UNCHANGED <<now, callVars, ackVars, rxVars, rawSymbols, rmt, result, window>>

ReceiveFails ==
  /\ taskPc = "receive"
  /\ eventQueue = <<>>
  /\ wakeTick # Forever
  /\ CurrentTick >= wakeTick
  /\ taskPc' = "expired"
  /\ wakeTick' = Forever
  /\ UNCHANGED <<now, callVars, eventQueue, ackVars, rxVars, rawSymbols, rmt, event,
                 result, window>>

\* Lines 147-151: the wait may end up to a tick early, so the clock is read again.
Expired ==
  /\ taskPc = "expired"
  /\ IF running /\ PastDeadline
     THEN taskPc' = "finish" /\ result' = "ESP_ERR_TIMEOUT"
     ELSE taskPc' = "computeWait" /\ UNCHANGED result
  /\ UNCHANGED <<now, callVars, eventQueue, ackVars, rxVars, rawSymbols, rmt, event,
                 wakeTick, window>>

\* start_capture up to arm_receive.
StartCapture ==
  /\ taskPc = "dispatch"
  /\ event.type = "RX_CAPTURE"
  /\ \/ /\ ~CanStart
        /\ result' = "ESP_ERR_INVALID_STATE"
        /\ taskPc' = "finish"
        /\ UNCHANGED <<rxVars, rmt, window>>
     \/ /\ CanStart                                  \* rmt_enable fails
        /\ pendingFrame' = Blank
        /\ result' = "ESP_FAIL"
        /\ taskPc' = "finish"
        /\ UNCHANGED <<running, faulted, deadline, rmt, window>>
     \/ /\ CanStart                                  \* rmt_enable succeeds
        /\ pendingFrame' = Blank
        /\ rmt' = "enabled"
        /\ running' = TRUE
        /\ deadline' = DeadlineFor(event.timeout)
        /\ window' = [open |-> TRUE, from |-> now, until |-> now + timeout[captureLock]]
        /\ taskPc' = "arm"
        /\ UNCHANGED <<faulted, result>>
  /\ event' = NoEvent
  /\ UNCHANGED <<now, callVars, eventQueue, ackVars, rawSymbols, wakeTick>>

\* arm_receive: from here the driver owns raw_symbols.
Arm ==
  /\ taskPc = "arm"
  /\ \/ /\ rmt' = "armed"
        /\ taskPc' = "computeWait"
        /\ UNCHANGED result
     \/ /\ result' = "ESP_FAIL"
        /\ taskPc' = "finish"
        /\ UNCHANGED rmt
  /\ UNCHANGED <<now, callVars, eventQueue, ackVars, rxVars, rawSymbols, event,
                 wakeTick, window>>

\* Line 155: a completion that arrives while no capture runs is dropped.
IgnoreCompletion ==
  /\ taskPc = "dispatch"
  /\ event.type = "RX_COMPLETE"
  /\ ~running
  /\ taskPc' = "computeWait"
  /\ event' = NoEvent
  /\ UNCHANGED <<now, callVars, eventQueue, ackVars, rxVars, rawSymbols, rmt, wakeTick,
                 result, window>>

\* Lines 156-171.  A rejected frame may have overwritten pending_frame in part.
Judge ==
  /\ taskPc = "dispatch"
  /\ event.type = "RX_COMPLETE"
  /\ running
  /\ \/ /\ ~InTime(event.completed)
        /\ result' = "ESP_ERR_TIMEOUT"
        /\ taskPc' = "finish"
        /\ UNCHANGED pendingFrame
     \/ /\ InTime(event.completed)
        /\ rawSymbols.valid
        /\ pendingFrame' = rawSymbols
        /\ result' = "ESP_OK"
        /\ taskPc' = "finish"
     \/ /\ InTime(event.completed)
        /\ ~rawSymbols.valid
        /\ pendingFrame' \in {pendingFrame, rawSymbols}
        /\ IF PastDeadline
           THEN result' = "ESP_ERR_TIMEOUT" /\ taskPc' = "finish"
           ELSE taskPc' = "arm" /\ UNCHANGED result
  /\ event' = NoEvent
  /\ UNCHANGED <<now, callVars, eventQueue, ackVars, running, faulted, deadline,
                 rawSymbols, rmt, wakeTick, window>>

DisableFailsSlip == faulted' = TRUE /\ UNCHANGED <<rmt, result>>
DisableFails == faulted' = TRUE /\ result' = "ESP_FAIL" /\ UNCHANGED rmt

\* finish_capture, lines 95-103.
Disable ==
  /\ taskPc = "finish"
  /\ \/ ~running /\ UNCHANGED <<rmt, faulted, result>>
     \/ running /\ rmt' = "disabled" /\ UNCHANGED <<faulted, result>>
     \/ running /\ DisableFails
  /\ running' = FALSE
  /\ taskPc' = "reset"
  /\ UNCHANGED <<now, callVars, eventQueue, ackVars, deadline, pendingFrame, rawSymbols,
                 event, wakeTick, window>>

ResetQueueSlip ==
  /\ taskPc = "reset"
  /\ eventQueue' = <<>>
  /\ captureDone' = TRUE
  /\ taskPc' = "acknowledge"
  /\ UNCHANGED <<now, callVars, captureResult, rxVars, rawSymbols, rmt, event, wakeTick,
                 result, window>>
ResetQueue ==
  /\ taskPc = "reset"
  /\ eventQueue' = <<>>
  /\ taskPc' = "acknowledge"
  /\ UNCHANGED <<now, callVars, ackVars, rxVars, rawSymbols, rmt, event, wakeTick,
                 result, window>>

Acknowledge ==
  /\ taskPc = "acknowledge"
  /\ captureResult' = result
  /\ captureDone' = TRUE
  /\ taskPc' = "computeWait"
  /\ result' = "ESP_OK"
  /\ UNCHANGED <<now, callVars, eventQueue, rxVars, rawSymbols, rmt, event, wakeTick,
                 window>>

-----------------------------------------------------------------------------
(* The RMT interrupt and the clock.                                        *)

\* The receiver saw a frame end.  rx_done ignores whether the post succeeds.
RxDone(valid) ==
  /\ rmt = "armed"
  /\ rmt' = IF PartialRx THEN "armed" ELSE "enabled"
  /\ rawSymbols' = [valid |-> valid, at |-> now]
  /\ eventQueue' = IF Len(eventQueue) < EventQueueDepth
                   THEN Append(eventQueue, CompleteEvent(now))
                   ELSE eventQueue
  /\ UNCHANGED <<now, callVars, ackVars, rxVars, taskVars, window>>

\* After Horizon the clock only runs to let a capture in progress meet its deadline.
Tick ==
  /\ now < Horizon \/ (running /\ now < deadline + TickLen)
  /\ now' = now + 1
  /\ UNCHANGED <<callVars, eventQueue, ackVars, rxVars, rawSymbols, rmt, taskVars, window>>

CallerStep(c) == SendRequest(c) \/ TakeDone(c) \/ ReadResult(c) \/ Release(c)

RxTask == \/ ComputeWait \/ Receive \/ ReceiveFails \/ Expired
          \/ StartCapture \/ Arm \/ IgnoreCompletion \/ Judge
          \/ Disable \/ ResetQueue \/ Acknowledge

Next == \/ \E c \in Callers : \/ CallerStep(c)
                              \/ \E t \in Requested : Refuse(c, t) \/ Lock(c, t)
        \/ RxTask
        \/ \E valid \in BOOLEAN : RxDone(valid)
        \/ Tick

\* FreeRTOS runs every ready task and time passes; frames need never arrive.
Fairness == /\ WF_vars(RxTask)
            /\ WF_vars(Tick)
            /\ \A c \in Callers : WF_vars(CallerStep(c))

Spec == Init /\ [][Next]_vars /\ Fairness

-----------------------------------------------------------------------------
(* Properties.                                                             *)

TypeOK ==
  /\ now \in Nat
  /\ captureLock \in Callers \cup {NoCaller}
  /\ callerPc \in [Callers -> CallerStates]
  /\ timeout \in [Callers -> Nat]
  /\ reply \in [Callers -> Replies]
  /\ code \in [Callers -> Frame]
  /\ eventQueue \in Seq(Event)
  /\ Len(eventQueue) <= EventQueueDepth
  /\ captureDone \in BOOLEAN
  /\ captureResult \in Results
  /\ running \in BOOLEAN
  /\ faulted \in BOOLEAN
  /\ deadline \in Nat
  /\ pendingFrame \in Frame
  /\ rawSymbols \in Frame
  /\ rmt \in {"disabled", "enabled", "armed"}
  /\ taskPc \in TaskStates
  /\ event \in Event
  /\ wakeTick \in Nat \cup {Forever}
  /\ result \in Results
  /\ window \in Window

Completions == {i \in 1 .. Len(eventQueue) : eventQueue[i].type = "RX_COMPLETE"}
Requests    == {i \in 1 .. Len(eventQueue) : eventQueue[i].type = "RX_CAPTURE"}

\* rx_task holds a request it has not acknowledged.
Serving == \/ running
           \/ taskPc = "dispatch" /\ event.type = "RX_CAPTURE"
           \/ taskPc \in {"finish", "reset", "acknowledge"}

\* A capture that returns ESP_OK hands over a valid frame that completed inside
\* the window of this very request: after the receiver was enabled for it and no
\* later than its deadline.  No frame of an earlier capture is reused (ir_rx.h).
FreshFrame ==
  \A c \in Callers :
    callerPc[c] = "release" /\ reply[c] = "ESP_OK" =>
      /\ code[c].valid
      /\ window.open
      /\ window.from <= code[c].at /\ code[c].at <= window.until

\* ESP_ERR_TIMEOUT is never reported before the requested time has passed, though
\* the wait of line 146 may end up to a tick before the deadline.
TimeoutNotEarly ==
  \A c \in Callers :
    callerPc[c] = "release" /\ reply[c] = "ESP_ERR_TIMEOUT" =>
      window.open /\ now >= window.until

\* The receiver is off before ir_rx_capture returns (ir_rx.h), and stays off
\* until the next request.  Only a failed rmt_disable leaves it on, and then
\* neither ESP_OK nor ESP_ERR_TIMEOUT is reported.
ReceiverOffAtReturn ==
  /\ ~running /\ taskPc # "dispatch" => rmt = "disabled" \/ faulted \/ Serving
  /\ \A c \in Callers :
       /\ callerPc[c] \in {"read", "release"} => ~running
       /\ callerPc[c] = "release" /\ reply[c] \in {"ESP_OK", "ESP_ERR_TIMEOUT"} =>
            rmt = "disabled"

\* rx_done ignores the result of xQueueSendFromISR (line 50): while the receiver
\* is armed there must be room for the completion it will post.
CompletionHasRoom == rmt = "armed" => Len(eventQueue) < EventQueueDepth

\* When rx_task reads raw_symbols the driver no longer writes them, and they
\* still hold the frame whose completion was dequeued.
JudgedBufferIsStill ==
  taskPc = "dispatch" /\ event.type = "RX_COMPLETE" /\ running =>
    /\ rmt = "enabled"
    /\ rawSymbols.at = event.completed
    /\ Completions = {}

\* A request is in exactly one place from the moment it is sent until it is
\* acknowledged: the queue, rx_task, or capture_done.  So the xQueueReset of
\* line 106 never drops one, and capture_done is never given twice.
RequestAccounted ==
  /\ Requests # {} => ~Serving /\ ~captureDone
  /\ Serving => ~captureDone
  /\ \A c \in Callers :
       /\ callerPc[c] = "wait" =>
            (Requests # {} \/ Serving \/ captureDone) /\ captureLock = c
       /\ callerPc[c] \in {"send", "read", "release"} =>
            Requests = {} /\ ~Serving /\ ~captureDone /\ captureLock = c

\* While a caller copies the answer (lines 213-214), rx_task, on another core,
\* leaves capture_result and pending_frame alone.
AnswerStableWhileRead ==
  [][\A c \in Callers : callerPc[c] = "read" =>
       pendingFrame' = pendingFrame /\ captureResult' = captureResult]_vars

\* Noise and oversized frames do not extend the request deadline (line 165).
DeadlineKept == running => window.open /\ deadline = window.until

\* Once rmt_disable has failed the receiver is never armed again.
FaultedNeverArmed == [][faulted /\ rmt # "armed" => rmt' # "armed"]_vars

\* Every call of ir_rx_capture returns, whatever noise arrives or driver call fails.
CaptureReturns == \A c \in Callers : callerPc[c] # "idle" ~> callerPc[c] = "idle"

\* ir_rx.h: "ESP_ERR_TIMEOUT: no valid frame completed before the deadline."  A
\* capture that ends with a timeout discards no valid frame whose timestamp is
\* eligible ("their ISR timestamp decides eligibility", lines 141-142).
TimeoutMeansNoFrame ==
  taskPc = "reset" /\ result = "ESP_ERR_TIMEOUT" =>
    ~ (rawSymbols.valid /\ \E i \in Completions : eventQueue[i].completed <= deadline)

-----------------------------------------------------------------------------
(* What ir_rx_capture promises: CaptureService.                            *)

SessionPhase ==
  IF captureLock = NoCaller THEN "free"
  ELSE IF callerPc[captureLock] = "release" THEN "answered"
  ELSE IF window.open THEN "listening" ELSE "asked"

Service == INSTANCE CaptureService
             WITH client <- captureLock, phase <- SessionPhase

\* Every behaviour of the code is one of the one-shot service.
ImplementsService == Service!Spec
=============================================================================
