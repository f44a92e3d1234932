----------------------------- MODULE IrRxProofs -----------------------------
(***************************************************************************)
(* What IrRx guarantees for every set of callers, every timeout, tick      *)
(* length and horizon.                                                     *)
(***************************************************************************)
EXTENDS IrRx, TLAPS

-----------------------------------------------------------------------------
(* The inductive invariant.                                                *)

Queued(type) == \E i \in 1 .. Len(eventQueue) : eventQueue[i].type = type

AtMostOne(type) ==
  \A i, j \in 1 .. Len(eventQueue) :
    eventQueue[i].type = type /\ eventQueue[j].type = type => i = j

OwnerWaits == captureLock \in Callers /\ callerPc[captureLock] = "wait"

InWindow(f) == /\ window.open
               /\ f.valid
               /\ window.from <= f.at /\ f.at <= window.until /\ f.at <= now

TimeIsUp == window.open /\ window.until <= now

\* The caller inside ir_rx_capture is the one that holds the lock.
LockInv == \A c \in Callers : callerPc[c] # "idle" <=> captureLock = c

\* A request is in one place, and its caller waits for it there.
RequestInv ==
  /\ AtMostOne("RX_CAPTURE")
  /\ Queued("RX_CAPTURE") => OwnerWaits /\ ~Serving /\ ~captureDone /\ ~window.open
  /\ Serving => OwnerWaits /\ ~captureDone
  /\ captureDone => OwnerWaits
  /\ OwnerWaits => Queued("RX_CAPTURE") \/ Serving \/ captureDone
  /\ \A i \in 1 .. Len(eventQueue) :
       eventQueue[i].type = "RX_CAPTURE" => eventQueue[i].timeout = timeout[captureLock]
  /\ taskPc = "dispatch" /\ event.type = "RX_CAPTURE" =>
       ~running /\ ~window.open /\ event.timeout = timeout[captureLock]

\* The window of the request is the one the deadline stands for.
WindowInv ==
  /\ window.open => /\ captureLock \in Callers
                    /\ callerPc[captureLock] \in {"wait", "read", "release"}
                    /\ window.from <= now
                    /\ deadline = window.until
  /\ running => window.open

\* At most one completion is outstanding: the driver owns raw_symbols, or the
\* completion is queued, or rx_task is judging it.
ChannelInv ==
  /\ AtMostOne("RX_COMPLETE")
  /\ rmt = "armed" => ~Queued("RX_COMPLETE") /\ taskPc # "arm"
  /\ taskPc = "dispatch" /\ event.type = "RX_COMPLETE" =>
       ~Queued("RX_COMPLETE") /\ rmt # "armed"
  /\ ~running /\ ~faulted /\ taskPc # "reset" => ~Queued("RX_COMPLETE")
  /\ ~running /\ ~faulted => rmt = "disabled"
  /\ running => rmt # "disabled"
  /\ taskPc = "arm" => running /\ rmt = "enabled" /\ ~Queued("RX_COMPLETE")
  /\ taskPc \in {"reset", "acknowledge"} => ~running
  /\ running => ~faulted
  /\ running /\ taskPc = "dispatch" =>
       /\ event.type = "RX_COMPLETE"
       /\ rawSymbols.at = event.completed
       /\ window.from <= event.completed /\ event.completed <= now
  /\ running => \A i \in 1 .. Len(eventQueue) :
       eventQueue[i].type = "RX_COMPLETE" =>
         /\ rawSymbols.at = eventQueue[i].completed
         /\ window.from <= eventQueue[i].completed /\ eventQueue[i].completed <= now

\* What finish_capture is about to report, and what it has reported, is true.
AnswerInv ==
  /\ taskPc \in {"finish", "reset", "acknowledge"} =>
       /\ result = "ESP_OK" => InWindow(pendingFrame)
       /\ result = "ESP_ERR_TIMEOUT" => TimeIsUp
  /\ taskPc \in {"reset", "acknowledge"} /\ result \in {"ESP_OK", "ESP_ERR_TIMEOUT"} =>
       rmt = "disabled"
  /\ taskPc = "finish" /\ result \in {"ESP_OK", "ESP_ERR_TIMEOUT"} => running
  /\ \A c \in Callers :
       captureDone \/ callerPc[c] = "read" =>
         /\ captureResult = "ESP_OK" => InWindow(pendingFrame)
         /\ captureResult = "ESP_ERR_TIMEOUT" => TimeIsUp
         /\ captureResult \in {"ESP_OK", "ESP_ERR_TIMEOUT"} => rmt = "disabled"
  /\ \A c \in Callers :
       callerPc[c] = "release" =>
         /\ reply[c] = "ESP_OK" => InWindow(code[c])
         /\ reply[c] = "ESP_ERR_TIMEOUT" => TimeIsUp
         /\ reply[c] \in {"ESP_OK", "ESP_ERR_TIMEOUT"} => rmt = "disabled"

IInv == LockInv /\ RequestInv /\ WindowInv /\ ChannelInv /\ AnswerInv

-----------------------------------------------------------------------------
(* Types.                                                                  *)

\* A post to event_queue keeps its type, and goes in only when there is room.
LEMMA AppendOK ==
  ASSUME NEW q \in Seq(Event), NEW e \in Event, Len(q) < EventQueueDepth
  PROVE  Append(q, e) \in Seq(Event) /\ Len(Append(q, e)) <= EventQueueDepth
  BY DEF EventQueueDepth

\* The values the code computes from the clock are instants and ticks.
LEMMA ClockOK ==
  ASSUME NEW n \in Nat, NEW t \in Nat
  PROVE  /\ n \div TickLen \in Nat
         /\ n < t => (t - n + TickLen - 1) \div TickLen \in Nat
  BY TimeAssumption

LEMMA ValuesOK == Blank \in Frame /\ NoEvent \in Event /\ Shut \in Window
  BY DEF Blank, Frame, NoEvent, CompleteEvent, Event, Shut, Window

LEMMA TypeInit == Init => TypeOK
  <1> SUFFICES ASSUME Init PROVE TypeOK
    OBVIOUS
  <1>1. eventQueue \in Seq(Event) /\ Len(eventQueue) <= EventQueueDepth
    BY DEF Init, EventQueueDepth
  <1>2. /\ callerPc \in [Callers -> CallerStates]
        /\ timeout \in [Callers -> Nat]
        /\ reply \in [Callers -> Replies]
        /\ code \in [Callers -> Frame]
    BY ValuesOK DEF Init, CallerStates, Replies, Results
  <1> QED
    BY <1>1, <1>2, ValuesOK DEF Init, TypeOK, TaskStates, Results

\* start_capture runs for a caller, the one that waits for it.
LEMMA TypeStep == TypeOK /\ RequestInv /\ [Next]_vars => TypeOK'
  <1> SUFFICES ASSUME TypeOK, RequestInv, [Next]_vars PROVE TypeOK'
    OBVIOUS
  <1> USE DEF TypeOK
  <1>1. ASSUME NEW c \in Callers, NEW t \in Requested, Refuse(c, t) \/ Lock(c, t)
        PROVE  TypeOK'
    BY <1>1, TimeAssumption
       DEF Refuse, Lock, rxVars, taskVars, ackVars, CallerStates, Replies, LockFree
  <1>2. ASSUME NEW c \in Callers, SendRequest(c)
        PROVE  TypeOK'
    <2>1. CaptureEvent(timeout[c]) \in Event
      BY DEF CaptureEvent, Event
    <2> QED
      BY <1>2, <2>1, AppendOK
         DEF SendRequest, rxVars, taskVars, ackVars, CallerStates
  <1>3. ASSUME NEW c \in Callers, TakeDone(c) \/ ReadResult(c) \/ Release(c)
        PROVE  TypeOK'
    <2>1. CASE TakeDone(c)
      BY <2>1 DEF TakeDone, rxVars, taskVars, CallerStates
    <2>2. CASE ReadResult(c)
      <3>1. code' \in [Callers -> Frame] /\ reply' \in [Callers -> Replies]
        BY <2>2 DEF ReadResult, Replies
      <3> QED
        BY <2>2, <3>1 DEF ReadResult, rxVars, taskVars, ackVars, CallerStates
    <2>3. CASE Release(c)
      BY <2>3, ValuesOK DEF Release, rxVars, taskVars, ackVars, CallerStates
    <2> QED
      BY <1>3, <2>1, <2>2, <2>3
  <1>4. CASE ComputeWait
    <2>1. CurrentTick \in Nat /\ (now < deadline => TicksUntil(deadline) \in Nat)
      BY ClockOK DEF CurrentTick, TicksUntil
    <2>2. WakeTick \in Nat \cup {Forever}
      BY <2>1 DEF WakeTick
    <2> QED
      BY <1>4, <2>2 DEF ComputeWait, rxVars, callVars, ackVars, TaskStates
  <1>5. CASE Receive
    <2>1. Head(eventQueue) \in Event /\ Tail(eventQueue) \in Seq(Event)
      BY <1>5 DEF Receive
    <2>2. Len(Tail(eventQueue)) <= EventQueueDepth
      BY <1>5 DEF Receive, EventQueueDepth
    <2> QED
      BY <1>5, <2>1, <2>2 DEF Receive, rxVars, callVars, ackVars, TaskStates
  <1>6. CASE ReceiveFails \/ Expired
    BY <1>6 DEF ReceiveFails, Expired, rxVars, callVars, ackVars, TaskStates, Results
  <1>7. CASE StartCapture
    <2>1. now + event.timeout \in Nat /\ now + timeout[captureLock] \in Nat
      BY <1>7 DEF StartCapture, Event, RequestInv, Serving, OwnerWaits
    <2>2. [open |-> TRUE, from |-> now, until |-> now + timeout[captureLock]] \in Window
      BY <2>1 DEF Window
    <2>4. deadline' \in Nat /\ window' \in Window /\ pendingFrame' \in Frame
      BY <1>7, <2>1, <2>2, ValuesOK DEF StartCapture, rxVars, DeadlineFor
    <2>3. /\ running' \in BOOLEAN /\ faulted' \in BOOLEAN
          /\ rmt' \in {"disabled", "enabled", "armed"}
          /\ taskPc' \in TaskStates /\ result' \in Results
      BY <1>7 DEF StartCapture, rxVars, TaskStates, Results, Errors
    <2> QED
      BY <1>7, <2>3, <2>4, ValuesOK DEF StartCapture, callVars, ackVars
  <1>8. CASE Arm \/ IgnoreCompletion
    BY <1>8, ValuesOK
       DEF Arm, IgnoreCompletion, rxVars, callVars, ackVars, TaskStates, Results, Errors
  <1>9. CASE Judge
    <2>1. pendingFrame' \in Frame /\ result' \in Results /\ taskPc' \in TaskStates
      BY <1>9 DEF Judge, TaskStates, Results
    <2> QED
      BY <1>9, <2>1, ValuesOK DEF Judge, callVars, ackVars
  <1>10. CASE Disable
    BY <1>10 DEF Disable, DisableFails, callVars, ackVars, TaskStates, Results, Errors
  <1>11. CASE ResetQueue \/ Acknowledge
    <2>1. eventQueue' \in Seq(Event) /\ Len(eventQueue') <= EventQueueDepth
      <3>1. CASE ResetQueue
        BY <3>1 DEF ResetQueue, EventQueueDepth
      <3>2. CASE Acknowledge
        BY <3>2 DEF Acknowledge
      <3> QED
        BY <1>11, <3>1, <3>2
    <2> QED
      BY <1>11, <2>1
         DEF ResetQueue, Acknowledge, rxVars, callVars, TaskStates, Results, ackVars
  <1>12. ASSUME NEW valid \in BOOLEAN, RxDone(valid)
         PROVE  TypeOK'
    <2>1. CompleteEvent(now) \in Event
      BY DEF CompleteEvent, Event
    <2>2. eventQueue' \in Seq(Event) /\ Len(eventQueue') <= EventQueueDepth
      BY <1>12, <2>1, AppendOK DEF RxDone
    <2> QED
      BY <1>12, <2>2 DEF RxDone, rxVars, callVars, ackVars, taskVars, Frame
  <1>13. CASE Tick
    BY <1>13 DEF Tick, rxVars, callVars, ackVars, taskVars
  <1>14. CASE UNCHANGED vars
    BY <1>14 DEF vars, rxVars, callVars, ackVars, taskVars
  <1> QED
    BY <1>1, <1>2, <1>3, <1>4, <1>5, <1>6, <1>7, <1>8, <1>9, <1>10, <1>11, <1>12, <1>13,
       <1>14 DEF Next, CallerStep, RxTask

-----------------------------------------------------------------------------
(* The queue: what a post and a receive do to the events it holds.         *)

\* Posting an event queues it, and nothing else.
LEMMA AppendQueue ==
  ASSUME TypeOK, NEW e \in Event, eventQueue' = Append(eventQueue, e), NEW CONSTANT type
  PROVE  /\ Queued(type)' <=> Queued(type) \/ e.type = type
         /\ AtMostOne(type) /\ ~(Queued(type) /\ e.type = type) => AtMostOne(type)'
  <1>1. /\ Len(eventQueue') = Len(eventQueue) + 1
        /\ Len(eventQueue) \in Nat
        /\ \A i \in 1 .. Len(eventQueue) : eventQueue'[i] = eventQueue[i]
        /\ eventQueue'[Len(eventQueue) + 1] = e
    BY DEF TypeOK
  <1>2. Queued(type)' <=> Queued(type) \/ e.type = type
    BY <1>1 DEF Queued
  <1>3. ASSUME AtMostOne(type), ~(Queued(type) /\ e.type = type)
        PROVE  AtMostOne(type)'
    BY <1>1, <1>3 DEF Queued, AtMostOne
  <1> QED
    BY <1>2, <1>3

\* Receiving takes the oldest event out.
LEMMA TailQueue ==
  ASSUME TypeOK, eventQueue # <<>>, event' = Head(eventQueue), eventQueue' = Tail(eventQueue)
  PROVE  /\ \A i \in 1 .. Len(eventQueue') :
              i + 1 \in 1 .. Len(eventQueue) /\ eventQueue'[i] = eventQueue[i + 1]
         /\ \A type \in {"RX_CAPTURE", "RX_COMPLETE"} :
              /\ event'.type = type => Queued(type)
              /\ Queued(type) => Queued(type)' \/ event'.type = type
              /\ AtMostOne(type) => AtMostOne(type)'
              /\ AtMostOne(type) /\ Queued(type)' => Queued(type) /\ event'.type # type
  <1>1. /\ Len(eventQueue) \in Nat \ {0}
        /\ Len(eventQueue') = Len(eventQueue) - 1
        /\ event' = eventQueue[1]
        /\ \A i \in 1 .. Len(eventQueue') :
              i + 1 \in 1 .. Len(eventQueue) /\ eventQueue'[i] = eventQueue[i + 1]
    BY DEF TypeOK
  <1>2. ASSUME NEW type \in {"RX_CAPTURE", "RX_COMPLETE"}
        PROVE  /\ event'.type = type => Queued(type)
               /\ Queued(type) => Queued(type)' \/ event'.type = type
               /\ AtMostOne(type) => AtMostOne(type)'
               /\ AtMostOne(type) /\ Queued(type)' => Queued(type) /\ event'.type # type
    <2>1. event'.type = type => Queued(type)
      BY <1>1 DEF Queued
    <2>2. Queued(type) => Queued(type)' \/ event'.type = type
      <3>1. SUFFICES ASSUME NEW i \in 1 .. Len(eventQueue), eventQueue[i].type = type, i # 1
                     PROVE  Queued(type)'
        BY <1>1 DEF Queued
      <3>2. i - 1 \in 1 .. Len(eventQueue') /\ eventQueue'[i - 1] = eventQueue[i]
        BY <1>1, <3>1
      <3> QED
        BY <3>1, <3>2 DEF Queued
    <2>3. AtMostOne(type) => AtMostOne(type)'
      BY <1>1 DEF AtMostOne
    <2>4. AtMostOne(type) /\ Queued(type)' => Queued(type) /\ event'.type # type
      BY <1>1 DEF AtMostOne, Queued
    <2> QED
      BY <2>1, <2>2, <2>3, <2>4
  <1> QED
    BY <1>1, <1>2

-----------------------------------------------------------------------------
(* The inductive invariant is preserved, action by action.                 *)

LEMMA RefuseStep ==
  ASSUME TypeOK, TypeOK', IInv, NEW c \in Callers, NEW t \in Requested, Refuse(c, t)
  PROVE  IInv'
  <1> USE DEF TypeOK, IInv, Refuse, LockFree, rxVars, taskVars, callVars, ackVars
  <1>1. LockInv'
    BY DEF LockInv
  <1>2. RequestInv'
    BY DEF LockInv, RequestInv, AtMostOne, Queued, OwnerWaits, Serving, Event
  <1>3. WindowInv'
    BY DEF LockInv, RequestInv, WindowInv, OwnerWaits, Serving, Queued, Window
  <1>4. ChannelInv'
    BY DEF RequestInv, ChannelInv, AtMostOne, Queued, WindowInv, Event, Window, Serving, OwnerWaits
  <1>5. AnswerInv'
    BY DEF LockInv, RequestInv, ChannelInv, AnswerInv, WindowInv, InWindow, TimeIsUp, Serving, OwnerWaits, Window, Frame
  <1> QED
    BY <1>1, <1>2, <1>3, <1>4, <1>5

LEMMA LockStep ==
  ASSUME TypeOK, TypeOK', IInv, NEW c \in Callers, NEW t \in Requested, Lock(c, t)
  PROVE  IInv'
  <1> USE DEF TypeOK, IInv, Lock, LockFree, rxVars, taskVars, callVars, ackVars
  <1>1. LockInv'
    BY CallersAssumption DEF LockInv, CallerStates
  <1>2. RequestInv'
    BY <1>1, CallersAssumption DEF LockInv, RequestInv, AtMostOne, Queued, OwnerWaits, Serving, Event
  <1>3. WindowInv'
    BY CallersAssumption DEF LockInv, RequestInv, WindowInv, OwnerWaits, Serving, Queued, Window
  <1>4. ChannelInv'
    BY DEF RequestInv, ChannelInv, AtMostOne, Queued, WindowInv, Event, Window, Serving, OwnerWaits
  <1>5. AnswerInv'
    BY DEF LockInv, RequestInv, ChannelInv, AnswerInv, WindowInv, InWindow, TimeIsUp, Serving, OwnerWaits, Window, Frame
  <1> QED
    BY <1>1, <1>2, <1>3, <1>4, <1>5

LEMMA SendRequestStep ==
  ASSUME TypeOK, TypeOK', IInv, NEW c \in Callers, SendRequest(c)
  PROVE  IInv'
  <1> USE DEF TypeOK, IInv, SendRequest, CaptureEvent, rxVars, taskVars, callVars, ackVars
  <1>1. LockInv'
    BY DEF LockInv
  <1>0. /\ CaptureEvent(timeout[c]) \in Event
        /\ eventQueue' = Append(eventQueue, CaptureEvent(timeout[c]))
    BY DEF Event
  <1>2. RequestInv'
    <2>1. captureLock = c /\ ~OwnerWaits /\ OwnerWaits'
      BY DEF LockInv, OwnerWaits
    <2>2. ~Queued("RX_CAPTURE") /\ ~Serving /\ ~captureDone /\ ~Serving' /\ ~window.open
      BY <2>1 DEF RequestInv, Serving, WindowInv
    <2>3. Queued("RX_CAPTURE")' /\ AtMostOne("RX_CAPTURE")'
      <3>1. AtMostOne("RX_CAPTURE")
        BY DEF RequestInv
      <3>2. CaptureEvent(timeout[c]).type = "RX_CAPTURE"
        OBVIOUS
      <3> QED
        BY <1>0, <2>2, <3>1, <3>2, AppendQueue
    <2>4. \A i \in 1 .. Len(eventQueue') :
            eventQueue'[i].type = "RX_CAPTURE" => eventQueue'[i].timeout = timeout[c]
      BY <2>2, <1>0 DEF Queued
    <2> QED
      BY <2>1, <2>2, <2>3, <2>4 DEF RequestInv, Serving
  <1>3. WindowInv'
    BY DEF LockInv, RequestInv, WindowInv, OwnerWaits, Serving, Queued, Window
  <1>4. ChannelInv'
    <2>1. ~Serving
      BY DEF LockInv, RequestInv, OwnerWaits
    <2>2. Queued("RX_COMPLETE")' <=> Queued("RX_COMPLETE")
      BY <1>0, AppendQueue
    <2>3. AtMostOne("RX_COMPLETE") => AtMostOne("RX_COMPLETE")'
      BY <1>0, AppendQueue
    <2> QED
      BY <2>1, <2>2, <2>3 DEF ChannelInv, Serving
  <1>5. AnswerInv'
    BY DEF LockInv, RequestInv, ChannelInv, AnswerInv, WindowInv, InWindow, TimeIsUp, Serving, OwnerWaits, Window, Frame
  <1> QED
    BY <1>1, <1>2, <1>3, <1>4, <1>5

LEMMA TakeDoneStep ==
  ASSUME TypeOK, TypeOK', IInv, NEW c \in Callers, TakeDone(c)
  PROVE  IInv'
  <1> USE DEF TypeOK, IInv, TakeDone, rxVars, taskVars, callVars, ackVars
  <1>1. LockInv'
    BY DEF LockInv
  <1>2. RequestInv'
    BY DEF LockInv, RequestInv, AtMostOne, Queued, OwnerWaits, Serving, Event
  <1>3. WindowInv'
    BY DEF LockInv, RequestInv, WindowInv, OwnerWaits, Serving, Queued, Window
  <1>4. ChannelInv'
    BY DEF RequestInv, ChannelInv, AtMostOne, Queued, WindowInv, Event, Window, Serving, OwnerWaits
  <1>5. AnswerInv'
    BY DEF LockInv, RequestInv, ChannelInv, AnswerInv, WindowInv, InWindow, TimeIsUp, Serving, OwnerWaits, Window, Frame
  <1> QED
    BY <1>1, <1>2, <1>3, <1>4, <1>5

LEMMA ReadResultStep ==
  ASSUME TypeOK, TypeOK', IInv, NEW c \in Callers, ReadResult(c)
  PROVE  IInv'
  <1> USE DEF TypeOK, IInv, ReadResult, CopiesFrame, rxVars, taskVars, callVars, ackVars
  <1>1. LockInv'
    BY DEF LockInv
  <1>2. RequestInv'
    BY DEF LockInv, RequestInv, AtMostOne, Queued, OwnerWaits, Serving, Event
  <1>3. WindowInv'
    BY DEF LockInv, RequestInv, WindowInv, OwnerWaits, Serving, Queued, Window
  <1>4. ChannelInv'
    BY DEF RequestInv, ChannelInv, AtMostOne, Queued, WindowInv, Event, Window, Serving, OwnerWaits
  <1>5. AnswerInv'
    BY DEF LockInv, RequestInv, ChannelInv, AnswerInv, WindowInv, InWindow, TimeIsUp, Serving, OwnerWaits, Window, Frame
  <1> QED
    BY <1>1, <1>2, <1>3, <1>4, <1>5

LEMMA ReleaseStep ==
  ASSUME TypeOK, TypeOK', IInv, NEW c \in Callers, Release(c)
  PROVE  IInv'
  <1> USE DEF TypeOK, IInv, Release, Shut, rxVars, taskVars, callVars, ackVars
  <1>1. LockInv'
    BY CallersAssumption DEF LockInv, CallerStates
  <1>2. RequestInv'
    BY DEF LockInv, RequestInv, AtMostOne, Queued, OwnerWaits, Serving, Event
  <1>3. WindowInv'
    BY DEF LockInv, RequestInv, WindowInv, OwnerWaits, Serving, Queued, Window
  <1>4. ChannelInv'
    <2>1. ~running
      BY DEF RequestInv, Serving, OwnerWaits, LockInv
    <2> QED
      BY <2>1 DEF ChannelInv, AtMostOne, Queued
  <1>5. AnswerInv'
    <2>1. captureLock = c /\ ~OwnerWaits
      BY DEF LockInv, OwnerWaits
    <2>2. ~Serving /\ ~captureDone
      BY <2>1 DEF RequestInv
    <2>3. taskPc' \notin {"finish", "reset", "acknowledge"} /\ ~captureDone'
      BY <2>2 DEF Serving
    <2>4. \A d \in Callers : callerPc'[d] = "idle"
      BY <2>1 DEF LockInv
    <2> QED
      BY <2>3, <2>4 DEF AnswerInv
  <1> QED
    BY <1>1, <1>2, <1>3, <1>4, <1>5

LEMMA ComputeWaitStep ==
  ASSUME TypeOK, TypeOK', IInv, ComputeWait
  PROVE  IInv'
  <1> USE DEF TypeOK, IInv, ComputeWait, rxVars, taskVars, callVars, ackVars
  <1>1. LockInv'
    BY DEF LockInv
  <1>2. RequestInv'
    BY DEF LockInv, RequestInv, AtMostOne, Queued, OwnerWaits, Serving, Event
  <1>3. WindowInv'
    BY DEF LockInv, RequestInv, WindowInv, OwnerWaits, Serving, Queued, Window
  <1>4. ChannelInv'
    BY DEF RequestInv, ChannelInv, AtMostOne, Queued, WindowInv, Event, Window, Serving, OwnerWaits
  <1>5. AnswerInv'
    BY DEF LockInv, RequestInv, ChannelInv, AnswerInv, WindowInv, InWindow, TimeIsUp, Serving, OwnerWaits, Window, Frame
  <1> QED
    BY <1>1, <1>2, <1>3, <1>4, <1>5

LEMMA ReceiveStep ==
  ASSUME TypeOK, TypeOK', IInv, Receive
  PROVE  IInv'
  <1> USE DEF TypeOK, IInv, Receive, rxVars, taskVars, callVars, ackVars
  <1>1. LockInv'
    BY DEF LockInv
  <1>2. RequestInv'
    <2>1. event' \in Event /\ event' = eventQueue[1] /\ 1 \in 1 .. Len(eventQueue)
      OBVIOUS
    <2>2. /\ AtMostOne("RX_CAPTURE")'
          /\ Queued("RX_CAPTURE") => Queued("RX_CAPTURE")' \/ event'.type = "RX_CAPTURE"
          /\ Queued("RX_CAPTURE")' => Queued("RX_CAPTURE") /\ event'.type # "RX_CAPTURE"
          /\ event'.type = "RX_CAPTURE" => Queued("RX_CAPTURE")
      BY TailQueue DEF RequestInv
    <2>3. \A i \in 1 .. Len(eventQueue') :
            eventQueue'[i].type = "RX_CAPTURE" => eventQueue'[i].timeout = timeout[captureLock]
      BY TailQueue DEF RequestInv
    <2>4. event'.type = "RX_CAPTURE" => event'.timeout = timeout[captureLock]
      BY <2>1 DEF RequestInv
    <2>5. (Serving' <=> running \/ event'.type = "RX_CAPTURE") /\ (Serving <=> running)
      BY DEF Serving
    <2>6. OwnerWaits' <=> OwnerWaits
      BY DEF OwnerWaits
    <2> QED
      BY <2>2, <2>3, <2>4, <2>5, <2>6 DEF RequestInv
  <1>3. WindowInv'
    BY DEF LockInv, RequestInv, WindowInv, OwnerWaits, Serving, Queued, Window
  <1>4. ChannelInv'
    <2>1. event' \in Event /\ event' = eventQueue[1] /\ 1 \in 1 .. Len(eventQueue)
      OBVIOUS
    <2>2. /\ AtMostOne("RX_COMPLETE")'
          /\ Queued("RX_COMPLETE")' => Queued("RX_COMPLETE") /\ event'.type # "RX_COMPLETE"
          /\ event'.type = "RX_COMPLETE" => Queued("RX_COMPLETE")
      BY TailQueue DEF ChannelInv
    <2>3. running => /\ event'.type = "RX_COMPLETE"
                     /\ rawSymbols.at = event'.completed
                     /\ window.from <= event'.completed /\ event'.completed <= now
      <3>1. running => ~Queued("RX_CAPTURE")
        BY DEF RequestInv, Serving
      <3>2. running => event'.type = "RX_COMPLETE"
        BY <2>1, <3>1 DEF Queued, Event
      <3> QED
        BY <2>1, <3>2 DEF ChannelInv
    <2>4. running => \A i \in 1 .. Len(eventQueue') :
            eventQueue'[i].type = "RX_COMPLETE" =>
              /\ rawSymbols.at = eventQueue'[i].completed
              /\ window.from <= eventQueue'[i].completed /\ eventQueue'[i].completed <= now
      BY TailQueue DEF ChannelInv
    <2> QED
      BY <2>2, <2>3, <2>4 DEF ChannelInv
  <1>5. AnswerInv'
    BY DEF LockInv, RequestInv, ChannelInv, AnswerInv, WindowInv, InWindow, TimeIsUp, Serving, OwnerWaits, Window, Frame
  <1> QED
    BY <1>1, <1>2, <1>3, <1>4, <1>5

LEMMA ReceiveFailsStep ==
  ASSUME TypeOK, TypeOK', IInv, ReceiveFails
  PROVE  IInv'
  <1> USE DEF TypeOK, IInv, ReceiveFails, rxVars, taskVars, callVars, ackVars
  <1>1. LockInv'
    BY DEF LockInv
  <1>2. RequestInv'
    BY DEF LockInv, RequestInv, AtMostOne, Queued, OwnerWaits, Serving, Event
  <1>3. WindowInv'
    BY DEF LockInv, RequestInv, WindowInv, OwnerWaits, Serving, Queued, Window
  <1>4. ChannelInv'
    BY DEF RequestInv, ChannelInv, AtMostOne, Queued, WindowInv, Event, Window, Serving, OwnerWaits
  <1>5. AnswerInv'
    BY DEF LockInv, RequestInv, ChannelInv, AnswerInv, WindowInv, InWindow, TimeIsUp, Serving, OwnerWaits, Window, Frame
  <1> QED
    BY <1>1, <1>2, <1>3, <1>4, <1>5

LEMMA ExpiredStep ==
  ASSUME TypeOK, TypeOK', IInv, Expired
  PROVE  IInv'
  <1> USE DEF TypeOK, IInv, Expired, PastDeadline, rxVars, taskVars, callVars, ackVars
  <1>1. LockInv'
    BY DEF LockInv
  <1>2. RequestInv'
    BY DEF LockInv, RequestInv, AtMostOne, Queued, OwnerWaits, Serving, Event
  <1>3. WindowInv'
    BY DEF LockInv, RequestInv, WindowInv, OwnerWaits, Serving, Queued, Window
  <1>4. ChannelInv'
    BY DEF RequestInv, ChannelInv, AtMostOne, Queued, WindowInv, Event, Window, Serving, OwnerWaits
  <1>5. AnswerInv'
    BY DEF LockInv, RequestInv, ChannelInv, AnswerInv, WindowInv, InWindow, TimeIsUp, Serving, OwnerWaits, Window, Frame
  <1> QED
    BY <1>1, <1>2, <1>3, <1>4, <1>5

LEMMA StartCaptureStep ==
  ASSUME TypeOK, TypeOK', IInv, StartCapture
  PROVE  IInv'
  <1> USE DEF TypeOK, IInv, StartCapture, DeadlineFor, NoEvent, CompleteEvent, CanStart, rxVars, taskVars, callVars, ackVars
  <1>1. LockInv'
    BY DEF LockInv
  <1>2. RequestInv'
    BY DEF LockInv, RequestInv, AtMostOne, Queued, OwnerWaits, Serving, Event
  <1>3. WindowInv'
    BY DEF LockInv, RequestInv, WindowInv, OwnerWaits, Serving, Queued, Window
  <1>4. ChannelInv'
    BY DEF RequestInv, ChannelInv, AtMostOne, Queued, WindowInv, Event, Window, Serving, OwnerWaits
  <1>5. AnswerInv'
    BY DEF LockInv, RequestInv, ChannelInv, AnswerInv, WindowInv, InWindow, TimeIsUp, Serving, OwnerWaits, Window, Frame
  <1> QED
    BY <1>1, <1>2, <1>3, <1>4, <1>5

LEMMA ArmStep ==
  ASSUME TypeOK, TypeOK', IInv, Arm
  PROVE  IInv'
  <1> USE DEF TypeOK, IInv, Arm, rxVars, taskVars, callVars, ackVars
  <1>1. LockInv'
    BY DEF LockInv
  <1>2. RequestInv'
    BY DEF ChannelInv, LockInv, RequestInv, AtMostOne, Queued, OwnerWaits, Serving, Event
  <1>3. WindowInv'
    BY DEF LockInv, RequestInv, WindowInv, OwnerWaits, Serving, Queued, Window
  <1>4. ChannelInv'
    BY DEF RequestInv, ChannelInv, AtMostOne, Queued, WindowInv, Event, Window, Serving, OwnerWaits
  <1>5. AnswerInv'
    BY DEF LockInv, RequestInv, ChannelInv, AnswerInv, WindowInv, InWindow, TimeIsUp, Serving, OwnerWaits, Window, Frame
  <1> QED
    BY <1>1, <1>2, <1>3, <1>4, <1>5

LEMMA IgnoreCompletionStep ==
  ASSUME TypeOK, TypeOK', IInv, IgnoreCompletion
  PROVE  IInv'
  <1> USE DEF TypeOK, IInv, IgnoreCompletion, NoEvent, CompleteEvent, rxVars, taskVars, callVars, ackVars
  <1>1. LockInv'
    BY DEF LockInv
  <1>2. RequestInv'
    BY DEF LockInv, RequestInv, AtMostOne, Queued, OwnerWaits, Serving, Event
  <1>3. WindowInv'
    BY DEF LockInv, RequestInv, WindowInv, OwnerWaits, Serving, Queued, Window
  <1>4. ChannelInv'
    BY DEF RequestInv, ChannelInv, AtMostOne, Queued, WindowInv, Event, Window, Serving, OwnerWaits
  <1>5. AnswerInv'
    BY DEF LockInv, RequestInv, ChannelInv, AnswerInv, WindowInv, InWindow, TimeIsUp, Serving, OwnerWaits, Window, Frame
  <1> QED
    BY <1>1, <1>2, <1>3, <1>4, <1>5

LEMMA JudgeStep ==
  ASSUME TypeOK, TypeOK', IInv, Judge
  PROVE  IInv'
  <1> USE DEF TypeOK, IInv, Judge, InTime, PastDeadline, NoEvent, CompleteEvent, rxVars, taskVars, callVars, ackVars
  <1>1. LockInv'
    BY DEF LockInv
  <1>2. RequestInv'
    BY DEF LockInv, RequestInv, AtMostOne, Queued, OwnerWaits, Serving, Event
  <1>3. WindowInv'
    BY DEF LockInv, RequestInv, WindowInv, OwnerWaits, Serving, Queued, Window
  <1>4. ChannelInv'
    BY DEF RequestInv, ChannelInv, AtMostOne, Queued, WindowInv, Event, Window, Serving, OwnerWaits
  <1>5. AnswerInv'
    BY DEF LockInv, RequestInv, ChannelInv, AnswerInv, WindowInv, InWindow, TimeIsUp, Serving, OwnerWaits, Window, Frame
  <1> QED
    BY <1>1, <1>2, <1>3, <1>4, <1>5

LEMMA DisableStep ==
  ASSUME TypeOK, TypeOK', IInv, Disable
  PROVE  IInv'
  <1> USE DEF TypeOK, IInv, Disable, DisableFails, rxVars, taskVars, callVars, ackVars
  <1>1. LockInv'
    BY DEF LockInv
  <1>2. RequestInv'
    BY DEF LockInv, RequestInv, AtMostOne, Queued, OwnerWaits, Serving, Event
  <1>3. WindowInv'
    BY DEF LockInv, RequestInv, WindowInv, OwnerWaits, Serving, Queued, Window
  <1>4. ChannelInv'
    BY DEF RequestInv, ChannelInv, AtMostOne, Queued, WindowInv, Event, Window, Serving, OwnerWaits
  <1>5. AnswerInv'
    BY DEF LockInv, RequestInv, ChannelInv, AnswerInv, WindowInv, InWindow, TimeIsUp, Serving, OwnerWaits, Window, Frame
  <1> QED
    BY <1>1, <1>2, <1>3, <1>4, <1>5

LEMMA ResetQueueStep ==
  ASSUME TypeOK, TypeOK', IInv, ResetQueue
  PROVE  IInv'
  <1> USE DEF TypeOK, IInv, ResetQueue, rxVars, taskVars, callVars, ackVars
  <1>1. LockInv'
    BY DEF LockInv
  <1>2. RequestInv'
    BY DEF LockInv, RequestInv, AtMostOne, Queued, OwnerWaits, Serving, Event
  <1>3. WindowInv'
    BY DEF LockInv, RequestInv, WindowInv, OwnerWaits, Serving, Queued, Window
  <1>4. ChannelInv'
    BY DEF RequestInv, ChannelInv, AtMostOne, Queued, WindowInv, Event, Window, Serving, OwnerWaits
  <1>5. AnswerInv'
    BY DEF LockInv, RequestInv, ChannelInv, AnswerInv, WindowInv, InWindow, TimeIsUp, Serving, OwnerWaits, Window, Frame
  <1> QED
    BY <1>1, <1>2, <1>3, <1>4, <1>5

LEMMA AcknowledgeStep ==
  ASSUME TypeOK, TypeOK', IInv, Acknowledge
  PROVE  IInv'
  <1> USE DEF TypeOK, IInv, Acknowledge, rxVars, taskVars, callVars, ackVars
  <1>1. LockInv'
    BY DEF LockInv
  <1>2. RequestInv'
    BY DEF ChannelInv, LockInv, RequestInv, AtMostOne, Queued, OwnerWaits, Serving, Event
  <1>3. WindowInv'
    BY DEF LockInv, RequestInv, WindowInv, OwnerWaits, Serving, Queued, Window
  <1>4. ChannelInv'
    BY DEF RequestInv, ChannelInv, AtMostOne, Queued, WindowInv, Event, Window, Serving, OwnerWaits
  <1>5. AnswerInv'
    BY DEF LockInv, RequestInv, ChannelInv, AnswerInv, WindowInv, InWindow, TimeIsUp, Serving, OwnerWaits, Window, Frame
  <1> QED
    BY <1>1, <1>2, <1>3, <1>4, <1>5

LEMMA RxDoneStep ==
  ASSUME TypeOK, TypeOK', IInv, NEW valid \in BOOLEAN, RxDone(valid)
  PROVE  IInv'
  <1> USE DEF TypeOK, IInv, RxDone, PartialRx, CompleteEvent, EventQueueDepth, rxVars, taskVars, callVars, ackVars
  <1>1. LockInv'
    BY DEF LockInv
  <1>2. RequestInv'
    BY DEF LockInv, RequestInv, AtMostOne, Queued, OwnerWaits, Serving, Event
  <1>3. WindowInv'
    BY DEF LockInv, RequestInv, WindowInv, OwnerWaits, Serving, Queued, Window
  <1>4. ChannelInv'
    BY DEF RequestInv, ChannelInv, AtMostOne, Queued, WindowInv, Event, Window, Serving, OwnerWaits
  <1>5. AnswerInv'
    BY DEF LockInv, RequestInv, ChannelInv, AnswerInv, WindowInv, InWindow, TimeIsUp, Serving, OwnerWaits, Window, Frame
  <1> QED
    BY <1>1, <1>2, <1>3, <1>4, <1>5

LEMMA TickStep ==
  ASSUME TypeOK, TypeOK', IInv, Tick
  PROVE  IInv'
  <1> USE DEF TypeOK, IInv, Tick, rxVars, taskVars, callVars, ackVars
  <1>1. LockInv'
    BY DEF LockInv
  <1>2. RequestInv'
    BY DEF LockInv, RequestInv, AtMostOne, Queued, OwnerWaits, Serving, Event
  <1>3. WindowInv'
    BY DEF LockInv, RequestInv, WindowInv, OwnerWaits, Serving, Queued, Window
  <1>4. ChannelInv'
    <2>1. \A t \in Nat : t <= now => t <= now'
      OBVIOUS
    <2>2. event.completed \in Nat
      BY DEF Event
    <2>3. \A i \in 1 .. Len(eventQueue) : eventQueue[i].completed \in Nat
      <3>1. \A i \in 1 .. Len(eventQueue) : eventQueue[i] \in Event
        OBVIOUS
      <3> QED
        BY <3>1 DEF Event
    <2> QED
      BY <2>1, <2>2, <2>3 DEF ChannelInv, AtMostOne, Queued
  <1>5. AnswerInv'
    BY DEF LockInv, RequestInv, ChannelInv, AnswerInv, WindowInv, InWindow, TimeIsUp, Serving, OwnerWaits, Window, Frame
  <1> QED
    BY <1>1, <1>2, <1>3, <1>4, <1>5

LEMMA InvInit == Init => IInv
  <1> SUFFICES ASSUME Init PROVE IInv
    OBVIOUS
  <1>1. LockInv
    BY CallersAssumption DEF Init, LockInv
  <1>2. RequestInv
    BY CallersAssumption DEF Init, RequestInv, AtMostOne, Queued, OwnerWaits, Serving, Shut,
       NoEvent, CompleteEvent
  <1>3. WindowInv
    BY DEF Init, WindowInv, Shut
  <1>4. ChannelInv
    BY DEF Init, ChannelInv, AtMostOne, Queued
  <1>5. AnswerInv
    BY DEF Init, AnswerInv
  <1> QED
    BY <1>1, <1>2, <1>3, <1>4, <1>5 DEF IInv

LEMMA InvStep == TypeOK /\ IInv /\ [Next]_vars => TypeOK' /\ IInv'
  <1> SUFFICES ASSUME TypeOK, IInv, [Next]_vars PROVE TypeOK' /\ IInv'
    OBVIOUS
  <1>1. TypeOK'
    BY TypeStep DEF IInv
  <1>2. ASSUME NEW c \in Callers, NEW t \in Requested, Refuse(c, t) \/ Lock(c, t)
        PROVE  IInv'
    BY <1>1, <1>2, RefuseStep, LockStep
  <1>3. ASSUME NEW c \in Callers, CallerStep(c)
        PROVE  IInv'
    BY <1>1, <1>3, SendRequestStep, TakeDoneStep, ReadResultStep, ReleaseStep
       DEF CallerStep
  <1>4. CASE RxTask
    BY <1>1, <1>4, ComputeWaitStep, ReceiveStep, ReceiveFailsStep, ExpiredStep,
       StartCaptureStep, ArmStep, IgnoreCompletionStep, JudgeStep, DisableStep,
       ResetQueueStep, AcknowledgeStep
       DEF RxTask
  <1>5. ASSUME NEW valid \in BOOLEAN, RxDone(valid)
        PROVE  IInv'
    BY <1>1, <1>5, RxDoneStep
  <1>6. CASE Tick
    BY <1>1, <1>6, TickStep
  <1>7. CASE UNCHANGED vars
    <2> USE <1>7 DEF vars, rxVars, taskVars, callVars, ackVars
    <2>1. LockInv' /\ RequestInv'
      BY DEF IInv, LockInv, RequestInv, AtMostOne, Queued, OwnerWaits, Serving
    <2>2. WindowInv' /\ ChannelInv'
      BY DEF IInv, WindowInv, ChannelInv, AtMostOne, Queued
    <2>3. AnswerInv'
      BY DEF IInv, AnswerInv, InWindow, TimeIsUp
    <2> QED
      BY <1>1, <2>1, <2>2, <2>3 DEF IInv
  <1> QED
    BY <1>1, <1>2, <1>3, <1>4, <1>5, <1>6, <1>7 DEF Next

LEMMA Invariance == Spec => [](TypeOK /\ IInv)
  <1>1. Init => TypeOK /\ IInv
    BY TypeInit, InvInit
  <1> QED
    BY <1>1, InvStep, PTL DEF Spec

-----------------------------------------------------------------------------
(* The theorems.                                                           *)

\* Every variable keeps the type its C declaration and its use give it; in
\* particular event_queue never holds more than its two events.
THEOREM TypeCorrect == Spec => []TypeOK
  BY Invariance, PTL

\* ESP_OK means a valid frame that completed inside the window of this request.
THEOREM FreshFrameHolds == Spec => []FreshFrame
  <1>1. TypeOK /\ IInv => FreshFrame
    BY DEF IInv, AnswerInv, InWindow, FreshFrame
  <1> QED
    BY <1>1, Invariance, PTL

\* ESP_ERR_TIMEOUT is reported only when the requested time has passed.
THEOREM TimeoutNotEarlyHolds == Spec => []TimeoutNotEarly
  <1>1. TypeOK /\ IInv => TimeoutNotEarly
    BY DEF IInv, AnswerInv, TimeIsUp, TimeoutNotEarly, TypeOK, Window
  <1> QED
    BY <1>1, Invariance, PTL

\* The receiver is off when ir_rx_capture returns, unless rmt_disable failed.
THEOREM ReceiverOff == Spec => []ReceiverOffAtReturn
  <1>1. TypeOK /\ IInv => ReceiverOffAtReturn
    BY DEF IInv, LockInv, RequestInv, ChannelInv, AnswerInv, Serving, OwnerWaits,
           ReceiverOffAtReturn
  <1> QED
    BY <1>1, Invariance, PTL

\* The interrupt always finds room for the completion it posts.
THEOREM CompletionNeverLost == Spec => []CompletionHasRoom
  <1>1. TypeOK /\ IInv => CompletionHasRoom
    <2> SUFFICES ASSUME TypeOK, IInv, rmt = "armed", Len(eventQueue) >= EventQueueDepth
                 PROVE  FALSE
      BY DEF TypeOK, EventQueueDepth, CompletionHasRoom
    <2>1. 1 \in 1 .. Len(eventQueue) /\ 2 \in 1 .. Len(eventQueue)
      BY DEF TypeOK, EventQueueDepth
    <2>2. eventQueue[1] \in Event /\ eventQueue[2] \in Event
      BY <2>1 DEF TypeOK
    <2>3. eventQueue[1].type = "RX_CAPTURE" /\ eventQueue[2].type = "RX_CAPTURE"
      BY <2>1, <2>2 DEF IInv, ChannelInv, Queued, Event
    <2> QED
      BY <2>1, <2>3 DEF IInv, RequestInv, AtMostOne
  <1> QED
    BY <1>1, Invariance, PTL

\* rx_task reads raw_symbols only while the driver leaves them alone.
THEOREM JudgedBufferHolds == Spec => []JudgedBufferIsStill
  <1>1. TypeOK /\ IInv => JudgedBufferIsStill
    <2> SUFFICES ASSUME TypeOK, IInv, taskPc = "dispatch", event.type = "RX_COMPLETE", running
                 PROVE  /\ rmt = "enabled"
                        /\ rawSymbols.at = event.completed
                        /\ Completions = {}
      BY DEF JudgedBufferIsStill
    <2>1. rmt = "enabled" /\ rawSymbols.at = event.completed
      BY DEF IInv, ChannelInv, TypeOK
    <2>2. Completions = {}
      BY DEF IInv, ChannelInv, Queued, Completions
    <2> QED
      BY <2>1, <2>2
  <1> QED
    BY <1>1, Invariance, PTL

\* No request is lost by the queue reset and none is acknowledged twice.
THEOREM RequestAccountedHolds == Spec => []RequestAccounted
  <1>1. TypeOK /\ IInv => RequestAccounted
    <2> SUFFICES ASSUME TypeOK, IInv PROVE RequestAccounted
      OBVIOUS
    <2>1. Requests # {} <=> Queued("RX_CAPTURE")
      BY DEF Requests, Queued
    <2> QED
      BY <2>1 DEF IInv, LockInv, RequestInv, OwnerWaits, RequestAccounted
  <1> QED
    BY <1>1, Invariance, PTL

\* Nothing extends the deadline of a capture in progress.
THEOREM DeadlineKeptHolds == Spec => []DeadlineKept
  <1>1. TypeOK /\ IInv => DeadlineKept
    BY DEF IInv, WindowInv, DeadlineKept
  <1> QED
    BY <1>1, Invariance, PTL

\* rx_task does not touch the answer while a caller copies it.
THEOREM AnswerStable == Spec => AnswerStableWhileRead
  <1>1. TypeOK /\ IInv /\ [Next]_vars =>
          [\A c \in Callers : callerPc[c] = "read" =>
             pendingFrame' = pendingFrame /\ captureResult' = captureResult]_vars
    <2> SUFFICES ASSUME TypeOK, IInv, Next, NEW c \in Callers, callerPc[c] = "read"
                 PROVE  pendingFrame' = pendingFrame /\ captureResult' = captureResult
      OBVIOUS
    <2>1. ~Serving
      BY DEF IInv, LockInv, RequestInv, OwnerWaits
    <2>2. CASE \E d \in Callers :
                 CallerStep(d) \/ \E t \in Requested : Refuse(d, t) \/ Lock(d, t)
      BY <2>2 DEF CallerStep, Refuse, Lock, SendRequest, TakeDone, ReadResult, Release,
                  rxVars, ackVars
    <2>3. CASE RxTask
      BY <2>1, <2>3
         DEF RxTask, Serving, ComputeWait, Receive, ReceiveFails, Expired, StartCapture, Arm,
             IgnoreCompletion, Judge, Disable, ResetQueue, Acknowledge, rxVars, ackVars
    <2>4. CASE Tick \/ \E valid \in BOOLEAN : RxDone(valid)
      BY <2>4 DEF Tick, RxDone, rxVars, ackVars
    <2> QED
      BY <2>2, <2>3, <2>4 DEF Next
  <1> QED
    BY <1>1, Invariance, PTL DEF Spec, AnswerStableWhileRead

\* After a failed rmt_disable the receiver is never armed again.
THEOREM FaultedReceiverNeverArmed == Spec => FaultedNeverArmed
  <1>1. TypeOK /\ IInv /\ [Next]_vars =>
          [faulted /\ rmt # "armed" => rmt' # "armed"]_vars
    <2> SUFFICES ASSUME TypeOK, IInv, Next, faulted, rmt # "armed" PROVE rmt' # "armed"
      OBVIOUS
    <2>1. taskPc # "arm"
      BY DEF IInv, ChannelInv
    <2>2. CASE \E d \in Callers :
                 CallerStep(d) \/ \E t \in Requested : Refuse(d, t) \/ Lock(d, t)
      BY <2>2 DEF CallerStep, Refuse, Lock, SendRequest, TakeDone, ReadResult, Release
    <2>3. CASE RxTask
      BY <2>1, <2>3
         DEF RxTask, ComputeWait, Receive, ReceiveFails, Expired, StartCapture, Arm, CanStart,
             IgnoreCompletion, Judge, Disable, DisableFails, ResetQueue, Acknowledge
    <2>4. CASE Tick \/ \E valid \in BOOLEAN : RxDone(valid)
      BY <2>4 DEF Tick, RxDone
    <2> QED
      BY <2>2, <2>3, <2>4 DEF Next
  <1> QED
    BY <1>1, Invariance, PTL DEF Spec, FaultedNeverArmed

-----------------------------------------------------------------------------
(* The one-shot service is implemented.                                    *)

LEMMA ServiceInit == Init => Service!Init
  BY CallersAssumption
     DEF Init, Service!Init, SessionPhase, Blank, Shut, Service!Shut

\* The steps of the code that the service sees.
LEMMA VisibleStep ==
  ASSUME TypeOK, IInv, NEW c \in Callers
  PROVE  /\ \A t \in Requested : Refuse(c, t) => Service!Refuse(c, t)
         /\ \A t \in Requested : Lock(c, t) => Service!Ask(c, t)
         /\ ReadResult(c) => \/ Service!AnswerFrame
                             \/ Service!AnswerTimeout
                             \/ Service!AnswerError
         /\ Release(c) => Service!Leave
  <1>1. ASSUME NEW t \in Requested, Refuse(c, t) PROVE Service!Refuse(c, t)
    <2>1. captureLock # c /\ captureLock' = captureLock
      BY <1>1 DEF IInv, LockInv, Refuse
    <2>2. SessionPhase' = SessionPhase
      BY <1>1 DEF SessionPhase, Refuse
    <2>3. ~LockFree => SessionPhase # "free"
      BY DEF LockFree, SessionPhase
    <2> QED
      BY <1>1, <2>1, <2>2, <2>3 DEF Refuse, Service!Refuse
  <1>2. ASSUME NEW t \in Requested, Lock(c, t) PROVE Service!Ask(c, t)
    <2>1. SessionPhase = "free"
      BY <1>2 DEF Lock, LockFree, SessionPhase
    <2>2. ~window.open /\ window' = window
      BY <1>2, CallersAssumption DEF Lock, LockFree, IInv, WindowInv
    <2>3. SessionPhase' = "asked"
      BY <1>2, <2>2, CallersAssumption DEF Lock, TypeOK, SessionPhase
    <2> QED
      BY <1>2, <2>1, <2>3 DEF Lock, Service!Ask
  <1>3. ASSUME ReadResult(c)
        PROVE  Service!AnswerFrame \/ Service!AnswerTimeout \/ Service!AnswerError
    <2>1. captureLock = c /\ c # NoCaller
      BY <1>3, CallersAssumption DEF ReadResult, IInv, LockInv
    <2>2. SessionPhase = IF window.open THEN "listening" ELSE "asked"
      BY <1>3, <2>1 DEF ReadResult, SessionPhase
    <2>3. SessionPhase' = "answered"
      BY <1>3, <2>1 DEF ReadResult, SessionPhase, TypeOK
    <2>4. CASE captureResult = "ESP_OK"
      <3>1. InWindow(pendingFrame)
        BY <1>3, <2>4 DEF ReadResult, IInv, AnswerInv
      <3>2. pendingFrame = [valid |-> TRUE, at |-> pendingFrame.at]
        BY <3>1 DEF TypeOK, Frame, InWindow
      <3>3. pendingFrame.at \in window.from .. window.until
        BY <3>1 DEF TypeOK, Frame, Window, InWindow
      <3> QED
        BY <1>3, <2>1, <2>2, <2>3, <2>4, <3>1, <3>2, <3>3
           DEF ReadResult, CopiesFrame, InWindow, Service!AnswerFrame
    <2>5. CASE captureResult = "ESP_ERR_TIMEOUT"
      <3>1. TimeIsUp
        BY <1>3, <2>5 DEF ReadResult, IInv, AnswerInv
      <3> QED
        BY <1>3, <2>1, <2>2, <2>3, <2>5, <3>1
           DEF ReadResult, CopiesFrame, TimeIsUp, TypeOK, Window, Service!AnswerTimeout
    <2>6. CASE captureResult \in Errors
      BY <1>3, <2>1, <2>2, <2>3, <2>6
         DEF ReadResult, CopiesFrame, Errors, Service!Errors, Service!AnswerError
    <2> QED
      BY <2>4, <2>5, <2>6 DEF TypeOK, Results
  <1>4. ASSUME Release(c) PROVE Service!Leave
    <2>1. captureLock = c /\ c # NoCaller
      BY <1>4, CallersAssumption DEF Release, IInv, LockInv
    <2> QED
      BY <1>4, <2>1 DEF Release, SessionPhase, Shut, Service!Shut, Service!Leave
  <1> QED
    BY <1>1, <1>2, <1>3, <1>4

\* The steps of the code that the service does not see.
LEMMA HiddenStep ==
  ASSUME TypeOK, IInv,
         \/ \E c \in Callers : SendRequest(c) \/ TakeDone(c)
         \/ RxTask /\ window' = window
         \/ \E valid \in BOOLEAN : RxDone(valid)
         \/ UNCHANGED vars
  PROVE  UNCHANGED Service!vars
  <1>1. ASSUME NEW c \in Callers, SendRequest(c) \/ TakeDone(c)
        PROVE  UNCHANGED Service!vars
    <2>1. captureLock = c /\ captureLock' = captureLock /\ window' = window
      BY <1>1 DEF SendRequest, TakeDone, IInv, LockInv
    <2>2. callerPc[c] # "release" /\ callerPc'[c] # "release"
      BY <1>1 DEF SendRequest, TakeDone, TypeOK
    <2>3. SessionPhase' = SessionPhase
      BY <2>1, <2>2 DEF SessionPhase
    <2> QED
      BY <1>1, <2>3 DEF SendRequest, TakeDone, Service!vars
  <1>2. ASSUME RxTask, window' = window
        PROVE  UNCHANGED Service!vars
    <2>1. UNCHANGED <<now, callVars>>
      BY <1>2 DEF RxTask, ComputeWait, Receive, ReceiveFails, Expired, StartCapture, Arm,
                  IgnoreCompletion, Judge, Disable, ResetQueue, Acknowledge
    <2> QED
      BY <1>2, <2>1 DEF callVars, SessionPhase, Service!vars
  <1>3. ASSUME NEW valid \in BOOLEAN, RxDone(valid)
        PROVE  UNCHANGED Service!vars
    BY <1>3 DEF RxDone, callVars, SessionPhase, Service!vars
  <1>4. CASE UNCHANGED vars
    BY <1>4 DEF vars, callVars, SessionPhase, Service!vars
  <1> QED
    BY <1>1, <1>2, <1>3, <1>4

\* Opening the window is the only thing rx_task does that the service sees.
LEMMA TaskStep ==
  ASSUME TypeOK, IInv, RxTask, window' # window
  PROVE  Service!Listen
  <1>1. StartCapture
    BY DEF RxTask, ComputeWait, Receive, ReceiveFails, Expired, Arm, IgnoreCompletion, Judge,
           Disable, ResetQueue, Acknowledge
  <1>2. /\ captureLock \in Callers /\ callerPc[captureLock] = "wait"
        /\ captureLock # NoCaller /\ ~window.open
    BY <1>1, CallersAssumption DEF StartCapture, IInv, RequestInv, Serving, OwnerWaits
  <1>3. window' = [open |-> TRUE, from |-> now, until |-> now + timeout[captureLock]]
    BY <1>1 DEF StartCapture
  <1>4. SessionPhase = "asked" /\ SessionPhase' = "listening"
    BY <1>1, <1>2, <1>3 DEF StartCapture, callVars, SessionPhase
  <1> QED
    BY <1>1, <1>3, <1>4 DEF StartCapture, callVars, Service!Listen

\* ir_rx_capture, its task, its queue and its interrupt implement the one-shot
\* service: every step is a step of the service or invisible to it.
THEOREM Refinement == Spec => ImplementsService
  <1>1. TypeOK /\ IInv /\ [Next]_vars => [Service!Next]_Service!vars
    <2> SUFFICES ASSUME TypeOK, IInv, [Next]_vars PROVE [Service!Next]_Service!vars
      OBVIOUS
    <2>1. ASSUME NEW c \in Callers, NEW t \in Requested, Refuse(c, t) \/ Lock(c, t)
          PROVE  [Service!Next]_Service!vars
      BY <2>1, VisibleStep DEF Service!Next
    <2>2. ASSUME NEW c \in Callers, CallerStep(c)
          PROVE  [Service!Next]_Service!vars
      BY <2>2, VisibleStep, HiddenStep DEF CallerStep, Service!Next
    <2>3. CASE RxTask
      BY <2>3, TaskStep, HiddenStep DEF Service!Next
    <2>4. CASE \E valid \in BOOLEAN : RxDone(valid)
      BY <2>4, HiddenStep
    <2>5. CASE Tick
      BY <2>5 DEF Tick, callVars, SessionPhase, Service!TimePasses, Service!Next
    <2>6. CASE UNCHANGED vars
      BY <2>6, HiddenStep
    <2> QED
      BY <2>1, <2>2, <2>3, <2>4, <2>5, <2>6 DEF Next
  <1> QED
    BY <1>1, ServiceInit, Invariance, PTL DEF Spec, ImplementsService, Service!Spec
=============================================================================
