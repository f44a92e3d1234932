--------------------------- MODULE CaptureService ---------------------------
(***************************************************************************)
(* What ir_rx_capture promises its callers (the contract in                *)
(* FW/main/ir_rx.h), without the task, the queue or the interrupt:         *)
(*   - one client at a time is served, the others are refused at once;     *)
(*   - a served client gets a valid frame that completed between the       *)
(*     opening of its reception window and its deadline, or learns that    *)
(*     its time has passed, or learns of an error;                         *)
(*   - a client that gets no frame keeps its buffer as it was.             *)
(***************************************************************************)
EXTENDS Integers

CONSTANTS Callers, NoCaller, Requested, MaxTimeout

VARIABLES now, client, phase, timeout, window, reply, code
vars == <<now, client, phase, timeout, window, reply, code>>

Shut == [open |-> FALSE, from |-> 0, until |-> 0]
Errors == {"ESP_FAIL", "ESP_ERR_INVALID_STATE"}

Init ==
  /\ now = 0
  /\ client = NoCaller
  /\ phase = "free"
  /\ timeout = [c \in Callers |-> 0]
  /\ window = Shut
  /\ reply = [c \in Callers |-> "ESP_OK"]
  /\ code = [c \in Callers |-> [valid |-> FALSE, at |-> 0]]

TimePasses == now' = now + 1 /\ UNCHANGED <<client, phase, timeout, window, reply, code>>

Refuse(c, t) ==
  /\ c # client
  /\ reply' = [reply EXCEPT ![c] = IF t \in 1 .. MaxTimeout THEN "ESP_ERR_NOT_FINISHED"
                                   ELSE "ESP_ERR_INVALID_ARG"]
  /\ t \in 1 .. MaxTimeout => phase # "free"
  /\ UNCHANGED <<now, client, phase, timeout, window, code>>

Ask(c, t) ==
  /\ phase = "free"
  /\ t \in 1 .. MaxTimeout
  /\ phase' = "asked"
  /\ client' = c
  /\ timeout' = [timeout EXCEPT ![c] = t]
  /\ UNCHANGED <<now, window, reply, code>>

Listen ==
  /\ phase = "asked"
  /\ phase' = "listening"
  /\ window' = [open |-> TRUE, from |-> now, until |-> now + timeout[client]]
  /\ UNCHANGED <<now, client, timeout, reply, code>>

AnswerFrame ==
  /\ phase = "listening"
  /\ phase' = "answered"
  /\ reply' = [reply EXCEPT ![client] = "ESP_OK"]
  /\ \E at \in window.from .. window.until :
       at <= now /\ code' = [code EXCEPT ![client] = [valid |-> TRUE, at |-> at]]
  /\ UNCHANGED <<now, client, timeout, window>>

AnswerTimeout ==
  /\ phase = "listening"
  /\ now >= window.until
  /\ phase' = "answered"
  /\ reply' = [reply EXCEPT ![client] = "ESP_ERR_TIMEOUT"]
  /\ UNCHANGED <<now, client, timeout, window, code>>

AnswerError ==
  /\ phase \in {"asked", "listening"}
  /\ phase' = "answered"
  /\ \E e \in Errors : reply' = [reply EXCEPT ![client] = e]
  /\ UNCHANGED <<now, client, timeout, window, code>>

Leave ==
  /\ phase = "answered"
  /\ phase' = "free"
  /\ client' = NoCaller
  /\ timeout' = [timeout EXCEPT ![client] = 0]
  /\ window' = Shut
  /\ UNCHANGED <<now, reply, code>>

Next == \/ TimePasses \/ Listen \/ AnswerFrame \/ AnswerTimeout \/ AnswerError \/ Leave
        \/ \E c \in Callers, t \in Requested : Refuse(c, t) \/ Ask(c, t)




Spec == Init /\ [][Next]_vars
=============================================================================
