----------------------------- MODULE ByteStream -----------------------------
(***************************************************************************)
(* What read() on /dev/devtitans_ir promises (the comment above ir_read in *)
(* ir.c): the bytes of each device form one stream, and every call returns *)
(* the next piece of it, whatever the packets they came in.                *)
(*                                                                         *)
(* The bytes of a device are numbered 1, 2, 3, ...                         *)
(***************************************************************************)
EXTENDS Naturals

CONSTANTS Files,    \* the files
          Devices,  \* the devices they are opened on
          NoDevice  \* none of Devices

VARIABLES
  received,  \* [Devices -> how many bytes have arrived]
  taken,     \* [Devices -> how many of them a call has returned]
  answer,    \* [Files -> the bytes its call returns]
  opened     \* [Files -> its device, or NoDevice]

vars == <<received, taken, answer, opened>>

Init ==
  /\ received = [d \in Devices |-> 0]
  /\ taken = [d \in Devices |-> 0]
  /\ answer = [f \in Files |-> <<>>]
  /\ opened = [f \in Files |-> NoDevice]

Open(f, d) ==
  /\ opened[f] = NoDevice
  /\ opened' = [opened EXCEPT ![f] = d]
  /\ UNCHANGED <<received, taken, answer>>

\* The device is gone, and what nobody has read with it.
Gone(d) ==
  /\ received' = [received EXCEPT ![d] = 0]
  /\ taken' = [taken EXCEPT ![d] = 0]

\* A device may go with the last file that has it open.
Close(f) ==
  LET d == opened[f] IN
  /\ d # NoDevice
  /\ opened' = [opened EXCEPT ![f] = NoDevice]
  /\ answer' = [answer EXCEPT ![f] = <<>>]
  /\ \/ UNCHANGED <<received, taken>>
     \/ Gone(d) /\ \A g \in Files : opened'[g] # d

\* Or later, when nobody has it open.
Vanish(d) ==
  /\ \A f \in Files : opened[f] # d
  /\ Gone(d)
  /\ UNCHANGED <<answer, opened>>

\* More bytes arrive.
Receive(d) ==
  /\ received'[d] > received[d]
  /\ received' = [received EXCEPT ![d] = received'[d]]
  /\ UNCHANGED <<taken, answer, opened>>

\* A call on the file returns the next n bytes of its device, or none.
Return(f) ==
  LET d == opened[f] IN
  /\ d # NoDevice
  /\ \E n \in 0 .. received[d] - taken[d] :
        /\ answer' = [answer EXCEPT ![f] = [i \in 1 .. n |-> taken[d] + i]]
        /\ taken' = [taken EXCEPT ![d] = @ + n]
  /\ UNCHANGED <<received, opened>>

\* The user is done with the answer.
Forget(f) ==
  /\ answer' = [answer EXCEPT ![f] = <<>>]
  /\ UNCHANGED <<received, taken, opened>>

Next ==
  \/ \E d \in Devices : Receive(d) \/ Vanish(d)
  \/ \E f \in Files : Close(f) \/ Return(f) \/ Forget(f)
  \/ \E f \in Files, d \in Devices : Open(f, d)

Spec == Init /\ [][Next]_vars
=============================================================================
