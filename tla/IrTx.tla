-------------------------------- MODULE IrTx --------------------------------
(***************************************************************************)
(* Transmission of an infrared code (FW/main/ir_tx.c).                     *)
(*                                                                         *)
(* ir_tx_send copies the code into the static buffer tx_symbols, hands the *)
(* buffer to the RMT driver and waits for the driver to finish.  The       *)
(* driver reads the buffer from its interrupt while the caller waits, so   *)
(* the buffer must not change under it, and neither may the carrier.  If   *)
(* the wait itself fails, the driver may still be reading.                 *)
(*                                                                         *)
(* Abstracted: a code is a carrier (0 stands for the default) and a        *)
(* sequence of symbols; the constants list the codes and whether           *)
(* ir_code_is_valid accepts them.                                          *)
(***************************************************************************)
EXTENDS Naturals, Sequences

CONSTANTS Senders,        \* tasks that call ir_tx_send
          NoSender,       \* tx_lock is free
          Codes,          \* the codes they pass
          DefaultCarrier  \* IR_DEFAULT_CARRIER_HZ

ASSUME SendersAssumption == NoSender \notin Senders
ASSUME CodesAssumption ==
  \A k \in Codes : /\ k.valid \in BOOLEAN /\ k.carrier \in Nat
                  /\ k.symbols \in Seq({k.symbols[i] : i \in DOMAIN k.symbols})
                  /\ k.symbols # <<>>

\* A code has room for IR_MAX_SYMBOLS: one of them is the longest.
ASSUME LongestAssumption ==
  \E n \in {Len(k.symbols) : k \in Codes} : \A k \in Codes : Len(k.symbols) <= n

VARIABLES
  txLock,     \* the holder of tx_lock, or NoSender
  senderPc,   \* [Senders -> where the sender is in ir_tx_send]
  arg,        \* [Senders -> the code the last call was given]
  reply,      \* [Senders -> what the last call returned]
  filled,     \* symbols of arg copied so far by the holder
  txSymbols,  \* tx_symbols
  carrier,    \* the carrier applied to the channel
  faulted,
  driver,     \* the transmission the RMT driver works on, see Job
  sent        \* history: the carrier and symbols of the last complete emission

vars == <<txLock, senderPc, arg, reply, filled, txSymbols, carrier, faulted, driver, sent>>

-----------------------------------------------------------------------------
Symbols  == UNION {{k.symbols[i] : i \in 1 .. Len(k.symbols)} : k \in Codes}
Capacity == CHOOSE n \in {Len(k.symbols) : k \in Codes} : \A k \in Codes : Len(k.symbols) <= n

NoSymbol == "none"

\* What the driver was asked to emit: how many symbols, and those emitted so far.
Job(n, out) == [count |-> n, out |-> out]
NoJob == Job(0, <<>>)
Active == driver.count # 0

CarrierFor(k) == IF k.carrier = 0 THEN DefaultCarrier ELSE k.carrier

LockFree == txLock = NoSender

BlockedSlip == FALSE
Blocked == faulted

Init ==
  /\ txLock = NoSender
  /\ senderPc = [s \in Senders |-> "idle"]
  /\ arg = [s \in Senders |-> CHOOSE k \in Codes : TRUE]
  /\ reply = [s \in Senders |-> "none"]
  /\ filled = 0
  /\ txSymbols = [i \in 1 .. Capacity |-> NoSymbol]
  /\ carrier = DefaultCarrier
  /\ faulted = FALSE
  /\ driver = NoJob
  /\ sent = [carrier |-> 0, symbols |-> <<>>]

\* An invalid code, or another transmission in progress.
Refuse(s, k) ==
  /\ senderPc[s] = "idle"
  /\ \/ ~k.valid /\ reply' = [reply EXCEPT ![s] = "ESP_ERR_INVALID_ARG"]
     \/ k.valid /\ ~LockFree /\ reply' = [reply EXCEPT ![s] = "ESP_ERR_TIMEOUT"]
  /\ UNCHANGED <<txLock, senderPc, arg, filled, txSymbols, carrier, faulted, driver, sent>>

Lock(s, k) ==
  /\ senderPc[s] = "idle"
  /\ k.valid /\ LockFree
  /\ txLock' = s
  /\ arg' = [arg EXCEPT ![s] = k]
  /\ senderPc' = [senderPc EXCEPT ![s] = "begin"]
  /\ UNCHANGED <<reply, filled, txSymbols, carrier, faulted, driver, sent>>

\* Lines 37-46: refuse after a fault, or apply the carrier.
Begin(s) ==
  /\ senderPc[s] = "begin"
  /\ \/ /\ Blocked
        /\ reply' = [reply EXCEPT ![s] = "ESP_ERR_INVALID_STATE"]
        /\ senderPc' = [senderPc EXCEPT ![s] = "release"]
        /\ UNCHANGED carrier
     \/ /\ ~Blocked
        /\ carrier' = CarrierFor(arg[s])
        /\ senderPc' = [senderPc EXCEPT ![s] = "fill"]
        /\ UNCHANGED reply
     \/ /\ ~Blocked                                   \* rmt_apply_carrier fails
        /\ reply' = [reply EXCEPT ![s] = "ESP_FAIL"]
        /\ senderPc' = [senderPc EXCEPT ![s] = "release"]
        /\ UNCHANGED carrier
  /\ filled' = 0
  /\ UNCHANGED <<txLock, arg, txSymbols, faulted, driver, sent>>

\* The loop of lines 48-55, one symbol at a time.
Fill(s) ==
  /\ senderPc[s] = "fill"
  /\ filled < Len(arg[s].symbols)
  /\ filled' = filled + 1
  /\ txSymbols' = [txSymbols EXCEPT ![filled + 1] = arg[s].symbols[filled + 1]]
  /\ UNCHANGED <<txLock, senderPc, arg, reply, carrier, faulted, driver, sent>>

\* rmt_transmit: on success the driver owns tx_symbols.
Transmit(s) ==
  /\ senderPc[s] = "fill"
  /\ filled = Len(arg[s].symbols)
  /\ \/ /\ driver' = Job(filled, <<>>)
        /\ senderPc' = [senderPc EXCEPT ![s] = "wait"]
        /\ UNCHANGED reply
     \/ /\ senderPc' = [senderPc EXCEPT ![s] = "release"]
        /\ reply' = [reply EXCEPT ![s] = "ESP_FAIL"]
        /\ UNCHANGED driver
  /\ UNCHANGED <<txLock, arg, filled, txSymbols, carrier, faulted, sent>>

WaitDoneSlip == TRUE
WaitDone == ~Active

\* rmt_tx_wait_all_done with no time limit.
Finished(s) ==
  /\ senderPc[s] = "wait"
  /\ WaitDone
  /\ senderPc' = [senderPc EXCEPT ![s] = "release"]
  /\ reply' = [reply EXCEPT ![s] = "ESP_OK"]
  /\ UNCHANGED <<txLock, arg, filled, txSymbols, carrier, faulted, driver, sent>>

\* The wait fails: whether the driver still reads the buffer is unknown.
WaitFails(s) ==
  /\ senderPc[s] = "wait"
  /\ faulted' = TRUE
  /\ senderPc' = [senderPc EXCEPT ![s] = "release"]
  /\ reply' = [reply EXCEPT ![s] = "ESP_FAIL"]
  /\ UNCHANGED <<txLock, arg, filled, txSymbols, carrier, driver, sent>>

ReleaseSlip(s) ==
  /\ senderPc[s] = "release"
  /\ senderPc' = [senderPc EXCEPT ![s] = "idle"]
  /\ UNCHANGED <<txLock, arg, reply, filled, txSymbols, carrier, faulted, driver, sent>>
Release(s) ==
  /\ senderPc[s] = "release"
  /\ txLock' = NoSender
  /\ senderPc' = [senderPc EXCEPT ![s] = "idle"]
  /\ UNCHANGED <<arg, reply, filled, txSymbols, carrier, faulted, driver, sent>>

\* The driver's interrupt: the copy encoder fetches the next symbol.
Emit ==
  /\ Active
  /\ Len(driver.out) < driver.count
  /\ driver' = [driver EXCEPT !.out = Append(@, txSymbols[Len(@) + 1])]
  /\ UNCHANGED <<txLock, senderPc, arg, reply, filled, txSymbols, carrier, faulted, sent>>

EmissionEnds ==
  /\ Active
  /\ Len(driver.out) = driver.count
  /\ sent' = [carrier |-> carrier, symbols |-> driver.out]
  /\ driver' = NoJob
  /\ UNCHANGED <<txLock, senderPc, arg, reply, filled, txSymbols, carrier, faulted>>

Driver == Emit \/ EmissionEnds
SenderStep(s) == Begin(s) \/ Fill(s) \/ Transmit(s) \/ Finished(s) \/ Release(s)

Next == \/ Driver
        \/ \E s \in Senders : \/ SenderStep(s)
                              \/ WaitFails(s)
                              \/ \E k \in Codes : Refuse(s, k) \/ Lock(s, k)

\* The scheduler runs every ready task, and the hardware keeps emitting.
Fairness == WF_vars(Driver) /\ \A s \in Senders : WF_vars(SenderStep(s))

Spec == Init /\ [][Next]_vars /\ Fairness

-----------------------------------------------------------------------------
\* A caller told ESP_OK has had exactly its own symbols emitted, in order, on its
\* own carrier, and the emission is over.
EmittedAsAsked ==
  \A s \in Senders :
    senderPc[s] = "release" /\ reply[s] = "ESP_OK" =>
      /\ ~Active
      /\ sent.symbols = arg[s].symbols
      /\ sent.carrier = IF arg[s].carrier = 0 THEN DefaultCarrier ELSE arg[s].carrier

\* "Never release or rewrite the buffer while the driver owns it" (line 60), nor
\* change the carrier under an emission, even one whose wait has failed.
DriverUndisturbed ==
  [][Active => txSymbols' = txSymbols /\ carrier' = carrier]_vars

\* tx_lock always becomes free again, as long as the hardware finishes what it
\* was given: an error path that kept it would refuse every later code.
LockReleased == txLock # NoSender ~> txLock = NoSender
=============================================================================
