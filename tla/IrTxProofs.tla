----------------------------- MODULE IrTxProofs -----------------------------
(***************************************************************************)
(* What IrTx guarantees for any tasks, codes and default carrier.          *)
(***************************************************************************)
EXTENDS IrTx, SequenceTheorems, TLAPS

-----------------------------------------------------------------------------
(* The inductive invariant.                                                *)

Replies == {"none", "ESP_OK", "ESP_FAIL", "ESP_ERR_INVALID_ARG", "ESP_ERR_INVALID_STATE",
            "ESP_ERR_TIMEOUT"}

\* A sender beyond its lock holds it, so there is one.
Held ==
  /\ senderPc \in [Senders -> {"idle", "begin", "fill", "wait", "release"}]
  /\ reply \in [Senders -> Replies]
  /\ arg \in [Senders -> Codes]
  /\ \A s \in Senders : senderPc[s] # "idle" <=> txLock = s

\* The driver works for the sender that waits, or a wait has failed; then nobody gets as far.
Owned ==
  /\ Active => faulted \/ \E s \in Senders : senderPc[s] = "wait"
  /\ \A s \in Senders : senderPc[s] \in {"fill", "wait"} => ~faulted

\* What of the code is in the buffer.
Prepared(s, n) ==
  /\ n \in 0 .. Len(arg[s].symbols)
  /\ carrier = CarrierFor(arg[s])
  /\ \A i \in 1 .. n : txSymbols[i] = arg[s].symbols[i]

Filled ==
  /\ txSymbols \in [1 .. Capacity -> Symbols \cup {NoSymbol}]
  /\ \A s \in Senders :
        /\ senderPc[s] = "fill" => Prepared(s, filled)
        /\ senderPc[s] = "wait" => Prepared(s, Len(arg[s].symbols))

\* What of it the driver has emitted, or that it has emitted all.
Whole(s) == sent = [carrier |-> CarrierFor(arg[s]), symbols |-> arg[s].symbols]

UnderWay(s) ==
  /\ driver.count = Len(arg[s].symbols)
  /\ \E n \in 0 .. Len(arg[s].symbols) : driver.out = [i \in 1 .. n |-> arg[s].symbols[i]]

Emitting ==
  /\ driver = Job(driver.count, driver.out)
  /\ \A s \in Senders : senderPc[s] = "wait" => IF Active THEN UnderWay(s) ELSE Whole(s)

TxInv == Held /\ Owned /\ Filled /\ Emitting /\ EmittedAsAsked

-----------------------------------------------------------------------------
\* The codes, and the buffer that has room for each.
LEMMA CodeOK ==
  ASSUME NEW k \in Codes
  PROVE  /\ k.symbols \in Seq(Symbols) /\ Len(k.symbols) \in Nat \ {0}
         /\ Capacity \in Nat /\ Len(k.symbols) <= Capacity
  <1>1. k.symbols \in Seq({k.symbols[i] : i \in DOMAIN k.symbols}) /\ k.symbols # <<>>
    BY CodesAssumption
  <1>2. Len(k.symbols) \in Nat \ {0} /\ DOMAIN k.symbols = 1 .. Len(k.symbols)
    BY <1>1
  <1>3. {k.symbols[i] : i \in DOMAIN k.symbols} \subseteq Symbols
    BY <1>2 DEF Symbols
  <1>4. k.symbols \in Seq(Symbols)
    BY <1>1, <1>3
  <1>5. Capacity \in {Len(j.symbols) : j \in Codes} /\ \A j \in Codes : Len(j.symbols) <= Capacity
    BY LongestAssumption DEF Capacity
  <1>6. Capacity \in Nat
    <2>1. \A j \in Codes : Len(j.symbols) \in Nat
      BY CodesAssumption
    <2> QED
      BY <1>5, <2>1
  <1> QED
    BY <1>2, <1>4, <1>5, <1>6

\* One more symbol.
LEMMA OneMore ==
  ASSUME NEW S, NEW q \in Seq(S), NEW n \in Nat, n < Len(q)
  PROVE  /\ Len([i \in 1 .. n |-> q[i]]) = n
         /\ Append([i \in 1 .. n |-> q[i]], q[n + 1]) = [i \in 1 .. n + 1 |-> q[i]]
  <1> DEFINE a == [i \in 1 .. n |-> q[i]]
             b == [i \in 1 .. n + 1 |-> q[i]]
  <1>1. a \in Seq(S) /\ Len(a) = n /\ \A i \in 1 .. n : a[i] = q[i]
    OBVIOUS
  <1>2. b \in Seq(S) /\ Len(b) = n + 1 /\ \A i \in 1 .. n + 1 : b[i] = q[i]
    OBVIOUS
  <1>3. q[n + 1] \in S
    OBVIOUS
  <1> HIDE DEF a, b
  <1>4. Append(a, q[n + 1]) \in Seq(S) /\ Len(Append(a, q[n + 1])) = n + 1
    BY <1>1, <1>3
  <1>5. \A i \in 1 .. n + 1 : Append(a, q[n + 1])[i] = b[i]
    BY <1>1, <1>2, <1>3
  <1>6. Append(a, q[n + 1]) = b
    BY <1>2, <1>4, <1>5, SeqEqual
  <1> QED
    BY <1>1, <1>6 DEF a, b

LEMMA TxInit == Init => TxInv
  <1> SUFFICES ASSUME Init PROVE TxInv
    OBVIOUS
  <1>1. Held
    <2>1. (CHOOSE k \in Codes : TRUE) \in Codes
      BY LongestAssumption
    <2> QED
      BY <2>1, SendersAssumption DEF Init, Held, Replies
  <1>2. Owned /\ Emitting /\ EmittedAsAsked
    BY DEF Init, Owned, Emitting, EmittedAsAsked, Active, NoJob, Job
  <1>3. Filled
    BY DEF Init, Filled
  <1> QED
    BY <1>1, <1>2, <1>3 DEF TxInv

\* The holder of the lock is the only one that is not idle.
LEMMA OneHolder ==
  ASSUME Held, NEW s \in Senders, senderPc[s] # "idle"
  PROVE  \A t \in Senders : t # s => senderPc[t] = "idle"
  BY DEF Held

\* So only its own part of the invariant is at stake when it moves.
LEMMA HolderMoves ==
  ASSUME Held, NEW s \in Senders, NEW place \in {"fill", "wait", "release"},
         senderPc[s] # "idle", senderPc' = [senderPc EXCEPT ![s] = place],
         UNCHANGED <<txLock, arg>>, reply' \in [Senders -> Replies],
         \A t \in Senders : t # s => reply'[t] = reply[t],
         txSymbols' \in [1 .. Capacity -> Symbols \cup {NoSymbol}],
         driver' = Job(driver'.count, driver'.out),
         Active' => faulted' \/ place = "wait",
         place \in {"fill", "wait"} => ~faulted',
         place = "fill" => Prepared(s, filled)',
         place = "wait" => (Prepared(s, Len(arg[s].symbols)))'
                           /\ IF Active' THEN UnderWay(s)' ELSE Whole(s)',
         place = "release" /\ reply'[s] = "ESP_OK" => ~Active' /\ Whole(s)'
  PROVE  TxInv'
  <1>1. senderPc'[s] = place /\ \A t \in Senders : t # s => senderPc'[t] = "idle"
    BY OneHolder DEF Held
  <1>2. Held'
    BY <1>1, OneHolder DEF Held
  <1>3. Owned'
    BY <1>1 DEF Owned
  <1>4. Filled'
    BY <1>1 DEF Filled
  <1>5. Emitting'
    BY <1>1 DEF Emitting
  <1>6. EmittedAsAsked'
    BY <1>1 DEF EmittedAsAsked, Whole, CarrierFor
  <1> QED
    BY <1>2, <1>3, <1>4, <1>5, <1>6 DEF TxInv

-----------------------------------------------------------------------------
(* What each step does to it.                                              *)

LEMMA RefuseKeeps ==
  ASSUME TxInv, NEW s \in Senders, NEW k \in Codes, Refuse(s, k) PROVE TxInv'
  <1>1. reply' \in [Senders -> Replies] /\ \A t \in Senders : t # s => reply'[t] = reply[t]
    BY DEF TxInv, Held, Refuse, Replies
  <1>2. Held'
    BY <1>1 DEF TxInv, Held, Refuse
  <1>3. Owned' /\ Filled' /\ Emitting'
    BY DEF TxInv, Owned, Filled, Emitting, Refuse, Prepared, UnderWay, Whole, Active
  <1>4. EmittedAsAsked'
    BY <1>1 DEF TxInv, EmittedAsAsked, Refuse, Active
  <1> QED
    BY <1>2, <1>3, <1>4 DEF TxInv

LEMMA LockKeeps ==
  ASSUME TxInv, NEW s \in Senders, NEW k \in Codes, Lock(s, k) PROVE TxInv'
  <1>1. /\ senderPc' = [senderPc EXCEPT ![s] = "begin"] /\ arg' = [arg EXCEPT ![s] = k]
        /\ txLock' = s /\ txLock = NoSender
        /\ UNCHANGED <<reply, filled, txSymbols, carrier, faulted, driver, sent>>
    BY DEF Lock, LockFree
  <1>2. \A t \in Senders : senderPc[t] = "idle"
    BY <1>1, SendersAssumption DEF TxInv, Held
  <1>3. senderPc'[s] = "begin" /\ \A t \in Senders : t # s => senderPc'[t] = "idle"
    BY <1>1, <1>2 DEF TxInv, Held
  <1>4. Held'
    <2>1. senderPc' \in [Senders -> {"idle", "begin", "fill", "wait", "release"}]
      BY <1>1 DEF TxInv, Held
    <2>2. arg' \in [Senders -> Codes] /\ reply' \in [Senders -> Replies]
      BY <1>1 DEF TxInv, Held
    <2> QED
      BY <1>1, <1>3, <2>1, <2>2 DEF Held
  <1>5. Owned'
    BY <1>1, <1>2, <1>3 DEF TxInv, Owned, Active
  <1>6. Filled' /\ Emitting' /\ EmittedAsAsked'
    BY <1>1, <1>3 DEF TxInv, Filled, Emitting, EmittedAsAsked
  <1> QED
    BY <1>4, <1>5, <1>6 DEF TxInv

\* Nobody waits while the holder is elsewhere: a driver still at work then means a failed wait.
LEMMA OnlyAFault ==
  ASSUME TxInv, NEW s \in Senders, senderPc[s] \in {"begin", "fill", "release"}
  PROVE  Active => faulted
  BY OneHolder DEF TxInv, Owned

LEMMA BeginKeeps ==
  ASSUME TxInv, NEW s \in Senders, Begin(s) PROVE TxInv'
  <1>1. /\ senderPc[s] = "begin" /\ filled' = 0
        /\ UNCHANGED <<txLock, arg, txSymbols, faulted, driver, sent>>
    BY DEF Begin
  <1>2. txSymbols' \in [1 .. Capacity -> Symbols \cup {NoSymbol}] /\ driver' = Job(driver'.count, driver'.out)
    BY <1>1 DEF TxInv, Filled, Emitting
  <1>3. Active' => faulted'
    BY <1>1, OnlyAFault DEF Active
  <1>4. CASE Begin(s) /\ senderPc' = [senderPc EXCEPT ![s] = "release"]
                     /\ \E r \in Replies \ {"ESP_OK"} : reply' = [reply EXCEPT ![s] = r]
    <2>1. reply' \in [Senders -> Replies] /\ reply'[s] # "ESP_OK"
          /\ \A t \in Senders : t # s => reply'[t] = reply[t]
      BY <1>4 DEF TxInv, Held
    <2> QED
      BY ONLY <1>1, <1>2, <1>3, <1>4, <2>1, TxInv, s \in Senders, HolderMoves DEF TxInv
  <1>5. CASE /\ ~faulted /\ carrier' = CarrierFor(arg[s]) /\ UNCHANGED reply
             /\ senderPc' = [senderPc EXCEPT ![s] = "fill"]
    <2>1. reply' \in [Senders -> Replies] /\ \A t \in Senders : t # s => reply'[t] = reply[t]
      BY <1>5 DEF TxInv, Held
    <2>2. arg[s] \in Codes
      BY DEF TxInv, Held
    <2>3. Prepared(s, filled)'
      BY <1>1, <1>5, <2>2, CodeOK DEF Prepared, CarrierFor
    <2> QED
      BY ONLY <1>1, <1>2, <1>3, <1>5, <2>1, <2>3, TxInv, s \in Senders, HolderMoves DEF TxInv
  <1>6. \/ senderPc' = [senderPc EXCEPT ![s] = "release"]
           /\ \E r \in Replies \ {"ESP_OK"} : reply' = [reply EXCEPT ![s] = r]
        \/ /\ ~faulted /\ carrier' = CarrierFor(arg[s]) /\ UNCHANGED reply
           /\ senderPc' = [senderPc EXCEPT ![s] = "fill"]
    BY DEF Begin, Blocked, Replies
  <1> QED
    BY <1>4, <1>5, <1>6

LEMMA FillKeeps ==
  ASSUME TxInv, NEW s \in Senders, Fill(s) PROVE TxInv'
  <1> DEFINE q == arg[s].symbols
  <1>1. /\ senderPc[s] = "fill" /\ filled < Len(q) /\ filled' = filled + 1
        /\ txSymbols' = [txSymbols EXCEPT ![filled + 1] = q[filled + 1]]
        /\ UNCHANGED <<txLock, senderPc, arg, reply, carrier, faulted, driver, sent>>
    BY DEF Fill
  <1>2. arg[s] \in Codes
    BY DEF TxInv, Held
  <1>3. q \in Seq(Symbols) /\ Len(q) \in Nat /\ Capacity \in Nat /\ Len(q) <= Capacity
    BY <1>2, CodeOK
  <1>4. filled \in 0 .. Len(q) /\ carrier = CarrierFor(arg[s]) /\ \A i \in 1 .. filled : txSymbols[i] = q[i]
    BY <1>1 DEF TxInv, Filled, Prepared
  <1>5. filled + 1 \in 1 .. Len(q) /\ filled + 1 \in 1 .. Capacity /\ q[filled + 1] \in Symbols
    BY <1>1, <1>3, <1>4
  <1>6. txSymbols' \in [1 .. Capacity -> Symbols \cup {NoSymbol}]
    BY <1>1, <1>5 DEF TxInv, Filled
  <1>7. \A i \in 1 .. filled + 1 : txSymbols'[i] = q[i]
    <2>1. txSymbols \in [1 .. Capacity -> Symbols \cup {NoSymbol}]
      BY DEF TxInv, Filled
    <2>2. \A i \in 1 .. filled + 1 : i \in 1 .. Capacity /\ (i = filled + 1 \/ i \in 1 .. filled)
      BY <1>3, <1>4, <1>5
    <2> QED
      BY <1>1, <1>4, <2>1, <2>2
  <1>8. Prepared(s, filled)'
    BY <1>1, <1>4, <1>5, <1>7 DEF Prepared, CarrierFor
  <1>9. senderPc' = [senderPc EXCEPT ![s] = "fill"] /\ reply' \in [Senders -> Replies]
    BY <1>1 DEF TxInv, Held
  <1>10. driver' = Job(driver'.count, driver'.out) /\ ~faulted' /\ (Active' => faulted')
    BY <1>1, OnlyAFault DEF TxInv, Emitting, Owned, Active
  <1> HIDE DEF q
  <1> QED
    BY ONLY <1>1, <1>6, <1>8, <1>9, <1>10, TxInv, s \in Senders, HolderMoves DEF TxInv

LEMMA TransmitKeeps ==
  ASSUME TxInv, NEW s \in Senders, Transmit(s) PROVE TxInv'
  <1>1. /\ senderPc[s] = "fill" /\ filled = Len(arg[s].symbols)
        /\ UNCHANGED <<txLock, arg, filled, txSymbols, carrier, faulted, sent>>
    BY DEF Transmit
  <1>2. arg[s] \in Codes
    BY DEF TxInv, Held
  <1>3. Len(arg[s].symbols) \in Nat \ {0}
    BY <1>2, CodeOK
  <1>4. Prepared(s, Len(arg[s].symbols)) /\ ~faulted /\ ~Active
    BY <1>1, OnlyAFault DEF TxInv, Filled, Owned
  <1>5. txSymbols' \in [1 .. Capacity -> Symbols \cup {NoSymbol}]
    BY <1>1 DEF TxInv, Filled
  <1>6. CASE /\ driver' = Job(filled, <<>>) /\ UNCHANGED reply
             /\ senderPc' = [senderPc EXCEPT ![s] = "wait"]
    <2>1. driver' = Job(driver'.count, driver'.out) /\ driver'.count = filled /\ driver'.out = <<>>
      BY <1>6 DEF Job
    <2>2. UnderWay(s)'
      <3>1. <<>> = [i \in 1 .. 0 |-> arg[s].symbols[i]] /\ 0 \in 0 .. Len(arg[s].symbols)
        BY <1>3
      <3> QED
        BY <1>1, <2>1, <3>1 DEF UnderWay
    <2>3. Active'
      BY <1>1, <1>3, <2>1 DEF Active
    <2>4. (Prepared(s, Len(arg[s].symbols)))'
      BY <1>1, <1>4 DEF Prepared, CarrierFor
    <2>5. reply' \in [Senders -> Replies] /\ \A t \in Senders : t # s => reply'[t] = reply[t]
      BY <1>6 DEF TxInv, Held
    <2> QED
      BY ONLY <1>1, <1>4, <1>5, <1>6, <2>1, <2>2, <2>3, <2>4, <2>5, TxInv, s \in Senders, HolderMoves
         DEF TxInv
  <1>7. CASE /\ senderPc' = [senderPc EXCEPT ![s] = "release"]
             /\ reply' = [reply EXCEPT ![s] = "ESP_FAIL"] /\ UNCHANGED driver
    <2>1. reply' \in [Senders -> Replies] /\ reply'[s] # "ESP_OK"
          /\ \A t \in Senders : t # s => reply'[t] = reply[t]
      BY <1>7 DEF TxInv, Held, Replies
    <2>2. driver' = Job(driver'.count, driver'.out) /\ ~Active'
      BY <1>4, <1>7 DEF TxInv, Emitting, Active
    <2> QED
      BY ONLY <1>1, <1>5, <1>7, <2>1, <2>2, TxInv, s \in Senders, HolderMoves DEF TxInv
  <1> QED
    BY <1>6, <1>7 DEF Transmit

LEMMA FinishedKeeps ==
  ASSUME TxInv, NEW s \in Senders, Finished(s) PROVE TxInv'
  <1>1. /\ senderPc[s] = "wait" /\ ~Active
        /\ senderPc' = [senderPc EXCEPT ![s] = "release"]
        /\ reply' = [reply EXCEPT ![s] = "ESP_OK"]
        /\ UNCHANGED <<txLock, arg, filled, txSymbols, carrier, faulted, driver, sent>>
    BY DEF Finished, WaitDone
  <1>2. reply' \in [Senders -> Replies] /\ \A t \in Senders : t # s => reply'[t] = reply[t]
    BY <1>1 DEF TxInv, Held, Replies
  <1>3. txSymbols' \in [1 .. Capacity -> Symbols \cup {NoSymbol}] /\ driver' = Job(driver'.count, driver'.out)
    BY <1>1 DEF TxInv, Filled, Emitting
  <1>4. ~Active' /\ Whole(s)'
    BY <1>1 DEF TxInv, Emitting, Active, Whole, CarrierFor
  <1> QED
    BY ONLY <1>1, <1>2, <1>3, <1>4, TxInv, s \in Senders, HolderMoves DEF TxInv

LEMMA WaitFailsKeeps ==
  ASSUME TxInv, NEW s \in Senders, WaitFails(s) PROVE TxInv'
  <1>1. /\ senderPc[s] = "wait" /\ faulted'
        /\ senderPc' = [senderPc EXCEPT ![s] = "release"]
        /\ reply' = [reply EXCEPT ![s] = "ESP_FAIL"]
        /\ UNCHANGED <<txLock, arg, filled, txSymbols, carrier, driver, sent>>
    BY DEF WaitFails
  <1>2. reply' \in [Senders -> Replies] /\ reply'[s] # "ESP_OK"
        /\ \A t \in Senders : t # s => reply'[t] = reply[t]
    BY <1>1 DEF TxInv, Held, Replies
  <1>3. txSymbols' \in [1 .. Capacity -> Symbols \cup {NoSymbol}] /\ driver' = Job(driver'.count, driver'.out)
    BY <1>1 DEF TxInv, Filled, Emitting
  <1> QED
    BY ONLY <1>1, <1>2, <1>3, TxInv, s \in Senders, HolderMoves DEF TxInv

LEMMA ReleaseKeeps ==
  ASSUME TxInv, NEW s \in Senders, Release(s) PROVE TxInv'
  <1>1. /\ senderPc[s] = "release" /\ txLock' = NoSender
        /\ senderPc' = [senderPc EXCEPT ![s] = "idle"]
        /\ UNCHANGED <<arg, reply, filled, txSymbols, carrier, faulted, driver, sent>>
    BY DEF Release
  <1>2. \A t \in Senders : senderPc'[t] = "idle"
    BY <1>1, OneHolder DEF TxInv, Held
  <1>3. Held'
    BY <1>1, <1>2, SendersAssumption DEF TxInv, Held
  <1>4. Owned'
    BY <1>1, <1>2, OnlyAFault DEF Owned, Active
  <1>5. Filled' /\ Emitting' /\ EmittedAsAsked'
    BY <1>1, <1>2 DEF TxInv, Filled, Emitting, EmittedAsAsked
  <1> QED
    BY <1>3, <1>4, <1>5 DEF TxInv

LEMMA EmitKeeps == ASSUME TxInv, Emit PROVE TxInv'
  <1>1. /\ Active /\ Len(driver.out) < driver.count
        /\ driver' = [driver EXCEPT !.out = Append(@, txSymbols[Len(@) + 1])]
        /\ UNCHANGED <<txLock, senderPc, arg, reply, filled, txSymbols, carrier, faulted, sent>>
    BY DEF Emit
  <1>2. /\ driver'.count = driver.count /\ driver' = Job(driver'.count, driver'.out)
        /\ driver'.out = Append(driver.out, txSymbols[Len(driver.out) + 1])
    BY <1>1 DEF TxInv, Emitting, Job
  <1>3. Active'
    BY <1>1, <1>2 DEF Active
  <1>4. Held' /\ Owned' /\ Filled'
    BY <1>1, <1>3 DEF TxInv, Held, Owned, Filled, Prepared, CarrierFor
  <1>5. EmittedAsAsked'
    BY <1>1 DEF TxInv, EmittedAsAsked
  <1>6. ASSUME NEW s \in Senders, senderPc[s] = "wait" PROVE UnderWay(s)'
    <2> DEFINE q == arg[s].symbols
    <2>1. arg[s] \in Codes
      BY DEF TxInv, Held
    <2>2. q \in Seq(Symbols) /\ Len(q) \in Nat
      BY <2>1, CodeOK
    <2>3. driver.count = Len(q) /\ \A i \in 1 .. Len(q) : txSymbols[i] = q[i]
      BY <1>1, <1>6 DEF TxInv, Emitting, UnderWay, Filled, Prepared
    <2>4. PICK n \in 0 .. Len(q) : driver.out = [i \in 1 .. n |-> q[i]]
      BY <1>1, <1>6 DEF TxInv, Emitting, UnderWay
    <2>5. n \in Nat /\ Len(driver.out) = n
      BY <2>2, <2>4
    <2>6. n < Len(q) /\ n + 1 \in 1 .. Len(q)
      BY <1>1, <2>2, <2>3, <2>5
    <2>7. driver'.out = [i \in 1 .. n + 1 |-> q[i]]
      BY <1>2, <2>2, <2>3, <2>4, <2>5, <2>6, OneMore
    <2>8. driver'.count = Len(q) /\ q' = q /\ n + 1 \in 0 .. Len(q)
      BY <1>1, <1>2, <2>3, <2>6
    <2> QED
      BY <2>7, <2>8 DEF UnderWay
  <1>7. Emitting'
    BY <1>1, <1>2, <1>3, <1>6 DEF Emitting
  <1> QED
    BY <1>4, <1>5, <1>7 DEF TxInv

LEMMA EmissionEndsKeeps == ASSUME TxInv, EmissionEnds PROVE TxInv'
  <1>1. /\ Active /\ Len(driver.out) = driver.count /\ driver' = NoJob
        /\ sent' = [carrier |-> carrier, symbols |-> driver.out]
        /\ UNCHANGED <<txLock, senderPc, arg, reply, filled, txSymbols, carrier, faulted>>
    BY DEF EmissionEnds
  <1>2. ~Active' /\ driver' = Job(driver'.count, driver'.out)
    BY <1>1 DEF Active, NoJob, Job
  <1>3. Held' /\ Owned' /\ Filled'
    BY <1>1, <1>2 DEF TxInv, Held, Owned, Filled, Prepared, CarrierFor
  <1>4. EmittedAsAsked'
    BY <1>1 DEF TxInv, EmittedAsAsked
  <1>5. ASSUME NEW s \in Senders, senderPc[s] = "wait" PROVE Whole(s)'
    <2> DEFINE q == arg[s].symbols
    <2>1. arg[s] \in Codes
      BY DEF TxInv, Held
    <2>2. q \in Seq(Symbols) /\ Len(q) \in Nat
      BY <2>1, CodeOK
    <2>3. driver.count = Len(q) /\ carrier = CarrierFor(arg[s])
      BY <1>1, <1>5 DEF TxInv, Emitting, UnderWay, Filled, Prepared
    <2>4. PICK n \in 0 .. Len(q) : driver.out = [i \in 1 .. n |-> q[i]]
      BY <1>1, <1>5 DEF TxInv, Emitting, UnderWay
    <2>5. Len(driver.out) = n
      BY <2>2, <2>4
    <2>6. n = Len(q)
      BY <1>1, <2>3, <2>5
    <2>7. driver.out = q
      BY <2>2, <2>4, <2>6
    <2> QED
      BY <1>1, <2>3, <2>7 DEF Whole, CarrierFor
  <1>6. Emitting'
    BY <1>1, <1>2, <1>5 DEF Emitting
  <1> QED
    BY <1>3, <1>4, <1>6 DEF TxInv

LEMMA TxStep == TxInv /\ [Next]_vars => TxInv'
  <1> SUFFICES ASSUME TxInv, [Next]_vars PROVE TxInv'
    OBVIOUS
  <1>1. CASE UNCHANGED vars
    BY <1>1 DEF vars, TxInv, Held, Owned, Filled, Emitting, EmittedAsAsked, Prepared, UnderWay, Whole,
                Active, CarrierFor
  <1>2. CASE Driver
    BY <1>2, EmitKeeps, EmissionEndsKeeps DEF Driver
  <1>3. ASSUME NEW s \in Senders, SenderStep(s) \/ WaitFails(s) PROVE TxInv'
    BY <1>3, BeginKeeps, FillKeeps, TransmitKeeps, FinishedKeeps, ReleaseKeeps, WaitFailsKeeps
       DEF SenderStep
  <1>4. ASSUME NEW s \in Senders, NEW k \in Codes, Refuse(s, k) \/ Lock(s, k) PROVE TxInv'
    BY <1>4, RefuseKeeps, LockKeeps
  <1> QED
    BY <1>1, <1>2, <1>3, <1>4 DEF Next

LEMMA TxAlways == Spec => []TxInv
  BY TxInit, TxStep, PTL DEF Spec

-----------------------------------------------------------------------------
\* Of any tasks calling ir_tx_send with any codes, one told ESP_OK has had exactly its own
\* symbols emitted on its own carrier.
THEOREM AsAsked == Spec => []EmittedAsAsked
  <1>1. TxInv => EmittedAsAsked
    BY DEF TxInv
  <1> QED
    BY <1>1, TxAlways, PTL

\* While the driver emits, nothing writes tx_symbols and nothing applies a carrier, even
\* after a wait has failed and its caller released tx_lock.
THEOREM Undisturbed == Spec => DriverUndisturbed
  <1>1. TxInv /\ [Next]_vars => [Active => txSymbols' = txSymbols /\ carrier' = carrier]_vars
    <2> SUFFICES ASSUME TxInv, Next, Active PROVE txSymbols' = txSymbols /\ carrier' = carrier
      OBVIOUS
    <2>1. CASE Driver
      BY <2>1 DEF Driver, Emit, EmissionEnds
    <2>2. ASSUME NEW s \in Senders, Begin(s) PROVE txSymbols' = txSymbols /\ carrier' = carrier
      <3>1. faulted
        BY <2>2, OnlyAFault DEF Begin
      <3> QED
        BY <2>2, <3>1 DEF Begin, Blocked
    <2>3. ASSUME NEW s \in Senders PROVE ~Fill(s)
      BY OnlyAFault DEF TxInv, Owned, Fill
    <2>4. ASSUME NEW s \in Senders, Transmit(s) \/ Finished(s) \/ Release(s) \/ WaitFails(s)
          PROVE  txSymbols' = txSymbols /\ carrier' = carrier
      BY <2>4 DEF Transmit, Finished, Release, WaitFails
    <2>5. ASSUME NEW s \in Senders, NEW k \in Codes, Refuse(s, k) \/ Lock(s, k)
          PROVE  txSymbols' = txSymbols /\ carrier' = carrier
      BY <2>5 DEF Refuse, Lock
    <2> QED
      BY <2>1, <2>2, <2>3, <2>4, <2>5 DEF Next, SenderStep
  <1> QED
    BY <1>1, TxAlways, PTL DEF Spec, DriverUndisturbed
=============================================================================
