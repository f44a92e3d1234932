--------------------------- MODULE IrDriverProofs ---------------------------
(***************************************************************************)
(* What IrDriver guarantees for every set of files, every size of a packet *)
(* and of a read, and every number of devices and bytes; and that it       *)
(* implements ByteStream.                                                  *)
(***************************************************************************)
EXTENDS IrDriver, FiniteSetTheorems, SequenceTheorems, TLAPS

-----------------------------------------------------------------------------
(* The inductive invariant: types, what is registered, the count.          *)

\* Types, as far as they need no counting, with the bounds of positions and lengths.
FileShape ==
  /\ pc \in [Files -> KnowCdev \cup {"none", "wild"}]
  /\ private_data \in [Files -> 0 .. born]
  /\ buf \in [Files -> Seq(Nat)]
  /\ \A f \in Files : pc[f] # "none" => private_data[f] # 0
  /\ \A f \in Files : pc[f] \in Reading => Len(buf[f]) < Count[f]

RxShape ==
  /\ read_mutex \in [Objects -> Files \cup {NoFile}]
  /\ write_mutex \in [Objects -> Files \cup {NoFile}]
  /\ rx_data \in [Objects -> [1 .. DataSize -> Nat]]
  /\ rx_len \in [Objects -> 0 .. DataSize]
  /\ rx_offset \in [Objects -> 0 .. DataSize]
  /\ received \in [Objects -> Nat]

CoreShape ==
  /\ core \in {"idle", "probe", "rollback", "disconnect"}
  /\ pos \in 1 .. 6
  /\ core = "idle" => pos = 1
  /\ core = "probe" => pos <= 5
  /\ core = "rollback" => pos <= 5
  /\ made \subseteq Resources
  /\ born \in 0 .. MaxObjects
  /\ cur \in {0, born}
  /\ core # "idle" => cur # 0
  /\ disconnected \in [Objects -> BOOLEAN]
  /\ attr \in {"idle", "active", "dead"}

KrefShape ==
  /\ kref \in [Objects -> Int]
  /\ freed \subseteq 1 .. born

Shape == FileShape /\ RxShape /\ CoreShape /\ KrefShape

\* What is registered at each step of probe, of its error path and of disconnect.
MadeSoFar ==
  /\ core = "idle" => made = IF cur = 0 THEN {} ELSE Resources
  /\ core = "probe" => \A i \in 1 .. 5 : ProbeSteps[i] \in made <=> i < pos
  /\ core = "rollback" => "node" \notin made
                         /\ \A i \in 1 .. 4 : RollbackSteps[i] \in made <=> i >= pos
  /\ core = "disconnect" => \A i \in 1 .. 5 : DisconnectSteps[i] \in made <=> i >= pos

\* The reference count counts the interface's reference and those of the files.
Bound(o) == IF o = cur THEN 1 ELSE 0

Counted ==
  /\ \A o \in Objects : kref[o] = Cardinality(Holders(o)) + Bound(o)
  /\ \A o \in 1 .. born : o \in freed <=> kref[o] = 0

-----------------------------------------------------------------------------
(* Types.                                                                  *)

LEMMA Steps ==
  /\ Len(ProbeSteps) = 5 /\ Len(RollbackSteps) = 4 /\ Len(DisconnectSteps) = 5
  /\ \A i \in 1 .. 5 : ProbeSteps[i] \in Resources
  /\ ProbeSteps[1] = "drvdata"
  BY DEF ProbeSteps, RollbackSteps, DisconnectSteps, Resources

\* What a packet of n bytes leaves in rx_data.
Refilled(n, r, old) ==
  Strip(<<Status, Status>> \o [i \in 1 .. n |-> r + i], n) \o SubSeq(old, n + 1, DataSize)

LEMMA RefilledOK ==
  ASSUME NEW n \in 0 .. DataSize, NEW r \in Nat, NEW old \in [1 .. DataSize -> Nat]
  PROVE  /\ Refilled(n, r, old) \in [1 .. DataSize -> Nat]
         /\ \A i \in 1 .. n : Refilled(n, r, old)[i] = r + i
  <1> DEFINE data   == [i \in 1 .. n |-> r + i]
             packet == <<Status, Status>> \o data
             rest   == SubSeq(old, n + 1, DataSize)
  <1>1. DataSize \in Nat
    BY SizesAssumption
  <1>2. data \in Seq(Nat) /\ Len(data) = n /\ \A i \in 1 .. n : data[i] = r + i
    BY <1>1
  <1>3. packet \in Seq(Nat) /\ Len(packet) = n + 2 /\ \A i \in 1 .. n : packet[i + 2] = r + i
    <2> HIDE DEF data
    <2>1. <<Status, Status>> \in Seq(Nat) /\ Len(<<Status, Status>>) = 2
      BY DEF Status
    <2> QED
      BY <1>1, <1>2, <2>1
  <1>4. /\ Strip(packet, n) \in Seq(Nat) /\ Len(Strip(packet, n)) = n
        /\ \A i \in 1 .. n : Strip(packet, n)[i] = r + i
    <2> HIDE DEF packet
    <2> QED
      BY <1>1, <1>3 DEF Strip
  <1>5. rest \in Seq(Nat) /\ Len(rest) = DataSize - n
    <2>1. old \in Seq(Nat) /\ Len(old) = DataSize
      BY <1>1
    <2> QED
      BY <1>1, <2>1
  <1> DEFINE all == Strip(packet, n) \o rest
  <1>6. all \in Seq(Nat) /\ Len(all) = DataSize /\ \A i \in 1 .. n : all[i] = r + i
    <2> HIDE DEF packet, rest
    <2> QED
      BY <1>1, <1>4, <1>5
  <1>7. Refilled(n, r, old) = all
    BY DEF Refilled
  <1>8. all \in [1 .. DataSize -> Nat]
    <2> HIDE DEF all
    <2> QED
      BY <1>1, <1>6
  <1> HIDE DEF all
  <1> QED
    BY <1>6, <1>7, <1>8

\* The loop of ir_read asks for something, and for no more than is left.
LEMMA TakeOK ==
  ASSUME FileShape, RxShape, NEW f \in Files, NEW o \in Objects,
         pc[f] \in Reading, HasData(o)
  PROVE  /\ Take(f, o) \in Nat \ {0}
         /\ Take(f, o) <= rx_len[o] - rx_offset[o]
         /\ Len(buf[f]) + Take(f, o) <= Count[f]
  BY SizesAssumption DEF FileShape, RxShape, HasData, Take, Smaller

LEMMA ShapeInit == Init => Shape
  <1> SUFFICES ASSUME Init PROVE Shape
    OBVIOUS
  <1>1. FileShape
    BY DEF Init, FileShape, Reading, KnowCdev, Holding
  <1>2. RxShape
    BY SizesAssumption DEF Init, RxShape
  <1>3. CoreShape /\ KrefShape
    BY SizesAssumption DEF Init, CoreShape, KrefShape
  <1> QED
    BY <1>1, <1>2, <1>3 DEF Shape

\* What a step leaves alone keeps its shape; more objects do no harm.
LEMMA FileFrame ==
  ASSUME FileShape, UNCHANGED fileVars, born \in Nat, born' \in Nat, born <= born'
  PROVE  FileShape'
  <1>1. pc' = pc /\ private_data' = private_data /\ buf' = buf
    BY DEF fileVars
  <1>2. private_data' \in [Files -> 0 .. born']
    BY <1>1 DEF FileShape
  <1> QED
    BY <1>1, <1>2 DEF FileShape

LEMMA RxFrame ==
  ASSUME RxShape, UNCHANGED <<rxVars, write_mutex>>
  PROVE  RxShape'
  BY DEF RxShape, rxVars

\* kref_put keeps the types, and what it clears is cleared.
LEMMA KrefPutShape ==
  ASSUME RxShape, KrefShape, NEW o \in 1 .. born, born \in 0 .. MaxObjects,
         KrefPut(o), UNCHANGED <<read_mutex, write_mutex, born>>
  PROVE  RxShape' /\ KrefShape'
  <1>1. o \in Objects /\ DataSize \in Nat
    BY SizesAssumption DEF Objects
  <1>2. KrefShape'
    <2>1. kref' = [kref EXCEPT ![o] = @ - 1] /\ freed' \subseteq freed \cup {o}
      BY DEF KrefPut
    <2>2. kref' \in [Objects -> Int] /\ freed' \subseteq 1 .. born'
      BY <1>1, <2>1 DEF KrefShape
    <2> QED
      BY <2>2 DEF KrefShape
  <1>3. CASE kref[o] = 1
    <2> DEFINE blank == [i \in 1 .. DataSize |-> 0]
    <2>1. blank \in [1 .. DataSize -> Nat]
      BY <1>1
    <2>2. rx_data' = [rx_data EXCEPT ![o] = blank]
      BY <1>3 DEF KrefPut
    <2> HIDE DEF blank
    <2>3. rx_data' \in [Objects -> [1 .. DataSize -> Nat]]
      BY <1>1, <2>1, <2>2 DEF RxShape
    <2>4. /\ rx_len' = [rx_len EXCEPT ![o] = 0]
          /\ rx_offset' = [rx_offset EXCEPT ![o] = 0]
          /\ received' = [received EXCEPT ![o] = 0]
      BY <1>3 DEF KrefPut
    <2>5. /\ rx_len' \in [Objects -> 0 .. DataSize]
          /\ rx_offset' \in [Objects -> 0 .. DataSize]
          /\ received' \in [Objects -> Nat]
      BY <1>1, <2>4 DEF RxShape
    <2> QED
      BY <1>2, <2>3, <2>5 DEF RxShape
  <1>4. CASE kref[o] # 1
    BY <1>2, <1>4, RxFrame DEF KrefPut, rxVars
  <1> QED
    BY <1>3, <1>4

LEMMA CoreKeepsShape == Shape /\ UsbCore => Shape'
  <1> SUFFICES ASSUME Shape, UsbCore PROVE Shape'
    OBVIOUS
  <1>1. FileShape /\ RxShape /\ CoreShape /\ KrefShape
    BY DEF Shape
  <1>2. CASE Probe
    <2>1. FileShape'
      BY <1>1, <1>2, FileFrame, SizesAssumption DEF Probe, CoreShape
    <2>2. RxShape'
      BY <1>1, <1>2, RxFrame DEF Probe
    <2>3. CoreShape'
      <3>1. /\ born' = born + 1 /\ born < MaxObjects /\ cur' = born'
            /\ \/ core' = "probe" /\ pos' = pos /\ pos = 1
               \/ core' = "rollback" /\ pos' = 5
            /\ UNCHANGED <<made, disconnected, attr>>
        BY <1>1, <1>2, Steps DEF Probe, CoreShape
      <3>2. born' \in 0 .. MaxObjects /\ cur' # 0
        BY <1>1, <3>1, SizesAssumption DEF CoreShape
      <3> QED
        BY <1>1, <3>1, <3>2 DEF CoreShape
    <2>4. KrefShape'
      <3>1. /\ kref' = [kref EXCEPT ![born + 1] = 1]
            /\ born' = born + 1 /\ freed' = freed /\ born < MaxObjects
        BY <1>2 DEF Probe
      <3>2. born \in Nat /\ born + 1 \in Objects
        BY <1>1, <3>1, SizesAssumption DEF CoreShape, Objects
      <3>3. kref' \in [Objects -> Int]
        BY <1>1, <3>1, <3>2 DEF KrefShape
      <3>4. freed' \subseteq 1 .. born'
        BY <1>1, <3>1, <3>2 DEF KrefShape
      <3> QED
        BY <3>3, <3>4 DEF KrefShape
    <2> QED
      BY <2>1, <2>2, <2>3, <2>4 DEF Shape
  <1>3. ASSUME Register \/ Detach \/ Undo PROVE Shape'
    <2>1. /\ UNCHANGED <<born, kobjVars, rxVars, write_mutex>>
          /\ UNCHANGED fileVars /\ UNCHANGED attr
      BY <1>3 DEF Register, Detach, Undo
    <2>2. FileShape' /\ RxShape'
      BY <1>1, <2>1, FileFrame, RxFrame, SizesAssumption DEF CoreShape
    <2>3. KrefShape'
      BY <1>1, <2>1 DEF KrefShape, kobjVars
    <2>4. CASE Register
      <3>1. core = "probe" /\ UNCHANGED <<disconnected, born, cur, attr>>
        BY <2>4 DEF Register, kobjVars
      <3>2. \/ /\ made' = made \cup {ProbeSteps[pos]}
               /\ \/ pos < 5 /\ pos' = pos + 1 /\ core' = core
                  \/ pos' = 1 /\ core' = "idle"
            \/ ProbeSteps[pos] # "drvdata" /\ core' = "rollback" /\ pos' = 6 - pos /\ made' = made
        <4>1. pos \in Int /\ Len(ProbeSteps) = 5
          BY <1>1, Steps DEF CoreShape
        <4> QED
          BY <2>4, <4>1 DEF Register, ErrorLabel
      <3> QED
        BY <1>1, <2>2, <2>3, <3>1, <3>2, Steps DEF CoreShape, Shape
    <2>5. CASE Detach
      <3>1. /\ core' = "disconnect" /\ pos' = 1 /\ cur # 0
            /\ UNCHANGED <<made, born, cur, attr>>
        BY <2>5 DEF Detach, kobjVars
      <3>2. disconnected' \in [Objects -> BOOLEAN]
        BY <1>1, <2>5 DEF Detach, CoreShape
      <3> QED
        BY <1>1, <2>2, <2>3, <3>1, <3>2 DEF CoreShape, Shape
    <2>6. CASE Undo
      <3>1. /\ core = "rollback" => pos <= 4
            /\ core = "disconnect" => pos <= 5
        BY <2>6, Steps DEF Undo, Undoing
      <3>2. /\ made' \subseteq made /\ pos' = pos + 1
            /\ UNCHANGED <<core, born, disconnected, cur, attr>>
            /\ core \in {"rollback", "disconnect"}
        BY <2>6 DEF Undo, kobjVars
      <3> QED
        BY <1>1, <2>2, <2>3, <3>1, <3>2 DEF CoreShape, Shape
    <2> QED
      BY <1>3, <2>4, <2>5, <2>6
  <1>4. CASE Finish
    <2>1. FileShape' /\ CoreShape'
      BY <1>1, <1>4, FileFrame, SizesAssumption DEF Finish, CoreShape
    <2>2. RxShape' /\ KrefShape'
      BY <1>1, <1>4, SizesAssumption, KrefPutShape DEF Finish, CoreShape
    <2> QED
      BY <2>1, <2>2 DEF Shape
  <1> QED
    BY <1>2, <1>3, <1>4 DEF UsbCore

LEMMA FileKeepsShape ==
  ASSUME Shape, NEW f \in Files, FileStep(f)
  PROVE  Shape'
  <1> DEFINE o == private_data[f]
  <1>1. FileShape /\ RxShape /\ CoreShape /\ KrefShape
    BY DEF Shape
  <1>2. pc[f] # "none" => o \in 1 .. born /\ o \in Objects
    BY <1>1, SizesAssumption DEF FileShape, CoreShape, Objects
  <1>3. CASE Lookup(f) \/ PutCdev(f)
    <2> PICK p \in {"looked", "none"}, q \in 0 .. born :
             /\ pc' = [pc EXCEPT ![f] = p] /\ private_data' = [private_data EXCEPT ![f] = q]
             /\ q = 0 => p = "none"
      BY <1>1, <1>3, SizesAssumption DEF Lookup, PutCdev, Goto, CoreShape
    <2>3. buf' = buf /\ born' = born
      BY <1>3 DEF Lookup, PutCdev, coreVars
    <2>4. pc' \in [Files -> KnowCdev \cup {"none", "wild"}]
      BY <1>1 DEF FileShape, KnowCdev
    <2>5. private_data' \in [Files -> 0 .. born']
      BY <1>1, <2>3 DEF FileShape
    <2>6. \A g \in Files : pc'[g] # "none" => private_data'[g] # 0
      BY <1>1 DEF FileShape
    <2>7. \A g \in Files : pc'[g] \in Reading => Len(buf'[g]) < Count[g]
      BY <1>1, <2>3 DEF FileShape, Reading
    <2>1. FileShape'
      BY <1>1, <2>3, <2>4, <2>5, <2>6, <2>7 DEF FileShape
    <2>2. RxShape' /\ CoreShape' /\ KrefShape'
      BY <1>1, <1>3 DEF Lookup, PutCdev, RxShape, CoreShape, KrefShape, rxVars, coreVars, kobjVars
    <2> QED
      BY <2>1, <2>2 DEF Shape
  <1>4. CASE Open(f)
    <2>1. FileShape'
      BY <1>1, <1>4 DEF Open, Goto, FileShape, KnowCdev, Holding, Reading, coreVars
    <2>2. RxShape' /\ CoreShape'
      BY <1>1, <1>4 DEF Open, RxShape, CoreShape, rxVars, coreVars
    <2>3. KrefShape'
      <3>1. kref' \in {kref, [kref EXCEPT ![o] = @ + 1]} /\ UNCHANGED <<freed, born>>
        BY <1>4 DEF Open, KrefGet, coreVars
      <3>2. kref' \in [Objects -> Int]
        BY <1>1, <1>2, <1>4, <3>1 DEF Open, KrefShape
      <3> QED
        BY <1>1, <3>1, <3>2 DEF KrefShape
    <2> QED
      BY <2>1, <2>2, <2>3 DEF Shape
  <1>5. CASE Release(f)
    <2>1. FileShape' /\ CoreShape'
      BY <1>1, <1>5 DEF Release, Goto, FileShape, CoreShape, KnowCdev, Holding, Reading, coreVars
    <2>2. RxShape' /\ KrefShape'
      BY <1>1, <1>2, <1>5, KrefPutShape DEF Release, CoreShape, coreVars
    <2> QED
      BY <2>1, <2>2 DEF Shape
  <1>6. ASSUME UNCHANGED <<private_data, coreVars, kobjVars, attr>>, RxShape',
               pc' \in [Files -> KnowCdev \cup {"none", "wild"}],
               buf' \in [Files -> Seq(Nat)],
               \A g \in Files : pc'[g] # "none" => pc[g] # "none",
               \A g \in Files : pc'[g] \in Reading => Len(buf'[g]) < Count[g]
        PROVE  Shape'
    BY <1>1, <1>6 DEF FileShape, CoreShape, KrefShape, coreVars, kobjVars, Shape
  <1>7. CASE LockRead(f)
    <2>1. RxShape'
      BY <1>1, <1>2, <1>7 DEF LockRead, RxShape
    <2>2. pc' \in [Files -> KnowCdev \cup {"none", "wild"}]
      BY <1>1, <1>7 DEF LockRead, Goto, FileShape, KnowCdev, Holding, Reading
    <2>3. pc' = [pc EXCEPT ![f] = "reading"] /\ buf' = [buf EXCEPT ![f] = <<>>] /\ pc[f] = "open"
      BY <1>7 DEF LockRead, Goto
    <2>4. buf' \in [Files -> Seq(Nat)]
      BY <1>1, <2>3 DEF FileShape
    <2>5. \A g \in Files : pc'[g] # "none" => pc[g] # "none"
      BY <1>1, <2>3 DEF FileShape
    <2>6. \A g \in Files : pc'[g] \in Reading => Len(buf'[g]) < Count[g]
      <3>1. Len(<<>>) < Count[f]
        BY SizesAssumption
      <3> QED
        BY <1>1, <2>3, <3>1 DEF FileShape
    <2>7. UNCHANGED <<private_data, coreVars, kobjVars, attr>>
      BY <1>7 DEF LockRead
    <2> QED
      BY <1>6, <2>1, <2>2, <2>4, <2>5, <2>6, <2>7
  <1>8. CASE Copy(f)
    <2> DEFINE n     == Take(f, o)
               piece == SubSeq(rx_data[o], rx_offset[o] + 1, rx_offset[o] + n)
    <2>1. /\ n \in Nat \ {0} /\ n <= rx_len[o] - rx_offset[o]
          /\ Len(buf[f]) + n <= Count[f]
      BY <1>1, <1>2, <1>8, TakeOK DEF Copy, Reading
    <2>2. piece \in Seq(Nat) /\ Len(piece) = n
      <3> DEFINE data == rx_data[o]
      <3>1. data \in Seq(Nat) /\ Len(data) = DataSize
        <4>1. data \in [1 .. DataSize -> Nat]
          BY <1>1, <1>2, <1>8 DEF RxShape, Copy
        <4> HIDE DEF data
        <4> QED
          BY <4>1, SizesAssumption
      <3>2. rx_offset[o] \in Nat /\ rx_len[o] \in Nat /\ rx_len[o] <= DataSize
        BY <1>1, <1>2, <1>8, SizesAssumption DEF RxShape, Copy
      <3> HIDE DEF data
      <3>3. /\ SubSeq(data, rx_offset[o] + 1, rx_offset[o] + n) \in Seq(Nat)
            /\ Len(SubSeq(data, rx_offset[o] + 1, rx_offset[o] + n)) = n
        <4> DEFINE a == rx_offset[o]
        <4>1. a \in Nat /\ n \in Nat \ {0} /\ a + n <= Len(data)
          BY <2>1, <3>1, <3>2, SizesAssumption
        <4> HIDE DEF n, a
        <4>2. SubSeq(data, a + 1, a + n) \in Seq(Nat) /\ Len(SubSeq(data, a + 1, a + n)) = n
          BY <3>1, <4>1
        <4> QED
          BY <4>2 DEF a
      <3> QED
        BY <3>3 DEF data
    <2>3. buf[f] \o piece \in Seq(Nat) /\ Len(buf[f] \o piece) = Len(buf[f]) + n
      BY <1>1, <2>2 DEF FileShape
    <2> HIDE DEF piece
    <2>4. buf' = [buf EXCEPT ![f] = buf[f] \o piece]
      BY <1>8 DEF Copy, piece
    <2> HIDE DEF n
    <2>5. RxShape'
      <3>1. /\ rx_offset' = [rx_offset EXCEPT ![o] = @ + n]
            /\ read_mutex' \in {read_mutex, [read_mutex EXCEPT ![o] = NoFile]}
            /\ UNCHANGED <<rx_data, rx_len, received, write_mutex>>
        BY <1>8 DEF Copy, UnlockRead, n
      <3>2. rx_offset' \in [Objects -> 0 .. DataSize]
        <4>1. rx_offset[o] + n \in 0 .. DataSize
          <5>1. o \in Objects
            BY <1>2, <1>8 DEF Copy
          <5>2. rx_offset[o] \in 0 .. DataSize /\ rx_len[o] \in 0 .. DataSize
            BY <1>1, <5>1 DEF RxShape
          <5> QED
            BY <2>1, <5>2, SizesAssumption
        <4> QED
          BY <1>1, <3>1, <4>1 DEF RxShape
      <3>4. read_mutex' \in [Objects -> Files \cup {NoFile}]
        BY <1>1, <3>1 DEF RxShape
      <3> QED
        BY <1>1, <3>1, <3>2, <3>4 DEF RxShape
    <2>6. \/ Len(buf[f]) + n < Count[f] /\ UNCHANGED pc
          \/ pc' = [pc EXCEPT ![f] = "open"]
      BY <1>8 DEF Copy, UnlockRead, Goto, n
    <2>7. /\ pc' \in [Files -> KnowCdev \cup {"none", "wild"}]
          /\ \A g \in Files : pc'[g] # "none" => pc[g] # "none"
      BY <1>1, <1>8, <2>6 DEF Copy, FileShape, KnowCdev, Holding
    <2>8. \A g \in Files : pc'[g] \in Reading => Len(buf'[g]) < Count[g]
      BY <1>1, <2>3, <2>4, <2>6 DEF FileShape, Reading
    <2> QED
      BY <1>1, <1>6, <1>8, <2>3, <2>4, <2>5, <2>7, <2>8 DEF Copy, FileShape
  <1>9. ASSUME UNCHANGED buf, UNCHANGED <<private_data, coreVars, kobjVars, attr>>, RxShape',
               pc[f] # "none", pc[f] # "wild",
               \E p \in Holding : pc' = [pc EXCEPT ![f] = p] /\ (p \in Reading => pc[f] \in Reading)
        PROVE  Shape'
    BY <1>1, <1>6, <1>9 DEF FileShape, KnowCdev
  <1>10. CASE CopyFaults(f) \/ NextPacket(f) \/ TransferFails(f)
    <2>1. RxShape'
      <3>1. /\ read_mutex' \in {read_mutex, [read_mutex EXCEPT ![o] = NoFile]}
            /\ UNCHANGED <<rx_data, received, write_mutex>>
        BY <1>10 DEF CopyFaults, NextPacket, TransferFails, UnlockRead
      <3>2. \/ UNCHANGED <<rx_len, rx_offset>>
            \/ /\ rx_len' = [rx_len EXCEPT ![o] = 0]
               /\ rx_offset' = [rx_offset EXCEPT ![o] = 0]
        BY <1>10 DEF CopyFaults, NextPacket, TransferFails
      <3>3. rx_len' \in [Objects -> 0 .. DataSize] /\ rx_offset' \in [Objects -> 0 .. DataSize]
        <4>1. 0 \in 0 .. DataSize
          BY SizesAssumption
        <4> QED
          BY <1>1, <3>2, <4>1 DEF RxShape
      <3>4. read_mutex' \in [Objects -> Files \cup {NoFile}]
        BY <1>1, <3>1 DEF RxShape
      <3> QED
        BY <1>1, <3>1, <3>3, <3>4 DEF RxShape
    <2> QED
      BY <1>9, <1>10, <2>1
         DEF CopyFaults, NextPacket, TransferFails, UnlockRead, Goto, Holding, Reading
  <1>11. ASSUME NEW n \in 0 .. DataSize, PacketArrives(f, n) PROVE Shape'
    <2>1. /\ rx_data' = [rx_data EXCEPT ![o] = Refilled(n, received[o], rx_data[o])]
          /\ rx_len' = [rx_len EXCEPT ![o] = n]
          /\ received' = [received EXCEPT ![o] = received[o] + n]
          /\ rx_offset' = rx_offset /\ write_mutex' = write_mutex
          /\ read_mutex' \in {read_mutex, [read_mutex EXCEPT ![o] = NoFile]}
      BY <1>11 DEF PacketArrives, Refilled, UnlockRead
    <2>2. pc[f] = "transfer"
      BY <1>11 DEF PacketArrives
    <2>3. Refilled(n, received[o], rx_data[o]) \in [1 .. DataSize -> Nat]
      BY <1>1, <1>2, <2>2, RefilledOK DEF RxShape
    <2>4. RxShape'
      <3>1. rx_data' \in [Objects -> [1 .. DataSize -> Nat]]
        BY <1>1, <2>1, <2>3 DEF RxShape
      <3>2. rx_len' \in [Objects -> 0 .. DataSize] /\ received' \in [Objects -> Nat]
        BY <1>1, <1>2, <2>1, <2>2, SizesAssumption DEF RxShape
      <3>3. read_mutex' \in [Objects -> Files \cup {NoFile}]
        BY <1>1, <2>1 DEF RxShape
      <3> QED
        BY <1>1, <2>1, <3>1, <3>2, <3>3 DEF RxShape
    <2> QED
      BY <1>9, <1>11, <2>2, <2>4 DEF PacketArrives, UnlockRead, Goto, Holding, Reading
  <1>12. CASE Write(f) \/ Sent(f)
    <2>1. RxShape'
      BY <1>1, <1>2, <1>12 DEF Write, Sent, RxShape, rxVars
    <2> PICK p \in {"open", "sending"} : pc' = [pc EXCEPT ![f] = p]
      BY <1>12 DEF Write, Sent, Goto
    <2>2. pc' \in [Files -> KnowCdev \cup {"none", "wild"}]
      BY <1>1 DEF FileShape, KnowCdev, Holding
    <2>3. buf' \in {buf, [buf EXCEPT ![f] = <<>>]} /\ pc[f] \in {"open", "sending"}
      BY <1>12 DEF Write, Sent
    <2>4. buf' \in [Files -> Seq(Nat)]
      <3>1. CASE buf' = buf
        BY <1>1, <3>1 DEF FileShape
      <3>2. CASE buf' = [buf EXCEPT ![f] = <<>>]
        BY <1>1, <3>2 DEF FileShape
      <3> QED
        BY <2>3, <3>1, <3>2
    <2>5. \A g \in Files : pc'[g] # "none" => pc[g] # "none"
      BY <1>1, <2>3 DEF FileShape
    <2>6. \A g \in Files : pc'[g] \in Reading => Len(buf'[g]) < Count[g]
      BY <1>1, <2>3 DEF FileShape, Reading
    <2>7. UNCHANGED <<private_data, coreVars, kobjVars, attr>>
      BY <1>12 DEF Write, Sent
    <2> QED
      BY <1>6, <2>1, <2>2, <2>4, <2>5, <2>6, <2>7
  <1> QED
    BY <1>3, <1>4, <1>5, <1>7, <1>8, <1>10, <1>11, <1>12 DEF FileStep, ReadStep

LEMMA ShapeStep == Shape /\ [Next]_vars => Shape'
  <1> SUFFICES ASSUME Shape, [Next]_vars PROVE Shape'
    OBVIOUS
  <1>1. ASSUME AttributeStep \/ UNCHANGED vars PROVE Shape'
    BY <1>1 DEF AttributeStep, EnterAttribute, UseCarrier, vars, coreVars, kobjVars, rxVars,
                fileVars, Shape, FileShape, RxShape, CoreShape, KrefShape
  <1> QED
    BY <1>1, CoreKeepsShape, FileKeepsShape DEF Next

-----------------------------------------------------------------------------
(* The reference count.                                                    *)

LEMMA HoldersOK ==
  ASSUME NEW o
  PROVE  IsFiniteSet(Holders(o)) /\ Cardinality(Holders(o)) \in Nat
  <1>1. Holders(o) \subseteq Files
    BY DEF Holders
  <1> QED
    BY <1>1, FilesAssumption, FS_Subset, FS_CardinalityType

\* A file that moves within Holding, or outside of it, changes nobody's holders.
LEMMA SameHolders ==
  ASSUME FileShape, NEW f \in Files, NEW p, NEW q,
         pc' = [pc EXCEPT ![f] = p], private_data' = [private_data EXCEPT ![f] = q],
         pc[f] \in Holding <=> p \in Holding,
         p \in Holding => q = private_data[f]
  PROVE  \A o \in Objects : Holders(o)' = Holders(o)
  BY DEF FileShape, Holders

\* A step that touches neither counts nor holders.
LEMMA CountedFrame ==
  ASSUME Counted, UNCHANGED <<kobjVars, born>>, \A o \in Objects : Holders(o)' = Holders(o)
  PROVE  Counted'
  BY DEF Counted, kobjVars, Bound

LEMMA CountedInit == Init => Counted
  <1> SUFFICES ASSUME Init PROVE Counted
    OBVIOUS
  <1>1. ASSUME NEW o \in Objects PROVE kref[o] = Cardinality(Holders(o)) + Bound(o)
    <2>1. Holders(o) = {}
      BY DEF Init, Holders, Holding, Reading
    <2>2. Bound(o) = 0 /\ kref[o] = 0
      BY SizesAssumption DEF Init, Bound, Objects
    <2> QED
      BY <2>1, <2>2, FS_EmptySet
  <1>2. 1 .. born = {}
    BY DEF Init
  <1> QED
    BY <1>1, <1>2 DEF Counted

LEMMA CoreKeepsCounted == Shape /\ Counted /\ UsbCore => Counted'
  <1> SUFFICES ASSUME Shape, Counted, UsbCore PROVE Counted'
    OBVIOUS
  <1>1. FileShape /\ RxShape /\ CoreShape /\ KrefShape
    BY DEF Shape
  <1>2. UNCHANGED fileVars
    BY DEF UsbCore, Probe, Register, Detach, Undo, Finish
  <1>3. \A o \in Objects : Holders(o)' = Holders(o)
    BY <1>2 DEF Holders, fileVars
  <1>4. CASE Probe
    <2>1. /\ kref' = [kref EXCEPT ![born + 1] = 1] /\ cur = 0 /\ cur' = born + 1
          /\ born' = born + 1 /\ freed' = freed /\ born < MaxObjects
      BY <1>4 DEF Probe
    <2>2. born \in Nat /\ born + 1 \in Objects
      BY <1>1, <2>1, SizesAssumption DEF CoreShape, Objects
    <2>3. Holders(born + 1) = {}
      BY <1>1, <2>2 DEF FileShape, Holders
    <2>4. ASSUME NEW o \in Objects PROVE kref'[o] = Cardinality(Holders(o)') + Bound(o)'
      <3>1. CASE o = born + 1
        <4>1. kref'[o] = 1 /\ Bound(o)' = 1
          BY <1>1, <2>1, <2>2, <3>1 DEF Bound, KrefShape
        <4> QED
          BY <1>3, <2>3, <3>1, <4>1, FS_EmptySet
      <3>2. CASE o # born + 1
        <4>1. kref'[o] = kref[o] /\ Bound(o)' = Bound(o)
          BY <1>1, <2>1, <3>2, SizesAssumption DEF Bound, KrefShape, Objects
        <4> QED
          BY <1>3, <4>1 DEF Counted
      <3> QED
        BY <3>1, <3>2
    <2>5. \A o \in 1 .. born' : o \in freed' <=> kref'[o] = 0
      <3> SUFFICES ASSUME NEW o \in 1 .. born' PROVE o \in freed' <=> kref'[o] = 0
        OBVIOUS
      <3>1. CASE o = born + 1
        BY <1>1, <2>1, <2>2, <3>1 DEF KrefShape
      <3>2. CASE o # born + 1
        <4>1. o \in 1 .. born /\ o \in Objects
          BY <1>1, <2>1, <2>2, <3>2, SizesAssumption DEF Objects
        <4>2. kref'[o] = kref[o]
          BY <1>1, <2>1, <3>2, <4>1 DEF KrefShape
        <4> QED
          BY <2>1, <4>1, <4>2 DEF Counted
      <3> QED
        BY <3>1, <3>2
    <2> QED
      BY <2>4, <2>5 DEF Counted
  <1>5. CASE Finish
    <2>1. /\ kref' = [kref EXCEPT ![cur] = @ - 1] /\ cur' = 0 /\ born' = born
          /\ freed' = IF kref[cur] = 1 THEN freed \cup {cur} ELSE freed
      BY <1>5 DEF Finish, KrefPut
    <2>2. cur \in Objects /\ cur = born /\ born \in 1 .. born
      BY <1>1, <1>5, SizesAssumption DEF Finish, CoreShape, Objects
    <2>3. ASSUME NEW o \in Objects PROVE kref'[o] = Cardinality(Holders(o)') + Bound(o)'
      <3>1. /\ kref'[o] = IF o = cur THEN kref[o] - 1 ELSE kref[o]
            /\ Bound(o)' = 0 /\ Bound(o) = IF o = cur THEN 1 ELSE 0
        BY <1>1, <2>1, SizesAssumption DEF KrefShape, Bound, Objects
      <3>2. kref[o] = Cardinality(Holders(o)) + Bound(o) /\ Cardinality(Holders(o)) \in Nat
        BY HoldersOK DEF Counted
      <3> QED
        BY <1>3, <3>1, <3>2
    <2>4. \A o \in 1 .. born' : o \in freed' <=> kref'[o] = 0
      <3>1. kref[cur] \in Nat \ {0}
        <4>1. kref[cur] = Cardinality(Holders(cur)) + 1
          BY <2>2 DEF Counted, Bound
        <4> QED
          BY <4>1, HoldersOK
      <3>2. cur \notin freed
        BY <2>2, <3>1 DEF Counted
      <3>3. \A o \in 1 .. born : o \in Objects
        BY <1>1, SizesAssumption DEF CoreShape, Objects
      <3> QED
        BY <1>1, <2>1, <2>2, <3>1, <3>2, <3>3 DEF Counted, KrefShape
    <2> QED
      BY <2>3, <2>4 DEF Counted
  <1>6. CASE Register \/ Detach \/ Undo
    <2>1. UNCHANGED <<kobjVars, born>>
      BY <1>6 DEF Register, Detach, Undo
    <2> QED
      BY <1>3, <2>1, CountedFrame
  <1> QED
    BY <1>4, <1>5, <1>6 DEF UsbCore

LEMMA FileKeepsCounted ==
  ASSUME Shape, Counted, NEW f \in Files, FileStep(f)
  PROVE  Counted'
  <1> DEFINE o == private_data[f]
  <1>1. FileShape /\ RxShape /\ CoreShape /\ KrefShape
    BY DEF Shape
  <1>2. pc[f] # "none" => o \in 1 .. born /\ o \in Objects
    BY <1>1, SizesAssumption DEF FileShape, CoreShape, Objects
  <1>3. CASE Open(f) /\ o \notin freed
    <2>1. /\ kref' = [kref EXCEPT ![o] = @ + 1] /\ UNCHANGED <<freed, cur, born>>
          /\ pc' = [pc EXCEPT ![f] = "open"] /\ private_data' = private_data
          /\ pc[f] = "looked"
      BY <1>3 DEF Open, KrefGet, Goto, coreVars
    <2>2. \A p \in Objects :
             IF p = o THEN Holders(p)' = Holders(p) \cup {f} /\ f \notin Holders(p)
                      ELSE Holders(p)' = Holders(p)
      BY <1>1, <2>1 DEF Holders, Holding, Reading, FileShape
    <2>3. \A p \in Objects : p = o => Cardinality(Holders(p)') = Cardinality(Holders(p)) + 1
      BY <2>2, HoldersOK, FS_AddElement
    <2>4. ASSUME NEW p \in Objects PROVE kref'[p] = Cardinality(Holders(p)') + Bound(p)'
      <3>1. Bound(p)' = Bound(p) /\ kref[p] = Cardinality(Holders(p)) + Bound(p)
        BY <2>1 DEF Bound, Counted
      <3>2. kref'[p] = IF p = o THEN kref[p] + 1 ELSE kref[p]
        BY <1>1, <2>1 DEF KrefShape
      <3>3. Cardinality(Holders(p)) \in Nat /\ Bound(p) \in Nat
        BY HoldersOK DEF Bound
      <3> HIDE DEF o
      <3>4. CASE p = o
        BY <2>3, <3>1, <3>2, <3>3, <3>4
      <3>5. CASE p # o
        BY <2>2, <3>1, <3>2, <3>5
      <3> QED
        BY <3>4, <3>5
    <2>5. \A p \in 1 .. born' : p \in freed' <=> kref'[p] = 0
      <3>1. kref[o] \in Nat
        <4>1. kref[o] = Cardinality(Holders(o)) + Bound(o)
          BY <1>2, <2>1 DEF Counted
        <4>2. Cardinality(Holders(o)) \in Nat /\ Bound(o) \in Nat
          BY HoldersOK DEF Bound
        <4> QED
          BY <4>1, <4>2
      <3>2. \A p \in 1 .. born : p \in Objects
        BY <1>1, SizesAssumption DEF CoreShape, Objects
      <3> HIDE DEF o
      <3> QED
        BY <1>1, <1>3, <2>1, <3>1, <3>2 DEF Counted, KrefShape
    <2> QED
      BY <2>4, <2>5 DEF Counted
  <1>4. CASE Release(f)
    <2>1. /\ kref' = [kref EXCEPT ![o] = @ - 1] /\ UNCHANGED <<cur, born>>
          /\ pc' = [pc EXCEPT ![f] = "closing"] /\ private_data' = private_data
          /\ freed' = IF kref[o] = 1 THEN freed \cup {o} ELSE freed
          /\ pc[f] = "open"
      BY <1>4 DEF Release, KrefPut, Goto, coreVars
    <2>2. \A p \in Objects :
             IF p = o THEN Holders(p)' = Holders(p) \ {f} /\ f \in Holders(p)
                      ELSE Holders(p)' = Holders(p)
      BY <1>1, <2>1 DEF Holders, Holding, Reading, FileShape
    <2>3. \A p \in Objects : p = o => Cardinality(Holders(p)') = Cardinality(Holders(p)) - 1
      BY <2>2, HoldersOK, FS_RemoveElement
    <2>4. ASSUME NEW p \in Objects PROVE kref'[p] = Cardinality(Holders(p)') + Bound(p)'
      <3>1. Bound(p)' = Bound(p) /\ kref[p] = Cardinality(Holders(p)) + Bound(p)
        BY <2>1 DEF Bound, Counted
      <3>2. kref'[p] = IF p = o THEN kref[p] - 1 ELSE kref[p]
        BY <1>1, <2>1 DEF KrefShape
      <3>3. Cardinality(Holders(p)) \in Nat /\ Bound(p) \in Nat
        BY HoldersOK DEF Bound
      <3> HIDE DEF o
      <3>4. CASE p = o
        BY <2>3, <3>1, <3>2, <3>3, <3>4
      <3>5. CASE p # o
        BY <2>2, <3>1, <3>2, <3>5
      <3> QED
        BY <3>4, <3>5
    <2>5. \A p \in 1 .. born' : p \in freed' <=> kref'[p] = 0
      <3>1. kref[o] \in Nat \ {0}
        <4>1. kref[o] = Cardinality(Holders(o)) + Bound(o)
          BY <1>2, <2>1 DEF Counted
        <4>2. o \in Objects /\ f \in Holders(o)
          BY <1>2, <2>1, <2>2
        <4>3. Cardinality(Holders(o)) \in Nat \ {0} /\ Bound(o) \in Nat
          BY <4>2, HoldersOK, FS_EmptySet DEF Bound
        <4> QED
          BY <4>1, <4>3
      <3>2. \A p \in 1 .. born : p \in Objects
        BY <1>1, SizesAssumption DEF CoreShape, Objects
      <3>3. o \notin freed
        BY <1>2, <2>1, <3>1 DEF Counted
      <3>4. o \in 1 .. born
        BY <1>2, <2>1
      <3> HIDE DEF o
      <3> QED
        BY <1>1, <2>1, <3>1, <3>2, <3>3, <3>4 DEF Counted, KrefShape
    <2> QED
      BY <2>4, <2>5 DEF Counted
  <1>5. ASSUME UNCHANGED <<kobjVars, born>>,
               NEW p, NEW q, pc' = [pc EXCEPT ![f] = p],
               private_data' = [private_data EXCEPT ![f] = q],
               pc[f] \in Holding <=> p \in Holding, p \in Holding => q = o
        PROVE  Counted'
    BY <1>1, <1>5, SameHolders, CountedFrame
  <1>6. CASE Lookup(f) \/ PutCdev(f) \/ (Open(f) /\ o \in freed)
    <2>1. UNCHANGED <<kobjVars, born>>
      BY <1>6 DEF Lookup, PutCdev, Open, coreVars, kobjVars
    <2>2. PICK p \in {"looked", "none", "wild"}, q \in 0 .. born :
             /\ pc' = [pc EXCEPT ![f] = p] /\ private_data' = [private_data EXCEPT ![f] = q]
      <3>1. private_data = [private_data EXCEPT ![f] = private_data[f]]
        BY <1>1 DEF FileShape
      <3> QED
        BY <1>1, <1>2, <1>6, <3>1, SizesAssumption DEF Lookup, PutCdev, Open, Goto, CoreShape
    <2>3. pc[f] \notin Holding /\ p \notin Holding
      BY <1>6 DEF Lookup, PutCdev, Open, Holding, Reading
    <2> QED
      BY <1>5, <2>1, <2>2, <2>3
  <1>7. CASE LockRead(f) \/ ReadStep(f) \/ Write(f) \/ Sent(f)
    <2>1. UNCHANGED <<kobjVars, born>> /\ private_data' = private_data
      BY <1>7 DEF LockRead, ReadStep, Copy, CopyFaults, NextPacket, TransferFails, PacketArrives,
                  Write, Sent, coreVars
    <2>2. pc[f] \in Holding
      BY <1>7 DEF LockRead, ReadStep, Copy, CopyFaults, NextPacket, TransferFails, PacketArrives,
                  Write, Sent, Holding, Reading
    <2>3. \E p \in Holding : pc' = [pc EXCEPT ![f] = p]
      <3>1. pc = [pc EXCEPT ![f] = pc[f]]
        BY <1>1 DEF FileShape
      <3> QED
        BY <1>7, <2>2, <3>1
           DEF LockRead, ReadStep, Copy, CopyFaults, NextPacket, TransferFails, PacketArrives,
               UnlockRead, Goto, Write, Sent, Holding, Reading
    <2>4. private_data' = [private_data EXCEPT ![f] = o]
      BY <1>1, <2>1 DEF FileShape
    <2> QED
      BY <1>5, <2>1, <2>2, <2>3, <2>4
  <1> QED
    BY <1>3, <1>4, <1>6, <1>7 DEF FileStep

LEMMA CountedStep == Shape /\ Counted /\ [Next]_vars => Counted'
  <1> SUFFICES ASSUME Shape, Counted, [Next]_vars PROVE Counted'
    OBVIOUS
  <1>1. ASSUME AttributeStep \/ UNCHANGED vars PROVE Counted'
    BY <1>1 DEF AttributeStep, EnterAttribute, UseCarrier, vars, coreVars, kobjVars, fileVars,
                Counted, Holders, Bound
  <1> QED
    BY <1>1, CoreKeepsCounted, FileKeepsCounted DEF Next

\* The types and the count hold together: kref is the number of references there are.
THEOREM CountInvariant == Spec => [](Shape /\ Counted)
  <1>1. Init => Shape /\ Counted
    BY ShapeInit, CountedInit
  <1>2. Shape /\ Counted /\ [Next]_vars => (Shape /\ Counted)'
    BY ShapeStep, CountedStep
  <1> QED
    BY <1>1, <1>2, PTL DEF Spec

\* TypeOK, for every instance: in particular, no reference is given back twice.
THEOREM TypeCorrect == Spec => []TypeOK
  <1>1. Shape /\ Counted => TypeOK
    <2> SUFFICES ASSUME Shape, Counted PROVE TypeOK
      OBVIOUS
    <2>1. kref \in [Objects -> Nat]
      <3>1. ASSUME NEW o \in Objects PROVE kref[o] \in Nat
        BY HoldersOK DEF Counted, Bound
      <3> QED
        BY <3>1 DEF Shape, KrefShape
    <2> QED
      BY <2>1, Steps DEF Shape, FileShape, RxShape, CoreShape, KrefShape, TypeOK
  <1> QED
    BY <1>1, CountInvariant, PTL

\* No call on a file works on a freed object, however many files and devices there are.
THEOREM ObjectKept == Spec => []OpenFilesKeepObject
  <1>1. Shape /\ Counted => OpenFilesKeepObject
    <2> SUFFICES ASSUME Shape, Counted, NEW f \in Files, pc[f] \in Holding
                 PROVE  private_data[f] \notin freed
      BY DEF OpenFilesKeepObject
    <2> DEFINE o == private_data[f]
    <2>1. o \in 1 .. born /\ o \in Objects
      BY SizesAssumption DEF Shape, FileShape, CoreShape, Objects, Holding, Reading
    <2>2. Cardinality(Holders(o)) \in Nat \ {0}
      <3>1. f \in Holders(o)
        BY DEF Holders
      <3> QED
        BY <3>1, HoldersOK, FS_EmptySet
    <2>3. kref[o] # 0
      BY <2>1, <2>2 DEF Counted, Bound
    <2> QED
      BY <2>1, <2>3 DEF Counted
  <1> QED
    BY <1>1, CountInvariant, PTL

\* Every object is freed once it is neither bound nor open.
THEOREM NoLeak == Spec => []NothingLeaks
  <1>1. Shape /\ Counted => NothingLeaks
    <2> SUFFICES ASSUME Shape, Counted, NEW o \in 1 .. born, o # cur, Holders(o) = {}
                 PROVE  o \in freed
      BY DEF NothingLeaks
    <2>1. o \in Objects
      BY SizesAssumption DEF Shape, CoreShape, Objects
    <2>2. kref[o] = 0
      BY <2>1, FS_EmptySet DEF Counted, Bound
    <2> QED
      BY <2>2 DEF Counted
  <1> QED
    BY <1>1, CountInvariant, PTL

-----------------------------------------------------------------------------
(* What is registered.                                                     *)

LEMMA Orders ==
  /\ Resources = {"drvdata", "attribute", "region", "cdev", "node"}
  /\ ProbeSteps[1] = "drvdata" /\ ProbeSteps[2] = "attribute" /\ ProbeSteps[3] = "region"
  /\ ProbeSteps[4] = "cdev" /\ ProbeSteps[5] = "node"
  /\ RollbackSteps[1] = "cdev" /\ RollbackSteps[2] = "region"
  /\ RollbackSteps[3] = "attribute" /\ RollbackSteps[4] = "drvdata"
  /\ DisconnectSteps[1] = "drvdata" /\ DisconnectSteps[2] = "node" /\ DisconnectSteps[3] = "cdev"
  /\ DisconnectSteps[4] = "region" /\ DisconnectSteps[5] = "attribute"
  <1>1. ProbeSteps[1] = "drvdata" /\ ProbeSteps[2] = "attribute" /\ ProbeSteps[3] = "region"
        /\ ProbeSteps[4] = "cdev" /\ ProbeSteps[5] = "node" /\ DOMAIN ProbeSteps = 1 .. 5
    BY DEF ProbeSteps
  <1>2. Resources = {"drvdata", "attribute", "region", "cdev", "node"}
    BY <1>1 DEF Resources
  <1> QED
    BY <1>1, <1>2 DEF RollbackSteps, DisconnectSteps

LEMMA MadeStep ==
  ASSUME Shape, MadeSoFar, [Next]_vars
  PROVE  MadeSoFar'
  <1>1. CoreShape
    BY DEF Shape
  <1>2. CASE Probe
    <2>1. /\ made' = {}
          /\ \/ core' = "probe" /\ pos' = 1
             \/ core' = "rollback" /\ pos' = 5
      <3>1. /\ core = "idle" /\ cur = 0 /\ made' = made
            /\ \/ core' = "probe" /\ pos' = pos
               \/ core' = "rollback" /\ pos' = 5
        BY <1>2, Steps DEF Probe
      <3>2. made = {}
        BY <3>1 DEF MadeSoFar
      <3>3. pos = 1
        BY <1>1, <3>1 DEF CoreShape
      <3> QED
        BY <3>1, <3>2, <3>3
    <2>2. CASE core' = "probe" /\ pos' = 1
      BY <2>1, <2>2 DEF MadeSoFar
    <2>3. CASE core' = "rollback" /\ pos' = 5
      BY <2>1, <2>3 DEF MadeSoFar
    <2> QED
      BY <2>1, <2>2, <2>3
  <1>3. CASE Register
    <2>1. core = "probe" /\ pos \in 1 .. 5 /\ cur' = cur /\ cur # 0 /\ Len(ProbeSteps) = 5
      BY <1>1, <1>3, Steps DEF Register, CoreShape, kobjVars
    <2>2. /\ \A i \in 1 .. 5 : ProbeSteps[i] \in made <=> i < pos
          /\ made \subseteq Resources
      BY <1>1, <2>1 DEF MadeSoFar, CoreShape
    <2>3. CASE made' = made \cup {ProbeSteps[pos]} /\ pos < 5 /\ pos' = pos + 1 /\ core' = core
      <3>1. \A i \in 1 .. 5 : ProbeSteps[i] \in made' <=> i < pos'
        BY <2>1, <2>2, <2>3, Orders
      <3> QED
        BY <2>1, <2>3, <3>1 DEF MadeSoFar
    <2>4. CASE made' = made \cup {ProbeSteps[pos]} /\ pos = 5 /\ core' = "idle"
      <3>1. made' = Resources
        <4>1. \A i \in 1 .. 5 : ProbeSteps[i] \in made'
          BY <2>1, <2>2, <2>4
        <4>2. {"drvdata", "attribute", "region", "cdev", "node"} \subseteq made'
          BY <4>1, Orders
        <4>3. made' \subseteq Resources
          BY <2>1, <2>2, <2>4, Steps
        <4> QED
          BY <4>2, <4>3, Orders
      <3> QED
        BY <2>1, <2>4, <3>1 DEF MadeSoFar
    <2>5. CASE made' = made /\ pos # 1 /\ core' = "rollback" /\ pos' = 6 - pos
      <3>1. "node" \notin made'
        BY <2>1, <2>2, <2>5, Orders
      <3>2. \A i \in 1 .. 4 : RollbackSteps[i] \in made' <=> i >= pos'
        BY <2>1, <2>2, <2>5, Orders
      <3> QED
        BY <2>5, <3>1, <3>2 DEF MadeSoFar
    <2> QED
      BY <1>3, <2>1, <2>3, <2>4, <2>5, Orders DEF Register, ErrorLabel
  <1>4. CASE Detach
    <2>1. core = "idle" /\ cur # 0 /\ made' = made /\ core' = "disconnect" /\ pos' = 1
      BY <1>4 DEF Detach
    <2>2. made = Resources
      BY <2>1 DEF MadeSoFar
    <2>3. \A i \in 1 .. 5 : DisconnectSteps[i] \in made' <=> i >= pos'
      BY <2>1, <2>2, Orders
    <2> QED
      BY <2>1, <2>3 DEF MadeSoFar
  <1>5. CASE Undo
    <2>1. /\ core \in {"rollback", "disconnect"} /\ core' = core
          /\ pos \in 1 .. 6 /\ pos' = pos + 1 /\ made' = made \ {Undoing[pos]}
          /\ core = "rollback" => pos <= 4
          /\ core = "disconnect" => pos <= 5
      BY <1>1, <1>5, Steps DEF Undo, CoreShape, Undoing
    <2>2. CASE core = "rollback"
      <3>1. "node" \notin made /\ \A i \in 1 .. 4 : RollbackSteps[i] \in made <=> i >= pos
        BY <2>2 DEF MadeSoFar
      <3>2. made' = made \ {RollbackSteps[pos]}
        BY <2>1, <2>2 DEF Undoing
      <3>3. "node" \notin made' /\ \A i \in 1 .. 4 : RollbackSteps[i] \in made' <=> i >= pos'
        BY <2>1, <2>2, <3>1, <3>2, Orders
      <3> QED
        BY <2>1, <2>2, <3>3 DEF MadeSoFar
    <2>3. CASE core = "disconnect"
      <3>1. \A i \in 1 .. 5 : DisconnectSteps[i] \in made <=> i >= pos
        BY <2>3 DEF MadeSoFar
      <3>2. made' = made \ {DisconnectSteps[pos]}
        BY <2>1, <2>3 DEF Undoing
      <3>3. \A i \in 1 .. 5 : DisconnectSteps[i] \in made' <=> i >= pos'
        BY <2>1, <2>3, <3>1, <3>2, Orders
      <3> QED
        BY <2>1, <2>3, <3>3 DEF MadeSoFar
    <2> QED
      BY <2>1, <2>2, <2>3
  <1>6. CASE Finish
    <2>1. /\ core' = "idle" /\ cur' = 0 /\ made' = made /\ made \subseteq Resources
          /\ \/ core = "rollback" /\ pos = 5
             \/ core = "disconnect" /\ pos = 6
      <3>1. /\ core' = "idle" /\ cur' = 0 /\ made' = made
            /\ core \in {"rollback", "disconnect"} /\ pos = Len(Undoing) + 1
        BY <1>6 DEF Finish
      <3>2. ASSUME core = "rollback" PROVE pos = 5
        <4>1. Undoing = RollbackSteps
          BY <3>2 DEF Undoing
        <4> QED
          BY <3>1, <4>1, Steps
      <3>3. ASSUME core = "disconnect" PROVE pos = 6
        <4>1. Undoing = DisconnectSteps
          BY <3>3 DEF Undoing
        <4> QED
          BY <3>1, <4>1, Steps
      <3> QED
        BY <1>1, <3>1, <3>2, <3>3 DEF CoreShape
    <2>2. made = {}
      <3>1. CASE core = "rollback" /\ pos = 5
        BY <2>1, <3>1, Orders DEF MadeSoFar
      <3>2. CASE core = "disconnect" /\ pos = 6
        BY <2>1, <3>2, Orders DEF MadeSoFar
      <3> QED
        BY <2>1, <3>1, <3>2
    <2> QED
      BY <2>1, <2>2 DEF MadeSoFar
  <1>7. ASSUME UNCHANGED <<core, pos, made, cur>> PROVE MadeSoFar'
    BY <1>7 DEF MadeSoFar
  <1>8. ASSUME NEW f \in Files, FileStep(f) PROVE UNCHANGED <<core, pos, made, cur>>
    BY <1>8 DEF FileStep, ReadStep, Lookup, Open, Release, PutCdev, LockRead, Copy, CopyFaults,
                NextPacket, TransferFails, PacketArrives, Write, Sent, coreVars, kobjVars
  <1>9. CASE AttributeStep \/ UNCHANGED vars
    BY <1>7, <1>9 DEF AttributeStep, EnterAttribute, UseCarrier, vars, coreVars, kobjVars
  <1> QED
    BY <1>2, <1>3, <1>4, <1>5, <1>6, <1>7, <1>8, <1>9 DEF Next, UsbCore

\* Whichever registration of probe fails, and after disconnect, nothing stays registered;
\* a bound interface has everything.
THEOREM RollbackComplete == Spec => []AllOrNothing
  <1>1. Init => MadeSoFar
    BY DEF Init, MadeSoFar
  <1>2. Shape /\ MadeSoFar /\ [Next]_vars => MadeSoFar'
    BY MadeStep
  <1>3. MadeSoFar => AllOrNothing
    BY DEF MadeSoFar, AllOrNothing
  <1> QED
    BY <1>1, <1>2, <1>3, CountInvariant, PTL DEF Spec

-----------------------------------------------------------------------------
(* The refinement mapping, and the invariant it needs.                     *)

TakenOf(o) == received[o] - (rx_len[o] - rx_offset[o]) - CopiedBy(o)

Taken  == [o \in Objects |-> TakenOf(o)]
Answer == [f \in Files |-> IF pc[f] \in Reading THEN <<>> ELSE buf[f]]
Opened == [f \in Files |-> IF pc[f] \in Holding THEN private_data[f] ELSE 0]

\* The holder of a read_mutex is the one reader of its object.
Locked ==
  /\ \A f \in Files : pc[f] \in Reading => read_mutex[private_data[f]] = f
  /\ \A o \in Objects, f \in Files :
        read_mutex[o] = f => pc[f] \in Reading /\ private_data[f] = o

\* What is left in rx_data are the last bytes received; a transfer begins with nothing left.
Buffered ==
  /\ \A o \in Objects : rx_offset[o] <= rx_len[o]
  /\ \A f \in Files : pc[f] = "transfer" =>
        rx_len[private_data[f]] = 0 /\ rx_offset[private_data[f]] = 0
  /\ \A o \in Objects : \A i \in rx_offset[o] + 1 .. rx_len[o] :
        rx_data[o][i] = received[o] - rx_len[o] + i

\* A call has copied the bytes that follow those returned by the calls before it.
Copied ==
  /\ \A o \in Objects : TakenOf(o) \in Nat
  /\ \A f \in Files : pc[f] \in Reading =>
        buf[f] = [i \in 1 .. Len(buf[f]) |-> TakenOf(private_data[f]) + i]

StreamInv == Locked /\ Buffered /\ Copied

-----------------------------------------------------------------------------
(* What a step may do to an object: nothing, or clear it.                  *)

Quiet(o) ==
  /\ read_mutex'[o] = read_mutex[o] /\ received'[o] = received[o]
  /\ rx_data'[o] = rx_data[o] /\ rx_len'[o] = rx_len[o] /\ rx_offset'[o] = rx_offset[o]

Cleared(o) ==
  /\ read_mutex'[o] = NoFile /\ read_mutex[o] = NoFile
  /\ received'[o] = 0 /\ rx_len'[o] = 0 /\ rx_offset'[o] = 0

LEMMA StreamInit == Init => StreamInv
  <1> SUFFICES ASSUME Init PROVE StreamInv
    OBVIOUS
  <1>1. Locked
    BY FilesAssumption DEF Init, Locked, Reading
  <1>2. Buffered
    BY DEF Init, Buffered
  <1>3. Copied
    BY DEF Init, Copied, TakenOf, CopiedBy, Reading
  <1> QED
    BY <1>1, <1>2, <1>3 DEF StreamInv

\* A step in which nobody begins, goes on with or ends a read.
LEMMA NoReaderMoves ==
  ASSUME Shape, StreamInv,
         \A f \in Files : pc'[f] \in Reading <=> pc[f] \in Reading,
         \A f \in Files : pc[f] \in Reading =>
            pc'[f] = pc[f] /\ private_data'[f] = private_data[f] /\ buf'[f] = buf[f],
         \A o \in Objects : Quiet(o) \/ Cleared(o)
  PROVE  /\ StreamInv'
         /\ \A o \in Objects : TakenOf(o)' = IF Quiet(o) THEN TakenOf(o) ELSE 0
  <1>1. \A f \in Files : pc[f] \in Reading => private_data[f] \in Objects
    BY SizesAssumption DEF Shape, FileShape, CoreShape, Objects, Reading
  <1>2. \A o \in Objects : read_mutex[o] \in Files \cup {NoFile}
    BY DEF Shape, RxShape
  <1>3. \A f \in Files : pc[f] \in Reading => Quiet(private_data[f])
    BY <1>1, FilesAssumption DEF StreamInv, Locked, Cleared
  <1>4. Locked'
    BY <1>1, <1>3, FilesAssumption DEF StreamInv, Locked, Quiet, Cleared
  <1>5. Buffered'
    <2>1. \A o \in Objects : rx_offset'[o] <= rx_len'[o]
      BY DEF StreamInv, Buffered, Quiet, Cleared
    <2>2. \A f \in Files : pc'[f] = "transfer" =>
             rx_len'[private_data'[f]] = 0 /\ rx_offset'[private_data'[f]] = 0
      BY <1>1, <1>3 DEF StreamInv, Buffered, Quiet, Reading
    <2>3. ASSUME NEW o \in Objects, NEW i \in rx_offset'[o] + 1 .. rx_len'[o]
          PROVE  rx_data'[o][i] = received'[o] - rx_len'[o] + i
      <3>1. CASE Quiet(o)
        BY <2>3, <3>1 DEF StreamInv, Buffered, Quiet
      <3>2. CASE Cleared(o)
        BY <2>3, <3>2 DEF Cleared
      <3> QED
        BY <3>1, <3>2
    <2> QED
      BY <2>1, <2>2, <2>3 DEF Buffered
  <1>6. ASSUME NEW o \in Objects, Quiet(o) PROVE TakenOf(o)' = TakenOf(o)
    <2>1. CASE read_mutex[o] = NoFile
      BY <1>6, <2>1 DEF TakenOf, CopiedBy, Quiet
    <2>2. CASE read_mutex[o] # NoFile
      <3>1. buf'[read_mutex[o]] = buf[read_mutex[o]]
        BY <1>2, <2>2 DEF StreamInv, Locked
      <3> QED
        BY <1>6, <2>2, <3>1 DEF TakenOf, CopiedBy, Quiet
    <2> QED
      BY <2>1, <2>2
  <1>7. ASSUME NEW o \in Objects, Cleared(o) PROVE TakenOf(o)' = 0
    BY <1>7 DEF TakenOf, CopiedBy, Cleared
  <1>8. \A o \in Objects : TakenOf(o)' = IF Quiet(o) THEN TakenOf(o) ELSE 0
    BY <1>6, <1>7
  <1>9. Copied'
    <2>1. \A o \in Objects : TakenOf(o)' \in Nat
      BY <1>8 DEF StreamInv, Copied
    <2>2. ASSUME NEW f \in Files, pc'[f] \in Reading
          PROVE  (buf[f] = [i \in 1 .. Len(buf[f]) |-> TakenOf(private_data[f]) + i])'
      <3>1. PICK o \in Objects : o = private_data[f] /\ o = private_data'[f]
        BY <1>1, <2>2
      <3>2. TakenOf(o)' = TakenOf(o)
        BY <1>1, <1>3, <1>8, <2>2, <3>1
      <3>3. buf[f] = [i \in 1 .. Len(buf[f]) |-> TakenOf(o) + i] /\ buf'[f] = buf[f]
        BY <2>2, <3>1 DEF StreamInv, Copied
      <3>4. buf'[f] = [i \in 1 .. Len(buf'[f]) |-> TakenOf(o)' + i]
        BY <3>2, <3>3
      <3> QED
        BY <3>1, <3>4 DEF TakenOf, CopiedBy
    <2> QED
      BY <2>1, <2>2 DEF Copied
  <1> QED
    BY <1>4, <1>5, <1>8, <1>9 DEF StreamInv

\* A step of a read of f on o: the others and their objects are left alone, and what it
\* does to o keeps the invariant.
LEMMA ReaderMoves ==
  ASSUME Shape, Shape', StreamInv, NEW f \in Files, NEW o \in Objects, private_data[f] = o,
         private_data' = private_data,
         \A g \in Files : g # f => pc'[g] = pc[g] /\ buf'[g] = buf[g],
         \A p \in Objects : p # o => Quiet(p),
         read_mutex[o] \in {f, NoFile},
         read_mutex'[o] = IF pc'[f] \in Reading THEN f ELSE NoFile,
         rx_offset'[o] <= rx_len'[o],
         pc'[f] = "transfer" => rx_len'[o] = 0 /\ rx_offset'[o] = 0,
         \A i \in rx_offset'[o] + 1 .. rx_len'[o] : rx_data'[o][i] = received'[o] - rx_len'[o] + i,
         TakenOf(o)' \in Nat,
         pc'[f] \in Reading => buf'[f] = [i \in 1 .. Len(buf'[f]) |-> TakenOf(o)' + i]
  PROVE  /\ StreamInv'
         /\ \A p \in Objects : p # o => TakenOf(p)' = TakenOf(p)
  <1>1. \A g \in Files : pc[g] \in Reading => private_data[g] \in Objects
    BY SizesAssumption DEF Shape, FileShape, CoreShape, Objects, Reading
  <1>2. \A g \in Files : pc[g] \in Reading /\ g # f => private_data[g] # o
    BY FilesAssumption DEF StreamInv, Locked
  <1>3. Locked'
    <2>1. ASSUME NEW g \in Files, pc'[g] \in Reading PROVE read_mutex'[private_data[g]] = g
      <3>1. CASE g = f
        BY <2>1, <3>1
      <3>2. CASE g # f
        BY <1>1, <1>2, <2>1, <3>2 DEF StreamInv, Locked, Quiet
      <3> QED
        BY <3>1, <3>2
    <2>2. ASSUME NEW p \in Objects, NEW g \in Files, read_mutex'[p] = g
          PROVE  pc'[g] \in Reading /\ private_data[g] = p
      <3>1. CASE p = o
        BY <2>2, <3>1, FilesAssumption
      <3>2. CASE p # o
        BY <2>2, <3>2, FilesAssumption DEF StreamInv, Locked, Quiet
      <3> QED
        BY <3>1, <3>2
    <2> QED
      BY <2>1, <2>2 DEF Locked
  <1>4. Buffered'
    <2>1. \A p \in Objects : rx_offset'[p] <= rx_len'[p]
      BY DEF StreamInv, Buffered, Quiet
    <2>2. ASSUME NEW g \in Files, pc'[g] = "transfer"
          PROVE  rx_len'[private_data[g]] = 0 /\ rx_offset'[private_data[g]] = 0
      <3>1. CASE g = f
        BY <2>2, <3>1
      <3>2. CASE g # f
        BY <1>1, <1>2, <2>2, <3>2 DEF StreamInv, Buffered, Quiet, Reading
      <3> QED
        BY <3>1, <3>2
    <2>3. ASSUME NEW p \in Objects, NEW i \in rx_offset'[p] + 1 .. rx_len'[p]
          PROVE  rx_data'[p][i] = received'[p] - rx_len'[p] + i
      <3>1. CASE p = o
        BY <2>3, <3>1
      <3>2. CASE p # o
        BY <2>3, <3>2 DEF StreamInv, Buffered, Quiet
      <3> QED
        BY <3>1, <3>2
    <2> QED
      BY <2>1, <2>2, <2>3 DEF Buffered
  <1>5. ASSUME NEW p \in Objects, p # o PROVE TakenOf(p)' = TakenOf(p)
    <2>1. Quiet(p)
      BY <1>5
    <2>2. CASE read_mutex[p] = NoFile
      BY <2>1, <2>2 DEF TakenOf, CopiedBy, Quiet
    <2>3. CASE read_mutex[p] # NoFile
      <3>1. read_mutex[p] \in Files
        BY <2>3 DEF Shape, RxShape
      <3>2. buf'[read_mutex[p]] = buf[read_mutex[p]]
        BY <1>5, <3>1 DEF StreamInv, Locked
      <3> QED
        BY <2>1, <2>3, <3>2 DEF TakenOf, CopiedBy, Quiet
    <2> QED
      BY <2>2, <2>3
  <1>6. Copied'
    <2>1. \A p \in Objects : TakenOf(p)' \in Nat
      BY <1>5 DEF StreamInv, Copied
    <2>2. ASSUME NEW g \in Files, pc'[g] \in Reading
          PROVE  (buf[g] = [i \in 1 .. Len(buf[g]) |-> TakenOf(private_data[g]) + i])'
      <3>1. CASE g = f
        BY <2>2, <3>1 DEF TakenOf, CopiedBy
      <3>2. CASE g # f
        <4>1. PICK p \in Objects : p = private_data[g] /\ p = private_data'[g] /\ p # o
          BY <1>1, <1>2, <2>2, <3>2
        <4>2. TakenOf(p)' = TakenOf(p) /\ buf'[g] = buf[g] /\ pc[g] \in Reading
          BY <1>5, <2>2, <3>2, <4>1
        <4>3. buf[g] = [i \in 1 .. Len(buf[g]) |-> TakenOf(p) + i]
          BY <4>1, <4>2 DEF StreamInv, Copied
        <4>4. buf'[g] = [i \in 1 .. Len(buf'[g]) |-> TakenOf(p)' + i]
          BY <4>2, <4>3
        <4> QED
          BY <4>1, <4>4 DEF TakenOf, CopiedBy
      <3> QED
        BY <3>1, <3>2
    <2> QED
      BY <2>1, <2>2 DEF Copied
  <1> QED
    BY <1>3, <1>4, <1>5, <1>6 DEF StreamInv

-----------------------------------------------------------------------------
(* The steps of the byte stream, seen through the mapping.                 *)

\* A call returns the next n bytes.
LEMMA MapReturn ==
  ASSUME NEW f \in Files, NEW o \in Objects, NEW n \in 0 .. received[o] - TakenOf(o),
         private_data[f] = o, private_data' = private_data,
         pc[f] \in Holding, pc'[f] \in Holding \ Reading,
         \A g \in Files : g # f => pc'[g] = pc[g] /\ buf'[g] = buf[g],
         received' = received,
         buf'[f] = [i \in 1 .. n |-> TakenOf(o) + i],
         TakenOf(o)' = TakenOf(o) + n,
         \A p \in Objects : p # o => TakenOf(p)' = TakenOf(p)
  PROVE  Stream!Next
  <1>1. Opened[f] = o /\ Opened' = Opened /\ o # 0
    BY SizesAssumption DEF Opened, Objects
  <1>2. Taken' = [Taken EXCEPT ![o] = @ + n] /\ Taken[o] = TakenOf(o)
    BY DEF Taken
  <1>3. Answer' = [Answer EXCEPT ![f] = [i \in 1 .. n |-> TakenOf(o) + i]]
    BY DEF Answer
  <1>4. Stream!Return(f)
    <2>1. /\ Opened[f] # 0
          /\ \E k \in 0 .. received[Opened[f]] - Taken[Opened[f]] :
               /\ Answer' = [Answer EXCEPT ![f] = [i \in 1 .. k |-> Taken[Opened[f]] + i]]
               /\ Taken' = [Taken EXCEPT ![Opened[f]] = @ + k]
          /\ UNCHANGED <<received, Opened>>
      BY <1>1, <1>2, <1>3
    <2> QED
      BY ONLY <2>1 DEF Stream!Return, Opened, Answer, Taken, TakenOf
  <1> QED
    BY <1>4 DEF Stream!Next

\* The user is done with the answer: the next call begins.
LEMMA MapForget ==
  ASSUME NEW f \in Files,
         private_data' = private_data,
         pc[f] \in Holding, pc'[f] \in Holding, buf'[f] = <<>>,
         \A g \in Files : g # f => pc'[g] = pc[g] /\ buf'[g] = buf[g],
         received' = received,
         \A p \in Objects : TakenOf(p)' = TakenOf(p)
  PROVE  Stream!Next
  <1>1. Opened' = Opened
    BY DEF Opened
  <1>2. Taken' = Taken
    BY DEF Taken
  <1>3. Answer' = [Answer EXCEPT ![f] = <<>>]
    BY DEF Answer
  <1>4. Stream!Forget(f)
    BY <1>1, <1>2, <1>3 DEF Stream!Forget, Opened, Answer, Taken, TakenOf
  <1> QED
    BY <1>4 DEF Stream!Next

\* Bytes arrive.
LEMMA MapReceive ==
  ASSUME NEW o \in Objects,
         received'[o] > received[o], received' = [received EXCEPT ![o] = received'[o]],
         \A g \in Files : (pc'[g] \in Holding <=> pc[g] \in Holding)
                          /\ (pc'[g] \in Reading <=> pc[g] \in Reading),
         private_data' = private_data, buf' = buf,
         \A p \in Objects : TakenOf(p)' = TakenOf(p)
  PROVE  Stream!Next
  <1>1. Opened' = Opened
    BY DEF Opened
  <1>2. Taken' = Taken
    BY DEF Taken
  <1>3. Answer' = Answer
    BY DEF Answer
  <1>4. Stream!Receive(o)
    BY <1>1, <1>2, <1>3 DEF Stream!Receive, Opened, Answer, Taken, TakenOf
  <1> QED
    BY <1>4 DEF Stream!Next

\* Nothing that the stream shows changes.
LEMMA MapStutter ==
  ASSUME \A g \in Files : (pc'[g] \in Holding <=> pc[g] \in Holding)
                          /\ (pc'[g] \in Reading <=> pc[g] \in Reading),
         \A g \in Files : pc[g] \in Holding => private_data'[g] = private_data[g],
         \A g \in Files : pc[g] \notin Reading => buf'[g] = buf[g],
         received' = received,
         \A p \in Objects : TakenOf(p)' = TakenOf(p)
  PROVE  UNCHANGED Stream!vars
  <1>1. Opened' = Opened
    BY DEF Opened
  <1>2. Taken' = Taken
    BY DEF Taken
  <1>3. Answer' = Answer
    BY DEF Answer
  <1> QED
    BY <1>1, <1>2, <1>3 DEF Stream!vars, Opened, Answer, Taken, TakenOf

-----------------------------------------------------------------------------
(* Reading.                                                                *)

\* The reader of o, and what its call has so far.
LEMMA ReaderOf ==
  ASSUME Shape, StreamInv, NEW f \in Files, pc[f] \in Reading
  PROVE  /\ private_data[f] \in Objects
         /\ read_mutex[private_data[f]] = f
         /\ Len(buf[f]) \in Nat
         /\ rx_len[private_data[f]] \in 0 .. DataSize
         /\ rx_offset[private_data[f]] \in 0 .. DataSize
         /\ rx_offset[private_data[f]] <= rx_len[private_data[f]]
         /\ received[private_data[f]] \in Nat
         /\ TakenOf(private_data[f]) \in Nat
         /\ TakenOf(private_data[f]) = received[private_data[f]]
              - (rx_len[private_data[f]] - rx_offset[private_data[f]]) - Len(buf[f])
         /\ buf[f] = [i \in 1 .. Len(buf[f]) |-> TakenOf(private_data[f]) + i]
  <1>1. private_data[f] \in Objects
    BY SizesAssumption DEF Shape, FileShape, CoreShape, Objects, Reading
  <1>2. read_mutex[private_data[f]] = f /\ f # NoFile
    BY FilesAssumption DEF StreamInv, Locked
  <1>3. buf[f] \in Seq(Nat)
    BY DEF Shape, FileShape
  <1>4. CopiedBy(private_data[f]) = Len(buf[f])
    BY <1>2 DEF CopiedBy
  <1> QED
    BY <1>1, <1>2, <1>3, <1>4 DEF StreamInv, Buffered, Copied, TakenOf, Shape, RxShape

\* A call on o returns m bytes: what is left follows them.
LEMMA ReadEnds ==
  ASSUME Shape, Shape', StreamInv, NEW f \in Files, NEW o \in Objects, NEW m \in Nat,
         private_data[f] = o, pc[f] \in Reading,
         UnlockRead(f), private_data' = private_data, received' = received,
         \A g \in Files : g # f => buf'[g] = buf[g],
         buf'[f] = [i \in 1 .. m |-> TakenOf(o) + i],
         \A p \in Objects : p # o =>
            rx_data'[p] = rx_data[p] /\ rx_len'[p] = rx_len[p] /\ rx_offset'[p] = rx_offset[p],
         rx_offset'[o] <= rx_len'[o],
         rx_len'[o] - rx_offset'[o] = received[o] - TakenOf(o) - m,
         \A i \in rx_offset'[o] + 1 .. rx_len'[o] : rx_data'[o][i] = received[o] - rx_len'[o] + i
  PROVE  StreamInv' /\ Stream!Next
  <1>1. /\ pc' = [pc EXCEPT ![f] = "open"] /\ pc \in [Files -> KnowCdev \cup {"none", "wild"}]
        /\ read_mutex' = [read_mutex EXCEPT ![o] = NoFile]
        /\ read_mutex \in [Objects -> Files \cup {NoFile}]
    BY DEF UnlockRead, Goto, Shape, FileShape, RxShape
  <1>2. /\ pc'[f] = "open" /\ "open" \notin Reading /\ "open" \in Holding
        /\ pc[f] \in Holding
        /\ \A g \in Files : g # f => pc'[g] = pc[g]
        /\ read_mutex'[o] = NoFile /\ read_mutex[o] = f
        /\ \A p \in Objects : p # o => read_mutex'[p] = read_mutex[p]
    BY <1>1, ReaderOf DEF Reading, Holding
  <1>3. /\ received[o] \in Nat /\ TakenOf(o) \in Nat
        /\ rx_len'[o] \in 0 .. DataSize /\ rx_offset'[o] \in 0 .. DataSize
    BY ReaderOf DEF Shape, RxShape
  <1>4. TakenOf(o)' = TakenOf(o) + m
    <2>1. CopiedBy(o)' = 0
      BY <1>2 DEF CopiedBy
    <2>2. TakenOf(o)' = received[o] - (rx_len'[o] - rx_offset'[o]) - 0
      BY <2>1 DEF TakenOf
    <2> QED
      BY <1>3, <2>2
  <1>5. StreamInv' /\ \A p \in Objects : p # o => TakenOf(p)' = TakenOf(p)
    <2>1. \A p \in Objects : p # o => Quiet(p)
      BY <1>2 DEF Quiet
    <2>2. TakenOf(o)' \in Nat
      BY <1>3, <1>4
    <2>3. pc'[f] # "transfer" /\ pc'[f] \notin Reading
      BY <1>2
    <2> QED
      BY <1>2, <2>1, <2>2, <2>3, ReaderMoves
  <1>6. m \in 0 .. received[o] - TakenOf(o)
    BY <1>3, SizesAssumption
  <1> QED
    BY <1>2, <1>4, <1>5, <1>6, MapReturn

\* A call on o goes on, with m bytes so far.
LEMMA ReadGoesOn ==
  ASSUME Shape, Shape', StreamInv, NEW f \in Files, NEW o \in Objects, NEW m \in Nat,
         private_data[f] = o, pc[f] \in Reading, pc'[f] \in Reading,
         \A g \in Files : g # f => pc'[g] = pc[g] /\ buf'[g] = buf[g],
         private_data' = private_data, received' = received, read_mutex' = read_mutex,
         buf'[f] = [i \in 1 .. m |-> TakenOf(o) + i],
         \A p \in Objects : p # o =>
            rx_data'[p] = rx_data[p] /\ rx_len'[p] = rx_len[p] /\ rx_offset'[p] = rx_offset[p],
         rx_offset'[o] <= rx_len'[o],
         pc'[f] = "transfer" => rx_len'[o] = 0 /\ rx_offset'[o] = 0,
         rx_len'[o] - rx_offset'[o] = received[o] - TakenOf(o) - m,
         \A i \in rx_offset'[o] + 1 .. rx_len'[o] : rx_data'[o][i] = received[o] - rx_len'[o] + i
  PROVE  StreamInv' /\ UNCHANGED Stream!vars
  <1>1. /\ received[o] \in Nat /\ TakenOf(o) \in Nat /\ read_mutex[o] = f /\ f # NoFile
        /\ rx_len'[o] \in 0 .. DataSize /\ rx_offset'[o] \in 0 .. DataSize
    BY ReaderOf, FilesAssumption DEF Shape, RxShape
  <1>2. Len(buf'[f]) = m
    BY DEF Shape, FileShape
  <1>3. TakenOf(o)' = TakenOf(o)
    <2>1. CopiedBy(o)' = m
      BY <1>1, <1>2 DEF CopiedBy
    <2>2. TakenOf(o)' = received[o] - (rx_len'[o] - rx_offset'[o]) - m
      BY <2>1 DEF TakenOf
    <2> QED
      BY <1>1, <2>2
  <1>4. buf'[f] = [i \in 1 .. Len(buf'[f]) |-> TakenOf(o)' + i]
    BY <1>2, <1>3
  <1>5. StreamInv' /\ \A p \in Objects : p # o => TakenOf(p)' = TakenOf(p)
    <2>1. \A p \in Objects : p # o => Quiet(p)
      BY DEF Quiet
    <2>2. TakenOf(o)' \in Nat
      BY <1>1, <1>3
    <2>3. read_mutex[o] \in {f, NoFile} /\ read_mutex'[o] = IF pc'[f] \in Reading THEN f ELSE NoFile
      BY <1>1
    <2>4. \A i \in rx_offset'[o] + 1 .. rx_len'[o] :
             rx_data'[o][i] = received'[o] - rx_len'[o] + i
      OBVIOUS
    <2>5. \A g \in Files : g # f => pc'[g] = pc[g] /\ buf'[g] = buf[g]
      OBVIOUS
    <2> QED
      BY <1>4, <2>1, <2>2, <2>3, <2>4, <2>5, ReaderMoves
  <1>6. \A p \in Objects : TakenOf(p)' = TakenOf(p)
    BY <1>3, <1>5
  <1>7. /\ \A g \in Files : (pc'[g] \in Holding <=> pc[g] \in Holding)
                           /\ (pc'[g] \in Reading <=> pc[g] \in Reading)
        /\ \A g \in Files : pc[g] \notin Reading => buf'[g] = buf[g]
    BY DEF Holding
  <1> QED
    BY <1>5, <1>6, <1>7, MapStutter

\* Numbered bytes, with those that follow them.
LEMMA Appended ==
  ASSUME NEW t \in Nat, NEW c \in Nat, NEW n \in Nat, NEW a \in Nat, NEW d \in Seq(Nat),
         a + n <= Len(d),
         \A i \in a + 1 .. a + n : d[i] = t + c + i - a
  PROVE  [i \in 1 .. c |-> t + i] \o SubSeq(d, a + 1, a + n) = [i \in 1 .. c + n |-> t + i]
  <1> DEFINE b     == [i \in 1 .. c |-> t + i]
             piece == SubSeq(d, a + 1, a + n)
             all   == [i \in 1 .. c + n |-> t + i]
  <1>1. b \in Seq(Nat) /\ Len(b) = c /\ \A i \in 1 .. c : b[i] = t + i
    OBVIOUS
  <1>2. piece \in Seq(Nat) /\ Len(piece) = n /\ \A i \in 1 .. n : piece[i] = d[a + i]
    OBVIOUS
  <1>3. all \in Seq(Nat) /\ Len(all) = c + n /\ \A i \in 1 .. c + n : all[i] = t + i
    OBVIOUS
  <1>4. \A i \in 1 .. n : piece[i] = t + c + i
    <2> TAKE i \in 1 .. n
    <2>1. piece[i] = d[a + i] /\ a + i \in a + 1 .. a + n
      BY <1>2
    <2> HIDE DEF piece
    <2>2. d[a + i] = t + c + (a + i) - a
      BY <2>1
    <2> QED
      BY <2>1, <2>2
  <1>5. ASSUME NEW u \in Seq(Nat), NEW v \in Seq(Nat), NEW w \in Seq(Nat),
               Len(w) = Len(u) + Len(v),
               \A i \in 1 .. Len(u) : w[i] = u[i],
               \A i \in 1 .. Len(v) : w[Len(u) + i] = v[i]
        PROVE  u \o v = w
    <2>1. u \o v \in Seq(Nat) /\ Len(u \o v) = Len(u) + Len(v)
      OBVIOUS
    <2>2. ASSUME NEW i \in 1 .. Len(w) PROVE (u \o v)[i] = w[i]
      <3> HIDE DEF b, piece, all
      <3>1. CASE i <= Len(u)
        BY <1>5, <3>1
      <3>2. CASE i > Len(u)
        <4>1. PICK j \in 1 .. Len(v) : i = Len(u) + j
          <5>1. i - Len(u) \in 1 .. Len(v) /\ i = Len(u) + (i - Len(u))
            BY <1>5, <3>2
          <5> QED
            BY <5>1
        <4> QED
          BY <1>5, <4>1
      <3>3. i <= Len(u) \/ i > Len(u)
        BY <1>5
      <3> QED
        BY <3>1, <3>2, <3>3
    <2> QED
      BY <1>5, <2>1, <2>2, SeqEqual
  <1>6. \A i \in 1 .. c : all[i] = b[i]
    OBVIOUS
  <1>7. \A i \in 1 .. n : all[c + i] = piece[i]
    <2> TAKE i \in 1 .. n
    <2>1. all[c + i] = t + (c + i)
      OBVIOUS
    <2>2. piece[i] = t + c + i
      BY <1>4
    <2> HIDE DEF piece, all
    <2> QED
      BY <2>1, <2>2
  <1> HIDE DEF b, piece, all
  <1>8. b \o piece = all
    BY <1>1, <1>2, <1>3, <1>5, <1>6, <1>7
  <1> QED
    BY <1>8 DEF b, piece, all

LEMMA CopyStep ==
  ASSUME Shape, Shape', StreamInv, NEW f \in Files, Copy(f)
  PROVE  StreamInv' /\ [Stream!Next]_(Stream!vars)
  <1>1. PICK o \in Objects : o = private_data[f]
    BY ReaderOf DEF Copy, Reading
  <1> DEFINE n == Take(f, o)
             c == Len(buf[f])
             t == TakenOf(o)
             a == rx_offset[o]
             d == rx_data[o]
  <1>2. pc[f] = "reading" /\ pc[f] \in Reading /\ HasData(o)
    BY <1>1 DEF Copy, Reading
  <1>3. n \in Nat /\ n <= rx_len[o] - a /\ c + n <= Count[f]
    BY <1>1, <1>2, TakeOK DEF Shape
  <1>4. /\ c \in Nat /\ rx_len[o] \in 0 .. DataSize /\ a \in 0 .. DataSize /\ a <= rx_len[o]
        /\ received[o] \in Nat /\ t \in Nat /\ t = received[o] - (rx_len[o] - a) - c
        /\ buf[f] = [i \in 1 .. c |-> t + i]
    BY <1>1, <1>2, ReaderOf
  <1>5. d \in Seq(Nat) /\ Len(d) = DataSize
    <2>1. d \in [1 .. DataSize -> Nat]
      BY DEF Shape, RxShape
    <2> HIDE DEF d
    <2> QED
      BY <2>1, SizesAssumption
  <1>6. \A i \in a + 1 .. rx_len[o] : d[i] = received[o] - rx_len[o] + i
    BY DEF StreamInv, Buffered
  <1>7. /\ buf' = [buf EXCEPT ![f] = buf[f] \o SubSeq(d, a + 1, a + n)]
        /\ rx_offset' = [rx_offset EXCEPT ![o] = a + n]
        /\ UNCHANGED <<private_data, rx_data, rx_len, received>>
        /\ \/ UNCHANGED <<pc, read_mutex>>
           \/ UnlockRead(f)
    BY <1>1 DEF Copy
  <1>8. rx_offset \in [Objects -> 0 .. DataSize] /\ buf \in [Files -> Seq(Nat)]
    BY DEF Shape, RxShape, FileShape
  <1>9. /\ rx_offset'[o] = a + n
        /\ \A p \in Objects : p # o =>
              rx_data'[p] = rx_data[p] /\ rx_len'[p] = rx_len[p] /\ rx_offset'[p] = rx_offset[p]
        /\ \A g \in Files : g # f => buf'[g] = buf[g]
    BY <1>7, <1>8
  <1> HIDE DEF n, c, t, a, d
  <1>10. a \in Nat /\ rx_len[o] \in Nat /\ rx_len[o] <= DataSize /\ DataSize \in Nat
    BY <1>4, SizesAssumption
  <1>11. buf'[f] = [i \in 1 .. c + n |-> t + i]
    <2>1. a + n <= Len(d)
      BY <1>3, <1>5, <1>10
    <2>2. \A i \in a + 1 .. a + n : d[i] = t + c + i - a
      <3> TAKE i \in a + 1 .. a + n
      <3>1. i \in a + 1 .. rx_len[o] /\ i \in Int
        BY <1>3, <1>10
      <3>2. d[i] = received[o] - rx_len[o] + i
        BY <1>6, <3>1
      <3>3. t = received[o] - (rx_len[o] - a) - c
        BY <1>4
      <3>4. c \in Nat /\ received[o] \in Nat /\ t \in Nat
        BY <1>4
      <3> QED
        BY <1>10, <3>1, <3>2, <3>3, <3>4
    <2>3. [i \in 1 .. c |-> t + i] \o SubSeq(d, a + 1, a + n) = [i \in 1 .. c + n |-> t + i]
      <3>1. a \in Nat /\ c \in Nat /\ t \in Nat /\ n \in Nat /\ d \in Seq(Nat)
        BY <1>3, <1>4, <1>5, <1>10
      <3> QED
        BY <2>1, <2>2, <3>1, Appended
    <2> QED
      BY <1>4, <1>7, <1>8, <2>3
  <1>12. /\ c + n \in Nat
         /\ rx_offset'[o] <= rx_len'[o]
         /\ rx_len'[o] - rx_offset'[o] = received[o] - t - (c + n)
    <2>1. rx_offset'[o] = a + n /\ rx_len'[o] = rx_len[o]
      BY <1>7, <1>9
    <2>2. c \in Nat /\ received[o] \in Nat /\ t \in Nat /\ t = received[o] - (rx_len[o] - a) - c
      BY <1>4
    <2>3. n \in Nat /\ n <= rx_len[o] - a
      BY <1>3
    <2> QED
      BY <1>10, <2>1, <2>2, <2>3
  <1>13. ASSUME NEW i \in rx_offset'[o] + 1 .. rx_len'[o]
         PROVE  rx_data'[o][i] = received[o] - rx_len'[o] + i
    <2>1. i \in a + 1 .. rx_len[o] /\ rx_data'[o] = d /\ rx_len' = rx_len
      BY <1>3, <1>7, <1>9, <1>10, <1>13 DEF d
    <2> QED
      BY <1>6, <2>1
  <1>14. CASE UNCHANGED <<pc, read_mutex>>
    <2>1. StreamInv' /\ UNCHANGED Stream!vars
      BY <1>1, <1>2, <1>7, <1>9, <1>11, <1>12, <1>13, <1>14, ReadGoesOn DEF t
    <2> QED
      BY <2>1
  <1>15. CASE UnlockRead(f)
    <2>1. StreamInv' /\ Stream!Next
      BY <1>1, <1>2, <1>7, <1>9, <1>11, <1>12, <1>13, <1>15, ReadEnds DEF t
    <2> QED
      BY <2>1
  <1> QED
    BY <1>7, <1>14, <1>15

\* The step of a read that begins: what the user had is gone.
LEMMA LockReadStep ==
  ASSUME Shape, Shape', StreamInv, NEW f \in Files, LockRead(f)
  PROVE  StreamInv' /\ Stream!Next
  <1>1. PICK o \in Objects : o = private_data[f]
    BY SizesAssumption DEF Shape, FileShape, CoreShape, Objects, LockRead
  <1>2. /\ pc[f] = "open" /\ pc' = [pc EXCEPT ![f] = "reading"]
        /\ buf' = [buf EXCEPT ![f] = <<>>]
        /\ read_mutex[o] = NoFile /\ read_mutex' = [read_mutex EXCEPT ![o] = f]
        /\ UNCHANGED <<private_data, rx_data, rx_len, rx_offset, received>>
    BY <1>1 DEF LockRead, Goto
  <1>3. /\ pc \in [Files -> KnowCdev \cup {"none", "wild"}] /\ buf \in [Files -> Seq(Nat)]
        /\ read_mutex \in [Objects -> Files \cup {NoFile}]
        /\ received[o] \in Nat /\ rx_len[o] \in 0 .. DataSize /\ rx_offset[o] \in 0 .. DataSize
    BY DEF Shape, FileShape, RxShape
  <1>4. /\ pc'[f] = "reading" /\ buf'[f] = <<>> /\ read_mutex'[o] = f
        /\ \A g \in Files : g # f => pc'[g] = pc[g] /\ buf'[g] = buf[g]
        /\ \A p \in Objects : p # o => Quiet(p)
    BY <1>2, <1>3 DEF Quiet
  <1>5. TakenOf(o)' = TakenOf(o) /\ TakenOf(o) \in Nat
    <2>1. CopiedBy(o) = 0 /\ CopiedBy(o)' = 0
      <3>1. Len(<<>>) = 0 /\ f # NoFile
        BY FilesAssumption
      <3> QED
        BY <1>2, <1>4, <3>1 DEF CopiedBy
    <2> QED
      BY <1>2, <2>1 DEF TakenOf, StreamInv, Copied
  <1>6. buf'[f] = [i \in 1 .. Len(buf'[f]) |-> TakenOf(o)' + i]
    BY <1>4
  <1>7. StreamInv' /\ \A p \in Objects : p # o => TakenOf(p)' = TakenOf(p)
    <2>1. read_mutex'[o] = IF pc'[f] \in Reading THEN f ELSE NoFile
      BY <1>4 DEF Reading
    <2>2. rx_offset'[o] <= rx_len'[o] /\ pc'[f] # "transfer"
      BY <1>2, <1>4 DEF StreamInv, Buffered
    <2>3. \A i \in rx_offset'[o] + 1 .. rx_len'[o] :
             rx_data'[o][i] = received'[o] - rx_len'[o] + i
      BY <1>2 DEF StreamInv, Buffered
    <2>4. TakenOf(o)' \in Nat
      BY <1>5
    <2> QED
      BY <1>1, <1>2, <1>4, <1>6, <2>1, <2>2, <2>3, <2>4, ReaderMoves
  <1>8. \A p \in Objects : TakenOf(p)' = TakenOf(p)
    BY <1>5, <1>7
  <1> QED
    BY <1>2, <1>4, <1>7, <1>8, MapForget DEF Holding, Reading

\* A call that ends early returns what it has, and loses nothing.
LEMMA EarlyEnd ==
  ASSUME Shape, Shape', StreamInv, NEW f \in Files, UnlockRead(f), pc[f] \in Reading,
         UNCHANGED <<private_data, buf, rx_data, received>>,
         \/ UNCHANGED <<rx_len, rx_offset>>
         \/ /\ ~HasData(private_data[f])
            /\ rx_len' = [rx_len EXCEPT ![private_data[f]] = 0]
            /\ rx_offset' = [rx_offset EXCEPT ![private_data[f]] = 0]
  PROVE  StreamInv' /\ Stream!Next
  <1>1. PICK o \in Objects : o = private_data[f]
    BY ReaderOf
  <1> DEFINE m == Len(buf[f])
  <1>2. /\ m \in Nat /\ rx_len[o] \in 0 .. DataSize /\ rx_offset[o] \in 0 .. DataSize
        /\ rx_offset[o] <= rx_len[o] /\ received[o] \in Nat /\ TakenOf(o) \in Nat
        /\ TakenOf(o) = received[o] - (rx_len[o] - rx_offset[o]) - m
        /\ buf[f] = [i \in 1 .. m |-> TakenOf(o) + i]
    BY ONLY Shape, StreamInv, f \in Files, pc[f] \in Reading, <1>1, ReaderOf
  <1>3. /\ rx_len \in [Objects -> 0 .. DataSize] /\ rx_offset \in [Objects -> 0 .. DataSize]
        /\ DataSize \in Nat
    BY SizesAssumption DEF Shape, RxShape
  <1>4. \A p \in Objects : p # o =>
           rx_data'[p] = rx_data[p] /\ rx_len'[p] = rx_len[p] /\ rx_offset'[p] = rx_offset[p]
    BY <1>1, <1>3
  <1>5. /\ rx_offset'[o] <= rx_len'[o]
        /\ rx_len'[o] - rx_offset'[o] = rx_len[o] - rx_offset[o]
        /\ \A i \in rx_offset'[o] + 1 .. rx_len'[o] : rx_data'[o][i] = received[o] - rx_len'[o] + i
    <2>1. CASE UNCHANGED <<rx_len, rx_offset>>
      BY <1>2, <2>1 DEF StreamInv, Buffered
    <2>2. CASE ~HasData(o) /\ rx_len' = [rx_len EXCEPT ![o] = 0]
                           /\ rx_offset' = [rx_offset EXCEPT ![o] = 0]
      <3>1. rx_len'[o] = 0 /\ rx_offset'[o] = 0
        BY <1>3, <2>2
      <3>2. rx_len[o] = rx_offset[o]
        BY <1>2, <1>3, <2>2 DEF HasData
      <3> QED
        BY <1>2, <1>3, <3>1, <3>2
    <2> QED
      BY <1>1, <2>1, <2>2
  <1> HIDE DEF m
  <1>6. rx_len'[o] - rx_offset'[o] = received[o] - TakenOf(o) - m
    BY <1>2, <1>3, <1>5
  <1>7. buf'[f] = [i \in 1 .. m |-> TakenOf(o) + i] /\ \A g \in Files : g # f => buf'[g] = buf[g]
    BY <1>2
  <1> QED
    BY <1>1, <1>2, <1>4, <1>5, <1>6, <1>7, ReadEnds

LEMMA EarlyEndStep ==
  ASSUME Shape, Shape', StreamInv, NEW f \in Files, CopyFaults(f) \/ TransferFails(f)
  PROVE  StreamInv' /\ Stream!Next
  BY EarlyEnd DEF CopyFaults, TransferFails, Reading

LEMMA NextPacketStep ==
  ASSUME Shape, Shape', StreamInv, NEW f \in Files, NextPacket(f)
  PROVE  StreamInv' /\ [Stream!Next]_(Stream!vars)
  <1>1. PICK o \in Objects : o = private_data[f]
    BY ReaderOf DEF NextPacket, Reading
  <1>2. /\ pc[f] = "reading" /\ pc[f] \in Reading /\ ~HasData(o)
        /\ rx_len' = [rx_len EXCEPT ![o] = 0] /\ rx_offset' = [rx_offset EXCEPT ![o] = 0]
        /\ UNCHANGED <<private_data, buf, rx_data, received>>
        /\ \/ UnlockRead(f)
           \/ pc' = [pc EXCEPT ![f] = "transfer"] /\ read_mutex' = read_mutex
    BY <1>1 DEF NextPacket, Reading, Goto
  <1>3. CASE UnlockRead(f)
    <2>1. StreamInv' /\ Stream!Next
      BY <1>1, <1>2, <1>3, EarlyEnd
    <2> QED
      BY <2>1
  <1>4. CASE pc' = [pc EXCEPT ![f] = "transfer"] /\ read_mutex' = read_mutex
    <2> DEFINE m == Len(buf[f])
    <2>1. /\ m \in Nat /\ rx_len[o] \in 0 .. DataSize /\ rx_offset[o] \in 0 .. DataSize
          /\ rx_offset[o] <= rx_len[o] /\ received[o] \in Nat /\ TakenOf(o) \in Nat
          /\ TakenOf(o) = received[o] - (rx_len[o] - rx_offset[o]) - m
          /\ buf[f] = [i \in 1 .. m |-> TakenOf(o) + i]
      BY <1>1, <1>2, ReaderOf
    <2>2. /\ rx_len \in [Objects -> 0 .. DataSize] /\ rx_offset \in [Objects -> 0 .. DataSize]
          /\ DataSize \in Nat /\ pc \in [Files -> KnowCdev \cup {"none", "wild"}]
      BY SizesAssumption DEF Shape, RxShape, FileShape
    <2>3. /\ \A p \in Objects : p # o =>
                rx_data'[p] = rx_data[p] /\ rx_len'[p] = rx_len[p] /\ rx_offset'[p] = rx_offset[p]
          /\ rx_len'[o] = 0 /\ rx_offset'[o] = 0
      BY <1>2, <2>2
    <2>4. rx_len[o] = rx_offset[o]
      BY <1>2, <2>1, <2>2 DEF HasData
    <2>5. pc'[f] \in Reading /\ \A g \in Files : g # f => pc'[g] = pc[g] /\ buf'[g] = buf[g]
      BY <1>2, <1>4, <2>2 DEF Reading
    <2>6. buf'[f] = [i \in 1 .. m |-> TakenOf(o) + i]
      BY <1>2, <2>1
    <2> HIDE DEF m
    <2>7. /\ rx_len'[o] - rx_offset'[o] = received[o] - TakenOf(o) - m
          /\ rx_offset'[o] <= rx_len'[o]
          /\ \A i \in rx_offset'[o] + 1 .. rx_len'[o] :
                rx_data'[o][i] = received[o] - rx_len'[o] + i
      BY <2>1, <2>2, <2>3, <2>4
    <2>8. StreamInv' /\ UNCHANGED Stream!vars
      <3>1. /\ private_data' = private_data /\ received' = received
            /\ read_mutex' = read_mutex /\ m \in Nat /\ pc[f] \in Reading
        BY <1>2, <1>4, <2>1
      <3> QED
        BY ONLY Shape, Shape', StreamInv, f \in Files, o \in Objects,
                <1>1, <2>3, <2>5, <2>6, <2>7, <3>1, ReadGoesOn
    <2> QED
      BY <2>8
  <1> QED
    BY <1>2, <1>3, <1>4

LEMMA PacketStep ==
  ASSUME Shape, Shape', StreamInv, NEW f \in Files, NEW n \in 0 .. DataSize, PacketArrives(f, n)
  PROVE  StreamInv' /\ [Stream!Next]_(Stream!vars)
  <1>1. PICK o \in Objects : o = private_data[f]
    BY ReaderOf DEF PacketArrives, Reading
  <1> DEFINE m == Len(buf[f])
             r == received[o]
  <1>2. /\ pc[f] = "transfer" /\ pc[f] \in Reading
        /\ received' = [received EXCEPT ![o] = @ + n]
        /\ rx_len' = [rx_len EXCEPT ![o] = n] /\ rx_offset' = rx_offset
        /\ rx_data' = [rx_data EXCEPT ![o] = Refilled(n, r, rx_data[o])]
        /\ UNCHANGED <<private_data, buf>>
        /\ \/ n = 0 /\ UnlockRead(f)
           \/ pc' = [pc EXCEPT ![f] = "reading"] /\ read_mutex' = read_mutex
    BY <1>1 DEF PacketArrives, Refilled, Reading, Goto
  <1>3. rx_len[o] = 0 /\ rx_offset[o] = 0
    BY <1>1, <1>2 DEF StreamInv, Buffered
  <1>4. /\ m \in Nat /\ r \in Nat /\ TakenOf(o) \in Nat /\ TakenOf(o) = r - m
        /\ buf[f] = [i \in 1 .. m |-> TakenOf(o) + i]
        /\ read_mutex[o] = f
    <2>1. /\ m \in Nat /\ r \in Nat /\ TakenOf(o) \in Nat
          /\ TakenOf(o) = r - (rx_len[o] - rx_offset[o]) - m
          /\ buf[f] = [i \in 1 .. m |-> TakenOf(o) + i] /\ read_mutex[o] = f
      BY <1>1, <1>2, ReaderOf
    <2> HIDE DEF m, r
    <2> QED
      BY <1>3, <2>1
  <1>5. /\ received \in [Objects -> Nat] /\ rx_len \in [Objects -> 0 .. DataSize]
        /\ rx_data \in [Objects -> [1 .. DataSize -> Nat]]
        /\ DataSize \in Nat /\ pc \in [Files -> KnowCdev \cup {"none", "wild"}]
    BY SizesAssumption DEF Shape, RxShape, FileShape
  <1>6. /\ received'[o] = r + n /\ rx_len'[o] = n /\ rx_offset'[o] = 0
        /\ \A i \in 1 .. n : rx_data'[o][i] = r + i
    <2>1. rx_data'[o] = Refilled(n, r, rx_data[o])
      BY <1>2, <1>5
    <2>2. rx_data[o] \in [1 .. DataSize -> Nat]
      BY <1>5
    <2>3. \A i \in 1 .. n : Refilled(n, r, rx_data[o])[i] = r + i
      BY <1>4, <2>2, RefilledOK
    <2> QED
      BY <1>2, <1>3, <1>5, <2>1, <2>3
  <1>7. \A p \in Objects : p # o => /\ rx_data'[p] = rx_data[p] /\ rx_len'[p] = rx_len[p]
                                   /\ rx_offset'[p] = rx_offset[p] /\ received'[p] = received[p]
    BY <1>2, <1>5
  <1>8. \A i \in rx_offset'[o] + 1 .. rx_len'[o] :
           rx_data'[o][i] = received'[o] - rx_len'[o] + i
    <2> HIDE DEF r
    <2> QED
      BY <1>4, <1>6, <1>5
  <1> HIDE DEF m, r
  <1>9. CASE n = 0 /\ UnlockRead(f)
    <2>1. received' = received
      BY <1>2, <1>5, <1>9
    <2>2. /\ rx_offset'[o] <= rx_len'[o]
          /\ rx_len'[o] - rx_offset'[o] = received[o] - TakenOf(o) - m
          /\ \A i \in rx_offset'[o] + 1 .. rx_len'[o] :
                rx_data'[o][i] = received[o] - rx_len'[o] + i
      BY <1>4, <1>6, <1>9 DEF r
    <2>3. /\ private_data' = private_data /\ m \in Nat /\ UnlockRead(f) /\ pc[f] \in Reading
          /\ \A g \in Files : g # f => buf'[g] = buf[g]
          /\ buf'[f] = [i \in 1 .. m |-> TakenOf(o) + i]
      BY <1>2, <1>4, <1>9
    <2>4. StreamInv' /\ Stream!Next
      BY ONLY Shape, Shape', StreamInv, f \in Files, o \in Objects,
              <1>1, <1>7, <2>1, <2>2, <2>3, ReadEnds
    <2> QED
      BY <2>4
  <1>10. CASE pc' = [pc EXCEPT ![f] = "reading"] /\ read_mutex' = read_mutex
    <2>1. TakenOf(o)' = TakenOf(o)
      <3>1. CopiedBy(o)' = m
        BY <1>2, <1>4, <1>10, FilesAssumption DEF CopiedBy, m
      <3>2. TakenOf(o)' = (r + n) - (n - 0) - m
        BY <1>6, <3>1 DEF TakenOf
      <3> QED
        BY <1>4, <1>5, <3>2
    <2>2. /\ pc'[f] = "reading"
          /\ \A g \in Files : g # f => pc'[g] = pc[g] /\ buf'[g] = buf[g]
      BY <1>2, <1>5, <1>10
    <2>3. StreamInv' /\ \A p \in Objects : p # o => TakenOf(p)' = TakenOf(p)
      <3>1. \A p \in Objects : p # o => Quiet(p)
        BY <1>7, <1>10 DEF Quiet
      <3>2. read_mutex[o] \in {f, NoFile} /\ read_mutex'[o] = IF pc'[f] \in Reading THEN f ELSE NoFile
        BY <1>4, <1>10, <2>2 DEF Reading
      <3>3. rx_offset'[o] <= rx_len'[o] /\ pc'[f] # "transfer" /\ TakenOf(o)' \in Nat
        BY <1>4, <1>5, <1>6, <2>1, <2>2
      <3>4. buf'[f] = [i \in 1 .. Len(buf'[f]) |-> TakenOf(o)' + i]
        BY <1>2, <1>4, <2>1 DEF m
      <3>5. private_data' = private_data
        BY <1>2
      <3> QED
        BY ONLY Shape, Shape', StreamInv, f \in Files, o \in Objects,
                <1>1, <1>8, <2>2, <3>1, <3>2, <3>3, <3>4, <3>5, ReaderMoves
    <2>4. \A p \in Objects : TakenOf(p)' = TakenOf(p)
      BY <2>1, <2>3
    <2>5. /\ \A g \in Files : (pc'[g] \in Holding <=> pc[g] \in Holding)
                             /\ (pc'[g] \in Reading <=> pc[g] \in Reading)
          /\ private_data' = private_data /\ buf' = buf
      BY <1>2, <2>2 DEF Holding, Reading
    <2>6. CASE n = 0
      <3>1. received' = received
        BY <1>2, <1>5, <2>6
      <3> QED
        BY <2>3, <2>4, <2>5, <3>1, MapStutter
    <2>7. CASE n > 0
      <3>1. received'[o] > received[o]
        BY <1>4, <1>6, <2>7 DEF r
      <3>2. received' = [received EXCEPT ![o] = received'[o]]
        BY <1>2, <1>5, <1>6
      <3>3. Stream!Next
        BY ONLY o \in Objects, <2>4, <2>5, <3>1, <3>2, MapReceive
      <3> QED
        BY <2>3, <3>3
    <2> QED
      BY <2>6, <2>7
  <1> QED
    BY <1>2, <1>9, <1>10

-----------------------------------------------------------------------------
(* Opening, closing and the USB core.                                      *)

\* A file that does not read, on objects that stay as they are.
LEMMA BystanderMoves ==
  ASSUME Shape, StreamInv, UNCHANGED rxVars, NEW f \in Files,
         pc[f] \notin Reading, pc'[f] \notin Reading,
         \A g \in Files : g # f =>
            pc'[g] = pc[g] /\ private_data'[g] = private_data[g] /\ buf'[g] = buf[g]
  PROVE  StreamInv' /\ (\A p \in Objects : TakenOf(p)' = TakenOf(p)) /\ received' = received
  <1>1. \A p \in Objects : Quiet(p)
    BY DEF rxVars, Quiet
  <1>2. received' = received
    BY DEF rxVars
  <1> QED
    BY <1>1, <1>2, NoReaderMoves

\* Other steps of a file that the stream does not show, or shows as the end of an answer.
LEMMA BystanderStep ==
  ASSUME Shape, StreamInv, NEW f \in Files, Lookup(f) \/ PutCdev(f) \/ Write(f) \/ Sent(f)
  PROVE  StreamInv' /\ [Stream!Next]_(Stream!vars)
  <1>1. /\ pc \in [Files -> KnowCdev \cup {"none", "wild"}] /\ buf \in [Files -> Seq(Nat)]
        /\ private_data \in [Files -> 0 .. born]
    BY DEF Shape, FileShape
  <1>2. CASE Lookup(f) \/ PutCdev(f) \/ Sent(f)
    <2>1. /\ UNCHANGED <<rxVars, buf>>
          /\ pc[f] \notin Reading /\ pc'[f] \notin Reading
          /\ \A g \in Files : g # f => pc'[g] = pc[g] /\ private_data'[g] = private_data[g]
          /\ pc[f] \in Holding <=> pc'[f] \in Holding
          /\ pc[f] \in Holding => private_data'[f] = private_data[f]
      BY <1>1, <1>2 DEF Lookup, PutCdev, Sent, Goto, Reading, Holding
    <2>2. StreamInv' /\ (\A p \in Objects : TakenOf(p)' = TakenOf(p)) /\ received' = received
      BY <2>1, BystanderMoves
    <2> QED
      BY <2>1, <2>2, MapStutter
  <1>3. CASE Write(f)
    <2>1. /\ UNCHANGED <<rxVars, private_data>> /\ pc[f] = "open"
          /\ pc'[f] = "sending" /\ buf'[f] = <<>>
          /\ \A g \in Files : g # f => pc'[g] = pc[g] /\ buf'[g] = buf[g]
      BY <1>1, <1>3 DEF Write, Goto
    <2>2. StreamInv' /\ (\A p \in Objects : TakenOf(p)' = TakenOf(p)) /\ received' = received
      BY <2>1, BystanderMoves DEF Reading
    <2>3. Stream!Next
      BY <2>1, <2>2, MapForget DEF Holding, Reading
    <2> QED
      BY <2>2, <2>3
  <1> QED
    BY <1>2, <1>3

LEMMA OpenStep ==
  ASSUME Shape, StreamInv, NEW f \in Files, Open(f)
  PROVE  StreamInv' /\ [Stream!Next]_(Stream!vars)
  <1>1. /\ pc \in [Files -> KnowCdev \cup {"none", "wild"}] /\ buf \in [Files -> Seq(Nat)]
        /\ private_data \in [Files -> 0 .. born]
    BY DEF Shape, FileShape
  <1>2. /\ UNCHANGED <<rxVars, private_data, buf>> /\ pc[f] = "looked"
        /\ pc'[f] \in {"open", "wild"}
        /\ \A g \in Files : g # f => pc'[g] = pc[g]
    BY <1>1 DEF Open, Goto
  <1>3. StreamInv' /\ (\A p \in Objects : TakenOf(p)' = TakenOf(p)) /\ received' = received
    BY <1>2, BystanderMoves DEF Reading
  <1>4. CASE pc'[f] = "wild"
    <2>1. /\ \A g \in Files : (pc'[g] \in Holding <=> pc[g] \in Holding)
                             /\ (pc'[g] \in Reading <=> pc[g] \in Reading)
      BY <1>2, <1>4 DEF Reading, Holding
    <2> QED
      BY <1>2, <1>3, <2>1, MapStutter
  <1>5. CASE pc'[f] = "open"
    <2>1. PICK o \in Objects : o = private_data[f]
      BY <1>2, SizesAssumption DEF Shape, FileShape, CoreShape, Objects
    <2>2. Taken' = Taken /\ Answer' = Answer
      BY <1>2, <1>3, <1>5 DEF Taken, Answer, Reading
    <2>3. Opened[f] = 0 /\ Opened' = [Opened EXCEPT ![f] = o]
      BY <1>2, <1>5, <2>1 DEF Opened, Holding, Reading
    <2>4. Stream!Open(f, o)
      BY <1>3, <2>2, <2>3 DEF Stream!Open, Opened, Answer, Taken, TakenOf
    <2> QED
      BY <1>3, <2>4 DEF Stream!Next
  <1> QED
    BY <1>2, <1>4, <1>5

\* kref_put leaves everything as it is, or clears the object, which nobody reads.
LEMMA PutClears ==
  ASSUME RxShape, NEW o \in Objects, KrefPut(o), read_mutex' = read_mutex,
         kref[o] = 1 => read_mutex[o] = NoFile
  PROVE  /\ \A p \in Objects : Quiet(p) \/ Cleared(p)
         /\ kref[o] # 1 => received' = received /\ \A p \in Objects : Quiet(p)
         /\ kref[o] = 1 => /\ received' = [received EXCEPT ![o] = 0]
                          /\ Cleared(o)
                          /\ \A p \in Objects : p # o => Quiet(p)
  <1>1. CASE kref[o] # 1
    <2>1. UNCHANGED <<rx_data, rx_len, rx_offset, received>>
      BY <1>1 DEF KrefPut
    <2> QED
      BY <1>1, <2>1 DEF Quiet
  <1>2. CASE kref[o] = 1
    <2> DEFINE blank == [i \in 1 .. DataSize |-> 0]
    <2>1. /\ rx_data' = [rx_data EXCEPT ![o] = blank]
          /\ rx_len' = [rx_len EXCEPT ![o] = 0]
          /\ rx_offset' = [rx_offset EXCEPT ![o] = 0]
          /\ received' = [received EXCEPT ![o] = 0]
      BY <1>2 DEF KrefPut
    <2> HIDE DEF blank
    <2>2. Cleared(o)
      BY <1>2, <2>1 DEF Cleared, RxShape
    <2>3. \A p \in Objects : p # o => Quiet(p)
      BY <2>1 DEF Quiet, RxShape
    <2> QED
      BY <1>2, <2>1, <2>2, <2>3
  <1> QED
    BY <1>1, <1>2

\* What the stream shows of it.
LEMMA PutTaken ==
  ASSUME Shape, StreamInv, NEW o \in Objects, KrefPut(o), read_mutex' = read_mutex,
         kref[o] = 1 => read_mutex[o] = NoFile,
         \A f \in Files : pc'[f] \in Reading <=> pc[f] \in Reading,
         \A f \in Files : pc[f] \in Reading =>
            pc'[f] = pc[f] /\ private_data'[f] = private_data[f] /\ buf'[f] = buf[f]
  PROVE  /\ StreamInv'
         /\ kref[o] # 1 => received' = received /\ Taken' = Taken
         /\ kref[o] = 1 => /\ received' = [received EXCEPT ![o] = 0]
                          /\ Taken' = [Taken EXCEPT ![o] = 0]
  <1>1. /\ \A p \in Objects : Quiet(p) \/ Cleared(p)
        /\ kref[o] # 1 => received' = received /\ \A p \in Objects : Quiet(p)
        /\ kref[o] = 1 => /\ received' = [received EXCEPT ![o] = 0]
                         /\ Cleared(o)
                         /\ \A p \in Objects : p # o => Quiet(p)
    BY PutClears DEF Shape
  <1>2. StreamInv' /\ \A p \in Objects : TakenOf(p)' = IF Quiet(p) THEN TakenOf(p) ELSE 0
    BY <1>1, NoReaderMoves
  <1>3. kref[o] # 1 => Taken' = Taken
    BY <1>1, <1>2 DEF Taken
  <1>4. ASSUME kref[o] = 1 PROVE Taken' = [Taken EXCEPT ![o] = 0]
    <2>1. TakenOf(o)' = 0
      BY <1>1, <1>4 DEF Cleared, TakenOf, CopiedBy
    <2>2. \A p \in Objects : p # o => TakenOf(p)' = TakenOf(p)
      BY <1>1, <1>2, <1>4
    <2> QED
      BY <2>1, <2>2 DEF Taken
  <1> QED
    BY <1>1, <1>2, <1>3, <1>4

LEMMA ReleaseStep ==
  ASSUME Shape, Counted, StreamInv, NEW f \in Files, Release(f)
  PROVE  StreamInv' /\ Stream!Next
  <1>1. PICK o \in Objects : o = private_data[f] /\ o # 0
    BY SizesAssumption DEF Release, Shape, FileShape, CoreShape, Objects
  <1>2. /\ pc \in [Files -> KnowCdev \cup {"none", "wild"}] /\ buf \in [Files -> Seq(Nat)]
        /\ \A p \in Objects : read_mutex[p] \in Files \cup {NoFile}
    BY DEF Shape, FileShape, RxShape
  <1>3. /\ pc[f] = "open" /\ pc'[f] = "closing" /\ buf'[f] = <<>>
        /\ \A g \in Files : g # f => pc'[g] = pc[g] /\ buf'[g] = buf[g]
        /\ UNCHANGED <<private_data, read_mutex>> /\ KrefPut(o)
    BY <1>1, <1>2 DEF Release, Goto
  <1>4. ASSUME kref[o] = 1, NEW g \in Files, pc[g] \in Holding, private_data[g] = o PROVE g = f
    <2>1. f \in Holders(o) /\ g \in Holders(o)
      BY <1>1, <1>3, <1>4 DEF Holders, Holding
    <2>2. IsFiniteSet(Holders(o)) /\ Cardinality(Holders(o)) \in Nat
      BY HoldersOK
    <2>3. Cardinality(Holders(o)) # 0
      BY <2>1, <2>2, FS_EmptySet
    <2>4. 1 = Cardinality(Holders(o)) + Bound(o) /\ Bound(o) \in Nat
      BY <1>4 DEF Counted, Bound
    <2>5. Cardinality(Holders(o)) = 1
      BY <2>2, <2>3, <2>4
    <2>6. PICK x : Holders(o) = {x}
      BY <2>2, <2>5, FS_Singleton
    <2> QED
      BY <2>1, <2>6
  <1>5. kref[o] = 1 => read_mutex[o] = NoFile
    <2>1. \A g \in Files : read_mutex[o] = g => pc[g] \in Reading /\ private_data[g] = o
      BY DEF StreamInv, Locked
    <2>2. \A g \in Files : read_mutex[o] = g => kref[o] # 1
      BY <1>3, <1>4, <2>1 DEF Reading, Holding
    <2> QED
      BY <1>2, <2>2
  <1>6. /\ \A g \in Files : pc'[g] \in Reading <=> pc[g] \in Reading
        /\ \A g \in Files : pc[g] \in Reading =>
              pc'[g] = pc[g] /\ private_data'[g] = private_data[g] /\ buf'[g] = buf[g]
    BY <1>3 DEF Reading
  <1>7. /\ StreamInv'
        /\ kref[o] # 1 => received' = received /\ Taken' = Taken
        /\ kref[o] = 1 => /\ received' = [received EXCEPT ![o] = 0]
                         /\ Taken' = [Taken EXCEPT ![o] = 0]
    BY <1>3, <1>5, <1>6, PutTaken
  <1>8. Opened[f] = o /\ Opened' = [Opened EXCEPT ![f] = 0]
    BY <1>1, <1>3 DEF Opened, Holding, Reading
  <1>9. Answer' = [Answer EXCEPT ![f] = <<>>]
    BY <1>3 DEF Answer, Reading
  <1>10. kref[o] = 1 => \A g \in Files : Opened'[g] # o
    BY <1>1, <1>3, <1>4 DEF Opened, Holding, Reading
  <1>11. Stream!Close(f)
    <2>1. /\ Opened[f] # 0
          /\ Opened' = [Opened EXCEPT ![f] = 0]
          /\ Answer' = [Answer EXCEPT ![f] = <<>>]
          /\ \/ UNCHANGED <<received, Taken>>
             \/ /\ received' = [received EXCEPT ![Opened[f]] = 0]
                /\ Taken' = [Taken EXCEPT ![Opened[f]] = 0]
                /\ \A g \in Files : Opened'[g] # Opened[f]
      BY <1>1, <1>7, <1>8, <1>9, <1>10
    <2> QED
      BY ONLY <2>1 DEF Stream!Close, Stream!Gone, Opened, Answer, Taken, TakenOf
  <1> QED
    BY <1>7, <1>11 DEF Stream!Next

LEMMA FinishStep ==
  ASSUME Shape, Counted, StreamInv, Finish
  PROVE  StreamInv' /\ [Stream!Next]_(Stream!vars)
  <1>1. /\ KrefPut(cur) /\ UNCHANGED <<read_mutex, fileVars>> /\ core # "idle"
    BY DEF Finish
  <1>2. PICK o \in Objects : o = cur /\ o # 0
    BY <1>1, SizesAssumption DEF Shape, CoreShape, Objects
  <1>3. ASSUME kref[o] = 1 PROVE Holders(o) = {}
    <2>1. IsFiniteSet(Holders(o)) /\ Cardinality(Holders(o)) \in Nat
      BY HoldersOK
    <2>2. 1 = Cardinality(Holders(o)) + 1
      BY <1>2, <1>3 DEF Counted, Bound
    <2> QED
      BY <2>1, <2>2, FS_EmptySet
  <1>4. kref[o] = 1 => read_mutex[o] = NoFile
    <2>1. \A g \in Files : read_mutex[o] = g => g \in Holders(o)
      BY DEF StreamInv, Locked, Holders, Holding
    <2>2. read_mutex[o] \in Files \cup {NoFile}
      BY DEF Shape, RxShape
    <2> QED
      BY <1>3, <2>1, <2>2
  <1>5. UNCHANGED <<pc, private_data, buf, read_mutex>>
    BY <1>1 DEF fileVars
  <1>6. /\ StreamInv'
        /\ kref[o] # 1 => received' = received /\ Taken' = Taken
        /\ kref[o] = 1 => /\ received' = [received EXCEPT ![o] = 0]
                         /\ Taken' = [Taken EXCEPT ![o] = 0]
    BY <1>1, <1>2, <1>4, <1>5, PutTaken
  <1>7. Opened' = Opened /\ Answer' = Answer
    BY <1>5 DEF Opened, Answer
  <1>8. CASE kref[o] # 1
    <2>1. UNCHANGED <<received, Taken, Answer, Opened>>
      BY <1>6, <1>7, <1>8
    <2>2. UNCHANGED Stream!vars
      BY ONLY <2>1 DEF Stream!vars, Opened, Answer, Taken, TakenOf
    <2> QED
      BY <1>6, <2>2
  <1>9. CASE kref[o] = 1
    <2>1. \A g \in Files : Opened[g] # o
      BY <1>2, <1>3, <1>9 DEF Opened, Holders
    <2>2. received' = [received EXCEPT ![o] = 0] /\ Taken' = [Taken EXCEPT ![o] = 0]
      BY <1>6, <1>9
    <2>3. Stream!Vanish(o)
      BY ONLY <1>7, <2>1, <2>2 DEF Stream!Vanish, Stream!Gone, Opened, Answer, Taken, TakenOf
    <2> QED
      BY <1>6, <2>3 DEF Stream!Next
  <1> QED
    BY <1>8, <1>9

-----------------------------------------------------------------------------
(* The theorem.                                                            *)

LEMMA StreamOpens == Init => Stream!Init
  <1> SUFFICES ASSUME Init PROVE Stream!Init
    OBVIOUS
  <1>1. received = [o \in Objects |-> 0]
    BY DEF Init
  <1>2. Taken = [o \in Objects |-> 0]
    BY DEF Init, Taken, TakenOf, CopiedBy
  <1>3. Answer = [f \in Files |-> <<>>] /\ Opened = [f \in Files |-> 0]
    BY DEF Init, Answer, Opened, Holding, Reading
  <1> QED
    BY ONLY <1>1, <1>2, <1>3 DEF Stream!Init, Opened, Answer, Taken, TakenOf

LEMMA StreamStep ==
  ASSUME Shape, Shape', Counted, StreamInv, [Next]_vars
  PROVE  StreamInv' /\ [Stream!Next]_(Stream!vars)
  <1>1. ASSUME NEW f \in Files, FileStep(f) PROVE StreamInv' /\ [Stream!Next]_(Stream!vars)
    BY <1>1, BystanderStep, OpenStep, ReleaseStep, LockReadStep, CopyStep, EarlyEndStep,
       NextPacketStep, PacketStep DEF FileStep, ReadStep
  <1>2. CASE Finish
    BY <1>2, FinishStep
  <1>3. CASE Probe \/ Register \/ Detach \/ Undo \/ AttributeStep \/ UNCHANGED vars
    <2>1. UNCHANGED <<pc, private_data, buf, rxVars>>
      BY <1>3 DEF Probe, Register, Detach, Undo, AttributeStep, EnterAttribute, UseCarrier, vars,
                  fileVars
    <2>2. (\A p \in Objects : Quiet(p)) /\ received' = received
      BY <2>1 DEF Quiet, rxVars
    <2>3. StreamInv' /\ \A p \in Objects : TakenOf(p)' = TakenOf(p)
      BY <2>1, <2>2, NoReaderMoves
    <2> QED
      BY <2>1, <2>2, <2>3, MapStutter
  <1> QED
    BY <1>1, <1>2, <1>3 DEF Next, UsbCore

\* The reads of all the files of a device return its bytes once and in order, each call a
\* piece of its own: ir.c implements ByteStream, for any files, counts, packets and devices.
THEOREM StreamRefinement == Spec => ImplementsStream
  <1>1. Init => StreamInv
    BY StreamInit
  <1>2. Shape /\ Counted /\ Shape' /\ StreamInv /\ [Next]_vars => StreamInv'
    BY StreamStep
  <1>3. Shape /\ Counted /\ Shape' /\ StreamInv /\ [Next]_vars => [Stream!Next]_(Stream!vars)
    BY StreamStep
  <1> QED
    BY <1>1, <1>2, <1>3, StreamOpens, CountInvariant, PTL
       DEF Spec, ImplementsStream, Stream!Spec
=============================================================================
