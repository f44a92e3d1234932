------------------------------ MODULE IrDriver ------------------------------
(***************************************************************************)
(* The USB driver of the device (ir.c): probe and disconnect, the files    *)
(* that are open on /dev/devtitans_ir, and the carrier attribute the HAL   *)
(* reads and writes, in every interleaving.                                *)
(*                                                                         *)
(* Each probe allocates a devtitans_ir_device, counted by a kref: one      *)
(* reference is the interface's, one each open file's.  The object         *)
(* outlives disconnect as long as a file is open, and a device that comes  *)
(* back gets an object of its own.                                         *)
(*                                                                         *)
(* Abstracted: the control messages of ir_ftdi_configure are one step that *)
(* succeeds or fails; the bytes of a device are numbered as they arrive,   *)
(* and a status byte is Status; kmalloc, memdup_user and calls with a      *)
(* count of zero return before they touch anything.  A write sends one     *)
(* transfer and keeps nothing, so its bytes are left out, and so is the    *)
(* value of the carrier.  What the kernel does around the driver           *)
(* (chrdev_open, __fput, kernfs, the USB core) is external.                *)
(***************************************************************************)
EXTENDS Naturals, Sequences, FiniteSets, Functions

CONSTANTS Files,       \* struct file's
          NoFile,      \* a mutex nobody holds
          DataSize,    \* FTDI_PACKET_SIZE - FTDI_STATUS_SIZE, 62
          Count,       \* [Files -> the count its user reads with]
          MaxObjects,  \* bound on the devices probed
          MaxBytes     \* bound on the bytes the devices receive

ASSUME FilesAssumption == NoFile \notin Files /\ IsFiniteSet(Files)
ASSUME SizesAssumption == /\ DataSize \in Nat \ {0}
                          /\ Count \in [Files -> Nat \ {0}]
                          /\ MaxObjects \in Nat
                          /\ MaxBytes \in Nat

Objects == 1 .. MaxObjects

\* A modem or line status byte: no number of a byte of data.
Status == 0

VARIABLES
  core,          \* what the USB core is in the middle of
  pos,           \* the step of that it takes next
  cur,           \* the object of the interface, or 0
  made,          \* what of it is registered
  born,          \* how many objects have been allocated
  freed,         \* those ir_delete has freed
  kref,          \* [Objects -> Nat]
  disconnected,  \* [Objects -> BOOLEAN]
  read_mutex,    \* [Objects -> its holder, or NoFile]
  write_mutex,   \* [Objects -> its holder, or NoFile]
  rx_data,       \* [Objects -> the data of the last packet, and what is left of others]
  rx_len,        \* [Objects -> Nat]
  rx_offset,     \* [Objects -> Nat]
  received,      \* [Objects -> history: how many bytes it has received]
  pc,            \* [Files -> where its user is]
  private_data,  \* [Files -> its object, or 0]
  buf,           \* [Files -> the user's buffer]
  attr           \* where the HAL's access to the carrier attribute is

coreVars == <<core, pos, made, born, disconnected>>
kobjVars == <<cur, freed, kref>>
rxVars   == <<read_mutex, rx_data, rx_len, rx_offset, received>>
fileVars == <<pc, private_data, buf>>
vars == <<coreVars, kobjVars, rxVars, write_mutex, fileVars, attr>>

-----------------------------------------------------------------------------
\* What probe registers, in its order; the labels of its error path; disconnect's order.
ProbeSteps == <<"drvdata", "attribute", "region", "cdev", "node">>

RollbackStepsSlip == <<"cdev", "attribute", "region", "drvdata">>
RollbackSteps == <<"cdev", "region", "attribute", "drvdata">>

DisconnectSteps == <<"drvdata", "node", "cdev", "region", "attribute">>

Resources == {ProbeSteps[i] : i \in DOMAIN ProbeSteps}

\* Where the error path is entered when the i-th step of probe fails.
ErrorLabel(i) == Len(ProbeSteps) + 1 - i

Undoing == IF core = "rollback" THEN RollbackSteps ELSE DisconnectSteps

\* Where the user of a file is: in a read with the mutex, with a reference to the
\* object, with one to its cdev.
Reading  == {"reading", "transfer"}
Holding  == Reading \cup {"open", "sending"}
KnowCdev == Holding \cup {"looked", "closing"}

Holders(o) == {f \in Files : pc[f] \in Holding /\ private_data[f] = o}

Init ==
  /\ core = "idle" /\ pos = 1 /\ cur = 0 /\ made = {}
  /\ born = 0 /\ freed = {}
  /\ kref = [o \in Objects |-> 0]
  /\ disconnected = [o \in Objects |-> FALSE]
  /\ read_mutex = [o \in Objects |-> NoFile]
  /\ write_mutex = [o \in Objects |-> NoFile]
  /\ rx_data = [o \in Objects |-> [i \in 1 .. DataSize |-> 0]]
  /\ rx_len = [o \in Objects |-> 0]
  /\ rx_offset = [o \in Objects |-> 0]
  /\ received = [o \in Objects |-> 0]
  /\ pc = [f \in Files |-> "none"]
  /\ private_data = [f \in Files |-> 0]
  /\ buf = [f \in Files |-> <<>>]
  /\ attr = "idle"

-----------------------------------------------------------------------------
(* Reference counting.                                                     *)

KrefGetSlip(o) == UNCHANGED <<kref, freed>>
KrefGet(o) ==
  /\ kref' = [kref EXCEPT ![o] = @ + 1]
  /\ UNCHANGED freed

\* kref_put with ir_delete; what a freed object held is gone.
KrefPutSlip(o) ==
  /\ kref' = [kref EXCEPT ![o] = @ - 1]
  /\ UNCHANGED <<freed, rxVars>>
KrefPut(o) ==
  /\ kref' = [kref EXCEPT ![o] = @ - 1]
  /\ IF kref[o] = 1
       THEN /\ freed' = freed \cup {o}
            /\ rx_data' = [rx_data EXCEPT ![o] = [i \in 1 .. DataSize |-> 0]]
            /\ rx_len' = [rx_len EXCEPT ![o] = 0]
            /\ rx_offset' = [rx_offset EXCEPT ![o] = 0]
            /\ received' = [received EXCEPT ![o] = 0]
       ELSE UNCHANGED <<freed, rx_data, rx_len, rx_offset, received>>

-----------------------------------------------------------------------------
(* The USB core: probe and disconnect.                                     *)

\* The device is there, perhaps again, and the driver is bound to it: the object gets its
\* first reference, the endpoints are looked at and the FT232 is set up.  A failure goes
\* to err_put.
Probe ==
  /\ core = "idle" /\ cur = 0
  /\ born < MaxObjects
  /\ born' = born + 1
  /\ cur' = born'
  /\ kref' = [kref EXCEPT ![born'] = 1]
  /\ \/ core' = "probe" /\ UNCHANGED pos
     \/ core' = "rollback" /\ pos' = Len(RollbackSteps) + 1
  /\ UNCHANGED <<made, disconnected, freed, rxVars, write_mutex, fileVars, attr>>

\* One registration of probe; only the driver data cannot fail.
Register ==
  /\ core = "probe"
  /\ \/ /\ made' = made \cup {ProbeSteps[pos]}
        /\ IF pos < Len(ProbeSteps)
             THEN pos' = pos + 1 /\ UNCHANGED core
             ELSE pos' = 1 /\ core' = "idle"
     \/ /\ ProbeSteps[pos] # "drvdata"
        /\ core' = "rollback"
        /\ pos' = ErrorLabel(pos)
        /\ UNCHANGED made
  /\ UNCHANGED <<born, disconnected, kobjVars, rxVars, write_mutex,
                 fileVars, attr>>

\* The driver is unbound, or the device is gone: the USB core stops the endpoints and
\* calls disconnect, which marks the object first.
Detach ==
  /\ core = "idle" /\ cur # 0
  /\ core' = "disconnect"
  /\ pos' = 1
  /\ disconnected' = [disconnected EXCEPT ![cur] = TRUE]
  /\ UNCHANGED <<made, born, kobjVars, rxVars, write_mutex, fileVars, attr>>

\* device_remove_file waits for the show or store under way.
DrainedSlip(r) == r = "cdev" => Holders(cur) = {}
Drained(r) == r = "attribute" => attr = "idle"

\* One step of the error path or of disconnect.
Undo ==
  /\ core \in {"rollback", "disconnect"}
  /\ pos <= Len(Undoing)
  /\ Drained(Undoing[pos])
  /\ made' = made \ {Undoing[pos]}
  /\ pos' = pos + 1
  /\ UNCHANGED <<core, born, disconnected, kobjVars, rxVars, write_mutex,
                 fileVars, attr>>

\* err_put and the end of disconnect.
Finish ==
  /\ core \in {"rollback", "disconnect"}
  /\ pos = Len(Undoing) + 1
  /\ KrefPut(cur)
  /\ cur' = 0
  /\ core' = "idle"
  /\ pos' = 1
  /\ UNCHANGED <<made, born, disconnected, read_mutex, write_mutex, fileVars, attr>>

-----------------------------------------------------------------------------
(* Opening and closing the file.                                           *)

Goto(f, place) == pc' = [pc EXCEPT ![f] = place]

\* chrdev_open takes a reference to a cdev: the one registered for the number, or the one
\* the inode remembers while somebody has it open.
Lookup(f) ==
  /\ pc[f] = "none"
  /\ \E o \in 1 .. born :
        /\ \/ o = cur /\ "cdev" \in made
           \/ \E g \in Files : pc[g] \in KnowCdev /\ private_data[g] = o
        /\ private_data' = [private_data EXCEPT ![f] = o]
  /\ Goto(f, "looked")
  /\ UNCHANGED <<buf, coreVars, kobjVars, rxVars, write_mutex, attr>>

\* ir_open.  An open that finds its object freed has no defined outcome: it is not
\* followed any further.
Open(f) ==
  /\ pc[f] = "looked"
  /\ IF private_data[f] \in freed
       THEN Goto(f, "wild") /\ UNCHANGED <<kref, freed>>
       ELSE Goto(f, "open") /\ KrefGet(private_data[f])
  /\ UNCHANGED <<cur, private_data, buf, coreVars, rxVars, write_mutex, attr>>

\* The last close, first half: ir_release.
Release(f) ==
  /\ pc[f] = "open"
  /\ KrefPut(private_data[f])
  /\ Goto(f, "closing")
  /\ buf' = [buf EXCEPT ![f] = <<>>]
  /\ UNCHANGED <<cur, private_data, coreVars, read_mutex, write_mutex, attr>>

\* Second half: __fput gives up its reference to the cdev.
PutCdev(f) ==
  /\ pc[f] = "closing"
  /\ Goto(f, "none")
  /\ private_data' = [private_data EXCEPT ![f] = 0]
  /\ UNCHANGED <<buf, coreVars, kobjVars, rxVars, write_mutex, attr>>

-----------------------------------------------------------------------------
(* Reading.                                                                *)

\* A call that waits for the mutex is as good as one that has not begun.
LockRead(f) ==
  /\ pc[f] = "open"
  /\ read_mutex[private_data[f]] = NoFile
  /\ read_mutex' = [read_mutex EXCEPT ![private_data[f]] = f]
  /\ Goto(f, "reading")
  /\ buf' = [buf EXCEPT ![f] = <<>>]
  /\ UNCHANGED <<private_data, coreVars, kobjVars, rx_data, rx_len, rx_offset, received,
                 write_mutex, attr>>

\* The mutex is given back; the call returns what is in buf, or an error when that is nothing.
UnlockRead(f) ==
  /\ read_mutex' = [read_mutex EXCEPT ![private_data[f]] = NoFile]
  /\ Goto(f, "open")

HasData(o)    == rx_offset[o] < rx_len[o]
Smaller(a, b) == IF a < b THEN a ELSE b

Take(f, o) == Smaller(Count[f] - Len(buf[f]), rx_len[o] - rx_offset[o])

\* copy_to_user of what is left of the last packet; the loop ends with count bytes.
Copy(f) ==
  LET o == private_data[f]
      n == Take(f, o)
  IN
  /\ pc[f] = "reading" /\ HasData(o)
  /\ buf' = [buf EXCEPT ![f] = @ \o SubSeq(rx_data[o], rx_offset[o] + 1, rx_offset[o] + n)]
  /\ rx_offset' = [rx_offset EXCEPT ![o] = @ + n]
  /\ IF Len(buf[f]) + n < Count[f]
       THEN UNCHANGED <<pc, read_mutex>>
       ELSE UnlockRead(f)
  /\ UNCHANGED <<private_data, coreVars, kobjVars, rx_data, rx_len, received, write_mutex,
                 attr>>

\* It faults: what it may have copied is not counted, and stays for the next call.
CopyFaults(f) ==
  /\ pc[f] = "reading" /\ HasData(private_data[f])
  /\ UnlockRead(f)
  /\ UNCHANGED <<private_data, buf, coreVars, kobjVars, rx_data, rx_len, rx_offset,
                 received, write_mutex, attr>>

IsGoneSlip(o) == FALSE
IsGone(o) == disconnected[o]

\* Nothing is left: look whether the device is still there before asking it for more.
NextPacket(f) ==
  LET o == private_data[f] IN
  /\ pc[f] = "reading" /\ ~HasData(o)
  /\ rx_len' = [rx_len EXCEPT ![o] = 0]
  /\ rx_offset' = [rx_offset EXCEPT ![o] = 0]
  /\ IF IsGone(o)
       THEN UnlockRead(f)
       ELSE Goto(f, "transfer") /\ UNCHANGED <<read_mutex>>
  /\ UNCHANGED <<private_data, buf, coreVars, kobjVars, rx_data, received, write_mutex,
                 attr>>

\* usb_bulk_msg returns a packet of two status bytes and n of data.  The USB core stops
\* the endpoints while it disconnects; before and after, even a reader whose object is no
\* longer the interface's may get one.
StripSlip(packet, n) == SubSeq(packet, 2, n + 1)
Strip(packet, n) == SubSeq(packet, 3, n + 2)

PacketArrives(f, n) ==
  LET o == private_data[f]
      packet == <<Status, Status>> \o [i \in 1 .. n |-> received[o] + i]
  IN
  /\ pc[f] = "transfer"
  /\ core # "disconnect"
  /\ n <= MaxBytes - FoldFunction(+, 0, received)
  /\ received' = [received EXCEPT ![o] = @ + n]
  /\ rx_len' = [rx_len EXCEPT ![o] = n]
  /\ rx_data' = [rx_data EXCEPT ![o] = Strip(packet, n) \o SubSeq(@, n + 1, DataSize)]
  /\ IF n = 0 /\ buf[f] # <<>>
       THEN UnlockRead(f)
       ELSE Goto(f, "reading") /\ UNCHANGED <<read_mutex>>
  /\ UNCHANGED <<private_data, buf, coreVars, kobjVars, rx_offset, write_mutex, attr>>

\* A timeout, an error, a packet without its status, or the endpoint is stopped.
TransferFails(f) ==
  /\ pc[f] = "transfer"
  /\ UnlockRead(f)
  /\ UNCHANGED <<private_data, buf, coreVars, kobjVars, rx_data, rx_len, rx_offset,
                 received, write_mutex, attr>>

-----------------------------------------------------------------------------
(* Writing.                                                                *)

\* The packet is copied, the mutex taken, and the device still there.
Write(f) ==
  LET o == private_data[f] IN
  /\ pc[f] = "open"
  /\ write_mutex[o] = NoFile
  /\ ~IsGone(o)
  /\ Goto(f, "sending")
  /\ write_mutex' = [write_mutex EXCEPT ![o] = f]
  /\ buf' = [buf EXCEPT ![f] = <<>>]
  /\ UNCHANGED <<private_data, coreVars, kobjVars, rxVars, attr>>

\* usb_bulk_msg ends, in whatever way, and the mutex is given back.
Sent(f) ==
  /\ pc[f] = "sending"
  /\ write_mutex' = [write_mutex EXCEPT ![private_data[f]] = NoFile]
  /\ Goto(f, "open")
  /\ UNCHANGED <<private_data, buf, coreVars, kobjVars, rxVars, attr>>

-----------------------------------------------------------------------------
(* The carrier attribute, through which the HAL's readSysfsCarrier and     *)
(* writeSysfsCarrier go one at a time, under mLock.                        *)

\* device_remove_file lets no new access in.
Removing == /\ core \in {"rollback", "disconnect"}
            /\ pos <= Len(Undoing)
            /\ Undoing[pos] = "attribute"

EnterAttribute ==
  /\ attr = "idle"
  /\ "attribute" \in made /\ ~Removing
  /\ attr' = "active"
  /\ UNCHANGED <<coreVars, kobjVars, rxVars, write_mutex, fileVars>>

\* carrier_show and carrier_store use what dev_get_drvdata returns; without driver data
\* that is NULL, and the process dies inside.
UseCarrier ==
  /\ attr = "active"
  /\ attr' = IF "drvdata" \in made THEN "idle" ELSE "dead"
  /\ UNCHANGED <<coreVars, kobjVars, rxVars, write_mutex, fileVars>>

-----------------------------------------------------------------------------
UsbCore == Probe \/ Register \/ Detach \/ Undo \/ Finish

ReadStep(f) ==
  \/ Copy(f) \/ CopyFaults(f) \/ NextPacket(f) \/ TransferFails(f)
  \/ \E n \in 0 .. DataSize : PacketArrives(f, n)

FileStep(f) ==
  \/ Lookup(f) \/ Open(f) \/ Release(f) \/ PutCdev(f)
  \/ LockRead(f) \/ ReadStep(f)
  \/ Write(f) \/ Sent(f)

AttributeStep == EnterAttribute \/ UseCarrier

Next == UsbCore \/ (\E f \in Files : FileStep(f)) \/ AttributeStep

(***************************************************************************)
(* The hub thread and a call go on with what they have begun, and a        *)
(* transfer ends, for it has a second.  Nobody need open, close, read or   *)
(* write.                                                                  *)
(***************************************************************************)
Fairness ==
  /\ WF_vars(Register) /\ WF_vars(Undo) /\ WF_vars(Finish)
  /\ WF_vars(UseCarrier)
  /\ \A f \in Files : /\ WF_vars(ReadStep(f)) /\ WF_vars(Sent(f))

Spec == Init /\ [][Next]_vars /\ Fairness
-----------------------------------------------------------------------------
(* Properties.                                                             *)

TypeOK ==
  /\ core \in {"idle", "probe", "rollback", "disconnect"}
  /\ pos \in 1 .. Len(ProbeSteps) + 1
  /\ made \subseteq Resources
  /\ born \in 0 .. MaxObjects
  /\ cur \in {0, born}
  /\ freed \subseteq 1 .. born
  /\ kref \in [Objects -> Nat]
  /\ disconnected \in [Objects -> BOOLEAN]
  /\ read_mutex \in [Objects -> Files \cup {NoFile}]
  /\ write_mutex \in [Objects -> Files \cup {NoFile}]
  /\ rx_data \in [Objects -> [1 .. DataSize -> Nat]]
  /\ rx_len \in [Objects -> 0 .. DataSize]
  /\ rx_offset \in [Objects -> 0 .. DataSize]
  /\ received \in [Objects -> Nat]
  /\ pc \in [Files -> KnowCdev \cup {"none", "wild"}]
  /\ private_data \in [Files -> 0 .. born]
  /\ buf \in [Files -> Seq(Nat)]
  /\ attr \in {"idle", "active", "dead"}

\* "Open file descriptors keep the object and usb_device reference alive" (ir_disconnect):
\* no call on a file works on a freed object, however it races a disconnect, a failed
\* probe, or the other file's open and close.
OpenFilesKeepObject == \A f \in Files : pc[f] \in Holding => private_data[f] \notin freed

\* Each path out of probe, disconnect and release puts what it got: an object that is
\* neither bound nor open is freed.
NothingLeaks == \A o \in 1 .. born : o \in freed \/ o = cur \/ Holders(o) # {}

\* However far probe got when it failed, and after disconnect, nothing is registered; a
\* bound interface has everything.
AllOrNothing == core = "idle" => made = IF cur = 0 THEN {} ELSE Resources

\* The reads of all the files of a device together return its bytes, each one once, in
\* order, without the status of the packets, and each call's bytes in one piece: across
\* packets, faults of the user's buffer, timeouts, errors and disconnect.
CopiedBy(o) == IF read_mutex[o] = NoFile THEN 0 ELSE Len(buf[read_mutex[o]])

Stream == INSTANCE ByteStream WITH
  Devices  <- Objects,
  NoDevice <- 0,
  taken    <- [o \in Objects |-> received[o] - (rx_len[o] - rx_offset[o]) - CopiedBy(o)],
  answer   <- [f \in Files |-> IF pc[f] \in Reading THEN <<>> ELSE buf[f]],
  opened   <- [f \in Files |-> IF pc[f] \in Holding THEN private_data[f] ELSE 0]

ImplementsStream == Stream!Spec

\* Every read of a device that has gone returns and gives up the mutex, whatever it was
\* doing, so those that wait for it have their turn.
ReadEndsWhenGone ==
  \A f \in Files :
     (pc[f] \in Reading /\ disconnected[private_data[f]]) ~> pc[f] \notin Reading

\* disconnect ends, whatever the files do, unless an access to the attribute died when it
\* found no driver data: disconnect clears them before it takes the attribute away.
DisconnectEnds == core = "disconnect" ~> (cur = 0 \/ attr = "dead")

=============================================================================
