---------------------------- MODULE IrHalProofs ----------------------------
(***************************************************************************)
(* What IrHal guarantees for any binder threads and commands, any range of *)
(* sequence numbers and any number of calls and restarts.                  *)
(***************************************************************************)
EXTENDS IrHal, FiniteSetTheorems, SequenceTheorems, TLAPS

-----------------------------------------------------------------------------
(* The inductive invariant.                                                *)

\* The calls that wait are within the bound.
Counted == calls + Cardinality(Waiting) <= MaxCalls

\* A thread past mLock holds it, so there is one.
Held ==
  \A c \in Clients : pc[c] \in {"open", "write", "loop", "parse", "read", "unlock"} <=> lock = c

\* The request of the exchange under way carries the last number drawn.
CurrentRequest ==
  /\ lock = NoClient => current = NoRequest
  /\ \A c \in Clients :
        /\ pc[c] = "open" => current = NoRequest /\ calls >= 1
        /\ pc[c] \in {"write", "loop", "parse", "read"} => current # NoRequest
        /\ answer[c] # NoAnswer =>
              pc[c] = "unlock" /\ current # NoRequest /\ Matches(answer[c].request)
  /\ current # NoRequest => /\ current.id = calls
                            /\ current.seq = mSequence
                            /\ current.life = life

\* The calls that have drawn a number, or tried to.
Drawn == IF \E c \in Clients : pc[c] = "open" THEN calls - 1 ELSE calls

\* A request of this life is the current one, or k numbers have been drawn since, at most one
\* per call.
Numbered(r) ==
  /\ r \in Requests
  /\ r.life <= life
  /\ r.id <= Drawn
  /\ r.life = life =>
       \/ r = current
       \/ \E k \in 0 .. Drawn - r.id, turns \in Nat :
            /\ r.seq + k = mSequence + turns * SeqModulus
            /\ current # NoRequest => k >= 1

\* The requests that may still be answered with success, and those that have been.
IntactOf(q) == {q[i].request : i \in {j \in DOMAIN q : q[j].intact}}
OkOf(q)     == {q[i].request : i \in {j \in DOMAIN q : q[j].status = "OK"}}
InTransit   == IntactOf(toDevice) \cup ({serving} \ {NoRequest}) \cup OkOf(toHost)
               \cup OkOf(rxBuffer) \cup OkOf(answer)

AllNumbered == \A r \in InTransit : Numbered(r)

HalInv == TypeOK /\ Counted /\ Held /\ CurrentRequest /\ AllNumbered

-----------------------------------------------------------------------------
\* Neither NoRequest nor NoAnswer is one that was made.
LEMMA Nothing ==
  /\ NoRequest \notin Requests /\ NoAnswer \notin Answers
  /\ \A a \in Answers : a.request \in Requests /\ a.status \in Statuses
  /\ NoAnswer.status # "OK"
  BY DEF NoRequest, NoAnswer, Requests, Answers, Request, Statuses

LEMMA RemoveKeeps ==
  ASSUME NEW S, NEW q \in Seq(S), NEW i \in 1 .. Len(q)
  PROVE  /\ RemoveAt(q, i) \in Seq(S)
         /\ \A j \in DOMAIN RemoveAt(q, i) : \E k \in DOMAIN q : RemoveAt(q, i)[j] = q[k]
  <1> DEFINE a == SubSeq(q, 1, i - 1)
             b == SubSeq(q, i + 1, Len(q))
  <1>0. i \in Nat /\ Len(q) \in Nat /\ 1 <= i /\ i <= Len(q)
    OBVIOUS
  <1>1. a \in Seq(S) /\ Len(a) = i - 1 /\ \A j \in 1 .. i - 1 : a[j] = q[j]
    OBVIOUS
  <1>2. b \in Seq(S) /\ Len(b) = Len(q) - i /\ \A j \in 1 .. Len(q) - i : b[j] = q[i + j]
    OBVIOUS
  <1>3. RemoveAt(q, i) = a \o b
    BY DEF RemoveAt
  <1> HIDE DEF a, b
  <1>3a. a \o b \in Seq(S) /\ Len(a \o b) = Len(a) + Len(b)
    BY <1>1, <1>2, ConcatProperties
  <1>4. a \o b \in Seq(S) /\ Len(a \o b) = Len(q) - 1
    BY <1>0, <1>1, <1>2, <1>3a
  <1>5. \A j \in 1 .. Len(q) - 1 : (a \o b)[j] = IF j <= i - 1 THEN a[j] ELSE b[j - (i - 1)]
    BY <1>1, <1>2
  <1>6. \A j \in 1 .. Len(q) - 1 : (a \o b)[j] = q[IF j <= i - 1 THEN j ELSE j + 1]
    BY <1>1, <1>2, <1>5
  <1>7. DOMAIN (a \o b) = 1 .. Len(q) - 1 /\ DOMAIN q = 1 .. Len(q)
    BY <1>4
  <1>8. \A j \in 1 .. Len(q) - 1 : j \in 1 .. Len(q) /\ j + 1 \in 1 .. Len(q)
    BY <1>0
  <1>9. \A j \in DOMAIN (a \o b) : \E k \in DOMAIN q : (a \o b)[j] = q[k]
    BY <1>0, <1>6, <1>7, <1>8
  <1> QED
    BY <1>3, <1>4, <1>9

\* One more number, or the first again.
LEMMA NextNumber ==
  ASSUME mSequence \in 0 .. SeqModulus - 1
  PROVE  /\ NextSequence \in 0 .. SeqModulus - 1
         /\ \/ NextSequence = mSequence + 1
            \/ NextSequence = mSequence + 1 - SeqModulus
  BY BoundsAssumption DEF NextSequence

\* The waiting threads are counted one by one.
LEMMA WaitingCounts ==
  ASSUME TypeOK, NEW c \in Clients, NEW p
  PROVE  /\ IsFiniteSet(Waiting) /\ Cardinality(Waiting) \in Nat
         /\ pc' = [pc EXCEPT ![c] = "waiting"] /\ pc[c] # "waiting"
              => Cardinality(Waiting') = Cardinality(Waiting) + 1
         /\ pc' = [pc EXCEPT ![c] = p] /\ p # "waiting" /\ pc[c] = "waiting"
              => Cardinality(Waiting') = Cardinality(Waiting) - 1
         /\ pc' = [pc EXCEPT ![c] = p] /\ p # "waiting" /\ pc[c] # "waiting"
              => Waiting' = Waiting
  <1>1. IsFiniteSet(Waiting) /\ Cardinality(Waiting) \in Nat
    BY ClientsAssumption, FS_Subset, FS_CardinalityType DEF Waiting
  <1>2. ASSUME pc' = [pc EXCEPT ![c] = "waiting"], pc[c] # "waiting"
        PROVE  Cardinality(Waiting') = Cardinality(Waiting) + 1
    <2>1. Waiting' = Waiting \cup {c} /\ c \notin Waiting
      BY <1>2 DEF Waiting, TypeOK
    <2> QED
      BY <1>1, <2>1, FS_AddElement
  <1>3. ASSUME pc' = [pc EXCEPT ![c] = p], p # "waiting", pc[c] = "waiting"
        PROVE  Cardinality(Waiting') = Cardinality(Waiting) - 1
    <2>1. Waiting' = Waiting \ {c} /\ c \in Waiting
      BY <1>3 DEF Waiting, TypeOK
    <2> QED
      BY <1>1, <2>1, FS_RemoveElement
  <1>4. ASSUME pc' = [pc EXCEPT ![c] = p], p # "waiting", pc[c] # "waiting"
        PROVE  Waiting' = Waiting
    BY <1>4 DEF Waiting, TypeOK
  <1> QED
    BY <1>1, <1>2, <1>3, <1>4

LEMMA HalInit == Init => HalInv
  <1> SUFFICES ASSUME Init PROVE HalInv
    OBVIOUS
  <1>1. TypeOK
    <2>1. pc \in [Clients -> {"idle", "waiting", "open", "write", "loop", "parse", "read", "unlock"}]
          /\ answer \in [Clients -> Answers \cup {NoAnswer}]
      BY DEF Init
    <2>2. <<>> \in Seq(Answers) /\ <<>> \in Seq([request : Requests, intact : BOOLEAN])
      OBVIOUS
    <2>3. 0 \in 0 .. SeqModulus - 1 /\ 0 \in 0 .. MaxRestarts /\ 0 \in 0 .. MaxCalls
      BY BoundsAssumption
    <2> QED
      BY <2>1, <2>2, <2>3 DEF Init, TypeOK
  <1>2. Waiting = {} /\ Cardinality(Waiting) = 0
    BY FS_EmptySet DEF Init, Waiting
  <1>3. Counted
    BY <1>2, BoundsAssumption DEF Init, Counted
  <1>4. Held /\ CurrentRequest
    BY ClientsAssumption DEF Init, Held, CurrentRequest
  <1>5. InTransit = {}
    BY DEF Init, InTransit, IntactOf, OkOf, NoAnswer
  <1> QED
    BY <1>1, <1>3, <1>4, <1>5 DEF HalInv, AllNumbered

-----------------------------------------------------------------------------
(* What each step does to it, part by part.                                *)

Places == {"idle", "waiting", "open", "write", "loop", "parse", "read", "unlock"}

LEMMA ReadTypes ==
  ASSUME NEW n \in 1 .. Len(toHost), rxBuffer \in Seq(Answers), toHost \in Seq(Answers)
  PROVE  /\ rxBuffer \o SubSeq(toHost, 1, n) \in Seq(Answers)
         /\ SubSeq(toHost, n + 1, Len(toHost)) \in Seq(Answers)
  <1>1. n \in Nat /\ 1 <= n /\ n <= Len(toHost) /\ Len(toHost) \in Nat
    OBVIOUS
  <1>2. SubSeq(toHost, 1, n) \in Seq(Answers) /\ SubSeq(toHost, n + 1, Len(toHost)) \in Seq(Answers)
    BY <1>1
  <1> QED
    BY <1>2, ConcatProperties

Packets == [request : Requests, intact : BOOLEAN]

\* Damage alters the number of one request and marks it.
LEMMA DamageAlters ==
  ASSUME TypeOK, NEW i \in 1 .. Len(toDevice), NEW n \in 0 .. SeqModulus - 1,
         toDevice' = [toDevice EXCEPT
                        ![i] = [request |-> [@.request EXCEPT !.seq = n], intact |-> FALSE]]
  PROVE  /\ toDevice' \in Seq(Packets)
         /\ DOMAIN toDevice' = DOMAIN toDevice
         /\ ~toDevice'[i].intact
         /\ \A j \in DOMAIN toDevice : j # i => toDevice'[j] = toDevice[j]
  <1> DEFINE d == [request |-> [toDevice[i].request EXCEPT !.seq = n], intact |-> FALSE]
  <1>1. toDevice \in Seq(Packets)
    BY DEF TypeOK, Packets
  <1>2. toDevice[i] \in Packets /\ DOMAIN toDevice = 1 .. Len(toDevice)
    BY <1>1
  <1>3. toDevice[i].request \in Requests
    BY <1>2 DEF Packets
  <1>4. [toDevice[i].request EXCEPT !.seq = n] \in Requests
    BY <1>3 DEF Requests
  <1>5. d \in Packets /\ ~d.intact
    BY <1>4 DEF Packets
  <1>6. toDevice' = [toDevice EXCEPT ![i] = d]
    OBVIOUS
  <1> HIDE DEF d
  <1>7. toDevice' \in Seq(Packets)
    <2>1. \A e \in Packets : [toDevice EXCEPT ![i] = e] \in Seq(Packets)
      BY <1>1
    <2> QED
      BY <1>5, <1>6, <2>1
  <1>8. DOMAIN toDevice' = DOMAIN toDevice /\ toDevice'[i] = d
        /\ \A j \in DOMAIN toDevice : j # i => toDevice'[j] = toDevice[j]
    BY <1>2, <1>6
  <1> QED
    BY <1>5, <1>7, <1>8

LEMMA TypeStep == HalInv /\ [Next]_vars => TypeOK'
  <1> SUFFICES ASSUME HalInv, [Next]_vars PROVE TypeOK'
    OBVIOUS
  <1>0. TypeOK
    BY DEF HalInv
  <1>1. CASE UNCHANGED vars
    BY <1>0, <1>1 DEF TypeOK, vars, halVars, lineVars
  <1>2. ASSUME NEW c \in Clients, Call(c) \/ Loop(c) \/ NeedMore(c) \/ ReadNoise(c) \/ ReadFails(c)
        PROVE  TypeOK'
    <2>1. /\ UNCHANGED <<lock, answer, mSequence, current, expired, rxBuffer, lineVars, life, calls>>
          /\ \E p \in Places : pc' = [pc EXCEPT ![c] = p]
      BY <1>2 DEF Call, Loop, NeedMore, ReadNoise, ReadFails, Places
    <2> QED
      BY <1>0, <2>1 DEF TypeOK, Places, lineVars
  <1>3. ASSUME NEW c \in Clients, Acquire(c) PROVE TypeOK'
    <2>1. IsFiniteSet(Waiting) /\ c \in Waiting
      BY <1>0, <1>3, WaitingCounts DEF Acquire, Waiting
    <2>2. Cardinality(Waiting) >= 1
      BY <2>1, FS_EmptySet, FS_CardinalityType
    <2>3. calls + 1 \in 0 .. MaxCalls
      BY <1>0, <2>1, <2>2, FS_CardinalityType, BoundsAssumption DEF TypeOK, HalInv, Counted
    <2> QED
      BY <1>0, <1>3, <2>3 DEF Acquire, TypeOK, lineVars
  <1>4. ASSUME NEW c \in Clients, Open(c) PROVE TypeOK'
    <2>1. calls \in 1 .. MaxCalls
      BY <1>0, <1>4 DEF Open, HalInv, CurrentRequest, TypeOK
    <2>2. NextSequence \in 0 .. SeqModulus - 1
      BY <1>0, NextNumber DEF TypeOK
    <2>3. \A command \in Commands : Request(command, NextSequence, calls, life) \in Requests
      BY <1>0, <2>1, <2>2 DEF TypeOK, Request, Requests
    <2>4. mSequence' \in 0 .. SeqModulus - 1 /\ current' \in Requests \cup {NoRequest}
      BY <1>0, <1>4, <2>2, <2>3 DEF Open, TypeOK
    <2>5. pc' \in [Clients -> Places]
      BY <1>0, <1>4 DEF Open, TypeOK, Places
    <2> QED
      BY <1>0, <1>4, <2>4, <2>5 DEF Open, TypeOK, Places, lineVars
  <1>5. ASSUME NEW c \in Clients, Write(c) PROVE TypeOK'
    <2>1. current \in Requests
      BY <1>0, <1>5 DEF Write, HalInv, CurrentRequest, TypeOK
    <2>2. [request |-> current, intact |-> TRUE] \in Packets
      BY <2>1 DEF Packets
    <2>3. toDevice \in Seq(Packets)
      BY <1>0 DEF TypeOK, Packets
    <2>4. toDevice' \in Seq(Packets)
      BY <1>5, <2>2, <2>3, AppendProperties DEF Write
    <2>5. pc' \in [Clients -> Places]
      BY <1>0, <1>5 DEF Write, TypeOK, Places
    <2> QED
      BY <1>0, <1>5, <2>4, <2>5 DEF Write, TypeOK, Places, Packets
  <1>6. ASSUME NEW c \in Clients, Parse(c) PROVE TypeOK'
    <2>1. rxBuffer \in Seq(Answers) /\ rxBuffer # <<>>
      BY <1>0, <1>6 DEF Parse, TypeOK
    <2>2. Head(rxBuffer) \in Answers /\ rxBuffer' \in Seq(Answers)
      BY <1>6, <2>1 DEF Parse
    <2>3. pc' \in [Clients -> Places] /\ answer' \in [Clients -> Answers \cup {NoAnswer}]
      BY <1>0, <1>6, <2>2 DEF Parse, TypeOK, Places
    <2> QED
      BY <1>0, <1>6, <2>2, <2>3 DEF Parse, TypeOK, Places, lineVars
  <1>7. ASSUME NEW c \in Clients, ReadBytes(c) PROVE TypeOK'
    <2>1. rxBuffer \in Seq(Answers) /\ toHost \in Seq(Answers)
      BY <1>0 DEF TypeOK
    <2>2. PICK n \in 1 .. Len(toHost) : /\ rxBuffer' = rxBuffer \o SubSeq(toHost, 1, n)
                                        /\ toHost' = SubSeq(toHost, n + 1, Len(toHost))
      BY <1>7 DEF ReadBytes
    <2>3. rxBuffer' \in Seq(Answers) /\ toHost' \in Seq(Answers)
      BY <2>1, <2>2, ReadTypes
    <2> QED
      BY <1>0, <1>7, <2>3 DEF ReadBytes, TypeOK
  <1>8. ASSUME NEW c \in Clients, DeadlinePasses(c) \/ Unlock(c) PROVE TypeOK'
    <2>1. <<>> \in Seq(Answers)
      OBVIOUS
    <2> QED
      BY <1>0, <1>8, <2>1 DEF DeadlinePasses, Unlock, TypeOK, lineVars
  <1>9. CASE Restart
    <2>1. <<>> \in Seq(Answers)
      OBVIOUS
    <2>2. life' \in 0 .. MaxRestarts /\ mSequence' \in 0 .. SeqModulus - 1
      BY <1>0, <1>9, BoundsAssumption DEF Restart, TypeOK
    <2>3. pc' \in [Clients -> Places] /\ answer' \in [Clients -> Answers \cup {NoAnswer}]
      BY <1>9 DEF Restart, Places
    <2> QED
      BY <1>0, <1>9, <2>1, <2>2, <2>3 DEF Restart, TypeOK, Places, lineVars
  <1>10. CASE Firmware
    <2>1. toDevice \in Seq(Packets) /\ toHost \in Seq(Answers) /\ serving \in Requests \cup {NoRequest}
      BY <1>0 DEF TypeOK, Packets
    <2>2. toDevice' \in Seq(Packets) /\ toHost' \in Seq(Answers) /\ serving' \in Requests \cup {NoRequest}
      <3>1. CASE Take
        <4>1. toDevice # <<>> /\ toDevice' = Tail(toDevice)
          BY <3>1 DEF Take
        <4>2. Head(toDevice) \in Packets /\ toDevice' \in Seq(Packets)
          BY <2>1, <4>1
        <4>3. Head(toDevice).request \in Requests
          BY <4>2 DEF Packets
        <4>4. [request |-> Head(toDevice).request, status |-> "FAILED"] \in Answers
          BY <4>3 DEF Answers, Statuses
        <4>5. serving' \in Requests \cup {NoRequest}
          BY <2>1, <3>1, <4>3 DEF Take
        <4>6. \/ toHost' = toHost
              \/ toHost' = Append(toHost, [request |-> Head(toDevice).request, status |-> "FAILED"])
          BY <3>1 DEF Take
        <4>7. toHost' \in Seq(Answers)
          BY <2>1, <4>4, <4>6, AppendProperties
        <4> QED
          BY <4>2, <4>5, <4>7
      <3>2. CASE Serve
        <4>1. \A t \in Statuses : [request |-> serving, status |-> t] \in Answers
          BY <2>1, <3>2 DEF Serve, Answers
        <4> QED
          BY <2>1, <3>2, <4>1, AppendProperties DEF Serve
      <3> QED
        BY <1>10, <3>1, <3>2 DEF Firmware
    <2>3. UNCHANGED <<halVars, life, calls>>
      BY <1>10 DEF Firmware, Take, Serve
    <2> QED
      BY <1>0, <2>2, <2>3 DEF TypeOK, halVars, Packets
  <1>11. CASE Damage
    BY <1>0, <1>11, DamageAlters DEF Damage, TypeOK, halVars, Packets
  <1>12. CASE Lose
    <2>1. toDevice \in Seq(Packets) /\ toHost \in Seq(Answers)
      BY <1>0 DEF TypeOK, Packets
    <2>2. toDevice' \in Seq(Packets) /\ toHost' \in Seq(Answers)
      BY <1>12, <2>1, RemoveKeeps DEF Lose
    <2> QED
      BY <1>0, <1>12, <2>2 DEF Lose, TypeOK, halVars, Packets
  <1> QED
    BY <1>1, <1>2, <1>3, <1>4, <1>5, <1>6, <1>7, <1>8, <1>9, <1>10, <1>11, <1>12 DEF Next, Step

\* The steps of the holder that neither take nor give back the lock.
Inside(c) == Open(c) \/ Write(c) \/ Loop(c) \/ Parse(c) \/ NeedMore(c) \/ ReadBytes(c)
             \/ ReadNoise(c) \/ ReadFails(c)

\* The line and the firmware.
Outside == Firmware \/ Damage \/ Lose \/ \E c \in Clients : DeadlinePasses(c)

InsidePlaces == {"open", "write", "loop", "parse", "read", "unlock"}

LEMMA StaysInside ==
  ASSUME TypeOK, NEW c \in Clients, Inside(c)
  PROVE  /\ UNCHANGED <<lock, life, calls>>
         /\ pc[c] \in InsidePlaces \ {"unlock"}
         /\ \E p \in InsidePlaces \ {"open"} : pc' = [pc EXCEPT ![c] = p]
         /\ Waiting' = Waiting
  <1>1. UNCHANGED <<lock, life, calls>> /\ pc[c] \in InsidePlaces \ {"unlock"}
    BY DEF Inside, Open, Write, Loop, Parse, NeedMore, ReadBytes, ReadNoise, ReadFails, InsidePlaces
  <1>2. \E p \in InsidePlaces \ {"open"} : pc' = [pc EXCEPT ![c] = p]
    <2>1. CASE Parse(c)
      <3>1. pc = [pc EXCEPT ![c] = "parse"]
        BY <2>1 DEF Parse, TypeOK
      <3> QED
        BY <2>1, <3>1 DEF Parse, InsidePlaces
    <2>2. CASE Loop(c) \/ NeedMore(c)
      BY <2>2 DEF Loop, NeedMore, InsidePlaces
    <2> QED
      BY <2>1, <2>2 DEF Inside, Open, Write, ReadBytes, ReadNoise, ReadFails, InsidePlaces
  <1>3. Waiting' = Waiting
    BY <1>1, <1>2 DEF Waiting, TypeOK, InsidePlaces
  <1> QED
    BY <1>1, <1>2, <1>3

LEMMA OutsideKeeps ==
  Outside => UNCHANGED <<lock, pc, answer, mSequence, current, rxBuffer, life, calls>>
  BY DEF Outside, Firmware, Take, Serve, Damage, Lose, DeadlinePasses, halVars

LEMMA AllSteps ==
  [Next]_vars =>
    \/ UNCHANGED vars \/ Outside \/ Restart
    \/ \E c \in Clients : Call(c) \/ Acquire(c) \/ Unlock(c) \/ Inside(c)
  BY DEF Next, Step, Outside, Inside

LEMMA CountedStep == HalInv /\ [Next]_vars => Counted'
  <1> SUFFICES ASSUME HalInv, [Next]_vars PROVE Counted'
    OBVIOUS
  <1>0. TypeOK /\ Counted /\ calls \in Nat /\ calls <= MaxCalls /\ MaxCalls \in Nat
    BY BoundsAssumption DEF HalInv, TypeOK
  <1>1. CASE UNCHANGED vars \/ Outside
    BY <1>0, <1>1, OutsideKeeps DEF vars, halVars, Counted, Waiting
  <1>2. CASE Restart
    <2>1. Waiting' = {}
      BY <1>2 DEF Restart, Waiting
    <2>2. Cardinality(Waiting') = 0
      BY <2>1, FS_EmptySet
    <2> QED
      BY <1>0, <1>2, <2>2 DEF Restart, Counted
  <1>3. ASSUME NEW c \in Clients, Call(c) PROVE Counted'
    <2>1. pc[c] # "waiting" /\ pc' = [pc EXCEPT ![c] = "waiting"] /\ calls' = calls
          /\ calls + Cardinality(Waiting) < MaxCalls
      BY <1>3 DEF Call
    <2>2. Cardinality(Waiting') = Cardinality(Waiting) + 1 /\ Cardinality(Waiting) \in Nat
      BY <1>0, <2>1, WaitingCounts
    <2> QED
      BY <1>0, <2>1, <2>2 DEF Counted
  <1>4. ASSUME NEW c \in Clients, Acquire(c) PROVE Counted'
    <2>1. pc[c] = "waiting" /\ pc' = [pc EXCEPT ![c] = "open"] /\ calls' = calls + 1
      BY <1>4 DEF Acquire
    <2>2. Cardinality(Waiting') = Cardinality(Waiting) - 1 /\ Cardinality(Waiting) \in Nat
      BY <1>0, <2>1, WaitingCounts
    <2> QED
      BY <1>0, <2>1, <2>2 DEF Counted
  <1>5. ASSUME NEW c \in Clients, Unlock(c) PROVE Counted'
    <2>1. Waiting' = Waiting /\ calls' = calls
      BY <1>0, <1>5 DEF Unlock, Waiting, TypeOK
    <2> QED
      BY <1>0, <2>1 DEF Counted
  <1>6. ASSUME NEW c \in Clients, Inside(c) PROVE Counted'
    BY <1>0, <1>6, StaysInside DEF Counted
  <1> QED
    BY <1>1, <1>2, <1>3, <1>4, <1>5, <1>6, AllSteps

LEMMA HeldStep == HalInv /\ [Next]_vars => Held'
  <1> SUFFICES ASSUME HalInv, [Next]_vars PROVE Held'
    OBVIOUS
  <1>0. TypeOK /\ Held
    BY DEF HalInv
  <1>1. CASE UNCHANGED vars \/ Outside
    BY <1>0, <1>1, OutsideKeeps DEF vars, halVars, Held
  <1>2. CASE Restart
    BY <1>2, ClientsAssumption DEF Restart, Held
  <1>3. ASSUME NEW c \in Clients, Call(c) \/ Acquire(c) \/ Unlock(c) PROVE Held'
    BY <1>0, <1>3, ClientsAssumption DEF Call, Acquire, Unlock, Held, TypeOK
  <1>4. ASSUME NEW c \in Clients, Inside(c) PROVE Held'
    BY <1>0, <1>4, StaysInside DEF Held, TypeOK, InsidePlaces
  <1> QED
    BY <1>1, <1>2, <1>3, <1>4, AllSteps

\* The holder is the only thread inside.
LEMMA OneInside ==
  ASSUME Held, NEW c \in Clients, pc[c] \in InsidePlaces
  PROVE  lock = c /\ \A d \in Clients : d # c => pc[d] \notin InsidePlaces
  BY DEF Held, InsidePlaces

LEMMA CurrentStep == HalInv /\ [Next]_vars => CurrentRequest'
  <1> SUFFICES ASSUME HalInv, [Next]_vars PROVE CurrentRequest'
    OBVIOUS
  <1>0. TypeOK /\ Held /\ CurrentRequest
    BY DEF HalInv
  <1>1. CASE UNCHANGED vars \/ Outside
    <2>1. UNCHANGED <<lock, pc, answer, mSequence, current, life, calls>>
      BY <1>1, OutsideKeeps DEF vars, halVars
    <2> QED
      BY <1>0, <2>1 DEF CurrentRequest, Matches
  <1>2. CASE Restart
    BY <1>2 DEF Restart, CurrentRequest
  <1>3. ASSUME NEW c \in Clients, Call(c) PROVE CurrentRequest'
    <2>1. /\ UNCHANGED <<lock, answer, mSequence, current, life, calls>>
          /\ pc[c] = "idle" /\ pc' = [pc EXCEPT ![c] = "waiting"]
      BY <1>3 DEF Call
    <2> QED
      BY <1>0, <2>1 DEF CurrentRequest, Matches, TypeOK
  <1>4. ASSUME NEW c \in Clients, Acquire(c) PROVE CurrentRequest'
    <2>1. /\ UNCHANGED <<answer, mSequence, current, life>> /\ calls' = calls + 1
          /\ pc[c] = "waiting" /\ pc' = [pc EXCEPT ![c] = "open"]
          /\ lock = NoClient /\ lock' = c /\ c # NoClient
      BY <1>4, ClientsAssumption DEF Acquire
    <2>2. current' = NoRequest /\ calls' >= 1
      BY <1>0, <2>1 DEF CurrentRequest, TypeOK
    <2>3. \A d \in Clients : pc[d] \notin InsidePlaces /\ answer'[d] = NoAnswer
      BY <1>0, <2>1, ClientsAssumption DEF Held, CurrentRequest, InsidePlaces
    <2>4. pc'[c] = "open" /\ \A d \in Clients : d # c => pc'[d] = pc[d]
      BY <1>0, <2>1 DEF TypeOK
    <2> QED
      BY <2>1, <2>2, <2>3, <2>4 DEF CurrentRequest, InsidePlaces
  <1>5. ASSUME NEW c \in Clients, Unlock(c) PROVE CurrentRequest'
    <2>1. /\ current' = NoRequest /\ answer' = [answer EXCEPT ![c] = NoAnswer]
          /\ pc[c] = "unlock" /\ pc' = [pc EXCEPT ![c] = "idle"]
      BY <1>5 DEF Unlock
    <2>2. \A d \in Clients : d # c => pc[d] \notin InsidePlaces
      BY <1>0, <2>1, OneInside DEF InsidePlaces
    <2>3. \A d \in Clients : answer'[d] = NoAnswer /\ pc'[d] \notin InsidePlaces
      BY <1>0, <2>1, <2>2 DEF CurrentRequest, TypeOK, InsidePlaces
    <2> QED
      BY <2>1, <2>3 DEF CurrentRequest, InsidePlaces
  <1>6. ASSUME NEW c \in Clients, Inside(c) PROVE CurrentRequest'
    <2>1. lock = c /\ \A d \in Clients : d # c => pc[d] \notin InsidePlaces /\ answer[d] = NoAnswer
      BY <1>0, <1>6, StaysInside, OneInside DEF CurrentRequest, InsidePlaces
    <2>2. lock' # NoClient /\ pc[c] # "unlock" /\ answer[c] = NoAnswer
      BY <1>0, <1>6, <2>1, StaysInside, ClientsAssumption DEF CurrentRequest, InsidePlaces
    <2>3. pc'[c] \in InsidePlaces \ {"open"} /\ \A d \in Clients : d # c => pc'[d] = pc[d]
      BY <1>0, <1>6, StaysInside DEF TypeOK
    <2>4. CASE Open(c)
      <3>1. calls >= 1 /\ current = NoRequest
        BY <1>0, <2>4 DEF Open, CurrentRequest
      <3>2. UNCHANGED <<answer, life, calls>>
        BY <2>4 DEF Open, lineVars
      <3>3. \/ pc'[c] = "unlock" /\ current' = NoRequest
            \/ /\ current' # NoRequest
               /\ current'.id = calls /\ current'.seq = mSequence' /\ current'.life = life
        <4>1. \A command \in Commands :
                /\ Request(command, mSequence', calls, life) # NoRequest
                /\ Request(command, mSequence', calls, life).id = calls
                /\ Request(command, mSequence', calls, life).seq = mSequence'
                /\ Request(command, mSequence', calls, life).life = life
          BY <3>1 DEF Request, NoRequest
        <4> QED
          BY <1>0, <2>4, <3>1, <4>1 DEF Open, TypeOK
      <3> QED
        BY <2>1, <2>2, <2>3, <3>2, <3>3 DEF CurrentRequest, InsidePlaces
    <2>5. CASE ~Open(c)
      <3>1. UNCHANGED <<mSequence, current, life, calls>> /\ pc[c] # "open"
        BY <1>6, <2>5 DEF Inside, Write, Loop, Parse, NeedMore, ReadBytes, ReadNoise, ReadFails
      <3>2. current # NoRequest
        BY <1>0, <1>6, <2>2, <3>1, StaysInside DEF CurrentRequest, InsidePlaces
      <3>3. UNCHANGED answer
            \/ /\ pc'[c] = "unlock" /\ answer' = [answer EXCEPT ![c] = Head(rxBuffer)]
               /\ Matches(Head(rxBuffer).request)
        BY <1>0, <1>6, <2>5 DEF Inside, Write, Loop, Parse, NeedMore, ReadBytes, ReadNoise, ReadFails, TypeOK
      <3>4. \A d \in Clients : answer'[d] # NoAnswer =>
              pc'[d] = "unlock" /\ current' # NoRequest /\ Matches(answer'[d].request)
        BY <1>0, <2>1, <2>2, <3>1, <3>2, <3>3 DEF TypeOK
      <3> QED
        BY <1>0, <2>1, <2>2, <2>3, <3>1, <3>2, <3>4 DEF CurrentRequest, Matches, InsidePlaces
    <2> QED
      BY <2>4, <2>5
  <1> QED
    BY <1>1, <1>2, <1>3, <1>4, <1>5, <1>6, AllSteps

\* Every element of t is one of q.
From(t, q) == \A j \in DOMAIN t : \E k \in DOMAIN q : t[j] = q[k]

LEMMA FromLess ==
  ASSUME NEW t, NEW q, From(t, q)
  PROVE  IntactOf(t) \subseteq IntactOf(q) /\ OkOf(t) \subseteq OkOf(q)
  BY DEF From, IntactOf, OkOf

LEMMA Parts ==
  ASSUME NEW S, NEW q \in Seq(S)
  PROVE  /\ q # <<>> => From(Tail(q), q) /\ Head(q) = q[1] /\ 1 \in DOMAIN q
         /\ \A n \in 1 .. Len(q) : From(SubSeq(q, 1, n), q) /\ From(SubSeq(q, n + 1, Len(q)), q)
         /\ \A i \in 1 .. Len(q) : From(RemoveAt(q, i), q)
  <1>1. q # <<>> => From(Tail(q), q) /\ Head(q) = q[1] /\ 1 \in DOMAIN q
    BY DEF From
  <1>2. ASSUME NEW n \in 1 .. Len(q)
        PROVE  From(SubSeq(q, 1, n), q) /\ From(SubSeq(q, n + 1, Len(q)), q)
    BY DEF From
  <1>3. \A i \in 1 .. Len(q) : From(RemoveAt(q, i), q)
    BY RemoveKeeps DEF From
  <1> QED
    BY <1>1, <1>2, <1>3

LEMMA Joined ==
  ASSUME NEW S, NEW q \in Seq(S), NEW t \in Seq(S), NEW e \in S
  PROVE  /\ OkOf(q \o t) \subseteq OkOf(q) \cup OkOf(t)
         /\ OkOf(Append(q, e)) \subseteq OkOf(q) \cup {r \in {e.request} : e.status = "OK"}
         /\ IntactOf(Append(q, e)) \subseteq IntactOf(q) \cup {e.request}
  <1>1. \A i \in DOMAIN (q \o t) :
          (\E j \in DOMAIN q : (q \o t)[i] = q[j]) \/ (\E j \in DOMAIN t : (q \o t)[i] = t[j])
    <2>1. q \o t \in Seq(S) /\ Len(q \o t) = Len(q) + Len(t)
          /\ \A i \in 1 .. Len(q) + Len(t) : (q \o t)[i] = IF i <= Len(q) THEN q[i] ELSE t[i - Len(q)]
      BY ConcatProperties
    <2>2. DOMAIN (q \o t) = 1 .. Len(q) + Len(t) /\ DOMAIN q = 1 .. Len(q) /\ DOMAIN t = 1 .. Len(t)
          /\ Len(q) \in Nat /\ Len(t) \in Nat
      BY <2>1
    <2> QED
      BY <2>1, <2>2
  <1>2. \A i \in DOMAIN Append(q, e) :
          (\E j \in DOMAIN q : Append(q, e)[i] = q[j]) \/ Append(q, e)[i] = e
    OBVIOUS
  <1> QED
    BY <1>1, <1>2 DEF OkOf, IntactOf

\* A write puts the current request on its way; every other step only moves what is there.
LEMMA TransitStep ==
  ASSUME HalInv, [Next]_vars
  PROVE  InTransit' \subseteq InTransit \cup {r \in {current} : \E c \in Clients : Write(c)}
  <1>0. TypeOK /\ rxBuffer \in Seq(Answers) /\ toHost \in Seq(Answers) /\ toDevice \in Seq(Packets)
    BY DEF HalInv, TypeOK, Packets
  <1>1. \A c \in Clients : [answer EXCEPT ![c] = NoAnswer] \in [Clients -> Answers \cup {NoAnswer}]
    BY <1>0 DEF TypeOK
  <1>2. CASE UNCHANGED <<toDevice, serving, toHost, rxBuffer, answer>>
    BY <1>2 DEF InTransit, OkOf, IntactOf
  <1>3. ASSUME NEW c \in Clients, Write(c)
        PROVE  InTransit' \subseteq InTransit \cup {r \in {current} : \E d \in Clients : Write(d)}
    <2>1. UNCHANGED <<serving, toHost, rxBuffer, answer>>
      BY <1>3 DEF Write
    <2>2. current \in Requests
      BY <1>0, <1>3 DEF Write, HalInv, CurrentRequest, TypeOK
    <2> DEFINE e == [request |-> current, intact |-> TRUE]
    <2>3. e \in Packets /\ e.request = current
      BY <2>2 DEF Packets
    <2>4. toDevice' = toDevice \/ toDevice' = Append(toDevice, e)
      BY <1>3 DEF Write
    <2> HIDE DEF e
    <2>5. IntactOf(toDevice') \subseteq IntactOf(toDevice) \cup {current}
      BY <1>0, <2>3, <2>4, Joined
    <2> QED
      BY <1>3, <2>1, <2>5 DEF InTransit, OkOf, IntactOf
  <1>4. ASSUME NEW c \in Clients, Parse(c) PROVE InTransit' \subseteq InTransit
    <2>1. /\ UNCHANGED <<toDevice, serving, toHost>> /\ rxBuffer # <<>> /\ rxBuffer' = Tail(rxBuffer)
          /\ answer' = answer \/ answer' = [answer EXCEPT ![c] = Head(rxBuffer)]
      BY <1>4 DEF Parse, lineVars
    <2>2. From(rxBuffer', rxBuffer) /\ Head(rxBuffer) = rxBuffer[1] /\ 1 \in DOMAIN rxBuffer
      BY <1>0, <2>1, Parts
    <2>3. OkOf(rxBuffer') \subseteq OkOf(rxBuffer)
      BY <2>2, FromLess
    <2>4. OkOf(answer') \subseteq OkOf(answer) \cup OkOf(rxBuffer)
      BY <1>0, <2>1, <2>2 DEF OkOf, TypeOK
    <2> QED
      BY <2>1, <2>3, <2>4 DEF InTransit, OkOf, IntactOf
  <1>5. ASSUME NEW c \in Clients, ReadBytes(c) PROVE InTransit' \subseteq InTransit
    <2>1. UNCHANGED <<toDevice, serving, answer>>
      BY <1>5 DEF ReadBytes
    <2>2. PICK n \in 1 .. Len(toHost) : /\ rxBuffer' = rxBuffer \o SubSeq(toHost, 1, n)
                                        /\ toHost' = SubSeq(toHost, n + 1, Len(toHost))
      BY <1>5 DEF ReadBytes
    <2> DEFINE a == SubSeq(toHost, 1, n)
    <2>3. a \in Seq(Answers) /\ From(a, toHost) /\ From(toHost', toHost)
      <3>1. n \in Nat /\ 1 <= n /\ n <= Len(toHost)
        BY <1>0
      <3>2. a \in Seq(Answers)
        BY <1>0, <3>1
      <3> QED
        BY <1>0, <2>2, <3>2, Parts
    <2> HIDE DEF a
    <2>4. OkOf(a) \subseteq OkOf(toHost) /\ OkOf(toHost') \subseteq OkOf(toHost)
      BY <2>3, FromLess
    <2>5. OkOf(rxBuffer') \subseteq OkOf(rxBuffer) \cup OkOf(a)
      <3>1. rxBuffer' = rxBuffer \o a
        BY <2>2 DEF a
      <3>2. \A e \in Answers : OkOf(rxBuffer \o a) \subseteq OkOf(rxBuffer) \cup OkOf(a)
        BY <1>0, <2>3, Joined
      <3>3. toHost[n] \in Answers
        BY <1>0
      <3> QED
        BY <3>1, <3>2, <3>3
    <2> QED
      BY <2>1, <2>4, <2>5 DEF InTransit, OkOf, IntactOf
  <1>6. ASSUME NEW c \in Clients, Unlock(c) PROVE InTransit' \subseteq InTransit
    <2>1. UNCHANGED <<toDevice, serving, toHost>> /\ rxBuffer' = <<>>
          /\ answer' = [answer EXCEPT ![c] = NoAnswer]
      BY <1>6 DEF Unlock, lineVars
    <2>2. OkOf(rxBuffer') = {}
      BY <2>1 DEF OkOf
    <2>3. OkOf(answer') \subseteq OkOf(answer)
      BY <1>0, <2>1, Nothing DEF OkOf, TypeOK
    <2> QED
      BY <2>1, <2>2, <2>3 DEF InTransit, OkOf, IntactOf
  <1>7. CASE Restart
    <2>1. UNCHANGED <<toDevice, serving, toHost>> /\ rxBuffer' = <<>>
          /\ answer' = [c \in Clients |-> NoAnswer]
      BY <1>7 DEF Restart, lineVars
    <2>2. OkOf(rxBuffer') = {} /\ OkOf(answer') = {}
      BY <2>1, Nothing DEF OkOf
    <2> QED
      BY <2>1, <2>2 DEF InTransit, OkOf, IntactOf
  <1>8. CASE Take
    <2>1. UNCHANGED <<rxBuffer, answer>> /\ toDevice # <<>> /\ toDevice' = Tail(toDevice)
      BY <1>8 DEF Take, halVars
    <2>2. From(toDevice', toDevice) /\ Head(toDevice) = toDevice[1] /\ 1 \in DOMAIN toDevice
      BY <1>0, <2>1, Parts
    <2>3. IntactOf(toDevice') \subseteq IntactOf(toDevice)
      BY <2>2, FromLess
    <2>4. CASE Head(toDevice).intact
      <3>1. serving' = Head(toDevice).request /\ toHost' = toHost
        BY <1>8, <2>4 DEF Take
      <3>2. serving' \in IntactOf(toDevice)
        BY <2>2, <2>4, <3>1 DEF IntactOf
      <3> QED
        BY <2>1, <2>3, <3>1, <3>2 DEF InTransit, OkOf, IntactOf
    <2>5. CASE ~Head(toDevice).intact
      <3> DEFINE e == [request |-> Head(toDevice).request, status |-> "FAILED"]
      <3>1. serving' = serving /\ toHost' = Append(toHost, e)
        BY <1>8, <2>5 DEF Take
      <3>2. Head(toDevice).request \in Requests
        <4>1. toDevice[1] \in Packets
          BY <1>0, <2>2
        <4> QED
          BY <2>2, <4>1 DEF Packets
      <3>3. e \in Answers /\ e.status # "OK"
        BY <3>2 DEF Answers, Statuses
      <3> HIDE DEF e
      <3>4. OkOf(toHost') \subseteq OkOf(toHost)
        BY <1>0, <3>1, <3>3, Joined
      <3> QED
        BY <2>1, <2>3, <3>1, <3>4 DEF InTransit, OkOf, IntactOf
    <2> QED
      BY <2>4, <2>5
  <1>9. CASE Serve
    <2>1. UNCHANGED <<toDevice, rxBuffer, answer>> /\ serving # NoRequest /\ serving' = NoRequest
      BY <1>9 DEF Serve, halVars
    <2>2. PICK t \in Statuses : toHost' = Append(toHost, [request |-> serving, status |-> t])
      BY <1>9 DEF Serve
    <2> DEFINE e == [request |-> serving, status |-> t]
    <2>3. e \in Answers /\ e.request = serving
      BY <1>0, <2>1 DEF TypeOK, Answers
    <2>4. toHost' = Append(toHost, e)
      BY <2>2
    <2> HIDE DEF e
    <2>5. OkOf(toHost') \subseteq OkOf(toHost) \cup {serving}
      BY <1>0, <2>3, <2>4, Joined
    <2> QED
      BY <2>1, <2>5 DEF InTransit, OkOf, IntactOf
  <1>10. CASE Damage
    <2>1. UNCHANGED <<serving, toHost, rxBuffer, answer>>
      BY <1>10 DEF Damage, halVars
    <2>2. IntactOf(toDevice') \subseteq IntactOf(toDevice)
      BY <1>0, <1>10, DamageAlters DEF Damage, IntactOf
    <2> QED
      BY <2>1, <2>2 DEF InTransit, OkOf, IntactOf
  <1>11. CASE Lose
    <2>1. UNCHANGED <<serving, rxBuffer, answer>>
      BY <1>11 DEF Lose, halVars
    <2>2. (toDevice' = toDevice \/ From(toDevice', toDevice)) /\ (toHost' = toHost \/ From(toHost', toHost))
      BY <1>0, <1>11, Parts DEF Lose
    <2>3. IntactOf(toDevice') \subseteq IntactOf(toDevice) /\ OkOf(toHost') \subseteq OkOf(toHost)
      BY <2>2, FromLess
    <2> QED
      BY <2>1, <2>3 DEF InTransit, OkOf, IntactOf
  <1>12. ASSUME NEW c \in Clients,
                Call(c) \/ Acquire(c) \/ Open(c) \/ Loop(c) \/ NeedMore(c) \/ ReadNoise(c)
                \/ ReadFails(c) \/ DeadlinePasses(c)
         PROVE  UNCHANGED <<toDevice, serving, toHost, rxBuffer, answer>>
    BY <1>12 DEF Call, Acquire, Open, Loop, NeedMore, ReadNoise, ReadFails, DeadlinePasses, lineVars
  <1>13. UNCHANGED vars => UNCHANGED <<toDevice, serving, toHost, rxBuffer, answer>>
    BY DEF vars, halVars, lineVars
  <1> QED
    BY <1>2, <1>3, <1>4, <1>5, <1>6, <1>7, <1>8, <1>9, <1>10, <1>11, <1>12, <1>13
       DEF Next, Step, Firmware

\* Nobody is between mLock and the number when another step is taken there.
LEMMA DrawnStep ==
  ASSUME HalInv, [Next]_vars
  PROVE  /\ Drawn \in Int /\ Drawn' \in Int /\ Drawn <= Drawn'
         /\ (\E c \in Clients : Open(c)) => Drawn' = Drawn + 1
         /\ Restart \/ (\E c \in Clients : Open(c)) \/ Drawn' = Drawn
  <1>0. TypeOK /\ Held /\ calls \in Nat
    BY DEF HalInv, TypeOK
  <1>1. CASE UNCHANGED vars \/ Outside
    <2>1. pc' = pc /\ calls' = calls
      BY <1>1, OutsideKeeps DEF vars, halVars
    <2>2. ~\E c \in Clients : Open(c)
      BY <1>0, <2>1 DEF Open, TypeOK
    <2> QED
      BY <1>0, <2>1, <2>2 DEF Drawn
  <1>2. CASE Restart
    <2>1. calls' = calls /\ \A c \in Clients : pc'[c] = "idle"
      BY <1>2 DEF Restart
    <2>2. ~\E c \in Clients : Open(c)
      BY <1>0, <2>1 DEF Open, TypeOK
    <2> QED
      BY <1>0, <1>2, <2>1, <2>2 DEF Drawn
  <1>3. ASSUME NEW c \in Clients, Call(c) \/ Unlock(c) \/ (Inside(c) /\ ~Open(c)) \/ Acquire(c)
        PROVE  /\ Drawn' = Drawn /\ Drawn \in Int
               /\ ~\E d \in Clients : Open(d)
    <2>1. CASE Acquire(c)
      <3>1. /\ calls' = calls + 1 /\ pc'[c] = "open" /\ \A d \in Clients : pc[d] # "open"
        BY <1>0, <2>1, ClientsAssumption DEF Acquire, Held, TypeOK
      <3> QED
        BY <1>0, <3>1 DEF Drawn, Open
    <2>2. CASE Call(c)
      <3>1. calls' = calls /\ \A d \in Clients : (pc'[d] = "open" <=> pc[d] = "open") /\ (pc[d] = "open" => pc'[d] = "open")
        BY <1>0, <2>2 DEF Call, TypeOK
      <3> QED
        BY <1>0, <3>1 DEF Drawn, Open, TypeOK
    <2>3. CASE Unlock(c) \/ (Inside(c) /\ ~Open(c))
      <3>1. calls' = calls /\ pc[c] \in InsidePlaces /\ pc[c] # "open" /\ pc'[c] # "open"
            /\ \A d \in Clients : d # c => pc'[d] = pc[d]
        <4>1. CASE Unlock(c)
          BY <1>0, <4>1 DEF Unlock, InsidePlaces, TypeOK
        <4>2. CASE Inside(c) /\ ~Open(c)
          <5>1. pc[c] # "open"
            BY <4>2 DEF Inside, Write, Loop, Parse, NeedMore, ReadBytes, ReadNoise, ReadFails
          <5> QED
            BY <1>0, <4>2, <5>1, StaysInside DEF TypeOK, InsidePlaces
        <4> QED
          BY <2>3, <4>1, <4>2
      <3>2. \A d \in Clients : pc[d] # "open" /\ pc'[d] # "open"
        BY <1>0, <3>1, OneInside DEF InsidePlaces
      <3> QED
        BY <1>0, <3>1, <3>2 DEF Drawn, Open
    <2> QED
      BY <1>3, <2>1, <2>2, <2>3
  <1>4. ASSUME NEW c \in Clients, Open(c) PROVE Drawn' = Drawn + 1 /\ Drawn \in Int
    <2>1. calls' = calls /\ pc[c] = "open" /\ pc'[c] # "open" /\ \A d \in Clients : d # c => pc'[d] = pc[d]
      BY <1>0, <1>4 DEF Open, TypeOK
    <2>2. \A d \in Clients : pc'[d] # "open"
      BY <1>0, <2>1, OneInside DEF InsidePlaces
    <2> QED
      BY <1>0, <2>1, <2>2 DEF Drawn
  <1> QED
    BY <1>1, <1>2, <1>3, <1>4, AllSteps DEF Inside

\* One more number drawn keeps the distance of the others.
LEMMA MovesOn ==
  ASSUME NEW s \in Int, NEW k \in Int, NEW last \in Int, NEW m \in Int, NEW round \in Int,
         s + k = last + m
  PROVE  s + (k + 1) = (last + 1) + m /\ s + (k + 1) = (last + 1 - round) + (m + round)
  OBVIOUS

\* Every request in transit keeps its distance from the last number drawn.
LEMMA StaysNumbered ==
  ASSUME HalInv, [Next]_vars, NEW r, Numbered(r)
  PROVE  Numbered(r)'
  <1>0. /\ TypeOK /\ CurrentRequest /\ SeqModulus \in Nat \ {0} /\ mSequence \in 0 .. SeqModulus - 1
        /\ r \in Requests /\ r.life <= life /\ r.id <= Drawn
        /\ r.id \in Nat /\ r.seq \in Nat /\ r.life \in Nat /\ life \in Nat
    BY BoundsAssumption DEF HalInv, TypeOK, Numbered, Requests
  <1>1. Drawn \in Int /\ Drawn' \in Int /\ Drawn <= Drawn'
    BY DrawnStep
  <1>2. CASE Restart
    <2>1. life' = life + 1
      BY <1>2 DEF Restart
    <2> QED
      BY <1>0, <1>1, <2>1 DEF Numbered
  <1>3. ASSUME NEW c \in Clients, Open(c) PROVE Numbered(r)'
    <2>1. Drawn' = Drawn + 1 /\ life' = life
      BY <1>3, DrawnStep DEF Open
    <2>2. current = NoRequest /\ r # current
      BY <1>0, <1>3, Nothing DEF Open, CurrentRequest
    <2>3. ASSUME r.life = life
          PROVE  \E k \in 0 .. Drawn' - r.id, turns \in Nat :
                   r.seq + k = mSequence' + turns * SeqModulus /\ (current' # NoRequest => k >= 1)
      <3>1. PICK k \in 0 .. Drawn - r.id, turns \in Nat : r.seq + k = mSequence + turns * SeqModulus
        BY <2>2, <2>3 DEF Numbered
      <3>2. turns * SeqModulus \in Nat /\ (turns + 1) * SeqModulus = turns * SeqModulus + SeqModulus
        BY <1>0
      <3>3. CASE mSequence' = mSequence /\ current' = current
        <4>1. k \in 0 .. Drawn' - r.id
          BY <1>0, <1>1, <2>1
        <4> QED
          BY <2>2, <3>1, <3>3, <4>1
      <3>4. CASE mSequence' = mSequence + 1
        <4>1. k + 1 \in 0 .. Drawn' - r.id /\ k + 1 >= 1
          BY <1>0, <1>1, <2>1
        <4>2. r.seq + (k + 1) = mSequence' + turns * SeqModulus
          <5> DEFINE m == turns * SeqModulus
          <5>1. r.seq + k = mSequence + m /\ m \in Nat /\ k \in Nat
            BY <1>0, <1>1, <3>1, <3>2
          <5> HIDE DEF m
          <5>2. r.seq \in Int /\ mSequence \in Int /\ m \in Int /\ k \in Int /\ SeqModulus \in Int
            BY <1>0, <5>1
          <5>3. r.seq + (k + 1) = (mSequence + 1) + m
            BY <5>1, <5>2, MovesOn
          <5> QED
            BY <3>4, <5>3 DEF m
        <4> QED
          BY <4>1, <4>2
      <3>5. CASE mSequence' = mSequence + 1 - SeqModulus
        <4>1. k + 1 \in 0 .. Drawn' - r.id /\ k + 1 >= 1
          BY <1>0, <1>1, <2>1
        <4>2. r.seq + (k + 1) = mSequence' + (turns + 1) * SeqModulus /\ turns + 1 \in Nat
          <5> DEFINE m == turns * SeqModulus
          <5>1. r.seq + k = mSequence + m /\ m \in Nat /\ k \in Nat
            BY <1>0, <1>1, <3>1, <3>2
          <5> HIDE DEF m
          <5>2. r.seq \in Int /\ mSequence \in Int /\ m \in Int /\ k \in Int /\ SeqModulus \in Int
            BY <1>0, <5>1
          <5>3. r.seq + (k + 1) = (mSequence + 1 - SeqModulus) + (m + SeqModulus)
            BY <5>1, <5>2, MovesOn
          <5> QED
            BY <3>2, <3>5, <5>3 DEF m
        <4> QED
          BY <4>1, <4>2
      <3> QED
        BY <1>0, <1>3, <3>3, <3>4, <3>5, NextNumber DEF Open
    <2>4. r.life <= life' /\ r.id <= Drawn'
      BY <1>0, <1>1, <2>1
    <2> QED
      BY <1>0, <2>1, <2>3, <2>4 DEF Numbered
  <1>4. ASSUME NEW c \in Clients, Unlock(c) PROVE Numbered(r)'
    <2>1. /\ UNCHANGED <<mSequence, life, calls>> /\ current' = NoRequest /\ pc[c] = "unlock"
      BY <1>4 DEF Unlock
    <2>2. Drawn' = Drawn
      <3>1. ~Restart
        BY <1>0, <2>1 DEF Restart
      <3>2. pc[c] \in InsidePlaces /\ Held
        BY <2>1 DEF HalInv, InsidePlaces
      <3>3. \A d \in Clients : pc[d] # "open"
        BY <2>1, <3>2, OneInside DEF InsidePlaces
      <3>4. ~\E d \in Clients : Open(d)
        BY <3>3 DEF Open
      <3> QED
        BY <3>1, <3>4, DrawnStep
    <2>3. CASE r = current
      <3>1. r.id = calls /\ r.seq = mSequence
        BY <1>0, <2>3, Nothing DEF CurrentRequest
      <3>2. Drawn = calls
        <4>1. \A d \in Clients : pc[d] # "open"
          BY <2>1, OneInside DEF HalInv, InsidePlaces
        <4> QED
          BY <4>1 DEF Drawn
      <3>3. 0 \in 0 .. Drawn' - r.id /\ r.seq + 0 = mSequence' + 0 * SeqModulus
        BY <1>0, <1>1, <2>1, <2>2, <3>1, <3>2
      <3> QED
        BY <1>0, <2>1, <2>2, <3>3 DEF Numbered
    <2>4. CASE r # current
      BY <1>0, <2>1, <2>2, <2>4 DEF Numbered
    <2> QED
      BY <2>3, <2>4
  <1>5. CASE ~Restart /\ ~\E c \in Clients : Open(c) \/ Unlock(c)
    <2>1. Drawn' = Drawn
      BY <1>5, DrawnStep
    <2>2. UNCHANGED <<mSequence, current, life>>
      <3>1. Outside \/ UNCHANGED vars => UNCHANGED <<mSequence, current, life>>
        BY OutsideKeeps DEF vars, halVars
      <3>2. ASSUME NEW c \in Clients,
                   Call(c) \/ Acquire(c) \/ (Inside(c) /\ ~Open(c))
            PROVE  UNCHANGED <<mSequence, current, life>>
        BY <3>2 DEF Call, Acquire, Inside, Write, Loop, Parse, NeedMore, ReadBytes, ReadNoise, ReadFails
      <3> QED
        BY <1>5, <3>1, <3>2, AllSteps
    <2> QED
      BY <2>1, <2>2 DEF Numbered
  <1> QED
    BY <1>2, <1>3, <1>4, <1>5

LEMMA NumberedStep == HalInv /\ [Next]_vars => AllNumbered'
  <1> SUFFICES ASSUME HalInv, [Next]_vars, NEW r \in InTransit' PROVE Numbered(r)'
    BY DEF AllNumbered
  <1>1. CASE r \in InTransit
    <2>1. Numbered(r)
      BY <1>1 DEF HalInv, AllNumbered
    <2> QED
      BY <2>1, StaysNumbered
  <1>2. ASSUME NEW c \in Clients, Write(c), r = current PROVE Numbered(r)'
    <2>1. Inside(c) /\ pc[c] = "write" /\ current \in Requests /\ current # NoRequest
      BY <1>2, Nothing DEF Inside, Write, HalInv, CurrentRequest, TypeOK
    <2>2. \A d \in Clients : pc[d] # "open"
      BY <2>1, OneInside DEF HalInv, InsidePlaces
    <2>3. Drawn = calls /\ r.id = calls /\ r.life = life /\ calls \in Nat /\ life \in Nat
      BY <1>2, <2>1, <2>2 DEF Drawn, HalInv, CurrentRequest, TypeOK
    <2>4. Numbered(r)
      BY <1>2, <2>1, <2>3 DEF Numbered
    <2> QED
      BY <2>4, StaysNumbered
  <1> QED
    BY <1>1, <1>2, TransitStep

LEMMA HalAlways == Spec => []HalInv
  <1>1. HalInv /\ [Next]_vars => HalInv'
    BY TypeStep, CountedStep, HeldStep, CurrentStep, NumberedStep DEF HalInv
  <1> QED
    BY <1>1, HalInit, PTL DEF Spec

-----------------------------------------------------------------------------
\* Type correctness of the service, the line and the firmware, for any of their bounds.
THEOREM TypeCorrect == Spec => []TypeOK
  <1>1. HalInv => TypeOK
    BY DEF HalInv
  <1> QED
    BY <1>1, HalAlways, PTL

\* A success that exchangePacket accepts answers the request it has written, unless it comes
\* from another life of the service or from as many calls ago as there are numbers: what is
\* late, lost, damaged or left in the buffers makes no difference.
THEOREM OwnAnswer == Spec => []AnswerIsOwn
  <1>1. HalInv => AnswerIsOwn
    <2> SUFFICES ASSUME HalInv, NEW c \in Clients, Accepted(c), answer[c].status = "OK",
                        answer[c].request # current, ~(answer[c].request.life < life)
                 PROVE  current.id - answer[c].request.id >= SeqModulus
      BY DEF AnswerIsOwn
    <2> DEFINE r == answer[c].request
    <2>1. Numbered(r)
      <3>1. DOMAIN answer = Clients
        BY DEF HalInv, TypeOK
      <3>2. r \in InTransit
        BY <3>1 DEF InTransit, OkOf
      <3> QED
        BY <3>2 DEF HalInv, AllNumbered
    <2>2. r \in Requests /\ r.life = life /\ r.id \in Nat /\ r.seq \in Nat /\ SeqModulus \in Nat \ {0}
          /\ calls \in Nat /\ mSequence \in Nat
      BY <2>1, BoundsAssumption DEF Numbered, Requests, HalInv, TypeOK
    <2>3. r.seq = current.seq /\ current # NoRequest
      BY DEF Accepted, HalInv, CurrentRequest, Matches
    <2>4. current.id = calls /\ current.seq = mSequence
      BY <2>3 DEF HalInv, CurrentRequest
    <2>5. Drawn <= calls /\ Drawn \in Int
      BY <2>2 DEF Drawn
    <2>6. PICK k \in 0 .. Drawn - r.id, turns \in Nat :
                 r.seq + k = mSequence + turns * SeqModulus /\ k >= 1
      BY <2>1, <2>2, <2>3 DEF Numbered
    <2>7. k = turns * SeqModulus /\ turns # 0
      BY <2>2, <2>3, <2>4, <2>6
    <2>8. turns * SeqModulus >= SeqModulus
      BY <2>2, <2>7
    <2> QED
      BY <2>2, <2>4, <2>5, <2>6, <2>7, <2>8
  <1> QED
    BY <1>1, HalAlways, PTL
=============================================================================
