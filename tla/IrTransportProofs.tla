------------------------- MODULE IrTransportProofs -------------------------
(***************************************************************************)
(* What ir_transport_read believes of the driver is true, for any sizes of *)
(* ring, queue, chunks and reads, and any number of bytes and errors.      *)
(***************************************************************************)
EXTENDS IrTransport, FiniteSetTheorems, SequenceTheorems, TLAPS

-----------------------------------------------------------------------------
(* The inductive invariant.                                                *)

Events == {e \in [type : {"data", "fifo_ovf", "buffer_full", "line_error"}, size : Nat] :
             IF e.type = "data" THEN e.size >= 1 ELSE e.size = 0}

TypeOK ==
  /\ ring \in Seq(Int) /\ aside \in Seq(Int) /\ got \in Seq(Int)
  /\ events \in Seq(Events)
  /\ pending_bytes \in Nat /\ sent \in Nat /\ errors \in Nat
  /\ pc \in {"call", "wait", "take", "emptied"}
  /\ result \in Int
  /\ unseen \in BOOLEAN

\* Only a call that has found nothing announced looks at the queue.
Waits == /\ pc = "wait" => pending_bytes = 0
         /\ pc = "take" => pending_bytes >= 1

\* f counts what the first n events announce.
Adds(f, q, first) ==
  /\ f \in [0 .. Len(q) -> Nat]
  /\ f[0] = first
  /\ \A i \in 1 .. Len(q) : f[i] = f[i - 1] + q[i].size
  /\ \A i, j \in 0 .. Len(q) : i <= j => f[i] <= f[j]

Promised(f) == pc # "emptied" => \A i \in 0 .. Len(events) : f[i] <= Len(ring)

\* The first n events say nothing but that bytes have come.
DataUpTo(n) == \A i \in 1 .. n : events[i].type = "data"

\* The bytes handed over are those after number b, and so is what the ring holds of what is
\* announced before the first event that flushes it; without such an event it is all there is.
InOrder(f, b) ==
  /\ \A i \in DOMAIN got : got[i] = b + i
  /\ pc # "emptied" =>
       /\ \A n \in 0 .. Len(events) : DataUpTo(n) =>
             \A i \in 1 .. f[n] : ring[i] = b + Len(got) + i
       /\ DataUpTo(Len(events)) => /\ aside = <<>> /\ f[Len(events)] = Len(ring)
                                   /\ b + Len(got) + Len(ring) = sent
  /\ pc = "emptied" => ring = <<>> /\ aside = <<>>

Kept(f) == Promised(f) /\ (unseen \/ \E b \in Int : InOrder(f, b))

TransportInv ==
  /\ TypeOK /\ Waits
  /\ \E f \in [0 .. Len(events) -> Nat] : Adds(f, events, pending_bytes) /\ Kept(f)

-----------------------------------------------------------------------------
(* Sums.                                                                   *)

LEMMA LeastOf ==
  ASSUME NEW T \in SUBSET Nat, T # {}
  PROVE  \E x \in T : \A y \in T : x <= y
  <1> DEFINE F == {0 .. x : x \in T}
  <1>1. F \subseteq FiniteSubsetsOf(Nat)
    <2>1. \A x \in T : IsFiniteSet(0 .. x) /\ 0 .. x \in SUBSET Nat
      BY FS_Interval
    <2> QED
      BY <2>1 DEF FiniteSubsetsOf
  <1>2. F # {}
    OBVIOUS
  <1>3. PICK s \in F : \A t \in F : ~(<<t, s>> \in StrictSubsetOrdering(Nat))
    BY <1>1, <1>2, FS_StrictSubsetOrderingWellFounded, WFMin
  <1>4. PICK x \in T : s = 0 .. x
    OBVIOUS
  <1>5. ASSUME NEW y \in T, y < x PROVE FALSE
    <2> DEFINE t == 0 .. y
    <2>1. t \in SUBSET Nat /\ s \in SUBSET Nat /\ t \subseteq s /\ t \in F
      BY <1>4, <1>5
    <2>2. x \in s /\ x \notin t
      BY <1>4, <1>5
    <2> HIDE DEF t
    <2>3. <<t, s>> \in (SUBSET Nat) \X (SUBSET Nat) /\ <<t, s>>[1] = t /\ <<t, s>>[2] = s
      BY <2>1
    <2>4. <<t, s>> \in StrictSubsetOrdering(Nat)
      BY <2>1, <2>2, <2>3 DEF StrictSubsetOrdering
    <2> QED
      BY <1>3, <2>1, <2>4
  <1> QED
    BY <1>5

LEMMA TotalIs ==
  ASSUME NEW q, Len(q) \in Nat, NEW first, NEW f, Adds(f, q, first)
  PROVE  Totals(q, first)[Len(q)] = f[Len(q)]
  <1> DEFINE D == 0 .. Len(q)
             Is(g) == g = [n \in D |-> IF n = 0 THEN first ELSE g[n - 1] + q[n].size]
  <1>1. Is(f)
    BY DEF Adds
  <1>2. PICK g : g = Totals(q, first)
    OBVIOUS
  <1>3. Is(g)
    BY <1>1, <1>2 DEF Totals
  <1>4. \A n \in D : g[n] = f[n]
    <2> DEFINE T == {n \in D : g[n] # f[n]}
    <2> SUFFICES ASSUME T # {} PROVE FALSE
      OBVIOUS
    <2>0. T \in SUBSET Nat
      OBVIOUS
    <2>1. PICK n \in T : \A m \in T : n <= m
      <3> HIDE DEF T
      <3> QED
        BY <2>0, LeastOf
    <2>2. n \in Nat /\ n <= Len(q) /\ g[n] # f[n]
      BY <2>1
    <2>3. CASE n = 0
      BY <1>1, <1>3, <2>2, <2>3
    <2>4. CASE n # 0
      <3>1. n - 1 \in D /\ n - 1 \notin T
        BY <2>1, <2>2, <2>4
      <3>2. g[n - 1] = f[n - 1]
        BY <3>1
      <3>3. g[n] = g[n - 1] + q[n].size /\ f[n] = f[n - 1] + q[n].size
        BY <1>1, <1>3, <2>2, <2>4
      <3> QED
        BY <2>2, <3>2, <3>3
    <2> QED
      BY <2>3, <2>4
  <1> QED
    BY <1>2, <1>4

LEMMA LesserOf ==
  ASSUME NEW a \in Int, NEW b \in Int
  PROVE  Min({a, b}) = IF a <= b THEN a ELSE b
  <1> DEFINE m == IF a <= b THEN a ELSE b
  <1>1. m \in {a, b} /\ \A y \in {a, b} : m <= y
    OBVIOUS
  <1>2. \A x \in {a, b} : (\A y \in {a, b} : x <= y) => x = m
    OBVIOUS
  <1>3. Min({a, b}) \in {a, b} /\ \A y \in {a, b} : Min({a, b}) <= y
    BY <1>1 DEF Min
  <1> QED
    BY <1>2, <1>3

Extended(f, l, x) == [i \in 0 .. l + 1 |-> IF i <= l THEN f[i] ELSE x]
Shifted(f, l)     == [i \in 0 .. l - 1 |-> f[i + 1]]
Lowered(f, l, n)  == [i \in 0 .. l |-> f[i] - n]

\* One more event at the end.
LEMMA AddsMore ==
  ASSUME NEW q \in Seq(Events), NEW first \in Nat, NEW f, Adds(f, q, first), NEW e \in Events,
         NEW r, r = Append(q, e),
         NEW h, h = Extended(f, Len(q), f[Len(q)] + e.size)
  PROVE  /\ Adds(h, r, first) /\ h[Len(q) + 1] = f[Len(q)] + e.size
         /\ \A i \in 0 .. Len(q) : h[i] = f[i]
  <1>1. PICK l : l = Len(q)
    OBVIOUS
  <1>2. l \in Nat /\ Len(r) = l + 1 /\ r[l + 1] = e /\ \A i \in 1 .. l : r[i] = q[i]
    BY <1>1
  <1>3. /\ f \in [0 .. l -> Nat] /\ f[0] = first
        /\ \A i \in 1 .. l : f[i] = f[i - 1] + q[i].size
        /\ \A i, j \in 0 .. l : i <= j => f[i] <= f[j]
    BY <1>1 DEF Adds
  <1>4. e.size \in Nat
    BY DEF Events
  <1>5. h = [i \in 0 .. l + 1 |-> IF i <= l THEN f[i] ELSE f[l] + e.size]
    BY <1>1 DEF Extended
  <1>6. \A i \in 0 .. l : f[i] \in Nat /\ h[i] = f[i]
    BY <1>2, <1>3, <1>5
  <1>7. h[l + 1] = f[l] + e.size /\ f[l] \in Nat
    BY <1>2, <1>3, <1>5
  <1>8. h \in [0 .. l + 1 -> Nat]
    BY <1>2, <1>3, <1>4, <1>5
  <1>9. ASSUME NEW i \in 1 .. l + 1 PROVE h[i] = h[i - 1] + r[i].size
    <2>1. CASE i = l + 1
      BY <1>2, <1>6, <1>7, <2>1
    <2>2. CASE i # l + 1
      <3>1. i \in 1 .. l /\ i \in 0 .. l /\ i - 1 \in 0 .. l
        BY <1>2, <2>2
      <3> QED
        BY <1>2, <1>3, <1>6, <3>1
    <2> QED
      BY <2>1, <2>2
  <1>10. ASSUME NEW i \in 0 .. l + 1, NEW j \in 0 .. l + 1, i <= j PROVE h[i] <= h[j]
    <2>1. CASE j = l + 1
      <3>1. CASE i = l + 1
        BY <1>4, <1>7, <1>10, <2>1, <3>1
      <3>2. CASE i # l + 1
        <4>1. i \in 0 .. l /\ l \in 0 .. l /\ i <= l
          BY <1>2, <3>2
        <4>2. f[i] <= f[l] /\ f[i] \in Nat
          BY <1>3, <1>6, <4>1
        <4>3. h[i] = f[i] /\ h[j] = f[l] + e.size
          BY <1>6, <1>7, <2>1, <4>1
        <4>4. PICK x, y, z : x = f[i] /\ y = f[l] /\ z = e.size
          OBVIOUS
        <4>5. x \in Nat /\ y \in Nat /\ z \in Nat /\ x <= y
          BY <1>4, <1>7, <4>2, <4>4
        <4> QED
          BY <4>3, <4>4, <4>5
      <3> QED
        BY <3>1, <3>2
    <2>2. CASE j # l + 1
      <3>1. i \in 0 .. l /\ j \in 0 .. l
        BY <1>2, <1>10, <2>2
      <3> QED
        BY <1>3, <1>6, <1>10, <3>1
    <2> QED
      BY <2>1, <2>2
  <1>11. h[0] = first
    BY <1>2, <1>3, <1>6
  <1> QED
    BY <1>1, <1>2, <1>6, <1>7, <1>8, <1>9, <1>10, <1>11 DEF Adds

\* The first event is taken and what it announced counted.
LEMMA AddsTaken ==
  ASSUME NEW q \in Seq(Events), q # <<>>, NEW f, Adds(f, q, 0),
         NEW r, r = Tail(q), NEW h, h = Shifted(f, Len(q))
  PROVE  /\ Adds(h, r, Head(q).size) /\ r \in Seq(Events) /\ Len(r) = Len(q) - 1
         /\ \A i \in 0 .. Len(r) : h[i] = f[i + 1] /\ i + 1 \in 0 .. Len(q)
         /\ \A i \in 1 .. Len(r) : r[i] = q[i + 1]
  <1>1. PICK l : l = Len(q)
    OBVIOUS
  <1>2. l \in Nat \ {0} /\ Len(r) = l - 1 /\ \A i \in 1 .. l - 1 : r[i] = q[i + 1]
    BY <1>1
  <1>3. /\ f \in [0 .. l -> Nat] /\ f[0] = 0
        /\ \A i \in 1 .. l : f[i] = f[i - 1] + q[i].size
        /\ \A i, j \in 0 .. l : i <= j => f[i] <= f[j]
    BY <1>1 DEF Adds
  <1>4. Head(q) = q[1] /\ q[1] \in Events
    BY <1>1, <1>2
  <1>5. q[1].size \in Nat
    BY <1>4 DEF Events
  <1>6. h = [i \in 0 .. l - 1 |-> f[i + 1]]
    BY <1>1 DEF Shifted
  <1>7. h \in [0 .. l - 1 -> Nat] /\ \A i \in 0 .. l - 1 : h[i] = f[i + 1] /\ i + 1 \in 0 .. l
    BY <1>2, <1>3, <1>6
  <1>8. h[0] = q[1].size
    <2>1. f[1] = f[0] + q[1].size
      BY <1>2, <1>3
    <2> QED
      BY <1>2, <1>3, <1>5, <1>7, <2>1
  <1>9. ASSUME NEW i \in 1 .. l - 1 PROVE h[i] = h[i - 1] + r[i].size
    <2>1. i \in 0 .. l - 1 /\ i - 1 \in 0 .. l - 1 /\ i + 1 \in 1 .. l /\ (i + 1) - 1 = i /\ (i - 1) + 1 = i
      BY <1>2
    <2>2. f[i + 1] = f[(i + 1) - 1] + q[i + 1].size
      BY <1>3, <2>1
    <2> QED
      BY <1>2, <1>7, <2>1, <2>2
  <1>10. ASSUME NEW i \in 0 .. l - 1, NEW j \in 0 .. l - 1, i <= j PROVE h[i] <= h[j]
    <2>1. i + 1 \in 0 .. l /\ j + 1 \in 0 .. l /\ i + 1 <= j + 1
      BY <1>2, <1>10
    <2> QED
      BY <1>3, <1>7, <2>1
  <1>11. r \in Seq(Events) /\ 0 .. Len(r) = 0 .. l - 1 /\ 1 .. Len(r) = 1 .. l - 1
    BY <1>2
  <1>12. Adds(h, r, Head(q).size)
    BY <1>2, <1>4, <1>7, <1>8, <1>9, <1>10 DEF Adds
  <1> QED
    BY <1>1, <1>2, <1>7, <1>11, <1>12

\* n of the bytes announced are read.
LEMMA AddsLess ==
  ASSUME NEW q \in Seq(Events), NEW first \in Nat, NEW f, Adds(f, q, first), NEW n \in 0 .. first,
         NEW h, h = Lowered(f, Len(q), n)
  PROVE  Adds(h, q, first - n) /\ \A i \in 0 .. Len(q) : h[i] = f[i] - n /\ f[i] \in Nat /\ f[i] >= n
  <1>1. PICK l : l = Len(q)
    OBVIOUS
  <1>2. /\ f \in [0 .. l -> Nat] /\ f[0] = first
        /\ \A i \in 1 .. l : f[i] = f[i - 1] + q[i].size
        /\ \A i, j \in 0 .. l : i <= j => f[i] <= f[j]
    BY <1>1 DEF Adds
  <1>3. l \in Nat /\ \A i \in 1 .. l : q[i].size \in Nat
    BY <1>1 DEF Events
  <1>4. \A i \in 0 .. l : f[i] \in Nat /\ f[i] >= n /\ h[i] = f[i] - n
    BY <1>1, <1>2, <1>3 DEF Lowered
  <1>5. h \in [0 .. l -> Nat] /\ h[0] = first - n
    <2>1. \A i \in 0 .. l : h[i] \in Nat
      BY <1>4
    <2>2. h = [i \in 0 .. l |-> f[i] - n]
      BY <1>1 DEF Lowered
    <2> QED
      BY <1>2, <1>3, <1>4, <2>1, <2>2
  <1>6. ASSUME NEW i \in 1 .. l PROVE h[i] = h[i - 1] + q[i].size
    <2>1. i \in 0 .. l /\ i - 1 \in 0 .. l
      BY <1>3
    <2>2. f[i] = f[i - 1] + q[i].size
      BY <1>2
    <2>3. PICK x, y, z : x = f[i] /\ y = f[i - 1] /\ z = q[i].size
      OBVIOUS
    <2>4. x \in Nat /\ y \in Nat /\ z \in Nat /\ x = y + z /\ n \in Nat
      BY <1>3, <1>4, <2>1, <2>2, <2>3
    <2>5. h[i] = x - n /\ h[i - 1] = y - n
      BY <1>4, <2>1, <2>3
    <2>6. x - n = (y - n) + z
      BY ONLY <2>4
    <2> QED
      BY <2>3, <2>5, <2>6
  <1>7. ASSUME NEW i \in 0 .. l, NEW j \in 0 .. l, i <= j PROVE h[i] <= h[j]
    <2>1. PICK x, y : x = f[i] /\ y = f[j]
      OBVIOUS
    <2>2. x \in Nat /\ y \in Nat /\ x <= y /\ n \in Nat /\ h[i] = x - n /\ h[j] = y - n
      BY <1>2, <1>4, <1>7, <2>1
    <2> QED
      BY <2>2
  <1> QED
    BY <1>1, <1>4, <1>5, <1>6, <1>7 DEF Adds

-----------------------------------------------------------------------------
(* The driver.                                                             *)

LEMMA Starts == Init => TransportInv
  <1> SUFFICES ASSUME Init PROVE TransportInv
    OBVIOUS
  <1>1. TypeOK /\ Waits
    <2>1. /\ ring = <<>> /\ aside = <<>> /\ got = <<>> /\ events = <<>> /\ pending_bytes = 0
          /\ sent = 0 /\ errors = 0 /\ pc = "call" /\ result = 0 /\ unseen = FALSE
      BY DEF Init
    <2>2. ring \in Seq(Int) /\ aside \in Seq(Int) /\ got \in Seq(Int) /\ events \in Seq(Events)
      BY <2>1
    <2>3. pending_bytes \in Nat /\ sent \in Nat /\ errors \in Nat /\ result \in Int
      BY <2>1
    <2>4. pc \in {"call", "wait", "take", "emptied"} /\ pc # "wait" /\ pc # "take"
      BY <2>1
    <2>5. unseen \in BOOLEAN
      BY <2>1, Zenon
    <2>6. TypeOK
      BY <2>2, <2>3, <2>4, <2>5 DEF TypeOK
    <2> QED
      BY <2>4, <2>6 DEF Waits
  <1>2. PICK f : f = [i \in 0 .. 0 |-> 0]
    OBVIOUS
  <1>3. Len(events) = 0 /\ pending_bytes = 0 /\ Len(ring) = 0 /\ Len(got) = 0 /\ sent = 0
        /\ aside = <<>> /\ pc = "call" /\ DOMAIN got = {}
    BY DEF Init
  <1>4. f \in [0 .. Len(events) -> Nat] /\ Adds(f, events, pending_bytes)
    BY <1>2, <1>3 DEF Adds
  <1>5. Promised(f)
    BY <1>2, <1>3 DEF Promised
  <1>6. InOrder(f, 0)
    BY <1>2, <1>3 DEF InOrder
  <1> QED
    BY <1>1, <1>4, <1>5, <1>6 DEF TransportInv, Kept

\* An event is lost and seen to be lost, or stands behind the others.
LEMMA Posted ==
  ASSUME TypeOK, NEW f \in [0 .. Len(events) -> Nat], Adds(f, events, pending_bytes),
         NEW e \in Events, Post(e), pending_bytes' = pending_bytes
  PROVE  /\ events' \in Seq(Events)
         /\ \E h \in [0 .. Len(events') -> Nat] :
              /\ Adds(h, events', pending_bytes')
              /\ \/ events' = events /\ h = f /\ unseen'
                 \/ /\ events' = Append(events, e) /\ Len(events') = Len(events) + 1
                    /\ h[Len(events) + 1] = f[Len(events)] + e.size
                    /\ \A i \in 0 .. Len(events) : h[i] = f[i]
         /\ ~unseen' => ~unseen /\ pc # "emptied" /\ events' = Append(events, e)
         /\ unseen' \in BOOLEAN
  <1>1. events \in Seq(Events) /\ Len(events) \in Nat /\ pending_bytes \in Nat /\ unseen \in BOOLEAN
    BY DEF TypeOK
  <1>2. ~unseen' => ~unseen /\ pc # "emptied" /\ events' = Append(events, e)
    BY DEF Post
  <1>3. unseen' \in BOOLEAN
    BY DEF Post
  <1>4. CASE Len(events) < QueueSize
    <2>1. PICK r : r = Append(events, e)
      OBVIOUS
    <2>2. events' = r /\ r \in Seq(Events) /\ Len(r) = Len(events) + 1
      BY <1>1, <1>4, <2>1 DEF Post
    <2>3. PICK h : h = Extended(f, Len(events), f[Len(events)] + e.size)
      OBVIOUS
    <2>4. /\ Adds(h, r, pending_bytes) /\ h[Len(events) + 1] = f[Len(events)] + e.size
          /\ \A i \in 0 .. Len(events) : h[i] = f[i]
      BY <1>1, <2>1, <2>3, AddsMore
    <2>6. h \in [0 .. Len(r) -> Nat]
      BY <2>4 DEF Adds
    <2> QED
      BY <1>2, <1>3, <2>1, <2>2, <2>4, <2>6
  <1>5. CASE ~(Len(events) < QueueSize)
    <2>1. events' = events /\ unseen'
      BY <1>5 DEF Post
    <2> QED
      BY <1>1, <1>2, <1>3, <2>1
  <1> QED
    BY <1>4, <1>5

\* An event other than data, while the ring stays as it is.
LEMMA ErrorPosted ==
  ASSUME TransportInv, NEW e \in Events, e.type # "data", Post(e),
         UNCHANGED <<ring, pending_bytes, pc, got>>
  PROVE  /\ events' \in Seq(Events) /\ unseen' \in BOOLEAN
         /\ \E f \in [0 .. Len(events') -> Nat] : Adds(f, events', pending_bytes') /\ Kept(f)'
  <1>1. TypeOK /\ events \in Seq(Events) /\ Len(events) \in Nat /\ Len(ring) \in Nat
    BY DEF TransportInv, TypeOK
  <1>2. PICK f \in [0 .. Len(events) -> Nat] : Adds(f, events, pending_bytes) /\ Kept(f)
    BY DEF TransportInv
  <1>3. events' \in Seq(Events) /\ unseen' \in BOOLEAN
        /\ (~unseen' => ~unseen /\ pc # "emptied" /\ events' = Append(events, e))
    BY <1>1, <1>2, Posted
  <1>4. PICK h \in [0 .. Len(events') -> Nat] :
              /\ Adds(h, events', pending_bytes')
              /\ \/ events' = events /\ h = f /\ unseen'
                 \/ /\ events' = Append(events, e) /\ Len(events') = Len(events) + 1
                    /\ h[Len(events) + 1] = f[Len(events)] + e.size
                    /\ \A i \in 0 .. Len(events) : h[i] = f[i]
    BY <1>1, <1>2, Posted
  <1>5. Promised(h)'
    <2> SUFFICES ASSUME pc # "emptied", NEW i \in 0 .. Len(events') PROVE h[i] <= Len(ring)
      BY DEF Promised
    <2>1. \A j \in 0 .. Len(events) : f[j] <= Len(ring)
      BY <1>2 DEF Kept, Promised
    <2>2. CASE i \in 0 .. Len(events)
      BY <1>4, <2>1, <2>2
    <2>3. CASE i \notin 0 .. Len(events)
      <3>1. i = Len(events) + 1 /\ h[i] = f[Len(events)] + e.size
        BY <1>1, <1>4, <2>3
      <3>2. e.size = 0 /\ Len(events) \in 0 .. Len(events) /\ f[Len(events)] \in Nat
        BY <1>1, <1>2 DEF Events
      <3> QED
        BY <2>1, <3>1, <3>2
    <2> QED
      BY <2>2, <2>3
  <1>6. ASSUME ~unseen' PROVE \E b \in Int : InOrder(h, b)'
    <2>1. PICK b \in Int : InOrder(f, b)
      BY <1>2, <1>3, <1>6 DEF Kept
    <2>2. /\ events' = Append(events, e) /\ Len(events') = Len(events) + 1
          /\ \A i \in 0 .. Len(events) : h[i] = f[i]
      BY <1>1, <1>3, <1>4, <1>6
    <2>3. /\ events'[Len(events) + 1] = e
          /\ \A i \in 1 .. Len(events) : events'[i] = events[i]
      BY <1>1, <2>2
    <2>4. \A n \in 0 .. Len(events') : DataUpTo(n)' => n \in 0 .. Len(events) /\ DataUpTo(n)
      <3> SUFFICES ASSUME NEW n \in 0 .. Len(events'), DataUpTo(n)'
                   PROVE  n \in 0 .. Len(events) /\ DataUpTo(n)
        OBVIOUS
      <3>1. n # Len(events) + 1
        <4> SUFFICES ASSUME n = Len(events) + 1 PROVE FALSE
          OBVIOUS
        <4>1. n \in 1 .. n
          BY <1>1
        <4>2. events'[n].type = "data"
          BY <4>1 DEF DataUpTo
        <4> QED
          BY <2>3, <4>2
      <3>2. n \in 0 .. Len(events)
        BY <1>1, <2>2, <3>1
      <3>3. \A i \in 1 .. n : i \in 1 .. Len(events)
        BY <1>1, <3>2
      <3>4. DataUpTo(n)
        BY <2>3, <3>3 DEF DataUpTo
      <3> QED
        BY <3>2, <3>4
    <2>5. ~DataUpTo(Len(events))'
      BY <1>1, <2>2, <2>4
    <2>6. \A i \in DOMAIN got' : got'[i] = b + i
      BY <2>1 DEF InOrder
    <2>7. pc # "emptied"
      BY <1>3, <1>6
    <2>8. \A n \in 0 .. Len(events') : DataUpTo(n)' =>
             \A i \in 1 .. h[n] : ring'[i] = b + Len(got') + i
      BY <2>1, <2>2, <2>4, <2>7 DEF InOrder
    <2> QED
      BY <2>5, <2>6, <2>7, <2>8 DEF InOrder
  <1>7. Kept(h)'
    BY <1>5, <1>6 DEF Kept
  <1> QED
    BY <1>3, <1>4, <1>7

LEMMA TypesOf ==
  ASSUME TypeOK
  PROVE  /\ ring \in Seq(Int) /\ aside \in Seq(Int) /\ got \in Seq(Int) /\ events \in Seq(Events)
         /\ Len(ring) \in Nat /\ Len(aside) \in Nat /\ Len(got) \in Nat /\ Len(events) \in Nat
         /\ DOMAIN got = 1 .. Len(got)
         /\ pending_bytes \in Nat /\ sent \in Nat /\ errors \in Nat
  BY DEF TypeOK

\* The bytes that come are put into the ring.
LEMMA RingedStep ==
  ASSUME TransportInv, NEW n \in Nat, n >= 1, aside = <<>>,
         sent' = sent + n, ring' = ring \o Bytes(n), Post(DataEvent(n)),
         UNCHANGED <<aside, errors, pending_bytes, pc, result, got>>
  PROVE  TransportInv'
  <1> DEFINE e == DataEvent(n)
  <1>1. /\ TypeOK /\ Waits
        /\ ring \in Seq(Int) /\ got \in Seq(Int) /\ events \in Seq(Events)
        /\ Len(ring) \in Nat /\ Len(got) \in Nat /\ Len(events) \in Nat
        /\ DOMAIN got = 1 .. Len(got)
        /\ pending_bytes \in Nat /\ sent \in Nat /\ errors \in Nat
    BY TypesOf DEF TransportInv
  <1>2. e \in Events /\ e.type = "data" /\ e.size = n
    BY DEF DataEvent, Events
  <1>3. PICK f \in [0 .. Len(events) -> Nat] : Adds(f, events, pending_bytes) /\ Kept(f)
    BY DEF TransportInv
  <1> HIDE DEF e
  <1>4. Post(e)
    BY DEF e
  <1>5. events' \in Seq(Events) /\ unseen' \in BOOLEAN
        /\ (~unseen' => ~unseen /\ pc # "emptied" /\ events' = Append(events, e))
    BY <1>1, <1>2, <1>3, <1>4, Posted
  <1>6. PICK h \in [0 .. Len(events') -> Nat] :
              /\ Adds(h, events', pending_bytes')
              /\ \/ events' = events /\ h = f /\ unseen'
                 \/ /\ events' = Append(events, e) /\ Len(events') = Len(events) + 1
                    /\ h[Len(events) + 1] = f[Len(events)] + e.size
                    /\ \A i \in 0 .. Len(events) : h[i] = f[i]
    BY <1>1, <1>2, <1>3, <1>4, Posted
  <1>7. /\ Bytes(n) \in Seq(Int) /\ Len(Bytes(n)) = n
        /\ \A i \in 1 .. n : Bytes(n)[i] = sent + i
    BY <1>1 DEF Bytes
  <1>8. /\ ring' \in Seq(Int) /\ Len(ring') = Len(ring) + n
        /\ \A i \in 1 .. Len(ring) : ring'[i] = ring[i]
        /\ \A i \in 1 .. n : ring'[Len(ring) + i] = sent + i
    <2>1. PICK b : b = Bytes(n)
      OBVIOUS
    <2>2. b \in Seq(Int) /\ Len(b) = n /\ ring' = ring \o b
      BY <1>7, <2>1
    <2>3. ring' \in Seq(Int) /\ Len(ring') = Len(ring) + n
      <3>1. ring \in Seq(Int) /\ b \in Seq(Int)
        BY <1>1, <2>2
      <3>2. ring \o b \in Seq(Int) /\ Len(ring \o b) = Len(ring) + Len(b)
        BY ONLY <3>1, ConcatProperties
      <3>3. ring' \in Seq(Int)
        BY <2>2, <3>2, Zenon
      <3>4. Len(ring') = Len(ring) + Len(b)
        BY <2>2, <3>2, Zenon
      <3> QED
        BY <2>2, <3>3, <3>4
    <2>4. \A i \in 1 .. Len(ring) : ring'[i] = ring[i]
      BY <1>1, <2>2
    <2>5. ASSUME NEW i \in 1 .. n PROVE ring'[Len(ring) + i] = b[i]
      <3>1. Len(ring) + i \in 1 .. Len(ring) + n /\ ~(Len(ring) + i <= Len(ring))
            /\ (Len(ring) + i) - Len(ring) = i
        BY <1>1
      <3> QED
        BY <1>1, <2>2, <3>1
    <2> QED
      BY <1>7, <2>1, <2>3, <2>4, <2>5
  <1>9. (TypeOK /\ Waits)'
    <2>1. TypeOK'
      <3>1. sent' \in Nat /\ errors' \in Nat /\ pending_bytes' \in Nat
        BY <1>1
      <3> QED
        BY <1>1, <1>5, <1>8, <3>1 DEF TypeOK
    <2> QED
      BY <1>1, <2>1 DEF Waits
  <1>10. Promised(h)'
    <2> SUFFICES ASSUME pc # "emptied", NEW i \in 0 .. Len(events') PROVE h[i] <= Len(ring')
      BY DEF Promised
    <2>1. \A j \in 0 .. Len(events) : f[j] <= Len(ring) /\ f[j] \in Nat
      BY <1>3 DEF Kept, Promised
    <2>2. CASE i \in 0 .. Len(events)
      <3>1. h[i] = f[i] /\ f[i] <= Len(ring) /\ f[i] \in Nat
        BY <1>6, <2>1, <2>2
      <3> QED
        BY <1>1, <1>8, <3>1
    <2>3. CASE i \notin 0 .. Len(events)
      <3>1. i = Len(events) + 1 /\ h[i] = f[Len(events)] + n
        BY <1>1, <1>2, <1>6, <2>3
      <3>2. f[Len(events)] <= Len(ring) /\ f[Len(events)] \in Nat
        BY <1>1, <2>1
      <3> QED
        BY <1>1, <1>8, <3>1, <3>2
    <2> QED
      BY <2>2, <2>3
  <1>11. ASSUME ~unseen' PROVE \E b \in Int : InOrder(h, b)'
    <2>1. PICK b \in Int : InOrder(f, b)
      BY <1>3, <1>5, <1>11 DEF Kept
    <2>2. /\ events' = Append(events, e) /\ Len(events') = Len(events) + 1
          /\ h[Len(events) + 1] = f[Len(events)] + n
          /\ \A i \in 0 .. Len(events) : h[i] = f[i]
      BY <1>1, <1>2, <1>5, <1>6, <1>11
    <2>3. /\ events'[Len(events) + 1] = e
          /\ \A i \in 1 .. Len(events) : events'[i] = events[i]
      BY <1>1, <2>2
    <2>4. pc # "emptied"
      BY <1>5, <1>11
    <2>5. \A m \in 0 .. Len(events') : DataUpTo(m)' /\ m # Len(events) + 1 =>
             m \in 0 .. Len(events) /\ DataUpTo(m)
      <3> SUFFICES ASSUME NEW m \in 0 .. Len(events'), DataUpTo(m)', m # Len(events) + 1
                   PROVE  m \in 0 .. Len(events) /\ DataUpTo(m)
        OBVIOUS
      <3>1. m \in 0 .. Len(events)
        BY <1>1, <2>2
      <3>2. \A i \in 1 .. m : i \in 1 .. Len(events)
        BY <1>1, <3>1
      <3> QED
        BY <2>3, <3>1, <3>2 DEF DataUpTo
    <2>6. ASSUME \A i \in 1 .. Len(events) + 1 : events'[i].type = "data"
          PROVE  /\ DataUpTo(Len(events)) /\ f[Len(events)] = Len(ring)
                 /\ b + Len(got) + Len(ring) = sent
      <3>1. \A i \in 1 .. Len(events) : events'[i].type = "data"
        BY <1>1, <2>6
      <3>2. DataUpTo(Len(events))
        BY <2>3, <3>1 DEF DataUpTo
      <3> QED
        BY <2>1, <2>4, <3>2 DEF InOrder
    <2>7. \A i \in DOMAIN got' : got'[i] = b + i
      BY <2>1 DEF InOrder
    <2>8. ASSUME NEW m \in 0 .. Len(events'), DataUpTo(m)', NEW i \in 1 .. h[m]
          PROVE  ring'[i] = b + Len(got') + i
      <3>1. CASE m # Len(events) + 1
        <4>1. m \in 0 .. Len(events) /\ DataUpTo(m) /\ h[m] = f[m]
          BY <2>2, <2>5, <2>8, <3>1
        <4>2. ring[i] = b + Len(got) + i
          BY <2>1, <2>4, <2>8, <4>1 DEF InOrder
        <4>3. f[m] <= Len(ring) /\ f[m] \in Nat
          BY <1>3, <2>4, <4>1 DEF Kept, Promised
        <4>4. i \in 1 .. Len(ring)
          BY <1>1, <2>8, <4>1, <4>3
        <4> QED
          BY <1>8, <4>2, <4>4
      <3>2. CASE m = Len(events) + 1
        <4>1. DataUpTo(Len(events)) /\ f[Len(events)] = Len(ring) /\ b + Len(got) + Len(ring) = sent
          BY <2>6, <2>8, <3>2 DEF DataUpTo
        <4>2. h[m] = Len(ring) + n
          BY <2>2, <3>2, <4>1
        <4>3. CASE i \in 1 .. Len(ring)
          <5>1. ring[i] = b + Len(got) + i
            <6>1. Len(events) \in 0 .. Len(events)
              BY <1>1
            <6> QED
              BY <2>1, <2>4, <4>1, <4>3, <6>1 DEF InOrder
          <5> QED
            BY <1>8, <4>3, <5>1
        <4>4. CASE i \notin 1 .. Len(ring)
          <5>1. PICK j : j = i - Len(ring)
            OBVIOUS
          <5>2. j \in 1 .. n /\ i = Len(ring) + j
            BY <1>1, <2>8, <4>2, <4>4, <5>1
          <5>3. ring'[i] = sent + j
            BY <1>8, <5>2
          <5>4. PICK x, y : x = Len(ring) /\ y = Len(got)
            OBVIOUS
          <5>5. x \in Nat /\ y \in Nat /\ j \in Nat /\ b + y + x = sent /\ i = x + j
            BY <1>1, <4>1, <5>2, <5>4
          <5>6. sent + j = b + y + i
            BY <1>1, <5>5
          <5> QED
            BY <5>3, <5>4, <5>6
        <4> QED
          BY <4>3, <4>4
      <3> QED
        BY <3>1, <3>2
    <2>9. ASSUME DataUpTo(Len(events))'
          PROVE  /\ aside' = <<>> /\ h[Len(events')] = Len(ring')
                 /\ b + Len(got') + Len(ring') = sent'
      <3>1. \A i \in 1 .. Len(events) + 1 : events'[i].type = "data"
        BY <2>2, <2>9 DEF DataUpTo
      <3>2. f[Len(events)] = Len(ring) /\ b + Len(got) + Len(ring) = sent
        BY <2>6, <3>1
      <3>3. h[Len(events')] = f[Len(events)] + n
        BY <2>2
      <3>4. got' = got /\ sent' = sent + n /\ aside' = <<>>
        OBVIOUS
      <3>5. PICK x, y : x = Len(ring) /\ y = Len(got)
        OBVIOUS
      <3>6. x \in Nat /\ y \in Nat /\ b + y + x = sent
        BY <1>1, <3>2, <3>5
      <3>7. b + y + (x + n) = sent + n
        BY <1>1, <3>6
      <3> QED
        BY <1>8, <3>2, <3>3, <3>4, <3>5, <3>7
    <2> QED
      BY <2>4, <2>7, <2>8, <2>9 DEF InOrder
  <1>12. Kept(h)'
    BY <1>10, <1>11 DEF Kept
  <1> QED
    BY <1>6, <1>9, <1>12 DEF TransportInv

LEMMA ChunkSize ==
  ASSUME TypeOK, NEW n \in 1 .. Min({ChunkMax, MaxBytes - sent})
  PROVE  n \in Nat /\ n >= 1
  <1>1. ChunkMax \in Int /\ MaxBytes - sent \in Int
    BY SizesAssumption DEF TypeOK
  <1>2. Min({ChunkMax, MaxBytes - sent}) \in Int
    BY <1>1, LesserOf
  <1> QED
    BY <1>2

LEMMA ErrorEvents == \A t \in Flushing : Event(t) \in Events /\ Event(t).type # "data"
  BY DEF Flushing, Event, Events

LEMMA ReceiveStep ==
  ASSUME TransportInv, Receive
  PROVE  TransportInv'
  <1>1. PICK n \in 1 .. Min({ChunkMax, MaxBytes - sent}) :
          /\ sent' = sent + n
          /\ IF Len(ring) + n <= RingSize
             THEN ring' = ring \o Bytes(n) /\ UNCHANGED aside /\ Post(DataEvent(n))
             ELSE aside' = Bytes(n) /\ UNCHANGED ring /\ Post(Event("buffer_full"))
    BY DEF Receive
  <1>2. aside = <<>> /\ UNCHANGED <<errors, pending_bytes, pc, result, got>>
    BY DEF Receive
  <1>3. TypeOK /\ Waits
    BY DEF TransportInv
  <1>4. n \in Nat /\ n >= 1
    BY <1>3, ChunkSize
  <1>5. CASE Len(ring) + n <= RingSize
    BY <1>1, <1>2, <1>4, <1>5, RingedStep
  <1>6. CASE ~(Len(ring) + n <= RingSize)
    <2>1. aside' = Bytes(n) /\ UNCHANGED ring /\ Post(Event("buffer_full"))
      BY <1>1, <1>6
    <2>2. Event("buffer_full") \in Events /\ Event("buffer_full").type # "data"
      BY ErrorEvents DEF Flushing
    <2>3. /\ events' \in Seq(Events) /\ unseen' \in BOOLEAN
          /\ \E f \in [0 .. Len(events') -> Nat] : Adds(f, events', pending_bytes') /\ Kept(f)'
      BY <1>2, <2>1, <2>2, ErrorPosted
    <2>4. sent \in Nat /\ aside' \in Seq(Int) /\ sent' \in Nat
      BY <1>1, <1>3, <1>4, <2>1 DEF TypeOK, Bytes
    <2>5. (TypeOK /\ Waits)'
      BY <1>2, <1>3, <2>1, <2>3, <2>4 DEF TypeOK, Waits
    <2> QED
      BY <2>3, <2>5 DEF TransportInv
  <1> QED
    BY <1>5, <1>6

LEMMA OverflowStep ==
  ASSUME TransportInv, Overflow
  PROVE  TransportInv'
  <1>1. PICK n \in 1 .. Min({ChunkMax, MaxBytes - sent}) : sent' = sent + n
    BY DEF Overflow
  <1>2. Post(Event("fifo_ovf")) /\ UNCHANGED <<ring, aside, errors, pending_bytes, pc, result, got>>
    BY DEF Overflow
  <1>3. TypeOK /\ Waits
    BY DEF TransportInv
  <1>4. n \in Nat
    BY <1>3, ChunkSize
  <1>5. Event("fifo_ovf") \in Events /\ Event("fifo_ovf").type # "data"
    BY ErrorEvents DEF Flushing
  <1>6. /\ events' \in Seq(Events) /\ unseen' \in BOOLEAN
        /\ \E f \in [0 .. Len(events') -> Nat] : Adds(f, events', pending_bytes') /\ Kept(f)'
    BY <1>2, <1>5, ErrorPosted
  <1>7. sent' \in Nat
    BY <1>1, <1>3, <1>4 DEF TypeOK
  <1>8. (TypeOK /\ Waits)'
    BY <1>2, <1>3, <1>6, <1>7 DEF TypeOK, Waits
  <1> QED
    BY <1>6, <1>8 DEF TransportInv

LEMMA LineErrorStep ==
  ASSUME TransportInv, LineError
  PROVE  TransportInv'
  <1>1. /\ errors' = errors + 1 /\ Post(Event("line_error"))
        /\ UNCHANGED <<ring, aside, sent, pending_bytes, pc, result, got>>
    BY DEF LineError
  <1>2. TypeOK /\ Waits
    BY DEF TransportInv
  <1>3. Event("line_error") \in Events /\ Event("line_error").type # "data"
    BY ErrorEvents DEF Flushing
  <1>4. /\ events' \in Seq(Events) /\ unseen' \in BOOLEAN
        /\ \E f \in [0 .. Len(events') -> Nat] : Adds(f, events', pending_bytes') /\ Kept(f)'
    BY <1>1, <1>3, ErrorPosted
  <1>5. errors' \in Nat
    BY <1>1, <1>2 DEF TypeOK
  <1>6. (TypeOK /\ Waits)'
    BY <1>1, <1>2, <1>4, <1>5 DEF TypeOK, Waits
  <1> QED
    BY <1>4, <1>6 DEF TransportInv

-----------------------------------------------------------------------------
(* ir_transport_read.                                                      *)

\* The calls that wait and return touch nothing the driver owns.
LEMMA PcStep ==
  ASSUME TransportInv, UNCHANGED <<driverVars, pending_bytes, got>>, result' \in Int,
         pc # "emptied", pc' \in {"call", "wait", "take"},
         pc' = "wait" => pending_bytes = 0, pc' = "take" => pending_bytes # 0
  PROVE  TransportInv'
  <1>1. TypeOK /\ pending_bytes \in Nat
    BY DEF TransportInv, TypeOK
  <1>2. PICK f \in [0 .. Len(events) -> Nat] : Adds(f, events, pending_bytes) /\ Kept(f)
    BY DEF TransportInv
  <1>3. UNCHANGED <<ring, aside, events, sent, errors, unseen, pending_bytes, got>>
    BY DEF driverVars
  <1>4. (TypeOK /\ Waits)'
    BY <1>1, <1>3 DEF TypeOK, Waits
  <1>5. Adds(f, events', pending_bytes')
    BY <1>2, <1>3
  <1>6. Kept(f)'
    <2>1. pc' # "emptied"
      OBVIOUS
    <2>2. Promised(f)'
      BY <1>2, <1>3 DEF Kept, Promised
    <2>3. ASSUME NEW b \in Int, InOrder(f, b) PROVE InOrder(f, b)'
      BY <1>3, <2>1, <2>3 DEF InOrder, DataUpTo
    <2> QED
      BY <1>2, <1>3, <2>2, <2>3 DEF Kept
  <1> QED
    BY <1>2, <1>3, <1>4, <1>5, <1>6 DEF TransportInv

LEMMA EnterStep ==
  ASSUME TransportInv, Enter
  PROVE  TransportInv'
  <1>1. TypeOK
    BY DEF TransportInv
  <1>2. /\ pc = "call" /\ UNCHANGED <<driverVars, pending_bytes, got>> /\ result' \in Int
        /\ pc' = IF pending_bytes = 0 THEN "wait" ELSE "take"
    BY <1>1 DEF Enter, TypeOK
  <1>3. /\ pc # "emptied" /\ pc' \in {"call", "wait", "take"}
        /\ pc' = "wait" => pending_bytes = 0
        /\ pc' = "take" => pending_bytes # 0
    BY <1>2
  <1> QED
    BY <1>2, <1>3, PcStep

LEMMA WaitOverStep ==
  ASSUME TransportInv, WaitOver
  PROVE  TransportInv'
  <1>1. /\ pc # "emptied" /\ UNCHANGED <<driverVars, pending_bytes, got>> /\ result' \in Int
        /\ pc' = "call" /\ pc' \in {"call", "wait", "take"}
    BY DEF WaitOver
  <1> QED
    BY <1>1, PcStep

\* What the queue says next is taken off it.
LEMMA Taken ==
  ASSUME TransportInv, pc = "wait", events # <<>>, events' = Tail(events)
  PROVE  \E f \in [0 .. Len(events) -> Nat], h \in [0 .. Len(events') -> Nat] :
           /\ Adds(f, events, 0) /\ Kept(f) /\ Adds(h, events', Head(events).size)
           /\ events' \in Seq(Events) /\ Len(events') = Len(events) - 1
           /\ \A i \in 0 .. Len(events') : h[i] = f[i + 1] /\ i + 1 \in 0 .. Len(events)
           /\ \A i \in 1 .. Len(events') : events'[i] = events[i + 1]
  <1>1. events \in Seq(Events) /\ pending_bytes = 0
    BY DEF TransportInv, TypeOK, Waits
  <1>2. PICK f \in [0 .. Len(events) -> Nat] : Adds(f, events, pending_bytes) /\ Kept(f)
    BY DEF TransportInv
  <1>3. PICK r : r = Tail(events)
    OBVIOUS
  <1>4. PICK h : h = Shifted(f, Len(events))
    OBVIOUS
  <1>5. Adds(f, events, 0)
    BY <1>1, <1>2
  <1>6. /\ Adds(h, r, Head(events).size) /\ r \in Seq(Events) /\ Len(r) = Len(events) - 1
        /\ \A i \in 0 .. Len(r) : h[i] = f[i + 1] /\ i + 1 \in 0 .. Len(events)
        /\ \A i \in 1 .. Len(r) : r[i] = events[i + 1]
    BY <1>1, <1>3, <1>4, <1>5, AddsTaken
  <1>7. h \in [0 .. Len(r) -> Nat]
    BY <1>6 DEF Adds
  <1>8. events' = r
    BY <1>3
  <1> QED
    BY <1>2, <1>5, <1>6, <1>7, <1>8

LEMMA TakeDataStep ==
  ASSUME TransportInv, TakeData
  PROVE  TransportInv'
  <1>1. /\ pc = "wait" /\ events # <<>> /\ Head(events).type = "data"
        /\ pending_bytes' = Head(events).size /\ events' = Tail(events) /\ pc' = "take"
        /\ UNCHANGED <<ring, aside, sent, errors, unseen, result, got>>
    BY DEF TakeData
  <1>2. TypeOK /\ events \in Seq(Events) /\ Len(events) \in Nat
    BY TypesOf DEF TransportInv
  <1>3. PICK f \in [0 .. Len(events) -> Nat], h \in [0 .. Len(events') -> Nat] :
           /\ Adds(f, events, 0) /\ Kept(f) /\ Adds(h, events', Head(events).size)
           /\ events' \in Seq(Events) /\ Len(events') = Len(events) - 1
           /\ \A i \in 0 .. Len(events') : h[i] = f[i + 1] /\ i + 1 \in 0 .. Len(events)
           /\ \A i \in 1 .. Len(events') : events'[i] = events[i + 1]
    BY <1>1, Taken
  <1>4. Head(events) = events[1] /\ events[1] \in Events
    BY <1>1, <1>2
  <1>5. pending_bytes' \in Nat /\ pending_bytes' >= 1
    BY <1>1, <1>4 DEF Events
  <1>6. (TypeOK /\ Waits)'
    BY <1>1, <1>2, <1>3, <1>5 DEF TypeOK, Waits
  <1>7. Promised(h)'
    <2>1. \A i \in 0 .. Len(events) : f[i] <= Len(ring)
      BY <1>1, <1>3 DEF Kept, Promised
    <2> QED
      BY <1>1, <1>3, <2>1 DEF Promised
  <1>8. ASSUME NEW b \in Int, InOrder(f, b) PROVE InOrder(h, b)'
    <2>1. ASSUME NEW m \in 0 .. Len(events'), DataUpTo(m)'
          PROVE  m + 1 \in 0 .. Len(events) /\ DataUpTo(m + 1) /\ h[m] = f[m + 1]
      <3>1. m + 1 \in 0 .. Len(events) /\ h[m] = f[m + 1]
        BY <1>3
      <3>2. ASSUME NEW i \in 1 .. m + 1 PROVE events[i].type = "data"
        <4>1. CASE i = 1
          BY <1>1, <1>4, <4>1
        <4>2. CASE i # 1
          <5>1. i - 1 \in 1 .. m /\ i - 1 \in 1 .. Len(events') /\ (i - 1) + 1 = i
            BY <1>2, <1>3, <4>2
          <5>2. events'[i - 1] = events[i]
            BY <1>3, <5>1
          <5>3. events'[i - 1].type = "data"
            BY <2>1, <5>1 DEF DataUpTo
          <5> QED
            BY <5>2, <5>3
        <4> QED
          BY <4>1, <4>2
      <3> QED
        BY <3>1, <3>2 DEF DataUpTo
    <2>2. \A i \in DOMAIN got' : got'[i] = b + i
      BY <1>1, <1>8 DEF InOrder
    <2>3. pc # "emptied" /\ pc' # "emptied"
      BY <1>1
    <2>4. ASSUME NEW m \in 0 .. Len(events'), DataUpTo(m)', NEW i \in 1 .. h[m]
          PROVE  ring'[i] = b + Len(got') + i
      <3>1. m + 1 \in 0 .. Len(events) /\ DataUpTo(m + 1) /\ h[m] = f[m + 1]
        BY <2>1, <2>4
      <3> QED
        BY <1>1, <1>8, <2>3, <3>1 DEF InOrder
    <2>5. ASSUME DataUpTo(Len(events))'
          PROVE  /\ aside' = <<>> /\ h[Len(events')] = Len(ring')
                 /\ b + Len(got') + Len(ring') = sent'
      <3>1. PICK m : m = Len(events')
        OBVIOUS
      <3>2. m \in 0 .. Len(events') /\ m + 1 = Len(events)
        <4>1. events # <<>> /\ Len(events) > 0
          BY <1>1, <1>2
        <4> QED
          BY <1>2, <1>3, <3>1, <4>1
      <3>3. DataUpTo(m)'
        BY <2>5, <3>1 DEF DataUpTo
      <3>4. DataUpTo(Len(events)) /\ h[m] = f[Len(events)]
        BY <2>1, <3>2, <3>3
      <3>5. /\ aside = <<>> /\ f[Len(events)] = Len(ring)
            /\ b + Len(got) + Len(ring) = sent
        BY <1>8, <2>3, <3>4 DEF InOrder
      <3> QED
        BY <1>1, <3>1, <3>4, <3>5
    <2> QED
      BY <2>2, <2>3, <2>4, <2>5 DEF InOrder
  <1>9. Kept(h)'
    BY <1>1, <1>3, <1>7, <1>8 DEF Kept
  <1> QED
    BY <1>1, <1>3, <1>6, <1>9 DEF TransportInv

LEMMA TakeErrorStep ==
  ASSUME TransportInv, TakeError
  PROVE  TransportInv'
  <1>1. TypeOK /\ Waits /\ events \in Seq(Events) /\ Len(events) \in Nat
    BY TypesOf DEF TransportInv
  <1>2. /\ pc = "wait" /\ events # <<>> /\ Head(events).type # "data"
        /\ events' = Tail(events)
        /\ UNCHANGED <<sent, errors, unseen, pending_bytes, got>>
    BY DEF TakeError
  <1>3. Head(events) = events[1] /\ events[1] \in Events
    BY <1>1, <1>2
  <1>4. Head(events).type \in Flushing /\ Head(events).size = 0
    BY <1>2, <1>3 DEF Events, Flushing
  <1>5. ring' = <<>> /\ aside' = <<>> /\ pc' = "emptied" /\ result' = result
    BY <1>4 DEF TakeError, Flush
  <1>6. PICK f \in [0 .. Len(events) -> Nat], h \in [0 .. Len(events') -> Nat] :
           /\ Adds(f, events, 0) /\ Kept(f) /\ Adds(h, events', Head(events).size)
           /\ events' \in Seq(Events)
    BY <1>2, Taken
  <1>7. pending_bytes' = 0
    BY <1>1, <1>2 DEF Waits
  <1>8. (TypeOK /\ Waits)'
    BY <1>1, <1>2, <1>5, <1>6 DEF TypeOK, Waits
  <1>9. ASSUME NEW b \in Int, InOrder(f, b) PROVE InOrder(h, b)'
    BY <1>2, <1>5, <1>9 DEF InOrder
  <1>10. Kept(h)'
    BY <1>2, <1>5, <1>6, <1>9 DEF Kept, Promised
  <1>11. Adds(h, events', pending_bytes')
    BY <1>4, <1>6, <1>7
  <1> QED
    BY <1>6, <1>8, <1>10, <1>11 DEF TransportInv

LEMMA ResetAfterFlushStep ==
  ASSUME TransportInv, ResetAfterFlush
  PROVE  TransportInv'
  <1>1. /\ pc = "emptied" /\ events' = <<>> /\ pending_bytes' = 0 /\ result' = -1 /\ got' = <<>>
        /\ pc' = "call" /\ UNCHANGED <<ring, aside, sent, errors, unseen>>
    BY DEF ResetAfterFlush, ResetQueue
  <1>2. TypeOK /\ sent \in Nat /\ ring \in Seq(Int)
    BY DEF TransportInv, TypeOK
  <1>3. PICK g \in [0 .. Len(events) -> Nat] : Kept(g)
    BY DEF TransportInv
  <1>4. Len(events') = 0 /\ Len(got') = 0 /\ DOMAIN got' = {} /\ pc' # "emptied"
    BY <1>1
  <1>5. PICK f : f = [i \in 0 .. 0 |-> 0]
    OBVIOUS
  <1>6. f \in [0 .. Len(events') -> Nat] /\ Adds(f, events', pending_bytes')
    BY <1>1, <1>4, <1>5 DEF Adds
  <1>7. Promised(f)'
    BY <1>1, <1>2, <1>4, <1>5 DEF Promised
  <1>8. ASSUME ~unseen' PROVE InOrder(f, sent)'
    <2>1. ring = <<>> /\ aside = <<>>
      BY <1>1, <1>3, <1>8 DEF Kept, InOrder
    <2>2. ring' = <<>> /\ aside' = <<>> /\ Len(ring') = 0
      BY <1>1, <2>1
    <2>3. f[0] = 0
      BY <1>5
    <2>4. \A n \in 0 .. Len(events') : 1 .. f[n] = {}
      BY <1>4, <2>3
    <2>5. sent' + Len(got') + Len(ring') = sent'
      BY <1>1, <1>2, <1>4, <2>2
    <2> QED
      BY <1>4, <2>2, <2>3, <2>4, <2>5 DEF InOrder
  <1>9. Kept(f)'
    <2>1. sent' \in Int
      BY <1>1, <1>2
    <2>2. PICK s \in Int : s = sent'
      BY <2>1
    <2>3. ASSUME ~unseen' PROVE InOrder(f, s)'
      BY <1>1, <1>8, <2>2, <2>3 DEF InOrder
    <2> QED
      BY <1>7, <2>2, <2>3 DEF Kept
  <1>10. (TypeOK /\ Waits)'
    <2>1. got' \in Seq(Int) /\ events' \in Seq(Events)
      BY <1>1
    <2>2. unseen' \in BOOLEAN /\ result' \in Int /\ pc' \in {"call", "wait", "take", "emptied"}
      BY <1>1, <1>2 DEF TypeOK
    <2>3. ring' \in Seq(Int) /\ aside' \in Seq(Int) /\ sent' \in Nat /\ errors' \in Nat
      BY <1>1, <1>2 DEF TypeOK
    <2>4. pending_bytes' \in Nat
      BY <1>1
    <2>5. TypeOK'
      BY <2>1, <2>2, <2>3, <2>4 DEF TypeOK
    <2> QED
      BY <1>1, <2>5 DEF Waits
  <1> QED
    BY <1>6, <1>9, <1>10 DEF TransportInv

\* Whether or not the chunk put aside fits, what is left of the ring comes first in it.
Continues(r, t, a) == r = t \/ r = t \o a
Less(r, s, n, a) ==
  /\ r \in Seq(Int) /\ Len(s) - n <= Len(r)
  /\ \A i \in 1 .. Len(s) - n : r[i] = s[n + i]
  /\ a = <<>> => Len(r) = Len(s) - n

LEMMA Refilled ==
  ASSUME NEW s \in Seq(Int), NEW n \in 0 .. Len(s), NEW a \in Seq(Int),
         NEW r, Continues(r, SubSeq(s, n + 1, Len(s)), a)
  PROVE  Less(r, s, n, a)
  <1>1. PICK l, t : l = Len(s) /\ t = SubSeq(s, n + 1, Len(s))
    OBVIOUS
  <1>2. l \in Nat /\ n \in Nat /\ n <= l
    BY <1>1
  <1>3. t \in Seq(Int) /\ Len(t) = l - n
    BY <1>1, <1>2
  <1>4. \A i \in 1 .. l - n : t[i] = s[n + i]
    BY <1>1, <1>2
  <1>5. Len(a) \in Nat /\ (a = <<>> => Len(a) = 0)
    OBVIOUS
  <1>8. r = t \/ r = t \o a
    BY <1>1 DEF Continues
  <1>6. CASE r = t \o a
    <2>2. t \o a \in Seq(Int) /\ Len(t \o a) = Len(t) + Len(a)
      BY <1>3, ConcatProperties
    <2>3. \A i \in 1 .. l - n : (t \o a)[i] = t[i]
      BY <1>2, <1>3, ConcatProperties
    <2>4. r \in Seq(Int) /\ Len(r) = Len(t) + Len(a)
      BY <1>6, <2>2, Zenon
    <2>5. \A i \in 1 .. l - n : r[i] = t[i]
      BY <1>6, <2>3, Zenon
    <2>6. \A i \in 1 .. l - n : r[i] = s[n + i]
      BY <1>4, <2>5, Zenon
    <2>7. l - n <= Len(r) /\ (a = <<>> => Len(r) = l - n)
      BY ONLY <1>2, <1>3, <1>5, <2>4
    <2> QED
      BY <1>1, <2>4, <2>6, <2>7 DEF Less
  <1>7. CASE r = t
    BY <1>1, <1>2, <1>3, <1>4, <1>7 DEF Less
  <1> QED
    BY <1>6, <1>7, <1>8

LEMMA ReadRingStep ==
  ASSUME TransportInv, ReadRing
  PROVE  TransportInv'
  <1>1. /\ TypeOK /\ Waits
        /\ ring \in Seq(Int) /\ aside \in Seq(Int) /\ got \in Seq(Int) /\ events \in Seq(Events)
        /\ Len(ring) \in Nat /\ Len(got) \in Nat /\ Len(events) \in Nat
        /\ DOMAIN got = 1 .. Len(got) /\ pending_bytes \in Nat /\ sent \in Nat
    BY TypesOf DEF TransportInv
  <1>2. PICK f \in [0 .. Len(events) -> Nat] : Adds(f, events, pending_bytes) /\ Kept(f)
    BY DEF TransportInv
  <1>3. pc = "take" /\ UNCHANGED <<events, sent, errors, unseen>>
    BY DEF ReadRing
  <1>4. pending_bytes >= 1
    BY <1>1, <1>3 DEF Waits
  <1>5. \A i \in 0 .. Len(events) : f[i] <= Len(ring)
    BY <1>2, <1>3 DEF Kept, Promised
  <1>6. f[0] = pending_bytes /\ 0 \in 0 .. Len(events) /\ pending_bytes <= Len(ring)
    BY <1>1, <1>2, <1>5 DEF Adds
  <1>7. PICK n : n = Min({Amount, Len(ring)})
    OBVIOUS
  <1>8. MaxLen \in Nat /\ MaxLen >= 1
    BY SizesAssumption
  <1>9. Amount \in Nat /\ Amount >= 1 /\ Amount <= pending_bytes
    <2>1. Amount = IF pending_bytes <= MaxLen THEN pending_bytes ELSE MaxLen
      <3>1. pending_bytes \in Int /\ MaxLen \in Int
        BY <1>1, <1>8
      <3> QED
        BY <3>1, LesserOf DEF Amount
    <2> QED
      BY <1>1, <1>4, <1>8, <2>1
  <1>10. n \in Nat /\ n >= 1 /\ n <= pending_bytes /\ n <= Len(ring)
    <2>1. n = IF Amount <= Len(ring) THEN Amount ELSE Len(ring)
      <3>1. Amount \in Int /\ Len(ring) \in Int
        BY <1>1, <1>9
      <3>2. Min({Amount, Len(ring)}) = IF Amount <= Len(ring) THEN Amount ELSE Len(ring)
        BY ONLY <3>1, LesserOf
      <3> QED
        BY <1>7, <3>2
    <2> QED
      BY <1>1, <1>6, <1>9, <2>1
  <1>11. PICK rest : rest = SubSeq(ring, n + 1, Len(ring))
    OBVIOUS
  <1>12. /\ ring' = rest \/ ring' = rest \o aside
         /\ aside' = aside \/ aside' = <<>>
         /\ pending_bytes' = pending_bytes - n
         /\ got' = got \o SubSeq(ring, 1, n)
         /\ result' = n
         /\ pc' = "call"
    <2>1. n # 0
      BY <1>10
    <2> QED
      BY <1>7, <1>11, <2>1 DEF ReadRing
  <1>14. /\ ring' \in Seq(Int) /\ Len(ring) - n <= Len(ring')
         /\ \A i \in 1 .. Len(ring) - n : ring'[i] = ring[n + i]
         /\ aside = <<>> => Len(ring') = Len(ring) - n
    <2>1. n \in 0 .. Len(ring)
      BY <1>1, <1>10
    <2>2. ring \in Seq(Int) /\ aside \in Seq(Int)
      BY <1>1
    <2>3. Continues(ring', SubSeq(ring, n + 1, Len(ring)), aside)
      BY <1>11, <1>12, Zenon DEF Continues
    <2>4. Less(ring', ring, n, aside)
      BY <2>1, <2>2, <2>3, Refilled
    <2> QED
      BY <2>4 DEF Less
  <1>15. /\ got' \in Seq(Int) /\ Len(got') = Len(got) + n
         /\ \A i \in 1 .. Len(got) : got'[i] = got[i]
         /\ \A i \in 1 .. n : got'[Len(got) + i] = ring[i]
    <2>1. PICK t : t = SubSeq(ring, 1, n)
      OBVIOUS
    <2>2. t \in Seq(Int) /\ Len(t) = n /\ \A i \in 1 .. n : t[i] = ring[i]
      BY <1>1, <1>10, <2>1
    <2>3. got \o t \in Seq(Int) /\ Len(got \o t) = Len(got) + Len(t)
      BY <1>1, <2>2, ConcatProperties
    <2>4. \A i \in 1 .. Len(got) : (got \o t)[i] = got[i]
      BY <1>1, <2>2, ConcatProperties
    <2>5. ASSUME NEW i \in 1 .. n PROVE (got \o t)[Len(got) + i] = t[i]
      <3>1. Len(got) + i \in 1 .. Len(got) + n /\ ~(Len(got) + i <= Len(got))
            /\ (Len(got) + i) - Len(got) = i
        BY <1>1, <1>10
      <3> QED
        BY <1>1, <2>2, <3>1, ConcatProperties
    <2> QED
      BY <1>12, <2>1, <2>2, <2>3, <2>4, <2>5
  <1>16. (TypeOK /\ Waits)'
    <2>1. aside' \in Seq(Int)
      <3>1. <<>> \in Seq(Int)
        OBVIOUS
      <3> QED
        BY <1>1, <1>12, <3>1, Zenon
    <2>2. pending_bytes' \in Nat /\ result' \in Int
      BY <1>1, <1>10, <1>12
    <2>3. TypeOK'
      BY <1>1, <1>3, <1>12, <1>14, <1>15, <2>1, <2>2 DEF TypeOK
    <2> QED
      BY <1>12, <2>3 DEF Waits
  <1>17. PICK h : h = Lowered(f, Len(events), n)
    OBVIOUS
  <1>18. /\ Adds(h, events, pending_bytes - n)
         /\ \A i \in 0 .. Len(events) : h[i] = f[i] - n /\ f[i] \in Nat /\ f[i] >= n
    BY <1>1, <1>2, <1>10, <1>17, AddsLess
  <1>19. h \in [0 .. Len(events') -> Nat] /\ Adds(h, events', pending_bytes')
    BY <1>3, <1>12, <1>18 DEF Adds
  <1>20. \A i \in 0 .. Len(events) : h[i] \in Nat /\ h[i] <= Len(ring) - n
    <2> TAKE i \in 0 .. Len(events)
    <2>1. h[i] = f[i] - n /\ f[i] \in Nat /\ f[i] >= n /\ f[i] <= Len(ring)
      BY <1>5, <1>18
    <2> QED
      BY <1>1, <1>10, <2>1
  <1>21. Promised(h)'
    <2> SUFFICES ASSUME NEW i \in 0 .. Len(events) PROVE h[i] <= Len(ring')
      BY <1>3 DEF Promised
    <2> QED
      <3>1. PICK x, y, z : x = Len(ring) - n /\ y = Len(ring') /\ z = h[i]
        OBVIOUS
      <3>2. x \in Int /\ y \in Int /\ z \in Int /\ z <= x /\ x <= y
        <4>1. x \in Int /\ y \in Int
          BY <1>1, <1>10, <1>14, <3>1
        <4>2. z \in Int /\ z <= x
          BY <1>20, <3>1
        <4>3. x <= y
          BY <1>14, <3>1
        <4> QED
          BY <4>1, <4>2, <4>3
      <3> QED
        BY <3>1, <3>2
  <1>22. ASSUME NEW b \in Int, InOrder(f, b) PROVE InOrder(h, b)'
    <2>1. ASSUME NEW m \in 0 .. Len(events), DataUpTo(m), NEW i \in 1 .. f[m]
          PROVE  ring[i] = b + Len(got) + i
      BY <1>3, <1>22, <2>1 DEF InOrder
    <2>2. ASSUME NEW i \in 1 .. Len(got) + n PROVE got'[i] = b + i
      <3>1. CASE i \in 1 .. Len(got)
        BY <1>1, <1>15, <1>22, <3>1 DEF InOrder
      <3>2. CASE i \notin 1 .. Len(got)
        <4>1. PICK j : j = i - Len(got)
          OBVIOUS
        <4>2. j \in 1 .. n /\ i = Len(got) + j
          BY <1>1, <1>10, <3>2, <4>1
        <4>3. DataUpTo(0) /\ j \in 1 .. f[0]
          BY <1>1, <1>6, <1>10, <4>2 DEF DataUpTo
        <4>4. ring[j] = b + Len(got) + j
          BY <1>6, <2>1, <4>3
        <4>5. got'[i] = ring[j]
          BY <1>15, <4>2
        <4> QED
          BY <1>1, <4>2, <4>4, <4>5
      <3> QED
        BY <3>1, <3>2
    <2>3. DOMAIN got' = 1 .. Len(got) + n
      BY <1>15
    <2>4. ASSUME NEW m \in 0 .. Len(events), DataUpTo(m), NEW i \in 1 .. h[m]
          PROVE  ring'[i] = b + Len(got') + i
      <3>1. h[m] = f[m] - n /\ f[m] \in Nat /\ f[m] >= n /\ f[m] <= Len(ring)
        BY <1>5, <1>18
      <3>2. n + i \in 1 .. f[m] /\ i \in 1 .. Len(ring) - n
        BY <1>1, <1>10, <3>1
      <3>3. ring[n + i] = b + Len(got) + (n + i)
        BY <2>1, <2>4, <3>2
      <3>4. ring'[i] = ring[n + i]
        BY <1>14, <3>2
      <3>5. PICK x : x = Len(got)
        OBVIOUS
      <3>6. x \in Nat /\ i \in Int /\ b + x + (n + i) = b + (x + n) + i
        BY <1>1, <1>10, <3>2, <3>5
      <3> QED
        BY <1>15, <3>3, <3>4, <3>5, <3>6
    <2>5. ASSUME DataUpTo(Len(events))
          PROVE  /\ aside' = <<>> /\ h[Len(events)] = Len(ring')
                 /\ b + Len(got') + Len(ring') = sent'
      <3>1. /\ aside = <<>> /\ f[Len(events)] = Len(ring)
            /\ b + Len(got) + Len(ring) = sent
        BY <1>3, <1>22, <2>5 DEF InOrder
      <3>2. aside' = <<>> /\ Len(ring') = Len(ring) - n /\ Len(got') = Len(got) + n
        BY <1>12, <1>14, <1>15, <3>1
      <3>3. h[Len(events)] = f[Len(events)] - n
        BY <1>1, <1>18
      <3>4. PICK x, y : x = Len(got) /\ y = Len(ring)
        OBVIOUS
      <3>5. x \in Nat /\ y \in Nat /\ b + x + y = sent
        BY <1>1, <3>1, <3>4
      <3>6. b + (x + n) + (y - n) = sent
        BY <1>1, <1>10, <3>5
      <3> QED
        BY <1>3, <3>1, <3>2, <3>3, <3>4, <3>6
    <2>6. \A m \in 0 .. Len(events') : DataUpTo(m)' => DataUpTo(m)
      BY <1>3 DEF DataUpTo
    <2>7. DataUpTo(Len(events))' => DataUpTo(Len(events))
      BY <1>3 DEF DataUpTo
    <2>8. \A i \in DOMAIN got' : got'[i] = b + i
      BY <2>2, <2>3
    <2>9. pc' # "emptied"
      BY <1>12
    <2>10. \A m \in 0 .. Len(events') : DataUpTo(m)' => \A i \in 1 .. h[m] : ring'[i] = b + Len(got') + i
      BY <1>3, <2>4, <2>6
    <2>11. DataUpTo(Len(events))' => /\ aside' = <<>> /\ h[Len(events')] = Len(ring')
                                     /\ b + Len(got') + Len(ring') = sent'
      BY <1>3, <2>5, <2>7
    <2> QED
      BY <2>8, <2>9, <2>10, <2>11 DEF InOrder
  <1>23. Kept(h)'
    BY <1>2, <1>3, <1>21, <1>22 DEF Kept
  <1> QED
    BY <1>16, <1>19, <1>23 DEF TransportInv

-----------------------------------------------------------------------------
(* The theorems.                                                           *)

LEMMA Steps ==
  ASSUME TransportInv, [Next]_vars
  PROVE  TransportInv'
  <1>1. CASE Interrupt
    BY <1>1, ReceiveStep, OverflowStep, LineErrorStep DEF Interrupt
  <1>2. CASE Read
    BY <1>2, EnterStep, WaitOverStep, TakeDataStep, TakeErrorStep, ReadRingStep, ResetAfterFlushStep
    DEF Read
  <1>3. CASE UNCHANGED vars
    <2>1. UNCHANGED <<ring, aside, events, sent, errors, unseen, pending_bytes, pc, result, got>>
      BY <1>3 DEF vars, driverVars
    <2>2. (TypeOK /\ Waits)'
      BY <2>1 DEF TransportInv, TypeOK, Waits
    <2>3. PICK f \in [0 .. Len(events) -> Nat] : Adds(f, events, pending_bytes) /\ Kept(f)
      BY DEF TransportInv
    <2>4. ASSUME NEW b \in Int, InOrder(f, b) PROVE InOrder(f, b)'
      BY <2>1, <2>4 DEF InOrder, DataUpTo
    <2>5. Kept(f)'
      BY <2>1, <2>3, <2>4 DEF Kept, Promised
    <2> QED
      BY <2>1, <2>2, <2>3, <2>5 DEF TransportInv
  <1> QED
    BY <1>1, <1>2, <1>3 DEF Next

\* In every reachable state a reading of the queue exists that counts what it announces, and
\* the ring keeps what is counted.
THEOREM Invariance == Spec => []TransportInv
  BY Starts, Steps, PTL DEF Spec

\* What ir_transport_read and the driver keep has its type.
THEOREM TypeCorrect == Spec => []TypeOK
  <1>1. TransportInv => TypeOK
    BY DEF TransportInv
  <1> QED
    BY <1>1, Invariance, PTL

\* ir_transport_read never asks uart_read_bytes for bytes that are gone.
THEOREM PromisesKept == Spec => []AnnouncedPresent
  <1>1. TransportInv => AnnouncedPresent
    <2> SUFFICES ASSUME TransportInv, pc # "emptied" PROVE Announced <= Len(ring)
      BY DEF AnnouncedPresent
    <2>1. Len(events) \in Nat
      BY TypesOf DEF TransportInv
    <2>2. PICK f \in [0 .. Len(events) -> Nat] : Adds(f, events, pending_bytes) /\ Kept(f)
      BY DEF TransportInv
    <2>3. Announced = f[Len(events)]
      BY <2>1, <2>2, TotalIs DEF Announced
    <2> QED
      BY <2>1, <2>2, <2>3 DEF Kept, Promised
  <1> QED
    BY <1>1, Invariance, PTL

\* What the parser gets without a -1 in between follows one another as sent, unless an event
\* itself was lost.
THEOREM LossSeen == Spec => []LossIsReported
  <1>1. TransportInv => LossIsReported
    <2> SUFFICES ASSUME TransportInv, ~unseen, NEW i \in 1 .. Len(got) - 1
                 PROVE  got[i + 1] = got[i] + 1
      BY DEF LossIsReported
    <2>1. Len(got) \in Nat /\ DOMAIN got = 1 .. Len(got)
      BY TypesOf DEF TransportInv
    <2>2. PICK f : \E b \in Int : InOrder(f, b)
      BY DEF TransportInv, Kept
    <2> PICK b \in Int : InOrder(f, b)
      BY <2>2
    <2>3. i \in DOMAIN got /\ i + 1 \in DOMAIN got
      BY <2>1
    <2>4. got[i] = b + i /\ got[i + 1] = b + (i + 1)
      BY <2>3 DEF InOrder
    <2> QED
      BY <2>1, <2>4
  <1> QED
    BY <1>1, Invariance, PTL
=============================================================================
