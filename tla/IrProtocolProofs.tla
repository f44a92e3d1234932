-------------------------- MODULE IrProtocolProofs --------------------------
(***************************************************************************)
(* The parser serves what the host asks, whatever lies between, for any    *)
(* messages that satisfy the assumptions of IrProtocol, any number of them *)
(* and any sizes of buffer, chunk and payload.                             *)
(***************************************************************************)
EXTENDS IrProtocol, FiniteSetTheorems, SequenceTheorems, TLAPS

-----------------------------------------------------------------------------
(* Packets in a run of units, found by the place of their CRC.             *)

Places(q) == HeaderSize .. Len(q)

FieldsAt(q, p) == q[p-1]
EndOf(q, p) == p + FieldsAt(q, p).length
Between(q, p, e) == SubSeq(q, p + 1, e)

HeadAt(q, p) ==
  /\ q[p].kind = "crc"
  /\ FieldsAt(q, p) = q[p].of[1]
  /\ q[p-2] = R
  /\ q[p-3] = I

IntactAt(q, p) == HeadAt(q, p) /\ q[p] = Sum(FieldsAt(q, p), Between(q, p, EndOf(q, p)))

RequestAt(q, p) ==
  IntactAt(q, p) /\ FieldsAt(q, p).length <= MaxPayload /\ ~FieldsAt(q, p).response

\* Every head has its payload behind it, and nothing begins inside an intact packet.
Whole(q) ==
  \A p \in Places(q) : HeadAt(q, p) =>
    /\ EndOf(q, p) <= Len(q)
    /\ IntactAt(q, p) => \A r \in Places(q) : r > p /\ HeadAt(q, r) => r - 3 > EndOf(q, p)

\* What begins within the first n units of q ends there.
CutAt(q, n) == \A p \in Places(q) : HeadAt(q, p) /\ p - 3 <= n => EndOf(q, p) <= n

\* The requests in q are those of s, in that order: the n-th is at f[n].
ListedBy(f, q, s) ==
  /\ f \in [1 .. Len(s) -> Places(q)]
  /\ \A i, j \in 1 .. Len(s) : i < j => f[i] < f[j]
  /\ \A i \in 1 .. Len(s) : RequestAt(q, f[i]) /\ FieldsAt(q, f[i]) = s[i]
  /\ \A p \in Places(q) : RequestAt(q, p) => \E i \in 1 .. Len(s) : f[i] = p

Listed(q, s) == \E f \in [1 .. Len(s) -> Places(q)] : ListedBy(f, q, s)

-----------------------------------------------------------------------------
(* The inductive invariant.                                                *)

Rest    == input \o (chunk \o wire)
Pending == SubSeq(asked, Len(served) + 1, Len(asked))

Headers   == Units \cup {Misread}
StatusCodes ==
  {"OK", "INVALID_COMMAND", "INVALID_LENGTH", "CRC_ERROR", "NO_DATA", "BUSY",
   "INVALID_PAYLOAD", "TX_ERROR", "INTERNAL_ERROR"}
Responses == [request : Headers, status : StatusCodes]

TypeOK ==
  /\ wire \in Seq(Units) /\ chunk \in Seq(Units) /\ input \in Seq(Units)
  /\ taskPc \in {"read", "feed", "parse", "expire"}
  /\ caller \in {"feed", "expire"}
  /\ count \in Nat
  /\ asked \in Seq(Units)
  /\ served \in Seq(Responses) /\ refused \in Seq(Responses)

\* Between two calls of parse_buffer it could do nothing with input.
Settled ==
  /\ taskPc # "parse" => Incomplete
  /\ Len(input) <= MaxPacket

\* An expiry begins with the line idle, so that what it works on ends with a message.
Expiring == taskPc = "expire" \/ (taskPc = "parse" /\ caller = "expire")
Cut ==
  /\ taskPc = "read" \/ Expiring => chunk = <<>>
  /\ Expiring => CutAt(Rest, Len(input))

ProtocolInv ==
  /\ TypeOK
  /\ Settled
  /\ Cut
  /\ Whole(Rest)
  /\ Listed(Rest, Pending)
  /\ ServedInOrder

-----------------------------------------------------------------------------
(* Runs of units.                                                          *)

Drop(q, n) == SubSeq(q, n + 1, Len(q))
Join(a, b) == a \o b

\* Equal elements make equal slices.
LEMMA SameSlice ==
  ASSUME NEW q \in Seq(Units), NEW t \in Seq(Units), NEW p \in Int, NEW e \in Int,
         NEW r \in Int, NEW f \in Int,
         p >= 0, e <= Len(q), r >= 0, f <= Len(t), e - p = f - r,
         \A i \in p + 1 .. e : q[i] = t[i + (r - p)]
  PROVE  Between(q, p, e) = Between(t, r, f)
  <1> DEFINE x == SubSeq(q, p + 1, e)
             y == SubSeq(t, r + 1, f)
  <1>0. Len(q) \in Int /\ Len(t) \in Int
    OBVIOUS
  <1>1. \A i \in p + 1 .. e : q[i] \in Units
    BY <1>0
  <1>2. /\ x \in Seq(Units)
        /\ Len(x) = IF p + 1 <= e THEN e - (p + 1) + 1 ELSE 0
        /\ \A i \in 1 .. e - (p + 1) + 1 : x[i] = q[p + 1 + i - 1]
    BY <1>1, SubSeqProperties
  <1>3. \A i \in r + 1 .. f : t[i] \in Units
    BY <1>0
  <1>4. /\ y \in Seq(Units)
        /\ Len(y) = IF r + 1 <= f THEN f - (r + 1) + 1 ELSE 0
        /\ \A i \in 1 .. f - (r + 1) + 1 : y[i] = t[r + 1 + i - 1]
    BY <1>3, SubSeqProperties
  <1> HIDE DEF x, y
  <1>5. Len(x) = Len(y)
    BY <1>2, <1>4
  <1>6. ASSUME NEW i \in 1 .. Len(x) PROVE x[i] = y[i]
    <2>1. i \in 1 .. e - (p + 1) + 1 /\ i \in 1 .. f - (r + 1) + 1
      BY <1>2
    <2>2. x[i] = q[p + 1 + i - 1] /\ y[i] = t[r + 1 + i - 1]
      BY <1>2, <1>4, <2>1
    <2>3. p + 1 + i - 1 \in p + 1 .. e /\ (p + 1 + i - 1) + (r - p) = r + 1 + i - 1
      BY <2>1
    <2> QED
      BY <2>2, <2>3
  <1>7. x = y
    BY <1>2, <1>4, <1>5, <1>6, SeqEqual
  <1> QED
    BY <1>7 DEF x, y, Between

LEMMA HeadFields ==
  ASSUME NEW q \in Seq(Units), NEW p \in Places(q), HeadAt(q, p)
  PROVE  /\ p \in Nat /\ p >= 4 /\ p <= Len(q) /\ p \in Int
         /\ FieldsAt(q, p).kind = "fields" /\ FieldsAt(q, p).length \in Nat
         /\ FieldsAt(q, p) \in Units
         /\ EndOf(q, p) \in Nat /\ EndOf(q, p) >= p /\ EndOf(q, p) \in Int
  <1>1. p \in Nat /\ p >= 4 /\ p <= Len(q) /\ p \in 1 .. Len(q) /\ p - 1 \in 1 .. Len(q)
    BY DEF Places, HeaderSize
  <1>2. q[p] \in Units /\ FieldsAt(q, p) \in Units
    BY <1>1 DEF FieldsAt
  <1>3. FieldsAt(q, p).kind = "fields" /\ FieldsAt(q, p).length \in Nat
    BY <1>2, UnitsAssumption DEF HeadAt
  <1> QED
    BY <1>1, <1>2, <1>3 DEF EndOf

\* q is the part of t from n on.
PartOf(q, t, n) ==
  /\ q \in Seq(Units) /\ t \in Seq(Units) /\ n \in Nat
  /\ Len(q) + n <= Len(t)
  /\ \A i \in 1 .. Len(q) : q[i] = t[i + n]

LEMMA SamePacket ==
  ASSUME NEW q, NEW t, NEW n, PartOf(q, t, n), NEW p \in Places(q), NEW r, r = p + n
  PROVE  /\ r \in Places(t)
         /\ FieldsAt(q, p) = FieldsAt(t, r)
         /\ HeadAt(q, p) <=> HeadAt(t, r)
         /\ HeadAt(q, p) => EndOf(t, r) = EndOf(q, p) + n
         /\ HeadAt(q, p) /\ EndOf(q, p) <= Len(q) =>
              (IntactAt(q, p) <=> IntactAt(t, r)) /\ (RequestAt(q, p) <=> RequestAt(t, r))
  <1>0. /\ q \in Seq(Units) /\ t \in Seq(Units) /\ n \in Int /\ n >= 0
        /\ Len(q) \in Int /\ Len(t) \in Int /\ Len(q) + n <= Len(t)
        /\ \A i \in 1 .. Len(q) : q[i] = t[i + n]
    BY DEF PartOf
  <1>1. p \in Int /\ p >= 4 /\ p <= Len(q) /\ r \in Int /\ r >= 4 /\ r <= Len(t)
    BY <1>0 DEF Places, HeaderSize
  <1>1a. r \in Places(t)
    BY <1>0, <1>1 DEF Places, HeaderSize
  <1>2. q[p] = t[r] /\ q[p-1] = t[r-1] /\ q[p-2] = t[r-2] /\ q[p-3] = t[r-3]
    <2>1. p \in 1 .. Len(q) /\ p - 1 \in 1 .. Len(q) /\ p - 2 \in 1 .. Len(q) /\ p - 3 \in 1 .. Len(q)
      BY <1>0, <1>1
    <2>2. p + n = r /\ (p-1) + n = r-1 /\ (p-2) + n = r-2 /\ (p-3) + n = r-3
      BY <1>0, <1>1
    <2>3. q[p] = t[p+n] /\ q[p-1] = t[(p-1) + n] /\ q[p-2] = t[(p-2) + n] /\ q[p-3] = t[(p-3) + n]
      BY <1>0, <2>1
    <2> QED
      BY <2>2, <2>3
  <1>3. FieldsAt(q, p) = FieldsAt(t, r)
    BY <1>2 DEF FieldsAt
  <1>4. HeadAt(q, p) <=> HeadAt(t, r)
    BY <1>2, <1>3 DEF HeadAt
  <1>5. ASSUME HeadAt(q, p)
        PROVE  EndOf(t, r) = EndOf(q, p) + n /\ EndOf(q, p) \in Int /\ EndOf(t, r) \in Int
    <2> DEFINE l == FieldsAt(q, p).length
    <2>1. l \in Nat /\ EndOf(q, p) \in Int
      BY <1>0, <1>5, HeadFields
    <2>2. EndOf(q, p) = p + l /\ EndOf(t, r) = r + l
      BY <1>3 DEF EndOf
    <2> HIDE DEF l
    <2> QED
      BY <1>0, <1>1, <2>1, <2>2
  <1>6. ASSUME HeadAt(q, p), EndOf(q, p) <= Len(q)
        PROVE  (IntactAt(q, p) <=> IntactAt(t, r)) /\ (RequestAt(q, p) <=> RequestAt(t, r))
    <2> DEFINE e == EndOf(q, p)
               f == EndOf(t, r)
    <2>1. e \in Int /\ f \in Int /\ f = e + n /\ e <= Len(q)
      BY <1>5, <1>6
    <2> HIDE DEF e, f
    <2>2. p >= 0 /\ r >= 0 /\ f <= Len(t) /\ e - p = f - r /\ r - p = n
      BY <1>0, <1>1, <2>1
    <2>3. \A i \in p + 1 .. e : q[i] = t[i + (r - p)]
      BY <1>0, <1>1, <2>1, <2>2
    <2>4. Between(q, p, e) = Between(t, r, f)
      BY <1>0, <1>1, <2>1, <2>2, <2>3, SameSlice
    <2> QED
      BY <1>2, <1>3, <1>4, <2>4 DEF IntactAt, RequestAt, e, f
  <1> QED
    BY <1>1a, <1>3, <1>4, <1>5, <1>6

\* The two parts of a concatenation.
LEMMA Joined ==
  ASSUME NEW q \in Seq(Units), NEW m \in Seq(Units), NEW t, t = q \o m
  PROVE  /\ PartOf(q, t, 0) /\ PartOf(m, t, Len(q))
         /\ t \in Seq(Units) /\ Len(t) = Len(q) + Len(m) /\ Len(q) \in Nat /\ Len(m) \in Nat
  <1>1. /\ t \in Seq(Units) /\ Len(t) = Len(q) + Len(m) /\ Len(q) \in Nat /\ Len(m) \in Nat
        /\ \A i \in 1 .. Len(q) + Len(m) : t[i] = IF i <= Len(q) THEN q[i] ELSE m[i - Len(q)]
    BY ConcatProperties
  <1>2. \A i \in 1 .. Len(m) : m[i] = t[i + Len(q)]
    <2> TAKE i \in 1 .. Len(m)
    <2>1. i + Len(q) \in 1 .. Len(q) + Len(m) /\ ~(i + Len(q) <= Len(q)) /\ (i + Len(q)) - Len(q) = i
      BY <1>1
    <2> QED
      BY <1>1, <2>1
  <1>3. \A i \in 1 .. Len(q) : q[i] = t[i + 0]
    BY <1>1
  <1> QED
    BY <1>1, <1>2, <1>3 DEF PartOf

\* What is left without the first n units.
LEMMA Dropped ==
  ASSUME NEW q \in Seq(Units), NEW n \in 0 .. Len(q), NEW t, t = Drop(q, n)
  PROVE  /\ PartOf(t, q, n)
         /\ t \in Seq(Units) /\ Len(t) = Len(q) - n /\ n \in Nat /\ Len(q) \in Nat /\ Len(t) \in Nat
  <1>0. n \in Int /\ n >= 0 /\ Len(q) \in Int /\ n <= Len(q) /\ Len(q) >= 0
    OBVIOUS
  <1>1. \A i \in n + 1 .. Len(q) : q[i] \in Units
    BY <1>0
  <1>2. /\ t \in Seq(Units) /\ Len(t) = IF n + 1 <= Len(q) THEN Len(q) - (n + 1) + 1 ELSE 0
        /\ \A i \in 1 .. Len(q) - (n + 1) + 1 : t[i] = q[n + 1 + i - 1]
    BY <1>0, <1>1, SubSeqProperties DEF Drop
  <1>3. Len(t) = Len(q) - n
    BY <1>0, <1>2
  <1>4. ASSUME NEW i \in 1 .. Len(t) PROVE t[i] = q[i + n]
    <2>1. t[i] = q[n + 1 + i - 1] /\ n + 1 + i - 1 = i + n
      BY <1>0, <1>2, <1>3
    <2> QED
      BY <2>1
  <1> QED
    BY <1>0, <1>2, <1>3, <1>4 DEF PartOf

\* The host never completes a head that another message began.
LEMMA NewHead ==
  ASSUME NEW q \in Seq(Units), NEW m \in Messages, NEW t, t = q \o m, NEW p \in Places(t),
         p > Len(q), HeadAt(t, p)
  PROVE  /\ p = 4 + Len(q) /\ 4 \in Places(m) /\ HeadAt(m, 4) /\ FieldsAt(t, p) = FieldsAt(m, 4)
         /\ EndOf(t, p) = EndOf(m, 4) + Len(q)
         /\ EndOf(m, 4) \in Nat /\ EndOf(m, 4) <= Len(m)
         /\ IntactAt(m, 4) => EndOf(m, 4) = Len(m)
         /\ IntactAt(t, p) <=> IntactAt(m, 4)
         /\ RequestAt(t, p) <=> RequestAt(m, 4)
  <1> DEFINE k == p - Len(q)
  <1>1. m \in Seq(Units) /\ DOMAIN m = 1 .. Len(m)
    BY UnitsAssumption
  <1>2. /\ PartOf(m, t, Len(q)) /\ Len(q) \in Nat /\ Len(m) \in Nat
        /\ Len(t) = Len(q) + Len(m) /\ t \in Seq(Units)
    BY <1>1, Joined
  <1>2a. \A i \in 1 .. Len(m) : m[i] = t[i + Len(q)]
    BY <1>2 DEF PartOf
  <1>3. p \in Int /\ p >= 4 /\ p <= Len(q) + Len(m) /\ k \in 1 .. Len(m) /\ k \in Int
    BY <1>2 DEF Places, HeaderSize
  <1>4. p = k + Len(q)
    BY <1>2, <1>3
  <1> HIDE DEF k
  <1>5. Backed(m, k)
    <2>1. m[k] = t[p]
      BY <1>2a, <1>3, <1>4
    <2>2. ASSUME k >= 2 PROVE m[k-1] = t[p-1]
      <3>1. k - 1 \in 1 .. Len(m) /\ (k - 1) + Len(q) = p - 1
        BY <1>2, <1>3, <1>4, <2>2
      <3> QED
        BY <1>2a, <3>1
    <2>3. ASSUME k >= 3 PROVE m[k-2] = t[p-2]
      <3>1. k - 2 \in 1 .. Len(m) /\ (k - 2) + Len(q) = p - 2
        BY <1>2, <1>3, <1>4, <2>3
      <3> QED
        BY <1>2a, <3>1
    <2>4. ASSUME k >= 4 PROVE m[k-3] = t[p-3]
      <3>1. k - 3 \in 1 .. Len(m) /\ (k - 3) + Len(q) = p - 3
        BY <1>2, <1>3, <1>4, <2>4
      <3> QED
        BY <1>2a, <3>1
    <2> QED
      BY <2>1, <2>2, <2>3, <2>4 DEF HeadAt, Backed, FieldsAt
  <1>6. /\ k = 4 /\ Len(m) >= 4 + m[3].length
        /\ m[4] = Sum(m[3], SubSeq(m, 4 + 1, 4 + m[3].length)) => Len(m) = 4 + m[3].length
    BY <1>1, <1>3, <1>5, MessagesAssumption DEF HeaderSize
  <1>7. 4 \in Places(m) /\ p = 4 + Len(q)
    BY <1>2, <1>3, <1>4, <1>6 DEF Places, HeaderSize
  <1>8. /\ FieldsAt(m, 4) = FieldsAt(t, p)
        /\ HeadAt(m, 4)
        /\ EndOf(t, p) = EndOf(m, 4) + Len(q)
        /\ EndOf(m, 4) <= Len(m) =>
             (IntactAt(m, 4) <=> IntactAt(t, p)) /\ (RequestAt(m, 4) <=> RequestAt(t, p))
    BY <1>2, <1>7, SamePacket
  <1>9. EndOf(m, 4) = 4 + m[3].length /\ FieldsAt(m, 4) = m[3]
    <2>1. 4 - 1 = 3
      OBVIOUS
    <2> QED
      BY <2>1 DEF EndOf, FieldsAt
  <1>10. EndOf(m, 4) \in Nat /\ EndOf(m, 4) <= Len(m)
    BY <1>1, <1>2, <1>6, <1>7, <1>8, <1>9, HeadFields
  <1>11. IntactAt(m, 4) => EndOf(m, 4) = Len(m)
    BY <1>6, <1>9 DEF IntactAt, Between
  <1> QED
    BY <1>7, <1>8, <1>10, <1>11

LEMMA WholeAdd ==
  ASSUME NEW q \in Seq(Units), NEW m \in Messages, NEW t, t = q \o m, Whole(q)
  PROVE  Whole(t)
  <1>1. m \in Seq(Units)
    BY UnitsAssumption
  <1>2. /\ PartOf(q, t, 0) /\ t \in Seq(Units) /\ Len(t) = Len(q) + Len(m)
        /\ Len(q) \in Nat /\ Len(m) \in Nat
    BY <1>1, Joined
  <1>2a. ASSUME NEW p \in Places(t), p <= Len(q), HeadAt(t, p)
         PROVE  /\ p \in Places(q) /\ HeadAt(q, p) /\ EndOf(t, p) = EndOf(q, p)
                /\ EndOf(q, p) <= Len(q) => (IntactAt(q, p) <=> IntactAt(t, p))
    <2>1. p \in Places(q) /\ p = p + 0
      BY <1>2, <1>2a DEF Places, HeaderSize
    <2>2. /\ HeadAt(q, p) /\ EndOf(t, p) = EndOf(q, p) + 0
          /\ EndOf(q, p) <= Len(q) => (IntactAt(q, p) <=> IntactAt(t, p))
      BY <1>2, <1>2a, <2>1, SamePacket
    <2>3. EndOf(q, p) \in Int
      BY <2>1, <2>2, HeadFields
    <2> QED
      BY <2>1, <2>2, <2>3
  <1>3. ASSUME NEW p \in Places(t), HeadAt(t, p)
        PROVE  /\ EndOf(t, p) <= Len(t)
               /\ IntactAt(t, p) => \A r \in Places(t) : r > p /\ HeadAt(t, r) => r - 3 > EndOf(t, p)
    <2>0. p \in Nat /\ p >= 4 /\ p <= Len(t) /\ EndOf(t, p) \in Nat
      BY <1>2, <1>3, HeadFields
    <2>1. CASE p <= Len(q)
      <3>1. /\ p \in Places(q) /\ HeadAt(q, p) /\ EndOf(t, p) = EndOf(q, p)
            /\ EndOf(q, p) <= Len(q) => (IntactAt(q, p) <=> IntactAt(t, p))
        BY <1>2a, <1>3, <2>1
      <3>2. EndOf(q, p) <= Len(q)
        BY <3>1 DEF Whole
      <3>3. ASSUME IntactAt(t, p), NEW r \in Places(t), r > p, HeadAt(t, r) PROVE r - 3 > EndOf(t, p)
        <4>0. r \in Int /\ r >= 4
          BY <1>2 DEF Places, HeaderSize
        <4>1. CASE r <= Len(q)
          <5>1. r \in Places(q) /\ HeadAt(q, r)
            BY <1>2a, <3>3, <4>1
          <5> QED
            BY <3>1, <3>2, <3>3, <5>1 DEF Whole
        <4>2. CASE r > Len(q)
          <5>1. r = 4 + Len(q)
            BY <3>3, <4>2, NewHead
          <5> QED
            BY <1>2, <2>0, <3>1, <3>2, <5>1
        <4> QED
          BY <1>2, <4>0, <4>1, <4>2
      <3> QED
        BY <1>2, <2>0, <3>1, <3>2, <3>3
    <2>2. CASE p > Len(q)
      <3>1. /\ p = 4 + Len(q) /\ EndOf(t, p) = EndOf(m, 4) + Len(q)
            /\ EndOf(m, 4) \in Nat /\ EndOf(m, 4) <= Len(m)
        BY <1>3, <2>2, NewHead
      <3>2. ASSUME NEW r \in Places(t), r > p, HeadAt(t, r) PROVE r - 3 > EndOf(t, p)
        <4>1. r \in Int /\ r > Len(q)
          BY <1>2, <2>0, <2>2, <3>2 DEF Places, HeaderSize
        <4>2. r = 4 + Len(q)
          BY <3>2, <4>1, NewHead
        <4> QED
          BY <1>2, <2>0, <3>1, <3>2, <4>2
      <3> QED
        BY <1>2, <3>1, <3>2
    <2> QED
      BY <1>2, <2>0, <2>1, <2>2
  <1> QED
    BY <1>3 DEF Whole

LEMMA WholeDrop ==
  ASSUME NEW q \in Seq(Units), NEW n \in 0 .. Len(q), NEW t, t = Drop(q, n), Whole(q)
  PROVE  Whole(t)
  <1>1. /\ PartOf(t, q, n) /\ t \in Seq(Units) /\ Len(t) = Len(q) - n
        /\ n \in Nat /\ Len(q) \in Nat /\ Len(t) \in Nat
    BY Dropped
  <1>2. ASSUME NEW p \in Places(t), HeadAt(t, p), NEW r, r = p + n
        PROVE  /\ r \in Places(q) /\ HeadAt(q, r) /\ EndOf(q, r) = EndOf(t, p) + n
               /\ p \in Int /\ EndOf(t, p) \in Int
               /\ EndOf(t, p) <= Len(t) => (IntactAt(t, p) <=> IntactAt(q, r))
    <2>1. /\ r \in Places(q) /\ HeadAt(q, r) /\ EndOf(q, r) = EndOf(t, p) + n
          /\ EndOf(t, p) <= Len(t) => (IntactAt(t, p) <=> IntactAt(q, r))
      <3>1. PartOf(t, q, n) /\ r = p + n /\ p \in Places(t) /\ HeadAt(t, p)
        BY <1>1, <1>2
      <3> QED
        BY ONLY <3>1, SamePacket
    <2> QED
      BY <1>1, <1>2, <2>1, HeadFields
  <1>3. ASSUME NEW p \in Places(t), HeadAt(t, p)
        PROVE  /\ EndOf(t, p) <= Len(t)
               /\ IntactAt(t, p) => \A s \in Places(t) : s > p /\ HeadAt(t, s) => s - 3 > EndOf(t, p)
    <2>1. PICK r : r = p + n
      OBVIOUS
    <2>2. /\ r \in Places(q) /\ HeadAt(q, r) /\ EndOf(q, r) = EndOf(t, p) + n
          /\ p \in Int /\ EndOf(t, p) \in Int
          /\ EndOf(t, p) <= Len(t) => (IntactAt(t, p) <=> IntactAt(q, r))
      BY <1>2, <1>3, <2>1
    <2>3. EndOf(q, r) <= Len(q)
      BY <2>2 DEF Whole
    <2>4. EndOf(t, p) <= Len(t)
      BY <1>1, <2>2, <2>3
    <2>5. ASSUME IntactAt(t, p), NEW s \in Places(t), s > p, HeadAt(t, s) PROVE s - 3 > EndOf(t, p)
      <3>1. PICK u : u = s + n
        OBVIOUS
      <3>2. u \in Places(q) /\ HeadAt(q, u) /\ s \in Int
        BY <1>2, <2>5, <3>1
      <3>3. IntactAt(q, r) /\ u > r
        BY <1>1, <2>1, <2>2, <2>4, <2>5, <3>1, <3>2
      <3>4. u - 3 > EndOf(q, r)
        BY <2>2, <3>2, <3>3 DEF Whole
      <3> QED
        BY <1>1, <2>2, <3>1, <3>2, <3>4
    <2> QED
      BY <2>4, <2>5
  <1> QED
    BY <1>3 DEF Whole

-----------------------------------------------------------------------------
(* Requests.                                                               *)

\* What the model calls a request is one intact packet and nothing else.
LEMMA RequestIs ==
  ASSUME NEW m \in Seq(Units)
  PROVE  IsRequest(m) <=> 4 \in Places(m) /\ RequestAt(m, 4) /\ EndOf(m, 4) = Len(m)
  <1> DEFINE b == SubSeq(m, 5, Len(m))
             h == <<I, R, m[3], Sum(m[3], b)>>
             S == Units \cup {I, R, m[3], Sum(m[3], b)}
  <1>0. Len(m) \in Nat
    OBVIOUS
  <1>1. ASSUME Len(m) >= 4
        PROVE  /\ b \in Seq(S) /\ Len(b) = Len(m) - 4 /\ \A i \in 1 .. Len(m) - 4 : b[i] = m[i + 4]
               /\ h \in Seq(S) /\ Len(h) = 4 /\ h[1] = I /\ h[2] = R /\ h[3] = m[3] /\ h[4] = Sum(m[3], b)
               /\ h \o b \in Seq(S) /\ Len(h \o b) = Len(m)
               /\ \A i \in 1 .. Len(m) : (h \o b)[i] = IF i <= 4 THEN h[i] ELSE m[i]
    <2>1. \A i \in 5 .. Len(m) : m[i] \in S
      BY <1>0
    <2>2. /\ b \in Seq(S) /\ Len(b) = IF 5 <= Len(m) THEN Len(m) - 5 + 1 ELSE 0
          /\ \A i \in 1 .. Len(m) - 5 + 1 : b[i] = m[5 + i - 1]
      BY <1>0, <2>1, SubSeqProperties
    <2> HIDE DEF b
    <2>3. Len(b) = Len(m) - 4 /\ \A i \in 1 .. Len(m) - 4 : b[i] = m[i + 4]
      <3>0. \A n \in Nat : n >= 4 => (IF 5 <= n THEN n - 5 + 1 ELSE 0) = n - 4 /\ n - 5 + 1 = n - 4
        OBVIOUS
      <3>1. Len(b) = Len(m) - 4 /\ Len(m) - 5 + 1 = Len(m) - 4
        <4>1. Len(b) = IF 5 <= Len(m) THEN Len(m) - 5 + 1 ELSE 0
          BY <2>2
        <4> QED
          BY <1>0, <1>1, <3>0, <4>1
      <3>2. ASSUME NEW i \in 1 .. Len(m) - 4 PROVE b[i] = m[i + 4]
        <4>1. 5 + i - 1 = i + 4 /\ b[i] = m[5 + i - 1]
          BY <1>0, <2>2, <3>1
        <4> QED
          BY <4>1
      <3> QED
        BY <3>1, <3>2
    <2>4. h \in Seq(S) /\ Len(h) = 4 /\ h[1] = I /\ h[2] = R /\ h[3] = m[3] /\ h[4] = Sum(m[3], b)
      OBVIOUS
    <2> HIDE DEF h, S
    <2>5. /\ h \o b \in Seq(S) /\ Len(h \o b) = Len(h) + Len(b)
          /\ \A i \in 1 .. Len(h) + Len(b) : (h \o b)[i] = IF i <= Len(h) THEN h[i] ELSE b[i - Len(h)]
      BY <2>2, <2>4, ConcatProperties
    <2>6. Len(h \o b) = Len(m)
      BY <1>0, <2>3, <2>4, <2>5
    <2>7. ASSUME NEW i \in 1 .. Len(m) PROVE (h \o b)[i] = IF i <= 4 THEN h[i] ELSE m[i]
      <3>1. (h \o b)[i] = IF i <= 4 THEN h[i] ELSE b[i - 4]
        BY <1>0, <2>3, <2>4, <2>5
      <3>2. ~(i <= 4) => i - 4 \in 1 .. Len(m) - 4 /\ (i - 4) + 4 = i
        BY <1>0
      <3> QED
        BY <2>3, <3>1, <3>2
    <2> QED
      BY <2>2, <2>3, <2>4, <2>5, <2>6, <2>7
  <1>2. Packet(m[3], b) = h \o b
    BY DEF Packet
  <1>3. FieldsAt(m, 4) = m[3]
    BY DEF FieldsAt
  <1>3a. EndOf(m, 4) = 4 + m[3].length
    BY <1>3 DEF EndOf
  <1>3b. EndOf(m, 4) = Len(m) => Between(m, 4, EndOf(m, 4)) = b
    BY DEF Between
  <1> HIDE DEF b, h, S
  <1>4. ASSUME IsRequest(m)
        PROVE  4 \in Places(m) /\ RequestAt(m, 4) /\ EndOf(m, 4) = Len(m)
    <2>1. /\ Len(m) >= 4 /\ m[3].kind = "fields" /\ m[3].length = Len(m) - 4 /\ m[3].length <= MaxPayload
          /\ m = Packet(m[3], b) /\ ~m[3].response
      BY <1>4 DEF IsRequest, HeaderSize, b
    <2>2. EndOf(m, 4) = Len(m) /\ 4 \in Places(m)
      BY <1>0, <1>3a, <2>1 DEF Places, HeaderSize
    <2>3. m[1] = I /\ m[2] = R /\ m[4] = Sum(m[3], b)
      <3>1. 1 \in 1 .. Len(m) /\ 2 \in 1 .. Len(m) /\ 4 \in 1 .. Len(m)
        BY <1>0, <2>1
      <3> QED
        BY <1>1, <1>2, <2>1, <3>1
    <2>4. HeadAt(m, 4)
      <3>1. m[4].kind = "crc" /\ m[4].of[1] = m[3]
        BY <2>3 DEF Sum
      <3>2. 4 - 2 = 2 /\ 4 - 3 = 1
        OBVIOUS
      <3> QED
        BY <1>3, <2>3, <3>1, <3>2 DEF HeadAt
    <2> QED
      BY <1>3, <1>3b, <2>1, <2>2, <2>3, <2>4 DEF RequestAt, IntactAt
  <1>5. ASSUME 4 \in Places(m), RequestAt(m, 4), EndOf(m, 4) = Len(m)
        PROVE  IsRequest(m)
    <2>1. Len(m) >= 4 /\ m[3].length <= MaxPayload /\ ~m[3].response /\ HeadAt(m, 4)
          /\ m[4] = Sum(m[3], b)
      BY <1>0, <1>3, <1>3b, <1>5 DEF Places, HeaderSize, RequestAt, IntactAt
    <2>2. m[3].kind = "fields" /\ m[3].length \in Nat
      BY <1>3, <1>5, <2>1, HeadFields
    <2>3. m[3].length = Len(m) - 4
      BY <1>0, <1>3a, <1>5, <2>2
    <2>4. m[1] = I /\ m[2] = R
      <3>1. 4 - 2 = 2 /\ 4 - 3 = 1
        OBVIOUS
      <3> QED
        BY <2>1, <3>1 DEF HeadAt
    <2>5. m = h \o b
      <3>1. ASSUME NEW i \in 1 .. Len(m) PROVE m[i] = (h \o b)[i]
        <4>1. i <= 4 => i = 1 \/ i = 2 \/ i = 3 \/ i = 4
          BY <1>0
        <4> QED
          BY <1>1, <2>1, <2>4, <4>1
      <3>2. m \in Seq(S)
        BY DEF S
      <3> QED
        BY <1>1, <2>1, <3>1, <3>2, SeqEqual
    <2> QED
      BY <1>2, <2>1, <2>2, <2>3, <2>5 DEF IsRequest, HeaderSize, b
  <1> QED
    BY <1>4, <1>5

\* One more message is one more request, or none.
Asked(s, m) == IF IsRequest(m) THEN Append(s, m[3]) ELSE s

LEMMA ListedAdd ==
  ASSUME NEW q \in Seq(Units), NEW m \in Messages, NEW t, t = Join(q, m), Whole(q),
         NEW s \in Seq(Units), Listed(q, s), NEW v, v = Asked(s, m)
  PROVE  Listed(t, v)
  <1>0. t = q \o m
    BY DEF Join
  <1>0a. v = IF IsRequest(m) THEN Append(s, m[3]) ELSE s
    BY DEF Asked
  <1>1. m \in Seq(Units)
    BY UnitsAssumption
  <1>2. /\ PartOf(q, t, 0) /\ t \in Seq(Units) /\ Len(t) = Len(q) + Len(m)
        /\ Len(q) \in Nat /\ Len(m) \in Nat /\ Len(s) \in Nat
    BY <1>0, <1>1, Joined
  <1>3. PICK f \in [1 .. Len(s) -> Places(q)] : ListedBy(f, q, s)
    BY DEF Listed
  <1>4. ASSUME NEW p \in Places(q)
        PROVE  /\ p \in Places(t) /\ p \in Int /\ p <= Len(q)
               /\ RequestAt(t, p) <=> RequestAt(q, p)
               /\ RequestAt(q, p) => FieldsAt(t, p) = FieldsAt(q, p)
    <2>1. p \in Int /\ p <= Len(q) /\ p = p + 0
      BY <1>2 DEF Places, HeaderSize
    <2>2. /\ p \in Places(t) /\ FieldsAt(q, p) = FieldsAt(t, p)
          /\ HeadAt(q, p) <=> HeadAt(t, p)
          /\ HeadAt(q, p) /\ EndOf(q, p) <= Len(q) => (RequestAt(q, p) <=> RequestAt(t, p))
      BY <1>2, <2>1, SamePacket
    <2>3. HeadAt(q, p) => EndOf(q, p) <= Len(q)
      BY DEF Whole
    <2> QED
      BY <2>1, <2>2, <2>3 DEF RequestAt, IntactAt
  <1>5. ASSUME NEW p \in Places(t), p > Len(q), RequestAt(t, p)
        PROVE  p = 4 + Len(q) /\ IsRequest(m) /\ FieldsAt(t, p) = m[3]
    <2>1. HeadAt(t, p)
      BY <1>5 DEF RequestAt, IntactAt
    <2>2. /\ p = 4 + Len(q) /\ 4 \in Places(m) /\ FieldsAt(t, p) = FieldsAt(m, 4)
          /\ IntactAt(m, 4) => EndOf(m, 4) = Len(m)
          /\ RequestAt(m, 4)
      <3>1. q \in Seq(Units) /\ m \in Messages /\ p \in Places(t)
        OBVIOUS
      <3>2. /\ p = 4 + Len(q) /\ 4 \in Places(m) /\ FieldsAt(t, p) = FieldsAt(m, 4)
            /\ IntactAt(m, 4) => EndOf(m, 4) = Len(m)
            /\ RequestAt(t, p) <=> RequestAt(m, 4)
        BY ONLY <1>0, <1>5, <2>1, <3>1, NewHead
      <3> QED
        BY <1>5, <3>2
    <2>3. EndOf(m, 4) = Len(m) /\ FieldsAt(m, 4) = m[3]
      BY <2>2 DEF RequestAt, IntactAt, FieldsAt
    <2> QED
      BY <1>1, <2>2, <2>3, RequestIs
  <1>6. CASE ~IsRequest(m)
    <2>1. \A p \in Places(t) : RequestAt(t, p) => p \in Places(q)
      BY <1>2, <1>5, <1>6 DEF Places, HeaderSize
    <2>2. f \in [1 .. Len(s) -> Places(t)]
      BY <1>4
    <2>3. ListedBy(f, t, s)
      BY <1>3, <1>4, <2>1, <2>2 DEF ListedBy
    <2> QED
      BY <1>0a, <1>6, <2>2, <2>3 DEF Listed
  <1>7. CASE IsRequest(m)
    <2> DEFINE k == 4 + Len(q)
               l == Len(s)
               g == [i \in 1 .. l + 1 |-> IF i <= l THEN f[i] ELSE k]
    <2>1. 4 \in Places(m) /\ RequestAt(m, 4) /\ EndOf(m, 4) = Len(m) /\ m[3] = FieldsAt(m, 4)
      BY <1>1, <1>7, RequestIs DEF FieldsAt
    <2>2. k \in Places(t) /\ RequestAt(t, k) /\ FieldsAt(t, k) = m[3]
      <3>1. HeadAt(m, 4) /\ EndOf(m, 4) <= Len(m)
        BY <1>2, <2>1 DEF RequestAt, IntactAt
      <3>2. PartOf(m, t, Len(q))
        BY <1>0, <1>1, Joined
      <3> QED
        BY <2>1, <3>1, <3>2, SamePacket
    <2>3. v \in Seq(Units) /\ Len(v) = l + 1 /\ v[l + 1] = m[3] /\ \A i \in 1 .. l : v[i] = s[i]
      <3>1. m[3] \in Units
        BY <1>1, <2>1, HeadFields DEF RequestAt, IntactAt
      <3> QED
        BY <1>0a, <1>7, <3>1, AppendProperties
    <2>4. l \in Nat /\ k \in Int /\ k > Len(q)
      BY <1>2
    <2> HIDE DEF k, l
    <2>5. \A i \in 1 .. l + 1 : i \in 1 .. l \/ i = l + 1
      BY <2>4
    <2>6. /\ \A i \in 1 .. l : g[i] = f[i] /\ f[i] \in Places(q) /\ i # l + 1
          /\ g[l + 1] = k
      <3>1. \A i \in 1 .. l : f[i] \in Places(q)
        BY DEF l
      <3>2. \A i \in 1 .. l : i <= l /\ i # l + 1 /\ i \in 1 .. l + 1
        BY <2>4
      <3>3. l + 1 \in 1 .. l + 1 /\ ~(l + 1 <= l)
        BY <2>4
      <3> QED
        BY <3>1, <3>2, <3>3
    <2>7. g \in [1 .. l + 1 -> Places(t)]
      BY <1>4, <2>2, <2>5, <2>6
    <2> HIDE DEF g
    <2>8. ASSUME NEW i \in 1 .. l + 1, NEW j \in 1 .. l + 1, i < j PROVE g[i] < g[j]
      <3>1. i \in 1 .. l
        BY <2>4, <2>8
      <3>2. CASE j \in 1 .. l
        BY <1>3, <2>6, <2>8, <3>1, <3>2 DEF ListedBy, l
      <3>3. CASE j = l + 1
        <4>1. f[i] \in Int /\ f[i] <= Len(q)
          BY <1>4, <2>6, <3>1
        <4> QED
          BY <1>2, <2>4, <2>6, <3>1, <3>3, <4>1
      <3> QED
        BY <2>5, <3>2, <3>3
    <2>9. ASSUME NEW i \in 1 .. l + 1 PROVE RequestAt(t, g[i]) /\ FieldsAt(t, g[i]) = v[i]
      <3>1. CASE i \in 1 .. l
        <4>1. RequestAt(q, f[i]) /\ FieldsAt(q, f[i]) = s[i]
          BY <1>3, <3>1 DEF ListedBy, l
        <4> QED
          BY <1>4, <2>3, <2>6, <3>1, <4>1
      <3>2. CASE i = l + 1
        BY <2>2, <2>3, <2>6, <3>2
      <3> QED
        BY <2>5, <3>1, <3>2
    <2>10. ASSUME NEW p \in Places(t), RequestAt(t, p) PROVE \E i \in 1 .. l + 1 : g[i] = p
      <3>1. CASE p > Len(q)
        <4>1. p = k
          BY <1>5, <2>10, <3>1 DEF k
        <4> QED
          BY <2>4, <2>6, <4>1
      <3>2. CASE ~(p > Len(q))
        <4>1. p \in Places(q)
          BY <1>2, <3>2 DEF Places, HeaderSize
        <4>2. PICK i \in 1 .. l : f[i] = p
          BY <1>3, <1>4, <2>10, <4>1 DEF ListedBy, l
        <4>3. g[i] = p /\ i \in 1 .. l + 1
          BY <2>4, <2>6, <4>2
        <4> QED
          BY <4>3
      <3> QED
        BY <3>1, <3>2
    <2>11. ListedBy(g, t, v)
      BY <2>3, <2>7, <2>8, <2>9, <2>10 DEF ListedBy
    <2> QED
      BY <2>3, <2>7, <2>11 DEF Listed
  <1> QED
    BY <1>6, <1>7

\* A set of natural numbers has a least one.
LEMMA Least ==
  ASSUME NEW T \in SUBSET Nat, T # {}
  PROVE  \E x \in T : \A y \in T : x <= y
  <1> DEFINE F == {0 .. x : x \in T}
  <1>1. F \subseteq FiniteSubsetsOf(Nat)
    <2>1. \A x \in T : IsFiniteSet(0 .. x) /\ 0 .. x \in SUBSET Nat
      BY FS_Interval
    <2> QED
      BY <2>1 DEF FiniteSubsetsOf
  <1>2. F # {}
    OBVIOUS
  <1>3. PICK s \in F : \A t \in F : ~(<<t, s>> \in StrictSubsetOrdering(Nat))
    BY <1>1, <1>2, FS_StrictSubsetOrderingWellFounded, WFMin
  <1>4. PICK x \in T : s = 0 .. x
    OBVIOUS
  <1>5. ASSUME NEW y \in T, y < x PROVE FALSE
    <2> DEFINE t == 0 .. y
    <2>1. t \in SUBSET Nat /\ s \in SUBSET Nat /\ t \subseteq s /\ t \in F
      BY <1>4, <1>5
    <2>2. x \in s /\ x \notin t
      BY <1>4, <1>5
    <2> HIDE DEF t
    <2>3. <<t, s>> \in (SUBSET Nat) \X (SUBSET Nat) /\ <<t, s>>[1] = t /\ <<t, s>>[2] = s
      BY <2>1
    <2>4. <<t, s>> \in StrictSubsetOrdering(Nat)
      BY <2>1, <2>2, <2>3 DEF StrictSubsetOrdering
    <2> QED
      BY <1>3, <2>1, <2>4
  <1> QED
    BY <1>5

\* Of the requests listed, those behind the first n units are the ones after the k-th.
Behind(f, s, n, k) == \A i \in 1 .. Len(s) : f[i] > n + 3 <=> i > k

\* The requests behind a place are the last ones listed.
LEMMA LastOnes ==
  ASSUME NEW q \in Seq(Units), NEW s \in Seq(Units), NEW f \in [1 .. Len(s) -> Places(q)],
         ListedBy(f, q, s), NEW b \in Int
  PROVE  \E k \in 0 .. Len(s) : \A i \in 1 .. Len(s) : f[i] > b <=> i > k
  <1> DEFINE l == Len(s)
             T == {i \in 1 .. l + 1 : i = l + 1 \/ f[i] > b}
  <1>1. l \in Nat /\ \A i \in 1 .. l : f[i] \in Int
    BY DEF Places, HeaderSize
  <1>1a. \A i, j \in 1 .. l : i < j => f[i] < f[j]
    BY DEF ListedBy
  <1> HIDE DEF l
  <1>2. T \in SUBSET Nat /\ l + 1 \in T
    BY <1>1
  <1>3. PICK x \in T : \A y \in T : x <= y
    BY <1>2, Least
  <1>4. x \in 1 .. l + 1 /\ x - 1 \in 0 .. l
    BY <1>1
  <1>5. ASSUME NEW i \in 1 .. l PROVE f[i] > b <=> i > x - 1
    <2>0. i \in 1 .. l + 1 /\ i # l + 1 /\ f[i] \in Int
      BY <1>1
    <2>1. ASSUME f[i] > b PROVE i > x - 1
      BY <1>3, <1>4, <2>0, <2>1
    <2>2. ASSUME i > x - 1 PROVE f[i] > b
      <3>1. x <= i /\ x \in 1 .. l /\ f[x] > b
        BY <1>1, <1>4, <2>0, <2>2
      <3>2. CASE x = i
        BY <3>1, <3>2
      <3>3. CASE x < i
        <4>1. f[x] < f[i] /\ f[x] \in Int
          BY <1>1, <1>1a, <3>1, <3>3
        <4> QED
          BY <2>0, <3>1, <4>1
      <3> QED
        BY <1>4, <2>0, <3>1, <3>2, <3>3
    <2> QED
      BY <2>1, <2>2
  <1> QED
    BY <1>4, <1>5 DEF l

\* Without its first units a run lists the requests that begin behind them.
LEMMA ListedDrop ==
  ASSUME NEW q \in Seq(Units), NEW n \in 0 .. Len(q), NEW t, t = Drop(q, n), Whole(q),
         NEW s \in Seq(Units), NEW f \in [1 .. Len(s) -> Places(q)], ListedBy(f, q, s),
         NEW k \in 0 .. Len(s), Behind(f, s, n, k), NEW v, v = Drop(s, k)
  PROVE  Listed(t, v) /\ v \in Seq(Units) /\ Len(v) = Len(s) - k
  <1>1. /\ PartOf(t, q, n) /\ t \in Seq(Units) /\ Len(t) = Len(q) - n
        /\ n \in Nat /\ Len(q) \in Nat /\ Len(t) \in Nat
    BY Dropped
  <1>2. /\ PartOf(v, s, k) /\ v \in Seq(Units) /\ Len(v) = Len(s) - k
        /\ k \in Nat /\ Len(s) \in Nat /\ Len(v) \in Nat
    BY Dropped
  <1>3. Whole(t)
    BY WholeDrop
  <1>4. ASSUME NEW p \in Places(t), NEW r, r = p + n
        PROVE  /\ r \in Places(q) /\ (RequestAt(t, p) <=> RequestAt(q, r))
               /\ FieldsAt(t, p) = FieldsAt(q, r)
    <2>1. /\ r \in Places(q) /\ FieldsAt(t, p) = FieldsAt(q, r)
          /\ HeadAt(t, p) <=> HeadAt(q, r)
          /\ HeadAt(t, p) /\ EndOf(t, p) <= Len(t) => (RequestAt(t, p) <=> RequestAt(q, r))
      <3>1. PartOf(t, q, n) /\ r = p + n /\ p \in Places(t)
        BY <1>1, <1>4
      <3> QED
        BY ONLY <3>1, SamePacket
    <2>2. HeadAt(t, p) => EndOf(t, p) <= Len(t)
      BY <1>3 DEF Whole
    <2> QED
      BY <2>1, <2>2 DEF RequestAt, IntactAt
  <1> DEFINE l == Len(v)
             g == [i \in 1 .. l |-> f[i + k] - n]
  <1>5. ASSUME NEW i \in 1 .. l
        PROVE  /\ i + k \in 1 .. Len(s) /\ f[i + k] \in Int
               /\ g[i] \in Places(t) /\ g[i] \in Int /\ f[i + k] = g[i] + n
    <2>1. i + k \in 1 .. Len(s) /\ i + k > k
      BY <1>2
    <2>2. f[i + k] > n + 3 /\ f[i + k] \in Places(q)
      BY <2>1 DEF Behind
    <2>3. f[i + k] \in Int /\ f[i + k] <= Len(q)
      BY <1>1, <2>2 DEF Places, HeaderSize
    <2>4. f[i + k] - n \in Places(t)
      BY <1>1, <2>2, <2>3 DEF Places, HeaderSize
    <2>5. g[i] = f[i + k] - n
      OBVIOUS
    <2>6. \A x, y \in Int : x = y - n => x \in Int /\ y = x + n
      BY <1>1
    <2>7. g[i] \in Int /\ f[i + k] = g[i] + n
      <3>1. g[i] \in Int
        BY <1>1, <2>3, <2>5
      <3> HIDE DEF g
      <3> QED
        BY <2>3, <2>5, <2>6, <3>1
    <2> QED
      BY <2>1, <2>3, <2>4, <2>5, <2>7
  <1>6. g \in [1 .. l -> Places(t)]
    BY <1>5
  <1> HIDE DEF g
  <1>7. ASSUME NEW i \in 1 .. l, NEW j \in 1 .. l, i < j PROVE g[i] < g[j]
    <2>1. i + k < j + k
      BY <1>2, <1>7
    <2>2. f[i + k] < f[j + k]
      BY <1>5, <2>1 DEF ListedBy
    <2>3. \A x, y \in Int : x + n < y + n => x < y
      BY <1>1
    <2>4. g[i] + n < g[j] + n
      BY <1>5, <2>2
    <2> QED
      BY <1>5, <2>3, <2>4
  <1>8. ASSUME NEW i \in 1 .. l PROVE RequestAt(t, g[i]) /\ FieldsAt(t, g[i]) = v[i]
    <2>1. RequestAt(q, f[i + k]) /\ FieldsAt(q, f[i + k]) = s[i + k]
      BY <1>5 DEF ListedBy
    <2>2. v[i] = s[i + k]
      BY <1>2 DEF PartOf
    <2> QED
      BY <1>4, <1>5, <2>1, <2>2
  <1>9. ASSUME NEW p \in Places(t), RequestAt(t, p) PROVE \E i \in 1 .. l : g[i] = p
    <2>1. PICK r : r = p + n
      OBVIOUS
    <2>2. r \in Places(q) /\ RequestAt(q, r)
      BY <1>4, <1>9, <2>1
    <2>3. PICK j \in 1 .. Len(s) : f[j] = r
      BY <2>2 DEF ListedBy
    <2>4. r > n + 3
      BY <1>1, <2>1 DEF Places, HeaderSize
    <2>5. j > k
      BY <2>3, <2>4 DEF Behind
    <2>6. PICK i : i = j - k
      OBVIOUS
    <2>7. i \in 1 .. l /\ i + k = j
      BY <1>2, <2>5, <2>6
    <2>8. f[i + k] = g[i] + n /\ g[i] \in Int /\ f[i + k] = r
      BY <1>5, <2>3, <2>7
    <2>9. g[i] = p
      <3>1. \A x, y \in Int : x + n = y + n => x = y
        BY <1>1
      <3>2. p \in Int
        BY <1>1 DEF Places, HeaderSize
      <3> QED
        BY <2>1, <2>8, <3>1, <3>2
    <2> QED
      BY <2>7, <2>9
  <1>10. ListedBy(g, t, v)
    BY <1>6, <1>7, <1>8, <1>9 DEF ListedBy
  <1> QED
    BY <1>2, <1>6, <1>10 DEF Listed

\* The requests listed are counted by where they begin.
LEMMA CountListed ==
  ASSUME NEW t \in Seq(Units), NEW v \in Seq(Units), Listed(t, v), NEW d \in Int, NEW C,
         \A i : i \in C <=> \E p \in Places(t) : RequestAt(t, p) /\ i = p + d
  PROVE  Cardinality(C) = Len(v)
  <1>1. PICK g \in [1 .. Len(v) -> Places(t)] : ListedBy(g, t, v)
    BY DEF Listed
  <1> DEFINE l == Len(v)
             h == [i \in 1 .. l |-> g[i] + d]
  <1>2. l \in Nat /\ \A i \in 1 .. l : g[i] \in Places(t) /\ g[i] \in Int /\ RequestAt(t, g[i])
    BY <1>1 DEF Places, HeaderSize, ListedBy
  <1>2a. \A i, j \in 1 .. l : i < j => g[i] < g[j]
    BY <1>1 DEF ListedBy
  <1>2b. \A p \in Places(t) : RequestAt(t, p) => \E i \in 1 .. l : g[i] = p
    BY <1>1 DEF ListedBy
  <1> HIDE DEF l
  <1>3. h \in [1 .. l -> C]
    BY <1>2
  <1>4. ASSUME NEW i \in 1 .. l, NEW j \in 1 .. l, h[i] = h[j] PROVE i = j
    <2>1. g[i] = g[j]
      <3>1. g[i] + d = g[j] + d
        BY <1>4
      <3>2. \A x, y \in Int : x + d = y + d => x = y
        OBVIOUS
      <3> QED
        BY <1>2, <3>1, <3>2
    <2>2. ~(g[i] < g[j]) /\ ~(g[j] < g[i])
      BY <1>2, <2>1
    <2>3. ~(i < j) /\ ~(j < i)
      BY <1>2a, <2>2
    <2> QED
      BY <1>2, <2>3
  <1>5. ASSUME NEW c \in C PROVE \E i \in 1 .. l : h[i] = c
    <2>1. PICK p \in Places(t) : RequestAt(t, p) /\ c = p + d
      OBVIOUS
    <2>2. PICK i \in 1 .. l : g[i] = p
      BY <1>2b, <2>1
    <2> QED
      BY <2>1, <2>2
  <1> HIDE DEF h
  <1>6. h \in Bijection(1 .. l, C)
    BY <1>3, <1>4, <1>5 DEF Bijection, Injection, Surjection, IsInjective
  <1>7. ExistsBijection(1 .. l, C)
    BY <1>6 DEF ExistsBijection
  <1> QED
    BY <1>2, <1>7, FS_CountingElements DEF l

LEMMA Sliced ==
  ASSUME NEW q \in Seq(Units), NEW i \in 1 .. Len(q), NEW j \in i .. Len(q), NEW x, x = SubSeq(q, i, j)
  PROVE  PartOf(x, q, i - 1) /\ x \in Seq(Units) /\ Len(x) = j - i + 1
  <1>0. i \in Int /\ j \in Int /\ Len(q) \in Int /\ 1 <= i /\ i <= j /\ j <= Len(q)
    OBVIOUS
  <1>1. \A y \in i .. j : q[y] \in Units
    BY <1>0
  <1>2. /\ x \in Seq(Units) /\ Len(x) = IF i <= j THEN j - i + 1 ELSE 0
        /\ \A y \in 1 .. j - i + 1 : x[y] = q[i + y - 1]
    BY <1>0, <1>1, SubSeqProperties
  <1>3. Len(x) = j - i + 1
    BY <1>0, <1>2
  <1>4. ASSUME NEW y \in 1 .. Len(x) PROVE x[y] = q[y + (i - 1)]
    <2>1. i + y - 1 = y + (i - 1) /\ x[y] = q[i + y - 1]
      BY <1>0, <1>2, <1>3
    <2> QED
      BY <2>1
  <1> QED
    BY <1>0, <1>2, <1>3, <1>4 DEF PartOf

\* StartsRequest finds the requests on the line.
LEMMA StartsAt ==
  ASSUME wire \in Seq(Units), Whole(wire), NEW i \in 1 .. Len(wire), NEW p, p = i + 3
  PROVE  StartsRequest(i) <=> p \in Places(wire) /\ RequestAt(wire, p)
  <1>0. Len(wire) \in Int /\ i \in Int /\ 1 <= i /\ i <= Len(wire)
    OBVIOUS
  <1>1. ASSUME NEW j \in i + 3 .. Len(wire), NEW x, x = SubSeq(wire, i, j)
        PROVE  /\ PartOf(x, wire, i - 1) /\ x \in Seq(Units) /\ Len(x) = j - i + 1
               /\ 4 \in Places(x) /\ p \in Places(wire)
               /\ HeadAt(x, 4) <=> HeadAt(wire, p)
               /\ HeadAt(x, 4) => EndOf(wire, p) = EndOf(x, 4) + (i - 1) /\ EndOf(x, 4) \in Int
               /\ HeadAt(x, 4) /\ EndOf(x, 4) <= Len(x) => (RequestAt(x, 4) <=> RequestAt(wire, p))
    <2>1. j \in i .. Len(wire) /\ j \in Int /\ j >= i + 3
      BY <1>0
    <2>2. PartOf(x, wire, i - 1) /\ x \in Seq(Units) /\ Len(x) = j - i + 1
      BY <1>1, <2>1, Sliced
    <2>3. 4 \in Places(x) /\ p = 4 + (i - 1)
      BY <1>0, <2>1, <2>2 DEF Places, HeaderSize
    <2>4. HeadAt(x, 4) => EndOf(x, 4) \in Int
      BY <2>2, <2>3, HeadFields
    <2>5. PICK n : n = i - 1
      OBVIOUS
    <2>6. PartOf(x, wire, n) /\ p = 4 + n
      BY <2>2, <2>3, <2>5
    <2>7. /\ p \in Places(wire)
          /\ HeadAt(x, 4) <=> HeadAt(wire, p)
          /\ HeadAt(x, 4) => EndOf(wire, p) = EndOf(x, 4) + n
          /\ HeadAt(x, 4) /\ EndOf(x, 4) <= Len(x) => (RequestAt(x, 4) <=> RequestAt(wire, p))
      BY ONLY <2>3, <2>6, SamePacket
    <2> QED
      BY <2>2, <2>3, <2>4, <2>5, <2>7
  <1>2. ASSUME StartsRequest(i) PROVE p \in Places(wire) /\ RequestAt(wire, p)
    <2>1. PICK j \in i + 3 .. Len(wire) : IsRequest(SubSeq(wire, i, j))
      BY <1>0, <1>2 DEF StartsRequest, HeaderSize
    <2>2. PICK x : x = SubSeq(wire, i, j)
      OBVIOUS
    <2>3. x \in Seq(Units) /\ IsRequest(x)
      BY <1>1, <2>1, <2>2
    <2>4. RequestAt(x, 4) /\ EndOf(x, 4) = Len(x) /\ HeadAt(x, 4)
      BY <2>3, RequestIs DEF RequestAt, IntactAt
    <2>5. EndOf(x, 4) <= Len(x)
      BY <2>3, <2>4
    <2> QED
      BY <1>1, <2>1, <2>2, <2>4, <2>5
  <1>3. ASSUME p \in Places(wire), RequestAt(wire, p) PROVE StartsRequest(i)
    <2>1. HeadAt(wire, p)
      BY <1>3 DEF RequestAt, IntactAt
    <2>2. EndOf(wire, p) <= Len(wire) /\ EndOf(wire, p) \in Int /\ EndOf(wire, p) >= p
      BY <1>3, <2>1, HeadFields DEF Whole
    <2>3. PICK j : j = EndOf(wire, p)
      OBVIOUS
    <2>4. j \in i + 3 .. Len(wire)
      BY <1>0, <2>2, <2>3
    <2>5. PICK x : x = SubSeq(wire, i, j)
      OBVIOUS
    <2>6. /\ x \in Seq(Units) /\ Len(x) = j - i + 1 /\ 4 \in Places(x) /\ HeadAt(x, 4)
          /\ j = EndOf(x, 4) + (i - 1) /\ EndOf(x, 4) \in Int
          /\ EndOf(x, 4) <= Len(x) => RequestAt(x, 4)
      BY <1>1, <1>3, <2>1, <2>3, <2>4, <2>5
    <2>7. EndOf(x, 4) = Len(x)
      BY <1>0, <2>4, <2>6
    <2>8. IsRequest(x)
      BY <2>6, <2>7, RequestIs
    <2> QED
      BY <1>0, <2>4, <2>5, <2>8 DEF StartsRequest, HeaderSize
  <1> QED
    BY <1>2, <1>3

-----------------------------------------------------------------------------
(* What is left of a sequence of units.                                    *)

LEMMA SamePart ==
  ASSUME NEW x \in Seq(Units), NEW y \in Seq(Units), NEW q, NEW n,
         PartOf(x, q, n), PartOf(y, q, n), Len(x) = Len(y)
  PROVE  x = y
  <1>1. \A i \in 1 .. Len(x) : x[i] = y[i]
    BY DEF PartOf
  <1> QED
    BY <1>1, SeqEqual

LEMMA PartOfPart ==
  ASSUME NEW x, NEW y, NEW q, NEW m, NEW n, PartOf(x, y, m), PartOf(y, q, n), NEW k, k = n + m
  PROVE  PartOf(x, q, k)
  <1>1. /\ x \in Seq(Units) /\ q \in Seq(Units) /\ m \in Int /\ n \in Int /\ m >= 0 /\ n >= 0
        /\ Len(x) \in Int /\ Len(y) \in Int /\ Len(q) \in Int
        /\ Len(x) + m <= Len(y) /\ Len(y) + n <= Len(q)
        /\ \A i \in 1 .. Len(x) : x[i] = y[i + m]
        /\ \A i \in 1 .. Len(y) : y[i] = q[i + n]
    BY DEF PartOf
  <1>2. k \in Nat /\ Len(x) + k <= Len(q)
    BY <1>1
  <1>3. ASSUME NEW i \in 1 .. Len(x) PROVE x[i] = q[i + k]
    <2>1. i + m \in 1 .. Len(y) /\ (i + m) + n = i + k
      BY <1>1
    <2>2. x[i] = y[i + m] /\ y[i + m] = q[(i + m) + n]
      BY <1>1, <2>1
    <2> QED
      BY <2>1, <2>2
  <1> QED
    BY <1>1, <1>2, <1>3 DEF PartOf

\* Dropping units of the first part of a concatenation.
LEMMA DropJoined ==
  ASSUME NEW a \in Seq(Units), NEW b \in Seq(Units), NEW n \in 0 .. Len(a), NEW t, t = Join(a, b),
         NEW c, c = Drop(a, n), NEW x, x = Join(c, b)
  PROVE  x = Drop(t, n)
  <1>1. /\ PartOf(a, t, 0) /\ PartOf(b, t, Len(a)) /\ t \in Seq(Units)
        /\ Len(t) = Len(a) + Len(b) /\ Len(a) \in Nat /\ Len(b) \in Nat
    BY Joined DEF Join
  <1>3. c \in Seq(Units) /\ PartOf(c, a, n) /\ Len(c) = Len(a) - n /\ n \in Nat /\ Len(c) \in Nat
    BY Dropped
  <1>5. PartOf(c, x, 0) /\ PartOf(b, x, Len(c)) /\ x \in Seq(Units) /\ Len(x) = Len(c) + Len(b)
    BY <1>3, Joined DEF Join
  <1>6. PICK y : y = Drop(t, n)
    OBVIOUS
  <1>7. y \in Seq(Units) /\ PartOf(y, t, n) /\ Len(y) = Len(t) - n
    <2>1. n \in 0 .. Len(t)
      BY <1>1
    <2> QED
      BY <1>1, <1>6, <2>1, Dropped
  <1>8. Len(x) = Len(y)
    BY <1>1, <1>3, <1>5, <1>7
  <1>9. ASSUME NEW i \in 1 .. Len(x) PROVE x[i] = y[i]
    <2>1. y[i] = t[i + n]
      BY <1>7, <1>8 DEF PartOf
    <2>2. CASE i <= Len(c)
      <3>1. i \in 1 .. Len(c) /\ i + 0 = i /\ i + n \in 1 .. Len(a) /\ (i + n) + 0 = i + n
        BY <1>1, <1>3, <1>5, <2>2
      <3>2. c[i] = x[i + 0] /\ c[i] = a[i + n] /\ a[i + n] = t[(i + n) + 0]
        BY <1>1, <1>3, <1>5, <3>1 DEF PartOf
      <3> QED
        BY <2>1, <3>1, <3>2
    <2>3. CASE ~(i <= Len(c))
      <3>1. PICK j : j = i - Len(c)
        OBVIOUS
      <3>2. j \in 1 .. Len(b) /\ j + Len(c) = i /\ j + Len(a) = i + n
        BY <1>1, <1>3, <1>5, <2>3, <3>1
      <3>3. b[j] = x[j + Len(c)] /\ b[j] = t[j + Len(a)]
        BY <1>1, <1>5, <3>2 DEF PartOf
      <3> QED
        BY <2>1, <3>2, <3>3
    <2> QED
      BY <2>2, <2>3
  <1>10. x = y
    BY <1>5, <1>7, <1>8, <1>9, SeqEqual
  <1> QED
    BY <1>6, <1>10

\* Dropping twice.
LEMMA DropTwice ==
  ASSUME NEW q \in Seq(Units), NEW n \in 0 .. Len(q), NEW t, t = Drop(q, n),
         NEW k \in 0 .. Len(t), NEW l, l = n + k
  PROVE  Drop(t, k) = Drop(q, l) /\ l \in 0 .. Len(q)
  <1>1. /\ PartOf(t, q, n) /\ t \in Seq(Units) /\ Len(t) = Len(q) - n
        /\ n \in Nat /\ Len(q) \in Nat /\ Len(t) \in Nat
    BY Dropped
  <1>2. PICK x : x = Drop(t, k)
    OBVIOUS
  <1>3. PartOf(x, t, k) /\ x \in Seq(Units) /\ Len(x) = Len(t) - k /\ k \in Nat
    BY <1>1, <1>2, Dropped
  <1>4. l \in 0 .. Len(q)
    BY <1>1, <1>3
  <1>5. PICK y : y = Drop(q, l)
    OBVIOUS
  <1>6. PartOf(y, q, l) /\ y \in Seq(Units) /\ Len(y) = Len(q) - l
    BY <1>4, <1>5, Dropped
  <1>7. PartOf(x, q, l)
    BY <1>1, <1>3, PartOfPart
  <1>8. Len(x) = Len(y)
    BY <1>1, <1>3, <1>6
  <1>9. x = y
    BY <1>3, <1>6, <1>7, <1>8, SamePart
  <1> QED
    BY <1>2, <1>4, <1>5, <1>9

\* Dropping the whole first part.
LEMMA DropFirst ==
  ASSUME NEW a \in Seq(Units), NEW b \in Seq(Units), NEW t, t = a \o b
  PROVE  Drop(t, Len(a)) = b /\ Len(a) \in 0 .. Len(t)
  <1>1. /\ PartOf(b, t, Len(a)) /\ t \in Seq(Units)
        /\ Len(t) = Len(a) + Len(b) /\ Len(a) \in Nat /\ Len(b) \in Nat
    BY Joined
  <1>2. Len(a) \in 0 .. Len(t)
    BY <1>1
  <1>3. PICK y : y = Drop(t, Len(a))
    OBVIOUS
  <1>4. PartOf(y, t, Len(a)) /\ y \in Seq(Units) /\ Len(y) = Len(t) - Len(a)
    BY <1>1, <1>2, <1>3, Dropped
  <1>5. Len(y) = Len(b)
    BY <1>1, <1>4
  <1>6. y = b
    BY <1>1, <1>4, <1>5, SamePart
  <1> QED
    BY <1>2, <1>3, <1>6

-----------------------------------------------------------------------------
(* What parse_buffer sees.                                                 *)

LEMMA RestType ==
  ASSUME TypeOK
  PROVE  /\ input \in Seq(Units) /\ chunk \o wire \in Seq(Units) /\ Rest \in Seq(Units)
         /\ PartOf(input, Rest, 0) /\ Len(Rest) = Len(input) + Len(chunk \o wire)
         /\ Len(input) \in Nat /\ Len(Rest) \in Nat
  <1>1. input \in Seq(Units) /\ chunk \in Seq(Units) /\ wire \in Seq(Units)
    BY DEF TypeOK
  <1>2. chunk \o wire \in Seq(Units)
    BY <1>1, ConcatProperties
  <1> QED
    BY <1>1, <1>2, Joined DEF Rest

LEMMA HeaderIs ==
  ASSUME TypeOK, Len(input) >= 4
  PROVE  /\ Header \in Headers /\ Header.length \in Nat
         /\ input[3].kind = "fields" => Header = FieldsAt(input, 4)
         /\ FieldsAt(input, 4) = input[3]
  <1>1. input[3] \in Units
    BY DEF TypeOK
  <1>2. Misread.length \in Nat
    BY BoundsAssumption DEF Misread, Fields
  <1>3. 4 - 1 = 3
    OBVIOUS
  <1> QED
    BY <1>1, <1>2, <1>3, UnitsAssumption DEF Header, Headers, FieldsAt

\* What it processes is an intact packet at the head of input, and it finds each one.
LEMMA SoundIs ==
  ASSUME TypeOK
  PROVE  /\ ~Incomplete /\ Sound =>
              /\ 4 \in Places(input) /\ IntactAt(input, 4) /\ Header = FieldsAt(input, 4)
              /\ EndOf(input, 4) = HeaderSize + Header.length /\ EndOf(input, 4) <= Len(input)
              /\ FieldsAt(input, 4).length <= MaxPayload
         /\ /\ 4 \in Places(input) /\ IntactAt(input, 4) /\ EndOf(input, 4) <= Len(input)
            /\ FieldsAt(input, 4).length <= MaxPayload
            => ~Incomplete /\ Sound
  <1>0. input \in Seq(Units) /\ Len(input) \in Nat /\ 4 - 1 = 3 /\ 4 - 2 = 2 /\ 4 - 3 = 1
    BY DEF TypeOK
  <1>1. 4 \in Places(input) <=> Len(input) >= 4
    BY <1>0 DEF Places, HeaderSize
  <1>2. FieldsAt(input, 4) = input[3] /\ EndOf(input, 4) = 4 + FieldsAt(input, 4).length
    BY <1>0 DEF FieldsAt, EndOf
  <1>3. HeadAt(input, 4) <=> input[4].kind = "crc" /\ input[3] = input[4].of[1] /\ input[2] = R /\ input[1] = I
    BY <1>0, <1>2 DEF HeadAt
  <1>4. ASSUME ~Incomplete, Sound
        PROVE  /\ 4 \in Places(input) /\ IntactAt(input, 4) /\ Header = FieldsAt(input, 4)
               /\ EndOf(input, 4) = HeaderSize + Header.length /\ EndOf(input, 4) <= Len(input)
               /\ FieldsAt(input, 4).length <= MaxPayload
    <2>1. Len(input) >= 4 /\ input[1] = I /\ input[2] = R /\ ~TooLong /\ CrcOK
      BY <1>0, <1>4 DEF Incomplete, Sound, Magic, HeaderSize
    <2>2. 4 \in Places(input) /\ Header.length \in Nat
      BY <1>1, <2>1, HeaderIs
    <2>3. Header.length <= MaxPayload /\ Len(input) >= 4 + Header.length
      BY <1>0, <1>4, <2>1, <2>2, BoundsAssumption DEF Incomplete, Sound, TooLong, HeaderSize
    <2>4. input[4] = Sum(input[3], Payload) /\ Payload = SubSeq(input, 4 + 1, 4 + Header.length)
      BY <2>1 DEF CrcOK, HeaderSize, Payload
    <2>5. HeadAt(input, 4)
      BY <1>3, <2>1, <2>4 DEF Sum
    <2>6. input[3].kind = "fields"
      BY <1>0, <1>2, <2>2, <2>5, HeadFields
    <2>7. Header = FieldsAt(input, 4)
      BY <2>1, <2>6, HeaderIs
    <2>8. EndOf(input, 4) = 4 + Header.length
      BY <1>2, <2>7
    <2>9. Payload = Between(input, 4, EndOf(input, 4))
      BY <2>4, <2>8 DEF Between
    <2> QED
      BY <1>2, <2>2, <2>3, <2>4, <2>5, <2>7, <2>8, <2>9 DEF IntactAt, HeaderSize
  <1>5. ASSUME 4 \in Places(input), IntactAt(input, 4), EndOf(input, 4) <= Len(input),
               FieldsAt(input, 4).length <= MaxPayload
        PROVE  ~Incomplete /\ Sound
    <2>1. HeadAt(input, 4) /\ Len(input) >= 4 /\ input[4] = Sum(input[3], Between(input, 4, EndOf(input, 4)))
      BY <1>1, <1>2, <1>5 DEF IntactAt
    <2>2. input[3].kind = "fields" /\ input[3].length \in Nat
      BY <1>0, <1>2, <1>5, <2>1, HeadFields
    <2>3. Header = FieldsAt(input, 4) /\ EndOf(input, 4) = 4 + Header.length
      BY <1>2, <2>1, <2>2, HeaderIs
    <2>4. Magic /\ ~TooLong
      BY <1>0, <1>2, <1>3, <1>5, <2>1, <2>2, <2>3, BoundsAssumption DEF Magic, TooLong
    <2>5. CrcOK
      BY <2>1, <2>3 DEF CrcOK, Payload, Between, HeaderSize
    <2>6. ~Incomplete
      BY <1>0, <1>2, <1>5, <2>1, <2>2, <2>3 DEF Incomplete, HeaderSize
    <2> QED
      BY <2>4, <2>5, <2>6 DEF Sound
  <1> QED
    BY <1>4, <1>5

\* A head in Rest whose packet lies in input.
LEMMA InInput ==
  ASSUME TypeOK, 4 \in Places(Rest), HeadAt(Rest, 4), Len(input) >= 4
  PROVE  /\ 4 \in Places(input) /\ HeadAt(input, 4) /\ FieldsAt(input, 4) = FieldsAt(Rest, 4)
         /\ EndOf(input, 4) = EndOf(Rest, 4) /\ EndOf(input, 4) \in Int
         /\ EndOf(input, 4) <= Len(input) => (IntactAt(input, 4) <=> IntactAt(Rest, 4))
  <1>1. PartOf(input, Rest, 0) /\ input \in Seq(Units) /\ Len(input) \in Nat
    BY RestType
  <1>2. 4 \in Places(input) /\ 4 = 4 + 0
    BY <1>1 DEF Places, HeaderSize
  <1>3. /\ FieldsAt(input, 4) = FieldsAt(Rest, 4) /\ HeadAt(input, 4)
        /\ EndOf(Rest, 4) = EndOf(input, 4) + 0
        /\ EndOf(input, 4) <= Len(input) => (IntactAt(input, 4) <=> IntactAt(Rest, 4))
    BY <1>1, <1>2, SamePacket
  <1>4. EndOf(input, 4) \in Int
    BY <1>1, <1>2, <1>3, HeadFields
  <1> QED
    BY <1>2, <1>3, <1>4

\* What parse_buffer skips is not the beginning of a request.
LEMMA SkipsNone ==
  ASSUME TypeOK, ~Incomplete, ~Sound, 4 \in Places(Rest)
  PROVE  ~RequestAt(Rest, 4)
  <1> SUFFICES ASSUME RequestAt(Rest, 4) PROVE FALSE
    OBVIOUS
  <1>1. HeadAt(Rest, 4) /\ IntactAt(Rest, 4) /\ FieldsAt(Rest, 4).length <= MaxPayload
    BY DEF RequestAt, IntactAt
  <1>2. Len(input) >= 2 /\ Len(input) \in Nat
    BY RestType DEF Incomplete
  <1>3. input[1] = I /\ input[2] = R
    <2>1. PartOf(input, Rest, 0)
      BY RestType
    <2>2. 1 \in 1 .. Len(input) /\ 2 \in 1 .. Len(input) /\ 1 + 0 = 1 /\ 2 + 0 = 2 /\ 4 - 2 = 2 /\ 4 - 3 = 1
      BY <1>2
    <2>3. input[1] = Rest[1 + 0] /\ input[2] = Rest[2 + 0]
      BY <2>1, <2>2 DEF PartOf
    <2>4. Rest[4-2] = R /\ Rest[4-3] = I
      BY <1>1 DEF HeadAt
    <2> QED
      BY <2>2, <2>3, <2>4
  <1>4. Magic
    BY <1>2, <1>3 DEF Magic
  <1>5. Len(input) >= 4
    BY <1>2, <1>4 DEF Incomplete, HeaderSize
  <1>6. /\ 4 \in Places(input) /\ HeadAt(input, 4) /\ FieldsAt(input, 4) = FieldsAt(Rest, 4)
        /\ EndOf(input, 4) = EndOf(Rest, 4) /\ EndOf(input, 4) \in Int
        /\ EndOf(input, 4) <= Len(input) => (IntactAt(input, 4) <=> IntactAt(Rest, 4))
    BY <1>1, <1>5, InInput
  <1>7. input[3].kind = "fields" /\ Header = FieldsAt(input, 4)
    <2>1. input \in Seq(Units)
      BY RestType
    <2>2. FieldsAt(input, 4).kind = "fields"
      BY <1>6, <2>1, HeadFields
    <2> QED
      BY <1>5, <2>2, HeaderIs
  <1>8. Header.length <= MaxPayload /\ EndOf(input, 4) = 4 + Header.length /\ Header.length \in Nat
    BY <1>1, <1>5, <1>6, <1>7, HeaderIs DEF EndOf
  <1>9. EndOf(input, 4) <= Len(input)
    BY <1>2, <1>4, <1>5, <1>8, BoundsAssumption DEF Incomplete, TooLong, HeaderSize
  <1> QED
    BY <1>1, <1>6, <1>9, SoundIs

\* Nor is what ir_protocol_expire throws away.
LEMMA ExpiresNone ==
  ASSUME TypeOK, Incomplete, input # <<>>, 4 \in Places(Rest),
         HeadAt(Rest, 4) /\ 4 - 3 <= Len(input) => EndOf(Rest, 4) <= Len(input)
  PROVE  ~RequestAt(Rest, 4)
  <1> SUFFICES ASSUME RequestAt(Rest, 4) PROVE FALSE
    OBVIOUS
  <1>1. HeadAt(Rest, 4) /\ IntactAt(Rest, 4) /\ FieldsAt(Rest, 4).length <= MaxPayload
    BY DEF RequestAt, IntactAt
  <1>2. input \in Seq(Units) /\ Rest \in Seq(Units) /\ Len(input) \in Nat /\ Len(input) >= 1
    BY RestType, EmptySeq
  <1>3. EndOf(Rest, 4) <= Len(input)
    BY <1>1, <1>2
  <1>4. Len(input) >= 4
    <2>1. EndOf(Rest, 4) \in Int /\ EndOf(Rest, 4) >= 4
      BY <1>1, <1>2, HeadFields
    <2> QED
      BY <1>2, <1>3, <2>1
  <1> QED
    BY <1>1, <1>3, <1>4, InInput, SoundIs

\* While it waits for more, there is room for it.
LEMMA Room ==
  ASSUME TypeOK, Incomplete
  PROVE  Len(input) < MaxPacket
  <1>1. Len(input) \in Nat
    BY RestType
  <1>2. CASE Len(input) < 4
    BY <1>1, <1>2, BoundsAssumption DEF MaxPacket, HeaderSize
  <1>3. CASE Len(input) >= 4
    <2>1. Header.length \in Nat
      BY <1>3, HeaderIs
    <2>2. ~TooLong /\ Len(input) < 4 + Header.length
      BY <1>1, <1>3 DEF Incomplete, HeaderSize
    <2> QED
      BY <1>1, <2>1, <2>2, BoundsAssumption DEF TooLong, MaxPacket, HeaderSize
  <1> QED
    BY <1>1, <1>2, <1>3

-----------------------------------------------------------------------------
(* Taking units off the front.                                             *)

LEMMA DropOne ==
  ASSUME NEW q \in Seq(Units), Whole(q), NEW s \in Seq(Units), Listed(q, s), Len(q) >= 1,
         4 \in Places(q) => ~RequestAt(q, 4), NEW t, t = Drop(q, 1)
  PROVE  Listed(t, s)
  <1>1. PICK f \in [1 .. Len(s) -> Places(q)] : ListedBy(f, q, s)
    BY DEF Listed
  <1>2. ASSUME NEW i \in 1 .. Len(s) PROVE f[i] > 1 + 3 <=> i > 0
    <2>1. f[i] \in Places(q) /\ RequestAt(q, f[i])
      BY <1>1 DEF ListedBy
    <2>2. f[i] \in Int /\ f[i] >= 4 /\ f[i] # 4
      BY <2>1 DEF Places, HeaderSize
    <2> QED
      BY <2>2
  <1>3. 1 \in 0 .. Len(q) /\ 0 \in 0 .. Len(s)
    OBVIOUS
  <1>4. s = Drop(s, 0)
    BY SubSeqFull DEF Drop
  <1>5. Behind(f, s, 1, 0)
    BY <1>2 DEF Behind
  <1> QED
    BY <1>1, <1>3, <1>4, <1>5, ListedDrop

LEMMA DropPacket ==
  ASSUME NEW q \in Seq(Units), Whole(q), NEW s \in Seq(Units), Listed(q, s),
         4 \in Places(q), IntactAt(q, 4), NEW n, n = EndOf(q, 4),
         NEW t, t = Drop(q, n)
  PROVE  /\ n \in 0 .. Len(q)
         /\ ~RequestAt(q, 4) => Listed(t, s)
         /\ RequestAt(q, 4) => /\ Len(s) >= 1 /\ s[1] = FieldsAt(q, 4)
                               /\ Listed(t, Drop(s, 1))
  <1>1. PICK f \in [1 .. Len(s) -> Places(q)] : ListedBy(f, q, s)
    BY DEF Listed
  <1>2. HeadAt(q, 4) /\ Len(q) \in Nat /\ Len(s) \in Nat
    BY DEF IntactAt
  <1>3. n \in Nat /\ n >= 4 /\ n <= Len(q)
    BY <1>2, HeadFields DEF Whole
  <1>4. n \in 0 .. Len(q)
    BY <1>2, <1>3
  <1>5. ASSUME NEW i \in 1 .. Len(s)
        PROVE  /\ f[i] \in Int /\ RequestAt(q, f[i])
               /\ f[i] # 4 => f[i] > n + 3
               /\ f[i] = 4 => ~(f[i] > n + 3)
    <2>1. f[i] \in Places(q) /\ RequestAt(q, f[i]) /\ HeadAt(q, f[i])
      BY <1>1 DEF ListedBy, RequestAt, IntactAt
    <2>2. f[i] \in Int /\ f[i] >= 4
      BY <1>2, <2>1 DEF Places, HeaderSize
    <2>3. ASSUME f[i] # 4 PROVE f[i] > n + 3
      <3>1. f[i] > 4
        BY <2>2, <2>3
      <3>2. f[i] - 3 > EndOf(q, 4)
        BY <1>2, <2>1, <3>1 DEF Whole
      <3> QED
        BY <1>3, <2>2, <3>2
    <2>4. 4 <= n + 3
      BY <1>3
    <2> QED
      BY <1>3, <2>1, <2>2, <2>3, <2>4
  <1>6. ASSUME ~RequestAt(q, 4) PROVE Listed(t, s)
    <2>1. ASSUME NEW i \in 1 .. Len(s) PROVE f[i] > n + 3 <=> i > 0
      BY <1>5, <1>6
    <2>2. 0 \in 0 .. Len(s) /\ s = Drop(s, 0)
      BY <1>2, SubSeqFull DEF Drop
    <2>3. Behind(f, s, n, 0)
      BY <2>1 DEF Behind
    <2> QED
      BY <1>1, <1>4, <2>2, <2>3, ListedDrop
  <1>7. ASSUME RequestAt(q, 4)
        PROVE  /\ Len(s) >= 1 /\ s[1] = FieldsAt(q, 4)
               /\ Listed(t, Drop(s, 1))
    <2>1. PICK i \in 1 .. Len(s) : f[i] = 4
      BY <1>1, <1>7 DEF ListedBy
    <2>2. i = 1 /\ Len(s) >= 1
      <3>1. CASE i > 1
        <4>1. 1 \in 1 .. Len(s) /\ 1 < i
          BY <1>2, <3>1
        <4>2. f[1] < f[i]
          BY <1>1, <4>1 DEF ListedBy
        <4>3. f[1] > n + 3 /\ f[1] \in Int
          BY <1>5, <2>1, <4>1, <4>2
        <4> QED
          BY <1>3, <2>1, <4>2, <4>3
      <3> QED
        BY <1>2, <3>1
    <2>3. s[1] = FieldsAt(q, 4)
      BY <1>1, <2>1, <2>2 DEF ListedBy
    <2>4. ASSUME NEW j \in 1 .. Len(s) PROVE f[j] > n + 3 <=> j > 1
      <3>1. CASE j = 1
        BY <1>5, <2>1, <2>2, <3>1
      <3>2. CASE j # 1
        <4>1. j > 1 /\ 1 \in 1 .. Len(s)
          BY <1>2, <2>2, <3>2
        <4>2. f[1] < f[j] /\ f[1] = 4
          BY <1>1, <2>1, <2>2, <4>1 DEF ListedBy
        <4>3. f[j] # 4
          BY <1>5, <4>2
        <4> QED
          BY <1>5, <4>1, <4>3
      <3> QED
        BY <3>1, <3>2
    <2>5. 1 \in 0 .. Len(s) /\ Behind(f, s, n, 1)
      BY <1>2, <2>2, <2>4 DEF Behind
    <2>6. Listed(t, Drop(s, 1))
      BY <1>1, <1>4, <2>5, ListedDrop
    <2> QED
      BY <2>2, <2>3, <2>6
  <1> QED
    BY <1>4, <1>6, <1>7

\* Rest without what was discarded.
LEMMA DropRest ==
  ASSUME TypeOK, NEW n \in 0 .. Len(input), input' = Discard(n), UNCHANGED <<chunk, wire>>
  PROVE  /\ Rest' = Drop(Rest, n) /\ n \in 0 .. Len(Rest)
         /\ input' \in Seq(Units) /\ Len(input') = Len(input) - n
  <1>1. /\ input \in Seq(Units) /\ chunk \o wire \in Seq(Units) /\ Rest \in Seq(Units)
        /\ Len(Rest) = Len(input) + Len(chunk \o wire) /\ Len(input) \in Nat /\ Len(Rest) \in Nat
        /\ Len(chunk \o wire) \in Nat
    BY RestType
  <1>2. Rest = input \o (chunk \o wire) /\ Rest' = input' \o (chunk \o wire)
    BY DEF Rest
  <1>3. input' = Drop(input, n)
    BY DEF Discard, Drop
  <1>4. Rest' = Drop(Rest, n)
    <2>1. PICK b : b = chunk \o wire
      OBVIOUS
    <2>2. PICK t : t = Rest
      OBVIOUS
    <2>3. t = Join(input, b) /\ b \in Seq(Units) /\ input \in Seq(Units) /\ n \in 0 .. Len(input)
      BY <1>1, <1>2, <2>1, <2>2 DEF Join
    <2>4. PICK c : c = Drop(input, n)
      OBVIOUS
    <2>5. PICK x : x = Join(c, b)
      OBVIOUS
    <2>6. Rest' = x
      BY <1>2, <1>3, <2>1, <2>4, <2>5 DEF Join
    <2>7. x = Drop(t, n)
      BY ONLY <2>3, <2>4, <2>5, DropJoined
    <2> QED
      BY <2>2, <2>6, <2>7
  <1>5. input' \in Seq(Units) /\ Len(input') = Len(input) - n
    BY <1>1, <1>3, Dropped
  <1>6. n \in 0 .. Len(Rest)
    BY <1>1
  <1> QED
    BY <1>4, <1>5, <1>6

\* An expiry stays within what it began with.
LEMMA CutDrop ==
  ASSUME TypeOK, NEW n \in 0 .. Len(input), input' = Discard(n), UNCHANGED <<chunk, wire>>,
         CutAt(Rest, Len(input))
  PROVE  CutAt(Rest', Len(input'))
  <1>1. /\ Rest' = Drop(Rest, n) /\ n \in 0 .. Len(Rest)
        /\ Len(input') = Len(input) - n /\ Rest \in Seq(Units) /\ Len(input) \in Nat
    BY DropRest, RestType
  <1>2. PICK t : t = Rest'
    OBVIOUS
  <1>3. PartOf(t, Rest, n) /\ t \in Seq(Units) /\ n \in Nat /\ Len(t) \in Nat
    BY <1>1, <1>2, Dropped
  <1>4. ASSUME NEW p \in Places(t), HeadAt(t, p), p - 3 <= Len(input')
        PROVE  EndOf(t, p) <= Len(input')
    <2>1. PICK r : r = p + n
      OBVIOUS
    <2>2. r \in Places(Rest) /\ HeadAt(Rest, r) /\ EndOf(Rest, r) = EndOf(t, p) + n
      BY <1>3, <1>4, <2>1, SamePacket
    <2>3. p \in Int /\ EndOf(t, p) \in Int
      BY <1>3, <1>4, HeadFields
    <2>4. r - 3 <= Len(input)
      BY <1>1, <1>3, <1>4, <2>1, <2>3
    <2>5. EndOf(Rest, r) <= Len(input)
      BY <2>2, <2>4 DEF CutAt
    <2> QED
      BY <1>1, <1>3, <2>2, <2>3, <2>5
  <1> QED
    BY <1>2, <1>4 DEF CutAt

-----------------------------------------------------------------------------
(* The invariant holds in the beginning.                                   *)

LEMMA InitInv == Init => ProtocolInv
  <1> SUFFICES ASSUME Init PROVE ProtocolInv
    OBVIOUS
  <1>1. /\ wire = <<>> /\ chunk = <<>> /\ input = <<>> /\ taskPc = "read" /\ caller = "feed"
        /\ count = 0 /\ asked = <<>> /\ served = <<>> /\ refused = <<>>
    BY DEF Init
  <1>2. TypeOK
    BY <1>1 DEF TypeOK
  <1>3. Settled
    <2>1. Len(input) = 0
      BY <1>1
    <2> QED
      BY <2>1, BoundsAssumption DEF Settled, Incomplete, MaxPacket, HeaderSize
  <1>4. Rest = <<>> /\ Pending = <<>>
    BY <1>1 DEF Rest, Pending
  <1>5. Len(Rest) = 0 /\ Len(Pending) = 0
    BY <1>4
  <1>6. Places(Rest) = {} /\ 1 .. Len(Pending) = {}
    BY <1>5 DEF Places, HeaderSize
  <1>7. Cut
    BY <1>1, <1>6 DEF Cut, Expiring
  <1>8. Whole(Rest)
    BY <1>6 DEF Whole
  <1>9. Listed(Rest, Pending)
    <2>1. PICK f : f = [i \in {} |-> i]
      OBVIOUS
    <2>2. f \in [1 .. Len(Pending) -> Places(Rest)]
      BY <1>6, <2>1
    <2>3. ListedBy(f, Rest, Pending)
      BY <1>6, <2>2 DEF ListedBy
    <2> QED
      BY <2>2, <2>3 DEF Listed
  <1>10. ServedInOrder
    BY <1>1 DEF ServedInOrder
  <1> QED
    BY <1>2, <1>3, <1>7, <1>8, <1>9, <1>10 DEF ProtocolInv

LEMMA FirstOnes ==
  ASSUME NEW q \in Seq(Units), NEW n \in 0 .. Len(q), NEW a, a = SubSeq(q, 1, n)
  PROVE  PartOf(a, q, 0) /\ a \in Seq(Units) /\ Len(a) = n
  <1>0. n \in Int /\ n >= 0 /\ Len(q) \in Int /\ n <= Len(q)
    OBVIOUS
  <1>1. \A i \in 1 .. n : q[i] \in Units
    BY <1>0
  <1>2. /\ a \in Seq(Units) /\ Len(a) = IF 1 <= n THEN n - 1 + 1 ELSE 0
        /\ \A i \in 1 .. n - 1 + 1 : a[i] = q[1 + i - 1]
    BY <1>0, <1>1, SubSeqProperties
  <1>3. Len(a) = n
    BY <1>0, <1>2
  <1>4. ASSUME NEW i \in 1 .. Len(a) PROVE a[i] = q[i + 0]
    <2>1. 1 + i - 1 = i + 0 /\ a[i] = q[1 + i - 1]
      BY <1>0, <1>2, <1>3
    <2> QED
      BY <2>1
  <1> QED
    BY <1>0, <1>2, <1>3, <1>4 DEF PartOf

-----------------------------------------------------------------------------
(* A flush: of the requests still pending those behind it remain.          *)

LEMMA PendingIs ==
  ASSUME TypeOK, ServedInOrder
  PROVE  /\ asked \in Seq(Units) /\ Len(served) \in 0 .. Len(asked) /\ Pending = Drop(asked, Len(served))
         /\ Pending \in Seq(Units) /\ Len(Pending) = Len(asked) - Len(served)
         /\ PartOf(Pending, asked, Len(served)) /\ Len(asked) \in Nat /\ Len(served) \in Nat
  <1>1. asked \in Seq(Units) /\ Len(served) \in Nat /\ Len(asked) \in Nat
    BY DEF TypeOK
  <1>2. Len(served) \in 0 .. Len(asked)
    BY <1>1 DEF ServedInOrder
  <1>3. PICK t : t = Pending
    OBVIOUS
  <1>4. t = Drop(asked, Len(served))
    BY <1>3 DEF Pending, Drop
  <1>5. t \in Seq(Units) /\ Len(t) = Len(asked) - Len(served) /\ PartOf(t, asked, Len(served))
    BY <1>1, <1>2, <1>4, Dropped
  <1> QED
    BY <1>1, <1>2, <1>3, <1>4, <1>5

LEMMA FlushLeaves ==
  ASSUME ProtocolInv, NEW n \in Nat, ReadError(n)
  PROVE  \E k \in 0 .. Len(Pending) : \E v \in Seq(Units) :
           /\ v = Drop(Pending, k)
           /\ wire' \in Seq(Units) /\ Whole(wire') /\ Listed(wire', v)
           /\ asked' = SubSeq(asked, 1, Len(served)) \o v
  <1>1. /\ TypeOK /\ Cut /\ Whole(Rest) /\ Listed(Rest, Pending) /\ ServedInOrder
    BY DEF ProtocolInv
  <1>2. /\ wire \in Seq(Units) /\ input \in Seq(Units) /\ Len(wire) \in Nat /\ Len(input) \in Nat
    BY <1>1 DEF TypeOK
  <1>3. n \in 0 .. Len(wire) /\ wire' = Drop(wire, n)
    BY <1>2 DEF ReadError, Drop
  <1>4. Rest = input \o wire
    <2>1. chunk = <<>>
      BY <1>1 DEF Cut, ReadError
    <2>2. chunk \o wire = wire
      BY <1>2, <2>1
    <2> QED
      BY <2>2 DEF Rest
  <1>5. PICK q : q = Rest
    OBVIOUS
  <1>6. q \in Seq(Units) /\ Drop(q, Len(input)) = wire /\ Len(input) \in 0 .. Len(q)
    BY <1>1, <1>2, <1>4, <1>5, RestType, DropFirst
  <1>7. PICK l : l = Len(input) + n
    OBVIOUS
  <1>8. PICK w : w = wire'
    OBVIOUS
  <1>9. w = Drop(q, l) /\ l \in 0 .. Len(q) /\ w = Drop(wire, n)
    <2>1. wire = Drop(q, Len(input)) /\ w = Drop(wire, n)
      BY <1>3, <1>6, <1>8
    <2> QED
      BY <1>3, <1>6, <1>7, <2>1, DropTwice
  <1>10. PartOf(w, wire, n) /\ w \in Seq(Units) /\ Len(w) = Len(wire) - n /\ Len(w) \in Nat
    BY <1>2, <1>3, <1>9, Dropped
  <1>11. Whole(wire) /\ Whole(w)
    <2>1. Whole(q)
      BY <1>1, <1>5
    <2>2. Whole(wire)
      BY <1>6, <2>1, WholeDrop
    <2>3. Whole(w)
      BY <1>6, <1>9, <2>1, WholeDrop
    <2> QED
      BY <2>2, <2>3
  <1>12. PICK s : s = Pending
    OBVIOUS
  <1>13. s \in Seq(Units) /\ s = Drop(asked, Len(served)) /\ Listed(q, s)
    BY <1>1, <1>5, <1>12, PendingIs
  <1>14. PICK f \in [1 .. Len(s) -> Places(q)] : ListedBy(f, q, s)
    BY <1>13 DEF Listed
  <1>15. PICK k \in 0 .. Len(s) : Behind(f, s, l, k)
    <2>1. PICK b : b = l + 3
      OBVIOUS
    <2>2. b \in Int
      BY <1>2, <1>7, <2>1
    <2>3. PICK k \in 0 .. Len(s) : \A i \in 1 .. Len(s) : f[i] > b <=> i > k
      BY <1>6, <1>13, <1>14, <2>2, LastOnes
    <2> QED
      BY <2>1, <2>3 DEF Behind
  <1>16. PICK v : v = Drop(s, k)
    OBVIOUS
  <1>17. Listed(w, v) /\ v \in Seq(Units) /\ Len(v) = Len(s) - k
    <2>1. /\ q \in Seq(Units) /\ l \in 0 .. Len(q) /\ w = Drop(q, l) /\ Whole(q)
          /\ s \in Seq(Units) /\ f \in [1 .. Len(s) -> Places(q)] /\ ListedBy(f, q, s)
          /\ k \in 0 .. Len(s) /\ Behind(f, s, l, k) /\ v = Drop(s, k)
      BY <1>1, <1>5, <1>6, <1>9, <1>13, <1>14, <1>15, <1>16
    <2> QED
      BY ONLY <2>1, ListedDrop
  <1>18. Cardinality({i \in n + 1 .. Len(wire) : StartsRequest(i)}) = Len(v)
    <2> DEFINE C == {i \in n + 1 .. Len(wire) : StartsRequest(i)}
    <2>1. PICK d : d = n - 3
      OBVIOUS
    <2>2. d \in Int
      BY <2>1
    <2>3. ASSUME NEW p \in Places(w), NEW r, r = p + n
          PROVE  r \in Places(wire) /\ (RequestAt(w, p) <=> RequestAt(wire, r)) /\ p \in Int
      <3>1. /\ r \in Places(wire)
            /\ HeadAt(w, p) <=> HeadAt(wire, r)
            /\ HeadAt(w, p) /\ EndOf(w, p) <= Len(w) => (RequestAt(w, p) <=> RequestAt(wire, r))
        <4>1. PartOf(w, wire, n) /\ r = p + n /\ p \in Places(w)
          BY <1>10, <2>3
        <4> QED
          BY ONLY <4>1, SamePacket
      <3>2. HeadAt(w, p) => EndOf(w, p) <= Len(w)
        BY <1>11 DEF Whole
      <3>3. p \in Int
        BY <1>10 DEF Places, HeaderSize
      <3> QED
        BY <3>1, <3>2, <3>3 DEF RequestAt, IntactAt
    <2>4. ASSUME NEW i \in C PROVE \E p \in Places(w) : RequestAt(w, p) /\ i = p + d
      <3>1. i \in n + 1 .. Len(wire) /\ i \in 1 .. Len(wire) /\ i \in Int /\ StartsRequest(i)
        BY <1>2
      <3>2. PICK r : r = i + 3
        OBVIOUS
      <3>3. r \in Places(wire) /\ RequestAt(wire, r)
        BY <1>2, <1>11, <3>1, <3>2, StartsAt
      <3>4. PICK p : p = r - n
        OBVIOUS
      <3>5. r \in Int /\ r <= Len(wire)
        BY <1>2, <3>3 DEF Places, HeaderSize
      <3>6. p \in Places(w) /\ r = p + n /\ i = p + d
        BY <1>2, <1>3, <1>10, <2>1, <3>1, <3>2, <3>4, <3>5 DEF Places, HeaderSize
      <3> QED
        BY <2>3, <3>3, <3>6
    <2>5. ASSUME NEW p \in Places(w), RequestAt(w, p), NEW i, i = p + d PROVE i \in C
      <3>1. PICK r : r = p + n
        OBVIOUS
      <3>2. r \in Places(wire) /\ RequestAt(wire, r) /\ p \in Int /\ p >= 4 /\ p <= Len(w)
        BY <1>10, <2>3, <2>5, <3>1 DEF Places, HeaderSize
      <3>3. i \in n + 1 .. Len(wire) /\ i \in 1 .. Len(wire) /\ r = i + 3
        BY <1>2, <1>3, <1>10, <2>1, <2>5, <3>1, <3>2
      <3>4. StartsRequest(i)
        BY <1>2, <1>11, <3>2, <3>3, StartsAt
      <3> QED
        BY <3>3, <3>4
    <2> HIDE DEF C
    <2>6. \A i : i \in C <=> \E p \in Places(w) : RequestAt(w, p) /\ i = p + d
      BY <2>4, <2>5
    <2>7. Cardinality(C) = Len(v)
      BY <1>10, <1>17, <2>2, <2>6, CountListed
    <2> QED
      BY <2>7 DEF C
  <1>19. asked' = SubSeq(asked, 1, Len(served)) \o v
    <2>1. asked' = SubSeq(asked, 1, Len(served)) \o SubSeq(asked, Len(asked) - Len(v) + 1, Len(asked))
      BY <1>18 DEF ReadError
    <2>2. PICK c : c = Len(served) + k
      OBVIOUS
    <2>3. /\ asked \in Seq(Units) /\ Len(served) \in 0 .. Len(asked) /\ Len(asked) \in Nat
          /\ Len(s) = Len(asked) - Len(served)
      BY <1>1, <1>12, PendingIs
    <2>4. v = Drop(asked, c)
      <3>1. PICK a : a = asked
        OBVIOUS
      <3>2. PICK m : m = Len(served)
        OBVIOUS
      <3>3. a \in Seq(Units) /\ m \in 0 .. Len(a) /\ s = Drop(a, m) /\ k \in 0 .. Len(s) /\ c = m + k
        BY <1>13, <2>2, <2>3, <3>1, <3>2
      <3>4. Drop(s, k) = Drop(a, c)
        BY ONLY <3>3, DropTwice
      <3> QED
        BY <1>16, <3>1, <3>4
    <2>5. Len(asked) - Len(v) + 1 = c + 1
      BY <1>17, <2>2, <2>3
    <2> QED
      BY <2>1, <2>4, <2>5 DEF Drop
  <1> QED
    BY <1>8, <1>10, <1>11, <1>12, <1>16, <1>17, <1>19

-----------------------------------------------------------------------------
(* Every step keeps the types and the settled input.                       *)

LEMMA InputPart ==
  ASSUME TypeOK, NEW n \in 0 .. Len(input)
  PROVE  Discard(n) \in Seq(Units) /\ Len(Discard(n)) = Len(input) - n
  <1>1. PICK t : t = Discard(n)
    OBVIOUS
  <1>2. t = Drop(input, n) /\ input \in Seq(Units)
    BY <1>1 DEF Discard, Drop, TypeOK
  <1>3. t \in Seq(Units) /\ Len(t) = Len(input) - n
    BY <1>2, Dropped
  <1> QED
    BY <1>1, <1>3

LEMMA AnswerType ==
  ASSUME TypeOK, Len(input) >= 4, NEW s \in StatusCodes
  PROVE  Answer(s) \in Responses
  <1>1. Header \in Headers
    BY HeaderIs
  <1> QED
    BY <1>1 DEF Answer, Responses

LEMMA StatusesAreCodes == Statuses \subseteq StatusCodes
  <1>1. DecodeStatus(Payload) \in StatusCodes
    BY DEF DecodeStatus, StatusCodes
  <1>2. CASE ~Header.clean
    BY <1>2 DEF Statuses, StatusCodes
  <1>3. CASE Header.clean
    <2>1. CASE Header.command = "READ"
      BY <1>3, <2>1 DEF Statuses, StatusCodes
    <2>2. CASE Header.command = "WRITE"
      BY <1>1, <1>3, <2>2 DEF Statuses, StatusCodes
    <2>3. CASE Header.command = "PING"
      BY <1>3, <2>3 DEF Statuses, StatusCodes
    <2>4. CASE Header.command \notin {"READ", "WRITE", "PING"}
      BY <1>3, <2>4 DEF Statuses, StatusCodes
    <2> QED
      BY <2>1, <2>2, <2>3, <2>4
  <1> QED
    BY <1>2, <1>3

\* parse_buffer decides on a header only once it has one.
LEMMA MagicHasHeader ==
  ASSUME TypeOK, ~Incomplete, Magic
  PROVE  Len(input) >= 4
  BY RestType DEF Incomplete, HeaderSize

LEMMA ProcessTakes ==
  ASSUME TypeOK, ~Incomplete, Sound
  PROVE  Len(input) >= 4 /\ HeaderSize + Header.length \in 0 .. Len(input)
  <1>1. Len(input) >= 4
    BY MagicHasHeader DEF Sound
  <1>2. EndOf(input, 4) = HeaderSize + Header.length /\ EndOf(input, 4) <= Len(input)
    BY SoundIs
  <1>3. Header.length \in Nat /\ Len(input) \in Nat
    BY <1>1, HeaderIs, RestType
  <1> QED
    BY <1>1, <1>2, <1>3 DEF HeaderSize

LEMMA TypeStep ==
  ASSUME ProtocolInv, [Next]_vars
  PROVE  TypeOK'
  <1>1. /\ wire \in Seq(Units) /\ chunk \in Seq(Units) /\ input \in Seq(Units)
        /\ taskPc \in {"read", "feed", "parse", "expire"}
        /\ caller \in {"feed", "expire"}
        /\ count \in Nat
        /\ asked \in Seq(Units)
        /\ served \in Seq(Responses) /\ refused \in Seq(Responses)
        /\ Len(input) \in Nat /\ Len(wire) \in Nat
    BY DEF ProtocolInv, TypeOK
  <1>1a. TypeOK
    BY DEF ProtocolInv
  <1>2. ASSUME NEW m \in Messages, Send(m) PROVE TypeOK'
    <2>1. m \in Seq(Units)
      BY UnitsAssumption
    <2>2. wire' \in Seq(Units)
      BY <1>1, <1>2, <2>1, ConcatProperties DEF Send
    <2>3. IsRequest(m) => m[3] \in Units
      BY <2>1 DEF IsRequest, HeaderSize
    <2>4. asked' \in Seq(Units)
      BY <1>1, <1>2, <2>3 DEF Send
    <2> QED
      BY <1>1, <1>2, <2>2, <2>4 DEF Send, TypeOK, answers
  <1>3. ASSUME NEW n \in ReadSizes, ReadBytes(n) PROVE TypeOK'
    <2>1. n \in 0 .. Len(wire) /\ n \in 1 .. Len(wire) /\ 1 \in 1 .. Len(wire)
      BY <1>1, <1>3, BoundsAssumption DEF ReadBytes, ReadSizes
    <2>2. wire' = Drop(wire, n) /\ chunk' = SubSeq(wire, 1, n)
      BY <1>3 DEF ReadBytes, Drop
    <2>3. wire' \in Seq(Units)
      BY <1>1, <2>1, <2>2, Dropped
    <2>4. chunk' \in Seq(Units)
      BY <1>1, <2>1, <2>2, Sliced
    <2> QED
      BY <1>1, <1>3, <2>3, <2>4 DEF ReadBytes, TypeOK, answers
  <1>4. CASE ReadNothing
    BY <1>1, <1>4 DEF ReadNothing, TypeOK, answers
  <1>5. ASSUME NEW n \in 0 .. ChunkMax, ReadError(n) PROVE TypeOK'
    <2>1. PICK v \in Seq(Units) : wire' \in Seq(Units) /\ asked' = SubSeq(asked, 1, Len(served)) \o v
      <3>1. n \in Nat
        BY BoundsAssumption
      <3> QED
        BY <1>5, <3>1, FlushLeaves
    <2>2. SubSeq(asked, 1, Len(served)) \in Seq(Units)
      <3>1. asked \in Seq(Units) /\ Len(served) \in 0 .. Len(asked)
        BY PendingIs DEF ProtocolInv
      <3> QED
        BY <3>1, FirstOnes
    <2>3. asked' \in Seq(Units) /\ wire' \in Seq(Units)
      BY <2>1, <2>2, ConcatProperties
    <2> QED
      BY <1>1, <1>5, <2>3, EmptySeq DEF ReadError, TypeOK, answers
  <1>6. CASE FeedByte
    <2>1. MakeRoom \in Seq(Units)
      <3>1. Len(input) = MaxPacket => 1 \in 0 .. Len(input)
        BY <1>1, BoundsAssumption DEF MaxPacket, HeaderSize
      <3> QED
        BY <1>1, <3>1, <1>1a, InputPart DEF MakeRoom
    <2>2. Head(chunk) \in Units /\ Tail(chunk) \in Seq(Units)
      BY <1>1, <1>6, HeadTailProperties DEF FeedByte
    <2>3. input' \in Seq(Units)
      BY <1>6, <2>1, <2>2, AppendProperties DEF FeedByte
    <2> QED
      BY <1>1, <1>6, <2>2, <2>3 DEF FeedByte, TypeOK, answers
  <1>7. CASE FeedDone
    BY <1>1, <1>7 DEF FeedDone, TypeOK, answers
  <1>8. CASE ExpireByte
    <2>1. 1 \in 0 .. Len(input)
      BY <1>1, <1>8, EmptySeq DEF ExpireByte
    <2>2. input' \in Seq(Units)
      BY <1>8, <2>1, <1>1a, InputPart DEF ExpireByte
    <2> QED
      BY <1>1, <1>8, <2>2 DEF ExpireByte, TypeOK, answers
  <1>9. CASE ExpireDone
    BY <1>1, <1>9 DEF ExpireDone, TypeOK, answers
  <1>10. CASE ParseReturn
    BY <1>1, <1>10 DEF ParseReturn, TypeOK, answers
  <1>11. CASE Skip
    <2>1. 1 \in 0 .. Len(input)
      BY <1>1, <1>11 DEF Skip, Incomplete
    <2>2. input' \in Seq(Units)
      BY <1>11, <2>1, <1>1a, InputPart DEF Skip
    <2>3. refused' \in Seq(Responses)
      <3>1. CASE ~Magic \/ Header.response
        BY <1>1, <1>11, <3>1 DEF Skip
      <3>2. CASE ~(~Magic \/ Header.response)
        <4>1. Len(input) >= 4
          BY <1>11, <3>2, <1>1a, MagicHasHeader DEF Skip
        <4>2. PICK s : s = IF TooLong THEN "INVALID_LENGTH" ELSE "CRC_ERROR"
          OBVIOUS
        <4>3. s \in StatusCodes /\ refused' = Append(refused, Answer(s))
          BY <1>11, <3>2, <4>2 DEF Skip, StatusCodes
        <4> QED
          BY <1>1, <4>1, <4>3, <1>1a, AnswerType, AppendProperties
      <3> QED
        BY <3>1, <3>2
    <2> QED
      BY <1>1, <1>11, <2>2, <2>3 DEF Skip, TypeOK, answers
  <1>12. CASE Process
    <2>1. Len(input) >= 4 /\ HeaderSize + Header.length \in 0 .. Len(input)
      BY <1>12, <1>1a, ProcessTakes DEF Process
    <2>2. input' \in Seq(Units)
      BY <1>12, <2>1, <1>1a, InputPart DEF Process
    <2>3. served' \in Seq(Responses)
      <3>1. CASE Header.response
        BY <1>1, <1>12, <3>1 DEF Process
      <3>2. CASE ~Header.response
        <4>1. PICK s \in Statuses : served' = Append(served, Answer(s))
          BY <1>12, <3>2 DEF Process
        <4> QED
          BY <1>1, <2>1, <4>1, <1>1a, AnswerType, StatusesAreCodes, AppendProperties
      <3> QED
        BY <3>1, <3>2
    <2> QED
      BY <1>1, <1>12, <2>2, <2>3 DEF Process, TypeOK, answers
  <1>13. CASE UNCHANGED vars
    BY <1>1, <1>13 DEF vars, TypeOK, answers
  <1> QED
    BY <1>2, <1>3, <1>4, <1>5, <1>6, <1>7, <1>8, <1>9, <1>10, <1>11, <1>12, <1>13 DEF Next, Task

LEMMA SettledStep ==
  ASSUME TypeOK, Settled, [Next]_vars
  PROVE  Settled'
  <1>1. Len(input) \in Nat /\ Len(input) <= MaxPacket /\ (taskPc # "parse" => Incomplete)
    BY RestType DEF Settled
  <1>2. CASE UNCHANGED input /\ (taskPc' # "parse" => taskPc # "parse" \/ Incomplete)
    <2>1. Incomplete' <=> Incomplete
      BY <1>2 DEF Incomplete, Magic, TooLong, Header
    <2> QED
      BY <1>1, <1>2, <2>1 DEF Settled
  <1>3. ASSUME NEW n \in 0 .. ChunkMax, ReadError(n) PROVE Settled'
    <2>1. Len(input') = 0
      BY <1>3 DEF ReadError
    <2>2. Len(input') < 2 /\ Len(input') <= MaxPacket
      BY <2>1, BoundsAssumption DEF MaxPacket, HeaderSize
    <2> QED
      BY <2>2 DEF Settled, Incomplete
  <1>4. CASE FeedByte
    <2>1. Len(input) < MaxPacket
      BY <1>1, <1>4, Room DEF FeedByte
    <2>2. Len(input') = Len(input) + 1
      <3>1. input' = Append(input, Head(chunk)) /\ input \in Seq(Units)
        BY <1>1, <1>4, <2>1 DEF FeedByte, MakeRoom, TypeOK
      <3>2. Head(chunk) \in Units
        BY <1>4, HeadTailProperties DEF FeedByte, TypeOK
      <3> QED
        BY <3>1, <3>2, AppendProperties
    <2>3. MaxPacket \in Nat
      BY BoundsAssumption DEF MaxPacket, HeaderSize
    <2> QED
      BY <1>1, <1>4, <2>1, <2>2, <2>3 DEF FeedByte, Settled
  <1>5. ASSUME NEW n \in 0 .. Len(input), input' = Discard(n), taskPc' = "parse" PROVE Settled'
    <2>1. Len(input') = Len(input) - n
      BY <1>5, InputPart
    <2>2. MaxPacket \in Nat
      BY BoundsAssumption DEF MaxPacket, HeaderSize
    <2> QED
      BY <1>1, <1>5, <2>1, <2>2 DEF Settled
  <1>6. CASE ExpireByte
    <2>1. 1 \in 0 .. Len(input)
      BY <1>1, <1>6, EmptySeq DEF ExpireByte, TypeOK
    <2> QED
      BY <1>5, <1>6, <2>1 DEF ExpireByte
  <1>7. CASE Skip
    <2>1. 1 \in 0 .. Len(input)
      BY <1>1, <1>7 DEF Skip, Incomplete
    <2> QED
      BY <1>5, <1>7, <2>1 DEF Skip
  <1>8. CASE Process
    <2>1. HeaderSize + Header.length \in 0 .. Len(input)
      BY <1>8, ProcessTakes DEF Process
    <2> QED
      BY <1>5, <1>8, <2>1 DEF Process
  <1>9. ASSUME NEW m \in Messages, Send(m) PROVE Settled'
    BY <1>2, <1>9 DEF Send
  <1>10. ASSUME NEW n \in ReadSizes, ReadBytes(n) PROVE Settled'
    BY <1>2, <1>10 DEF ReadBytes
  <1>11. CASE ReadNothing
    BY <1>2, <1>11 DEF ReadNothing
  <1>12. CASE FeedDone \/ ExpireDone
    BY <1>2, <1>12 DEF FeedDone, ExpireDone
  <1>13. CASE ParseReturn
    BY <1>2, <1>13 DEF ParseReturn
  <1>14. CASE UNCHANGED vars
    BY <1>2, <1>14 DEF vars
  <1> QED
    BY <1>3, <1>4, <1>6, <1>7, <1>8, <1>9, <1>10, <1>11, <1>12, <1>13, <1>14 DEF Next, Task

-----------------------------------------------------------------------------
(* Steps that only move bytes along.                                       *)

\* Three parts make the whole.
LEMMA ThreeParts ==
  ASSUME NEW a \in Seq(Units), NEW b \in Seq(Units), NEW c \in Seq(Units),
         NEW x \in Seq(Units), NEW y \in Seq(Units), NEW k, k = Len(a) + Len(b),
         PartOf(a, x, 0), PartOf(b, x, Len(a)), PartOf(c, x, k), Len(x) = k + Len(c),
         PartOf(a, y, 0), PartOf(b, y, Len(a)), PartOf(c, y, k), Len(y) = k + Len(c)
  PROVE  x = y
  <1>1. Len(a) \in Nat /\ Len(b) \in Nat /\ Len(c) \in Nat /\ k \in Nat
    OBVIOUS
  <1>2. ASSUME NEW i \in 1 .. Len(x) PROVE x[i] = y[i]
    <2>1. CASE i <= Len(a)
      <3>1. i \in 1 .. Len(a) /\ i + 0 = i
        BY <1>1, <2>1
      <3> QED
        BY <3>1 DEF PartOf
    <2>2. CASE i > Len(a) /\ i <= k
      <3>1. PICK j : j = i - Len(a)
        OBVIOUS
      <3>2. j \in 1 .. Len(b) /\ j + Len(a) = i
        BY <1>1, <2>2, <3>1
      <3>3. b[j] = x[j + Len(a)] /\ b[j] = y[j + Len(a)]
        BY <3>2 DEF PartOf
      <3> QED
        BY <3>2, <3>3
    <2>3. CASE i > k
      <3>1. PICK j : j = i - k
        OBVIOUS
      <3>2. j \in 1 .. Len(c) /\ j + k = i
        BY <1>1, <2>3, <3>1
      <3>3. c[j] = x[j + k] /\ c[j] = y[j + k]
        BY <3>2 DEF PartOf
      <3> QED
        BY <3>2, <3>3
    <2> QED
      BY <1>1, <2>1, <2>2, <2>3
  <1>3. Len(x) = Len(y)
    OBVIOUS
  <1> QED
    BY <1>2, <1>3, SeqEqual

LEMMA SplitAt ==
  ASSUME NEW q \in Seq(Units), NEW n \in 0 .. Len(q)
  PROVE  SubSeq(q, 1, n) \o Drop(q, n) = q
  <1>1. PICK a : a = SubSeq(q, 1, n)
    OBVIOUS
  <1>2. PICK b : b = Drop(q, n)
    OBVIOUS
  <1>3. PICK x : x = a \o b
    OBVIOUS
  <1>4. PartOf(a, q, 0) /\ a \in Seq(Units) /\ Len(a) = n
    BY <1>1, FirstOnes
  <1>5. PartOf(b, q, n) /\ b \in Seq(Units) /\ Len(b) = Len(q) - n /\ n \in Nat /\ Len(q) \in Nat
    BY <1>2, Dropped
  <1>6. PartOf(a, x, 0) /\ PartOf(b, x, n) /\ x \in Seq(Units) /\ Len(x) = n + Len(b)
    BY <1>3, <1>4, <1>5, Joined
  <1>7. Len(x) = Len(q)
    BY <1>5, <1>6
  <1>8. ASSUME NEW i \in 1 .. Len(x) PROVE x[i] = q[i]
    <2>1. CASE i <= n
      <3>1. i \in 1 .. Len(a) /\ i + 0 = i
        BY <1>4, <1>5, <2>1
      <3> QED
        BY <1>4, <1>6, <3>1 DEF PartOf
    <2>2. CASE i > n
      <3>1. PICK j : j = i - n
        OBVIOUS
      <3>2. j \in 1 .. Len(b) /\ j + n = i
        BY <1>5, <1>6, <2>2, <3>1
      <3>3. b[j] = x[j + n] /\ b[j] = q[j + n]
        BY <1>5, <1>6, <3>2 DEF PartOf
      <3> QED
        BY <3>2, <3>3
    <2> QED
      BY <1>5, <2>1, <2>2
  <1>9. x = q
    BY <1>6, <1>7, <1>8, SeqEqual
  <1> QED
    BY <1>1, <1>2, <1>3, <1>9

\* Moving one unit from the head of the second run to the end of the first.
LEMMA MoveOne ==
  ASSUME NEW a \in Seq(Units), NEW b \in Seq(Units), NEW c \in Seq(Units), b # <<>>
  PROVE  Append(a, Head(b)) \o (Tail(b) \o c) = a \o (b \o c)
  <1>1. PICK u : u = Head(b)
    OBVIOUS
  <1>2. PICK t : t = Tail(b)
    OBVIOUS
  <1>3. u \in Units /\ u = b[1] /\ t \in Seq(Units) /\ Len(b) \in Nat /\ Len(b) >= 1 /\ Len(t) = Len(b) - 1
        /\ \A i \in 1 .. Len(t) : t[i] = b[i + 1]
    BY <1>1, <1>2, HeadTailProperties, EmptySeq
  <1>4. PICK d : d = Append(a, u)
    OBVIOUS
  <1>5. d \in Seq(Units) /\ Len(d) = Len(a) + 1 /\ d[Len(a) + 1] = u /\ \A i \in 1 .. Len(a) : d[i] = a[i]
    BY <1>3, <1>4, AppendProperties
  <1>6. Len(a) \in Nat /\ Len(t) \in Nat /\ Len(c) \in Nat
    BY <1>3
  <1>7. PICK v : v = t \o c
    OBVIOUS
  <1>8. PICK x : x = d \o v
    OBVIOUS
  <1>9. /\ v \in Seq(Units) /\ PartOf(t, v, 0) /\ PartOf(c, v, Len(t)) /\ Len(v) = Len(t) + Len(c)
    BY <1>3, <1>7, Joined
  <1>10. /\ x \in Seq(Units) /\ PartOf(d, x, 0) /\ PartOf(v, x, Len(d)) /\ Len(x) = Len(d) + Len(v)
    BY <1>5, <1>8, <1>9, Joined
  <1>11. PICK k : k = Len(a) + Len(b)
    OBVIOUS
  <1>12. k \in Nat /\ k = Len(d) + Len(t) /\ Len(x) = k + Len(c)
    BY <1>3, <1>5, <1>6, <1>9, <1>10, <1>11
  <1>13. PartOf(c, x, k)
    BY <1>9, <1>10, <1>12, PartOfPart
  <1>14. PartOf(t, x, Len(d))
    <2>1. Len(d) = Len(d) + 0
      BY <1>5, <1>6
    <2> QED
      BY <1>9, <1>10, <2>1, PartOfPart
  <1>15. PartOf(a, x, 0)
    <2>1. PartOf(a, d, 0)
      BY <1>5, <1>6 DEF PartOf
    <2>2. 0 = 0 + 0
      OBVIOUS
    <2> QED
      BY <1>10, <2>1, <2>2, PartOfPart
  <1>16. PartOf(b, x, Len(a))
    <2>1. ASSUME NEW i \in 1 .. Len(b) PROVE b[i] = x[i + Len(a)]
      <3>1. CASE i = 1
        <4>1. Len(a) + 1 \in 1 .. Len(d) /\ (Len(a) + 1) + 0 = 1 + Len(a)
          BY <1>5, <1>6
        <4>2. d[Len(a) + 1] = x[(Len(a) + 1) + 0]
          BY <1>10, <4>1 DEF PartOf
        <4> QED
          BY <1>3, <1>5, <3>1, <4>1, <4>2
      <3>2. CASE i # 1
        <4>1. PICK j : j = i - 1
          OBVIOUS
        <4>2. j \in 1 .. Len(t) /\ j + 1 = i /\ j + Len(d) = i + Len(a)
          BY <1>3, <1>5, <1>6, <3>2, <4>1
        <4>3. t[j] = b[j + 1] /\ t[j] = x[j + Len(d)]
          BY <1>3, <1>14, <4>2 DEF PartOf
        <4> QED
          BY <4>2, <4>3
      <3> QED
        BY <3>1, <3>2
    <2> QED
      BY <1>3, <1>6, <1>10, <1>11, <1>12, <2>1 DEF PartOf
  <1>17. PICK w : w = b \o c
    OBVIOUS
  <1>18. PICK y : y = a \o w
    OBVIOUS
  <1>19. w \in Seq(Units) /\ PartOf(b, w, 0) /\ PartOf(c, w, Len(b)) /\ Len(w) = Len(b) + Len(c)
    BY <1>17, Joined
  <1>20. y \in Seq(Units) /\ PartOf(a, y, 0) /\ PartOf(w, y, Len(a)) /\ Len(y) = Len(a) + Len(w)
    BY <1>18, <1>19, Joined
  <1>21. PartOf(b, y, Len(a))
    <2>1. Len(a) = Len(a) + 0
      BY <1>6
    <2> QED
      BY <1>19, <1>20, <2>1, PartOfPart
  <1>22. PartOf(c, y, k) /\ Len(y) = k + Len(c)
    <2>1. k = Len(a) + Len(b) /\ Len(y) = k + Len(c)
      BY <1>3, <1>6, <1>11, <1>19, <1>20
    <2>2. PartOf(c, y, k)
      BY <1>19, <1>20, <2>1, PartOfPart
    <2> QED
      BY <2>1, <2>2
  <1>23. x = y
    BY <1>10, <1>11, <1>12, <1>13, <1>15, <1>16, <1>20, <1>21, <1>22, ThreeParts
  <1> QED
    BY <1>1, <1>2, <1>4, <1>7, <1>8, <1>17, <1>18, <1>23

\* What the invariant says of the units not parsed yet.
Promise == Whole(Rest) /\ Listed(Rest, Pending) /\ ServedInOrder

LEMMA RestKept ==
  ASSUME Promise, Rest' = Rest, UNCHANGED <<asked, served>>
  PROVE  Promise'
  <1>1. Pending' = Pending
    BY DEF Pending
  <1> QED
    BY <1>1 DEF Promise, ServedInOrder

LEMMA ReadBytesStep ==
  ASSUME ProtocolInv, NEW n \in ReadSizes, ReadBytes(n)
  PROVE  Cut' /\ Promise'
  <1>1. wire \in Seq(Units) /\ Len(wire) \in Nat /\ chunk = <<>> /\ Promise
    BY DEF ProtocolInv, Promise, TypeOK, Cut, ReadBytes
  <1>2. n \in 0 .. Len(wire)
    BY <1>1, BoundsAssumption DEF ReadBytes, ReadSizes
  <1>3. chunk' \o wire' = wire
    BY <1>1, <1>2, SplitAt DEF ReadBytes, Drop
  <1>4. chunk \o wire = wire
    BY <1>1
  <1>5. Rest' = Rest
    BY <1>3, <1>4 DEF Rest, ReadBytes
  <1>6. Promise'
    BY <1>1, <1>5, RestKept DEF ReadBytes, answers
  <1>7. taskPc' = "feed"
    BY DEF ReadBytes
  <1>8. Cut'
    BY <1>7 DEF Cut, Expiring
  <1> QED
    BY <1>6, <1>8

LEMMA FeedByteStep ==
  ASSUME ProtocolInv, FeedByte
  PROVE  Cut' /\ Promise'
  <1>1. /\ TypeOK /\ Settled /\ Promise
        /\ wire \in Seq(Units) /\ chunk \in Seq(Units) /\ input \in Seq(Units) /\ Len(input) \in Nat
    BY DEF ProtocolInv, Promise, TypeOK
  <1>2. MakeRoom = input
    <2>1. Len(input) < MaxPacket
      BY <1>1, Room DEF Settled, FeedByte
    <2> QED
      BY <1>1, <2>1, BoundsAssumption DEF MakeRoom, MaxPacket, HeaderSize
  <1>3. Rest' = Rest
    BY <1>1, <1>2, MoveOne DEF FeedByte, Rest
  <1>4. Promise'
    BY <1>1, <1>3, RestKept DEF FeedByte, answers
  <1>5. taskPc' = "parse" /\ caller' = "feed"
    BY DEF FeedByte
  <1>6. Cut'
    BY <1>5 DEF Cut, Expiring
  <1> QED
    BY <1>4, <1>6

\* The remaining steps that leave the bytes alone.
LEMMA WaitingStep ==
  ASSUME ProtocolInv, ReadNothing \/ FeedDone \/ ExpireDone \/ ParseReturn \/ UNCHANGED vars
  PROVE  Cut' /\ Promise'
  <1>1. TypeOK /\ Cut /\ Promise
    BY DEF ProtocolInv, Promise
  <1>2. UNCHANGED <<wire, chunk, input, caller, asked, served>>
    BY DEF ReadNothing, FeedDone, ExpireDone, ParseReturn, vars, answers
  <1>3. Rest' = Rest
    BY <1>2 DEF Rest
  <1>4. Promise'
    BY <1>1, <1>2, <1>3, RestKept
  <1>5. CASE Expiring' => Expiring
    <2>1. taskPc' = "read" => chunk = <<>>
      BY <1>1 DEF Cut, ReadNothing, FeedDone, ExpireDone, ParseReturn, vars, Expiring, TypeOK
    <2>2. Expiring' => chunk = <<>> /\ CutAt(Rest, Len(input))
      BY <1>1, <1>5 DEF Cut
    <2>3. Expiring' => chunk' = <<>> /\ CutAt(Rest', Len(input'))
      BY <1>2, <1>3, <2>2
    <2> QED
      BY <1>2, <1>4, <2>1, <2>3 DEF Cut
  <1>6. CASE ReadNothing
    <2>1. chunk = <<>> /\ wire = <<>> /\ input \in Seq(Units)
      BY <1>1, <1>6 DEF Cut, ReadNothing, TypeOK
    <2>2. Rest = input
      BY <2>1 DEF Rest
    <2>3. CutAt(Rest, Len(input))
      BY <1>1, <2>2 DEF Promise, Whole, CutAt
    <2>4. chunk' = <<>> /\ CutAt(Rest', Len(input'))
      BY <1>2, <1>3, <2>1, <2>3
    <2> QED
      BY <1>4, <2>4 DEF Cut
  <1>7. CASE FeedDone \/ ExpireDone \/ ParseReturn \/ UNCHANGED vars
    <2>1. Expiring' => Expiring
      BY <1>7 DEF FeedDone, ExpireDone, ParseReturn, vars, Expiring
    <2> QED
      BY <1>5, <2>1
  <1> QED
    BY <1>4, <1>5, <1>6, <1>7

-----------------------------------------------------------------------------
(* The host sends.                                                         *)

LEMMA Regrouped ==
  ASSUME NEW a \in Seq(Units), NEW b \in Seq(Units), NEW c \in Seq(Units),
         NEW v, v = Join(b, c), NEW x, x = Join(a, v),
         NEW w, w = Join(a, b), NEW y, y = Join(w, c)
  PROVE  x = y
  <1>1. Len(a) \in Nat /\ Len(b) \in Nat /\ Len(c) \in Nat
    OBVIOUS
  <1>2. v \in Seq(Units) /\ PartOf(b, v, 0) /\ PartOf(c, v, Len(b)) /\ Len(v) = Len(b) + Len(c)
    BY Joined DEF Join
  <1>3. x \in Seq(Units) /\ PartOf(a, x, 0) /\ PartOf(v, x, Len(a)) /\ Len(x) = Len(a) + Len(v)
    BY <1>2, Joined DEF Join
  <1>4. w \in Seq(Units) /\ PartOf(a, w, 0) /\ PartOf(b, w, Len(a)) /\ Len(w) = Len(a) + Len(b)
    BY Joined DEF Join
  <1>5. y \in Seq(Units) /\ PartOf(w, y, 0) /\ PartOf(c, y, Len(w)) /\ Len(y) = Len(w) + Len(c)
    BY <1>4, Joined DEF Join
  <1>6. PICK k : k = Len(a) + Len(b)
    OBVIOUS
  <1>7. /\ Len(w) = k /\ Len(x) = k + Len(c) /\ Len(y) = k + Len(c)
        /\ 0 = 0 + 0 /\ Len(a) = Len(a) + 0 /\ Len(a) = 0 + Len(a)
    BY <1>1, <1>2, <1>3, <1>4, <1>5, <1>6
  <1>8. PartOf(b, x, Len(a))
    BY <1>2, <1>3, <1>7, PartOfPart
  <1>9. PartOf(c, x, k)
    BY <1>2, <1>3, <1>6, PartOfPart
  <1>10. PartOf(a, y, 0)
    BY <1>4, <1>5, <1>7, PartOfPart
  <1>11. PartOf(b, y, Len(a))
    BY <1>4, <1>5, <1>7, PartOfPart
  <1>12. PartOf(c, y, k)
    BY <1>5, <1>7
  <1> QED
    BY <1>3, <1>5, <1>6, <1>7, <1>8, <1>9, <1>10, <1>11, <1>12, ThreeParts

\* What is appended to a sequence is appended to its tail.
LEMMA DropAppended ==
  ASSUME NEW q \in Seq(Units), NEW n \in 0 .. Len(q), NEW u \in Units
  PROVE  Drop(Append(q, u), n) = Append(Drop(q, n), u)
  <1>1. PICK b : b = <<u>>
    OBVIOUS
  <1>2. b \in Seq(Units)
    BY <1>1
  <1>3. PICK t : t = Append(q, u)
    OBVIOUS
  <1>4. PICK c : c = Drop(q, n)
    OBVIOUS
  <1>5. c \in Seq(Units)
    BY <1>4, Dropped
  <1>6. PICK x : x = Append(c, u)
    OBVIOUS
  <1>7. t = Join(q, b) /\ x = Join(c, b)
    BY <1>1, <1>3, <1>5, <1>6, AppendIsConcat DEF Join
  <1>8. x = Drop(t, n)
    <2>1. q \in Seq(Units) /\ n \in 0 .. Len(q)
      OBVIOUS
    <2> QED
      BY ONLY <1>2, <1>4, <1>7, <2>1, DropJoined
  <1> QED
    BY <1>3, <1>4, <1>6, <1>8

LEMMA SendStep ==
  ASSUME ProtocolInv, NEW m \in Messages, Send(m)
  PROVE  Cut' /\ Promise'
  <1>1. TypeOK /\ Cut /\ Whole(Rest) /\ Listed(Rest, Pending) /\ ServedInOrder
    BY DEF ProtocolInv
  <1>2. m \in Seq(Units)
    BY UnitsAssumption
  <1>3. /\ input \in Seq(Units) /\ chunk \in Seq(Units) /\ wire \in Seq(Units)
        /\ Rest \in Seq(Units) /\ Len(input) \in Nat /\ Len(Rest) \in Nat /\ Len(input) <= Len(Rest)
    <2>1. Len(chunk \o wire) \in Nat
      BY <1>1, RestType
    <2> QED
      BY <1>1, <2>1, RestType DEF TypeOK
  <1>4. PICK q : q = Rest
    OBVIOUS
  <1>5. PICK t : t = Rest'
    OBVIOUS
  <1>6. t = q \o m
    <2>1. PICK a : a = Join(wire, m)
      OBVIOUS
    <2>2. PICK b : b = Join(chunk, a)
      OBVIOUS
    <2>3. PICK c : c = Join(chunk, wire)
      OBVIOUS
    <2>4. PICK d : d = Join(c, m)
      OBVIOUS
    <2>5. PICK e : e = Join(q, m)
      OBVIOUS
    <2>6. q = Join(input, c) /\ t = Join(input, b) /\ c \in Seq(Units)
      BY <1>1, <1>4, <1>5, <2>1, <2>2, <2>3, RestType DEF Rest, Send, Join
    <2>7. b = d
      BY <1>2, <1>3, <2>1, <2>2, <2>3, <2>4, Regrouped
    <2>8. t = e
      BY <1>2, <1>3, <2>4, <2>5, <2>6, <2>7, Regrouped
    <2> QED
      BY <2>5, <2>8 DEF Join
  <1>7. Whole(t)
    BY <1>1, <1>3, <1>4, <1>6, WholeAdd
  <1>8. Pending' = IF IsRequest(m) THEN Append(Pending, m[3]) ELSE Pending
    <2>1. asked \in Seq(Units) /\ Len(served) \in 0 .. Len(asked) /\ Pending = Drop(asked, Len(served))
      BY <1>1, PendingIs
    <2>2. Pending' = Drop(asked', Len(served))
      BY DEF Pending, Drop, Send, answers
    <2>3. CASE IsRequest(m)
      <3>1. m[3] \in Units
        BY <1>2, <2>3 DEF IsRequest, HeaderSize
      <3>2. asked' = Append(asked, m[3])
        BY <2>3 DEF Send
      <3> QED
        BY <2>1, <2>2, <2>3, <3>1, <3>2, DropAppended
    <2>4. CASE ~IsRequest(m)
      BY <2>1, <2>2, <2>4 DEF Send
    <2> QED
      BY <2>3, <2>4
  <1>9. Listed(t, Pending')
    <2>1. PICK s : s = Pending
      OBVIOUS
    <2>2. PICK v : v = Pending'
      OBVIOUS
    <2>3. s \in Seq(Units) /\ Listed(q, s) /\ q \in Seq(Units) /\ Whole(q)
      BY <1>1, <1>3, <1>4, <2>1, PendingIs
    <2>4. v = Asked(s, m) /\ t = Join(q, m)
      BY <1>6, <1>8, <2>1, <2>2 DEF Asked, Join
    <2>5. Listed(t, v)
      <3>1. m \in Messages
        OBVIOUS
      <3> QED
        BY ONLY <2>3, <2>4, <3>1, ListedAdd
    <2> QED
      BY <2>2, <2>5
  <1>10. ServedInOrder'
    <2>1. asked \in Seq(Units) /\ Len(served) \in Nat /\ Len(asked) \in Nat /\ served' = served
      BY DEF ProtocolInv, TypeOK, Send, answers
    <2>2. CASE IsRequest(m)
      <3>1. m[3] \in Units /\ asked' = Append(asked, m[3])
        BY <1>2, <2>2 DEF IsRequest, HeaderSize, Send
      <3>2. Len(asked') = Len(asked) + 1 /\ \A i \in 1 .. Len(asked) : asked'[i] = asked[i]
        BY <2>1, <3>1, AppendProperties
      <3> QED
        BY <1>1, <2>1, <3>2 DEF ServedInOrder
    <2>3. CASE ~IsRequest(m)
      BY <1>1, <2>1, <2>3 DEF ServedInOrder, Send
    <2> QED
      BY <2>2, <2>3
  <1>11. Promise'
    BY <1>5, <1>7, <1>9, <1>10 DEF Promise
  <1>12. ASSUME CutAt(q, Len(input)) PROVE CutAt(t, Len(input))
    <2>1. ASSUME NEW p \in Places(t), HeadAt(t, p), p - 3 <= Len(input)
          PROVE  EndOf(t, p) <= Len(input)
      <3>1. /\ PartOf(q, t, 0) /\ t \in Seq(Units) /\ Len(t) = Len(q) + Len(m)
            /\ Len(q) \in Nat /\ Len(m) \in Nat
        BY <1>2, <1>3, <1>4, <1>6, Joined
      <3>2. p \in Int
        BY <3>1 DEF Places, HeaderSize
      <3>3. CASE p <= Len(q)
        <4>1. p \in Places(q) /\ p = p + 0
          BY <3>1, <3>3 DEF Places, HeaderSize
        <4>2. HeadAt(q, p) /\ EndOf(t, p) = EndOf(q, p) + 0
          BY <2>1, <3>1, <4>1, SamePacket
        <4>3. EndOf(q, p) <= Len(input) /\ EndOf(q, p) \in Int
          BY <1>3, <1>4, <1>12, <2>1, <4>1, <4>2, HeadFields DEF CutAt
        <4> QED
          BY <1>3, <4>2, <4>3
      <3>4. CASE p > Len(q)
        <4>1. p = 4 + Len(q)
          BY <1>3, <1>4, <1>6, <2>1, <3>4, NewHead
        <4> QED
          BY <1>3, <1>4, <2>1, <3>1, <4>1
      <3> QED
        BY <3>1, <3>2, <3>3, <3>4
    <2> QED
      BY <2>1 DEF CutAt
  <1>13. Cut'
    <2>1. UNCHANGED <<taskPc, caller, chunk, input>>
      BY DEF Send
    <2>2. Expiring' <=> Expiring
      BY <2>1 DEF Expiring
    <2>3. Expiring => CutAt(t, Len(input))
      BY <1>1, <1>4, <1>12 DEF Cut
    <2>4. Expiring' => CutAt(Rest', Len(input'))
      BY <1>5, <2>1, <2>2, <2>3
    <2>5. taskPc' = "read" \/ Expiring' => chunk' = <<>>
      BY <1>1, <2>1, <2>2 DEF Cut
    <2> QED
      BY <2>4, <2>5 DEF Cut
  <1> QED
    BY <1>11, <1>13

-----------------------------------------------------------------------------
(* parse_buffer and ir_protocol_expire take bytes off input.               *)

LEMMA CutKept ==
  ASSUME TypeOK, Cut, NEW n \in 0 .. Len(input), input' = Discard(n), UNCHANGED <<chunk, wire>>,
         taskPc' = "parse", Expiring' => Expiring
  PROVE  Cut'
  <1>1. Expiring => chunk = <<>> /\ CutAt(Rest, Len(input))
    BY DEF Cut
  <1>2. Expiring => CutAt(Rest', Len(input'))
    BY <1>1, CutDrop
  <1>3. Expiring' => chunk' = <<>> /\ CutAt(Rest', Len(input'))
    BY <1>1, <1>2
  <1> QED
    BY <1>3 DEF Cut

\* One unit is thrown away.
LEMMA DiscardOne ==
  ASSUME TypeOK, Promise, Len(input) >= 1, input' = Discard(1),
         UNCHANGED <<chunk, wire, asked, served>>,
         4 \in Places(Rest) => ~RequestAt(Rest, 4)
  PROVE  Promise'
  <1>1. Len(input) \in Nat /\ Rest \in Seq(Units) /\ Len(Rest) \in Nat /\ 1 \in 0 .. Len(input)
    BY RestType
  <1>2. Rest' = Drop(Rest, 1) /\ 1 \in 0 .. Len(Rest)
    BY <1>1, DropRest
  <1>3. PICK q : q = Rest
    OBVIOUS
  <1>4. PICK t : t = Rest'
    OBVIOUS
  <1>5. PICK s : s = Pending
    OBVIOUS
  <1>6. /\ q \in Seq(Units) /\ Whole(q) /\ Listed(q, s) /\ 1 \in 0 .. Len(q) /\ t = Drop(q, 1)
        /\ 4 \in Places(q) => ~RequestAt(q, 4)
        /\ s \in Seq(Units) /\ ServedInOrder /\ Len(q) >= 1
    BY <1>1, <1>2, <1>3, <1>4, <1>5, PendingIs DEF Promise
  <1>7. Whole(t)
    BY <1>6, WholeDrop
  <1>8. Listed(t, s)
    BY ONLY <1>6, DropOne
  <1>9. Pending' = s
    BY <1>5 DEF Pending
  <1>10. ServedInOrder'
    BY <1>6 DEF ServedInOrder
  <1> QED
    BY <1>4, <1>7, <1>8, <1>9, <1>10 DEF Promise

LEMMA SkipStep ==
  ASSUME ProtocolInv, Skip
  PROVE  Cut' /\ Promise'
  <1>1. TypeOK /\ Cut /\ Promise /\ Len(input) \in Nat
    BY RestType DEF ProtocolInv, Promise
  <1>2. Len(input) >= 1 /\ 1 \in 0 .. Len(input)
    BY <1>1 DEF Skip, Incomplete
  <1>3. 4 \in Places(Rest) => ~RequestAt(Rest, 4)
    BY <1>1, SkipsNone DEF Skip
  <1>4. Promise'
    BY <1>1, <1>2, <1>3, DiscardOne DEF Skip
  <1>5. Cut'
    <2>1. taskPc' = "parse" /\ (Expiring' => Expiring)
      BY DEF Skip, Expiring
    <2> QED
      BY <1>1, <1>2, <2>1, CutKept DEF Skip
  <1> QED
    BY <1>4, <1>5

LEMMA ExpireByteStep ==
  ASSUME ProtocolInv, ExpireByte
  PROVE  Cut' /\ Promise'
  <1>1. TypeOK /\ Cut /\ Settled /\ Promise /\ Len(input) \in Nat /\ input \in Seq(Units)
    BY RestType DEF ProtocolInv, Promise
  <1>2. Len(input) >= 1 /\ 1 \in 0 .. Len(input) /\ Incomplete
    BY <1>1, EmptySeq DEF ExpireByte, Settled
  <1>3. 4 \in Places(Rest) => ~RequestAt(Rest, 4)
    <2>1. CutAt(Rest, Len(input))
      BY <1>1 DEF Cut, Expiring, ExpireByte
    <2> QED
      BY <1>1, <1>2, <2>1, ExpiresNone DEF CutAt, ExpireByte
  <1>4. Promise'
    BY <1>1, <1>2, <1>3, DiscardOne DEF ExpireByte, answers
  <1>5. Cut'
    <2>1. taskPc' = "parse" /\ (Expiring' => Expiring)
      BY DEF ExpireByte, Expiring
    <2> QED
      BY <1>1, <1>2, <2>1, CutKept DEF ExpireByte
  <1> QED
    BY <1>4, <1>5

\* A packet is taken off: if it is a request, it is the first one pending.
LEMMA ProcessStep ==
  ASSUME ProtocolInv, Process
  PROVE  Cut' /\ Promise'
  <1>1. /\ TypeOK /\ Cut /\ Whole(Rest) /\ Listed(Rest, Pending) /\ ServedInOrder
        /\ Len(input) \in Nat /\ input \in Seq(Units) /\ Rest \in Seq(Units) /\ PartOf(input, Rest, 0)
    BY RestType DEF ProtocolInv
  <1>2. PICK n : n = HeaderSize + Header.length
    OBVIOUS
  <1>3. n \in 0 .. Len(input) /\ input' = Discard(n)
    BY <1>1, <1>2, ProcessTakes DEF Process
  <1>4. /\ 4 \in Places(input) /\ IntactAt(input, 4) /\ Header = FieldsAt(input, 4)
        /\ EndOf(input, 4) = n /\ n <= Len(input) /\ FieldsAt(input, 4).length <= MaxPayload
    BY <1>1, <1>2, SoundIs DEF Process
  <1>5. PICK q : q = Rest
    OBVIOUS
  <1>6. /\ 4 \in Places(q) /\ IntactAt(q, 4) /\ Header = FieldsAt(q, 4) /\ EndOf(q, 4) = n
        /\ RequestAt(q, 4) <=> ~Header.response
    <2>1. 4 = 4 + 0 /\ HeadAt(input, 4) /\ PartOf(input, q, 0)
      BY <1>1, <1>4, <1>5 DEF IntactAt
    <2>2. /\ 4 \in Places(q) /\ FieldsAt(input, 4) = FieldsAt(q, 4)
          /\ EndOf(q, 4) = EndOf(input, 4) + 0
          /\ EndOf(input, 4) <= Len(input) => (IntactAt(input, 4) <=> IntactAt(q, 4))
      BY <1>4, <2>1, SamePacket
    <2>3. EndOf(q, 4) = n /\ IntactAt(q, 4) /\ Header = FieldsAt(q, 4)
      BY <1>3, <1>4, <2>2
    <2> QED
      BY <1>4, <2>2, <2>3 DEF RequestAt
  <1>7. PICK s : s = Pending
    OBVIOUS
  <1>8. PICK t : t = Rest'
    OBVIOUS
  <1>9. t = Drop(q, n)
    BY <1>1, <1>3, <1>5, <1>8, DropRest DEF Process
  <1>10. q \in Seq(Units) /\ Whole(q) /\ s \in Seq(Units) /\ Listed(q, s)
    BY <1>1, <1>5, <1>7, PendingIs
  <1>11. /\ n \in 0 .. Len(q)
         /\ ~RequestAt(q, 4) => Listed(t, s)
         /\ RequestAt(q, 4) => /\ Len(s) >= 1 /\ s[1] = FieldsAt(q, 4)
                               /\ Listed(t, Drop(s, 1))
    BY <1>6, <1>9, <1>10, DropPacket
  <1>12. Whole(t)
    BY <1>9, <1>10, <1>11, WholeDrop
  <1>13. Listed(t, Pending') /\ ServedInOrder'
    <2>1. CASE Header.response
      <3>1. UNCHANGED <<served, asked>>
        BY <2>1 DEF Process
      <3> QED
        BY <1>1, <1>6, <1>7, <1>11, <2>1, <3>1 DEF Pending, ServedInOrder
    <2>2. CASE ~Header.response
      <3>1. PICK a \in Statuses : served' = Append(served, Answer(a))
        BY <2>2 DEF Process
      <3>2. PICK l : l = Len(served)
        OBVIOUS
      <3>3. /\ asked \in Seq(Units) /\ l \in 0 .. Len(asked) /\ s = Drop(asked, l)
            /\ Len(s) = Len(asked) - l /\ PartOf(s, asked, l) /\ Len(asked) \in Nat /\ l \in Nat
        BY <1>1, <1>7, <3>2, PendingIs
      <3>4. Answer(a) \in Responses /\ Answer(a).request = Header
        <4>1. Len(input) >= 4
          BY <1>1, ProcessTakes DEF Process
        <4> QED
          BY <1>1, <3>1, <4>1, AnswerType, StatusesAreCodes DEF Answer
      <3>5. /\ Len(served') = l + 1 /\ served'[l + 1] = Answer(a)
            /\ \A i \in 1 .. l : served'[i] = served[i]
        <4>1. served \in Seq(Responses)
          BY <1>1 DEF TypeOK
        <4> QED
          BY <3>1, <3>2, <3>4, <4>1, AppendProperties
      <3>6. Len(s) >= 1 /\ s[1] = Header /\ Listed(t, Drop(s, 1))
        BY <1>6, <1>11, <2>2
      <3>7. asked' = asked /\ l + 1 <= Len(asked)
        BY <3>3, <3>6 DEF Process
      <3>8. asked[l + 1] = Header
        <4>1. 1 \in 1 .. Len(s) /\ 1 + l = l + 1
          BY <3>3, <3>6
        <4>2. s[1] = asked[1 + l]
          BY <3>3, <4>1 DEF PartOf
        <4> QED
          BY <3>6, <4>1, <4>2
      <3>9. ServedInOrder'
        <4>1. ASSUME NEW i \in 1 .. l + 1 PROVE served'[i].request = asked[i]
          <5>1. CASE i = l + 1
            BY <3>4, <3>5, <3>8, <5>1
          <5>2. CASE i \in 1 .. l
            BY <1>1, <3>2, <3>5, <5>2 DEF ServedInOrder
          <5> QED
            BY <3>3, <5>1, <5>2
        <4> QED
          BY <3>5, <3>7, <4>1 DEF ServedInOrder
      <3>10. Pending' = Drop(s, 1)
        <4>1. PICK k : k = l + 1
          OBVIOUS
        <4>2. PICK d : d = asked
          OBVIOUS
        <4>3. /\ d \in Seq(Units) /\ l \in 0 .. Len(d) /\ s = Drop(d, l) /\ 1 \in 0 .. Len(s) /\ k = l + 1
          BY <3>3, <3>6, <4>1, <4>2
        <4>4. Drop(s, 1) = Drop(d, k)
          BY ONLY <4>3, DropTwice
        <4>5. Pending' = Drop(d, k)
          BY <3>5, <3>7, <4>1, <4>2 DEF Pending, Drop
        <4> QED
          BY <4>4, <4>5
      <3> QED
        BY <3>6, <3>9, <3>10
    <2> QED
      BY <2>1, <2>2
  <1>14. Promise'
    BY <1>8, <1>12, <1>13 DEF Promise
  <1>15. Cut'
    <2>1. taskPc' = "parse" /\ (Expiring' => Expiring) /\ UNCHANGED <<chunk, wire>>
      BY DEF Process, Expiring
    <2> QED
      BY <1>1, <1>3, <2>1, CutKept
  <1> QED
    BY <1>14, <1>15

LEMMA ReadErrorStep ==
  ASSUME ProtocolInv, NEW n \in Nat, ReadError(n)
  PROVE  Cut' /\ Promise'
  <1>1. PICK k \in 0 .. Len(Pending) : \E v \in Seq(Units) :
           /\ v = Drop(Pending, k)
           /\ wire' \in Seq(Units) /\ Whole(wire') /\ Listed(wire', v)
           /\ asked' = SubSeq(asked, 1, Len(served)) \o v
    BY FlushLeaves
  <1>2. PICK v \in Seq(Units) :
           /\ wire' \in Seq(Units) /\ Whole(wire') /\ Listed(wire', v)
           /\ asked' = SubSeq(asked, 1, Len(served)) \o v
    BY <1>1
  <1>3. chunk' = <<>> /\ input' = <<>> /\ served' = served /\ taskPc' = "read"
    BY DEF ProtocolInv, Cut, ReadError, answers
  <1>4. Rest' = wire'
    BY <1>2, <1>3 DEF Rest
  <1>5. PICK a : a = SubSeq(asked, 1, Len(served))
    OBVIOUS
  <1>6. /\ asked \in Seq(Units) /\ Len(served) \in 0 .. Len(asked) /\ Len(served) \in Nat
        /\ ServedInOrder
    BY PendingIs DEF ProtocolInv
  <1>7. PartOf(a, asked, 0) /\ a \in Seq(Units) /\ Len(a) = Len(served)
    BY <1>5, <1>6, FirstOnes
  <1>8. PICK t : t = asked'
    OBVIOUS
  <1>9. t = a \o v
    BY <1>2, <1>5, <1>8
  <1>10. PartOf(a, t, 0) /\ t \in Seq(Units) /\ Len(t) = Len(a) + Len(v) /\ Len(v) \in Nat
    BY <1>7, <1>9, Joined
  <1>11. Pending' = v
    <2>1. Drop(t, Len(a)) = v
      BY <1>7, <1>9, DropFirst
    <2> QED
      BY <1>3, <1>7, <1>8, <2>1 DEF Pending, Drop
  <1>12. ServedInOrder'
    <2>1. Len(served) <= Len(t)
      BY <1>6, <1>7, <1>10
    <2>2. ASSUME NEW i \in 1 .. Len(served) PROVE served[i].request = t[i]
      <3>1. i \in 1 .. Len(a) /\ i + 0 = i
        BY <1>7
      <3>2. a[i] = asked[i + 0] /\ a[i] = t[i + 0]
        BY <1>7, <1>10, <3>1 DEF PartOf
      <3> QED
        BY <1>6, <3>1, <3>2 DEF ServedInOrder
    <2> QED
      BY <1>3, <1>8, <2>1, <2>2 DEF ServedInOrder
  <1>13. Promise'
    BY <1>2, <1>4, <1>11, <1>12 DEF Promise
  <1>14. Cut'
    BY <1>3 DEF Cut, Expiring
  <1> QED
    BY <1>13, <1>14

-----------------------------------------------------------------------------
(* The theorems.                                                           *)

LEMMA ProtocolStep == ProtocolInv /\ [Next]_vars => ProtocolInv'
  <1> SUFFICES ASSUME ProtocolInv, [Next]_vars PROVE ProtocolInv'
    OBVIOUS
  <1>1. TypeOK'
    BY TypeStep
  <1>2. Settled'
    BY SettledStep DEF ProtocolInv
  <1>3. Cut' /\ Promise'
    <2>1. ASSUME NEW m \in Messages, Send(m) PROVE Cut' /\ Promise'
      BY <2>1, SendStep
    <2>2. ASSUME NEW n \in ReadSizes, ReadBytes(n) PROVE Cut' /\ Promise'
      BY <2>2, ReadBytesStep
    <2>3. ASSUME NEW n \in 0 .. ChunkMax, ReadError(n) PROVE Cut' /\ Promise'
      <3>1. n \in Nat
        BY BoundsAssumption
      <3> QED
        BY <2>3, <3>1, ReadErrorStep
    <2> QED
      BY <2>1, <2>2, <2>3, FeedByteStep, WaitingStep, SkipStep, ExpireByteStep, ProcessStep
         DEF Next, Task
  <1> QED
    BY <1>1, <1>2, <1>3 DEF ProtocolInv, Promise

LEMMA Invariance == Spec => []ProtocolInv
  BY InitInv, ProtocolStep, PTL DEF Spec

\* Every variable keeps its type: input, chunk and wire hold units of messages, and every
\* response carries the header of a packet and one of the status codes.
THEOREM TypeCorrect == Spec => []TypeOK
  <1>1. ProtocolInv => TypeOK
    BY DEF ProtocolInv
  <1> QED
    BY <1>1, Invariance, PTL

\* Whatever the host sends, and however its bytes are cut into chunks, flushed or
\* expired: the requests process_request serves are requests the host asked, each at
\* most once and in its order.
THEOREM RequestsServedInOrder == Spec => []ServedInOrder
  <1>1. ProtocolInv => ServedInOrder
    BY DEF ProtocolInv
  <1> QED
    BY <1>1, Invariance, PTL

\* Once the line is idle and the parser empty, none of the requests that no flush took
\* is left unserved.
THEOREM NoRequestMissed == Spec => []NothingMissed
  <1>1. ProtocolInv => NothingMissed
    <2> SUFFICES ASSUME ProtocolInv, Drained PROVE Len(served) = Len(asked)
      BY DEF NothingMissed
    <2>1. wire = <<>> /\ input = <<>> /\ chunk = <<>>
      BY DEF ProtocolInv, Cut, Drained
    <2>2. Rest = <<>>
      BY <2>1 DEF Rest
    <2>3. Places(Rest) = {}
      BY <2>2 DEF Places, HeaderSize
    <2>4. PICK f \in [1 .. Len(Pending) -> Places(Rest)] : ListedBy(f, Rest, Pending)
      BY DEF ProtocolInv, Listed
    <2>5. /\ Pending \in Seq(Units) /\ Len(Pending) = Len(asked) - Len(served)
          /\ Len(asked) \in Nat /\ Len(served) \in Nat /\ Len(served) \in 0 .. Len(asked)
      BY PendingIs DEF ProtocolInv
    <2>6. ~(1 \in 1 .. Len(Pending))
      BY <2>3, <2>4
    <2> QED
      BY <2>5, <2>6
  <1> QED
    BY <1>1, Invariance, PTL

\* parse_buffer leaves room for the byte that ir_protocol_feed appends next, so none is
\* pushed out of the front of the buffer.
THEOREM RoomForTheNextByte == Spec => []BufferHasRoom
  <1>1. ProtocolInv => BufferHasRoom
    BY Room DEF ProtocolInv, Settled, BufferHasRoom
  <1> QED
    BY <1>1, Invariance, PTL
=============================================================================
