---------------------------- MODULE IrCodeProofs ----------------------------
(***************************************************************************)
(* For codes of any size: what is encoded decodes to the same code, and    *)
(* what is accepted for transmission is the encoding of what goes out.     *)
(* And for raw frames of any length: what Collecting makes of one is the   *)
(* frame that a reader of the documentation expects.                       *)
(***************************************************************************)
EXTENDS IrCode, FiniteSetTheorems, TLAPS

Phases == [level : {0, 1}, duration : Ticks]

Codes == [symbol_count : Nat, flags : Nat, resolution_hz : Nat, carrier_hz : Nat,
          phases : Seq(Phases)]

PayloadRecords == [count : Nat, flags : Nat, resolution : Nat, carrier : Nat,
                   words : Seq(Words)]

LEMMA DurationTicks ==
  /\ 0 \in Ticks
  /\ \A d \in 1 .. MaxDuration : d \in Ticks
  BY DEF Ticks, MaxDuration

\* A word holds level and duration without loss, both ways.
LEMMA WordOfPhase ==
  ASSUME NEW w \in Words
  PROVE  /\ PhaseOf(w) \in Phases
         /\ Word(PhaseOf(w)) = w
<1>1. w \div 32768 \in {0, 1} /\ w % 32768 \in Ticks
  BY DEF Words, Ticks, MaxDuration
<1>2. 32768 * (w \div 32768) + (w % 32768) = w
  BY DEF Words
<1> QED
  BY <1>1, <1>2 DEF PhaseOf, Word, Phase, Phases

LEMMA Halves ==
  ASSUME NEW l \in {0, 1}, NEW d \in Ticks
  PROVE  /\ 32768 * l + d \in Words
         /\ (32768 * l + d) \div 32768 = l
         /\ (32768 * l + d) % 32768 = d
  BY DEF Words, Ticks, MaxDuration

LEMMA PhaseOfWord ==
  ASSUME NEW phase \in Phases
  PROVE  /\ Word(phase) \in Words
         /\ PhaseOf(Word(phase)) = phase
<1>1. phase.level \in {0, 1} /\ phase.duration \in Ticks
  BY DEF Phases
<1>2. phase = [level |-> phase.level, duration |-> phase.duration]
  BY DEF Phases
<1> QED
  BY <1>1, <1>2, Halves DEF Word, PhaseOf, Phase

\* What a valid code is encoded to is accepted and decodes to that code: the payload
\* that READ returns can be used in WRITE.
THEOREM DecodeUndoesEncode ==
  ASSUME NEW c \in Codes, Valid(c),
         Len(c.phases) = 2 * c.symbol_count
  PROVE  DecodeStatus(Encode(c)) = "OK" /\ Decoded(Encode(c)) = c
<1> DEFINE p == Encode(c)
           n == c.symbol_count
<1>1. n \in 1 .. MaxSymbols /\ n \in Nat
  BY DEF Codes, Valid
<1>2. p.count = n /\ p.flags = c.flags /\ p.resolution = c.resolution_hz /\ p.carrier = c.carrier_hz
  BY DEF Encode
<1>3. /\ p.words = [i \in 1 .. 2 * n |-> Word(c.phases[i])]
      /\ Len(p.words) = 2 * n
  <2>1. p.words = [i \in 1 .. 2 * n |-> Word(c.phases[i])]
    BY DEF Encode
  <2>2. 2 * n \in Nat
    BY <1>1
  <2> QED
    BY <2>1, <2>2
<1>4. \A i \in 1 .. 2 * n : c.phases[i] \in Phases
  BY DEF Codes
<1>5. \A i \in 1 .. 2 * n : PhaseOf(p.words[i]) = c.phases[i]
  BY <1>3, <1>4, PhaseOfWord
<1>6. [i \in 1 .. 2 * n |-> PhaseOf(p.words[i])] = c.phases
  BY <1>5 DEF Codes
<1>7. Decoded(p) = c
  BY <1>2, <1>6 DEF Decoded, Codes
<1>8. Len(p.words) <= 2 * MaxSymbols /\ LengthOK(p)
  BY <1>1, <1>2, <1>3, SymbolsAssumption DEF LengthOK
<1>9. p.count \in 1 .. MaxSymbols /\ ~(Len(p.words) > 2 * MaxSymbols)
  BY <1>1, <1>2, <1>3, SymbolsAssumption
<1> HIDE DEF p
<1>10. DecodeStatus(p) = "OK"
  BY <1>7, <1>8, <1>9 DEF DecodeStatus
<1> QED
  BY <1>7, <1>10 DEF p

-----------------------------------------------------------------------------
(* Frames.                                                                 *)

LEMMA LeastOf ==
  ASSUME NEW T \in SUBSET Nat, T # {}
  PROVE  \E x \in T : \A y \in T : x <= y
  <1> DEFINE F == {0 .. x : x \in T}
  <1>1. F \subseteq FiniteSubsetsOf(Nat)
    <2>1. \A x \in T : IsFiniteSet(0 .. x) /\ 0 .. x \in SUBSET Nat
      BY FS_Interval
    <2> QED
      BY <2>1 DEF FiniteSubsetsOf
  <1>2. F # {}
    OBVIOUS
  <1>3. PICK s \in F : \A t \in F : ~(<<t, s>> \in StrictSubsetOrdering(Nat))
    BY <1>1, <1>2, FS_StrictSubsetOrderingWellFounded, WFMin
  <1>4. PICK x \in T : s = 0 .. x
    OBVIOUS
  <1>5. ASSUME NEW y \in T, y < x PROVE FALSE
    <2> DEFINE t == 0 .. y
    <2>1. t \in SUBSET Nat /\ s \in SUBSET Nat /\ t \subseteq s /\ t \in F
      BY <1>4, <1>5
    <2>2. x \in s /\ x \notin t
      BY <1>4, <1>5
    <2> HIDE DEF t
    <2>3. <<t, s>> \in (SUBSET Nat) \X (SUBSET Nat) /\ <<t, s>>[1] = t /\ <<t, s>>[2] = s
      BY <2>1
    <2>4. <<t, s>> \in StrictSubsetOrdering(Nat)
      BY <2>1, <2>2, <2>3 DEF StrictSubsetOrdering
    <2> QED
      BY <1>3, <2>1, <2>4
  <1> QED
    BY <1>5

Nothing == [phases |-> <<>>, ended |-> FALSE, failed |-> FALSE]
Accs == [phases : Seq(Phases), ended : BOOLEAN, failed : BOOLEAN]

\* a has gone through the first m phases of s.
Chained(a, s, m) ==
  a = [n \in 0 .. m |-> IF n = 0 THEN Nothing ELSE Collect(a[n - 1], s[n])]

LEMMA ChainExists ==
  ASSUME NEW s, NEW m \in Nat
  PROVE  \E a : Chained(a, s, m)
<1> DEFINE T == {k \in Nat : ~ \E a : Chained(a, s, k)}
<1> SUFFICES ASSUME T # {} PROVE FALSE
  OBVIOUS
<1>1. PICK k \in T : \A y \in T : k <= y
  <2>1. T \in SUBSET Nat
    OBVIOUS
  <2> HIDE DEF T
  <2> QED
    BY <2>1, LeastOf
<1>2. k \in Nat /\ ~ \E a : Chained(a, s, k)
  OBVIOUS
<1>3. CASE k = 0
  <2>1. PICK a : a = [n \in 0 .. 0 |-> Nothing]
    OBVIOUS
  <2>2. Chained(a, s, k)
    BY <1>3, <2>1 DEF Chained
  <2> QED
    BY <1>2, <2>2
<1>4. CASE k # 0
  <2>1. k - 1 \in Nat /\ k - 1 \notin T
    BY <1>1, <1>2, <1>4
  <2>2. PICK b : Chained(b, s, k - 1)
    BY <2>1
  <2>3. PICK a : a = [n \in 0 .. k |-> IF n = k THEN Collect(b[k - 1], s[k]) ELSE b[n]]
    OBVIOUS
  <2>4. ASSUME NEW n \in 0 .. k
        PROVE  a[n] = IF n = 0 THEN Nothing ELSE Collect(a[n - 1], s[n])
    <3>1. CASE n = 0
      BY <1>2, <1>4, <2>1, <2>2, <2>3, <3>1 DEF Chained
    <3>2. CASE n = k
      <4>1. k - 1 \in 0 .. k /\ k - 1 # k
        BY <1>2, <1>4
      <4>2. a[k - 1] = b[k - 1] /\ a[k] = Collect(b[k - 1], s[k])
        BY <1>2, <2>3, <4>1
      <4> QED
        BY <1>4, <3>2, <4>2
    <3>3. CASE n # 0 /\ n # k
      <4>1. n \in 0 .. k - 1 /\ n - 1 \in 0 .. k /\ n - 1 # k
        BY <1>2, <3>3
      <4>2. a[n] = b[n] /\ a[n - 1] = b[n - 1]
        BY <2>3, <3>3, <4>1
      <4>3. b[n] = Collect(b[n - 1], s[n])
        BY <2>2, <3>3, <4>1 DEF Chained
      <4> QED
        BY <3>3, <4>2, <4>3
    <3> QED
      BY <3>1, <3>2, <3>3
  <2>5. a = [n \in 0 .. k |-> a[n]]
    BY <2>3
  <2>6. Chained(a, s, k)
    BY <2>4, <2>5 DEF Chained
  <2> QED
    BY <1>2, <2>6
<1> QED
  BY <1>3, <1>4

\* What the recursion in Collecting defines.
LEMMA CollectingIs ==
  ASSUME NEW s, Len(s) \in Nat
  PROVE  /\ Collecting(s)[0] = Nothing
         /\ \A n \in 1 .. Len(s) : Collecting(s)[n] = Collect(Collecting(s)[n - 1], s[n])
<1> DEFINE Is(a) == a = [n \in 0 .. Len(s) |->
                           IF n = 0 THEN [phases |-> <<>>, ended |-> FALSE, failed |-> FALSE]
                           ELSE Collect(a[n - 1], s[n])]
<1>1. PICK b : Is(b)
  BY ChainExists DEF Chained, Nothing
<1>2. PICK a : a = Collecting(s)
  OBVIOUS
<1>3. Is(a)
  BY <1>1, <1>2 DEF Collecting
<1>4. a[0] = Nothing
  BY <1>3 DEF Nothing
<1>5. \A n \in 1 .. Len(s) : a[n] = Collect(a[n - 1], s[n])
  <2> TAKE n \in 1 .. Len(s)
  <2>1. n \in 0 .. Len(s) /\ n # 0
    OBVIOUS
  <2> QED
    BY <1>3, <2>1
<1> QED
  BY <1>2, <1>4, <1>5

\* The frame in s lies between first and last.
Framed(s, first, last) ==
  /\ last \in 0 .. Len(s) /\ first \in 1 .. last + 1
  /\ \A i \in 1 .. last : s[i].duration # 0
  /\ last < Len(s) => s[last + 1].duration = 0
  /\ \A i \in 1 .. first - 1 : s[i].level = 0
  /\ first <= last => s[first].level = 1

Fits(s, first, n) ==
  /\ n - first + 1 <= 2 * MaxSymbols
  /\ \A i \in first .. n : s[i].level = (i - first + 1) % 2

\* What is collected after n phases, before the frame has ended.
Reached(x, s, first, n) ==
  /\ x \in Accs /\ ~x.ended
  /\ n < first => ~x.failed /\ x.phases = <<>>
  /\ n >= first => /\ x.failed => ~Fits(s, first, n)
                   /\ ~x.failed => Fits(s, first, n) /\ x.phases = SubSeq(s, first, n)

LEMMA Kept ==
  ASSUME NEW x, NEW phase, x.ended \/ x.failed
  PROVE  Collect(x, phase) = x
  BY DEF Collect

LEMMA ReachedStep ==
  ASSUME NEW s \in Seq(Phases), NEW first, NEW last, Framed(s, first, last),
         NEW n \in 0 .. last - 1, NEW x, Reached(x, s, first, n)
  PROVE  Reached(Collect(x, s[n + 1]), s, first, n + 1)
<1>1. PICK phase : phase = s[n + 1]
  OBVIOUS
<1>2. Len(s) \in Nat /\ last \in Nat /\ last <= Len(s) /\ first \in Nat /\ first >= 1 /\ n \in Nat
  BY DEF Framed
<1>3. n + 1 \in 1 .. last /\ n + 1 \in 1 .. Len(s)
  BY <1>2
<1>4. phase \in Phases /\ phase.duration # 0 /\ phase.level \in {0, 1}
  <2>1. phase \in Phases
    BY <1>1, <1>3
  <2>2. phase.level \in {0, 1}
    BY <2>1 DEF Phases
  <2>3. phase.duration # 0
    BY <1>1, <1>3 DEF Framed
  <2> QED
    BY <2>1, <2>2, <2>3
<1>5. x \in Accs /\ ~x.ended /\ x.phases \in Seq(Phases)
  BY DEF Reached, Accs
<1>6. CASE n + 1 < first
  <2>1. n < first /\ n + 1 \in 1 .. first - 1
    BY <1>2, <1>6
  <2>2. ~x.failed /\ x.phases = <<>>
    BY <2>1 DEF Reached
  <2>3. phase.level = 0
    BY <1>1, <2>1 DEF Framed
  <2>4. Collect(x, phase) = x
    BY <1>4, <2>2, <2>3 DEF Collect, IsIdle
  <2>5. ~(n + 1 >= first)
    BY <1>2, <1>6
  <2> QED
    BY <1>1, <1>5, <2>2, <2>4, <2>5 DEF Reached
<1>7. CASE n + 1 >= first /\ x.failed
  <2>1. n >= first
    BY <1>2, <1>7 DEF Reached
  <2>2. ~Fits(s, first, n)
    BY <1>7, <2>1 DEF Reached
  <2>3. ~Fits(s, first, n + 1)
    <3> SUFFICES ASSUME Fits(s, first, n + 1) PROVE FALSE
      OBVIOUS
    <3>1. (n + 1) - first + 1 <= 2 * MaxSymbols
      BY DEF Fits
    <3>2. n - first + 1 <= 2 * MaxSymbols
      BY <1>2, <3>1, SymbolsAssumption
    <3>3. \A i \in first .. n : i \in first .. n + 1
      BY <1>2
    <3>4. \A i \in first .. n : s[i].level = (i - first + 1) % 2
      BY <3>3 DEF Fits
    <3> QED
      BY <2>2, <3>2, <3>4 DEF Fits
  <2>4. Collect(x, phase) = x
    BY <1>7, Kept
  <2>5. ~(n + 1 < first)
    BY <1>2, <1>7
  <2> QED
    BY <1>1, <1>5, <1>7, <2>3, <2>4, <2>5 DEF Reached
<1>8. CASE n + 1 >= first /\ ~x.failed
  <2> DEFINE l == n - first + 1
  <2>1. l \in Nat /\ first - 1 <= n
    BY <1>2, <1>8
  <2>2. Fits(s, first, n) /\ x.phases = SubSeq(s, first, n) /\ Len(x.phases) = l
    <3>1. CASE n >= first
      <4>1. Fits(s, first, n) /\ x.phases = SubSeq(s, first, n)
        BY <1>8, <3>1 DEF Reached
      <4>2. first \in 1 .. Len(s) /\ n \in 1 .. Len(s)
        BY <1>2, <1>3, <3>1
      <4>3. Len(SubSeq(s, first, n)) = l
        BY <1>2, <3>1, <4>2
      <4> QED
        BY <4>1, <4>3
    <3>2. CASE ~(n >= first)
      <4>1. first = n + 1 /\ n < first
        BY <1>2, <1>8, <3>2
      <4>2. x.phases = <<>>
        BY <4>1 DEF Reached
      <4>3. SubSeq(s, first, n) = <<>> /\ l = 0
        BY <1>2, <4>1
      <4>4. Fits(s, first, n)
        BY <1>2, <4>1, <4>3, SymbolsAssumption DEF Fits
      <4> QED
        BY <4>2, <4>3, <4>4
    <3> QED
      BY <3>1, <3>2
  <2>3. ~IsIdle(x.phases, phase)
    <3> SUFFICES ASSUME x.phases = <<>>, phase.level = 0 PROVE FALSE
      BY DEF IsIdle
    <3>1. l = 0
      BY <2>2
    <3>2. first = n + 1 /\ first <= last
      BY <1>2, <1>3, <3>1
    <3>3. s[first].level = 1
      BY <3>2 DEF Framed
    <3> QED
      BY <1>1, <3>2, <3>3
  <2>4. FollowsOn(x.phases, phase) <=> Fits(s, first, n + 1)
    <3> DEFINE here == l < 2 * MaxSymbols /\ phase.level = (l + 1) % 2
    <3>1. FollowsOn(x.phases, phase) <=> here
      BY <2>2 DEF FollowsOn
    <3>2. ASSUME here PROVE Fits(s, first, n + 1)
      <4>1. (n + 1) - first + 1 <= 2 * MaxSymbols
        BY <1>2, <2>1, <3>2, SymbolsAssumption
      <4>2. ASSUME NEW i \in first .. n + 1 PROVE s[i].level = (i - first + 1) % 2
        <5>1. CASE i = n + 1
          <6>1. i - first + 1 = l + 1
            BY <1>2, <5>1
          <6> QED
            BY <1>1, <3>2, <5>1, <6>1
        <5>2. CASE i # n + 1
          <6>1. i \in first .. n
            BY <1>2, <5>2
          <6> QED
            BY <2>2, <6>1 DEF Fits
        <5> QED
          BY <5>1, <5>2
      <4> QED
        BY <4>1, <4>2 DEF Fits
    <3>3. ASSUME Fits(s, first, n + 1) PROVE here
      <4>1. (n + 1) - first + 1 <= 2 * MaxSymbols /\ n + 1 \in first .. n + 1
        BY <1>2, <1>8, <3>3 DEF Fits
      <4>2. s[n + 1].level = ((n + 1) - first + 1) % 2
        BY <3>3, <4>1 DEF Fits
      <4>3. (n + 1) - first + 1 = l + 1
        BY <1>2
      <4>4. l < 2 * MaxSymbols
        BY <2>1, <4>1, <4>3, SymbolsAssumption
      <4> QED
        BY <1>1, <4>2, <4>3, <4>4
    <3> QED
      BY <3>1, <3>2, <3>3
  <2>5. ~(n + 1 < first)
    BY <1>2, <1>8
  <2>6. CASE FollowsOn(x.phases, phase)
    <3>1. Collect(x, phase) = [x EXCEPT !.phases = Append(@, phase)]
      BY <1>4, <1>5, <1>8, <2>3, <2>6 DEF Collect
    <3>2. PICK y : y = Collect(x, phase)
      OBVIOUS
    <3>3. /\ y \in Accs /\ ~y.ended /\ ~y.failed
          /\ y.phases = Append(x.phases, phase)
      <4>1. Append(x.phases, phase) \in Seq(Phases)
        BY <1>4, <1>5
      <4> QED
        BY <1>5, <1>8, <3>1, <3>2, <4>1 DEF Accs
    <3>4. Append(SubSeq(s, first, n), s[n + 1]) = SubSeq(s, first, n + 1)
      BY <1>2, <1>3, <1>8
    <3>5. y.phases = SubSeq(s, first, n + 1)
      BY <1>1, <2>2, <3>3, <3>4
    <3>6. Reached(y, s, first, n + 1)
      BY <2>4, <2>5, <2>6, <3>3, <3>5 DEF Reached
    <3> QED
      BY <1>1, <3>2, <3>6
  <2>7. CASE ~FollowsOn(x.phases, phase)
    <3>1. Collect(x, phase) = [x EXCEPT !.failed = TRUE]
      BY <1>4, <1>5, <1>8, <2>3, <2>7 DEF Collect
    <3>2. PICK y : y = Collect(x, phase)
      OBVIOUS
    <3>3. y \in Accs /\ ~y.ended /\ y.failed
      BY <1>5, <3>1, <3>2 DEF Accs
    <3>4. Reached(y, s, first, n + 1)
      BY <2>4, <2>5, <2>7, <3>3 DEF Reached
    <3> QED
      BY <1>1, <3>2, <3>4
  <2> QED
    BY <2>6, <2>7
<1>9. n + 1 < first \/ n + 1 >= first
  BY <1>2
<1> QED
  BY <1>6, <1>7, <1>8, <1>9

\* After the first phase of no length nothing is collected any more.
LEMMA CollectedIs ==
  ASSUME NEW s \in Seq(Phases), NEW first, NEW last, Framed(s, first, last)
  PROVE  /\ Collecting(s)[Len(s)].failed => ~Fits(s, first, last)
         /\ ~Collecting(s)[Len(s)].failed =>
              /\ Fits(s, first, last)
              /\ Collecting(s)[Len(s)].phases = SubSeq(s, first, last)
<1>1. PICK a : a = Collecting(s)
  OBVIOUS
<1>2. Len(s) \in Nat /\ last \in Nat /\ last <= Len(s) /\ first \in Nat /\ first >= 1
      /\ first <= last + 1
  BY DEF Framed
<1>3. a[0] = Nothing /\ \A n \in 1 .. Len(s) : a[n] = Collect(a[n - 1], s[n])
  BY <1>1, <1>2, CollectingIs
<1>4. \A n \in 0 .. last : Reached(a[n], s, first, n)
  <2> DEFINE T == {n \in 0 .. last : ~Reached(a[n], s, first, n)}
  <2> SUFFICES ASSUME T # {} PROVE FALSE
    OBVIOUS
  <2>1. PICK n \in T : \A y \in T : n <= y
    <3>1. T \in SUBSET Nat
      BY <1>2
    <3> HIDE DEF T
    <3> QED
      BY <3>1, LeastOf
  <2>2. n \in 0 .. last /\ ~Reached(a[n], s, first, n)
    OBVIOUS
  <2>3. CASE n = 0
    <3>1. Nothing \in Accs /\ ~Nothing.ended /\ ~Nothing.failed /\ Nothing.phases = <<>>
      BY DEF Nothing, Accs
    <3>2. 0 < first /\ ~(0 >= first)
      BY <1>2
    <3> QED
      BY <1>3, <2>2, <2>3, <3>1, <3>2 DEF Reached
  <2>4. CASE n # 0
    <3>1. PICK m : m = n - 1
      OBVIOUS
    <3>2. m \in 0 .. last - 1 /\ m \in 0 .. last /\ n = m + 1 /\ n \in 1 .. Len(s) /\ ~(n <= m)
      BY <1>2, <2>2, <2>4, <3>1
    <3>3. Reached(a[m], s, first, m)
      BY <2>1, <3>2
    <3>4. a[n] = Collect(a[m], s[m + 1])
      BY <1>3, <3>1, <3>2
    <3> QED
      BY <2>2, <3>2, <3>3, <3>4, ReachedStep
  <2> QED
    BY <2>3, <2>4
<1>5. Reached(a[last], s, first, last)
  BY <1>2, <1>4
<1>6. /\ a[last].failed => ~Fits(s, first, last)
      /\ ~a[last].failed => Fits(s, first, last) /\ a[last].phases = SubSeq(s, first, last)
  <2>1. CASE last >= first
    BY <1>5, <2>1 DEF Reached
  <2>2. CASE ~(last >= first)
    <3>1. last < first /\ first = last + 1
      BY <1>2, <2>2
    <3>2. ~a[last].failed /\ a[last].phases = <<>>
      BY <1>5, <3>1 DEF Reached
    <3>3. SubSeq(s, first, last) = <<>>
      BY <1>2, <3>1
    <3>4. Fits(s, first, last)
      BY <1>2, <3>1, SymbolsAssumption DEF Fits
    <3> QED
      BY <3>2, <3>3, <3>4
  <2> QED
    BY <2>1, <2>2
<1>7. CASE last = Len(s)
  BY <1>1, <1>6, <1>7
<1>8. CASE last # Len(s)
  <2> DEFINE Over(y) == /\ y.ended \/ y.failed
                        /\ y.failed = a[last].failed /\ y.phases = a[last].phases
  <2>1. last + 1 \in 1 .. Len(s) /\ s[last + 1].duration = 0 /\ (last + 1) - 1 = last
    BY <1>2, <1>8 DEF Framed
  <2>2. a[last] \in Accs /\ ~a[last].ended
    BY <1>5 DEF Reached
  <2>3. a[last + 1] = Collect(a[last], s[last + 1])
    BY <1>3, <2>1
  <2>4. Over(a[last + 1])
    <3>1. CASE a[last].failed
      BY <2>3, <3>1, Kept
    <3>2. CASE ~a[last].failed
      <4>1. PICK x, y : x = a[last] /\ y = a[last + 1]
        OBVIOUS
      <4>2. y = [x EXCEPT !.ended = TRUE]
        BY <2>1, <2>2, <2>3, <3>2, <4>1 DEF Collect
      <4>3. y.ended /\ y.failed = x.failed /\ y.phases = x.phases
        BY <2>2, <4>1, <4>2 DEF Accs
      <4> QED
        BY <4>1, <4>3
    <3> QED
      BY <3>1, <3>2
  <2>5. \A n \in last + 1 .. Len(s) : Over(a[n])
    <3> DEFINE T == {n \in last + 1 .. Len(s) : ~Over(a[n])}
    <3> HIDE DEF Over
    <3> SUFFICES ASSUME T # {} PROVE FALSE
      OBVIOUS
    <3>1. PICK n \in T : \A y \in T : n <= y
      <4>1. T \in SUBSET Nat
        BY <1>2
      <4> HIDE DEF T
      <4> QED
        BY <4>1, LeastOf
    <3>2. n \in last + 1 .. Len(s) /\ ~Over(a[n])
      OBVIOUS
    <3>3. n # last + 1
      BY <2>4, <3>2
    <3>4. n - 1 \in last + 1 .. Len(s) /\ n \in 1 .. Len(s) /\ ~(n <= n - 1)
      BY <1>2, <3>2, <3>3
    <3>5. Over(a[n - 1])
      BY <3>1, <3>4
    <3>6. a[n] = Collect(a[n - 1], s[n])
      BY <1>3, <3>4
    <3>7. a[n] = a[n - 1]
      BY <3>5, <3>6, Kept DEF Over
    <3> QED
      BY <3>2, <3>5, <3>7
  <2>6. Over(a[Len(s)])
    BY <1>2, <2>1, <2>5
  <2> QED
    BY <1>1, <1>6, <2>6
<1> QED
  BY <1>7, <1>8

\* The receiver's symbols are phases, two each.
LEMMA RawPhasesAre ==
  ASSUME NEW raw \in Seq([1 .. 2 -> Phases])
  PROVE  RawPhases(raw) \in Seq(Phases) /\ Len(RawPhases(raw)) = 2 * Len(raw)
<1>1. PICK l : l = Len(raw)
  OBVIOUS
<1>2. l \in Nat /\ 2 * l \in Nat
  BY <1>1
<1> DEFINE at(i) == LET phase == raw[(i + 1) \div 2][2 - (i % 2)]
                    IN  Phase(1 - phase.level, phase.duration)
<1>3. ASSUME NEW i \in 1 .. 2 * l PROVE at(i) \in Phases
  <2>1. (i + 1) \div 2 \in 1 .. l /\ 2 - (i % 2) \in 1 .. 2
    BY <1>2
  <2>2. PICK phase : phase = raw[(i + 1) \div 2][2 - (i % 2)]
    OBVIOUS
  <2>3. raw[(i + 1) \div 2] \in [1 .. 2 -> Phases]
    BY <1>1, <2>1
  <2>4. phase \in Phases
    BY <2>1, <2>2, <2>3
  <2>5. phase.level \in {0, 1} /\ phase.duration \in Ticks
    BY <2>4 DEF Phases
  <2>6. 1 - phase.level \in {0, 1}
    BY <2>5
  <2>7. at(i) = Phase(1 - phase.level, phase.duration)
    BY <2>2
  <2> HIDE DEF at
  <2> QED
    BY <2>5, <2>6, <2>7 DEF Phase, Phases
<1>4. RawPhases(raw) = [i \in 1 .. 2 * l |-> at(i)]
  BY <1>1 DEF RawPhases
<1> HIDE DEF at
<1> QED
  BY <1>1, <1>2, <1>3, <1>4

\* What Expected cuts out lies between the first MARK and the first phase without length.
LEMMA ExpectedFrame ==
  ASSUME NEW raw \in Seq([1 .. 2 -> Phases])
  PROVE  \E first, last \in Nat : /\ Framed(RawPhases(raw), first, last)
                                  /\ Expected(raw) = SubSeq(RawPhases(raw), first, last)
<1>1. PICK s : s = RawPhases(raw)
  OBVIOUS
<1>2. s \in Seq(Phases) /\ Len(s) \in Nat /\ DOMAIN s = 1 .. Len(s)
  BY <1>1, RawPhasesAre
<1>3. PICK ends : ends = {i \in DOMAIN s : s[i].duration = 0} \cup {Len(s) + 1}
  OBVIOUS
<1>4. ends \in SUBSET Nat /\ ends # {}
  BY <1>2, <1>3
<1>5. PICK stop : stop = CHOOSE i \in ends : \A j \in ends : i <= j
  OBVIOUS
<1>6. stop \in ends /\ \A j \in ends : stop <= j
  BY <1>4, <1>5, LeastOf
<1>7. PICK last : last = stop - 1
  OBVIOUS
<1>8. stop \in 1 .. Len(s) + 1 /\ last \in 0 .. Len(s) /\ stop = last + 1
  BY <1>2, <1>3, <1>6, <1>7
<1>9. PICK marks : marks = {i \in 1 .. last : s[i].level = 1} \cup {last + 1}
  OBVIOUS
<1>10. marks \in SUBSET Nat /\ marks # {}
  BY <1>2, <1>8, <1>9
<1>11. PICK first : first = CHOOSE i \in marks : \A j \in marks : i <= j
  OBVIOUS
<1>12. first \in marks /\ \A j \in marks : first <= j
  BY <1>10, <1>11, LeastOf
<1>13. first \in 1 .. last + 1
  BY <1>2, <1>8, <1>9, <1>12
<1>14. \A i \in 1 .. last : s[i].duration # 0
  <2> SUFFICES ASSUME NEW i \in 1 .. last, s[i].duration = 0 PROVE FALSE
    OBVIOUS
  <2>1. i \in DOMAIN s
    BY <1>2, <1>8
  <2>2. i \in ends
    BY <1>3, <2>1
  <2> QED
    BY <1>2, <1>6, <1>8, <2>2
<1>15. last < Len(s) => s[last + 1].duration = 0
  BY <1>2, <1>3, <1>6, <1>8
<1>16. \A i \in 1 .. first - 1 : s[i].level = 0
  <2> SUFFICES ASSUME NEW i \in 1 .. first - 1, s[i].level # 0 PROVE FALSE
    OBVIOUS
  <2>1. i \in 1 .. last /\ i \in 1 .. Len(s) /\ ~(first <= i)
    BY <1>2, <1>8, <1>13
  <2>2. s[i] \in Phases
    BY <1>2, <2>1
  <2>3. s[i].level = 1
    BY <2>2 DEF Phases
  <2> QED
    BY <1>9, <1>12, <2>1, <2>3
<1>17. first <= last => s[first].level = 1
  BY <1>2, <1>8, <1>9, <1>12, <1>13
<1>18. Framed(s, first, last)
  BY <1>8, <1>13, <1>14, <1>15, <1>16, <1>17 DEF Framed
<1>19. Expected(raw) = SubSeq(s, first, last)
  BY <1>1, <1>3, <1>5, <1>7, <1>9, <1>11 DEF Expected
<1>20. first \in Nat /\ last \in Nat
  BY <1>2, <1>8, <1>13
<1> QED
  BY <1>1, <1>18, <1>19, <1>20

LEMMA PaddedIs ==
  ASSUME NEW e \in Seq(Phases)
  PROVE  /\ Padded(e) \in Seq(Phases)
         /\ Len(Padded(e)) = 2 * ((Len(e) + 1) \div 2)
         /\ Len(Padded(e)) \div 2 = (Len(e) + 1) \div 2
         /\ \A i \in 1 .. Len(e) : Padded(e)[i] = e[i]
         /\ \A i \in 1 .. Len(Padded(e)) : i \notin 1 .. Len(e) =>
               Padded(e)[i] = Phase(0, 0) /\ i = Len(Padded(e))
<1>1. PICK l, z, t : l = Len(e) /\ z = Phase(0, 0) /\ t = Padded(e)
  OBVIOUS
<1>2. l \in Nat
  BY <1>1
<1>3. z \in Phases
  BY <1>1, DurationTicks DEF Phase, Phases
<1>4. CASE l % 2 = 0
  <2>1. t = e
    BY <1>1, <1>4 DEF Padded
  <2>2. l = 2 * ((l + 1) \div 2) /\ l \div 2 = (l + 1) \div 2
    BY <1>2, <1>4
  <2> QED
    BY <1>1, <2>1, <2>2
<1>5. CASE l % 2 # 0
  <2>1. t = Append(e, z)
    BY <1>1, <1>5 DEF Padded
  <2>2. t \in Seq(Phases) /\ Len(t) = l + 1 /\ t[l + 1] = z
    BY <1>1, <1>3, <2>1
  <2>3. \A i \in 1 .. l : t[i] = e[i]
    BY <1>1, <1>3, <2>1
  <2>4. l + 1 = 2 * ((l + 1) \div 2)
    BY <1>2, <1>5
  <2>5. \A i \in 1 .. l + 1 : i \notin 1 .. l => i = l + 1
    BY <1>2
  <2> QED
    BY <1>1, <2>2, <2>3, <2>4, <2>5
<1> QED
  BY <1>4, <1>5

\* Frames that are captured.
Good(raw) ==
  /\ Len(raw) \in 1 .. MemSymbols - 1
  /\ Len(Expected(raw)) \in 1 .. 2 * MaxSymbols
  /\ Alternating(Expected(raw))

Cut(s, first, last, e) ==
  /\ e \in Seq(Phases)
  /\ Len(e) = last - first + 1 /\ last - first + 1 \in Nat
  /\ \A i \in 1 .. last - first + 1 : e[i] = s[first + i - 1]

LEMMA SubSeqIs ==
  ASSUME NEW s \in Seq(Phases), NEW first, NEW last, Framed(s, first, last)
  PROVE  Cut(s, first, last, SubSeq(s, first, last))
<1>1. Len(s) \in Nat /\ last \in Nat /\ last <= Len(s) /\ first \in Nat /\ first >= 1
      /\ first <= last + 1
  BY DEF Framed
<1>2. last - first + 1 \in Nat
  BY <1>1
<1>3. CASE first <= last
  BY <1>1, <1>3 DEF Cut
<1>4. CASE ~(first <= last)
  <2>1. SubSeq(s, first, last) = <<>> /\ last - first + 1 = 0
    BY <1>1, <1>4
  <2> QED
    BY <2>1 DEF Cut
<1> QED
  BY <1>2, <1>3, <1>4

\* Of a frame that is collected: what FrameOf makes of it.
LEMMA FrameShape ==
  ASSUME NEW raw, NEW e \in Seq(Phases), Collected(raw).phases = e
  PROVE  /\ FrameOf(raw) \in Codes
         /\ FrameOf(raw).phases = Padded(e)
         /\ Len(FrameOf(raw).phases) = 2 * FrameOf(raw).symbol_count
         /\ FrameOf(raw).symbol_count = (Len(e) + 1) \div 2
         /\ FrameOf(raw).flags = 0 /\ FrameOf(raw).resolution_hz = Resolution
         /\ FrameOf(raw).carrier_hz = 0
<1>1. PICK ph, l : ph = Padded(e) /\ l = Len(e)
  OBVIOUS
<1>2. ph \in Seq(Phases) /\ Len(ph) = 2 * ((l + 1) \div 2) /\ Len(ph) \div 2 = (l + 1) \div 2
  BY <1>1, PaddedIs
<1>3. l \in Nat /\ (l + 1) \div 2 \in Nat
  BY <1>1
<1>4. FrameOf(raw) = [symbol_count |-> (l + 1) \div 2, flags |-> 0, resolution_hz |-> Resolution,
                      carrier_hz |-> 0, phases |-> ph]
  BY <1>1, <1>2 DEF FrameOf, Code
<1> QED
  BY <1>1, <1>2, <1>3, <1>4 DEF Codes, Resolution

\* A frame is judged good exactly when a reader of the documentation would say so.
LEMMA FrameJudged ==
  ASSUME NEW raw \in Seq([1 .. 2 -> Phases])
  PROVE  /\ NormalizeOK(raw) => Good(raw)
         /\ Good(raw) => NormalizeOK(raw)
         /\ NormalizeOK(raw) => /\ FrameOf(raw) \in Codes
                                /\ FrameOf(raw).phases = Padded(Expected(raw))
                                /\ Len(FrameOf(raw).phases) = 2 * FrameOf(raw).symbol_count
<1>1. PICK s : s = RawPhases(raw)
  OBVIOUS
<1>2. s \in Seq(Phases) /\ Len(s) = 2 * Len(raw)
  BY <1>1, RawPhasesAre
<1>3. PICK first, last \in Nat : Framed(s, first, last) /\ Expected(raw) = SubSeq(s, first, last)
  BY <1>1, ExpectedFrame
<1>4. PICK e, l : e = Expected(raw) /\ l = last - first + 1
  OBVIOUS
<1>5. e \in Seq(Phases) /\ Len(e) = l /\ l \in Nat /\ \A i \in 1 .. l : e[i] = s[first + i - 1]
  <2>1. e = SubSeq(s, first, last)
    BY <1>3, <1>4, Zenon
  <2>2. Cut(s, first, last, SubSeq(s, first, last))
    BY <1>2, <1>3, SubSeqIs
  <2>3. Cut(s, first, last, e)
    BY <2>1, <2>2, Zenon
  <2> QED
    BY <1>4, <2>3, Zenon DEF Cut
<1>6. Collected(raw) = Collecting(s)[Len(s)]
  BY <1>1, <1>2 DEF Collected
<1>7. /\ Collected(raw).failed => ~Fits(s, first, last)
      /\ ~Collected(raw).failed => Fits(s, first, last) /\ Collected(raw).phases = e
  BY <1>2, <1>3, <1>4, <1>6, CollectedIs
<1>8. Fits(s, first, last) <=> l <= 2 * MaxSymbols /\ Alternating(e)
  <2>1. DOMAIN e = 1 .. l
    BY <1>5
  <2>2. ASSUME Fits(s, first, last), NEW i \in 1 .. l PROVE e[i].level = i % 2
    <3>1. first + i - 1 \in first .. last /\ (first + i - 1) - first + 1 = i
      BY <1>3, <1>4, <1>5
    <3>2. s[first + i - 1].level = ((first + i - 1) - first + 1) % 2
      BY <2>2, <3>1 DEF Fits
    <3> QED
      BY <1>5, <3>1, <3>2
  <2>3. ASSUME Alternating(e), NEW i \in first .. last PROVE s[i].level = (i - first + 1) % 2
    <3>1. PICK j : j = i - first + 1
      OBVIOUS
    <3>2. j \in 1 .. l /\ first + j - 1 = i
      BY <1>3, <1>4, <3>1
    <3>3. e[j].level = j % 2
      BY <2>1, <2>3, <3>2 DEF Alternating
    <3> QED
      BY <1>5, <3>1, <3>2, <3>3
  <2>4. Fits(s, first, last) => l <= 2 * MaxSymbols
    BY <1>4 DEF Fits
  <2> QED
    BY <1>4, <2>1, <2>2, <2>3, <2>4 DEF Fits, Alternating
<1>9. ASSUME NormalizeOK(raw) PROVE Good(raw)
  <2>1. ~Collected(raw).failed /\ Valid(FrameOf(raw)) /\ Len(raw) > 0 /\ Len(raw) < MemSymbols
    BY <1>9 DEF NormalizeOK
  <2>2. Collected(raw).phases = e /\ l <= 2 * MaxSymbols /\ Alternating(e)
    BY <1>7, <1>8, <2>1
  <2>3. FrameOf(raw).symbol_count = (l + 1) \div 2
    BY <1>5, <2>2, FrameShape
  <2>4. (l + 1) \div 2 \in 1 .. MaxSymbols
    BY <2>1, <2>3 DEF Valid
  <2>5. l # 0
    <3> SUFFICES ASSUME l = 0 PROVE FALSE
      OBVIOUS
    <3>1. (l + 1) \div 2 = 0
      OBVIOUS
    <3> QED
      BY <2>4, <3>1
  <2>6. l \in 1 .. 2 * MaxSymbols
    BY <1>5, <2>2, <2>5, SymbolsAssumption
  <2>7. Len(raw) \in 1 .. MemSymbols - 1
    BY <2>1, SymbolsAssumption
  <2> QED
    BY <1>4, <1>5, <2>2, <2>6, <2>7 DEF Good
<1>10. ASSUME Good(raw) PROVE NormalizeOK(raw)
  <2>1. Len(raw) \in 1 .. MemSymbols - 1 /\ l \in 1 .. 2 * MaxSymbols /\ Alternating(e)
    BY <1>4, <1>5, <1>10 DEF Good
  <2>2. Fits(s, first, last)
    <3>1. l <= 2 * MaxSymbols
      BY <2>1, SymbolsAssumption
    <3> QED
      BY <1>8, <2>1, <3>1
  <2>3. ~Collected(raw).failed /\ Collected(raw).phases = e
    BY <1>7, <2>2
  <2>4. PICK c, n : c = FrameOf(raw) /\ n = (l + 1) \div 2
    OBVIOUS
  <2>5. /\ c.phases = Padded(e) /\ c.symbol_count = n /\ c.flags = 0
        /\ c.resolution_hz = Resolution /\ c.carrier_hz = 0
    BY <1>5, <2>3, <2>4, FrameShape
  <2>6. n \in 1 .. MaxSymbols
    BY <2>1, <2>4, SymbolsAssumption
  <2>7. /\ Len(c.phases) = 2 * n
        /\ \A i \in 1 .. l : c.phases[i] = e[i]
        /\ \A i \in 1 .. 2 * n : i \notin 1 .. l => c.phases[i] = Phase(0, 0) /\ i = 2 * n
    BY <1>5, <2>4, <2>5, PaddedIs
  <2>8. ASSUME NEW i \in 1 .. 2 * n PROVE ValidPhase(c, i)
    <3>1. CASE i \in 1 .. l
      <4>1. c.phases[i] = e[i] /\ e[i] \in Phases
        BY <1>5, <2>7, <3>1
      <4>2. e[i].level = i % 2
        <5>1. i \in DOMAIN e
          BY <1>5, <3>1
        <5> QED
          BY <2>1, <5>1 DEF Alternating
      <4>3. e[i].duration \in Ticks
        BY <4>1 DEF Phases
      <4>4. e[i].duration # 0
        <5>1. first + i - 1 \in 1 .. last
          BY <1>3, <1>4, <1>5, <3>1 DEF Framed
        <5> QED
          BY <1>3, <1>5, <3>1, <5>1 DEF Framed
      <4> QED
        BY <4>1, <4>2, <4>3, <4>4 DEF ValidPhase
    <3>2. CASE i \notin 1 .. l
      <4>1. c.phases[i].level = 0 /\ c.phases[i].duration = 0 /\ i = 2 * n
        BY <2>7, <3>2 DEF Phase
      <4>2. i % 2 = 0
        BY <2>6, <4>1, SymbolsAssumption
      <4> QED
        BY <2>5, <4>1, <4>2, DurationTicks DEF ValidPhase
    <3> QED
      BY <3>1, <3>2
  <2>9. Valid(c)
    BY <2>5, <2>6, <2>8 DEF Valid, CarrierOK
  <2>10. Len(raw) > 0 /\ Len(raw) < MemSymbols
    BY <2>1, SymbolsAssumption
  <2> QED
    BY <2>3, <2>4, <2>9, <2>10 DEF NormalizeOK
<1>11. ASSUME NormalizeOK(raw)
       PROVE  /\ FrameOf(raw) \in Codes
              /\ FrameOf(raw).phases = Padded(Expected(raw))
              /\ Len(FrameOf(raw).phases) = 2 * FrameOf(raw).symbol_count
  <2>1. Collected(raw).phases = e
    BY <1>7, <1>11 DEF NormalizeOK
  <2> QED
    BY <1>4, <1>5, <2>1, FrameShape
<1> QED
  BY <1>9, <1>10, <1>11

-----------------------------------------------------------------------------
\* A payload is well formed from the moment it is built, and a code accepted is the
\* one decoded from it.
IInv ==
  /\ job \in Jobs
  /\ payload \in PayloadRecords
  /\ status = "OK" => DecodeStatus(payload) = "OK" /\ code = Decoded(payload)
  /\ stage # "judged" => status = "none"
  /\ stage = "judged" => status = DecodeStatus(payload)
  /\ job.kind = "transmit" /\ stage \in {"payload", "judged"} =>
        payload = PatternPayload(job.input)
  /\ job.kind = "capture" /\ stage = "refused" => ~NormalizeOK(job.input)
  /\ job.kind = "capture" /\ stage \in {"payload", "judged"} =>
        NormalizeOK(job.input) /\ payload = Encode(FrameOf(job.input))
  /\ stage \in {"begin", "payload", "refused", "judged"}

\* Codes of this module's shape whose phases are judged valid one by one.
LEMMA FrameIsPayload ==
  ASSUME NEW raw, NormalizeOK(raw)
  PROVE  Encode(FrameOf(raw)) \in PayloadRecords
<1> DEFINE ph == Padded(Collected(raw).phases)
           c == FrameOf(raw)
<1>1. c.symbol_count \in 1 .. MaxSymbols
  BY DEF NormalizeOK, Valid
<1>2. c.symbol_count \in Nat
  BY <1>1, SymbolsAssumption
<1>3. ASSUME NEW i \in 1 .. 2 * c.symbol_count
      PROVE  Word(c.phases[i]) \in Words
  <2>1. c.phases[i].level = i % 2 /\ c.phases[i].duration \in Ticks
    BY <1>3 DEF NormalizeOK, Valid, ValidPhase
  <2>2. i \in Int /\ i % 2 \in {0, 1}
    BY <1>2
  <2> QED
    BY <2>1, <2>2, Halves DEF Word
<1>4. [i \in 1 .. 2 * c.symbol_count |-> Word(c.phases[i])] \in Seq(Words)
  <2>1. 2 * c.symbol_count \in Nat
    BY <1>2
  <2> QED
    BY <1>3, <2>1
<1>5. c.flags = 0 /\ c.resolution_hz = 1000000 /\ c.carrier_hz = 0
  BY DEF FrameOf, Code, Resolution
<1> QED
  BY <1>2, <1>4, <1>5 DEF Encode, PayloadRecords

LEMMA PatternIsPayload ==
  ASSUME NEW p \in Patterns, PatternOK(p)
  PROVE  PatternPayload(p) \in PayloadRecords
<1> DEFINE n == SymbolCount(p)
<1>1. n \in Nat
  BY SymbolsAssumption DEF PatternOK
<1>2. ASSUME NEW i \in 1 .. 2 * n
      PROVE  PatternWord(p, i) \in Words
  <2>1. i \in Nat /\ i % 2 \in {0, 1}
    BY <1>1
  <2>2. p.size \in Nat /\ p.cycle \in Seq(Int) /\ p.cycle # <<>>
    BY InputsAssumption
  <2>3. Interval(p, i) \in Int
    <3>1. Len(p.cycle) \in Nat \ {0}
      BY <2>2
    <3> DEFINE l == Len(p.cycle)
               a == i - 1
    <3>2. a \in Int /\ l \in Nat \ {0}
      BY <2>1, <3>1
    <3> HIDE DEF a, l
    <3>3. a % l \in 0 .. l - 1
      BY <3>2
    <3>4. (a % l) + 1 \in 1 .. l
      BY <3>2, <3>3
    <3> QED
      BY <2>2, <3>4 DEF Interval, a, l
  <2>4. Duration(Interval(p, i)) \in Ticks
    <3> DEFINE us == Interval(p, i)
               top == IF us > MaxDuration THEN MaxDuration ELSE us
    <3>1. top \in Int
      BY <2>3 DEF MaxDuration
    <3>2. top % 65536 \in Int
      BY <3>1
    <3>3. (top % 65536) % 32768 \in Ticks
      BY <3>2 DEF Ticks, MaxDuration
    <3> QED
      BY <3>3 DEF Duration
  <2>5. 0 \in Ticks
    BY DEF Ticks, MaxDuration
  <2> DEFINE d == IF i <= p.size THEN Duration(Interval(p, i)) ELSE 0
  <2>6. d \in Ticks
    BY <2>4, <2>5
  <2>7. PatternWord(p, i) = 32768 * (i % 2) + d
    BY DEF PatternWord, Word, Phase
  <2> HIDE DEF d
  <2> QED
    BY <2>1, <2>6, <2>7, Halves
<1>3. [i \in 1 .. 2 * n |-> PatternWord(p, i)] \in Seq(Words)
  <2>1. 2 * n \in Nat
    BY <1>1
  <2> QED
    BY <1>2, <2>1
<1>4. CarrierAsked(p) \in Nat
  BY InputsAssumption DEF CarrierAsked
<1> QED
  BY <1>1, <1>3, <1>4 DEF PatternPayload, PayloadRecords, Resolution

LEMMA Inductive == Spec => []IInv
<1>1. Init => IInv
  <2>1. NoCode.symbol_count = 0 /\ NoCode.flags = 0 /\ NoCode.resolution_hz = 1000000
        /\ NoCode.carrier_hz = 0
    BY DEF NoCode, Code, Resolution
  <2>2. [i \in 1 .. 2 * NoCode.symbol_count |-> Word(NoCode.phases[i])] = <<>>
    BY <2>1
  <2>3. Encode(NoCode) \in PayloadRecords
    BY <2>1, <2>2 DEF Encode, PayloadRecords
  <2> QED
    BY <2>3 DEF Init, IInv
<1>2. IInv /\ [Next]_vars => IInv'
  <2> SUFFICES ASSUME IInv, [Next]_vars
               PROVE  IInv'
    OBVIOUS
  <2>2. CASE Capture
    BY <2>2, FrameIsPayload DEF Capture, Build, IInv
  <2>3. CASE Transmit
    <3>1. job.input \in Patterns
      BY <2>3 DEF Transmit, IInv, Jobs
    <3> QED
      BY <2>3, <3>1, PatternIsPayload DEF Transmit, Build, IInv
  <2>4. CASE Write
    <3>1. job.input \in Payloads
      BY <2>4 DEF Write, IInv, Jobs
    <3>2. job.input \in PayloadRecords
      BY <3>1, InputsAssumption, SymbolsAssumption DEF PayloadRecords
    <3> QED
      BY <2>4, <3>2 DEF Write, Build, IInv
  <2>5. CASE Decode
    BY <2>5 DEF Decode, IInv
  <2>6. CASE UNCHANGED vars
    BY <2>6 DEF vars, IInv
  <2> QED
    BY <2>2, <2>3, <2>4, <2>5, <2>6 DEF Next
<1> QED
  BY <1>1, <1>2, PTL DEF Spec

\* A payload that WRITE accepts, wherever it comes from, is exactly the encoding of
\* the code transmitted: nothing in it is ignored.
THEOREM Canonical == Spec => []AcceptedIsCanonical
<1>1. IInv => AcceptedIsCanonical
  <2> SUFFICES ASSUME IInv, status = "OK"
               PROVE  Valid(code) /\ Encode(code) = payload
    BY DEF AcceptedIsCanonical
  <2>1. DecodeStatus(payload) = "OK" /\ code = Decoded(payload) /\ payload \in PayloadRecords
    BY DEF IInv
  <2>2. LengthOK(payload) /\ Valid(Decoded(payload))
    BY <2>1 DEF DecodeStatus
  <2> DEFINE n == payload.count
             w == payload.words
             ph == [i \in 1 .. 2 * n |-> PhaseOf(w[i])]
  <2>3. n \in Nat /\ w \in Seq(Words) /\ Len(w) = 2 * n
    BY <2>1, <2>2 DEF PayloadRecords, LengthOK
  <2>4. \A i \in 1 .. 2 * n : Word(ph[i]) = w[i]
    <3>1. \A i \in 1 .. 2 * n : w[i] \in Words
      BY <2>3
    <3>2. \A i \in 1 .. 2 * n : ph[i] = PhaseOf(w[i])
      OBVIOUS
    <3> HIDE DEF ph
    <3> QED
      BY <3>1, <3>2, WordOfPhase
  <2> DEFINE v == [i \in 1 .. 2 * n |-> Word(ph[i])]
  <2>5. v = w
    <3>1. w \in [1 .. 2 * n -> Words]
      BY <2>3
    <3> HIDE DEF ph, w
    <3> QED
      BY <2>4, <3>1
  <2>6. Encode(Decoded(payload)) =
          [count |-> n, flags |-> payload.flags, resolution |-> payload.resolution,
           carrier |-> payload.carrier, words |-> v]
    BY DEF Encode, Decoded
  <2> HIDE DEF v
  <2>7. Encode(Decoded(payload)) = payload
    BY <2>1, <2>5, <2>6 DEF PayloadRecords
  <2> QED
    BY <2>1, <2>2, <2>7
<1> QED
  BY <1>1, Inductive, PTL

-----------------------------------------------------------------------------
(* Patterns.                                                               *)

\* The fields of what is built from a pattern within the limits.
LEMMA PatternSize ==
  ASSUME NEW p \in Patterns, InRange(p)
  PROVE  /\ SymbolCount(p) = (p.size + 1) \div 2 /\ SymbolCount(p) \in 1 .. MaxSymbols
         /\ SymbolCount(p) \in Nat /\ p.size \in Nat
         /\ 2 * SymbolCount(p) = IF p.size % 2 = 0 THEN p.size ELSE p.size + 1
<1>1. p.size \in 1 .. 2 * MaxSymbols /\ MaxSymbols \in Nat \ {0} /\ CountModulus \in Nat
      /\ MaxSymbols < CountModulus /\ p.size \in Nat
  BY SymbolsAssumption, InputsAssumption DEF InRange
<1>2. PICK n : n = (p.size + 1) \div 2
  OBVIOUS
<1>3. n \in 1 .. MaxSymbols /\ n \in 0 .. CountModulus - 1
  BY <1>1, <1>2
<1>4. n % CountModulus = n
  BY <1>1, <1>3
<1>5. 2 * n = IF p.size % 2 = 0 THEN p.size ELSE p.size + 1
  BY <1>1, <1>2
<1> QED
  BY <1>1, <1>2, <1>3, <1>4, <1>5 DEF SymbolCount

LEMMA DurationKept ==
  ASSUME NEW d \in 1 .. MaxDuration
  PROVE  Duration(d) = d
<1>1. d \in Int /\ 0 <= d /\ d <= 32767
  BY DEF MaxDuration
<1>2. (IF d > MaxDuration THEN MaxDuration ELSE d) = d
  BY <1>1 DEF MaxDuration
<1>3. d % 65536 = d
  BY ONLY <1>1
<1>4. d % 32768 = d
  BY ONLY <1>1
<1> QED
  BY <1>2, <1>3, <1>4 DEF Duration

\* Each word holds the interval it was built from.
LEMMA PatternPhase ==
  ASSUME NEW p \in Patterns, InRange(p), NEW i \in 1 .. 2 * SymbolCount(p)
  PROVE  /\ PhaseOf(PatternWord(p, i)) =
              Phase(i % 2, IF i <= p.size THEN Interval(p, i) ELSE 0)
         /\ i <= p.size => Interval(p, i) \in 1 .. MaxDuration
         /\ i \in Nat /\ i % 2 \in {0, 1}
<1>1. i \in Nat /\ i % 2 \in {0, 1} /\ p.size \in Nat
  BY PatternSize
<1>2. i <= p.size => Interval(p, i) \in 1 .. MaxDuration
  BY <1>1 DEF InRange
<1>3. PICK d : d = IF i <= p.size THEN Interval(p, i) ELSE 0
  OBVIOUS
<1>4. d \in Ticks
  <2>1. CASE i <= p.size
    <3>1. d = Interval(p, i) /\ d \in 1 .. MaxDuration
      BY <1>2, <1>3, <2>1
    <3> QED
      BY <3>1, DurationTicks, Zenon
  <2>2. CASE ~(i <= p.size)
    <3>1. d = 0
      BY <1>3, <2>2
    <3> QED
      BY <3>1 DEF Ticks, MaxDuration
  <2> QED
    BY <2>1, <2>2
<1>5. PatternWord(p, i) = 32768 * (i % 2) + d
  <2>1. (IF i <= p.size THEN Duration(Interval(p, i)) ELSE 0) = d
    BY <1>2, <1>3, DurationKept
  <2> QED
    BY <2>1 DEF PatternWord, Word, Phase
<1>6. PhaseOf(PatternWord(p, i)) = Phase(i % 2, d)
  <2>1. PICK l \in {0, 1} : l = i % 2
    BY <1>1
  <2> QED
    BY <1>4, <1>5, <2>1, Halves DEF PhaseOf
<1> QED
  BY <1>1, <1>2, <1>3, <1>6

\* What is built from a pattern within the limits is accepted and decodes to the pattern.
LEMMA PatternDecodes ==
  ASSUME NEW p \in Patterns, InRange(p)
  PROVE  /\ DecodeStatus(PatternPayload(p)) = "OK"
         /\ Decoded(PatternPayload(p)).phases = PatternPhases(p)
<1> DEFINE n == SymbolCount(p)
           q == PatternPayload(p)
           c == Decoded(q)
<1>1. /\ n = (p.size + 1) \div 2 /\ n \in 1 .. MaxSymbols /\ n \in Nat /\ p.size \in Nat
      /\ 2 * n = IF p.size % 2 = 0 THEN p.size ELSE p.size + 1
  BY PatternSize
<1>2. /\ q.count = n /\ q.flags = 0 /\ q.resolution = Resolution /\ q.carrier = CarrierAsked(p)
      /\ q.words = [i \in 1 .. 2 * n |-> PatternWord(p, i)]
  BY DEF PatternPayload
<1> HIDE DEF n, q
<1>3. Len(q.words) = 2 * n
  <2>1. 2 * n \in Nat
    BY <1>1
  <2> QED
    BY <1>2, <2>1
<1>4. /\ c.symbol_count = n /\ c.flags = 0 /\ c.resolution_hz = Resolution
      /\ c.carrier_hz = CarrierAsked(p)
      /\ c.phases = [i \in 1 .. 2 * n |-> PhaseOf(q.words[i])]
  BY <1>2 DEF Decoded
<1> HIDE DEF c
<1>5. ASSUME NEW i \in 1 .. 2 * n
      PROVE  /\ c.phases[i] = Phase(i % 2, IF i <= p.size THEN Interval(p, i) ELSE 0)
             /\ i <= p.size => Interval(p, i) \in 1 .. MaxDuration
             /\ i \in Nat /\ i % 2 \in {0, 1}
  <2>1. c.phases[i] = PhaseOf(PatternWord(p, i))
    BY <1>2, <1>4
  <2> QED
    BY <2>1, PatternPhase DEF n
<1>6. ASSUME NEW i \in 1 .. 2 * n PROVE ValidPhase(c, i)
  <2>1. PICK d : d = IF i <= p.size THEN Interval(p, i) ELSE 0
    OBVIOUS
  <2>2. c.phases[i].level = i % 2 /\ c.phases[i].duration = d
    <3>1. c.phases[i] = Phase(i % 2, d)
      BY <1>5, <2>1, Zenon
    <3> QED
      BY <3>1 DEF Phase
  <2>3. d \in Ticks
    <3>1. CASE i <= p.size
      <4>1. d = Interval(p, i) /\ d \in 1 .. MaxDuration
        BY <1>5, <2>1, <3>1, Zenon
      <4> QED
        BY <4>1, DurationTicks, Zenon
    <3>2. CASE ~(i <= p.size)
      <4>1. d = 0
        BY <2>1, <3>2, Zenon
      <4> QED
        BY <4>1 DEF Ticks, MaxDuration
    <3> QED
      BY <3>1, <3>2
  <2>4. ASSUME d = 0 PROVE i = 2 * n
    <3>1. ~(i <= p.size) /\ i \in Nat
      <4>1. ASSUME i <= p.size PROVE FALSE
        <5>1. 0 \in 1 .. MaxDuration
          BY <1>5, <2>1, <2>4, <4>1, Zenon
        <5> QED
          BY <5>1
      <4> QED
        BY <1>5, <4>1
    <3> QED
      BY <1>1, <3>1
  <2> QED
    BY <1>4, <2>2, <2>3, <2>4 DEF ValidPhase
<1>7. Valid(c)
  <2>1. CarrierOK(c.carrier_hz)
    BY <1>4 DEF InRange
  <2> QED
    BY <1>1, <1>4, <1>6, <2>1 DEF Valid
<1>8. DecodeStatus(q) = "OK"
  <2>1. ~(Len(q.words) > 2 * MaxSymbols) /\ q.count \in 1 .. MaxSymbols /\ LengthOK(q)
    <3>1. MaxSymbols \in Nat /\ n <= MaxSymbols
      BY <1>1, SymbolsAssumption
    <3>2. ~(2 * n > 2 * MaxSymbols)
      BY <1>1, <3>1
    <3> QED
      BY <1>1, <1>2, <1>3, <3>2 DEF LengthOK
  <2> QED
    BY <1>7, <2>1 DEF DecodeStatus, c
<1>9. c.phases = PatternPhases(p)
  <2> DEFINE s == [i \in 1 .. p.size |-> Phase(i % 2, Interval(p, i))]
  <2>1. PICK t : t = s
    OBVIOUS
  <2>2. /\ DOMAIN t = 1 .. p.size
        /\ \A i \in 1 .. p.size : t[i] = Phase(i % 2, Interval(p, i))
    BY <2>1
  <2>3. PICK T : T = {Phase(i % 2, Interval(p, i)) : i \in 1 .. p.size} \cup {Phase(0, 0)}
    OBVIOUS
  <2>4. t \in Seq(T) /\ Len(t) = p.size /\ Phase(0, 0) \in T
    <3>1. PICK l : l = p.size
      OBVIOUS
    <3>2. l \in Nat /\ DOMAIN t = 1 .. l /\ \A i \in 1 .. l : t[i] \in T
      BY <1>1, <2>2, <2>3, <3>1
    <3>3. t = [i \in 1 .. l |-> t[i]]
      BY <2>1, <3>1
    <3>4. t \in Seq(T) /\ Len(t) = l
      BY <3>2, <3>3
    <3> QED
      BY <2>3, <3>1, <3>4
  <2>5. CASE p.size % 2 = 0
    <3>1. PatternPhases(p) = t /\ 2 * n = p.size
      BY <1>1, <2>1, <2>4, <2>5 DEF PatternPhases, Padded
    <3>2. \A i \in 1 .. 2 * n : c.phases[i] = t[i]
      BY <1>1, <1>5, <2>2, <3>1
    <3>3. t = [i \in 1 .. 2 * n |-> t[i]]
      BY <2>1, <3>1
    <3>4. c.phases = [i \in 1 .. 2 * n |-> c.phases[i]]
      BY <1>4
    <3> QED
      BY <3>1, <3>2, <3>3, <3>4
  <2>6. CASE p.size % 2 # 0
    <3>1. PICK u : u = Append(t, Phase(0, 0))
      OBVIOUS
    <3>2. PatternPhases(p) = u /\ 2 * n = p.size + 1
      BY <1>1, <2>1, <2>4, <2>6, <3>1 DEF PatternPhases, Padded
    <3>3. /\ u = [i \in 1 .. 2 * n |-> u[i]]
          /\ u[2 * n] = Phase(0, 0)
          /\ \A i \in 1 .. p.size : u[i] = t[i]
      <4>1. u \in Seq(T) /\ Len(u) = p.size + 1
        BY <2>4, <3>1
      <4>2. u = [i \in 1 .. p.size + 1 |-> u[i]]
        BY <4>1
      <4>3. PICK z, l : z = Phase(0, 0) /\ l = p.size
        OBVIOUS
      <4>4. t \in Seq(T) /\ Len(t) = l /\ z \in T /\ l \in Nat /\ u = Append(t, z)
        BY <1>1, <2>4, <3>1, <4>3
      <4>5. u[l + 1] = z /\ \A i \in 1 .. l : u[i] = t[i]
        BY <4>4
      <4> QED
        BY <3>2, <4>2, <4>3, <4>5
    <3>4. ASSUME NEW i \in 1 .. 2 * n PROVE c.phases[i] = u[i]
      <4>1. CASE i = 2 * n
        <5>1. ~(i <= p.size) /\ i % 2 = 0
          BY <1>1, <3>2, <4>1
        <5> QED
          BY <1>5, <3>3, <4>1, <5>1
      <4>2. CASE i # 2 * n
        <5>1. i \in 1 .. p.size
          BY <1>1, <3>2, <4>2
        <5> QED
          <6>1. i <= p.size /\ t[i] = Phase(i % 2, Interval(p, i)) /\ u[i] = t[i]
            <7>1. i <= p.size
              BY <1>1, <5>1
            <7> QED
              BY <2>2, <3>3, <5>1, <7>1, Zenon
          <6> QED
            BY <1>5, <6>1, Zenon
      <4> QED
        BY <4>1, <4>2
    <3>5. c.phases = [i \in 1 .. 2 * n |-> c.phases[i]]
      BY <1>4
    <3> QED
      BY <3>2, <3>3, <3>4, <3>5
  <2> QED
    BY <2>5, <2>6
<1> QED
  BY <1>8, <1>9 DEF c, q

\* transmit sends a pattern within the limits of the protocol, of odd length or not, as it is.
THEOREM PatternSent == Spec => []PatternFaithful
<1>1. IInv => PatternFaithful
  <2> SUFFICES ASSUME IInv, job.kind = "transmit", stage = "judged", InRange(job.input)
               PROVE  status = "OK" /\ code.phases = PatternPhases(job.input)
    BY DEF PatternFaithful
  <2>1. job.input \in Patterns
    BY DEF IInv, Jobs
  <2>2. payload = PatternPayload(job.input) /\ status = DecodeStatus(payload)
        /\ (status = "OK" => code = Decoded(payload))
    BY DEF IInv
  <2> QED
    BY <2>1, <2>2, PatternDecodes
<1> QED
  BY <1>1, Inductive, PTL

-----------------------------------------------------------------------------
\* What READ returns for a frame can be used in WRITE, and what goes out is what came in:
\* normalize_frame, the encoding and the decoding, for frames of any length.
THEOREM CaptureSent == Spec => []CaptureReplays
<1>1. IInv => CaptureReplays
  <2> SUFFICES ASSUME IInv, job.kind = "capture", stage # "begin"
               PROVE  /\ Good(job.input) <=> stage # "refused"
                      /\ stage = "judged" => status = "OK" /\ code.phases = Padded(Expected(job.input))
    BY DEF CaptureReplays, Good
  <2>1. PICK raw : raw = job.input
    OBVIOUS
  <2>2. raw \in RawFrames
    BY <2>1 DEF IInv, Jobs
  <2>3. raw \in Seq([1 .. 2 -> Phases])
    BY <2>2, InputsAssumption DEF Phases
  <2>4. /\ NormalizeOK(raw) => Good(raw)
        /\ Good(raw) => NormalizeOK(raw)
        /\ NormalizeOK(raw) => /\ FrameOf(raw) \in Codes
                               /\ FrameOf(raw).phases = Padded(Expected(raw))
                               /\ Len(FrameOf(raw).phases) = 2 * FrameOf(raw).symbol_count
    BY <2>3, FrameJudged
  <2>5. stage = "refused" => ~NormalizeOK(raw)
    BY <2>1 DEF IInv
  <2>6. stage # "refused" => NormalizeOK(raw)
    BY <2>1 DEF IInv
  <2>7. ASSUME stage = "judged"
        PROVE  status = "OK" /\ code.phases = Padded(Expected(raw))
    <3>1. NormalizeOK(raw) /\ payload = Encode(FrameOf(raw)) /\ status = DecodeStatus(payload)
          /\ (status = "OK" => code = Decoded(payload))
      BY <2>1, <2>7 DEF IInv
    <3>2. Valid(FrameOf(raw))
      BY <3>1 DEF NormalizeOK
    <3>3. DecodeStatus(Encode(FrameOf(raw))) = "OK" /\ Decoded(Encode(FrameOf(raw))) = FrameOf(raw)
      BY <2>4, <3>1, <3>2, DecodeUndoesEncode
    <3> QED
      BY <2>4, <3>1, <3>3
  <2> QED
    BY <2>1, <2>4, <2>5, <2>6, <2>7
<1> QED
  BY <1>1, Inductive, PTL
=============================================================================
