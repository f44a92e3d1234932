--------------------------- MODULE AcRemoteProofs ---------------------------
(***************************************************************************)
(* What the app keeps true, for any commands, brands and temperatures, any *)
(* number of controls, and however late taps, timeouts and writes come.    *)
(***************************************************************************)
EXTENDS AcRemote, FiniteSetTheorems, SequenceTheorems, TLAPS

-----------------------------------------------------------------------------
(* The inductive invariant.                                                *)

Apart(q)    == \A i, j \in DOMAIN q : q[i].id = q[j].id => i = j
Below(q, n) == \A i \in DOMAIN q : q[i].id < n
Complete(q) == \A i \in DOMAIN q : Commands \subseteq q[i].irCommands

\* The remote shows control c, or nothing.
ShownIs(s, c) ==
  /\ s.activeControlId = c.id /\ s.brand = c.brand
  /\ s.temperature = c.temperature /\ s.isOn = c.isOn
ShownIsNothing(s) ==
  /\ s.activeControlId = NoId /\ s.brand = Blank
  /\ s.temperature = DEFAULT_TEMPERATURE /\ s.isOn = FALSE

Shows(s) ==
  /\ s.controls = <<>> => ShownIsNothing(s)
  /\ s.controls # <<>> => \E i \in DOMAIN s.controls : ShownIs(s, s.controls[i])

Editing(s) ==
  s.editingControlId # NoId => s.screen = "AddDevice" /\ s.editingControlId \in Ids(s.controls)

Sound(s) ==
  /\ s \in UiStates
  /\ Apart(s.controls) /\ Below(s.controls, s.nextControlId) /\ Complete(s.controls)
  /\ Shows(s)

Good(s) == Sound(s) /\ Editing(s)

\* A tap on a screen that is no longer true does what is still right.
TapsReady ==
  /\ Tap("save", 0) \in offered => Commands \subseteq ui.learnedCommands
  /\ Tap("power", 0) \in offered => ui.controls # <<>>

OneTimeout ==
  /\ learningTimeoutJob \in Jobs \cup {NoJob}
  /\ jobs \subseteq Jobs /\ jobs \subseteq {learningTimeoutJob}

ViewTypes ==
  /\ pendingDelete \in 0 .. MaxId /\ drawer \in BOOLEAN /\ stale \in 0 .. MaxStale
  /\ unsaved \in 0 .. MaxUnsaved + 1
  /\ jobs # {} => unsaved <= MaxUnsaved

RemoteInv ==
  /\ Good(ui) /\ Good(Load(disk))
  /\ RestartForgetsNothing
  /\ TapsReady
  /\ OneTimeout
  /\ ViewTypes

-----------------------------------------------------------------------------
(* The least and the largest number of a set.                              *)

LEMMA LeastOf ==
  ASSUME NEW T \in SUBSET Nat, T # {}
  PROVE  Min(T) \in T /\ \A y \in T : Min(T) <= y
  <1> DEFINE F == {0 .. x : x \in T}
  <1>1. F \subseteq FiniteSubsetsOf(Nat)
    <2>1. \A x \in T : IsFiniteSet(0 .. x) /\ 0 .. x \in SUBSET Nat
      BY FS_Interval
    <2> QED
      BY <2>1 DEF FiniteSubsetsOf
  <1>2. F # {}
    OBVIOUS
  <1>3. PICK s \in F : \A t \in F : ~(<<t, s>> \in StrictSubsetOrdering(Nat))
    BY <1>1, <1>2, FS_StrictSubsetOrderingWellFounded, WFMin
  <1>4. PICK x \in T : s = 0 .. x
    OBVIOUS
  <1>5. ASSUME NEW y \in T, y < x PROVE FALSE
    <2> DEFINE t == 0 .. y
    <2>1. t \in SUBSET Nat /\ s \in SUBSET Nat /\ t \subseteq s /\ t \in F
      BY <1>4, <1>5
    <2>2. x \in s /\ x \notin t
      BY <1>4, <1>5
    <2> HIDE DEF t
    <2>3. <<t, s>> \in (SUBSET Nat) \X (SUBSET Nat) /\ <<t, s>>[1] = t /\ <<t, s>>[2] = s
      BY <2>1
    <2>4. <<t, s>> \in StrictSubsetOrdering(Nat)
      BY <2>1, <2>2, <2>3 DEF StrictSubsetOrdering
    <2> QED
      BY <1>3, <2>1, <2>4
  <1>6. \A y \in T : x <= y
    BY <1>5
  <1> QED
    BY <1>6 DEF Min

LEMMA LargestOf ==
  ASSUME NEW T \in SUBSET Nat, T # {}, NEW b \in Nat, \A x \in T : x <= b
  PROVE  Max(T) \in T /\ \A y \in T : Max(T) >= y
  <1> DEFINE U == {n \in Nat : \A y \in T : y <= n}
  <1>1. U \in SUBSET Nat /\ U # {}
    OBVIOUS
  <1>2. PICK m : m = Min(U)
    OBVIOUS
  <1>3. m \in U /\ \A n \in U : m <= n
    BY <1>1, <1>2, LeastOf
  <1>4. m \in T
    <2> SUFFICES ASSUME m \notin T PROVE FALSE
      OBVIOUS
    <2>1. PICK x \in T : TRUE
      OBVIOUS
    <2>2. m \in Nat /\ x \in Nat /\ \A y \in T : y <= m /\ y # m /\ y \in Nat
      BY <1>3
    <2>3. m - 1 \in Nat /\ \A y \in T : y <= m - 1
      BY <2>1, <2>2
    <2>4. m - 1 \in U
      BY <2>3
    <2>5. m <= m - 1
      BY <1>3, <2>4
    <2> QED
      BY <2>2, <2>5
  <1>5. \A y \in T : m >= y
    BY <1>3
  <1> QED
    BY <1>4, <1>5 DEF Max

LEMMA LargerOf ==
  ASSUME NEW a \in Int, NEW b \in Int
  PROVE  Max({a, b}) = IF a >= b THEN a ELSE b
  <1> DEFINE m == IF a >= b THEN a ELSE b
  <1>1. m \in {a, b} /\ \A y \in {a, b} : m >= y
    OBVIOUS
  <1>2. \A x \in {a, b} : (\A y \in {a, b} : x >= y) => x = m
    OBVIOUS
  <1>3. Max({a, b}) \in {a, b} /\ \A y \in {a, b} : Max({a, b}) >= y
    BY <1>1 DEF Max
  <1> QED
    BY <1>2, <1>3

-----------------------------------------------------------------------------
(* Lists of controls.                                                      *)

LEMMA ListType ==
  ASSUME NEW q \in Seq(Controls)
  PROVE  /\ DOMAIN q = 1 .. Len(q) /\ Len(q) \in Nat
         /\ q \in [1 .. Len(q) -> Controls]
         /\ \A i \in DOMAIN q : q[i] \in Controls /\ q[i].id \in 1 .. MaxId
         /\ q = <<>> <=> Len(q) = 0
         /\ q = <<>> <=> DOMAIN q = {}
  <1>1. DOMAIN q = 1 .. Len(q) /\ Len(q) \in Nat /\ q \in [1 .. Len(q) -> Controls]
    OBVIOUS
  <1>2. \A i \in DOMAIN q : q[i] \in Controls
    BY <1>1
  <1>3. \A i \in DOMAIN q : q[i].id \in 1 .. MaxId
    BY <1>2 DEF Controls
  <1>4. q = <<>> <=> Len(q) = 0
    BY EmptySeq
  <1>5. Len(q) # 0 => 1 \in DOMAIN q
    BY <1>1
  <1> QED
    BY <1>1, <1>2, <1>3, <1>4, <1>5

LEMMA ControlIs ==
  ASSUME NEW q \in Seq(Controls), Apart(q), NEW i \in DOMAIN q, NEW id, id = q[i].id
  PROVE  ControlOf(q, id) = q[i]
  <1>1. i \in Nat
    BY ListType
  <1>2. {j \in DOMAIN q : q[j].id = id} = {i}
    BY DEF Apart
  <1>3. Min({i}) = i
    BY <1>1, LeastOf
  <1> QED
    BY <1>2, <1>3 DEF ControlOf

\* Without one control the list has all the others.
LEMMA OthersOf ==
  ASSUME NEW q \in Seq(Controls), Apart(q), NEW id \in Ids(q), NEW r, r = Others(q, id)
  PROVE  /\ r \in Seq(Controls) /\ Apart(r)
         /\ \A n \in DOMAIN r : \E i \in DOMAIN q : r[n] = q[i] /\ q[i].id # id
         /\ \A i \in DOMAIN q : q[i].id # id => \E n \in DOMAIN r : r[n] = q[i]
  <1>1. DOMAIN q = 1 .. Len(q) /\ Len(q) \in Nat /\ \A i \in DOMAIN q : q[i] \in Controls
    BY ListType
  <1>2. PICK l : l = Len(q)
    OBVIOUS
  <1>3. PICK k \in 1 .. l : q[k].id = id
    BY <1>1, <1>2 DEF Ids
  <1> DEFINE K == {i \in DOMAIN q : q[i].id # id}
             Rank(i) == Cardinality({j \in K : j <= i})
             Place(n) == IF n < k THEN n ELSE n + 1
  <1>4. l \in Nat /\ k \in Nat /\ DOMAIN q = 1 .. l
    BY <1>1, <1>2
  <1>5. K = (1 .. l) \ {k}
    BY <1>3, <1>4 DEF Apart
  <1>6. Cardinality(K) = l - 1
    <2>1. IsFiniteSet(1 .. l) /\ Cardinality(1 .. l) = l
      BY <1>4, FS_Interval
    <2>2. Cardinality((1 .. l) \ {k}) = Cardinality(1 .. l) - 1
      BY <1>3, <2>1, FS_RemoveElement
    <2> QED
      BY <1>5, <2>1, <2>2
  <1>7. ASSUME NEW i \in K PROVE Rank(i) = IF i < k THEN i ELSE i - 1
    <2>1. i \in 1 .. l /\ i # k /\ i \in Nat
      BY <1>4, <1>5
    <2>2. IsFiniteSet(1 .. i) /\ Cardinality(1 .. i) = i
      BY <2>1, FS_Interval
    <2>3. CASE i < k
      <3>1. {j \in K : j <= i} = 1 .. i
        BY <1>4, <1>5, <2>1, <2>3
      <3> QED
        BY <2>2, <2>3, <3>1
    <2>4. CASE ~(i < k)
      <3>1. k \in 1 .. i
        BY <1>3, <1>4, <2>1, <2>4
      <3>2. {j \in K : j <= i} = (1 .. i) \ {k}
        BY <1>4, <1>5, <2>1
      <3>3. Cardinality((1 .. i) \ {k}) = Cardinality(1 .. i) - 1
        BY <2>2, <3>1, FS_RemoveElement
      <3> QED
        BY <2>2, <2>4, <3>2, <3>3
    <2> QED
      BY <2>3, <2>4
  <1> HIDE DEF K, Rank
  <1>8. \A i \in K : i \in 1 .. l /\ i # k
    BY <1>5
  <1>9. ASSUME NEW n \in 1 .. l - 1
        PROVE  /\ Place(n) \in K /\ Rank(Place(n)) = n
               /\ \A i \in K : Rank(i) = n => i = Place(n)
    <2>1. Place(n) \in 1 .. l /\ Place(n) # k
      BY <1>3, <1>4
    <2>2. Place(n) \in K
      BY <1>5, <2>1
    <2>3. Rank(Place(n)) = n
      BY <1>3, <1>4, <1>7, <2>2
    <2>4. ASSUME NEW i \in K, Rank(i) = n PROVE i = Place(n)
      BY <1>3, <1>4, <1>7, <1>8, <2>4
    <2> QED
      BY <2>2, <2>3, <2>4
  <1>10. r = [n \in 1 .. l - 1 |-> q[CHOOSE i \in K : Rank(i) = n]]
    BY <1>6 DEF Others, K, Rank
  <1>11. ASSUME NEW n \in 1 .. l - 1 PROVE r[n] = q[Place(n)]
    <2>1. (CHOOSE i \in K : Rank(i) = n) = Place(n)
      BY <1>9
    <2> QED
      BY <1>10, <2>1
  <1>12. \A i \in K : i \in DOMAIN q /\ q[i].id # id /\ q[i] \in Controls
    BY <1>1 DEF K
  <1>13. l - 1 \in Nat /\ DOMAIN r = 1 .. l - 1
    BY <1>3, <1>4, <1>10
  <1>14. r \in Seq(Controls)
    <2>1. r \in [1 .. l - 1 -> Controls]
      BY <1>9, <1>10, <1>11, <1>12
    <2> QED
      BY <1>13, <2>1
  <1>15. Apart(r)
    <2>1. ASSUME NEW m \in 1 .. l - 1, NEW n \in 1 .. l - 1, r[m].id = r[n].id PROVE m = n
      <3>1. Place(m) \in DOMAIN q /\ Place(n) \in DOMAIN q /\ q[Place(m)].id = q[Place(n)].id
        BY <1>9, <1>11, <1>12, <2>1
      <3>2. Place(m) = Place(n)
        BY <3>1 DEF Apart
      <3> QED
        BY <1>9, <3>2
    <2> QED
      BY <1>13, <2>1 DEF Apart
  <1>16. ASSUME NEW n \in DOMAIN r PROVE \E i \in DOMAIN q : r[n] = q[i] /\ q[i].id # id
    BY <1>9, <1>11, <1>12, <1>13
  <1>17. ASSUME NEW i \in DOMAIN q, q[i].id # id PROVE \E n \in DOMAIN r : r[n] = q[i]
    <2>1. i \in K
      BY <1>17 DEF K
    <2>2. PICK n : n = IF i < k THEN i ELSE i - 1
      OBVIOUS
    <2>3. n \in 1 .. l - 1 /\ Place(n) = i
      BY <1>3, <1>4, <1>8, <2>1, <2>2
    <2> QED
      BY <1>11, <1>13, <2>3
  <1> QED
    BY <1>14, <1>15, <1>16, <1>17

-----------------------------------------------------------------------------
(* What an update may do to a good state.                                  *)

\* The same controls, some of them with other contents.
LEMMA Renewed ==
  ASSUME NEW s, Good(s), NEW u \in UiStates, DOMAIN u.controls = DOMAIN s.controls,
         \A i \in DOMAIN s.controls : /\ u.controls[i].id = s.controls[i].id
                                      /\ Commands \subseteq u.controls[i].irCommands,
         u.nextControlId = s.nextControlId, u.activeControlId = s.activeControlId,
         \A i \in DOMAIN s.controls :
            u.controls[i].id = u.activeControlId => ShownIs(u, u.controls[i]),
         s.controls = <<>> => u.brand = s.brand /\ u.temperature = s.temperature /\ u.isOn = s.isOn,
         Editing(u)
  PROVE  Good(u)
  <1>1. s.controls \in Seq(Controls) /\ u.controls \in Seq(Controls)
    BY DEF Good, Sound, UiStates
  <1>2. s.controls = <<>> <=> u.controls = <<>>
    BY <1>1, ListType
  <1>3. Apart(u.controls) /\ Below(u.controls, u.nextControlId) /\ Complete(u.controls)
    BY DEF Good, Sound, Apart, Below, Complete
  <1>4. Shows(u)
    <2>1. CASE s.controls = <<>>
      BY <1>2, <2>1 DEF Good, Sound, Shows, ShownIsNothing
    <2>2. CASE s.controls # <<>>
      <3>1. PICK i \in DOMAIN s.controls : ShownIs(s, s.controls[i])
        BY <2>2 DEF Good, Sound, Shows
      <3>2. u.controls[i].id = u.activeControlId
        BY <3>1 DEF ShownIs
      <3>3. ShownIs(u, u.controls[i]) /\ i \in DOMAIN u.controls
        BY <3>2
      <3> QED
        BY <1>2, <2>2, <3>3 DEF Shows
    <2> QED
      BY <2>1, <2>2
  <1> QED
    BY <1>3, <1>4 DEF Good, Sound

\* The remote and the controls stay as they are.
LEMMA FormOnly ==
  ASSUME NEW s, Sound(s), NEW u \in UiStates, Lasting(u) = Lasting(s), Editing(u)
  PROVE  Good(u)
  <1>1. /\ u.brand = s.brand /\ u.temperature = s.temperature /\ u.isOn = s.isOn
        /\ u.controls = s.controls /\ u.activeControlId = s.activeControlId
        /\ u.nextControlId = s.nextControlId
    BY DEF Lasting
  <1>2. Shows(u)
    BY <1>1 DEF Good, Sound, Shows, ShownIs, ShownIsNothing
  <1> QED
    BY <1>1, <1>2 DEF Good, Sound

\* One of the controls is the one that is shown.
LEMMA SelectedSound ==
  ASSUME NEW s, s \in UiStates, Apart(s.controls), Below(s.controls, s.nextControlId),
         Complete(s.controls), NEW i \in DOMAIN s.controls, NEW u, u = Selected(s, s.controls[i])
  PROVE  /\ Sound(u) /\ u.controls = s.controls /\ u.learnedCommands = s.learnedCommands
         /\ u.editingControlId = s.editingControlId /\ u.screen = s.screen
  <1>1. s.controls \in Seq(Controls)
    BY DEF UiStates
  <1>2. PICK c : c = s.controls[i]
    OBVIOUS
  <1>3. /\ c \in Controls /\ c.brand \in Brands \cup {Blank} /\ c.id \in 0 .. MaxId
        /\ c.temperature \in MIN_TEMPERATURE .. MAX_TEMPERATURE /\ c.isOn \in BOOLEAN
    <2>1. c \in Controls
      BY <1>1, <1>2, ListType
    <2>2. c.id \in 1 .. MaxId /\ c.id \in 0 .. MaxId
      BY <2>1, BoundsAssumption DEF Controls
    <2> QED
      BY <2>1, <2>2 DEF Controls
  <1>4. /\ u.brand = c.brand /\ u.temperature = c.temperature /\ u.isOn = c.isOn
        /\ u.activeControlId = c.id /\ u.controls = s.controls
        /\ u.nextControlId = s.nextControlId /\ u.editingControlId = s.editingControlId
        /\ u.screen = s.screen /\ u.learnedCommands = s.learnedCommands
    BY <1>2 DEF Selected, UiStates
  <1>5. u \in UiStates
    BY <1>2, <1>3 DEF Selected, UiStates
  <1>6. Shows(u)
    <2>1. ShownIs(u, c)
      BY <1>4 DEF ShownIs
    <2>2. s.controls # <<>>
      BY <1>1, ListType
    <2> QED
      BY <1>2, <1>4, <2>1, <2>2 DEF Shows
  <1> QED
    BY <1>4, <1>5, <1>6 DEF Sound

LEMMA SelectedGood ==
  ASSUME NEW s, s \in UiStates, Apart(s.controls), Below(s.controls, s.nextControlId),
         Complete(s.controls), Editing(s), NEW i \in DOMAIN s.controls, NEW u, u = Selected(s, s.controls[i])
  PROVE  Good(u) /\ u.controls = s.controls /\ u.learnedCommands = s.learnedCommands
  <1>1. /\ Sound(u) /\ u.controls = s.controls /\ u.learnedCommands = s.learnedCommands
        /\ u.editingControlId = s.editingControlId /\ u.screen = s.screen
    BY SelectedSound
  <1>2. Editing(u)
    BY <1>1 DEF Editing
  <1> QED
    BY <1>1, <1>2 DEF Good

LEMMA LeftIs ==
  ASSUME NEW s \in UiStates, NEW u, u = Left(s)
  PROVE  /\ u \in UiStates /\ Lasting(u) = Lasting(s) /\ Editing(u)
         /\ u.learnedCommands = s.learnedCommands /\ u.deviceBrand = s.deviceBrand
         /\ u.controls = s.controls /\ u.nextControlId = s.nextControlId
         /\ u.activeControlId = s.activeControlId /\ u.brand = s.brand
         /\ u.temperature = s.temperature /\ u.isOn = s.isOn
         /\ u.editingControlId = NoId
  <1>1. NoId \in 0 .. MaxId
    BY BoundsAssumption DEF NoId
  <1>2. u \in UiStates
    BY <1>1 DEF Left, UiStates
  <1>3. /\ u.learnedCommands = s.learnedCommands /\ u.deviceBrand = s.deviceBrand
        /\ u.controls = s.controls /\ u.nextControlId = s.nextControlId
        /\ u.activeControlId = s.activeControlId /\ u.brand = s.brand
        /\ u.temperature = s.temperature /\ u.isOn = s.isOn /\ u.editingControlId = NoId
    BY DEF Left, UiStates
  <1> QED
    BY <1>2, <1>3 DEF Lasting, Editing

LEMMA LeftGood ==
  ASSUME NEW s, Sound(s), NEW u, u = Left(s)
  PROVE  Good(u) /\ u.learnedCommands = s.learnedCommands /\ u.controls = s.controls
  <1>1. s \in UiStates
    BY DEF Sound
  <1> QED
    BY <1>1, LeftIs, FormOnly

\* A list whose controls are changed in place.
LEMMA ChangedList ==
  ASSUME NEW q \in Seq(Controls), NEW r, DOMAIN r = DOMAIN q, r = [i \in DOMAIN q |-> r[i]],
         \A i \in DOMAIN q : r[i] \in Controls
  PROVE  r \in Seq(Controls)
  <1>1. DOMAIN q = 1 .. Len(q) /\ Len(q) \in Nat
    BY ListType
  <1>2. r \in [1 .. Len(q) -> Controls]
    BY <1>1
  <1> QED
    BY <1>1, <1>2

LEMMA SetTemperatureGood ==
  ASSUME NEW s, Good(s), s.controls # <<>>, NEW x \in MIN_TEMPERATURE .. MAX_TEMPERATURE,
         NEW u, u = SetTemperature(s, x)
  PROVE  Good(u) /\ u.learnedCommands = s.learnedCommands /\ u.controls # <<>>
  <1>1. s \in UiStates /\ s.controls \in Seq(Controls)
    BY DEF Good, Sound, UiStates
  <1>2. PICK q : q = s.controls
    OBVIOUS
  <1>3. PICK r : r = [i \in DOMAIN q |-> IF q[i].id = s.activeControlId
                                           THEN [q[i] EXCEPT !.temperature = x] ELSE q[i]]
    OBVIOUS
  <1>4. u = [s EXCEPT !.temperature = x, !.controls = r]
    <2>1. ChangeActive(s, [i \in DOMAIN q |-> [q[i] EXCEPT !.temperature = x]]) = r
      BY <1>2, <1>3 DEF ChangeActive
    <2>2. u = [s EXCEPT !.temperature = x,
                        !.controls = ChangeActive(s, [i \in DOMAIN q |-> [q[i] EXCEPT !.temperature = x]])]
      BY <1>1, <1>2 DEF SetTemperature, UiStates
    <2> QED
      BY <2>1, <2>2
  <1>5. \A i \in DOMAIN q : q[i] \in Controls
    BY <1>1, <1>2, ListType
  <1>6. ASSUME NEW i \in DOMAIN q
        PROVE  /\ r[i] \in Controls /\ r[i].id = q[i].id /\ r[i].irCommands = q[i].irCommands
               /\ r[i].brand = q[i].brand /\ r[i].isOn = q[i].isOn
               /\ r[i].id = s.activeControlId => r[i].temperature = x
    <2>1. CASE q[i].id = s.activeControlId
      <3>1. r[i] = [q[i] EXCEPT !.temperature = x]
        BY <1>3, <2>1
      <3> QED
        BY <1>5, <3>1 DEF Controls
    <2>2. CASE q[i].id # s.activeControlId
      BY <1>3, <1>5, <2>2
    <2> QED
      BY <2>1, <2>2
  <1>7. r \in Seq(Controls) /\ DOMAIN r = DOMAIN q
    <2>1. DOMAIN r = DOMAIN q /\ r = [i \in DOMAIN q |-> r[i]]
      BY <1>3
    <2> QED
      BY <1>1, <1>2, <1>6, <2>1, ChangedList
  <1>8. u \in UiStates
    BY <1>1, <1>4, <1>7 DEF UiStates
  <1>9. /\ u.controls = r /\ u.temperature = x /\ u.brand = s.brand /\ u.isOn = s.isOn
        /\ u.activeControlId = s.activeControlId /\ u.nextControlId = s.nextControlId
        /\ u.editingControlId = s.editingControlId /\ u.screen = s.screen
        /\ u.learnedCommands = s.learnedCommands
    BY <1>1, <1>4 DEF UiStates
  <1>10. ASSUME NEW i \in DOMAIN q, r[i].id = u.activeControlId PROVE ShownIs(u, r[i])
    <2>1. PICK j \in DOMAIN q : ShownIs(s, q[j])
      BY <1>2 DEF Good, Sound, Shows
    <2>2. q[i].id = q[j].id
      BY <1>6, <1>9, <1>10, <2>1 DEF ShownIs
    <2>3. i = j
      BY <1>2, <2>2 DEF Good, Sound, Apart
    <2> QED
      BY <1>6, <1>9, <1>10, <2>1, <2>3 DEF ShownIs
  <1>11. Editing(u)
    <2>1. Ids(r) = Ids(q)
      BY <1>6, <1>7 DEF Ids
    <2> QED
      BY <1>2, <1>9, <2>1 DEF Good, Sound, Editing
  <1>12. \A i \in DOMAIN q : Commands \subseteq r[i].irCommands
    BY <1>2, <1>6 DEF Good, Sound, Complete
  <1>13. Good(u)
    BY <1>2, <1>6, <1>7, <1>8, <1>9, <1>10, <1>11, <1>12, Renewed
  <1>14. r # <<>>
    BY <1>1, <1>2, <1>7, ListType
  <1> QED
    BY <1>9, <1>13, <1>14

LEMMA SetPowerGood ==
  ASSUME NEW s, Good(s), s.controls # <<>>, NEW x \in BOOLEAN, NEW u, u = SetPower(s, x)
  PROVE  Good(u) /\ u.learnedCommands = s.learnedCommands /\ u.controls # <<>>
  <1>1. s \in UiStates /\ s.controls \in Seq(Controls)
    BY DEF Good, Sound, UiStates
  <1>2. PICK q : q = s.controls
    OBVIOUS
  <1>3. PICK r : r = [i \in DOMAIN q |-> IF q[i].id = s.activeControlId
                                           THEN [q[i] EXCEPT !.isOn = x] ELSE q[i]]
    OBVIOUS
  <1>4. u = [s EXCEPT !.isOn = x, !.controls = r]
    <2>1. ChangeActive(s, [i \in DOMAIN q |-> [q[i] EXCEPT !.isOn = x]]) = r
      BY <1>2, <1>3 DEF ChangeActive
    <2>2. u = [s EXCEPT !.isOn = x,
                        !.controls = ChangeActive(s, [i \in DOMAIN q |-> [q[i] EXCEPT !.isOn = x]])]
      BY <1>1, <1>2 DEF SetPower, UiStates
    <2> QED
      BY <2>1, <2>2
  <1>5. \A i \in DOMAIN q : q[i] \in Controls
    BY <1>1, <1>2, ListType
  <1>6. ASSUME NEW i \in DOMAIN q
        PROVE  /\ r[i] \in Controls /\ r[i].id = q[i].id /\ r[i].irCommands = q[i].irCommands
               /\ r[i].brand = q[i].brand /\ r[i].temperature = q[i].temperature
               /\ r[i].id = s.activeControlId => r[i].isOn = x
    <2>1. CASE q[i].id = s.activeControlId
      <3>1. r[i] = [q[i] EXCEPT !.isOn = x]
        BY <1>3, <2>1
      <3> QED
        BY <1>5, <3>1 DEF Controls
    <2>2. CASE q[i].id # s.activeControlId
      BY <1>3, <1>5, <2>2
    <2> QED
      BY <2>1, <2>2
  <1>7. r \in Seq(Controls) /\ DOMAIN r = DOMAIN q
    <2>1. DOMAIN r = DOMAIN q /\ r = [i \in DOMAIN q |-> r[i]]
      BY <1>3
    <2> QED
      BY <1>1, <1>2, <1>6, <2>1, ChangedList
  <1>8. u \in UiStates
    BY <1>1, <1>4, <1>7 DEF UiStates
  <1>9. /\ u.controls = r /\ u.isOn = x /\ u.brand = s.brand /\ u.temperature = s.temperature
        /\ u.activeControlId = s.activeControlId /\ u.nextControlId = s.nextControlId
        /\ u.editingControlId = s.editingControlId /\ u.screen = s.screen
        /\ u.learnedCommands = s.learnedCommands
    BY <1>1, <1>4 DEF UiStates
  <1>10. ASSUME NEW i \in DOMAIN q, r[i].id = u.activeControlId PROVE ShownIs(u, r[i])
    <2>1. PICK j \in DOMAIN q : ShownIs(s, q[j])
      BY <1>2 DEF Good, Sound, Shows
    <2>2. q[i].id = q[j].id
      BY <1>6, <1>9, <1>10, <2>1 DEF ShownIs
    <2>3. i = j
      BY <1>2, <2>2 DEF Good, Sound, Apart
    <2> QED
      BY <1>6, <1>9, <1>10, <2>1, <2>3 DEF ShownIs
  <1>11. Editing(u)
    <2>1. Ids(r) = Ids(q)
      BY <1>6, <1>7 DEF Ids
    <2> QED
      BY <1>2, <1>9, <2>1 DEF Good, Sound, Editing
  <1>12. \A i \in DOMAIN q : Commands \subseteq r[i].irCommands
    BY <1>2, <1>6 DEF Good, Sound, Complete
  <1>13. Good(u)
    BY <1>2, <1>6, <1>7, <1>8, <1>9, <1>10, <1>11, <1>12, Renewed
  <1>14. r # <<>>
    BY <1>1, <1>2, <1>7, ListType
  <1> QED
    BY <1>9, <1>13, <1>14

LEMMA EditedGood ==
  ASSUME NEW s, Good(s), s.editingControlId \in Ids(s.controls), Commands \subseteq s.learnedCommands,
         NEW u, u = Edited(s)
  PROVE  Good(u) /\ u.learnedCommands = s.learnedCommands
  <1>1. s \in UiStates /\ s.controls \in Seq(Controls)
    BY DEF Good, Sound, UiStates
  <1>2. PICK q, id, l : q = s.controls /\ id = s.editingControlId /\ l = Left(s)
    OBVIOUS
  <1>3. PICK r : r = [i \in DOMAIN q |-> IF q[i].id = id
                        THEN [q[i] EXCEPT !.brand = s.deviceBrand, !.irCommands = s.learnedCommands]
                        ELSE q[i]]
    OBVIOUS
  <1>4. PICK b : b = IF s.activeControlId = id THEN s.deviceBrand ELSE s.brand
    OBVIOUS
  <1>5. /\ l \in UiStates /\ Editing(l) /\ l.learnedCommands = s.learnedCommands
        /\ l.controls = q /\ l.nextControlId = s.nextControlId
        /\ l.activeControlId = s.activeControlId /\ l.brand = s.brand
        /\ l.temperature = s.temperature /\ l.isOn = s.isOn /\ l.editingControlId = NoId
    BY <1>1, <1>2, LeftIs
  <1>6. u = [l EXCEPT !.brand = b, !.controls = r]
    BY <1>2, <1>3, <1>4, <1>5 DEF Edited, UiStates
  <1>7. \A i \in DOMAIN q : q[i] \in Controls
    BY <1>1, <1>2, ListType
  <1>8. s.deviceBrand \in Brands \cup {Blank} /\ s.brand \in Brands \cup {Blank}
        /\ s.learnedCommands \in SUBSET Commands
    BY <1>1 DEF UiStates
  <1>9. ASSUME NEW i \in DOMAIN q
        PROVE  /\ r[i] \in Controls /\ r[i].id = q[i].id /\ Commands \subseteq r[i].irCommands
               /\ r[i].temperature = q[i].temperature /\ r[i].isOn = q[i].isOn
               /\ r[i].brand = IF q[i].id = id THEN s.deviceBrand ELSE q[i].brand
    <2>1. CASE q[i].id = id
      <3>1. r[i] = [q[i] EXCEPT !.brand = s.deviceBrand, !.irCommands = s.learnedCommands]
        BY <1>3, <2>1
      <3> QED
        BY <1>7, <1>8, <2>1, <3>1 DEF Controls
    <2>2. CASE q[i].id # id
      <3>1. r[i] = q[i]
        BY <1>3, <2>2
      <3> QED
        BY <1>2, <1>7, <2>2, <3>1 DEF Good, Sound, Complete
    <2> QED
      BY <2>1, <2>2
  <1>10. r \in Seq(Controls) /\ DOMAIN r = DOMAIN q
    <2>1. DOMAIN r = DOMAIN q /\ r = [i \in DOMAIN q |-> r[i]]
      BY <1>3
    <2> QED
      BY <1>1, <1>2, <1>9, <2>1, ChangedList
  <1>11. u \in UiStates
    <2>1. b \in Brands \cup {Blank}
      BY <1>4, <1>8
    <2> QED
      BY <1>5, <1>6, <1>10, <2>1 DEF UiStates
  <1>12. /\ u.controls = r /\ u.temperature = s.temperature /\ u.brand = b /\ u.isOn = s.isOn
         /\ u.activeControlId = s.activeControlId /\ u.nextControlId = s.nextControlId
         /\ u.editingControlId = NoId /\ u.learnedCommands = s.learnedCommands
    BY <1>5, <1>6 DEF UiStates
  <1>13. ASSUME NEW i \in DOMAIN q, r[i].id = u.activeControlId PROVE ShownIs(u, r[i])
    <2>1. PICK j \in DOMAIN q : ShownIs(s, q[j])
      BY <1>1, <1>2, ListType DEF Good, Sound, Shows
    <2>2. q[i].id = q[j].id
      BY <1>9, <1>12, <1>13, <2>1 DEF ShownIs
    <2>3. i = j
      BY <1>2, <2>2 DEF Good, Sound, Apart
    <2>4. r[i].brand = b
      BY <1>4, <1>9, <1>12, <1>13, <2>1, <2>2, <2>3 DEF ShownIs
    <2> QED
      BY <1>9, <1>12, <1>13, <2>1, <2>3, <2>4 DEF ShownIs
  <1>14. Editing(u)
    BY <1>12 DEF Editing
  <1>15. s.controls # <<>>
    BY <1>1, ListType DEF Ids
  <1>16. Good(u)
    BY <1>2, <1>9, <1>10, <1>11, <1>12, <1>13, <1>14, <1>15, Renewed
  <1> QED
    BY <1>12, <1>16

LEMMA RegisteredGood ==
  ASSUME NEW s, Good(s), Commands \subseteq s.learnedCommands, s.nextControlId <= MaxId,
         NEW u, u = Registered(s)
  PROVE  Good(u) /\ u.learnedCommands = s.learnedCommands
  <1>1. s \in UiStates /\ s.controls \in Seq(Controls)
    BY DEF Good, Sound, UiStates
  <1>2. PICK q, n, c, l : q = s.controls /\ n = s.nextControlId /\ c = NewControl(s) /\ l = Left(s)
    OBVIOUS
  <1>3. PICK r, m : r = Append(q, c) /\ m = n + 1
    OBVIOUS
  <1>4. /\ l \in UiStates /\ Editing(l) /\ l.learnedCommands = s.learnedCommands
        /\ l.controls = q /\ l.nextControlId = n /\ l.editingControlId = NoId
    BY <1>1, <1>2, LeftIs
  <1>5. n \in 1 .. MaxId /\ n \in Nat /\ m \in 1 .. MaxId + 1
    <2>1. n \in 1 .. MaxId + 1
      BY <1>1, <1>2 DEF UiStates
    <2> QED
      BY <1>2, <1>3, <2>1, BoundsAssumption
  <1>6. /\ c \in Controls /\ c.id = n /\ Commands \subseteq c.irCommands
        /\ c.brand \in Brands \cup {Blank} /\ c.id \in 0 .. MaxId
        /\ c.temperature \in MIN_TEMPERATURE .. MAX_TEMPERATURE /\ c.isOn \in BOOLEAN
    <2>1. s.deviceBrand \in Brands \cup {Blank} /\ s.learnedCommands \in SUBSET Commands
      BY <1>1 DEF UiStates
    <2>2. c = [id |-> n, brand |-> s.deviceBrand, irCommands |-> s.learnedCommands,
               temperature |-> DEFAULT_TEMPERATURE, isOn |-> TRUE]
      BY <1>2 DEF NewControl
    <2>3. n \in 0 .. MaxId
      BY <1>5, BoundsAssumption
    <2> QED
      BY <1>5, <2>1, <2>2, <2>3, TemperatureAssumption DEF Controls
  <1>7. /\ DOMAIN r = 1 .. Len(q) + 1 /\ r \in Seq(Controls) /\ r[Len(q) + 1] = c
        /\ \A i \in DOMAIN q : r[i] = q[i]
    BY <1>1, <1>2, <1>3, <1>6
  <1>8. DOMAIN q = 1 .. Len(q) /\ Len(q) \in Nat /\ \A i \in DOMAIN q : q[i].id \in 1 .. MaxId
    BY <1>1, <1>2, ListType
  <1>9. \A i \in DOMAIN r : i \in DOMAIN q \/ i = Len(q) + 1
    BY <1>7, <1>8
  <1>10. \A i \in DOMAIN q : q[i].id < n
    BY <1>2 DEF Good, Sound, Below
  <1>11. \A i \in DOMAIN q : r[i].id < n
    BY <1>7, <1>10
  <1>12. Apart(r)
    <2> SUFFICES ASSUME NEW i \in DOMAIN r, NEW j \in DOMAIN r, r[i].id = r[j].id PROVE i = j
      BY DEF Apart
    <2>1. CASE i \in DOMAIN q /\ j \in DOMAIN q
      BY <1>2, <1>7, <2>1 DEF Good, Sound, Apart
    <2>2. CASE i \notin DOMAIN q \/ j \notin DOMAIN q
      BY <1>5, <1>6, <1>7, <1>8, <1>9, <1>11, <2>2
    <2> QED
      BY <2>1, <2>2
  <1>13. Below(r, m)
    <2>1. ASSUME NEW i \in DOMAIN r PROVE r[i].id < m
      <3>1. CASE i \in DOMAIN q
        <4>1. r[i].id < n /\ r[i].id \in 1 .. MaxId
          BY <1>7, <1>8, <1>11, <3>1
        <4> QED
          BY <1>3, <1>5, <4>1
      <3>2. CASE i = Len(q) + 1
        BY <1>3, <1>5, <1>6, <1>7, <3>2
      <3> QED
        BY <1>9, <3>1, <3>2
    <2> QED
      BY <2>1 DEF Below
  <1>14. Complete(r)
    BY <1>2, <1>6, <1>7, <1>9 DEF Good, Sound, Complete
  <1>15. PICK t : t = [l EXCEPT !.controls = r, !.nextControlId = m]
    OBVIOUS
  <1>16. /\ t \in UiStates /\ t.controls = r /\ t.nextControlId = m
         /\ t.editingControlId = NoId /\ t.learnedCommands = s.learnedCommands
    BY <1>4, <1>5, <1>7, <1>15 DEF UiStates
  <1>17. PICK k : k = Len(q) + 1
    OBVIOUS
  <1>18. k \in DOMAIN t.controls /\ t.controls[k] = c
    BY <1>7, <1>8, <1>16, <1>17
  <1>19. u = Selected(t, c)
    <2>1. u = [Selected(l, c) EXCEPT !.controls = Append(@, c), !.nextControlId = @ + 1]
      BY <1>2 DEF Registered
    <2>2. Selected(l, c) \in UiStates /\ Selected(l, c).controls = q /\ Selected(l, c).nextControlId = n
      BY <1>4, <1>6 DEF Selected, UiStates
    <2>3. u = [Selected(l, c) EXCEPT !.controls = r, !.nextControlId = m]
      BY <1>3, <2>1, <2>2 DEF UiStates
    <2> QED
      BY <1>4, <1>15, <2>3 DEF Selected, UiStates
  <1>20. Good(u)
    <2>1. Editing(t)
      BY <1>16 DEF Editing
    <2> QED
      BY <1>12, <1>13, <1>14, <1>16, <1>18, <1>19, <2>1, SelectedGood
  <1>21. u.learnedCommands = s.learnedCommands
    BY <1>16, <1>19 DEF Selected, UiStates
  <1> QED
    BY <1>20, <1>21

\* A control of the list is gone, and with it what the form and the remote had of it.
LEMMA DeletedGood ==
  ASSUME NEW s, Good(s), NEW id \in Ids(s.controls), NEW u, u = LeftIf(Without(s, id), id)
  PROVE  Good(u) /\ u.learnedCommands = s.learnedCommands
  <1>1. /\ s \in UiStates /\ s.controls \in Seq(Controls)
        /\ Apart(s.controls) /\ Below(s.controls, s.nextControlId) /\ Complete(s.controls)
        /\ Shows(s) /\ Editing(s)
    BY DEF Good, Sound, UiStates
  <1>2. PICK q, r, w : q = s.controls /\ r = Others(q, id) /\ w = Without(s, id)
    OBVIOUS
  <1>3. PICK t : t = [s EXCEPT !.controls = r]
    OBVIOUS
  <1>4. /\ r \in Seq(Controls) /\ Apart(r)
        /\ \A n \in DOMAIN r : \E i \in DOMAIN q : r[n] = q[i] /\ q[i].id # id
        /\ \A i \in DOMAIN q : q[i].id # id => \E n \in DOMAIN r : r[n] = q[i]
    <2>1. q \in Seq(Controls) /\ Apart(q) /\ id \in Ids(q) /\ r = Others(q, id)
      BY <1>1, <1>2
    <2> QED
      BY <2>1, OthersOf
  <1>5. /\ t \in UiStates /\ t.controls = r /\ t.nextControlId = s.nextControlId
        /\ t.editingControlId = s.editingControlId /\ t.screen = s.screen
        /\ t.learnedCommands = s.learnedCommands /\ t.activeControlId = s.activeControlId
        /\ t.brand = s.brand /\ t.temperature = s.temperature /\ t.isOn = s.isOn
    BY <1>1, <1>3, <1>4 DEF UiStates
  <1>6. Below(r, s.nextControlId) /\ Complete(r)
    BY <1>1, <1>2, <1>4 DEF Below, Complete
  <1>7. /\ Sound(w) /\ w.controls = r /\ w.learnedCommands = s.learnedCommands
        /\ w.editingControlId = s.editingControlId /\ w.screen = s.screen
    <2>1. CASE s.activeControlId # id
      <3>1. w = t
        BY <1>2, <1>3, <2>1 DEF Without
      <3>2. q # <<>>
        BY <1>1, <1>2, ListType DEF Ids
      <3>3. PICK i \in DOMAIN q : ShownIs(s, q[i])
        BY <1>1, <1>2, <3>2 DEF Shows
      <3>4. PICK n \in DOMAIN r : r[n] = q[i]
        BY <1>4, <2>1, <3>3 DEF ShownIs
      <3>5. r # <<>>
        BY <1>4, <3>4, ListType
      <3>6. ShownIs(t, r[n])
        BY <1>5, <3>3, <3>4 DEF ShownIs
      <3>7. Shows(t)
        BY <1>5, <3>4, <3>5, <3>6 DEF Shows
      <3> QED
        BY <1>4, <1>5, <1>6, <3>1, <3>7 DEF Sound
    <2>2. CASE s.activeControlId = id /\ r # <<>>
      <3>1. w = Selected(t, r[1])
        BY <1>2, <1>3, <2>2 DEF Without
      <3>2. 1 \in DOMAIN r
        BY <1>4, <2>2, ListType
      <3> QED
        BY <1>4, <1>5, <1>6, <3>1, <3>2, SelectedSound
    <2>3. CASE s.activeControlId = id /\ r = <<>>
      <3>1. w = [t EXCEPT !.activeControlId = NoId, !.brand = Blank,
                          !.temperature = DEFAULT_TEMPERATURE, !.isOn = FALSE]
        BY <1>2, <1>3, <2>3 DEF Without
      <3>2. NoId \in 0 .. MaxId
        BY BoundsAssumption DEF NoId
      <3>3. DEFAULT_TEMPERATURE \in MIN_TEMPERATURE .. MAX_TEMPERATURE
        BY TemperatureAssumption
      <3>4. w \in UiStates
        BY <1>5, <3>1, <3>2, <3>3 DEF UiStates
      <3>5. /\ w.controls = r /\ w.learnedCommands = s.learnedCommands
            /\ w.editingControlId = s.editingControlId /\ w.screen = s.screen
            /\ w.nextControlId = s.nextControlId /\ ShownIsNothing(w)
        BY <1>5, <3>1 DEF UiStates, ShownIsNothing
      <3>6. Shows(w)
        BY <2>3, <3>5 DEF Shows
      <3> QED
        BY <1>4, <1>6, <3>4, <3>5, <3>6 DEF Sound
    <2> QED
      BY <2>1, <2>2, <2>3
  <1>8. CASE s.editingControlId = id
    <2>1. u = Left(w)
      BY <1>2, <1>7, <1>8 DEF LeftIf
    <2> QED
      BY <1>7, <2>1, LeftGood
  <1>9. CASE s.editingControlId # id
    <2>1. u = w
      BY <1>2, <1>7, <1>9 DEF LeftIf
    <2>2. Editing(w)
      <3> SUFFICES ASSUME w.editingControlId # NoId
                   PROVE  w.screen = "AddDevice" /\ w.editingControlId \in Ids(r)
        BY <1>7 DEF Editing
      <3>1. s.screen = "AddDevice" /\ s.editingControlId \in Ids(q)
        BY <1>1, <1>2, <1>7 DEF Editing
      <3>2. PICK i \in DOMAIN q : q[i].id = s.editingControlId
        BY <3>1 DEF Ids
      <3>3. PICK n \in DOMAIN r : r[n] = q[i]
        BY <1>4, <1>9, <3>2
      <3> QED
        BY <1>7, <3>1, <3>2, <3>3 DEF Ids
    <2> QED
      BY <1>7, <2>1, <2>2 DEF Good
  <1> QED
    BY <1>8, <1>9

LEMMA EditingGood ==
  ASSUME NEW s, Good(s), NEW id \in Ids(s.controls), NEW c, c = ControlOf(s.controls, id),
         NEW u, u = [s EXCEPT !.screen = "AddDevice", !.deviceBrand = c.brand,
                              !.editingControlId = id, !.learnedCommands = c.irCommands,
                              !.learningCommand = NoCommand, !.learningTimedOutCommand = NoCommand]
  PROVE  Good(u)
  <1>1. s \in UiStates /\ s.controls \in Seq(Controls) /\ Apart(s.controls)
    BY DEF Good, Sound, UiStates
  <1>2. PICK i \in DOMAIN s.controls : s.controls[i].id = id
    BY DEF Ids
  <1>3. c = s.controls[i]
    BY <1>1, <1>2, ControlIs
  <1>4. c \in Controls /\ id \in 1 .. MaxId
    BY <1>1, <1>2, <1>3, ListType
  <1>5. c.brand \in Brands \cup {Blank} /\ c.irCommands \in SUBSET Commands /\ id \in 0 .. MaxId
    BY <1>4, BoundsAssumption DEF Controls
  <1>6. u \in UiStates
    BY <1>1, <1>5 DEF UiStates
  <1>7. Lasting(u) = Lasting(s) /\ u.controls = s.controls /\ u.screen = "AddDevice"
        /\ u.editingControlId = id
    BY <1>1 DEF UiStates, Lasting
  <1>8. Editing(u)
    BY <1>7 DEF Editing
  <1> QED
    BY <1>6, <1>7, <1>8, FormOnly DEF Good

-----------------------------------------------------------------------------
(* Saving and loading.                                                     *)

LEMMA NextFree ==
  ASSUME NEW q \in Seq(Controls), NEW n, n = NextFreeId(q)
  PROVE  /\ n \in 1 .. MaxId + 1 /\ Below(q, n)
         /\ \A m \in Nat \ {0} : Below(q, m) => n <= m
  <1>1. CASE q = <<>>
    <2>1. DOMAIN q = {} /\ n = 1
      BY <1>1, ListType DEF NextFreeId
    <2> QED
      BY <2>1, BoundsAssumption DEF Below
  <1>2. CASE q # <<>>
    <2>1. /\ Ids(q) # {} /\ Ids(q) \in SUBSET Nat /\ \A x \in Ids(q) : x <= MaxId
          /\ \A x \in Ids(q) : x >= 1
      <3>1. \A i \in DOMAIN q : q[i].id \in 1 .. MaxId
        BY ListType
      <3>2. DOMAIN q # {}
        BY <1>2, ListType
      <3> QED
        BY <3>1, <3>2, BoundsAssumption DEF Ids
    <2>2. PICK m : m = Max(Ids(q))
      OBVIOUS
    <2>3. m \in Ids(q) /\ \A x \in Ids(q) : m >= x
      BY <2>1, <2>2, LargestOf, BoundsAssumption
    <2>4. n = m + 1
      BY <1>2, <2>2 DEF NextFreeId
    <2>5. m \in 1 .. MaxId
      BY <2>1, <2>3, BoundsAssumption
    <2>6. \A i \in DOMAIN q : q[i].id \in Ids(q) /\ q[i].id \in Nat
      BY <2>1 DEF Ids
    <2>7. Below(q, n)
      BY <2>3, <2>4, <2>5, <2>6 DEF Below
    <2>8. ASSUME NEW x \in Nat, Below(q, x) PROVE n <= x
      <3>1. PICK i \in DOMAIN q : q[i].id = m
        BY <2>3 DEF Ids
      <3>2. m < x
        BY <2>8, <3>1 DEF Below
      <3> QED
        BY <2>4, <2>5, <2>8, <3>2
    <2> QED
      BY <2>4, <2>5, <2>7, <2>8, BoundsAssumption
  <1> QED
    BY <1>1, <1>2

LEMMA CoercedInRange ==
  ASSUME NEW x \in Int
  PROVE  /\ Coerced(x) \in MIN_TEMPERATURE .. MAX_TEMPERATURE
         /\ x \in MIN_TEMPERATURE .. MAX_TEMPERATURE => Coerced(x) = x
  <1>1. MIN_TEMPERATURE \in Int /\ MAX_TEMPERATURE \in Int /\ MIN_TEMPERATURE <= MAX_TEMPERATURE
    BY TemperatureAssumption
  <1> QED
    BY <1>1 DEF Coerced

RestoredControls(d) == [i \in DOMAIN d.controls |-> Restored(d.controls[i], d)]

\* What is loaded is good when the controls it restores are.
LEMMA LoadGood ==
  ASSUME NEW d, d # NoState,
         NEW q, q = RestoredControls(d),
         q \in Seq(Controls), Apart(q), Complete(q),
         d.nextControlId \in Int, d.nextControlId <= MaxId + 1,
         NEW u, u = Load(d)
  PROVE  /\ Good(u) /\ u.controls = q
         /\ u.nextControlId = Max({d.nextControlId, NextFreeId(q)})
         /\ d.activeControlId \in Ids(q) => u.activeControlId = d.activeControlId
  <1>1. PICK n, f : n = Max({d.nextControlId, f}) /\ f = NextFreeId(q)
    OBVIOUS
  <1>2. f \in 1 .. MaxId + 1 /\ Below(q, f) /\ f \in Int
    <2>1. f \in 1 .. MaxId + 1 /\ Below(q, f)
      BY <1>1, NextFree
    <2> QED
      BY <2>1, BoundsAssumption
  <1>3. n = IF d.nextControlId >= f THEN d.nextControlId ELSE f
    BY <1>1, <1>2, LargerOf
  <1>4. n \in 1 .. MaxId + 1 /\ n >= f /\ n \in Int
    BY <1>2, <1>3, BoundsAssumption
  <1>5. DOMAIN q = 1 .. Len(q) /\ \A i \in DOMAIN q : q[i].id \in 1 .. MaxId
    BY ListType
  <1>6. Below(q, n)
    <2>1. ASSUME NEW i \in DOMAIN q PROVE q[i].id < n
      <3>1. q[i].id < f /\ q[i].id \in 1 .. MaxId
        BY <1>2, <1>5 DEF Below
      <3> QED
        BY <1>2, <1>4, <3>1, BoundsAssumption
    <2> QED
      BY <2>1 DEF Below
  <1> DEFINE E == IF q = <<>> THEN NoId ELSE q[1].id
  <1> HIDE DEF E
  <1>7. PICK a : a = IF d.activeControlId \in Ids(q) THEN d.activeControlId ELSE E
    OBVIOUS
  <1>8. DefaultState \in UiStates
    BY BoundsAssumption, TemperatureAssumption DEF DefaultState, UiStates, NoId
  <1>9. PICK t : t = [DefaultState EXCEPT !.controls = q, !.activeControlId = a, !.nextControlId = n]
    OBVIOUS
  <1>10. u = IF a = NoId THEN t
             ELSE [t EXCEPT !.brand = ControlOf(q, a).brand,
                            !.temperature = ControlOf(q, a).temperature,
                            !.isOn = ControlOf(q, a).isOn]
    BY <1>1, <1>7, <1>9 DEF Load, RestoredControls, E
  <1>11. q # <<>> => a \in Ids(q)
    <2>1. q # <<>> => 1 \in DOMAIN q
      BY ListType
    <2>2. q # <<>> => E \in Ids(q)
      BY <2>1 DEF Ids, E
    <2> QED
      BY <1>7, <2>2
  <1>12. q = <<>> => a = NoId
    <2>1. q = <<>> => Ids(q) = {}
      BY ListType DEF Ids
    <2> QED
      BY <1>7, <2>1 DEF E
  <1>13. \A x \in Ids(q) : x # NoId /\ x \in 0 .. MaxId
    <2>1. \A x \in 1 .. MaxId : x # NoId /\ x \in 0 .. MaxId
      BY BoundsAssumption DEF NoId
    <2> QED
      BY <1>5, <2>1 DEF Ids
  <1>14. a \in 0 .. MaxId
    BY <1>11, <1>12, <1>13, BoundsAssumption DEF NoId
  <1>15. /\ t \in UiStates /\ t.controls = q /\ t.activeControlId = a /\ t.nextControlId = n
         /\ t.editingControlId = NoId /\ t.brand = Blank /\ t.isOn = FALSE
         /\ t.temperature = DEFAULT_TEMPERATURE
    <2>1. t \in UiStates /\ t.controls = q /\ t.activeControlId = a /\ t.nextControlId = n
      BY <1>4, <1>8, <1>9, <1>14 DEF UiStates
    <2>2. /\ t.editingControlId = NoId /\ t.brand = Blank /\ t.isOn = FALSE
          /\ t.temperature = DEFAULT_TEMPERATURE
      BY <1>9 DEF DefaultState
    <2> QED
      BY <2>1, <2>2
  <1>16. Editing(t)
    BY <1>15 DEF Editing
  <1>17. CASE q = <<>>
    <2>1. u = t
      BY <1>10, <1>12, <1>17
    <2>2. Shows(t)
      BY <1>12, <1>15, <1>17 DEF Shows, ShownIsNothing
    <2> QED
      BY <1>1, <1>6, <1>7, <1>15, <1>16, <2>1, <2>2 DEF Good, Sound
  <1>18. CASE q # <<>>
    <2>1. PICK i \in DOMAIN q : q[i].id = a
      BY <1>11, <1>18 DEF Ids
    <2>2. ControlOf(q, a) = q[i]
      BY <2>1, ControlIs
    <2>3. a # NoId
      BY <1>11, <1>13, <1>18
    <2>4. u = [t EXCEPT !.brand = q[i].brand, !.temperature = q[i].temperature, !.isOn = q[i].isOn]
      BY <1>10, <2>2, <2>3
    <2>5. u = Selected(t, q[i])
      BY <1>15, <2>1, <2>4 DEF Selected, UiStates
    <2>6. Good(u) /\ u.controls = q
      BY <1>6, <1>15, <1>16, <2>5, SelectedGood
    <2>7. u.activeControlId = a /\ u.nextControlId = n
      BY <1>15, <2>4 DEF UiStates
    <2> QED
      BY <1>1, <1>7, <2>6, <2>7
  <1> QED
    BY <1>17, <1>18

\* What is saved of a good state brings it back.
LEMMA SavedLoads ==
  ASSUME NEW s, Good(s), NEW u, u = Load(Saved(s))
  PROVE  Good(u) /\ Lasting(u) = Lasting(s)
  <1>1. /\ s \in UiStates /\ s.controls \in Seq(Controls)
        /\ Apart(s.controls) /\ Below(s.controls, s.nextControlId) /\ Complete(s.controls)
        /\ Shows(s) /\ s.nextControlId \in 1 .. MaxId + 1 /\ s.activeControlId \in 0 .. MaxId
    BY DEF Good, Sound, UiStates
  <1>2. PICK d, q : d = Saved(s) /\ q = s.controls
    OBVIOUS
  <1>3. /\ DOMAIN d = {"controls", "activeControlId", "nextControlId", "temperature", "isOn"}
        /\ d.controls = q /\ d.activeControlId = s.activeControlId
        /\ d.nextControlId = s.nextControlId
    BY <1>2 DEF Saved
  <1>4. d # NoState
    <2>1. "isOn" \notin DOMAIN NoState
      BY DEF NoState
    <2> QED
      BY <1>3, <2>1
  <1>5. ASSUME NEW c \in Controls PROVE Restored(c, d) = c
    <2>1. "temperature" \in DOMAIN c /\ c.temperature \in MIN_TEMPERATURE .. MAX_TEMPERATURE
      BY DEF Controls
    <2>2. Coerced(c.temperature) = c.temperature
      BY <2>1, CoercedInRange, TemperatureAssumption
    <2>3. Restored(c, d) = [c EXCEPT !.temperature = Coerced(c.temperature)]
      BY <2>1 DEF Restored
    <2>4. [c EXCEPT !.temperature = c.temperature] = c
      BY DEF Controls
    <2> QED
      BY <2>2, <2>3, <2>4
  <1>6. q = RestoredControls(d)
    <2>1. q \in Seq(Controls)
      BY <1>1, <1>2
    <2>2. q \in [1 .. Len(q) -> Controls] /\ DOMAIN q = 1 .. Len(q)
      BY <2>1, ListType
    <2>3. q = [i \in DOMAIN q |-> q[i]]
      BY <2>2
    <2>4. \A i \in DOMAIN q : Restored(q[i], d) = q[i]
      BY <1>5, <2>2
    <2>5. [i \in DOMAIN q |-> q[i]] = [i \in DOMAIN q |-> Restored(q[i], d)]
      BY <2>4
    <2> QED
      BY <1>3, <2>3, <2>5 DEF RestoredControls
  <1>7. /\ Good(u) /\ u.controls = q
        /\ u.nextControlId = Max({s.nextControlId, NextFreeId(q)})
        /\ s.activeControlId \in Ids(q) => u.activeControlId = s.activeControlId
    <2>1. q \in Seq(Controls) /\ Apart(q) /\ Complete(q)
      BY <1>1, <1>2
    <2>2. d.nextControlId \in Int /\ d.nextControlId <= MaxId + 1
      BY <1>1, <1>3, BoundsAssumption
    <2>3. u = Load(d)
      BY <1>2
    <2>4. /\ Good(u) /\ u.controls = q
          /\ u.nextControlId = Max({d.nextControlId, NextFreeId(q)})
          /\ d.activeControlId \in Ids(q) => u.activeControlId = d.activeControlId
      BY <1>4, <1>6, <2>1, <2>2, <2>3, LoadGood
    <2> QED
      BY <1>3, <2>4
  <1>8. u.nextControlId = s.nextControlId
    <2>1. PICK f : f = NextFreeId(q)
      OBVIOUS
    <2>2. s.nextControlId \in Nat \ {0} /\ s.nextControlId \in Int
      BY <1>1, BoundsAssumption
    <2>3. f \in 1 .. MaxId + 1 /\ f <= s.nextControlId
      BY <1>1, <1>2, <2>1, <2>2, NextFree
    <2>4. f \in Int
      BY <2>3, BoundsAssumption
    <2>5. Max({s.nextControlId, f}) = IF s.nextControlId >= f THEN s.nextControlId ELSE f
      BY <2>2, <2>4, LargerOf
    <2> QED
      BY <1>7, <2>1, <2>2, <2>3, <2>4, <2>5
  <1>9. Shows(u)
    BY <1>7 DEF Good, Sound
  <1>10. CASE q = <<>>
    <2>1. ShownIsNothing(s) /\ ShownIsNothing(u)
      BY <1>1, <1>2, <1>7, <1>9, <1>10 DEF Shows
    <2> QED
      BY <1>2, <1>7, <1>8, <2>1 DEF Lasting, ShownIsNothing
  <1>11. CASE q # <<>>
    <2>1. PICK i \in DOMAIN q : ShownIs(s, q[i])
      BY <1>1, <1>2, <1>11 DEF Shows
    <2>2. PICK j \in DOMAIN q : ShownIs(u, q[j])
      BY <1>7, <1>9, <1>11 DEF Shows
    <2>3. s.activeControlId \in Ids(q)
      BY <2>1 DEF ShownIs, Ids
    <2>4. q[i].id = q[j].id
      BY <1>7, <2>1, <2>2, <2>3 DEF ShownIs
    <2>5. i = j
      BY <1>1, <1>2, <2>4 DEF Apart
    <2> QED
      BY <1>2, <1>7, <1>8, <2>1, <2>2, <2>5 DEF Lasting, ShownIs
  <1> QED
    BY <1>7, <1>10, <1>11

LEMMA LegacyLoads ==
  ASSUME NEW d \in Legacy, NEW u, u = Load(d)
  PROVE  Good(u) /\ d # NoState
  <1> DEFINE Older == [id : 1 .. MaxId, brand : Brands \cup {Blank}, irCommands : {Commands}]
  <1>1. /\ DOMAIN d = {"controls", "activeControlId", "nextControlId", "temperature", "isOn"}
        /\ d.controls \in Seq(Older)
        /\ \A i, j \in DOMAIN d.controls : d.controls[i].id = d.controls[j].id => i = j
        /\ d.activeControlId \in Int /\ d.temperature \in Int /\ d.isOn \in BOOLEAN
        /\ d.nextControlId \in Int /\ d.nextControlId <= MaxId + 1
    BY LegacyAssumption
  <1>2. d # NoState
    <2>1. "isOn" \notin DOMAIN NoState
      BY DEF NoState
    <2> QED
      BY <1>1, <2>1
  <1>3. ASSUME NEW c \in Older
        PROVE  /\ Restored(c, d) \in Controls /\ Restored(c, d).id = c.id
               /\ Restored(c, d).irCommands = Commands
    <2>1. "temperature" \notin DOMAIN c
      OBVIOUS
    <2>2. PICK x, y : /\ x = (IF c.id = d.activeControlId THEN d.temperature ELSE DEFAULT_TEMPERATURE)
                      /\ y = (c.id = d.activeControlId => d.isOn)
      OBVIOUS
    <2>3. Restored(c, d) = [id |-> c.id, brand |-> c.brand, irCommands |-> c.irCommands,
                            temperature |-> Coerced(x), isOn |-> y]
      BY <2>1, <2>2 DEF Restored
    <2>4. x \in Int
      BY <1>1, <2>2, TemperatureAssumption
    <2>5. Coerced(x) \in MIN_TEMPERATURE .. MAX_TEMPERATURE
      BY <2>4, CoercedInRange
    <2>6. y \in BOOLEAN
      BY <2>2
    <2>7. /\ c.id \in 1 .. MaxId /\ c.brand \in Brands \cup {Blank} /\ c.irCommands = Commands
      OBVIOUS
    <2> QED
      BY <2>3, <2>5, <2>6, <2>7 DEF Controls
  <1>4. PICK q : q = RestoredControls(d)
    OBVIOUS
  <1> HIDE DEF Older
  <1>5. PICK l : l = Len(d.controls)
    OBVIOUS
  <1>6. l \in Nat /\ DOMAIN d.controls = 1 .. l /\ \A i \in 1 .. l : d.controls[i] \in Older
    <2>1. PICK o : o = d.controls
      OBVIOUS
    <2>2. o \in Seq(Older)
      BY <1>1, <2>1
    <2>3. Len(o) \in Nat /\ DOMAIN o = 1 .. Len(o) /\ \A i \in 1 .. Len(o) : o[i] \in Older
      BY <2>2
    <2> QED
      BY <1>5, <2>1, <2>3
  <1>7. \A i \in 1 .. l : /\ q[i] \in Controls /\ q[i].id = d.controls[i].id
                          /\ q[i].irCommands = Commands
    BY <1>3, <1>4, <1>6 DEF RestoredControls
  <1>8. DOMAIN q = 1 .. l /\ q \in Seq(Controls)
    <2>1. q \in [1 .. l -> Controls]
      BY <1>4, <1>6, <1>7 DEF RestoredControls
    <2> QED
      BY <1>6, <2>1
  <1>9. Apart(q) /\ Complete(q)
    BY <1>1, <1>6, <1>7, <1>8 DEF Apart, Complete
  <1> QED
    BY <1>1, <1>2, <1>4, <1>8, <1>9, LoadGood

LEMMA NothingLoads ==
  ASSUME NEW u, u = Load(NoState)
  PROVE  Good(u)
  <1>1. u = DefaultState
    BY DEF Load
  <1>2. u \in UiStates
    BY <1>1, BoundsAssumption, TemperatureAssumption DEF DefaultState, UiStates, NoId
  <1>3. /\ u.controls = <<>> /\ u.editingControlId = NoId /\ ShownIsNothing(u)
    BY <1>1 DEF DefaultState, ShownIsNothing
  <1> QED
    BY <1>2, <1>3 DEF Good, Sound, Apart, Below, Complete, Shows, Editing

-----------------------------------------------------------------------------
(* The screens.                                                            *)

\* Saving is offered when all commands are there, the power when a control is.
LEMMA OfferedReady ==
  ASSUME NEW s, NEW open, NEW asked
  PROVE  /\ Tap("save", 0) \in Offered(s, open, asked) => Commands \subseteq s.learnedCommands
         /\ Tap("power", 0) \in Offered(s, open, asked) => s.controls # <<>>
  <1> DEFINE Save == Tap("save", 0)
             Power == Tap("power", 0)
  <1>1. \A op, arg : Tap(op, arg).op = op
    BY DEF Tap
  <1>2. \A op, arg, b : Tap(op, arg) = Tap("save", b) => op = "save"
    BY <1>1
  <1>3. \A op, arg, b : Tap(op, arg) = Tap("power", b) => op = "power"
    BY <1>1
  <1>4. Save \notin {Tap("delete", asked), Tap("dismiss", 0)}
        /\ Power \notin {Tap("delete", asked), Tap("dismiss", 0)}
    BY <1>2, <1>3
  <1>5. Save \notin DrawerTaps(s) /\ Power \notin DrawerTaps(s)
    <2>1. \A op \in {"select", "edit", "askDelete"} : op # "save" /\ op # "power"
      OBVIOUS
    <2> QED
      BY <1>2, <1>3, <2>1 DEF DrawerTaps
  <1>6. Save \notin RemoteTaps /\ Save # Tap("openDrawer", 0) /\ Save # Tap("add", 0)
    BY <1>2 DEF RemoteTaps
  <1>7. Power # Tap("openDrawer", 0) /\ Power # Tap("add", 0)
    BY <1>3
  <1>8. \A c : CardTap(s, c) # Save /\ CardTap(s, c) # Power
    BY <1>2, <1>3 DEF CardTap
  <1>9. Power # Save
    BY <1>2
  <1>10. Save # Tap("close", 0) /\ Power # Tap("close", 0)
    BY <1>2, <1>3
  <1>11. \A b : Save # Tap("brand", b) /\ Power # Tap("brand", b)
    BY <1>2, <1>3
  <1> HIDE DEF Save, Power
  <1>12. Power \notin FormTaps(s)
    BY <1>8, <1>9, <1>10, <1>11 DEF FormTaps, Save
  <1>13. Save \in FormTaps(s) => CanSave(s)
    BY <1>8, <1>10, <1>11 DEF FormTaps, Save
  <1>14. Save \in Offered(s, open, asked) => Save \in FormTaps(s)
    BY <1>4, <1>5, <1>6 DEF Offered
  <1>15. Power \in Offered(s, open, asked) => s.controls # <<>>
    BY <1>4, <1>5, <1>7, <1>12 DEF Offered
  <1> QED
    BY <1>13, <1>14, <1>15 DEF CanSave, Save, Power

-----------------------------------------------------------------------------
(* Every step keeps the invariant.                                         *)

LEMMA Starts == Init => RemoteInv
  <1> SUFFICES ASSUME Init PROVE RemoteInv
    OBVIOUS
  <1>1. Good(ui) /\ Good(Load(disk))
    BY LegacyLoads, NothingLoads DEF Init
  <1>2. RestartForgetsNothing
    BY DEF Init, RestartForgetsNothing
  <1>3. TapsReady
    BY OfferedReady DEF Init, TapsReady
  <1>4. OneTimeout
    BY DEF Init, OneTimeout
  <1>5. ViewTypes
    <2>1. 0 \in 0 .. MaxId /\ 0 \in 0 .. MaxStale /\ 0 \in 0 .. MaxUnsaved + 1
      BY BoundsAssumption
    <2>2. pendingDelete = 0 /\ drawer = FALSE /\ stale = 0 /\ unsaved = 0 /\ jobs = {}
      BY DEF Init, NoId
    <2> QED
      BY <2>1, <2>2 DEF ViewTypes
  <1> QED
    BY <1>1, <1>2, <1>3, <1>4, <1>5 DEF RemoteInv

\* A tap updates the state and leaves the timeouts or cancels the one there is.
LEMMA TapStep ==
  ASSUME RemoteInv, NEW op, NEW arg, Tapped(op, arg),
         NEW s, Good(s), Update(s),
         op = "save" => Commands \subseteq s.learnedCommands,
         op = "power" => s.controls # <<>>,
         KeepJob \/ CancelJob,
         pendingDelete' \in 0 .. MaxId, drawer' \in BOOLEAN
  PROVE  RemoteInv'
  <1>1. unsaved \in Nat /\ unsaved < MaxUnsaved /\ unsaved' = unsaved + 1
    BY BoundsAssumption DEF RemoteInv, ViewTypes, Tapped, Update
  <1>2. stale' \in 0 .. MaxStale
    BY BoundsAssumption DEF RemoteInv, ViewTypes, Tapped
  <1>3. Good(ui)' /\ Good(Load(disk))'
    <2>1. ui' = s /\ disk' = disk
      BY DEF Update
    <2> QED
      BY <2>1 DEF RemoteInv
  <1>4. RestartForgetsNothing'
    BY <1>1 DEF RestartForgetsNothing
  <1>5. TapsReady'
    <2>1. offered' = {Tap(op, arg)} /\ ui' = s
      BY DEF Tapped, Update
    <2>2. Tap("save", 0) \in offered' => op = "save"
      BY <2>1 DEF Tap
    <2>3. Tap("power", 0) \in offered' => op = "power"
      BY <2>1 DEF Tap
    <2> QED
      BY <2>1, <2>2, <2>3 DEF TapsReady
  <1>6. OneTimeout'
    BY DEF RemoteInv, OneTimeout, KeepJob, CancelJob, NotCancelled
  <1>7. ViewTypes'
    BY <1>1, <1>2, BoundsAssumption DEF ViewTypes
  <1> QED
    BY <1>3, <1>4, <1>5, <1>6, <1>7 DEF RemoteInv

\* A tap that leaves the state of the view model.
LEMMA ViewStep ==
  ASSUME RemoteInv, NEW op, NEW arg, Tapped(op, arg), op # "save", op # "power",
         UNCHANGED <<ui, disk, unsaved>>, KeepJob,
         pendingDelete' \in 0 .. MaxId, drawer' \in BOOLEAN
  PROVE  RemoteInv'
  <1>1. stale' \in 0 .. MaxStale
    BY BoundsAssumption DEF RemoteInv, ViewTypes, Tapped
  <1>2. Good(ui)' /\ Good(Load(disk))' /\ RestartForgetsNothing'
    BY DEF RemoteInv, RestartForgetsNothing, Lasting
  <1>3. TapsReady'
    <2>1. Tap("save", 0) \notin offered' /\ Tap("power", 0) \notin offered'
      BY DEF Tapped, Tap
    <2> QED
      BY <2>1 DEF TapsReady
  <1>4. OneTimeout'
    BY DEF RemoteInv, OneTimeout, KeepJob
  <1>5. ViewTypes'
    BY <1>1 DEF RemoteInv, ViewTypes, KeepJob
  <1> QED
    BY <1>2, <1>3, <1>4, <1>5 DEF RemoteInv

LEMMA ViewKept ==
  ASSUME RemoteInv, KeepView
  PROVE  pendingDelete' \in 0 .. MaxId /\ drawer' \in BOOLEAN
  BY DEF RemoteInv, ViewTypes, KeepView

LEMMA PendingKept ==
  ASSUME RemoteInv, UNCHANGED pendingDelete
  PROVE  pendingDelete' \in 0 .. MaxId
  BY DEF RemoteInv, ViewTypes

\* The controls that are there when the power is on.
LEMMA PoweredControls ==
  ASSUME NEW s, Good(s)
  PROVE  /\ s.isOn => s.controls # <<>>
         /\ s.temperature \in MIN_TEMPERATURE .. MAX_TEMPERATURE /\ s.isOn \in BOOLEAN
  <1>1. s.temperature \in MIN_TEMPERATURE .. MAX_TEMPERATURE /\ s.isOn \in BOOLEAN
    BY DEF Good, Sound, UiStates
  <1>2. s.controls = <<>> => s.isOn = FALSE
    BY DEF Good, Sound, Shows, ShownIsNothing
  <1> QED
    BY <1>1, <1>2

LEMMA IncreaseStep == ASSUME RemoteInv, Increase PROVE RemoteInv'
  <1>1. Good(ui)
    BY DEF RemoteInv
  <1>2. PICK x, s : /\ x = ui.temperature + 1
                    /\ s = IF ui.isOn /\ ui.temperature < MAX_TEMPERATURE
                             THEN SetTemperature(ui, x) ELSE ui
    OBVIOUS
  <1>3. Good(s)
    <2>1. CASE ui.isOn /\ ui.temperature < MAX_TEMPERATURE
      <3>1. ui.controls # <<>>
        BY <1>1, <2>1, PoweredControls
      <3>2. ui.temperature \in MIN_TEMPERATURE .. MAX_TEMPERATURE
        BY <1>1, PoweredControls
      <3>3. x \in MIN_TEMPERATURE .. MAX_TEMPERATURE
        BY <1>2, <2>1, <3>2, TemperatureAssumption
      <3>4. s = SetTemperature(ui, x)
        BY <1>2, <2>1
      <3> QED
        BY <1>1, <3>1, <3>3, <3>4, SetTemperatureGood
    <2>2. CASE ~(ui.isOn /\ ui.temperature < MAX_TEMPERATURE)
      BY <1>1, <1>2, <2>2
    <2> QED
      BY <2>1, <2>2
  <1>4. Tapped("increase", 0) /\ Update(s) /\ KeepJob /\ KeepView
    BY <1>2 DEF Increase
  <1>5. pendingDelete' \in 0 .. MaxId /\ drawer' \in BOOLEAN
    BY <1>4, ViewKept
  <1>6. "increase" # "save" /\ "increase" # "power"
    OBVIOUS
  <1> QED
    BY <1>3, <1>4, <1>5, <1>6, TapStep

LEMMA DecreaseStep == ASSUME RemoteInv, Decrease PROVE RemoteInv'
  <1>1. Good(ui)
    BY DEF RemoteInv
  <1>2. PICK x, s : /\ x = ui.temperature - 1
                    /\ s = IF ui.isOn /\ ui.temperature > MIN_TEMPERATURE
                             THEN SetTemperature(ui, x) ELSE ui
    OBVIOUS
  <1>3. Good(s)
    <2>1. CASE ui.isOn /\ ui.temperature > MIN_TEMPERATURE
      <3>1. ui.controls # <<>>
        BY <1>1, <2>1, PoweredControls
      <3>2. ui.temperature \in MIN_TEMPERATURE .. MAX_TEMPERATURE
        BY <1>1, PoweredControls
      <3>3. x \in MIN_TEMPERATURE .. MAX_TEMPERATURE
        BY <1>2, <2>1, <3>2, TemperatureAssumption
      <3>4. s = SetTemperature(ui, x)
        BY <1>2, <2>1
      <3> QED
        BY <1>1, <3>1, <3>3, <3>4, SetTemperatureGood
    <2>2. CASE ~(ui.isOn /\ ui.temperature > MIN_TEMPERATURE)
      BY <1>1, <1>2, <2>2
    <2> QED
      BY <2>1, <2>2
  <1>4. Tapped("decrease", 0) /\ Update(s) /\ KeepJob /\ KeepView
    BY <1>2 DEF Decrease
  <1>5. pendingDelete' \in 0 .. MaxId /\ drawer' \in BOOLEAN
    BY <1>4, ViewKept
  <1>6. "decrease" # "save" /\ "decrease" # "power"
    OBVIOUS
  <1> QED
    BY <1>3, <1>4, <1>5, <1>6, TapStep

LEMMA TogglePowerStep == ASSUME RemoteInv, TogglePower PROVE RemoteInv'
  <1>1. Good(ui)
    BY DEF RemoteInv
  <1>2. PICK x, s : x = ~ui.isOn /\ s = SetPower(ui, x)
    OBVIOUS
  <1>3. Tapped("power", 0) /\ Update(s) /\ KeepJob /\ KeepView
    BY <1>2 DEF TogglePower
  <1>4. ui.controls # <<>>
    BY <1>3 DEF RemoteInv, TapsReady, Tapped
  <1>5. x \in BOOLEAN
    BY <1>2
  <1>6. Good(s) /\ s.controls # <<>>
    BY <1>1, <1>2, <1>4, <1>5, SetPowerGood
  <1>7. pendingDelete' \in 0 .. MaxId /\ drawer' \in BOOLEAN
    BY <1>3, ViewKept
  <1>8. "power" # "save"
    OBVIOUS
  <1> QED
    BY <1>3, <1>6, <1>7, <1>8, TapStep

LEMMA OpenAddDeviceStep == ASSUME RemoteInv, OpenAddDevice PROVE RemoteInv'
  <1>1. Good(ui) /\ ui \in UiStates
    BY DEF RemoteInv, Good, Sound
  <1>2. PICK s : s = [ui EXCEPT !.screen = "AddDevice", !.deviceBrand = Blank,
                                !.editingControlId = NoId, !.learningCommand = NoCommand,
                                !.learningTimedOutCommand = NoCommand, !.learnedCommands = {}]
    OBVIOUS
  <1>3. s \in UiStates
    <2>1. NoId \in 0 .. MaxId
      BY BoundsAssumption DEF NoId
    <2> QED
      BY <1>1, <1>2, <2>1 DEF UiStates
  <1>4. Lasting(s) = Lasting(ui) /\ s.editingControlId = NoId
    BY <1>1, <1>2 DEF UiStates, Lasting
  <1>5. Good(s)
    BY <1>1, <1>3, <1>4, FormOnly DEF Good, Editing
  <1>6. Tapped("add", 0) /\ Update(s) /\ CancelJob /\ drawer' \in BOOLEAN
    BY <1>2 DEF OpenAddDevice
  <1>7. pendingDelete' \in 0 .. MaxId
    BY PendingKept DEF OpenAddDevice
  <1>8. "add" # "save" /\ "add" # "power"
    OBVIOUS
  <1> QED
    BY <1>5, <1>6, <1>7, <1>8, TapStep

LEMMA CloseAddDeviceStep == ASSUME RemoteInv, CloseAddDevice PROVE RemoteInv'
  <1>1. PICK s : s = Left(ui)
    OBVIOUS
  <1>2. Good(s)
    BY <1>1, LeftGood DEF RemoteInv, Good
  <1>3. Tapped("close", 0) /\ Update(s) /\ CancelJob /\ KeepView
    BY <1>1 DEF CloseAddDevice
  <1>4. pendingDelete' \in 0 .. MaxId /\ drawer' \in BOOLEAN
    BY <1>3, ViewKept
  <1>5. "close" # "save" /\ "close" # "power"
    OBVIOUS
  <1> QED
    BY <1>2, <1>3, <1>4, <1>5, TapStep

LEMMA UpdateDeviceBrandStep ==
  ASSUME RemoteInv, NEW b \in Brands \cup {Blank}, UpdateDeviceBrand(b) PROVE RemoteInv'
  <1>1. Good(ui) /\ ui \in UiStates
    BY DEF RemoteInv, Good, Sound
  <1>2. PICK s : s = [ui EXCEPT !.deviceBrand = b]
    OBVIOUS
  <1>3. s \in UiStates
    BY <1>1, <1>2 DEF UiStates
  <1>4. /\ Lasting(s) = Lasting(ui) /\ s.editingControlId = ui.editingControlId
        /\ s.screen = ui.screen /\ s.controls = ui.controls
    BY <1>1, <1>2 DEF UiStates, Lasting
  <1>5. Good(s)
    BY <1>1, <1>3, <1>4, FormOnly DEF Good, Editing
  <1>6. Tapped("brand", b) /\ Update(s) /\ KeepJob /\ KeepView
    BY <1>2 DEF UpdateDeviceBrand
  <1>7. pendingDelete' \in 0 .. MaxId /\ drawer' \in BOOLEAN
    BY <1>6, ViewKept
  <1>8. "brand" # "save" /\ "brand" # "power"
    OBVIOUS
  <1> QED
    BY <1>5, <1>6, <1>7, <1>8, TapStep

LEMMA SelectControlStep ==
  ASSUME RemoteInv, NEW id \in AllIds, SelectControl(id) PROVE RemoteInv'
  <1>1. /\ Good(ui) /\ ui \in UiStates /\ ui.controls \in Seq(Controls) /\ Apart(ui.controls)
        /\ Below(ui.controls, ui.nextControlId) /\ Complete(ui.controls) /\ Editing(ui)
    BY DEF RemoteInv, Good, Sound, UiStates
  <1>2. PICK c, s : /\ c = ControlOf(ui.controls, id)
                    /\ s = IF id \in Ids(ui.controls) THEN Selected(ui, c) ELSE ui
    OBVIOUS
  <1>3. Good(s)
    <2>1. CASE id \in Ids(ui.controls)
      <3>1. PICK i \in DOMAIN ui.controls : ui.controls[i].id = id
        BY <2>1 DEF Ids
      <3>2. c = ui.controls[i]
        BY <1>1, <1>2, <3>1, ControlIs
      <3>3. s = Selected(ui, ui.controls[i])
        BY <1>2, <2>1, <3>2
      <3> QED
        BY <1>1, <3>3, SelectedGood
    <2>2. CASE id \notin Ids(ui.controls)
      BY <1>1, <1>2, <2>2
    <2> QED
      BY <2>1, <2>2
  <1>4. Tapped("select", id) /\ Update(s) /\ KeepJob /\ drawer' \in BOOLEAN
    BY <1>2 DEF SelectControl
  <1>5. pendingDelete' \in 0 .. MaxId
    BY PendingKept DEF SelectControl
  <1>6. "select" # "save" /\ "select" # "power"
    OBVIOUS
  <1> QED
    BY <1>3, <1>4, <1>5, <1>6, TapStep

LEMMA EditControlStep ==
  ASSUME RemoteInv, NEW id \in AllIds, EditControl(id) PROVE RemoteInv'
  <1>1. Good(ui)
    BY DEF RemoteInv
  <1>2. PICK c, e : /\ c = ControlOf(ui.controls, id)
                    /\ e = [ui EXCEPT !.screen = "AddDevice", !.deviceBrand = c.brand,
                              !.editingControlId = id, !.learnedCommands = c.irCommands,
                              !.learningCommand = NoCommand, !.learningTimedOutCommand = NoCommand]
    OBVIOUS
  <1>3. PICK s : s = IF id \in Ids(ui.controls) THEN e ELSE ui
    OBVIOUS
  <1>4. Good(s)
    <2>1. CASE id \in Ids(ui.controls)
      <3>1. Good(e)
        BY <1>1, <1>2, <2>1, EditingGood
      <3> QED
        BY <1>3, <2>1, <3>1
    <2>2. CASE id \notin Ids(ui.controls)
      BY <1>1, <1>3, <2>2
    <2> QED
      BY <2>1, <2>2
  <1>5. Tapped("edit", id) /\ Update(s) /\ CancelJob /\ drawer' \in BOOLEAN
    BY <1>2, <1>3 DEF EditControl
  <1>6. pendingDelete' \in 0 .. MaxId
    BY PendingKept DEF EditControl
  <1>7. "edit" # "save" /\ "edit" # "power"
    OBVIOUS
  <1> QED
    BY <1>4, <1>5, <1>6, <1>7, TapStep

LEMMA DeleteControlStep ==
  ASSUME RemoteInv, NEW id \in AllIds, DeleteControl(id) PROVE RemoteInv'
  <1>1. Good(ui)
    BY DEF RemoteInv
  <1>2. Tapped("delete", id) /\ KeepJob /\ UNCHANGED drawer
    BY DEF DeleteControl
  <1>3. pendingDelete' \in 0 .. MaxId /\ drawer' \in BOOLEAN
    <2>1. pendingDelete' = 0
      BY DEF DeleteControl, NoId
    <2> QED
      BY <1>2, <2>1, BoundsAssumption DEF RemoteInv, ViewTypes
  <1>4. "delete" # "save" /\ "delete" # "power"
    OBVIOUS
  <1>5. CASE id \in Ids(ui.controls)
    <2>1. PICK s : s = LeftIf(Without(ui, id), id)
      OBVIOUS
    <2>2. Good(s)
      BY <1>1, <1>5, <2>1, DeletedGood
    <2>3. Update(s)
      BY <1>5, <2>1 DEF DeleteControl
    <2> QED
      BY <1>2, <1>3, <1>4, <2>2, <2>3, TapStep
  <1>6. CASE id \notin Ids(ui.controls)
    <2>1. UNCHANGED <<ui, disk, unsaved>>
      BY <1>6 DEF DeleteControl
    <2> QED
      BY <1>2, <1>3, <1>4, <2>1, ViewStep
  <1> QED
    BY <1>5, <1>6

LEMMA ConfirmIrCommandLearnedStep ==
  ASSUME RemoteInv, NEW c \in Commands, ConfirmIrCommandLearned(c) PROVE RemoteInv'
  <1>1. Good(ui) /\ ui \in UiStates
    BY DEF RemoteInv, Good, Sound
  <1>2. PICK s : s = [ui EXCEPT !.learningCommand = NoCommand, !.learningTimedOutCommand = NoCommand,
                                !.learnedCommands = ui.learnedCommands \cup {c}]
    OBVIOUS
  <1>3. s \in UiStates
    <2>1. ui.learnedCommands \cup {c} \in SUBSET Commands
      BY <1>1 DEF UiStates
    <2> QED
      BY <1>1, <1>2, <2>1 DEF UiStates
  <1>4. /\ Lasting(s) = Lasting(ui) /\ s.editingControlId = ui.editingControlId
        /\ s.screen = ui.screen /\ s.controls = ui.controls
    BY <1>1, <1>2 DEF UiStates, Lasting
  <1>5. Good(s)
    BY <1>1, <1>3, <1>4, FormOnly DEF Good, Editing
  <1>6. Tapped("confirm", c) /\ CancelJob /\ KeepView
    BY DEF ConfirmIrCommandLearned
  <1>7. Update(s)
    BY <1>1, <1>2 DEF ConfirmIrCommandLearned, UiStates
  <1>8. pendingDelete' \in 0 .. MaxId /\ drawer' \in BOOLEAN
    BY <1>6, ViewKept
  <1>9. "confirm" # "save" /\ "confirm" # "power"
    OBVIOUS
  <1> QED
    BY <1>5, <1>6, <1>7, <1>8, <1>9, TapStep

LEMMA SaveDeviceStep == ASSUME RemoteInv, SaveDevice PROVE RemoteInv'
  <1>1. Good(ui)
    BY DEF RemoteInv
  <1>2. Tapped("save", 0) /\ CancelJob /\ KeepView
    BY DEF SaveDevice
  <1>3. Commands \subseteq ui.learnedCommands
    BY <1>2 DEF RemoteInv, TapsReady, Tapped
  <1>4. pendingDelete' \in 0 .. MaxId /\ drawer' \in BOOLEAN
    BY <1>2, ViewKept
  <1>5. "save" # "power"
    OBVIOUS
  <1>6. CASE ui.editingControlId \in Ids(ui.controls)
    <2>1. PICK s : s = Edited(ui)
      OBVIOUS
    <2>2. Good(s) /\ s.learnedCommands = ui.learnedCommands
      BY <1>1, <1>3, <1>6, <2>1, EditedGood
    <2>3. Update(s)
      BY <1>6, <2>1 DEF SaveDevice
    <2> QED
      BY <1>2, <1>3, <1>4, <1>5, <2>2, <2>3, TapStep
  <1>7. CASE ui.editingControlId \notin Ids(ui.controls)
    <2>1. PICK s : s = Registered(ui)
      OBVIOUS
    <2>2. Update(s) /\ ui.nextControlId <= MaxId
      BY <1>7, <2>1 DEF SaveDevice
    <2>3. Good(s) /\ s.learnedCommands = ui.learnedCommands
      BY <1>1, <1>3, <2>1, <2>2, RegisteredGood
    <2> QED
      BY <1>2, <1>3, <1>4, <1>5, <2>2, <2>3, TapStep
  <1> QED
    BY <1>6, <1>7

\* The new timeout is the only one: the old one has run or is cancelled.
LEMMA StartLearningStep ==
  ASSUME RemoteInv, NEW c \in Commands, StartLearning(c) PROVE RemoteInv'
  <1>1. Good(ui) /\ ui \in UiStates
    BY DEF RemoteInv, Good, Sound
  <1>2. PICK s, job : /\ s = [ui EXCEPT !.learningCommand = c, !.learningTimedOutCommand = NoCommand]
                      /\ job = [command |-> c, attempt |-> 1 - learningTimeoutJob.attempt]
    OBVIOUS
  <1>3. s \in UiStates
    BY <1>1, <1>2 DEF UiStates
  <1>4. /\ Lasting(s) = Lasting(ui) /\ s.editingControlId = ui.editingControlId
        /\ s.screen = ui.screen /\ s.controls = ui.controls
    BY <1>1, <1>2 DEF UiStates, Lasting
  <1>5. Good(s)
    BY <1>1, <1>3, <1>4, FormOnly DEF Good, Editing
  <1>6. /\ Tapped("learn", c) /\ Update(s) /\ KeepView
        /\ jobs' = NotCancelled \cup {job} /\ learningTimeoutJob' = job
    BY <1>2 DEF StartLearning
  <1>7. job \in Jobs
    <2>1. learningTimeoutJob.attempt \in {0, 1}
      BY DEF RemoteInv, OneTimeout, Jobs, NoJob
    <2>2. 1 - learningTimeoutJob.attempt \in {0, 1}
      BY <2>1
    <2> QED
      BY <1>2, <2>2 DEF Jobs
  <1>8. NotCancelled = {}
    BY DEF RemoteInv, OneTimeout, NotCancelled
  <1>9. unsaved \in Nat /\ unsaved < MaxUnsaved /\ unsaved' = unsaved + 1
    BY <1>6, BoundsAssumption DEF RemoteInv, ViewTypes, Tapped, Update
  <1>10. stale' \in 0 .. MaxStale
    BY <1>6, BoundsAssumption DEF RemoteInv, ViewTypes, Tapped
  <1>11. Good(ui)' /\ Good(Load(disk))'
    <2>1. ui' = s /\ disk' = disk
      BY <1>6 DEF Update
    <2> QED
      BY <1>5, <2>1 DEF RemoteInv
  <1>12. RestartForgetsNothing'
    BY <1>9 DEF RestartForgetsNothing
  <1>13. TapsReady'
    <2>1. Tap("save", 0) \notin offered' /\ Tap("power", 0) \notin offered'
      BY <1>6 DEF Tapped, Tap
    <2> QED
      BY <2>1 DEF TapsReady
  <1>14. OneTimeout'
    BY <1>6, <1>7, <1>8 DEF OneTimeout
  <1>15. ViewTypes'
    <2>1. pendingDelete' \in 0 .. MaxId /\ drawer' \in BOOLEAN
      BY <1>6, ViewKept
    <2>2. unsaved' \in 0 .. MaxUnsaved + 1 /\ unsaved' <= MaxUnsaved
      BY <1>9, BoundsAssumption
    <2> QED
      BY <1>10, <2>1, <2>2 DEF ViewTypes
  <1> QED
    BY <1>11, <1>12, <1>13, <1>14, <1>15 DEF RemoteInv

LEMMA TimeoutStep ==
  ASSUME RemoteInv, NEW job \in Jobs, Timeout(job) PROVE RemoteInv'
  <1>1. Good(ui) /\ ui \in UiStates
    BY DEF RemoteInv, Good, Sound
  <1>2. PICK e, s : /\ e = [ui EXCEPT !.learningCommand = NoCommand,
                                      !.learningTimedOutCommand = job.command]
                    /\ s = IF ui.learningCommand = job.command THEN e ELSE ui
    OBVIOUS
  <1>3. e \in UiStates
    <2>1. job.command \in Commands
      BY DEF Jobs
    <2> QED
      BY <1>1, <1>2, <2>1 DEF UiStates
  <1>4. /\ Lasting(e) = Lasting(ui) /\ e.editingControlId = ui.editingControlId
        /\ e.screen = ui.screen /\ e.controls = ui.controls
        /\ e.learnedCommands = ui.learnedCommands
    BY <1>1, <1>2 DEF UiStates, Lasting
  <1>5. Good(e)
    BY <1>1, <1>3, <1>4, FormOnly DEF Good, Editing
  <1>6. Good(s) /\ s.controls = ui.controls /\ s.learnedCommands = ui.learnedCommands
    BY <1>1, <1>2, <1>4, <1>5
  <1>7. Update(s) /\ UNCHANGED <<offered, stale>> /\ KeepView
    BY <1>2 DEF Timeout
  <1>8. jobs' = {}
    BY DEF Timeout, RemoteInv, OneTimeout
  <1>9. unsaved \in Nat /\ unsaved <= MaxUnsaved /\ unsaved' = unsaved + 1
    <2>1. jobs # {}
      BY DEF Timeout
    <2> QED
      BY <1>7, <2>1, BoundsAssumption DEF RemoteInv, ViewTypes, Update
  <1>10. Good(ui)' /\ Good(Load(disk))'
    <2>1. ui' = s /\ disk' = disk
      BY <1>7 DEF Update
    <2> QED
      BY <1>6, <2>1 DEF RemoteInv
  <1>11. RestartForgetsNothing'
    BY <1>9 DEF RestartForgetsNothing
  <1>12. TapsReady'
    <2>1. ui' = s
      BY <1>7 DEF Update
    <2> QED
      BY <1>6, <1>7, <2>1 DEF RemoteInv, TapsReady
  <1>13. OneTimeout'
    <2>1. learningTimeoutJob' \in Jobs \cup {NoJob}
      BY DEF Timeout, RemoteInv, OneTimeout
    <2> QED
      BY <1>8, <2>1 DEF OneTimeout
  <1>14. ViewTypes'
    <2>1. pendingDelete' \in 0 .. MaxId /\ drawer' \in BOOLEAN
      BY <1>7, ViewKept
    <2>2. unsaved' \in 0 .. MaxUnsaved + 1
      BY <1>9, BoundsAssumption
    <2>3. stale' \in 0 .. MaxStale
      BY <1>7 DEF RemoteInv, ViewTypes
    <2> QED
      BY <1>8, <2>1, <2>2, <2>3 DEF ViewTypes
  <1> QED
    BY <1>10, <1>11, <1>12, <1>13, <1>14 DEF RemoteInv

LEMMA DrawerStep ==
  ASSUME RemoteInv, MoveDrawer \/ Dismiss \/ \E id \in AllIds : AskDelete(id) PROVE RemoteInv'
  <1>1. CASE MoveDrawer
    <2>1. /\ UNCHANGED <<ui, disk, unsaved>> /\ KeepJob /\ drawer' \in BOOLEAN
          /\ pendingDelete' \in 0 .. MaxId
      BY <1>1, PendingKept DEF MoveDrawer
    <2>2. PICK op \in {"openDrawer", "closeDrawer"} : Tapped(op, 0)
      BY <1>1 DEF MoveDrawer
    <2>3. op # "save" /\ op # "power"
      OBVIOUS
    <2> QED
      BY <2>1, <2>2, <2>3, ViewStep
  <1>2. CASE Dismiss
    <2>1. /\ UNCHANGED <<ui, disk, unsaved>> /\ KeepJob /\ Tapped("dismiss", 0)
          /\ pendingDelete' = 0 /\ drawer' = drawer
      BY <1>2 DEF Dismiss, NoId
    <2>2. pendingDelete' \in 0 .. MaxId /\ drawer' \in BOOLEAN
      BY <2>1, BoundsAssumption DEF RemoteInv, ViewTypes
    <2>3. "dismiss" # "save" /\ "dismiss" # "power"
      OBVIOUS
    <2> QED
      BY <2>1, <2>2, <2>3, ViewStep
  <1>3. ASSUME NEW id \in AllIds, AskDelete(id) PROVE RemoteInv'
    <2>1. /\ UNCHANGED <<ui, disk, unsaved>> /\ KeepJob /\ Tapped("askDelete", id)
          /\ pendingDelete' = id /\ drawer' = drawer
      BY <1>3 DEF AskDelete
    <2>2. pendingDelete' \in 0 .. MaxId /\ drawer' \in BOOLEAN
      BY <2>1, BoundsAssumption DEF RemoteInv, ViewTypes, AllIds
    <2>3. "askDelete" # "save" /\ "askDelete" # "power"
      OBVIOUS
    <2> QED
      BY <2>1, <2>2, <2>3, ViewStep
  <1> QED
    BY <1>1, <1>2, <1>3

LEMMA RecomposeStep == ASSUME RemoteInv, Recompose PROVE RemoteInv'
  <1>1. /\ UNCHANGED <<ui, jobs, learningTimeoutJob, disk, unsaved, drawer, pendingDelete>>
        /\ stale' = 0 /\ offered' = Offered(ui', drawer, pendingDelete)
    BY DEF Recompose
  <1>2. TapsReady'
    BY <1>1, OfferedReady DEF TapsReady
  <1>3. ViewTypes'
    <2>1. stale' \in 0 .. MaxStale
      BY <1>1, BoundsAssumption
    <2> QED
      BY <1>1, <2>1 DEF RemoteInv, ViewTypes
  <1>4. Good(ui)' /\ Good(Load(disk))' /\ RestartForgetsNothing' /\ OneTimeout'
    BY <1>1 DEF RemoteInv, RestartForgetsNothing, Lasting, OneTimeout
  <1> QED
    BY <1>2, <1>3, <1>4 DEF RemoteInv

\* What is written is what is shown.
LEMMA FlushStep == ASSUME RemoteInv, Flush PROVE RemoteInv'
  <1>1. /\ UNCHANGED <<ui, jobs, learningTimeoutJob, drawer, pendingDelete, offered, stale>>
        /\ disk' = Saved(ui) /\ unsaved' = 0
    BY DEF Flush
  <1>2. PICK u : u = Load(Saved(ui))
    OBVIOUS
  <1>3. Good(u) /\ Lasting(u) = Lasting(ui)
    BY <1>2, SavedLoads DEF RemoteInv
  <1>4. Good(Load(disk))'
    BY <1>1, <1>2, <1>3
  <1>5. RestartForgetsNothing'
    <2>1. Lasting(Load(disk')) = Lasting(ui')
      BY <1>1, <1>2, <1>3
    <2> QED
      BY <2>1 DEF RestartForgetsNothing
  <1>6. ViewTypes'
    <2>1. 0 \in 0 .. MaxUnsaved + 1 /\ 0 <= MaxUnsaved
      BY BoundsAssumption
    <2> QED
      BY <1>1, <2>1 DEF RemoteInv, ViewTypes
  <1>7. Good(ui)' /\ TapsReady' /\ OneTimeout'
    BY <1>1 DEF RemoteInv, TapsReady, OneTimeout
  <1> QED
    BY <1>4, <1>5, <1>6, <1>7 DEF RemoteInv

LEMMA DieStep == ASSUME RemoteInv, Die PROVE RemoteInv'
  <1>1. /\ ui' = Load(disk) /\ jobs' = {} /\ learningTimeoutJob' = NoJob /\ unsaved' = 0
        /\ drawer' = FALSE /\ pendingDelete' = 0 /\ stale' = 0 /\ disk' = disk
        /\ offered' = Offered(ui', FALSE, NoId)
    BY DEF Die, NoId
  <1>2. Good(ui)' /\ Good(Load(disk))' /\ RestartForgetsNothing'
    BY <1>1 DEF RemoteInv, RestartForgetsNothing
  <1>3. TapsReady'
    BY <1>1, OfferedReady DEF TapsReady
  <1>4. OneTimeout'
    BY <1>1 DEF OneTimeout
  <1>5. ViewTypes'
    <2>1. 0 \in 0 .. MaxId /\ 0 \in 0 .. MaxStale /\ 0 \in 0 .. MaxUnsaved + 1
      BY BoundsAssumption
    <2> QED
      BY <1>1, <2>1 DEF ViewTypes
  <1> QED
    BY <1>2, <1>3, <1>4, <1>5 DEF RemoteInv

LEMMA Steps == RemoteInv /\ [Next]_vars => RemoteInv'
  <1> SUFFICES ASSUME RemoteInv, [Next]_vars PROVE RemoteInv'
    OBVIOUS
  <1>1. CASE User
    <2>1. \/ Increase \/ Decrease \/ TogglePower \/ OpenAddDevice \/ CloseAddDevice \/ SaveDevice
          \/ (\E b \in Brands \cup {Blank} : UpdateDeviceBrand(b))
          \/ (\E c \in Commands : StartLearning(c) \/ ConfirmIrCommandLearned(c))
          \/ (\E id \in AllIds : SelectControl(id) \/ EditControl(id) \/ DeleteControl(id))
          \/ (MoveDrawer \/ Dismiss \/ \E id \in AllIds : AskDelete(id))
      BY <1>1 DEF User
    <2> QED
      BY <2>1, IncreaseStep, DecreaseStep, TogglePowerStep, OpenAddDeviceStep, CloseAddDeviceStep,
         SaveDeviceStep, UpdateDeviceBrandStep, StartLearningStep, ConfirmIrCommandLearnedStep,
         SelectControlStep, EditControlStep, DeleteControlStep, DrawerStep
  <1>2. CASE \E job \in Jobs : Timeout(job)
    BY <1>2, TimeoutStep
  <1>3. CASE UNCHANGED vars
    BY <1>3 DEF vars, RemoteInv, RestartForgetsNothing, TapsReady, OneTimeout, ViewTypes
  <1> QED
    BY <1>1, <1>2, <1>3, RecomposeStep, FlushStep, DieStep DEF Next

\* The inductive invariant holds in every reachable state of the app.
THEOREM Invariance == Spec => []RemoteInv
  BY Starts, Steps, PTL DEF Spec

-----------------------------------------------------------------------------
(* The properties.                                                         *)

\* Each part of the state stays in its range: the state flow of AcRemoteViewModel, the
\* timeout it may have, and the writes that are pending.
THEOREM TypeCorrect == Spec => []TypeOK
  <1>1. RemoteInv => TypeOK
    BY DEF RemoteInv, Good, Sound, OneTimeout, ViewTypes, TypeOK
  <1> QED
    BY <1>1, Invariance, PTL

\* The remote shows the active control, or the defaults when there is none, whatever the
\* user, the disk and the process do (AcRemoteViewModel, ControlStateRepository.load).
THEOREM ShowsActive == Spec => []RemoteShowsActive
  <1>1. ASSUME RemoteInv PROVE RemoteShowsActive
    <2>1. ui.controls \in Seq(Controls) /\ Apart(ui.controls) /\ Shows(ui)
      BY <1>1 DEF RemoteInv, Good, Sound, UiStates
    <2>2. CASE ui.controls = <<>>
      BY <2>1, <2>2 DEF Shows, ShownIsNothing, RemoteShowsActive
    <2>3. CASE ui.controls # <<>>
      <3>1. PICK i \in DOMAIN ui.controls : ShownIs(ui, ui.controls[i])
        BY <2>1, <2>3 DEF Shows
      <3>2. ui.activeControlId = ui.controls[i].id
        BY <3>1 DEF ShownIs
      <3>3. ControlOf(ui.controls, ui.activeControlId) = ui.controls[i]
        BY <2>1, <3>2, ControlIs
      <3> QED
        BY <2>3, <3>1, <3>2, <3>3 DEF RemoteShowsActive, ShownIs, Ids
    <2> QED
      BY <2>2, <2>3
  <1> QED
    BY <1>1, Invariance, PTL

\* An id is never given twice: saveDevice takes nextControlId, which stays above all of them
\* through deletes, restarts and the states of older versions.
THEOREM IdsUnique == Spec => []IdsTellApart
  <1>1. RemoteInv => IdsTellApart
    BY DEF RemoteInv, Good, Sound, Apart, Below, IdsTellApart
  <1> QED
    BY <1>1, Invariance, PTL

\* What saveDevice changes is the control that was being edited, which no delete has taken
\* away (deleteControl leaves the form).
THEOREM EditedStays == Spec => []EditedControlExists
  <1>1. RemoteInv => EditedControlExists
    BY DEF RemoteInv, Good, Editing, EditedControlExists
  <1> QED
    BY <1>1, Invariance, PTL

\* No control is ever without one of its commands, though saveDevice does not look: the
\* screen offers saving only then, and what it offered stays right until it is drawn again.
THEOREM ControlsComplete == Spec => []EveryControlComplete
  <1>1. RemoteInv => EveryControlComplete
    BY DEF RemoteInv, Good, Sound, Complete, EveryControlComplete
  <1> QED
    BY <1>1, Invariance, PTL

\* ControlStateRepository.load undoes save for all that lasts.
THEOREM NothingForgotten == Spec => []RestartForgetsNothing
  <1>1. RemoteInv => RestartForgetsNothing
    BY DEF RemoteInv
  <1> QED
    BY <1>1, Invariance, PTL

\* cancel() before each launch leaves one timeout at most, that of the attempt on the screen.
THEOREM TimeoutOwn == Spec => []TimeoutOfThisAttempt
  <1>1. RemoteInv => TimeoutOfThisAttempt
    BY DEF RemoteInv, OneTimeout, TimeoutOfThisAttempt
  <1> QED
    BY <1>1, Invariance, PTL
=============================================================================
