---------------------------- MODULE InterfaceProofs ----------------------------
(***************************************************************************)
(* The slots of the windows, what holds the mouse and what the game takes  *)
(* for pressed, for any windows, points and keys.                          *)
(*                                                                         *)
(* The slots: the order of the layer and the free list are lists of        *)
(* different slots, the one of those a window has, the other of the rest;  *)
(* what get, update and activate_window do to a list keeps that.           *)
(*                                                                         *)
(* The input: the windows, the focus and what holds the mouse only decide  *)
(* which messages the game sees, so that invariant is about five variables *)
(* and any change of the others leaves it alone.                           *)
(***************************************************************************)
EXTENDS Interface, FiniteSetTheorems, SequenceTheorems, TLAPS

-----------------------------------------------------------------------------
(***************************************************************************)
(* Lists of slots                                                          *)
(***************************************************************************)
\* A list has every member of a set once, and nothing else.
Lists(list, S) == list \in Seq(Slots) /\ IsInjective(list) /\ ToSet(list) = S

LEMMA ListsMembers ==
    ASSUME NEW S, NEW list, Lists(list, S)
    PROVE  /\ Len(list) \in Nat /\ DOMAIN list = 1 .. Len(list)
           /\ S \subseteq Slots
           /\ \A n \in 1 .. Len(list) : list[n] \in S
           /\ \A s \in S : \E n \in 1 .. Len(list) : list[n] = s
           /\ \A m, n \in 1 .. Len(list) : list[m] = list[n] => m = n
BY DEF Lists, IsInjective, ToSet

LEMMA ListsIntro ==
    ASSUME NEW S, NEW list \in Seq(Slots),
           \A n \in 1 .. Len(list) : list[n] \in S,
           \A s \in S : \E n \in 1 .. Len(list) : list[n] = s,
           \A m, n \in 1 .. Len(list) : list[m] = list[n] => m = n
    PROVE  Lists(list, S)
BY DEF Lists, IsInjective, ToSet

LEMMA ListsAppend ==
    ASSUME NEW S, NEW list, Lists(list, S), NEW s \in Slots, s \notin S
    PROVE  Lists(Append(list, s), S \cup {s})
<1>1. list \in Seq(Slots)
  BY DEF Lists
<1> DEFINE longer == Append(list, s)
<1>2. /\ longer \in Seq(Slots) /\ Len(longer) = Len(list) + 1 /\ longer[Len(list) + 1] = s
      /\ \A n \in 1 .. Len(list) : longer[n] = list[n]
  BY <1>1, AppendProperties
<1> HIDE DEF longer
<1>3. \A n \in 1 .. Len(list) : longer[n] \in S
  BY <1>2, ListsMembers
<1>4. \A n \in 1 .. Len(longer) : n = Len(list) + 1 \/ n \in 1 .. Len(list)
  BY <1>1, <1>2
<1>5. \A n \in 1 .. Len(longer) : longer[n] \in S \cup {s}
  BY <1>2, <1>3, <1>4
<1>6. \A t \in S \cup {s} : \E n \in 1 .. Len(longer) : longer[n] = t
  <2> SUFFICES ASSUME NEW t \in S \cup {s}
               PROVE  \E n \in 1 .. Len(longer) : longer[n] = t
    OBVIOUS
  <2>1. CASE t = s
    BY <1>1, <1>2, <2>1
  <2>2. CASE t \in S
    <3>1. PICK n \in 1 .. Len(list) : list[n] = t
      BY <2>2, ListsMembers
    <3> QED
      BY <1>1, <1>2, <3>1
  <2> QED
    BY <2>1, <2>2
<1>7. \A m, n \in 1 .. Len(longer) : longer[m] = longer[n] => m = n
  BY <1>2, <1>3, <1>4, ListsMembers
<1>8. Lists(longer, S \cup {s})
  BY <1>2, <1>5, <1>6, <1>7, ListsIntro
<1> QED
  BY <1>8 DEF longer

LEMMA ListsFront ==
    ASSUME NEW S, NEW list, Lists(list, S), list # <<>>
    PROVE  Last(list) \in S /\ Lists(Front(list), S \ {Last(list)})
<1>1. list \in Seq(Slots) /\ Len(list) \in Nat /\ Len(list) # 0
  BY DEF Lists
<1> DEFINE shorter == Front(list)
           last == Len(list)
<1>2. \A n \in 1 .. last - 1 : list[n] \in Slots
  BY <1>1
<1>3. /\ shorter \in Seq(Slots) /\ Len(shorter) = last - 1
      /\ \A n \in 1 .. last - 1 : shorter[n] = list[n]
  <2>1. 1 \in Int /\ last - 1 \in Int /\ last - 1 >= 0
    BY <1>1
  <2>2. /\ shorter \in Seq(Slots) /\ Len(shorter) = IF 1 <= last - 1 THEN last - 1 - 1 + 1 ELSE 0
        /\ \A n \in 1 .. last - 1 - 1 + 1 : shorter[n] = list[1 + n - 1]
    BY <1>2, <2>1, SubSeqProperties DEF Front
  <2> HIDE DEF last
  <2>3. ASSUME NEW n \in 1 .. last - 1
        PROVE  shorter[n] = list[n]
    <3>1. 1 + n - 1 = n /\ n \in 1 .. last - 1 - 1 + 1
      BY <2>1
    <3> QED
      BY <2>2, <3>1
  <2> QED
    BY <2>1, <2>2, <2>3
<1> HIDE DEF shorter
<1>4. last \in 1 .. Len(list) /\ Last(list) = list[last]
  BY <1>1 DEF Last
<1>5. Last(list) \in S
  BY <1>4, ListsMembers
<1>6. \A n \in 1 .. Len(shorter) : shorter[n] \in S \ {Last(list)}
  <2> SUFFICES ASSUME NEW n \in 1 .. last - 1
               PROVE  list[n] \in S \ {list[last]}
    BY <1>3, <1>4
  <2>1. n \in 1 .. Len(list) /\ n # last
    BY <1>1
  <2> QED
    BY <1>4, <2>1, ListsMembers
<1>7. \A t \in S \ {Last(list)} : \E n \in 1 .. Len(shorter) : shorter[n] = t
  <2> SUFFICES ASSUME NEW t \in S, t # list[last]
               PROVE  \E n \in 1 .. last - 1 : shorter[n] = t
    BY <1>3, <1>4
  <2>1. PICK n \in 1 .. Len(list) : list[n] = t
    BY ListsMembers
  <2>2. n \in 1 .. last - 1
    BY <1>1, <2>1
  <2> QED
    BY <1>3, <2>1, <2>2
<1>8. \A m, n \in 1 .. Len(shorter) : shorter[m] = shorter[n] => m = n
  <2>1. \A n \in 1 .. last - 1 : n \in 1 .. Len(list)
    BY <1>1
  <2> QED
    BY <1>3, <2>1, ListsMembers
<1> QED
  BY <1>3, <1>5, <1>6, <1>7, <1>8, ListsIntro DEF shorter

LEMMA ListsConcat ==
    ASSUME NEW S, NEW T, NEW one, NEW two, Lists(one, S), Lists(two, T), S \cap T = {}
    PROVE  Lists(one \o two, S \cup T)
<1>1. one \in Seq(Slots) /\ two \in Seq(Slots) /\ Len(one) \in Nat /\ Len(two) \in Nat
  BY DEF Lists
<1> DEFINE both == one \o two
<1>2. both \in Seq(Slots) /\ Len(both) = Len(one) + Len(two)
  BY <1>1, ConcatProperties
<1>3. \A n \in 1 .. Len(one) : both[n] = one[n]
  BY <1>1, ConcatProperties
<1>4. \A n \in 1 .. Len(two) : both[Len(one) + n] = two[n]
  <2> SUFFICES ASSUME NEW n \in 1 .. Len(two)
               PROVE  both[Len(one) + n] = two[n]
    OBVIOUS
  <2>1. Len(one) + n \in 1 .. Len(one) + Len(two) /\ ~(Len(one) + n <= Len(one))
        /\ Len(one) + n - Len(one) = n
    BY <1>1
  <2> QED
    BY <1>1, <2>1, ConcatProperties
<1> HIDE DEF both
<1>5. ASSUME NEW n \in 1 .. Len(both), n \notin 1 .. Len(one)
      PROVE  \E k \in 1 .. Len(two) : n = Len(one) + k
  <2>1. n - Len(one) \in 1 .. Len(two) /\ n = Len(one) + (n - Len(one))
    BY <1>1, <1>2, <1>5
  <2> QED
    BY <2>1
<1>6. ASSUME NEW n \in 1 .. Len(both)
      PROVE  /\ n \in 1 .. Len(one) => both[n] \in S
             /\ n \notin 1 .. Len(one) => both[n] \in T
  <2>1. CASE n \in 1 .. Len(one)
    BY <1>3, <2>1, ListsMembers
  <2>2. CASE n \notin 1 .. Len(one)
    <3>1. PICK k \in 1 .. Len(two) : n = Len(one) + k
      BY <1>5, <2>2
    <3>2. both[n] = two[k] /\ two[k] \in T
      BY <1>4, <3>1, ListsMembers
    <3> QED
      BY <2>2, <3>2
  <2> QED
    BY <2>1, <2>2
<1>7. \A t \in S \cup T : \E n \in 1 .. Len(both) : both[n] = t
  <2> SUFFICES ASSUME NEW t \in S \cup T
               PROVE  \E n \in 1 .. Len(both) : both[n] = t
    OBVIOUS
  <2>1. CASE t \in S
    <3>1. PICK n \in 1 .. Len(one) : one[n] = t
      BY <2>1, ListsMembers
    <3> QED
      BY <1>1, <1>2, <1>3, <3>1
  <2>2. CASE t \in T
    <3>1. PICK n \in 1 .. Len(two) : two[n] = t
      BY <2>2, ListsMembers
    <3>2. Len(one) + n \in 1 .. Len(both)
      BY <1>1, <1>2
    <3> QED
      BY <1>4, <3>1, <3>2
  <2> QED
    BY <2>1, <2>2
<1>8. ASSUME NEW m \in 1 .. Len(both), NEW n \in 1 .. Len(both), both[m] = both[n]
      PROVE  m = n
  <2>1. CASE m \in 1 .. Len(one) /\ n \in 1 .. Len(one)
    BY <1>3, <1>8, <2>1, ListsMembers
  <2>2. CASE m \notin 1 .. Len(one) /\ n \notin 1 .. Len(one)
    <3>1. PICK j \in 1 .. Len(two) : m = Len(one) + j
      BY <1>5, <2>2
    <3>2. PICK k \in 1 .. Len(two) : n = Len(one) + k
      BY <1>5, <2>2
    <3>3. two[j] = two[k]
      BY <1>4, <1>8, <3>1, <3>2
    <3> QED
      BY <3>1, <3>2, <3>3, ListsMembers
  <2>3. CASE ~(m \in 1 .. Len(one) <=> n \in 1 .. Len(one))
    BY <1>6, <1>8, <2>3
  <2> QED
    BY <2>1, <2>2, <2>3
<1> QED
  BY <1>2, <1>6, <1>7, <1>8, ListsIntro DEF both

\* Counting a finite set of numbers upwards meets each of them once.
LEMMA UpwardsOnce ==
    ASSUME NEW I, I \subseteq Nat, IsFiniteSet(I), NEW up \in Upwards(I)
    PROVE  /\ Cardinality(I) \in Nat /\ up \in [1 .. Cardinality(I) -> I]
           /\ \A j, k \in 1 .. Cardinality(I) : up[j] = up[k] => j = k
           /\ \A i \in I : \E k \in 1 .. Cardinality(I) : up[k] = i
<1> DEFINE n == Cardinality(I)
<1>1. n \in Nat
  BY FS_CardinalityType
<1> HIDE DEF n
<1>2. up \in [1 .. n -> I] /\ \A j, k \in 1 .. n : j < k => up[j] < up[k]
  BY DEF Upwards, n
<1>3. ASSUME NEW j \in 1 .. n, NEW k \in 1 .. n, up[j] = up[k]
      PROVE  j = k
  <2>1. up[j] \in Nat /\ up[k] \in Nat
    BY <1>2
  <2>2. ~(j < k) /\ ~(k < j)
    BY <1>2, <1>3, <2>1
  <2> QED
    BY <1>1, <2>2
<1>4. up \in Injection(1 .. n, I)
  BY <1>2, <1>3 DEF Injection, IsInjective
<1>5. Cardinality(1 .. n) = n
  BY <1>1, FS_Interval
<1>6. up \in Surjection(1 .. n, I)
  BY <1>4, <1>5, FS_Injection DEF n
<1>7. \A i \in I : \E k \in 1 .. n : up[k] = i
  BY <1>6 DEF Surjection
<1> QED
  BY <1>1, <1>2, <1>3, <1>7 DEF n

LEMMA ListsUpwards ==
    ASSUME NEW I, I \subseteq Slots, NEW up \in Upwards(I)
    PROVE  Lists(up, I)
<1>1. IsFiniteSet(I) /\ I \subseteq Nat
  <2>1. Cardinality(Ids) \in Nat
    BY WindowAssumption, FS_CardinalityType
  <2>2. IsFiniteSet(Slots) /\ Slots \subseteq Nat
    BY <2>1, FS_Interval DEF Slots
  <2> QED
    BY <2>2, FS_Subset
<1> DEFINE n == Cardinality(I)
<1>2. /\ n \in Nat /\ up \in [1 .. n -> I]
      /\ \A j, k \in 1 .. n : up[j] = up[k] => j = k
      /\ \A i \in I : \E k \in 1 .. n : up[k] = i
  BY <1>1, UpwardsOnce
<1> HIDE DEF n
<1>3. up \in Seq(Slots) /\ Len(up) = n
  BY <1>2, IsASeq
<1> QED
  BY <1>2, <1>3, ListsIntro

\* Some of a list are erased, and the others stay as they are.
LEMMA ListsPicked ==
    ASSUME NEW S, NEW list, Lists(list, S), NEW Gone,
           NEW up \in Upwards({n \in DOMAIN list : list[n] \notin Gone})
    PROVE  Lists(Picked(list, up), S \ Gone)
<1> DEFINE I == {n \in DOMAIN list : list[n] \notin Gone}
           k == Cardinality(I)
           shorter == Picked(list, up)
<1>1. list \in Seq(Slots) /\ Len(list) \in Nat /\ I \subseteq 1 .. Len(list)
  BY DEF Lists
<1>2. IsFiniteSet(I) /\ I \subseteq Nat
  <2>1. IsFiniteSet(1 .. Len(list))
    BY <1>1, FS_Interval
  <2> QED
    BY <1>1, <2>1, FS_Subset
<1>3. /\ k \in Nat /\ up \in [1 .. k -> I]
      /\ \A m, n \in 1 .. k : up[m] = up[n] => m = n
      /\ \A i \in I : \E n \in 1 .. k : up[n] = i
  BY <1>2, UpwardsOnce
<1> HIDE DEF k
<1>4. \A n \in 1 .. k : up[n] \in 1 .. Len(list) /\ list[up[n]] \notin Gone
  BY <1>1, <1>3
<1>5. shorter = [n \in 1 .. k |-> list[up[n]]]
  BY <1>3 DEF Picked
<1> HIDE DEF shorter
<1>6. \A n \in 1 .. k : list[up[n]] \in Slots
  BY <1>1, <1>4
<1>7. shorter \in Seq(Slots) /\ Len(shorter) = k /\ \A n \in 1 .. k : shorter[n] = list[up[n]]
  BY <1>3, <1>5, <1>6, IsASeq
<1>8. \A n \in 1 .. k : shorter[n] \in S \ Gone
  BY <1>4, <1>7, ListsMembers
<1>9. \A t \in S \ Gone : \E n \in 1 .. k : shorter[n] = t
  <2> SUFFICES ASSUME NEW t \in S, t \notin Gone
               PROVE  \E n \in 1 .. k : shorter[n] = t
    OBVIOUS
  <2>1. PICK i \in 1 .. Len(list) : list[i] = t
    BY ListsMembers
  <2>2. i \in I
    BY <1>1, <2>1
  <2>3. PICK n \in 1 .. k : up[n] = i
    BY <1>3, <2>2
  <2> QED
    BY <1>7, <2>1, <2>3
<1>10. \A m, n \in 1 .. k : shorter[m] = shorter[n] => m = n
  BY <1>3, <1>4, <1>7, ListsMembers
<1> QED
  BY <1>7, <1>8, <1>9, <1>10, ListsIntro DEF shorter

LEMMA ListsRaised ==
    ASSUME NEW S, NEW list, Lists(list, S), NEW s \in S
    PROVE  Lists(Raised(list, s), S)
<1> DEFINE p == CHOOSE p \in DOMAIN list : list[p] = s
           raised == Raised(list, s)
<1>1. list \in Seq(Slots) /\ Len(list) \in Nat /\ DOMAIN list = 1 .. Len(list)
  BY DEF Lists
<1>2. \E n \in DOMAIN list : list[n] = s
  BY <1>1, ListsMembers
<1>3. p \in 1 .. Len(list) /\ list[p] = s
  BY <1>1, <1>2
<1>4. raised = [k \in 1 .. Len(list) |->
                   IF k = 1 THEN s ELSE IF k <= p THEN list[k - 1] ELSE list[k]]
  BY <1>1 DEF Raised
<1> HIDE DEF p, raised
\* Where each element was.
<1> DEFINE was(k) == IF k = 1 THEN p ELSE IF k <= p THEN k - 1 ELSE k
<1>5. ASSUME NEW k \in 1 .. Len(list)
      PROVE  was(k) \in 1 .. Len(list) /\ raised[k] = list[was(k)]
  BY <1>1, <1>3, <1>4
<1>6. \A j, k \in 1 .. Len(list) : was(j) = was(k) => j = k
  BY <1>1, <1>3
<1>7. ASSUME NEW n \in 1 .. Len(list)
      PROVE  \E k \in 1 .. Len(list) : was(k) = n
  <2>1. CASE n = p
    <3>1. 1 \in 1 .. Len(list) /\ was(1) = n
      BY <1>1, <1>3, <2>1
    <3> QED
      BY <3>1
  <2>2. CASE n < p
    <3>1. n + 1 \in 1 .. Len(list) /\ was(n + 1) = n
      BY <1>1, <1>3, <2>2
    <3> QED
      BY <3>1
  <2>3. CASE n > p
    <3>1. was(n) = n
      BY <1>1, <1>3, <2>3
    <3> QED
      BY <3>1
  <2> QED
    BY <1>1, <1>3, <2>1, <2>2, <2>3
<1> HIDE DEF was
<1>8. \A k \in 1 .. Len(list) : raised[k] \in Slots
  BY <1>1, <1>5
<1>9. raised \in Seq(Slots) /\ Len(raised) = Len(list)
  <2>1. raised = [k \in 1 .. Len(list) |-> raised[k]]
    BY <1>4
  <2> QED
    BY <1>1, <1>8, <2>1, IsASeq
<1>10. \A k \in 1 .. Len(list) : raised[k] \in S
  BY <1>5, ListsMembers
<1>11. \A t \in S : \E k \in 1 .. Len(list) : raised[k] = t
  <2> SUFFICES ASSUME NEW t \in S
               PROVE  \E k \in 1 .. Len(list) : raised[k] = t
    OBVIOUS
  <2>1. PICK n \in 1 .. Len(list) : list[n] = t
    BY ListsMembers
  <2>2. PICK k \in 1 .. Len(list) : was(k) = n
    BY <1>7
  <2> QED
    BY <1>5, <2>1, <2>2
<1>12. \A j, k \in 1 .. Len(list) : raised[j] = raised[k] => j = k
  <2> SUFFICES ASSUME NEW j \in 1 .. Len(list), NEW k \in 1 .. Len(list), raised[j] = raised[k]
               PROVE  j = k
    OBVIOUS
  <2>1. /\ was(j) \in 1 .. Len(list) /\ was(k) \in 1 .. Len(list)
        /\ list[was(j)] = list[was(k)]
    BY <1>5
  <2>2. was(j) = was(k)
    BY <2>1, ListsMembers
  <2> QED
    BY <1>6, <2>2
<1> QED
  BY <1>9, <1>10, <1>11, <1>12, ListsIntro DEF raised

\* activate_window keeps the slots of the order, and what is active is one of
\* them, none, or what was.
LEMMA ListsActivated ==
    ASSUME NEW S, NEW list, Lists(list, S), NEW ws, NEW s
    PROVE  /\ Lists(Activated(ws, list, s).order, S)
           /\ Activated(ws, list, s).active \in S \cup {0, active}
<1>1. CASE s \notin ToSet(list)
  BY <1>1 DEF Activated
<1>2. CASE s \in ToSet(list) /\ (~ws[s].interactable \/ active = s)
  BY <1>2 DEF Activated
<1>3. CASE s \in ToSet(list) /\ ~(~ws[s].interactable \/ active = s)
  <2>1. s \in S
    BY <1>3 DEF Lists
  <2>2. Activated(ws, list, s) = [active |-> s, order |-> Raised(list, s)]
    BY <1>3 DEF Activated
  <2> QED
    BY <2>1, <2>2, ListsRaised
<1> QED
  BY <1>1, <1>2, <1>3

LEMMA HotListed ==
    ASSUME NEW S, NEW list, Lists(list, S), NEW ws, NEW at
    PROVE  HotAt(ws, list, at) \in S \cup {0}
<1> DEFINE under == {n \in DOMAIN list :
                        ws[list[n]].interactable /\ at \in Covers[ws[list[n]].id]}
           first == {n \in under : \A m \in under : n <= m}
<1>1. HotAt(ws, list, at) = IF first = {} THEN 0 ELSE list[CHOOSE n \in first : TRUE]
  BY DEF HotAt
<1>2. first \subseteq 1 .. Len(list)
  BY ListsMembers
<1> HIDE DEF first
<1>3. CASE first = {}
  BY <1>1, <1>3
<1>4. CASE first # {}
  <2>1. PICK n \in first : n = CHOOSE m \in first : TRUE
    BY <1>4
  <2>2. HotAt(ws, list, at) = list[n] /\ n \in 1 .. Len(list)
    BY <1>1, <1>2, <1>4, <2>1
  <2> QED
    BY <2>2, ListsMembers
<1> QED
  BY <1>3, <1>4

-----------------------------------------------------------------------------
(***************************************************************************)
(* The slots                                                               *)
(***************************************************************************)
\* The slots a window has.
Opened == {s \in 1 .. Len(windows) : windows[s].id # NoId}

\* No window has two.
OneEach ==
    \A s, t \in 1 .. Len(windows) :
        windows[s].id = windows[t].id /\ windows[s].id # NoId => s = t

WindowInvariant ==
    /\ WindowTypeOK
    /\ Lists(front, Opened)
    /\ Lists(free, SlotsOf(NoId))
    /\ OneEach
    /\ hot \in Opened \cup {0}

LEMMA InitWindows == WindowInit => WindowInvariant
<1> SUFFICES ASSUME WindowInit PROVE WindowInvariant
  OBVIOUS
<1>1. windows = <<>> /\ front = <<>> /\ free = <<>> /\ active = 0 /\ hot = 0
  BY DEF WindowInit
<1>2. Cardinality(Ids) \in Nat
  BY WindowAssumption, FS_CardinalityType
<1>3. WindowTypeOK
  BY <1>1, <1>2 DEF WindowTypeOK
<1>4. Opened = {} /\ SlotsOf(NoId) = {} /\ OneEach
  BY <1>1 DEF Opened, SlotsOf, OneEach
<1>5. Lists(<<>>, {})
  BY DEF Lists, IsInjective, ToSet
<1> QED
  BY <1>1, <1>3, <1>4, <1>5 DEF WindowInvariant

\* A slot of the vector is typed, and is opened or free.
LEMMA SlotTyped ==
    ASSUME WindowInvariant
    PROVE  /\ Cardinality(Ids) \in Nat /\ Len(windows) \in Nat
           /\ DOMAIN windows = 1 .. Len(windows) /\ 1 .. Len(windows) \subseteq Slots
           /\ \A s \in 1 .. Len(windows) : windows[s] \in Window
           /\ Opened \cap SlotsOf(NoId) = {}
           /\ Opened \cup SlotsOf(NoId) = 1 .. Len(windows)
<1>1. Cardinality(Ids) \in Nat
  BY WindowAssumption, FS_CardinalityType
<1>2. windows \in Seq(Window) /\ Len(windows) <= Cardinality(Ids)
  BY DEF WindowInvariant, WindowTypeOK
<1>3. Len(windows) \in Nat /\ DOMAIN windows = 1 .. Len(windows)
  BY <1>2
<1>4. 1 .. Len(windows) \subseteq Slots
  BY <1>1, <1>2, <1>3 DEF Slots
<1>5. \A s \in 1 .. Len(windows) : windows[s] \in Window
  BY <1>2
<1> QED
  BY <1>1, <1>3, <1>4, <1>5 DEF Opened, SlotsOf

\* What a run checks of the slots.
LEMMA SlotsAreAccounted == WindowInvariant => SlotsAccounted
<1> SUFFICES ASSUME WindowInvariant PROVE SlotsAccounted
  OBVIOUS
<1>1. DOMAIN windows = 1 .. Len(windows)
  BY SlotTyped
<1>2. IsInjective(front) /\ ToSet(front) = Opened
  BY DEF WindowInvariant, Lists
<1>3. IsInjective(free) /\ ToSet(free) = SlotsOf(NoId)
  BY DEF WindowInvariant, Lists
<1>4. Opened = {s \in DOMAIN windows : windows[s].id # NoId}
  BY <1>1 DEF Opened
<1>5. ASSUME NEW i \in Ids
      PROVE  Cardinality(SlotsOf(i)) <= 1
  <2>1. CASE SlotsOf(i) = {}
    <3>1. Cardinality(SlotsOf(i)) = 0
      BY <2>1, FS_EmptySet
    <3> QED
      BY <3>1
  <2>2. CASE SlotsOf(i) # {}
    <3>1. PICK s \in SlotsOf(i) : TRUE
      BY <2>2
    <3>2. SlotsOf(i) = {s}
      BY <1>1, <3>1, WindowAssumption DEF SlotsOf, WindowInvariant, OneEach
    <3>3. Cardinality(SlotsOf(i)) = 1
      BY <3>2, FS_Singleton
    <3> QED
      BY <3>3
  <2> QED
    BY <2>1, <2>2
<1>6. hot # 0 => hot \in ToSet(front)
  BY <1>2 DEF WindowInvariant
<1> QED
  BY <1>2, <1>3, <1>4, <1>5, <1>6 DEF SlotsAccounted

\* The mouse moves, or a button of it changes: only what is hot does.
LEMMA HotWindows ==
    ASSUME WindowInvariant, UNCHANGED <<windows, front, free, active>>,
           NEW at, hot' = HotAt(windows, front, at)
    PROVE  WindowInvariant'
<1>1. hot' \in Opened \cup {0}
  BY HotListed DEF WindowInvariant
<1>2. hot' \in Slots \cup {0}
  BY <1>1, SlotTyped DEF Opened
<1>3. WindowTypeOK'
  BY <1>2 DEF WindowInvariant, WindowTypeOK
<1>4. Opened' = Opened /\ SlotsOf(NoId)' = SlotsOf(NoId) /\ OneEach' = OneEach
  BY DEF Opened, SlotsOf, OneEach
<1> QED
  BY <1>1, <1>3, <1>4 DEF WindowInvariant

\* update: the windows that were not shown are gone.
LEMMA UpdateWindows ==
    ASSUME WindowInvariant, NEW at, NEW down, Update(at, down)
    PROVE  WindowInvariant'
<1>1. /\ Len(windows) \in Nat /\ DOMAIN windows = 1 .. Len(windows)
      /\ 1 .. Len(windows) \subseteq Slots
      /\ \A s \in 1 .. Len(windows) : windows[s] \in Window
  BY SlotTyped
<1>2. windows' = Emptied
  BY DEF Update
<1>3. \A s \in 1 .. Len(windows) :
          /\ windows'[s] \in Window
          /\ windows'[s].id = IF s \in Left THEN NoId ELSE windows[s].id
  BY <1>1, <1>2 DEF Emptied, Window
<1>4. windows' \in Seq(Window) /\ Len(windows') = Len(windows)
  <2>1. windows' = [s \in 1 .. Len(windows) |-> windows'[s]]
    BY <1>1, <1>2 DEF Emptied
  <2> QED
    BY <1>1, <1>3, <2>1, IsASeq
<1>5. Left \subseteq Opened
  BY <1>1 DEF Left, Opened
<1>6. Opened' = Opened \ Left
  BY <1>3, <1>4 DEF Opened
<1>7. SlotsOf(NoId)' = SlotsOf(NoId) \cup Left
  <2>1. DOMAIN windows' = 1 .. Len(windows)
    BY <1>4
  <2> QED
    BY <1>1, <1>3, <1>5, <2>1 DEF SlotsOf, Opened
<1>8. Lists(free', SlotsOf(NoId) \cup Left)
  <2>1. PICK up \in Upwards(Left) : free' = free \o up
    BY DEF Update
  <2>2. Lists(up, Left)
    BY <1>1, <1>5, ListsUpwards DEF Opened
  <2>3. Lists(free, SlotsOf(NoId)) /\ SlotsOf(NoId) \cap Left = {}
    BY <1>5, SlotTyped DEF WindowInvariant
  <2> QED
    BY <2>1, <2>2, <2>3, ListsConcat
<1>9. PICK up \in Upwards(Staying) : Updated(Picked(front, up), at, down)
  BY DEF Update
<1> DEFINE order == Picked(front, up)
<1>10. Lists(order, Opened \ Left)
  BY <1>9, ListsPicked DEF WindowInvariant, Staying
<1> HIDE DEF order
<1>11. /\ hot' = HotAt(Emptied, order, at)
       /\ \/ active' = active /\ front' = order
          \/ /\ active' = Activated(Emptied, order, hot').active
             /\ front' = Activated(Emptied, order, hot').order
  BY <1>9 DEF Updated, order
<1>12. hot' \in (Opened \ Left) \cup {0}
  BY <1>10, <1>11, HotListed
<1>13. Lists(front', Opened \ Left) /\ active' \in (Opened \ Left) \cup {0, active}
  BY <1>10, <1>11, ListsActivated
<1>14. OneEach'
  <2>1. \A s, t \in 1 .. Len(windows) :
            windows'[s].id = windows'[t].id /\ windows'[s].id # NoId => s = t
    BY <1>3 DEF WindowInvariant, OneEach
  <2> QED
    BY <1>4, <2>1 DEF OneEach
<1>15. WindowTypeOK'
  <2>1. front' \in Seq(Slots) /\ free' \in Seq(Slots)
    BY <1>8, <1>13 DEF Lists
  <2>2. active' \in Slots \cup {0} /\ hot' \in Slots \cup {0}
    BY <1>1, <1>12, <1>13 DEF Opened, WindowInvariant, WindowTypeOK
  <2>3. Len(windows') <= Cardinality(Ids)
    BY <1>4 DEF WindowInvariant, WindowTypeOK
  <2> QED
    BY <1>4, <2>1, <2>2, <2>3 DEF WindowTypeOK
<1> QED
  BY <1>6, <1>7, <1>8, <1>12, <1>13, <1>14, <1>15 DEF WindowInvariant

\* get, for a window that has a slot.
LEMMA KnownWindows ==
    ASSUME WindowInvariant, NEW i \in Ids, NEW solid \in BOOLEAN, GetKnown(i, solid)
    PROVE  /\ WindowInvariant'
           /\ Len(windows') = Len(windows)
           /\ \E s \in 1 .. Len(windows) :
                  /\ windows[s].id = i
                  /\ windows'[s].id = i /\ windows'[s].shown /\ windows'[s].interactable = solid
                  /\ \A t \in 1 .. Len(windows) \ {s} : windows'[t] = windows[t]
<1>1. /\ Len(windows) \in Nat /\ DOMAIN windows = 1 .. Len(windows)
      /\ \A s \in 1 .. Len(windows) : windows[s] \in Window
  BY SlotTyped
<1>2. PICK s \in SlotsOf(i) :
          /\ windows' = [windows EXCEPT ![s].shown = TRUE, ![s].interactable = solid]
          /\ UNCHANGED <<front, free, active, hot>>
  BY DEF GetKnown
<1>3. s \in 1 .. Len(windows) /\ windows[s].id = i
  BY <1>1, <1>2 DEF SlotsOf
<1> DEFINE after == [windows[s] EXCEPT !.shown = TRUE, !.interactable = solid]
<1>4. after \in Window /\ after.id = i /\ after.shown /\ after.interactable = solid
  BY <1>1, <1>3 DEF Window
<1>5. windows' = [windows EXCEPT ![s] = after]
  BY <1>2
<1> HIDE DEF after
<1>6. /\ windows' \in Seq(Window) /\ Len(windows') = Len(windows)
      /\ \A t \in 1 .. Len(windows) : windows'[t] = IF t = s THEN after ELSE windows[t]
  BY <1>3, <1>4, <1>5, ExceptSeq DEF WindowInvariant, WindowTypeOK
<1>7. \A t \in 1 .. Len(windows) : windows'[t].id = windows[t].id
  BY <1>3, <1>4, <1>6
<1>8. /\ Opened' = Opened /\ SlotsOf(NoId)' = SlotsOf(NoId)
  <2>1. DOMAIN windows' = 1 .. Len(windows)
    BY <1>6
  <2> QED
    BY <1>1, <1>6, <1>7, <2>1 DEF Opened, SlotsOf
<1>9. OneEach'
  BY <1>6, <1>7 DEF OneEach, WindowInvariant
<1>10. WindowTypeOK'
  BY <1>2, <1>6 DEF WindowInvariant, WindowTypeOK
<1>11. WindowInvariant'
  BY <1>2, <1>8, <1>9, <1>10 DEF WindowInvariant
<1> QED
  BY <1>3, <1>4, <1>6, <1>11

\* If every slot has a window, and none has this one, there is room for one more.
LEMMA RoomForOne ==
    ASSUME WindowInvariant, NEW i \in Ids, SlotsOf(i) = {}, SlotsOf(NoId) = {}
    PROVE  Len(windows) + 1 <= Cardinality(Ids)
<1> DEFINE n == Len(windows)
           others == Ids \ {i}
           name == [s \in 1 .. n |-> windows[s].id]
<1>1. n \in Nat /\ DOMAIN windows = 1 .. n /\ \A s \in 1 .. n : windows[s] \in Window
  BY SlotTyped
<1>2. \A s \in 1 .. n : windows[s].id \in others
  BY <1>1 DEF SlotsOf, Window
<1>3. IsFiniteSet(others) /\ Cardinality(others) = Cardinality(Ids) - 1
  BY WindowAssumption, FS_RemoveElement
<1>4. \A s, t \in 1 .. n : name[s] = name[t] => s = t
  BY <1>2, WindowAssumption DEF WindowInvariant, OneEach
<1>5. name \in Injection(1 .. n, others)
  BY <1>2, <1>4 DEF Injection, IsInjective
<1>6. Cardinality(1 .. n) <= Cardinality(others)
  BY <1>3, <1>5, FS_Injection
<1>7. Cardinality(1 .. n) = n
  BY <1>1, FS_Interval
<1> QED
  BY <1>1, <1>3, <1>6, <1>7, SlotTyped

\* get, for a window that has none: the slot it gets, which no window has.
NewSlot == IF free = <<>> THEN Len(windows) + 1 ELSE Last(free)
Shown(i, solid) == [id |-> i, shown |-> TRUE, interactable |-> solid]

LEMMA NewSlotOpened ==
    ASSUME WindowInvariant, NEW i \in Ids, NEW solid \in BOOLEAN, GetNew(i, solid)
    PROVE  /\ windows' \in Seq(Window) /\ Len(windows') <= Cardinality(Ids)
           /\ Len(windows) <= Len(windows')
           /\ NewSlot \in Slots /\ NewSlot \in 1 .. Len(windows') /\ NewSlot \notin Opened
           /\ windows'[NewSlot] = Shown(i, solid)
           /\ \A t \in 1 .. Len(windows') :
                  t # NewSlot => t \in 1 .. Len(windows) /\ windows'[t] = windows[t]
           /\ Lists(free', SlotsOf(NoId) \ {NewSlot})
<1> DEFINE new == Shown(i, solid)
<1>1. /\ Cardinality(Ids) \in Nat /\ Len(windows) \in Nat
      /\ 1 .. Len(windows) \subseteq Slots
      /\ Opened \cup SlotsOf(NoId) = 1 .. Len(windows)
      /\ Opened \cap SlotsOf(NoId) = {}
  BY SlotTyped
<1>2. windows \in Seq(Window) /\ Len(windows) <= Cardinality(Ids)
  BY DEF WindowInvariant, WindowTypeOK
<1>3. SlotsOf(i) = {}
  BY DEF GetNew
<1>4. new \in Window
  BY DEF Window, Shown
<1>5. windows' = IF free = <<>> THEN Append(windows, new)
                 ELSE [windows EXCEPT ![Last(free)] = new]
  BY DEF GetNew, Shown
<1>6. free' = IF free = <<>> THEN free ELSE Front(free)
  BY DEF GetNew
<1>7. Lists(free, SlotsOf(NoId))
  BY DEF WindowInvariant
<1> HIDE DEF new
<1>8. CASE free = <<>>
  <2>1. NewSlot = Len(windows) + 1
    BY <1>8 DEF NewSlot
  <2>2. SlotsOf(NoId) = {}
    BY <1>7, <1>8, ListsMembers
  <2>3. Len(windows) + 1 <= Cardinality(Ids)
    BY <1>3, <2>2, RoomForOne
  <2>4. windows' = Append(windows, new)
    BY <1>5, <1>8
  <2>5. /\ windows' \in Seq(Window) /\ Len(windows') = Len(windows) + 1
        /\ windows'[Len(windows) + 1] = new
        /\ \A t \in 1 .. Len(windows) : windows'[t] = windows[t]
    BY <1>2, <1>4, <2>4, AppendProperties
  <2>6. NewSlot \in Slots /\ NewSlot \notin 1 .. Len(windows) /\ NewSlot \in 1 .. Len(windows')
    BY <1>1, <2>1, <2>3, <2>5 DEF Slots
  <2>7. \A t \in 1 .. Len(windows') :
            t # NewSlot => t \in 1 .. Len(windows) /\ windows'[t] = windows[t]
    BY <1>1, <2>1, <2>5
  <2>8. NewSlot \notin Opened /\ SlotsOf(NoId) \ {NewSlot} = SlotsOf(NoId)
    BY <1>1, <2>2, <2>6
  <2>9. Lists(free', SlotsOf(NoId) \ {NewSlot})
    BY <1>6, <1>7, <1>8, <2>8
  <2>10. Len(windows') <= Cardinality(Ids) /\ Len(windows) <= Len(windows')
    BY <1>1, <2>3, <2>5
  <2>11. windows'[NewSlot] = Shown(i, solid)
    BY <2>1, <2>5 DEF new
  <2> QED
    BY <2>5, <2>6, <2>7, <2>8, <2>9, <2>10, <2>11
<1>9. CASE free # <<>>
  <2>1. NewSlot = Last(free)
    BY <1>9 DEF NewSlot
  <2>2. NewSlot \in SlotsOf(NoId) /\ Lists(free', SlotsOf(NoId) \ {NewSlot})
    BY <1>6, <1>7, <1>9, <2>1, ListsFront
  <2>3. NewSlot \in 1 .. Len(windows) /\ NewSlot \in Slots /\ NewSlot \notin Opened
    BY <1>1, <2>2
  <2>4. windows' = [windows EXCEPT ![NewSlot] = new]
    BY <1>5, <1>9, <2>1
  <2>5. /\ windows' \in Seq(Window) /\ Len(windows') = Len(windows)
        /\ \A t \in 1 .. Len(windows) : windows'[t] = IF t = NewSlot THEN new ELSE windows[t]
    BY <1>2, <1>4, <2>3, <2>4, ExceptSeq
  <2>6. Len(windows') <= Cardinality(Ids) /\ Len(windows) <= Len(windows')
    BY <1>1, <1>2, <2>5
  <2>7. windows'[NewSlot] = Shown(i, solid)
    BY <2>3, <2>5 DEF new
  <2> QED
    BY <2>2, <2>3, <2>5, <2>6, <2>7
<1> QED
  BY <1>8, <1>9

LEMMA NewWindows ==
    ASSUME WindowInvariant, NEW i \in Ids, NEW solid \in BOOLEAN, GetNew(i, solid)
    PROVE  WindowInvariant'
<1>1. /\ windows' \in Seq(Window) /\ Len(windows') <= Cardinality(Ids)
      /\ Len(windows) <= Len(windows')
      /\ NewSlot \in Slots /\ NewSlot \in 1 .. Len(windows') /\ NewSlot \notin Opened
      /\ windows'[NewSlot] = Shown(i, solid)
      /\ \A t \in 1 .. Len(windows') :
             t # NewSlot => t \in 1 .. Len(windows) /\ windows'[t] = windows[t]
      /\ Lists(free', SlotsOf(NoId) \ {NewSlot})
  BY NewSlotOpened
<1>2. Shown(i, solid).id = i /\ i # NoId
  BY WindowAssumption DEF Shown
<1>3. Len(windows) \in Nat /\ DOMAIN windows = 1 .. Len(windows)
      /\ 1 .. Len(windows) \subseteq Slots
  BY SlotTyped
<1>4. Len(windows') \in Nat /\ DOMAIN windows' = 1 .. Len(windows')
  BY <1>1
<1>5. \A t \in 1 .. Len(windows) : t \in 1 .. Len(windows')
  BY <1>1, <1>3, <1>4
<1>6. Opened' = Opened \cup {NewSlot}
  BY <1>1, <1>2, <1>5 DEF Opened
<1>7. SlotsOf(NoId)' = SlotsOf(NoId) \ {NewSlot}
  BY <1>1, <1>2, <1>3, <1>4, <1>5 DEF SlotsOf
<1>8. PICK ws : /\ front' = Activated(ws, Append(front, NewSlot), NewSlot).order
                /\ active' = Activated(ws, Append(front, NewSlot), NewSlot).active
  BY DEF GetNew, NewSlot
<1>9. Lists(Append(front, NewSlot), Opened \cup {NewSlot})
  BY <1>1, ListsAppend DEF WindowInvariant
<1>10. /\ Lists(front', Opened \cup {NewSlot})
       /\ active' \in (Opened \cup {NewSlot}) \cup {0, active}
  BY <1>8, <1>9, ListsActivated
<1>11. hot' = hot
  BY DEF GetNew
<1>12. WindowTypeOK'
  <2>1. front' \in Seq(Slots) /\ free' \in Seq(Slots)
    BY <1>1, <1>10 DEF Lists
  <2>2. Opened \subseteq Slots
    BY <1>3 DEF Opened
  <2>3. active' \in Slots \cup {0} /\ hot' \in Slots \cup {0}
    BY <1>1, <1>10, <1>11, <2>2 DEF WindowInvariant, WindowTypeOK
  <2> QED
    BY <1>1, <2>1, <2>3 DEF WindowTypeOK
<1>13. OneEach'
  <2> SUFFICES ASSUME NEW s \in 1 .. Len(windows'), NEW t \in 1 .. Len(windows'),
                      windows'[s].id = windows'[t].id, windows'[s].id # NoId
               PROVE  s = t
    BY DEF OneEach
  <2>1. \A u \in 1 .. Len(windows') : u # NewSlot => windows'[u].id # i
    <3>1. \A u \in 1 .. Len(windows) : windows[u].id # i
      BY <1>3 DEF GetNew, SlotsOf
    <3> QED
      BY <1>1, <3>1
  <2>2. CASE s = NewSlot \/ t = NewSlot
    BY <1>1, <1>2, <2>1, <2>2
  <2>3. CASE s # NewSlot /\ t # NewSlot
    BY <1>1, <2>3 DEF WindowInvariant, OneEach
  <2> QED
    BY <2>2, <2>3
<1>14. hot' \in Opened' \cup {0}
  BY <1>6, <1>11 DEF WindowInvariant
<1> QED
  BY <1>1, <1>6, <1>7, <1>10, <1>12, <1>13, <1>14 DEF WindowInvariant

\* get, for any window: it is shown, and the others stay as they are.
LEMMA DrawnWindows ==
    ASSUME WindowInvariant, NEW i \in Ids, NEW solid \in BOOLEAN,
           GetKnown(i, solid) \/ GetNew(i, solid)
    PROVE  /\ WindowInvariant'
           /\ \E s \in 1 .. Len(windows') :
                  windows'[s].id = i /\ windows'[s].shown /\ windows'[s].interactable = solid
           /\ \A t \in Opened : windows[t].id # i =>
                  t \in 1 .. Len(windows') /\ windows'[t] = windows[t]
<1>1. CASE GetKnown(i, solid)
  <2>1. /\ WindowInvariant' /\ Len(windows') = Len(windows)
        /\ \E s \in 1 .. Len(windows) :
               /\ windows[s].id = i
               /\ windows'[s].id = i /\ windows'[s].shown /\ windows'[s].interactable = solid
               /\ \A t \in 1 .. Len(windows) \ {s} : windows'[t] = windows[t]
    BY <1>1, KnownWindows
  <2> QED
    BY <2>1 DEF Opened
<1>2. CASE GetNew(i, solid)
  <2>1. WindowInvariant'
    BY <1>2, NewWindows
  <2>2. /\ windows' \in Seq(Window) /\ Len(windows) <= Len(windows')
        /\ NewSlot \in 1 .. Len(windows') /\ NewSlot \notin Opened
        /\ windows'[NewSlot] = Shown(i, solid)
        /\ \A t \in 1 .. Len(windows') : t # NewSlot => windows'[t] = windows[t]
    BY <1>2, NewSlotOpened
  <2>3. Len(windows) \in Nat /\ Len(windows') \in Nat
    BY <2>2, SlotTyped
  <2>4. \A t \in 1 .. Len(windows) : t \in 1 .. Len(windows')
    BY <2>2, <2>3
  <2>5. /\ Shown(i, solid).id = i /\ Shown(i, solid).shown
        /\ Shown(i, solid).interactable = solid
    BY DEF Shown
  <2>6. \E s \in 1 .. Len(windows') :
            windows'[s].id = i /\ windows'[s].shown /\ windows'[s].interactable = solid
    BY <2>2, <2>5
  <2>7. \A t \in Opened : t \in 1 .. Len(windows') /\ windows'[t] = windows[t]
    BY <2>2, <2>4 DEF Opened
  <2> QED
    BY <2>1, <2>6, <2>7
<1> QED
  BY <1>1, <1>2

-----------------------------------------------------------------------------
(***************************************************************************)
(* What the game takes for pressed                                         *)
(***************************************************************************)
\* The types of the input.
InputTypeOK ==
    /\ client \in [Keys -> BOOLEAN] /\ told \in BOOLEAN
    /\ pressed \subseteq Inputs /\ taken \subseteq Inputs

InputInvariant == InputTypeOK /\ GameInputReal

\* At the start nothing is pressed and the game has been told of nothing.
LEMMA InitInput == Init => InputInvariant
BY InputAssumption DEF Init, InputInvariant, InputTypeOK, GameInputReal, Inputs

\* A step that leaves the input alone keeps the invariant.
LEMMA InputUnchanged ==
    ASSUME InputInvariant, UNCHANGED <<client, told, pressed, taken>>
    PROVE  InputInvariant'
BY DEF InputInvariant, InputTypeOK, GameInputReal

\* A message about the mouse, whoever takes it.
LEMMA MouseInput ==
    ASSUME InputInvariant, MousePress \/ MouseRelease
    PROVE  InputInvariant'
<1> USE DEF InputInvariant, InputTypeOK, GameInputReal, Inputs
<1>1. CASE MousePress
  <2>1. /\ told' = told \/ told' = TRUE
        /\ pressed' = pressed \cup {MouseButton}
        /\ taken' = taken \ {MouseButton}
        /\ client' = client
    BY <1>1 DEF MousePress
  <2>2. InputTypeOK'
    BY <2>1
  <2>3. \A k \in Keys : client'[k] =>
            k \in taken' \/ \E j \in pressed' \cap Keys : KeyOf[j] = k
    BY <2>1, InputAssumption
  <2> QED
    BY <2>1, <2>2, <2>3
<1>2. CASE MouseRelease
  <2>1. /\ pressed' = pressed \ {MouseButton}
        /\ \/ taken' = taken \cup {MouseButton} /\ told' = told
           \/ told' = FALSE /\ taken' = taken
        /\ client' = client
    BY <1>2 DEF MouseRelease
  <2>2. InputTypeOK'
    BY <2>1
  <2>3. \A k \in Keys : client'[k] =>
            k \in taken' \/ \E j \in pressed' \cap Keys : KeyOf[j] = k
    BY <2>1, InputAssumption
  <2>4. told' => MouseButton \in pressed' \cup taken'
    BY <2>1
  <2> QED
    BY <2>2, <2>3, <2>4
<1> QED
  BY <1>1, <1>2

\* A key goes down, for an edit or for the game.
LEMMA KeyDownInput ==
    ASSUME InputInvariant, NEW k \in Keys, KeyDown(k)
    PROVE  InputInvariant'
<1> USE DEF InputInvariant, InputTypeOK, GameInputReal, Inputs
<1>1. /\ pressed' = pressed \cup {k}
      /\ told' = told
      /\ \/ client' = client /\ taken' = taken
         \/ /\ client' = [client EXCEPT ![KeyOf[k]] = TRUE]
            /\ taken' = taken \ {KeyOf[k]}
  BY DEF KeyDown
<1>2. KeyOf[k] \in Keys /\ MouseButton \notin Keys
  BY InputAssumption
<1>3. InputTypeOK'
  BY <1>1, <1>2
<1>4. ASSUME NEW j \in Keys, client'[j]
      PROVE  j \in taken' \/ \E i \in pressed' \cap Keys : KeyOf[i] = j
  <2>1. CASE j = KeyOf[k]
    BY <1>1, <2>1
  <2>2. CASE j # KeyOf[k]
    <3>1. client[j]
      BY <1>1, <1>2, <1>4, <2>2
    <3> QED
      BY <1>1, <2>2, <3>1
  <2> QED
    BY <2>1, <2>2
<1>5. told' => MouseButton \in pressed' \cup taken'
  BY <1>1, <1>2
<1> QED
  BY <1>3, <1>4, <1>5

\* A key comes up: an edit takes the release, or the game is told.
LEMMA KeyUpInput ==
    ASSUME InputInvariant, NEW k \in Keys, KeyUp(k)
    PROVE  InputInvariant'
<1> USE DEF InputInvariant, InputTypeOK, GameInputReal, Inputs
<1>1. /\ pressed' = pressed \ {k}
      /\ told' = told
      /\ \/ client' = client /\ taken' = taken \cup {KeyOf[k]}
         \/ client' = [client EXCEPT ![KeyOf[k]] = FALSE] /\ taken' = taken
  BY DEF KeyUp
<1>2. KeyOf[k] \in Keys /\ MouseButton \notin Keys
  BY InputAssumption
<1>3. InputTypeOK'
  BY <1>1, <1>2
<1>4. ASSUME NEW j \in Keys, client'[j]
      PROVE  j \in taken' \/ \E i \in pressed' \cap Keys : KeyOf[i] = j
  <2>1. CASE j = KeyOf[k]
    BY <1>1, <1>2, <1>4, <2>1
  <2>2. CASE j # KeyOf[k]
    <3>1. client[j]
      BY <1>1, <1>2, <1>4, <2>2
    <3> QED
      BY <1>1, <2>2, <3>1
  <2> QED
    BY <2>1, <2>2
<1>5. told' => MouseButton \in pressed' \cup taken'
  BY <1>1, <1>2
<1> QED
  BY <1>3, <1>4, <1>5

\* The game's window loses the focus: the game has no key down.
LEMMA KillFocusInput ==
    ASSUME InputInvariant, KillFocus
    PROVE  InputInvariant'
BY InputAssumption DEF KillFocus, InputInvariant, InputTypeOK, GameInputReal, Inputs

\* Every step keeps the invariant.
LEMMA NextInput ==
    ASSUME InputInvariant, [Next]_vars
    PROVE  InputInvariant'
<1>1. CASE MouseMove
  BY <1>1, InputUnchanged DEF MouseMove, gameVars
<1>2. CASE MousePress \/ MouseRelease
  BY <1>2, MouseInput
<1>3. ASSUME NEW k \in Keys, KeyDown(k)
      PROVE  InputInvariant'
  BY <1>3, KeyDownInput
<1>4. ASSUME NEW k \in Keys, KeyUp(k)
      PROVE  InputInvariant'
  BY <1>4, KeyUpInput
<1>5. CASE KillFocus
  BY <1>5, KillFocusInput
<1>6. CASE BeginFrame
  BY <1>6, InputUnchanged DEF BeginFrame, gameVars
<1>7. ASSUME NEW i \in Ids, Draw(i)
      PROVE  InputInvariant'
  BY <1>7, InputUnchanged DEF Draw, gameVars
<1>8. CASE EndFrame
  BY <1>8, InputUnchanged DEF EndFrame, gameVars
<1>9. CASE UNCHANGED vars
  BY <1>9, InputUnchanged DEF vars
<1> QED
  BY <1>1, <1>2, <1>3, <1>4, <1>5, <1>6, <1>7, <1>8, <1>9 DEF Next

-----------------------------------------------------------------------------
(***************************************************************************)
(* What holds the mouse                                                    *)
(***************************************************************************)
ContextTypeOK ==
    /\ focus \in [Slots -> Ids \cup {NoId}]
    /\ holder \in Buttons \cup {NoId} /\ holderUsed \in BOOLEAN
    /\ point \in Points
    /\ mouse \in [pressed : BOOLEAN, released : BOOLEAN, held : BOOLEAN]
    /\ phase \in {"messages", "drawing"}

\* The window of what holds the mouse and was drawn is on the screen.
HolderOnScreen ==
    holder # NoId /\ holderUsed =>
        \E s \in 1 .. Len(windows) :
            windows[s].id = holder /\ windows[s].shown /\ windows[s].interactable

\* What holds the mouse lets go when it is drawn after the release, and when it
\* was not drawn.
HolderHeld ==
    /\ mouse.pressed => mouse.held \/ mouse.released
    /\ holder # NoId /\ (phase = "drawing" \/ holderUsed) => mouse.held \/ mouse.released
    /\ holder # NoId /\ phase = "drawing" /\ holderUsed => ~mouse.released

InterfaceInvariant ==
    InputInvariant /\ WindowInvariant /\ ContextTypeOK /\ HolderOnScreen /\ HolderHeld

LEMMA InitInterface == Init => InterfaceInvariant
<1> SUFFICES ASSUME Init PROVE InterfaceInvariant
  OBVIOUS
<1>1. InputInvariant /\ WindowInvariant
  BY InitInput, InitWindows DEF Init
<1>2. ContextTypeOK /\ HolderOnScreen /\ HolderHeld
  BY DEF Init, ContextTypeOK, HolderOnScreen, HolderHeld
<1> QED
  BY <1>1, <1>2 DEF InterfaceInvariant

\* What a message does to the rest: the mouse's state and what is hot.
LEMMA MouseMessage ==
    ASSUME InterfaceInvariant, MouseMove \/ MousePress \/ MouseRelease
    PROVE  WindowInvariant' /\ ContextTypeOK' /\ HolderOnScreen' /\ HolderHeld'
<1> USE DEF InterfaceInvariant
<1>1. PICK at : hot' = HotAt(windows, front, at)
  BY DEF MouseMove, MousePress, MouseRelease
<1>2. UNCHANGED <<windows, front, free, active>> /\ UNCHANGED contextVars
  BY DEF MouseMove, MousePress, MouseRelease
<1>3. WindowInvariant'
  BY <1>1, <1>2, HotWindows
<1>4. /\ point' \in Points
      /\ \/ mouse' = mouse
         \/ mouse' = [mouse EXCEPT !.pressed = TRUE, !.held = TRUE]
         \/ mouse' = [mouse EXCEPT !.released = TRUE, !.held = FALSE]
  BY DEF ContextTypeOK, MouseMove, MousePress, MouseRelease
<1>5. phase = "messages"
  BY DEF MouseMove, MousePress, MouseRelease
<1>6. mouse' \in [pressed : BOOLEAN, released : BOOLEAN, held : BOOLEAN]
  BY <1>4 DEF ContextTypeOK
<1>7. /\ mouse'.held \/ mouse'.released \/ mouse' = mouse
  BY <1>4 DEF ContextTypeOK
<1>8. ContextTypeOK'
  BY <1>2, <1>4, <1>6 DEF ContextTypeOK, contextVars
<1>9. HolderOnScreen' /\ HolderHeld'
  BY <1>2, <1>5, <1>7 DEF HolderOnScreen, HolderHeld, contextVars
<1> QED
  BY <1>3, <1>8, <1>9

\* A step that leaves the windows and the context alone.
LEMMA RestUnchanged ==
    ASSUME InterfaceInvariant, UNCHANGED <<windowVars, contextVars, point, mouse>>
    PROVE  WindowInvariant' /\ ContextTypeOK' /\ HolderOnScreen' /\ HolderHeld'
<1>1. UNCHANGED <<windows, front, free, active, hot>>
  BY DEF windowVars
<1>2. UNCHANGED <<focus, holder, holderUsed, phase, point, mouse>>
  BY DEF contextVars
<1>3. Opened' = Opened /\ SlotsOf(NoId)' = SlotsOf(NoId) /\ OneEach' = OneEach
      /\ WindowTypeOK' = WindowTypeOK
  BY <1>1 DEF Opened, SlotsOf, OneEach, WindowTypeOK
<1>4. WindowInvariant'
  BY <1>1, <1>3 DEF InterfaceInvariant, WindowInvariant
<1>5. ContextTypeOK' /\ HolderOnScreen' /\ HolderHeld'
  BY <1>1, <1>2 DEF InterfaceInvariant, ContextTypeOK, HolderOnScreen, HolderHeld
<1> QED
  BY <1>4, <1>5

\* A frame begins: what was not drawn lets go.
LEMMA BeginFrameRest ==
    ASSUME InterfaceInvariant, BeginFrame
    PROVE  WindowInvariant' /\ ContextTypeOK' /\ HolderOnScreen' /\ HolderHeld'
<1>1. WindowInvariant'
  BY UpdateWindows DEF BeginFrame, InterfaceInvariant
<1>2. ContextTypeOK'
  BY DEF BeginFrame, InterfaceInvariant, ContextTypeOK
<1>3. HolderOnScreen' /\ HolderHeld'
  BY DEF BeginFrame, InterfaceInvariant, HolderOnScreen, HolderHeld
<1> QED
  BY <1>1, <1>2, <1>3

\* A button takes the mouse, keeps it or lets go.
LEMMA ButtonHolds ==
    ASSUME ContextTypeOK, HolderHeld, phase = "drawing", NEW s, NEW i \in Buttons,
           NEW enabled \in BOOLEAN, Button(s, i, enabled)
    PROVE  /\ holder' \in Buttons \cup {NoId} /\ holderUsed' \in BOOLEAN
           /\ holder' # NoId => mouse.held \/ mouse.released
           /\ holder' # NoId /\ holderUsed' => ~mouse.released
           /\ holder' \notin {i, NoId} => holder' = holder /\ holderUsed' = holderUsed
<1> DEFINE held == holder = i \/ (holder = NoId /\ Hit(s, i) /\ mouse.pressed)
<1>1. /\ holderUsed' = (holderUsed \/ holder = i \/ (enabled /\ held))
      /\ holder' = IF enabled /\ held /\ ~mouse.released THEN i
                   ELSE IF holder = i \/ (enabled /\ held) THEN NoId ELSE holder
  BY DEF Button
<1>2. held => holder = i \/ (holder = NoId /\ mouse.pressed)
  OBVIOUS
<1> HIDE DEF held
<1>3. i # NoId
  BY InputAssumption, WindowAssumption
<1> QED
  BY <1>1, <1>2, <1>3 DEF ContextTypeOK, HolderHeld

\* A window is shown, and its widget drawn unless it is hidden.
LEMMA DrawRest ==
    ASSUME InterfaceInvariant, NEW i \in Ids, Draw(i)
    PROVE  WindowInvariant' /\ ContextTypeOK' /\ HolderOnScreen' /\ HolderHeld'
<1>1. /\ phase = "drawing" /\ UNCHANGED <<phase, point, mouse>>
      /\ \A s \in SlotsOf(i) : ~windows[s].shown
  BY DEF Draw
<1>2. PICK hidden \in BOOLEAN, enabled \in BOOLEAN :
          /\ GetKnown(i, ~hidden) \/ GetNew(i, ~hidden)
          /\ IF hidden THEN UNCHANGED <<focus, holder, holderUsed>>
             ELSE \E s \in DOMAIN windows' :
                     /\ windows'[s].id = i
                     /\ IF i \in Buttons THEN Button(s, i, enabled) ELSE Edit(s, i, enabled)
  BY DEF Draw
<1>3. WindowInvariant /\ ContextTypeOK /\ HolderOnScreen /\ HolderHeld
  BY DEF InterfaceInvariant
<1>4. /\ WindowInvariant'
      /\ \E s \in 1 .. Len(windows') :
             windows'[s].id = i /\ windows'[s].shown /\ windows'[s].interactable = ~hidden
      /\ \A t \in Opened : windows[t].id # i =>
             t \in 1 .. Len(windows') /\ windows'[t] = windows[t]
  <2>1. PICK solid \in BOOLEAN : solid = ~hidden
    OBVIOUS
  <2>2. GetKnown(i, solid) \/ GetNew(i, solid)
    BY <1>2, <2>1
  <2>3. /\ WindowInvariant'
        /\ \E s \in 1 .. Len(windows') :
               windows'[s].id = i /\ windows'[s].shown /\ windows'[s].interactable = solid
        /\ \A t \in Opened : windows[t].id # i =>
               t \in 1 .. Len(windows') /\ windows'[t] = windows[t]
    BY <1>3, <2>2, DrawnWindows
  <2> QED
    BY <2>1, <2>3
\* What holds the mouse and was drawn already is not this one, and stays.
<1>5. holder # NoId /\ holderUsed =>
          \E s \in 1 .. Len(windows') :
              windows'[s].id = holder /\ windows'[s].shown /\ windows'[s].interactable
  <2> SUFFICES ASSUME holder # NoId, holderUsed
               PROVE  \E s \in 1 .. Len(windows') :
                          windows'[s].id = holder /\ windows'[s].shown /\ windows'[s].interactable
    OBVIOUS
  <2>1. PICK t \in 1 .. Len(windows) :
            windows[t].id = holder /\ windows[t].shown /\ windows[t].interactable
    BY <1>3 DEF HolderOnScreen
  <2>2. t \in Opened
    BY <2>1 DEF Opened
  <2>3. windows[t].id # i
    BY <1>1, <1>3, <2>1, SlotTyped DEF SlotsOf
  <2> QED
    BY <1>4, <2>1, <2>2, <2>3
<1>6. CASE UNCHANGED <<holder, holderUsed>> /\ focus' \in [Slots -> Ids \cup {NoId}]
  <2>1. ContextTypeOK'
    BY <1>1, <1>3, <1>6 DEF ContextTypeOK
  <2>2. HolderOnScreen'
    BY <1>5, <1>6 DEF HolderOnScreen
  <2>3. HolderHeld'
    BY <1>1, <1>3, <1>6 DEF HolderHeld
  <2> QED
    BY <1>4, <2>1, <2>2, <2>3
<1>7. CASE hidden
  BY <1>2, <1>3, <1>6, <1>7 DEF ContextTypeOK
<1>8. CASE ~hidden /\ i \notin Buttons
  <2>1. PICK s : Edit(s, i, enabled)
    BY <1>2, <1>8
  <2>2. focus' \in [Slots -> Ids \cup {NoId}] /\ UNCHANGED <<holder, holderUsed>>
    BY <1>3, <2>1 DEF Edit, ContextTypeOK
  <2> QED
    BY <1>6, <2>2
<1>9. CASE ~hidden /\ i \in Buttons
  <2>1. PICK s : Button(s, i, enabled)
    BY <1>2, <1>9
  <2>2. focus' = focus
    BY <2>1 DEF Button
  <2>3. /\ holder' \in Buttons \cup {NoId} /\ holderUsed' \in BOOLEAN
        /\ holder' # NoId => mouse.held \/ mouse.released
        /\ holder' # NoId /\ holderUsed' => ~mouse.released
        /\ holder' \notin {i, NoId} => holder' = holder /\ holderUsed' = holderUsed
    BY <1>1, <1>3, <1>9, <2>1, ButtonHolds
  <2>4. ContextTypeOK'
    BY <1>1, <1>3, <2>2, <2>3 DEF ContextTypeOK
  <2>5. HolderHeld'
    BY <1>1, <1>3, <2>3 DEF HolderHeld
  <2>6. HolderOnScreen'
    <3>1. CASE holder' = i
      BY <1>4, <1>9, <3>1 DEF HolderOnScreen
    <3>2. CASE holder' # i
      BY <1>5, <2>3, <3>2 DEF HolderOnScreen
    <3> QED
      BY <3>1, <3>2
  <2> QED
    BY <1>4, <2>4, <2>5, <2>6
<1> QED
  BY <1>7, <1>8, <1>9

\* A frame ends: what still holds the mouse was drawn after any release.
LEMMA EndFrameRest ==
    ASSUME InterfaceInvariant, EndFrame
    PROVE  WindowInvariant' /\ ContextTypeOK' /\ HolderOnScreen' /\ HolderHeld'
<1>1. /\ UNCHANGED <<windowVars, focus, holder, holderUsed, point>>
      /\ phase = "drawing" /\ phase' = "messages"
      /\ mouse' = [mouse EXCEPT !.pressed = FALSE, !.released = FALSE]
  BY DEF EndFrame
<1>2. UNCHANGED <<windows, front, free, active, hot>>
  BY <1>1 DEF windowVars
<1>3. Opened' = Opened /\ SlotsOf(NoId)' = SlotsOf(NoId) /\ OneEach' = OneEach
      /\ WindowTypeOK' = WindowTypeOK
  BY <1>2 DEF Opened, SlotsOf, OneEach, WindowTypeOK
<1>4. WindowInvariant'
  BY <1>2, <1>3 DEF InterfaceInvariant, WindowInvariant
<1>5. mouse'.pressed = FALSE /\ mouse'.released = FALSE /\ mouse'.held = mouse.held
  BY <1>1 DEF InterfaceInvariant, ContextTypeOK
<1>6. ContextTypeOK'
  BY <1>1 DEF InterfaceInvariant, ContextTypeOK
<1>7. HolderOnScreen'
  BY <1>1, <1>2 DEF InterfaceInvariant, HolderOnScreen
<1>8. HolderHeld'
  BY <1>1, <1>5 DEF InterfaceInvariant, HolderHeld
<1> QED
  BY <1>4, <1>6, <1>7, <1>8

-----------------------------------------------------------------------------
(***************************************************************************)
(* The theorems                                                            *)
(***************************************************************************)
\* The inductive invariant of the windows, of what holds the mouse and of the
\* input holds in every state the messages and the frames lead to.
THEOREM InvariantHolds == Spec => []InterfaceInvariant
<1>1. InterfaceInvariant /\ [Next]_vars => InterfaceInvariant'
  <2> SUFFICES ASSUME InterfaceInvariant, [Next]_vars
               PROVE  InterfaceInvariant'
    OBVIOUS
  <2>1. InputInvariant'
    BY NextInput DEF InterfaceInvariant
  <2>2. CASE MouseMove \/ MousePress \/ MouseRelease
    BY <2>1, <2>2, MouseMessage DEF InterfaceInvariant
  <2>3. CASE \/ \E k \in Keys : KeyDown(k) \/ KeyUp(k)
             \/ KillFocus
    <3>1. UNCHANGED <<windowVars, contextVars, point, mouse>>
      BY <2>3 DEF KeyDown, KeyUp, KillFocus
    <3> QED
      BY <2>1, <3>1, RestUnchanged DEF InterfaceInvariant
  <2>4. CASE BeginFrame
    BY <2>1, <2>4, BeginFrameRest DEF InterfaceInvariant
  <2>5. CASE \E i \in Ids : Draw(i)
    BY <2>1, <2>5, DrawRest DEF InterfaceInvariant
  <2>6. CASE EndFrame
    BY <2>1, <2>6, EndFrameRest DEF InterfaceInvariant
  <2>7. CASE UNCHANGED vars
    <3>1. UNCHANGED <<windowVars, contextVars, point, mouse>>
      BY <2>7 DEF vars, contextVars
    <3> QED
      BY <2>1, <3>1, RestUnchanged DEF InterfaceInvariant
  <2> QED
    BY <2>2, <2>3, <2>4, <2>5, <2>6, <2>7 DEF Next
<1> QED
  BY <1>1, InitInterface, PTL DEF Spec

\* Every variable of the windows, the context and the input has its type: no
\* index of get or update is past the slots there are windows for.
THEOREM TypeOKHolds == Spec => []TypeOK
<1>1. InterfaceInvariant => TypeOK
  BY DEF InterfaceInvariant, InputInvariant, InputTypeOK, WindowInvariant, ContextTypeOK, TypeOK
<1> QED
  BY <1>1, InvariantHolds, PTL

\* window_manager::get and update neither lose a slot nor give one to two
\* windows, and what is hot is of the order: for any number of windows.
THEOREM SlotsAccountedHolds == Spec => []SlotsAccounted
<1>1. InterfaceInvariant => SlotsAccounted
  BY SlotsAreAccounted DEF InterfaceInvariant
<1> QED
  BY <1>1, InvariantHolds, PTL

\* context::begin_frame leaves the mouse only to a widget that was drawn, in a
\* window that was shown, and whose button is held or was released since.
THEOREM HolderShownHolds == Spec => HolderShown
<1> DEFINE Kept == /\ \E s \in SlotsOf(holder') : windows[s].shown /\ windows[s].interactable
                   /\ mouse.held \/ mouse.released
<1>1. ASSUME InterfaceInvariant, [Next]_vars,
             phase = "messages", phase' = "drawing", holder' # NoId
      PROVE  Kept
  <2>1. BeginFrame
    BY <1>1 DEF Next, MouseMove, MousePress, MouseRelease, KeyDown, KeyUp, KillFocus, Draw,
                EndFrame, contextVars, vars
  <2>2. holderUsed /\ holder' = holder
    BY <1>1, <2>1 DEF BeginFrame
  <2>3. DOMAIN windows = 1 .. Len(windows)
    BY <1>1, SlotTyped DEF InterfaceInvariant
  <2>4. \E s \in SlotsOf(holder') : windows[s].shown /\ windows[s].interactable
    BY <1>1, <2>2, <2>3 DEF InterfaceInvariant, HolderOnScreen, SlotsOf
  <2>5. mouse.held \/ mouse.released
    BY <1>1, <2>2 DEF InterfaceInvariant, HolderHeld
  <2> QED
    BY <2>4, <2>5
<1>2. InterfaceInvariant /\ [Next]_vars =>
          [phase = "messages" /\ phase' = "drawing" /\ holder' # NoId => Kept]_vars
  BY <1>1
<1> QED
  BY <1>2, InvariantHolds, PTL DEF Spec, HolderShown

\* What the game takes for pressed is pressed, or the interface took its release
\* (key_state, binding_manager.cpp:1348; process_message, context.cpp:805): for every
\* order of messages, frames and windows.
THEOREM GameInputRealHolds == Spec => []GameInputReal
<1>1. InputInvariant => GameInputReal
  BY DEF InputInvariant
<1> QED
  BY InitInput, NextInput, <1>1, PTL DEF Spec
================================================================================
