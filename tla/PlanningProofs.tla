--------------------------- MODULE PlanningProofs ---------------------------
(***************************************************************************)
(* What the planning tools promise about ROADMAP.md and the phase          *)
(* directories, for every roadmap, any bound and any sequence of commands. *)
(*                                                                         *)
(* The order of core.cjs's comparePhaseNum is a strict weak order, for     *)
(* every phase number: what Array.prototype.sort needs to give the same    *)
(* listing whatever order the directory was read in.  The properties that  *)
(* follow rest on PlanningInv, below: a roadmap of sections the tools can  *)
(* have written, finitely many directories, and decimals that count from   *)
(* 1.  The last is what makes the first match of a search the exact one:   *)
(* 3 and 3.0 compare as equal, so with a phase 3.0 on disk a listing could *)
(* give it for phase 3.                                                    *)
(***************************************************************************)
EXTENDS PlanningQueries, FiniteSetTheorems, SequenceTheorems, WellFoundedInduction, TLAPS

\* A missing decimal counts as 0.
LEMMA SegmentType ==
  ASSUME NEW s \in Seq(Nat), NEW i \in Nat \ {0}
  PROVE  Segment(s, i) \in Nat
BY DEF Segment

\* The longer of two lists of decimals is as long as each.
LEMMA LongerLenType ==
  ASSUME NEW s \in Seq(Nat), NEW t \in Seq(Nat)
  PROVE  /\ LongerLen(s, t) \in Nat
         /\ Len(s) <= LongerLen(s, t)
         /\ Len(t) <= LongerLen(s, t)
BY DEF LongerLen

(***************************************************************************)
(* No list of decimals sorts before itself.                                *)
(***************************************************************************)
LEMMA DecimalsIrreflexive ==
  ASSUME NEW s \in Seq(Nat)
  PROVE  ~DecimalsBefore(s, s)
<1>1. ASSUME NEW i \in 1 .. LongerLen(s, s), Segment(s, i) < Segment(s, i)
      PROVE  FALSE
  BY <1>1, SegmentType, LongerLenType
<1>2. QED
  BY <1>1 DEF DecimalsBefore

(***************************************************************************)
(* A segment that is larger than some natural number really exists.        *)
(***************************************************************************)
LEMMA LargerSegmentExists ==
  ASSUME NEW s \in Seq(Nat), NEW t \in Seq(Nat), NEW i \in Nat \ {0},
         Segment(s, i) < Segment(t, i)
  PROVE  i \in 1 .. LongerLen(s, t)
<1>1. Segment(s, i) >= 0
  BY SegmentType
<1>2. i <= Len(t)
  BY <1>1 DEF Segment
<1>3. QED
  BY <1>2, LongerLenType

(***************************************************************************)
(* Decimals: the smaller of the two deciding positions decides for the     *)
(* outer pair.                                                             *)
(***************************************************************************)
LEMMA DecimalsTransitive ==
  ASSUME NEW s \in Seq(Nat), NEW t \in Seq(Nat), NEW u \in Seq(Nat),
         DecimalsBefore(s, t), DecimalsBefore(t, u)
  PROVE  DecimalsBefore(s, u)
<1>1. CASE s = << >>
  BY <1>1 DEF DecimalsBefore
<1>2. CASE s # << >>
  <2>1. t # << >> /\ u # << >>
    BY <1>2 DEF DecimalsBefore
  <2>2. PICK i \in 1 .. LongerLen(s, t) :
           /\ Segment(s, i) < Segment(t, i)
           /\ \A j \in 1 .. (i - 1) : Segment(s, j) = Segment(t, j)
    BY <1>2 DEF DecimalsBefore
  <2>3. PICK k \in 1 .. LongerLen(t, u) :
           /\ Segment(t, k) < Segment(u, k)
           /\ \A j \in 1 .. (k - 1) : Segment(t, j) = Segment(u, j)
    BY <2>1 DEF DecimalsBefore
  <2>4. i \in Nat \ {0} /\ k \in Nat \ {0}
    BY LongerLenType
  <2> DEFINE m == IF i < k THEN i ELSE k
  <2>5. m \in Nat \ {0} /\ m <= i /\ m <= k
    BY <2>4
  <2>6. /\ Segment(s, m) \in Nat /\ Segment(t, m) \in Nat
        /\ Segment(u, m) \in Nat
    BY <2>5, SegmentType
  <2>7. Segment(s, m) < Segment(u, m)
    <3>1. CASE i < k
      <4>1. Segment(t, i) = Segment(u, i)
        BY <2>3, <2>4, <3>1
      <4>2. QED BY <4>1, <2>2, <3>1
    <3>2. CASE i = k
      BY <3>2, <2>2, <2>3, <2>6
    <3>3. CASE k < i
      <4>1. Segment(s, k) = Segment(t, k)
        BY <2>2, <2>4, <3>3
      <4>2. QED BY <4>1, <2>3, <2>4, <3>3
    <3>4. QED BY <3>1, <3>2, <3>3, <2>4
  <2>8. \A j \in 1 .. (m - 1) : Segment(s, j) = Segment(u, j)
    BY <2>2, <2>3, <2>4, <2>5
  <2>9. m \in 1 .. LongerLen(s, u)
    BY <2>5, <2>7, LargerSegmentExists
  <2>10. QED
    BY <1>2, <2>1, <2>7, <2>8, <2>9 DEF DecimalsBefore
<1>3. QED BY <1>1, <1>2

(***************************************************************************)
(* comparePhaseNum orders no phase before itself.                          *)
(***************************************************************************)
THEOREM OrderIrreflexive == \A a \in PhaseNum : ~Before(a, a)
<1> SUFFICES ASSUME NEW a \in PhaseNum PROVE ~Before(a, a)
  OBVIOUS
<1>1. a.int \in Nat /\ a.letter \in Nat /\ a.decs \in Seq(Nat)
  BY DEF PhaseNum
<1>2. ~DecimalsBefore(a.decs, a.decs)
  BY <1>1, DecimalsIrreflexive
<1>3. ~(a.int < a.int) /\ ~(a.letter < a.letter)
  BY <1>1
<1>4. QED
  BY <1>2, <1>3, Zenon DEF Before

(***************************************************************************)
(* comparePhaseNum is transitive: sorting with it never depends on the     *)
(* order the directory entries were read in, except among equals.          *)
(***************************************************************************)
THEOREM OrderTransitive ==
  \A a, b, c \in PhaseNum : Before(a, b) /\ Before(b, c) => Before(a, c)
<1> SUFFICES ASSUME NEW a \in PhaseNum, NEW b \in PhaseNum, NEW c \in PhaseNum,
                    Before(a, b), Before(b, c)
             PROVE  Before(a, c)
  OBVIOUS
<1>1. /\ a.int \in Nat /\ b.int \in Nat /\ c.int \in Nat
      /\ a.letter \in Nat /\ b.letter \in Nat /\ c.letter \in Nat
      /\ a.decs \in Seq(Nat) /\ b.decs \in Seq(Nat) /\ c.decs \in Seq(Nat)
  BY DEF PhaseNum
<1>2. DecimalsBefore(a.decs, b.decs) /\ DecimalsBefore(b.decs, c.decs)
        => DecimalsBefore(a.decs, c.decs)
  BY <1>1, DecimalsTransitive
<1>3. CASE a.int < b.int \/ b.int < c.int
  <2>1. a.int <= b.int /\ b.int <= c.int
    BY <1>1 DEF Before
  <2>2. a.int < c.int
    BY <1>1, <1>3, <2>1
  <2>3. QED BY <2>2 DEF Before
<1>4. CASE /\ a.int = b.int /\ b.int = c.int
           /\ a.letter < b.letter \/ b.letter < c.letter
  <2>1. a.letter <= b.letter /\ b.letter <= c.letter
    BY <1>1, <1>4 DEF Before
  <2>2. a.int = c.int /\ a.letter < c.letter
    BY <1>1, <1>4, <2>1
  <2>3. QED BY <2>2 DEF Before
<1>5. CASE /\ a.int = b.int /\ b.int = c.int
           /\ a.letter = b.letter /\ b.letter = c.letter
  <2>1. DecimalsBefore(a.decs, b.decs) /\ DecimalsBefore(b.decs, c.decs)
    BY <1>1, <1>5 DEF Before
  <2>2. QED BY <1>2, <1>5, <2>1 DEF Before
<1>6. QED
  <2>1. \/ a.int < b.int
        \/ a.int = b.int /\ a.letter < b.letter
        \/ a.int = b.int /\ a.letter = b.letter
    BY DEF Before
  <2>2. \/ b.int < c.int
        \/ b.int = c.int /\ b.letter < c.letter
        \/ b.int = c.int /\ b.letter = c.letter
    BY DEF Before
  <2>3. QED BY <1>3, <1>4, <1>5, <2>1, <2>2

(***************************************************************************)
(* Two phases are never each before the other.                             *)
(***************************************************************************)
THEOREM OrderAsymmetric ==
  \A a, b \in PhaseNum : Before(a, b) => ~Before(b, a)
BY OrderIrreflexive, OrderTransitive

\* The decimal number counted under another has its decimals and one more.
LEMMA ChildType ==
  \A p \in PhaseNum, k \in Nat :
     /\ Child(p, k) \in PhaseNum
     /\ Len(Child(p, k).decs) = Len(p.decs) + 1
     /\ Segment(Child(p, k).decs, Len(p.decs) + 1) = k
     /\ \A i \in 1 .. Len(p.decs) : Segment(Child(p, k).decs, i) = Segment(p.decs, i)
<1> SUFFICES ASSUME NEW p \in PhaseNum, NEW k \in Nat
             PROVE  /\ Child(p, k) \in PhaseNum
                    /\ Len(Child(p, k).decs) = Len(p.decs) + 1
                    /\ Segment(Child(p, k).decs, Len(p.decs) + 1) = k
                    /\ \A i \in 1 .. Len(p.decs) :
                         Segment(Child(p, k).decs, i) = Segment(p.decs, i)
    OBVIOUS
<1>1. p.decs \in Seq(Nat) /\ Append(p.decs, k) \in Seq(Nat)
      BY DEF PhaseNum
<1>2. \A q \in Seq(Nat) : [p EXCEPT !.decs = q].decs = q /\ [p EXCEPT !.decs = q] \in PhaseNum
      BY DEF PhaseNum
<1>3. Child(p, k).decs = Append(p.decs, k) /\ Child(p, k) \in PhaseNum
      BY <1>1, <1>2 DEF Child
<1> DEFINE d == p.decs
           e == Append(d, k)
<1>4. Len(e) = Len(d) + 1 /\ e[Len(d) + 1] = k /\ \A i \in 1 .. Len(d) : e[i] = d[i]
      BY <1>1
<1>5. Len(d) \in Nat
      BY <1>1
<1> HIDE DEF d, e
<1>6. Segment(e, Len(d) + 1) = k
      BY <1>4, <1>5 DEF Segment
<1>7. \A i \in 1 .. Len(d) : Segment(e, i) = Segment(d, i)
      BY <1>4, <1>5 DEF Segment
<1> QED BY <1>3, <1>4, <1>6, <1>7 DEF d, e

(***************************************************************************)
(* The phases inserted under one phase sort in the order of their last     *)
(* decimal, however deep that phase is, so the next decimal number comes   *)
(* after the ones it was counted from (core.cjs:634-661, phase.cjs:405-420). *)
(***************************************************************************)
THEOREM SiblingsInOrder ==
  \A p \in PhaseNum : \A k, l \in Nat : k < l => Before(Child(p, k), Child(p, l))
<1> SUFFICES ASSUME NEW p \in PhaseNum, NEW k \in Nat, NEW l \in Nat, k < l
             PROVE  Before(Child(p, k), Child(p, l))
    OBVIOUS
<1> DEFINE s == Child(p, k).decs
           t == Child(p, l).decs
           n == Len(p.decs) + 1
<1>1. n \in Nat /\ n >= 1 /\ Len(s) = n /\ Len(t) = n
      BY ChildType DEF PhaseNum
<1>2. Segment(s, n) = k /\ Segment(t, n) = l
      BY ChildType
<1>3. \A j \in 1 .. (n - 1) : Segment(s, j) = Segment(t, j)
      BY ChildType, <1>1
<1>4. s # << >> /\ t # << >>
      BY <1>1
<1>5. n \in 1 .. LongerLen(s, t)
      BY <1>1 DEF LongerLen
<1> HIDE DEF s, t, n
<1>6. DecimalsBefore(s, t)
      BY <1>2, <1>3, <1>4, <1>5 DEF DecimalsBefore
<1>7. Child(p, k).int = Child(p, l).int /\ Child(p, k).letter = Child(p, l).letter
      BY DEF Child, PhaseNum
<1> QED BY <1>6, <1>7 DEF Before, s, t

(***************************************************************************)
(* A phase sorts before every decimal phase inserted under it, and the     *)
(* phases inserted under it sort before the next whole phase.              *)
(***************************************************************************)
THEOREM InsertedInPlace ==
  \A n, m \in Nat : \A k \in Nat :
     /\ Before(Whole(n), Child(Whole(n), k))
     /\ n < m => Before(Child(Whole(n), k), Whole(m))
BY DEF Before, Whole, Child, DecimalsBefore

(***************************************************************************)
(* Smallest and largest elements.                                          *)
(***************************************************************************)
\* A set of numbers with an element has a smallest one.
LEMMA MinIsSmallest ==
  ASSUME NEW I \in SUBSET Nat, I # {}
  PROVE  Min(I) \in I /\ \A j \in I : Min(I) <= j
<1>1. PICK m \in I : \A j \in I : ~(<< j, m >> \in OpToRel(<, Nat))
  BY NatLessThanWellFounded, WFMin
<1>2. \A j \in I : ~(j < m)
  BY <1>1 DEF OpToRel
<1>3. \A j \in I : m <= j
  BY <1>2
<1> QED BY <1>1, <1>3 DEF Min

\* A finite set of numbers with an element has a largest one.
LEMMA MaxIsLargest ==
  ASSUME NEW S \in SUBSET Nat, IsFiniteSet(S), S # {}
  PROVE  Max(S) \in S /\ \A j \in S : j <= Max(S)
<1> DEFINE Big(T) == \E m \in T : \A j \in T : j <= m
           Sizes == {k \in Nat : \E T \in SUBSET S : T # {} /\ Cardinality(T) = k /\ ~Big(T)}
<1>1. Sizes = {}
  <2> SUFFICES ASSUME Sizes # {} PROVE FALSE
    OBVIOUS
  <2>1. PICK k \in Sizes : \A l \in Sizes : ~(<< l, k >> \in OpToRel(<, Nat))
    <3>1. Sizes \subseteq Nat
      OBVIOUS
    <3> HIDE DEF Sizes
    <3> QED BY <3>1, NatLessThanWellFounded, WFMin
  <2>2. \A l \in Sizes : ~(l < k)
    BY <2>1 DEF OpToRel
  <2>3. PICK T \in SUBSET S : T # {} /\ Cardinality(T) = k /\ ~Big(T)
    OBVIOUS
  <2>4. PICK x : x \in T
    BY <2>3
  <2> DEFINE U == T \ {x}
  <2>5. IsFiniteSet(T)
    BY FS_Subset
  <2>6. Cardinality(U) = k - 1 /\ k \in Nat
    BY <2>3, <2>4, <2>5, FS_RemoveElement
  <2>7. CASE U = {}
    <3>1. T = {x} /\ x \in Nat
      BY <2>4, <2>7
    <3> QED BY <2>3, <3>1
  <2>8. CASE U # {}
    <3>1. IsFiniteSet(U)
      BY <2>5, FS_RemoveElement
    <3>2. k - 1 \in Nat
      BY <2>6, <3>1, FS_CardinalityType
    <3>3. k - 1 \notin Sizes
      BY <2>2, <3>2
    <3>4. Big(U)
      BY <2>6, <2>8, <3>2, <3>3
    <3>5. PICK m \in U : \A j \in U : j <= m
      BY <3>4
    <3>6. x \in Nat /\ m \in Nat /\ \A j \in T : j \in Nat
      BY <2>4
    <3>7. CASE x <= m
      BY <2>3, <3>5, <3>6, <3>7
    <3>8. CASE m < x
      BY <2>3, <2>4, <3>5, <3>6, <3>8
    <3> QED BY <3>6, <3>7, <3>8
  <2> QED BY <2>7, <2>8
<1>2. Cardinality(S) \in Nat
  BY FS_CardinalityType
<1>3. Big(S)
  BY <1>1, <1>2
<1> HIDE DEF Sizes
<1> QED BY <1>3 DEF Max

\* What appending does to the elements.
LEMMA AppendedSet ==
  ASSUME NEW S, NEW q \in Seq(S), NEW x \in S
  PROVE  Append(q, x) \in Seq(S) /\ ToSet(Append(q, x)) = ToSet(q) \cup {x}
<1> DEFINE r == Append(q, x)
<1>1. /\ r \in Seq(S) /\ Len(q) \in Nat /\ Len(r) = Len(q) + 1
      /\ \A i \in 1 .. Len(q) : r[i] = q[i]
      /\ r[Len(q) + 1] = x
  BY AppendProperties, LenProperties
<1>2. DOMAIN q = 1 .. Len(q) /\ DOMAIN r = 1 .. Len(r)
  BY <1>1
<1> HIDE DEF r
<1>3. ToSet(r) = ToSet(q) \cup {x}
  BY <1>1, <1>2 DEF ToSet
<1> QED BY <1>1, <1>3 DEF r

(***************************************************************************)
(* The current milestone of a roadmap.                                     *)
(***************************************************************************)
\* Sections of the milestone among the first n.
KeptOf(kept, rm, n) ==
  kept = [i \in 0 .. n |->
            IF i = 0 THEN << >>
            ELSE IF rm[i].shipped THEN kept[i - 1] ELSE Append(kept[i - 1], rm[i])]

\* The recursion that keeps them is defined for every roadmap.
LEMMA KeptExists ==
  ASSUME NEW rm, NEW n \in Nat
  PROVE  \E kept : KeptOf(kept, rm, n)
<1> DEFINE T == {m \in Nat : ~\E kept : KeptOf(kept, rm, m)}
<1>1. T = {}
  <2> SUFFICES ASSUME T # {} PROVE FALSE
    OBVIOUS
  <2>1. PICK m \in T : \A l \in T : ~(<< l, m >> \in OpToRel(<, Nat))
    <3>1. T \subseteq Nat
      OBVIOUS
    <3> HIDE DEF T
    <3> QED BY <3>1, NatLessThanWellFounded, WFMin
  <2>2. m \in Nat /\ ~\E kept : KeptOf(kept, rm, m)
    OBVIOUS
  <2>3. m # 0
    <3>1. KeptOf([i \in 0 .. 0 |-> << >>], rm, 0)
      BY DEF KeptOf
    <3> QED BY <2>2, <3>1
  <2>4. m - 1 \in Nat /\ m - 1 \notin T
    <3>1. \A l \in T : ~(l < m)
      BY <2>1 DEF OpToRel
    <3> QED BY <2>2, <2>3, <3>1
  <2>5. PICK kept : KeptOf(kept, rm, m - 1)
    BY <2>4
  <2> DEFINE next == [i \in 0 .. m |->
                        IF i < m THEN kept[i]
                        ELSE IF rm[m].shipped THEN kept[m - 1] ELSE Append(kept[m - 1], rm[m])]
  <2>6. kept = [i \in 0 .. m - 1 |->
                 IF i = 0 THEN << >>
                 ELSE IF rm[i].shipped THEN kept[i - 1] ELSE Append(kept[i - 1], rm[i])]
    BY <2>5 DEF KeptOf
  <2>7. next[0] = << >> /\ next[m] = IF rm[m].shipped THEN next[m - 1] ELSE Append(next[m - 1], rm[m])
    BY <2>2, <2>3, <2>6
  <2>8. \A i \in 1 .. m - 1 : next[i] = IF rm[i].shipped THEN next[i - 1] ELSE Append(next[i - 1], rm[i])
    <3>1. \A i \in 0 .. m - 1 : next[i] = kept[i]
      BY <2>2
    <3>2. \A i \in 1 .. m - 1 : i \in 0 .. m - 1 /\ i - 1 \in 0 .. m - 1 /\ i # 0
      BY <2>2
    <3>3. \A i \in 1 .. m - 1 : kept[i] = IF rm[i].shipped THEN kept[i - 1] ELSE Append(kept[i - 1], rm[i])
      BY <2>6, <3>2
    <3> HIDE DEF next
    <3> QED BY <3>1, <3>2, <3>3
  <2>9. \A i \in 0 .. m : i = 0 \/ i = m \/ i \in 1 .. m - 1
    BY <2>2
  <2> HIDE DEF next
  <2>10. \A i \in 0 .. m :
           next[i] = IF i = 0 THEN << >>
                     ELSE IF rm[i].shipped THEN next[i - 1] ELSE Append(next[i - 1], rm[i])
    BY <2>3, <2>7, <2>8, <2>9
  <2>11. next = [i \in 0 .. m |-> next[i]]
    BY DEF next
  <2>12. KeptOf(next, rm, m)
    BY <2>10, <2>11 DEF KeptOf
  <2> QED BY <2>2, <2>12
<1> QED BY <1>1

\* It keeps exactly the sections that are not shipped, in order.
LEMMA CurrentMilestone ==
  ASSUME NEW S, NEW rm \in Seq(S)
  PROVE  /\ extractCurrentMilestone(rm) \in Seq(S)
         /\ ToSet(extractCurrentMilestone(rm)) = {rm[i] : i \in {j \in DOMAIN rm : ~rm[j].shipped}}
<1> DEFINE Def(kept) == kept = [i \in 0 .. Len(rm) |->
              IF i = 0 THEN << >>
              ELSE IF rm[i].shipped THEN kept[i - 1] ELSE Append(kept[i - 1], rm[i])]
           kept == CHOOSE k : Def(k)
<1>1. Len(rm) \in Nat /\ DOMAIN rm = 1 .. Len(rm) /\ \A i \in 1 .. Len(rm) : rm[i] \in S
  BY LenProperties
<1>2. Def(kept)
  BY <1>1, KeptExists DEF KeptOf
<1>3. extractCurrentMilestone(rm) = kept[Len(rm)]
  BY DEF extractCurrentMilestone
<1> HIDE DEF kept
<1> DEFINE Good(n) == /\ kept[n] \in Seq(S)
                      /\ ToSet(kept[n]) = {rm[i] : i \in {j \in 1 .. n : ~rm[j].shipped}}
           T == {n \in Nat : n <= Len(rm) /\ ~Good(n)}
<1>4. T = {}
  <2> SUFFICES ASSUME T # {} PROVE FALSE
    OBVIOUS
  <2>1. PICK m \in T : \A l \in T : ~(<< l, m >> \in OpToRel(<, Nat))
    <3>1. T \subseteq Nat
      OBVIOUS
    <3> HIDE DEF T
    <3> QED BY <3>1, NatLessThanWellFounded, WFMin
  <2>2. m \in Nat /\ m <= Len(rm) /\ ~Good(m)
    OBVIOUS
  <2>3. m # 0
    <3>1. kept[0] = << >>
      BY <1>1, <1>2
    <3>2. << >> \in Seq(S) /\ ToSet(<< >>) = {}
      BY DEF ToSet
    <3>3. {rm[i] : i \in {j \in 1 .. 0 : ~rm[j].shipped}} = {}
      OBVIOUS
    <3> QED BY <2>2, <3>1, <3>2, <3>3
  <2>4. m - 1 \in Nat /\ m - 1 \notin T
    <3>1. \A l \in T : ~(l < m)
      BY <2>1 DEF OpToRel
    <3>2. m - 1 \in Nat /\ m - 1 < m
      BY <2>2, <2>3
    <3> HIDE DEF T
    <3> QED BY <3>1, <3>2
  <2>5. Good(m - 1)
    BY <1>1, <2>2, <2>4
  <2>6. kept[m] = IF rm[m].shipped THEN kept[m - 1] ELSE Append(kept[m - 1], rm[m])
    <3>1. m \in 0 .. Len(rm)
      BY <1>1, <2>2
    <3> HIDE DEF T
    <3> QED BY <1>2, <2>3, <3>1
  <2>7. rm[m] \in S /\ m \in 1 .. m /\ \A j : j \in 1 .. m <=> (j \in 1 .. m - 1 \/ j = m)
    BY <1>1, <2>2, <2>3
  <2>8. CASE rm[m].shipped
    <3>1. {j \in 1 .. m : ~rm[j].shipped} = {j \in 1 .. m - 1 : ~rm[j].shipped}
      BY <2>7, <2>8
    <3> QED BY <2>2, <2>5, <2>6, <2>8, <3>1
  <2>9. CASE ~rm[m].shipped
    <3> PICK q \in Seq(S) : q = kept[m - 1] /\ ToSet(q) = {rm[i] : i \in {j \in 1 .. m - 1 : ~rm[j].shipped}}
      BY <2>5
    <3>1. kept[m] = Append(q, rm[m])
      BY <2>6, <2>9
    <3>2. Append(q, rm[m]) \in Seq(S) /\ ToSet(Append(q, rm[m])) = ToSet(q) \cup {rm[m]}
      BY <2>7, AppendedSet
    <3>3. ToSet(q) \cup {rm[m]} = {rm[i] : i \in {j \in 1 .. m : ~rm[j].shipped}}
      BY <2>7, <2>9
    <3> QED BY <2>2, <3>1, <3>2, <3>3
  <2> QED BY <2>8, <2>9
<1>5. Good(Len(rm))
  <2>1. Len(rm) \notin T /\ Len(rm) \in Nat
    BY <1>1, <1>4
  <2> HIDE DEF Good
  <2> QED BY <2>1
<1>6. {j \in 1 .. Len(rm) : ~rm[j].shipped} = {j \in DOMAIN rm : ~rm[j].shipped}
  BY <1>1
<1> QED BY <1>3, <1>5, <1>6

(***************************************************************************)
(* Numbers whose decimals count from 1, the only ones the tools write.     *)
(***************************************************************************)
Numbered == {p \in PhaseNum : Counted(p)}

\* The parts of a number the tools write.
LEMMA NumberIs ==
  ASSUME NEW p \in Numbered
  PROVE  /\ p = [int |-> p.int, letter |-> p.letter, decs |-> p.decs]
         /\ p.int \in Nat /\ p.letter \in Nat /\ p.decs \in Seq(Nat)
         /\ \A i \in 1 .. Len(p.decs) : p.decs[i] >= 1
BY DEF Numbered, PhaseNum, Counted

\* A text with a longer text stands for a larger number.
LEMMA LongerIsLarger ==
  ASSUME NEW n \in Nat, n >= 1, NEW k \in Nat, DigitPrefix(n, k)
  PROVE  k = n \/ n < k
<1>1. k \div 1 = n \/ k \div 10 = n \/ k \div 100 = n
  BY DEF DigitPrefix
<1>2. k \div 1 = k
  OBVIOUS
<1>3. k \div 10 = n => n < k
  OBVIOUS
<1>4. k \div 100 = n => n < k
  OBVIOUS
<1> QED BY <1>1, <1>2, <1>3, <1>4

\* Decimals that extend others sort after them.
LEMMA LongerDecimals ==
  ASSUME NEW s \in Seq(Nat), NEW t \in Seq(Nat), s # << >>,
         \A i \in 1 .. Len(s) : s[i] >= 1, \A i \in 1 .. Len(t) : t[i] >= 1,
         Len(t) >= Len(s), SubSeq(t, 1, Len(s) - 1) = SubSeq(s, 1, Len(s) - 1),
         DigitPrefix(s[Len(s)], t[Len(s)])
  PROVE  t = s \/ DecimalsBefore(s, t)
<1> DEFINE n == Len(s)
<1>1. n \in Nat /\ n >= 1 /\ Len(t) \in Nat /\ t # << >>
  OBVIOUS
<1>2. \A i \in 1 .. n - 1 : s[i] = t[i]
  <2>1. \A i \in 1 .. n - 1 : SubSeq(s, 1, n - 1)[i] = s[i] /\ SubSeq(t, 1, n - 1)[i] = t[i]
    BY <1>1, SubSeqProperties
  <2> QED BY <2>1
<1>3. s[n] \in Nat /\ t[n] \in Nat /\ s[n] >= 1
  BY <1>1
<1>4. t[n] = s[n] \/ s[n] < t[n]
  BY <1>3, LongerIsLarger
<1> HIDE DEF n
<1>5. CASE s[n] < t[n]
  <2>1. Segment(s, n) < Segment(t, n)
    BY <1>1, <1>5 DEF Segment, n
  <2>2. \A j \in 1 .. (n - 1) : Segment(s, j) = Segment(t, j)
    BY <1>1, <1>2 DEF Segment, n
  <2>3. n \in 1 .. LongerLen(s, t)
    BY <1>1, LongerLenType DEF n
  <2> QED BY <1>1, <2>1, <2>2, <2>3 DEF DecimalsBefore
<1>6. CASE t[n] = s[n] /\ Len(t) = n
  <2>1. \A i \in 1 .. n : s[i] = t[i]
    BY <1>1, <1>2, <1>6
  <2> QED BY <1>6, <2>1, SeqEqual DEF n
<1>7. CASE t[n] = s[n] /\ Len(t) > n
  <2>1. n + 1 \in 1 .. Len(t) /\ n + 1 \in Nat \ {0}
    BY <1>1, <1>7
  <2>2. Segment(s, n + 1) = 0 /\ Segment(t, n + 1) = t[n + 1] /\ t[n + 1] \in Nat
    BY <1>1, <2>1 DEF Segment, n
  <2>3. Segment(s, n + 1) < Segment(t, n + 1)
    BY <2>1, <2>2
  <2>4. \A j \in 1 .. n : Segment(s, j) = Segment(t, j)
    BY <1>1, <1>2, <1>7 DEF Segment, n
  <2>5. n + 1 \in 1 .. LongerLen(s, t)
    BY <2>1, <2>3, LargerSegmentExists
  <2>6. \A j \in 1 .. ((n + 1) - 1) : Segment(s, j) = Segment(t, j)
    BY <1>1, <2>4
  <2> QED BY <1>1, <2>3, <2>5, <2>6 DEF DecimalsBefore
<1> QED BY <1>1, <1>4, <1>5, <1>6, <1>7 DEF n

(***************************************************************************)
(* A name that starts with a number is that number's or sorts after it:    *)
(* what makes the first match of searchPhaseInDir the exact one.           *)
(***************************************************************************)
LEMMA PrefixIsLater ==
  ASSUME NEW f \in Numbered, NEW p \in Numbered, StartsWith(f, p)
  PROVE  f = p \/ Before(p, f)
<1>1. /\ f = [int |-> f.int, letter |-> f.letter, decs |-> f.decs]
      /\ f.int \in Nat /\ f.letter \in Nat /\ f.decs \in Seq(Nat)
      /\ \A i \in 1 .. Len(f.decs) : f.decs[i] >= 1
  BY NumberIs
<1>2. /\ p = [int |-> p.int, letter |-> p.letter, decs |-> p.decs]
      /\ p.int \in Nat /\ p.letter \in Nat /\ p.decs \in Seq(Nat)
      /\ \A i \in 1 .. Len(p.decs) : p.decs[i] >= 1
  BY NumberIs
<1>3. CASE p.decs # << >>
  <2>1. f.int = p.int /\ f.letter = p.letter
    BY <1>3 DEF StartsWith
  <2>2. f.decs = p.decs \/ DecimalsBefore(p.decs, f.decs)
    <3> DEFINE s == p.decs
               t == f.decs
    <3>1. /\ Len(t) >= Len(s) /\ SubSeq(t, 1, Len(s) - 1) = SubSeq(s, 1, Len(s) - 1)
          /\ DigitPrefix(s[Len(s)], t[Len(s)])
      BY <1>3 DEF StartsWith
    <3>2. s \in Seq(Nat) /\ t \in Seq(Nat) /\ s # << >>
      BY <1>1, <1>2, <1>3
    <3> HIDE DEF s, t
    <3>3. (\A i \in 1 .. Len(s) : s[i] >= 1) /\ (\A i \in 1 .. Len(t) : t[i] >= 1)
      BY <1>1, <1>2 DEF s, t
    <3>4. t = s \/ DecimalsBefore(s, t)
      BY <3>1, <3>2, <3>3, LongerDecimals
    <3> QED BY <3>4 DEF s, t
  <2> QED BY <1>1, <1>2, <2>1, <2>2 DEF Before
<1>4. CASE p.decs = << >> /\ f.int = p.int
  <2>1. f.decs = << >> \/ DecimalsBefore(p.decs, f.decs)
    BY <1>4 DEF DecimalsBefore
  <2>2. f.letter = p.letter \/ p.letter < f.letter
    BY <1>1, <1>2, <1>4 DEF StartsWith
  <2> QED BY <1>1, <1>2, <1>4, <2>1, <2>2 DEF Before
<1>5. CASE p.decs = << >> /\ f.int # p.int
  <2>1. p.int >= 10 /\ DigitPrefix(p.int, f.int)
    BY <1>5 DEF StartsWith
  <2>2. p.int < f.int
    BY <1>1, <1>2, <1>5, <2>1, LongerIsLarger
  <2> QED BY <2>2 DEF Before
<1> QED BY <1>3, <1>4, <1>5

\* Every number starts with itself.
LEMMA StartsWithItself ==
  ASSUME NEW p \in Numbered
  PROVE  StartsWith(p, p)
<1>1. /\ p.int \in Nat /\ p.letter \in Nat /\ p.decs \in Seq(Nat)
      /\ \A i \in 1 .. Len(p.decs) : p.decs[i] >= 1
  BY NumberIs
<1>2. CASE p.decs # << >>
  <2>1. p.decs[Len(p.decs)] \in Nat
    BY <1>1, <1>2
  <2>2. \A k \in Nat : DigitPrefix(k, k)
    <3>1. \A k \in Nat : k \div 1 = k
      OBVIOUS
    <3> QED BY <3>1 DEF DigitPrefix
  <2> QED BY <1>1, <1>2, <2>1, <2>2 DEF StartsWith
<1>3. CASE p.decs = << >>
  BY <1>3 DEF StartsWith
<1> QED BY <1>2, <1>3

(***************************************************************************)
(* What the planning tree always is.                                       *)
(***************************************************************************)
\* Sections whose number the tools can have written.
GoodSection == {s \in Section : Counted(s.num) /\ s.num.int <= MaxInt}

\* Phase directories: finitely many, by name.
GoodDirs(ds) ==
    /\ IsFiniteSet(DOMAIN ds)
    /\ ds = [d \in DOMAIN ds |-> ds[d]]
    /\ \A d \in DOMAIN ds : d \in DirName /\ d.num \in Numbered /\ ds[d] \in Contents

StateKeys == {"phase", "status", "completed", "total", "percent"}
GoodState ==
    /\ state = [k \in StateKeys |-> state[k]]
    /\ state.completed \in 0 .. commands /\ state.total \in Int

PlanningInv ==
    /\ roadmap \in Seq(GoodSection)
    /\ GoodDirs(dirs) /\ GoodDirs(archive.phases)
    /\ reqs \in [Reqs -> [box : BOOLEAN, row : {"Pending", "Complete"}]]
    /\ GoodState
    /\ commands \in 0 .. MaxCommands

\* The parts of such a section.
LEMMA SectionIs ==
  ASSUME NEW s \in GoodSection
  PROVE  /\ s = [num |-> s.num, pad |-> s.pad, shipped |-> s.shipped, box |-> s.box,
                 todo |-> s.todo, row |-> s.row, reqs |-> s.reqs, dep |-> s.dep]
         /\ s.num \in Numbered /\ s.num.int \in 0 .. MaxInt
         /\ s.pad \in BOOLEAN /\ s.shipped \in BOOLEAN /\ s.box \in Boxes
         /\ s.row \in Rows /\ s.reqs \in SUBSET Reqs /\ s.dep \in PhaseRef \cup {NoRef}
<1>1. s \in Section /\ Counted(s.num) /\ s.num.int <= MaxInt
  BY DEF GoodSection
<1>2. s.num \in PhaseNum
  BY <1>1 DEF Section
<1>3. s.num.int \in Nat
  BY <1>2 DEF PhaseNum
<1>4. s.num \in Numbered
  BY <1>1, <1>2 DEF Numbered
<1>5. s.num.int \in 0 .. MaxInt
  BY <1>1, <1>3, PlanningAssumption
<1> QED BY <1>1, <1>4, <1>5 DEF Section

\* The sections of the current milestone.
LEMMA CurrentIs ==
  ASSUME NEW rm \in Seq(GoodSection)
  PROVE  /\ extractCurrentMilestone(rm) \in Seq(GoodSection)
         /\ Current(rm) = {rm[i] : i \in {j \in DOMAIN rm : ~rm[j].shipped}}
         /\ Current(rm) \subseteq GoodSection
<1> DEFINE cur == extractCurrentMilestone(rm)
<1>1. /\ cur \in Seq(GoodSection)
      /\ ToSet(cur) = {rm[i] : i \in {j \in DOMAIN rm : ~rm[j].shipped}}
  BY CurrentMilestone
<1> HIDE DEF cur
<1>2. ToSet(cur) \subseteq GoodSection
  BY <1>1, LenProperties DEF ToSet
<1> QED BY <1>1, <1>2 DEF Current, cur

\* A heading is a reference, and never the absence of one.
LEMMA HeadingIs ==
  ASSUME NEW s \in GoodSection
  PROVE  Heading(s) \in PhaseRef /\ Heading(s) # NoRef /\ Heading(s).num = s.num
<1>1. s.num \in PhaseNum /\ s.pad \in BOOLEAN
  BY SectionIs DEF Numbered
<1> QED BY <1>1, NoRefAssumption DEF Heading, PhaseRef

(***************************************************************************)
(* A command that is given a number finds the directory of exactly that    *)
(* number when there is one.                                               *)
(***************************************************************************)
LEMMA ExactDirectory ==
  ASSUME NEW ds, GoodDirs(ds), NEW d \in DOMAIN ds
  PROVE  /\ d \in searchPhaseInDir(ds, d.num)
         /\ \A f \in searchPhaseInDir(ds, d.num) : f \in DOMAIN ds /\ f.num = d.num
<1> DEFINE p == d.num
           found == {e \in DOMAIN ds : StartsWith(e.num, p)}
<1>1. p \in Numbered /\ \A e \in found : e.num \in Numbered /\ (e.num = p \/ Before(p, e.num))
  BY PrefixIsLater DEF GoodDirs
<1>2. d \in found
  BY <1>1, StartsWithItself
<1>3. \A e \in found : ~Before(e.num, p)
  <2>1. p \in PhaseNum /\ \A e \in found : e.num \in PhaseNum
    BY <1>1 DEF Numbered
  <2> QED BY <1>1, <2>1, OrderIrreflexive, OrderAsymmetric
<1>4. searchPhaseInDir(ds, p) = {f \in found : \A e \in found : ~Before(e.num, f.num)}
  BY DEF searchPhaseInDir, FirstOf
<1>5. d \in searchPhaseInDir(ds, p)
  BY <1>2, <1>3, <1>4
<1>6. \A f \in searchPhaseInDir(ds, p) : f \in found /\ ~Before(p, f.num)
  BY <1>2, <1>4
<1> QED BY <1>1, <1>5, <1>6

\* Of the directories that start with a number, the first is its own.
LEMMA ExactFound == PlanningInv => ExactPhaseFound
BY ExactDirectory DEF PlanningInv, ExactPhaseFound, FindPhase

(***************************************************************************)
(* validate consistency.                                                   *)
(***************************************************************************)
LEMMA DiskStatusIs ==
  ASSUME NEW names, NEW p
  PROVE  /\ (\E d \in names : d.num = p) => DiskStatus(DirectoryOf(names, p)) # "no_directory"
         /\ (~\E d \in names : d.num = p) => DiskStatus(DirectoryOf(names, p)) = "no_directory"
BY DEF DiskStatus, DirectoryOf

\* A silent validate consistency saw every heading and every directory.
LEMMA ConsistentTree == PlanningInv => ConsistencySound
<1> SUFFICES ASSUME PlanningInv, MissingOnDisk = {}, NotInRoadmap = {}
             PROVE  /\ \A d \in DOMAIN dirs : d.num = Whole(d.num.int) => d.num \in NumbersIn(roadmap)
                    /\ \A i \in DOMAIN ManagerPhases : ManagerPhases[i].status # "no_directory"
  BY DEF ConsistencySound
<1> DEFINE cur == extractCurrentMilestone(roadmap)
<1>1. cur \in Seq(GoodSection) /\ ToSet(cur) = Current(roadmap)
  BY CurrentIs DEF PlanningInv, Current
<1>2. \A ref \in Headings(roadmap) : ref.num \in NumbersIn(roadmap)
  BY DEF Headings, NumbersIn, Heading
<1>3. ASSUME NEW d \in DOMAIN dirs, d.num = Whole(d.num.int)
      PROVE  d.num \in NumbersIn(roadmap)
  <2>1. Padded(d.num) \in Headings(roadmap) \/ Plain(Whole(d.num.int)) \in Headings(roadmap)
    BY DEF NotInRoadmap
  <2>2. Padded(d.num).num = d.num /\ Plain(Whole(d.num.int)).num = d.num
    BY <1>3 DEF Padded, Plain
  <2> QED BY <1>2, <2>1, <2>2
<1>4. ASSUME NEW i \in DOMAIN ManagerPhases
      PROVE  ManagerPhases[i].status # "no_directory"
  <2>1. i \in DOMAIN cur /\ ManagerPhases[i] = ManagerPhase(cur[i])
    BY DEF ManagerPhases
  <2>2. cur[i] \in Current(roadmap)
    BY <1>1, <2>1 DEF ToSet
  <2> PICK s \in Current(roadmap) : s = cur[i]
    BY <2>2
  <2>3. s.num \in NumbersIn(roadmap) /\ Heading(s) \in Headings(roadmap) /\ Heading(s).num = s.num
    BY DEF NumbersIn, Headings, Heading
  <2>4. PICK d \in DOMAIN dirs : d.num = s.num
    BY <2>3 DEF MissingOnDisk
  <2> DEFINE names == {e \in DOMAIN dirs : isDirInMilestone(roadmap, e.num)}
  <2>5. d \in names
    BY <2>3, <2>4 DEF isDirInMilestone
  <2> HIDE DEF names
  <2>6. DiskStatus(DirectoryOf(names, s.num)) # "no_directory"
    BY <2>4, <2>5, DiskStatusIs
  <2>7. Trusted(DiskStatus(DirectoryOf(names, s.num)), Heading(s)) # "no_directory"
    BY <2>6 DEF Trusted
  <2> QED BY <2>1, <2>7 DEF ManagerPhase, names
<1> QED BY <1>3, <1>4

(***************************************************************************)
(* The views of the tree.                                                  *)
(***************************************************************************)
\* A section of the milestone has the same status in roadmap analyze and in
\* the manager.
LEMMA SameStatus ==
  ASSUME NEW s \in Current(roadmap)
  PROVE  /\ AnalyzePhase(s).status = ManagerPhase(s).status
         /\ AnalyzePhase(s).ref = Heading(s) /\ ManagerPhase(s).ref = Heading(s)
         /\ ManagerPhase(s).dep = s.dep
<1> DEFINE p == s.num
           names == {d \in DOMAIN dirs : isDirInMilestone(roadmap, d.num)}
<1>1. p \in NumbersIn(roadmap)
  BY DEF NumbersIn
<1>2. {d \in names : d.num = p} = {d \in DOMAIN dirs : d.num = p}
  BY <1>1 DEF isDirInMilestone
<1>3. DirectoryOf(names, p) = DirectoryOf(DOMAIN dirs, p)
  BY <1>2 DEF DirectoryOf
<1> QED BY <1>3 DEF AnalyzePhase, ManagerPhase

\* The status of a section depends on nothing but its heading.
LEMMA StatusOfHeading ==
  ASSUME NEW s, NEW t, Heading(s) = Heading(t)
  PROVE  ManagerPhase(s).status = ManagerPhase(t).status
<1>1. s.num = t.num
  BY DEF Heading
<1> QED BY <1>1 DEF ManagerPhase

\* The entries of the dashboards are those of the milestone's sections.
LEMMA EntriesOf ==
  ASSUME roadmap \in Seq(GoodSection)
  PROVE  LET cur == extractCurrentMilestone(roadmap) IN
         /\ cur \in Seq(GoodSection) /\ DOMAIN cur = 1 .. Len(cur)
         /\ \A i \in DOMAIN cur : cur[i] \in Current(roadmap)
         /\ \A s \in Current(roadmap) : \E i \in DOMAIN cur : s = cur[i]
         /\ Analyze = [i \in DOMAIN cur |-> AnalyzePhase(cur[i])]
         /\ ManagerPhases = [i \in DOMAIN cur |-> ManagerPhase(cur[i])]
<1> DEFINE cur == extractCurrentMilestone(roadmap)
<1>1. cur \in Seq(GoodSection)
  BY CurrentIs
<1>2. Analyze = [i \in DOMAIN cur |-> AnalyzePhase(cur[i])]
  BY DEF Analyze
<1>3. ManagerPhases = [i \in DOMAIN cur |-> ManagerPhase(cur[i])]
  BY DEF ManagerPhases
<1>4. Current(roadmap) = {cur[i] : i \in DOMAIN cur}
  BY DEF Current, ToSet
<1> HIDE DEF cur
<1> QED BY <1>1, <1>2, <1>3, <1>4, LenProperties DEF cur

\* What init progress says of a number of the milestone.
LEMMA ProgressOf ==
  ASSUME NEW p \in NumbersIn(roadmap)
  PROVE  LET D == {d \in DOMAIN dirs : d.num = p}
             here == {e \in InitProgress : e.num = p}
             Listed(d) == [num |-> d.num, slug |-> {d.slug}, status |-> ProgressStatus(dirs[d])]
             none == [num |-> p, slug |-> {}, status |-> "not_started"]
         IN  /\ D = {} => here = {none}
             /\ D # {} => here = {Listed(d) : d \in D}
<1> DEFINE D == {d \in DOMAIN dirs : d.num = p}
           here == {e \in InitProgress : e.num = p}
           Listed(d) == [num |-> d.num, slug |-> {d.slug}, status |-> ProgressStatus(dirs[d])]
           Unlisted(q) == [num |-> q, slug |-> {}, status |-> "not_started"]
           names == {d \in DOMAIN dirs : isDirInMilestone(roadmap, d.num)}
           bare == NumbersIn(roadmap) \ {d.num : d \in names}
<1>1. InitProgress = {Listed(d) : d \in names} \cup {Unlisted(q) : q \in bare}
  BY DEF InitProgress
<1>2. D = {d \in names : d.num = p}
  BY DEF isDirInMilestone
<1>3. (\A d : Listed(d).num = d.num) /\ (\A q : Unlisted(q).num = q)
  OBVIOUS
<1>4. here = {Listed(d) : d \in D} \cup {Unlisted(q) : q \in bare \cap {p}}
  <2> HIDE DEF Listed, Unlisted, names, D, bare
  <2> QED BY <1>1, <1>2, <1>3
<1>5. D = {} => bare \cap {p} = {p}
  BY <1>2
<1>6. D # {} => bare \cap {p} = {}
  BY <1>2
<1>7. D = {} => here = {Unlisted(p)}
  <2> HIDE DEF D, Listed, Unlisted, bare, here
  <2> QED BY <1>4, <1>5
<1>8. D # {} => here = {Listed(d) : d \in D}
  <2> HIDE DEF D, Listed, Unlisted, bare, here
  <2> QED BY <1>4, <1>6
<1> QED BY <1>7, <1>8

\* The three views read the same directory of each phase.
LEMMA AgreeingViews == PlanningInv => ViewsAgree
<1> SUFFICES ASSUME PlanningInv PROVE ViewsAgree
  OBVIOUS
<1> DEFINE cur == extractCurrentMilestone(roadmap)
<1>0. roadmap \in Seq(GoodSection) /\ GoodDirs(dirs)
  BY DEF PlanningInv
<1>1. /\ cur \in Seq(GoodSection) /\ DOMAIN cur = 1 .. Len(cur)
      /\ \A i \in DOMAIN cur : cur[i] \in Current(roadmap)
      /\ Analyze = [i \in DOMAIN cur |-> AnalyzePhase(cur[i])]
      /\ ManagerPhases = [i \in DOMAIN cur |-> ManagerPhase(cur[i])]
  BY <1>0, EntriesOf
<1>2. Len(Analyze) = Len(ManagerPhases)
  <2>1. Len(cur) \in Nat /\ DOMAIN Analyze = 1 .. Len(cur) /\ DOMAIN ManagerPhases = 1 .. Len(cur)
    BY <1>1, LenProperties
  <2> HIDE DEF cur
  <2> QED BY <1>1, <2>1
<1>3. ASSUME NEW i \in DOMAIN Analyze
      PROVE  LET a    == Analyze[i]
                 here == {e \in InitProgress : e.num = a.ref.num}
             IN  /\ a.status = ManagerPhases[i].status
                 /\ here # {}
                 /\ Cardinality(here) = 1 =>
                      \A e \in here :
                        /\ e.status = "complete" => a.status = "complete"
                        /\ a.status = "complete" /\ ~IsChecked(roadmap, a.ref) => e.status = "complete"
                        /\ (e.status = "not_started" /\ ~IsChecked(roadmap, a.ref))
                             => a.status = "no_directory"
  <2> PICK s \in Current(roadmap) : Analyze[i] = AnalyzePhase(s) /\ ManagerPhases[i] = ManagerPhase(s)
    BY <1>1
  <2> DEFINE a == AnalyzePhase(s)
             p == s.num
             D == {d \in DOMAIN dirs : d.num = p}
             here == {e \in InitProgress : e.num = p}
             Listed(d) == [num |-> d.num, slug |-> {d.slug}, status |-> ProgressStatus(dirs[d])]
             none == [num |-> p, slug |-> {}, status |-> "not_started"]
  <2>1. a.status = ManagerPhases[i].status /\ a.ref = Heading(s) /\ a.ref.num = p
    BY SameStatus DEF Heading
  <2>2. p \in NumbersIn(roadmap)
    BY DEF NumbersIn
  <2>3. (D = {} => here = {none}) /\ (D # {} => here = {Listed(d) : d \in D})
    BY <2>2, ProgressOf
  <2>4. a.status = Trusted(DiskStatus(DirectoryOf(DOMAIN dirs, p)), Heading(s))
    BY DEF AnalyzePhase
  <2>5. CASE D = {}
    <3>1. here = {none} /\ none.status = "not_started"
      BY <2>3, <2>5
    <3>2. DiskStatus(DirectoryOf(DOMAIN dirs, p)) = "no_directory"
      BY <2>5, DiskStatusIs
    <3>3. ~IsChecked(roadmap, Heading(s)) => a.status = "no_directory"
      BY <2>4, <3>2 DEF Trusted
    <3> HIDE DEF a, here, none
    <3> QED BY <2>1, <3>1, <3>3 DEF a, here
  <2>6. CASE D # {}
    <3>1. here = {Listed(d) : d \in D}
      BY <2>3, <2>6
    <3>2. PICK d0 \in D : DirectoryOf(DOMAIN dirs, p) = {d0}
      BY <2>6 DEF DirectoryOf
    <3>3. DiskStatus({d0}) = "complete" <=> AllPlansDone(dirs[d0])
      BY DEF DiskStatus
    <3>4. ProgressStatus(dirs[d0]) = "complete" <=> AllPlansDone(dirs[d0])
      BY DEF ProgressStatus
    <3>5. ProgressStatus(dirs[d0]) # "not_started"
      BY DEF ProgressStatus
    <3>6. here # {}
      BY <3>1, <2>6
    <3>7. ASSUME Cardinality(here) = 1, NEW e \in here
          PROVE  e.status = ProgressStatus(dirs[d0])
      <4>1. IsFiniteSet(D)
        BY <1>0, FS_Subset DEF GoodDirs
      <4> DEFINE f == [d \in D |-> Listed(d)]
      <4>2. f \in Surjection(D, here)
        BY <3>1 DEF Surjection
      <4>3. IsFiniteSet(here)
        <5> HIDE DEF f, D, here
        <5> QED BY <4>1, <4>2, FS_Surjection
      <4>4. PICK x : here = {x}
        <5> HIDE DEF here
        <5> QED BY <3>7, <4>3, FS_Singleton
      <4>5. Listed(d0) \in here
        BY <3>1
      <4>6. e = Listed(d0)
        <5> HIDE DEF here, Listed
        <5> QED BY <4>4, <4>5, <3>7
      <4> QED BY <4>6
    <3>8. a.status = IF IsChecked(roadmap, Heading(s)) THEN "complete" ELSE DiskStatus({d0})
      BY <2>4, <3>2 DEF Trusted
    <3> HIDE DEF a, here
    <3> QED BY <2>1, <3>3, <3>4, <3>5, <3>6, <3>7, <3>8 DEF a, here
  <2> QED BY <2>5, <2>6
<1> HIDE DEF cur
<1> QED BY <1>2, <1>3 DEF ViewsAgree

(***************************************************************************)
(* The manager.                                                            *)
(***************************************************************************)
LEMMA ApartFromDependencies == PlanningInv => NoParallelDependency
<1> SUFFICES ASSUME PlanningInv PROVE NoParallelDependency
  OBVIOUS
<1> DEFINE phases == ManagerPhases
           go == {phases[a.at] : a \in {b \in FilteredActions(phases, {}) : b.action = "execute"}}
           cur == extractCurrentMilestone(roadmap)
<1>1. /\ \A i \in DOMAIN cur : cur[i] \in Current(roadmap)
      /\ Analyze = [i \in DOMAIN cur |-> AnalyzePhase(cur[i])]
      /\ phases = [i \in DOMAIN cur |-> ManagerPhase(cur[i])]
  BY EntriesOf DEF PlanningInv
<1>2. Current(roadmap) \subseteq GoodSection
  BY CurrentIs DEF PlanningInv
<1>3. \A b \in RecommendedActions(phases) : b.action = "execute" =>
         /\ b.at \in DOMAIN phases /\ phases[b.at].status = "planned"
         /\ DepsSatisfied(phases, phases[b.at])
  BY DEF RecommendedActions
<1>4. FilteredActions(phases, {}) \subseteq RecommendedActions(phases)
  BY DEF FilteredActions
<1>5. \A p \in go : \E i \in DOMAIN cur :
         p = phases[i] /\ phases[i].status = "planned" /\ DepsSatisfied(phases, phases[i])
  <2>1. DOMAIN phases = DOMAIN cur
    BY <1>1
  <2> HIDE DEF phases, cur
  <2> QED BY <1>3, <1>4, <2>1
<1>6. \A i \in DOMAIN cur : phases[i].ref = Heading(cur[i]) /\ phases[i].ref # NoRef
  BY <1>1, <1>2, SameStatus, HeadingIs
<1>7. \A i, j \in DOMAIN cur : phases[i].ref = phases[j].ref => phases[i].status = phases[j].status
  BY <1>1, <1>6, StatusOfHeading
<1>8. \A i \in DOMAIN cur : Analyze[i].ref = phases[i].ref /\ Analyze[i].status = phases[i].status
  BY <1>1, SameStatus
<1>9. \A p : DepsSatisfied(phases, p) =>
         \/ p.dep = NoRef
         \/ \E j \in DOMAIN cur : phases[j].ref = p.dep /\ phases[j].status = "complete"
  BY <1>1 DEF DepsSatisfied, CompletedNums, ToSet
<1>10. DOMAIN Analyze = DOMAIN cur
  BY <1>1
<1> HIDE DEF phases, go, cur
<1>11. \A p, q \in go : p.dep # q.ref
  BY <1>5, <1>6, <1>7, <1>9
<1>12. \A p \in go : p.dep # NoRef => \E a \in ToSet(Analyze) : a.ref = p.dep /\ a.status = "complete"
  BY <1>5, <1>8, <1>9, <1>10 DEF ToSet
<1> QED BY <1>11, <1>12 DEF NoParallelDependency, phases, go

(***************************************************************************)
(* The contexts agents are given.                                          *)
(***************************************************************************)
LEMMA CurrentContexts == PlanningInv => ContextsCurrent
<1> SUFFICES ASSUME PlanningInv, NEW ref \in Headings(roadmap)
             PROVE  LET Phases(answers) == {a.phase : a \in answers}
                        shown == Phases(InitPhaseOp(ref))
                        sent  == {Phases(InitExecutePhase(ref)), Phases(InitPlanPhase(ref)),
                                  Phases(InitVerifyWork(ref))}
                    IN  /\ shown # {}
                        /\ \A c \in shown :
                             /\ ~c.archived
                             /\ (\E d \in DOMAIN dirs : d.num = ref.num) => c.num = ref.num
                        /\ \A phases \in sent : phases = shown \/ \A c \in phases : c.archived
  BY DEF ContextsCurrent
<1> DEFINE found == searchPhaseInDir(dirs, ref.num)
           here == Located(ref.num)
           listed == [num |-> ref.num, archived |-> FALSE, files |-> EmptyDir]
           kept == IF (\E d \in here : d.archived) /\ FromRoadmap(ref) # {}
                   THEN FromRoadmap(ref) ELSE Offered(ref)
<1>1. FromRoadmap(ref) = {listed}
  BY DEF FromRoadmap
<1>2. found # {} => \A c \in here : ~c.archived /\ \E d \in found : c.num = d.num
  BY DEF Located
<1>3. found = {} => \A c \in here : c.archived
  BY DEF Located
<1>4. found # {} => here # {}
  BY DEF Located
<1>5. (\E d \in DOMAIN dirs : d.num = ref.num) => found # {} /\ \A f \in found : f.num = ref.num
  BY ExactDirectory DEF PlanningInv
<1>6. Offered(ref) = IF here # {} THEN here ELSE {listed}
  BY <1>1 DEF Offered
<1>7. listed.num = ref.num /\ ~listed.archived
  OBVIOUS
<1>8. {a.phase : a \in InitPhaseOp(ref)} = kept
  <2>1. \A a \in InitPhaseOp(ref) : a.phase \in kept
    BY DEF InitPhaseOp
  <2>2. ASSUME NEW c \in kept
        PROVE  \E a \in InitPhaseOp(ref) : a.phase = c
    <3> DEFINE a == [phase |-> c]
    <3>1. a \in InitPhaseOp(ref)
      BY DEF InitPhaseOp
    <3>2. a.phase = c
      OBVIOUS
    <3> QED BY <3>1, <3>2
  <2> HIDE DEF kept
  <2> QED BY <2>1, <2>2
<1>9. {a.phase : a \in InitExecutePhase(ref)} = Offered(ref)
  <2>1. \A a \in InitExecutePhase(ref) : a.phase \in Offered(ref)
    BY DEF InitExecutePhase
  <2>2. ASSUME NEW c \in Offered(ref)
        PROVE  \E a \in InitExecutePhase(ref) : a.phase = c
    <3> DEFINE a == [phase |-> c, reqs |-> RequiredBy(ref), incomplete |-> IncompletePlans(c.files)]
    <3>1. a \in InitExecutePhase(ref)
      BY DEF InitExecutePhase
    <3>2. a.phase = c
      OBVIOUS
    <3> QED BY <3>1, <3>2
  <2> HIDE DEF kept
  <2> QED BY <2>1, <2>2
<1>10. {a.phase : a \in InitPlanPhase(ref)} = Offered(ref)
  <2>1. \A a \in InitPlanPhase(ref) : a.phase \in Offered(ref)
    BY DEF InitPlanPhase
  <2>2. ASSUME NEW c \in Offered(ref)
        PROVE  \E a \in InitPlanPhase(ref) : a.phase = c
    <3> DEFINE a == [phase |-> c, reqs |-> RequiredBy(ref), has_plans |-> c.files.plans # {}]
    <3>1. a \in InitPlanPhase(ref)
      BY DEF InitPlanPhase
    <3>2. a.phase = c
      OBVIOUS
    <3> QED BY <3>1, <3>2
  <2> HIDE DEF kept
  <2> QED BY <2>1, <2>2
<1>11. {a.phase : a \in InitVerifyWork(ref)} = Offered(ref)
  <2>1. \A a \in InitVerifyWork(ref) : a.phase \in Offered(ref)
    BY DEF InitVerifyWork
  <2>2. ASSUME NEW c \in Offered(ref)
        PROVE  \E a \in InitVerifyWork(ref) : a.phase = c
    <3> DEFINE a == [phase |-> c]
    <3>1. a \in InitVerifyWork(ref)
      BY DEF InitVerifyWork
    <3>2. a.phase = c
      OBVIOUS
    <3> QED BY <3>1, <3>2
  <2> HIDE DEF kept
  <2> QED BY <2>1, <2>2
<1> HIDE DEF found, here, listed
<1>12. /\ kept # {}
       /\ \A c \in kept : /\ ~c.archived
                          /\ (\E d \in DOMAIN dirs : d.num = ref.num) => c.num = ref.num
  <2>1. CASE found = {} /\ here # {}
    <3>1. kept = {listed}
      BY <1>1, <1>3, <2>1
    <3> QED BY <1>7, <3>1
  <2>2. CASE here = {}
    <3>1. kept = {listed}
      BY <1>6, <2>2
    <3> QED BY <1>7, <3>1
  <2>3. CASE found # {} /\ here # {}
    <3>1. kept = here
      BY <1>2, <1>6, <2>3
    <3> QED BY <1>2, <1>5, <2>3, <3>1
  <2> QED BY <2>1, <2>2, <2>3
<1>13. Offered(ref) = kept \/ \A c \in Offered(ref) : c.archived
  <2>1. CASE found = {} /\ here # {}
    BY <1>3, <1>6, <2>1
  <2>2. CASE here = {}
    BY <2>2
  <2>3. CASE found # {} /\ here # {}
    BY <1>2, <2>3
  <2> QED BY <2>1, <2>2, <2>3
<1> HIDE DEF kept
<1> QED BY <1>8, <1>9, <1>10, <1>11, <1>12, <1>13

(***************************************************************************)
(* Types.                                                                  *)
(***************************************************************************)
LEMMA TreeTypes == PlanningInv => TypeOK
<1> SUFFICES ASSUME PlanningInv PROVE TypeOK
  OBVIOUS
<1>1. \A i \in DOMAIN roadmap : roadmap[i] \in GoodSection
  BY LenProperties DEF PlanningInv
<1>2. \A i \in DOMAIN roadmap :
         /\ roadmap[i].num.int \in 0 .. MaxInt /\ roadmap[i].box \in Boxes
         /\ roadmap[i].row \in Rows /\ roadmap[i].reqs \subseteq Reqs
  BY <1>1, SectionIs
<1>3. \A d \in DOMAIN dirs : d.slug \in Slugs /\ dirs[d].plans \subseteq PlanIds
  BY DEF PlanningInv, GoodDirs, DirName, Contents
<1>4. \A r \in Reqs : reqs[r].box \in BOOLEAN
  BY DEF PlanningInv
<1>5. state.completed \in 0 .. MaxCommands /\ state.total \in Int
  BY PlanningAssumption DEF PlanningInv, GoodState
<1> QED BY <1>2, <1>3, <1>4, <1>5 DEF TypeOK

(***************************************************************************)
(* Edits of ROADMAP.md.                                                    *)
(***************************************************************************)
\* The first position of a set of positions, 0 when there is none.
LEMMA FirstPosition ==
  ASSUME NEW n \in Nat, NEW I \in SUBSET (1 .. n), NEW i, i = IF I # {} THEN Min(I) ELSE 0
  PROVE  i \in 0 .. n /\ (i # 0 => i \in I) /\ (i = 0 => I = {})
<1>1. I \in SUBSET Nat
  OBVIOUS
<1>2. I # {} => Min(I) \in I
  BY <1>1, MinIsSmallest
<1>3. I # {} => i \in I
  BY <1>2
<1>4. I = {} => i = 0
  OBVIOUS
<1>5. \A j \in I : j \in 0 .. n /\ j # 0
  OBVIOUS
<1>6. CASE I = {}
  <2>1. 0 \in 0 .. n
    OBVIOUS
  <2> QED BY ONLY <1>4, <1>6, <2>1
<1>7. CASE I # {}
  BY ONLY <1>3, <1>5, <1>7
<1> QED BY <1>6, <1>7

\* Editing the fields a section has beside its number.
Boxed(s, b)   == [s EXCEPT !.box = b]
Rowed(s, w)   == [s EXCEPT !.row = w]
Hidden(s, g)  == [s EXCEPT !.shipped = g]
Edited(s, g, b, w) == [s EXCEPT !.shipped = g, !.box = b, !.row = w]
Put(rm, i, s) == [rm EXCEPT ![i] = s]

\* A section with another checkbox.
LEMMA BoxEdited ==
  ASSUME NEW s \in GoodSection, NEW b \in Boxes, NEW t, t = Boxed(s, b)
  PROVE  t \in GoodSection /\ t.num = s.num /\ t.shipped = s.shipped
BY DEF GoodSection, Section, Boxed

\* A section with another status in the progress table.
LEMMA RowEdited ==
  ASSUME NEW s \in GoodSection, NEW w \in Rows, NEW t, t = Rowed(s, w)
  PROVE  t \in GoodSection /\ t.num = s.num /\ t.shipped = s.shipped
BY DEF GoodSection, Section, Rowed

\* A section on the other side of the milestone's <details> block.
LEMMA ShippedEdited ==
  ASSUME NEW s \in GoodSection, NEW g \in BOOLEAN, NEW t, t = Hidden(s, g)
  PROVE  t \in GoodSection
BY DEF GoodSection, Section, Hidden

\* A section with all three of them edited.
LEMMA AllEdited ==
  ASSUME NEW s \in GoodSection, NEW b \in Boxes, NEW w \in Rows, NEW g \in BOOLEAN,
         NEW t, t = Edited(s, g, b, w)
  PROVE  t \in GoodSection
BY DEF GoodSection, Section, Edited

\* Two roadmaps with the same numbers in the same places.
Alike(rm, other) ==
    /\ other \in Seq(GoodSection) /\ Len(other) = Len(rm)
    /\ \A i \in 1 .. Len(rm) : other[i].num = rm[i].num /\ other[i].shipped = rm[i].shipped

\* One section edited.
LEMMA OneEdited ==
  ASSUME NEW rm \in Seq(GoodSection), NEW i \in 1 .. Len(rm), NEW s \in GoodSection,
         s.num = rm[i].num, s.shipped = rm[i].shipped
  PROVE  Alike(rm, Put(rm, i, s))
BY ExceptSeq DEF Alike, Put

\* Ticking the checkbox of a phase (phase.cjs:677-684).
LEMMA TickBoxAlike ==
  ASSUME NEW rm \in Seq(GoodSection), NEW ref
  PROVE  Alike(rm, TickBox(rm, ref))
<1> DEFINE I == {j \in 1 .. Len(rm) : ~rm[j].shipped /\ BoxRef(rm[j]) = ref /\ rm[j].box = "open"}
<1> PICK i : i = IF I # {} THEN Min(I) ELSE 0
  OBVIOUS
<1>1. TickBox(rm, ref) = IF i = 0 THEN rm ELSE [rm EXCEPT ![i].box = "done"]
  BY DEF TickBox, SelectInSeq
<1>2. Len(rm) \in Nat /\ \A j \in 1 .. Len(rm) : rm[j] \in GoodSection
  BY LenProperties
<1>3. i \in 0 .. Len(rm)
  BY <1>2, FirstPosition
<1>4. CASE i = 0
  BY <1>1, <1>4 DEF Alike
<1>5. CASE i # 0
  <2>1. i \in 1 .. Len(rm)
    BY <1>2, <1>3, <1>5
  <2> PICK t : t = Boxed(rm[i], "done")
    OBVIOUS
  <2>2. TickBox(rm, ref) = Put(rm, i, t)
    BY <1>1, <1>5 DEF Put, Boxed
  <2>3. "done" \in Boxes /\ rm[i] \in GoodSection
    BY <1>2, <2>1 DEF Boxes
  <2>4. t \in GoodSection /\ t.num = rm[i].num /\ t.shipped = rm[i].shipped
    BY ONLY <2>3, BoxEdited, t = Boxed(rm[i], "done")
  <2> QED BY <2>1, <2>2, <2>4, OneEdited
<1> QED BY <1>4, <1>5

\* Writing a phase's row of the progress table (phase.cjs:686-702).
LEMMA SetRowAlike ==
  ASSUME NEW rm \in Seq(GoodSection), NEW ref, NEW status \in Rows
  PROVE  Alike(rm, SetRow(rm, ref, status))
<1> DEFINE I == {j \in 1 .. Len(rm) : Heading(rm[j]) = ref /\ rm[j].row # "none"}
<1> PICK i : i = IF I # {} THEN Min(I) ELSE 0
  OBVIOUS
<1>1. SetRow(rm, ref, status) = IF i = 0 THEN rm ELSE [rm EXCEPT ![i].row = status]
  BY DEF SetRow, SelectInSeq
<1>2. Len(rm) \in Nat /\ \A j \in 1 .. Len(rm) : rm[j] \in GoodSection
  BY LenProperties
<1>3. i \in 0 .. Len(rm)
  BY <1>2, FirstPosition
<1>4. CASE i = 0
  BY <1>1, <1>4 DEF Alike
<1>5. CASE i # 0
  <2>1. i \in 1 .. Len(rm)
    BY <1>2, <1>3, <1>5
  <2> PICK t : t = Rowed(rm[i], status)
    OBVIOUS
  <2>2. SetRow(rm, ref, status) = Put(rm, i, t)
    BY <1>1, <1>5 DEF Put, Rowed
  <2>3. rm[i] \in GoodSection
    BY <1>2, <2>1
  <2>4. t \in GoodSection /\ t.num = rm[i].num /\ t.shipped = rm[i].shipped
    BY ONLY <2>3, RowEdited, t = Rowed(rm[i], status), status \in Rows
  <2> QED BY <2>1, <2>2, <2>4, OneEdited
<1> QED BY <1>4, <1>5

\* phase complete marks a phase and changes no number and no milestone.
LEMMA MarkedAlike ==
  ASSUME NEW rm \in Seq(GoodSection), NEW ref, NEW status \in Rows
  PROVE  Alike(rm, SetRow(TickBox(rm, ref), ref, status))
<1> PICK other : other = TickBox(rm, ref)
  OBVIOUS
<1>1. Alike(rm, other)
  BY TickBoxAlike
<1>2. other \in Seq(GoodSection) /\ Alike(other, SetRow(other, ref, status))
  BY <1>1, SetRowAlike DEF Alike
<1> QED BY <1>1, <1>2 DEF Alike

\* Such an edit leaves the milestone's numbers what they were.
LEMMA AlikeNumbers ==
  ASSUME NEW rm \in Seq(GoodSection), NEW other, Alike(rm, other)
  PROVE  NumbersIn(other) = NumbersIn(rm)
<1>1. /\ other \in Seq(GoodSection) /\ Len(other) = Len(rm)
      /\ \A i \in 1 .. Len(rm) : other[i].num = rm[i].num /\ other[i].shipped = rm[i].shipped
  BY DEF Alike
<1>2. DOMAIN rm = 1 .. Len(rm) /\ DOMAIN other = 1 .. Len(rm)
  BY <1>1, LenProperties
<1>3. /\ Current(rm) = {rm[i] : i \in {j \in DOMAIN rm : ~rm[j].shipped}}
      /\ Current(other) = {other[i] : i \in {j \in DOMAIN other : ~other[j].shipped}}
  BY <1>1, CurrentIs
<1>4. NumbersIn(rm) = {rm[i].num : i \in {j \in 1 .. Len(rm) : ~rm[j].shipped}}
  BY <1>2, <1>3 DEF NumbersIn
<1>5. NumbersIn(other) = {other[i].num : i \in {j \in 1 .. Len(rm) : ~other[j].shipped}}
  BY <1>2, <1>3 DEF NumbersIn
<1> QED BY <1>1, <1>4, <1>5

\* Inserting and removing one section.
LEMMA Inserted ==
  ASSUME NEW S, NEW s \in Seq(S), NEW i \in 0 .. Len(s), NEW e \in S
  PROVE  InsertAt(s, i + 1, e) \in Seq(S)
<1>1. Len(s) \in Nat /\ \A j \in 1 .. Len(s) : s[j] \in S
  BY LenProperties
<1> PICK a : a = SubSeq(s, 1, i)
  OBVIOUS
<1> PICK b : b = SubSeq(s, i + 1, Len(s))
  OBVIOUS
<1>2. a \in Seq(S) /\ b \in Seq(S)
  BY <1>1, SubSeqProperties
<1>3. << e >> \in Seq(S)
  OBVIOUS
<1>4. a \o << e >> \o b \in Seq(S)
  BY <1>2, <1>3, ConcatProperties
<1>5. (i + 1) - 1 = i
  BY <1>1
<1> QED BY <1>4, <1>5 DEF InsertAt

\* Removing the element at a position.
LEMMA Removed ==
  ASSUME NEW S, NEW s \in Seq(S), NEW i \in 1 .. Len(s)
  PROVE  RemoveAt(s, i) \in Seq(S)
<1>1. Len(s) \in Nat /\ \A j \in 1 .. Len(s) : s[j] \in S
  BY LenProperties
<1> PICK a : a = SubSeq(s, 1, i - 1)
  OBVIOUS
<1> PICK b : b = SubSeq(s, i + 1, Len(s))
  OBVIOUS
<1>2. a \in Seq(S) /\ b \in Seq(S)
  BY <1>1, SubSeqProperties
<1> QED BY <1>2, ConcatProperties DEF RemoveAt

\* A sequence changed at every place.
LEMMA Mapped ==
  ASSUME NEW S, NEW s \in Seq(S), NEW r, r = [j \in DOMAIN s |-> r[j]],
         \A j \in 1 .. Len(s) : r[j] \in S
  PROVE  r \in Seq(S)
<1>1. Len(s) \in Nat /\ DOMAIN s = 1 .. Len(s)
  BY LenProperties
<1>2. r \in [1 .. Len(s) -> S]
  BY <1>1
<1> QED BY <1>1, <1>2

\* phase insert writes a section after another.
LEMMA InsertedSection ==
  ASSUME NEW rm \in Seq(GoodSection), NEW after, NEW section \in GoodSection
  PROVE  InsertAfter(rm, after, section) \in Seq(GoodSection)
<1> DEFINE I == {j \in 1 .. Len(rm) : rm[j].num = after}
<1> PICK i : i = IF I # {} THEN Min(I) ELSE 0
  OBVIOUS
<1> PICK g : g = (i < Len(rm) /\ rm[i + 1].shipped)
  OBVIOUS
<1>1. InsertAfter(rm, after, section) = InsertAt(rm, i + 1, Hidden(section, g))
  BY DEF Hidden, InsertAfter, SelectInSeq
<1>2. Len(rm) \in Nat /\ \A j \in 1 .. Len(rm) : rm[j] \in GoodSection
  BY LenProperties
<1>3. i \in 0 .. Len(rm)
  BY <1>2, FirstPosition
<1>4. g \in BOOLEAN
  OBVIOUS
<1>5. Hidden(section, g) \in GoodSection
  BY <1>4, ShippedEdited
<1> QED BY <1>1, <1>3, <1>5, Inserted

\* phase remove cuts a section, its checkbox and its row.
LEMMA DroppedSection ==
  ASSUME NEW rm \in Seq(GoodSection), NEW ref
  PROVE  DropSection(rm, ref) \in Seq(GoodSection)
<1> DEFINE I == {j \in 1 .. Len(rm) : Heading(rm[j]) = ref}
<1> PICK i : i = IF I # {} THEN Min(I) ELSE 0
  OBVIOUS
<1> PICK unclose : unclose = (i # 0 /\ rm[i].shipped /\ (i = Len(rm) \/ ~rm[i + 1].shipped))
  OBVIOUS
<1> PICK rest : rest = IF i = 0 THEN rm ELSE RemoveAt(rm, i)
  OBVIOUS
<1> DEFINE Left(s) == [s EXCEPT !.shipped = @ /\ ~unclose,
                               !.box = IF BoxRef(s) = ref THEN "none" ELSE @,
                               !.row = IF Heading(s) = ref THEN "none" ELSE @]
<1>1. DropSection(rm, ref) = [j \in DOMAIN rest |-> Left(rest[j])]
  BY DEF DropSection, SelectInSeq
<1>2. Len(rm) \in Nat
  BY LenProperties
<1>3. i \in 0 .. Len(rm)
  BY <1>2, FirstPosition
<1>4. rest \in Seq(GoodSection)
  BY <1>2, <1>3, Removed
<1>5. DOMAIN rest = 1 .. Len(rest) /\ \A j \in 1 .. Len(rest) : rest[j] \in GoodSection
  BY <1>4, LenProperties
<1>6. ASSUME NEW s \in GoodSection
      PROVE  Left(s) \in GoodSection
  <2> PICK g : g = (s.shipped /\ ~unclose)
    OBVIOUS
  <2> PICK b : b = IF BoxRef(s) = ref THEN "none" ELSE s.box
    OBVIOUS
  <2> PICK w : w = IF Heading(s) = ref THEN "none" ELSE s.row
    OBVIOUS
  <2>1. g \in BOOLEAN /\ b \in Boxes /\ w \in Rows
    BY SectionIs DEF Boxes, Rows
  <2> PICK t : t = Left(s)
    OBVIOUS
  <2>2. t = Edited(s, g, b, w)
    BY DEF Edited
  <2>3. t \in GoodSection
    BY ONLY <2>1, <2>2, AllEdited, s \in GoodSection
  <2> QED BY ONLY <2>3, t = Left(s)
<1> PICK r : r = DropSection(rm, ref)
  OBVIOUS
<1>7. r = [j \in DOMAIN rest |-> r[j]] /\ \A j \in 1 .. Len(rest) : r[j] = Left(rest[j])
  BY <1>1, <1>5
<1> HIDE DEF Left
<1>8. \A j \in 1 .. Len(rest) : r[j] \in GoodSection
  BY <1>5, <1>6, <1>7
<1> QED BY <1>4, <1>7, <1>8, Mapped

(***************************************************************************)
(* What the renumbering loop does: it rewrites text it has already         *)
(* rewritten, so every number after the removed one ends as the removed    *)
(* one itself.                                                             *)
(***************************************************************************)
LEMMA RenumberedIs ==
  ASSUME NEW n \in Nat, NEW removed \in Nat
  PROVE  RenumberedInt(n, removed) = IF removed < n /\ n <= MAX_PHASE THEN removed ELSE n
<1> DEFINE Rewritten(k) == IF k < n /\ n <= MAX_PHASE THEN k ELSE n
           Pass(text) == text = [k \in Nat |->
              IF k >= MAX_PHASE THEN n
              ELSE LET so_far == text[k + 1] IN IF so_far = k + 1 THEN k ELSE so_far]
           text == CHOOSE t : Pass(t)
<1>1. MAX_PHASE \in Nat
  BY DEF MAX_PHASE
<1>2. Pass([k \in Nat |-> Rewritten(k)])
  <2> DEFINE t == [k \in Nat |-> Rewritten(k)]
  <2>1. \A k \in Nat : t[k] = Rewritten(k) /\ t[k + 1] = Rewritten(k + 1)
    OBVIOUS
  <2>2. \A k \in Nat : Rewritten(k) =
          IF k >= MAX_PHASE THEN n
          ELSE IF Rewritten(k + 1) = k + 1 THEN k ELSE Rewritten(k + 1)
    BY <1>1
  <2> HIDE DEF Rewritten
  <2> QED BY <2>1, <2>2
<1>3. Pass(text)
  BY <1>2
<1>4. RenumberedInt(n, removed) = text[removed]
  BY DEF RenumberedInt
<1> HIDE DEF text
<1>5. \A k \in Nat : k >= MAX_PHASE => text[k] = n
  BY <1>3
<1>6. \A k \in Nat : k < MAX_PHASE => text[k] = IF text[k + 1] = k + 1 THEN k ELSE text[k + 1]
  BY <1>1, <1>3
<1> HIDE DEF Pass
<1> DEFINE T == {j \in Nat : j <= MAX_PHASE /\ text[MAX_PHASE - j] # Rewritten(MAX_PHASE - j)}
<1>7. T = {}
  <2> SUFFICES ASSUME T # {} PROVE FALSE
    OBVIOUS
  <2>1. PICK m \in T : \A l \in T : ~(<< l, m >> \in OpToRel(<, Nat))
    <3>1. T \subseteq Nat
      OBVIOUS
    <3> HIDE DEF T
    <3> QED BY <3>1, NatLessThanWellFounded, WFMin
  <2>2. \A l \in T : ~(l < m)
    BY <2>1 DEF OpToRel
  <2> DEFINE k == MAX_PHASE - m
  <2>3. m \in Nat /\ m <= MAX_PHASE /\ k \in Nat /\ text[k] # Rewritten(k)
    BY <1>1
  <2>4. m # 0
    BY <1>1, <1>5, <2>3
  <2>5. m - 1 \in Nat /\ m - 1 < m /\ m - 1 <= MAX_PHASE /\ MAX_PHASE - (m - 1) = k + 1 /\ k < MAX_PHASE
    BY <1>1, <2>3, <2>4
  <2>6. text[k + 1] = Rewritten(k + 1)
    BY <2>2, <2>5
  <2>7. text[k] = IF Rewritten(k + 1) = k + 1 THEN k ELSE Rewritten(k + 1)
    BY <1>6, <2>3, <2>5, <2>6
  <2> QED BY <1>1, <2>3, <2>5, <2>7
<1>8. CASE removed >= MAX_PHASE
  BY <1>1, <1>4, <1>5, <1>8
<1>9. CASE removed < MAX_PHASE
  <2>1. MAX_PHASE - removed \in Nat /\ MAX_PHASE - removed <= MAX_PHASE
        /\ MAX_PHASE - (MAX_PHASE - removed) = removed
    BY <1>1, <1>9
  <2>2. text[removed] = Rewritten(removed)
    BY <1>7, <2>1
  <2> QED BY <1>4, <2>2
<1> QED BY <1>1, <1>8, <1>9

(***************************************************************************)
(* phase remove rewrites text it has already rewritten, so any two whole   *)
(* phases after the removed one, up to the 99th, end with one number       *)
(* (phase.cjs:536-539).                                                    *)
(***************************************************************************)
THEOREM LaterPhasesCollapse ==
  \A removed \in Nat : \A n, m \in removed + 1 .. MAX_PHASE :
     RenumberedInt(n, removed) = RenumberedInt(m, removed)
BY RenumberedIs DEF MAX_PHASE

\* Whole numbers are numbers.
LEMMA WholeIs ==
  ASSUME NEW k \in Nat
  PROVE  Whole(k) \in Numbered /\ Whole(k).int = k /\ Counted(Whole(k))
<1>1. Whole(k) = [int |-> k, letter |-> 0, decs |-> << >>]
  BY DEF Whole
<1>2. << >> \in Seq(Nat) /\ 0 \in Nat
  OBVIOUS
<1>3. Whole(k) \in PhaseNum /\ Whole(k).int = k /\ Whole(k).decs = << >>
  BY <1>1, <1>2 DEF PhaseNum
<1>4. \A i \in DOMAIN << >> : << >>[i] >= 1
  OBVIOUS
<1> QED BY <1>3, <1>4 DEF Numbered, Counted

\* Renumbering writes numbers that are not larger than those it found.
LEMMA Renumbered ==
  ASSUME NEW rm \in Seq(GoodSection), NEW removed \in Nat
  PROVE  Renumber(rm, removed) \in Seq(GoodSection)
<1> DEFINE Num(s) == IF ~s.pad /\ s.num = Whole(s.num.int)
                     THEN Whole(RenumberedInt(s.num.int, removed)) ELSE s.num
           Dep(s) == IF s.dep # NoRef /\ s.dep.num.letter = 0 /\ ~s.dep.pad
                     THEN [s.dep EXCEPT !.num.int = RenumberedInt(@, removed)] ELSE s.dep
           Edit(s) == [s EXCEPT !.num = Num(s), !.dep = Dep(s)]
<1>1. Renumber(rm, removed) = [j \in DOMAIN rm |-> Edit(rm[j])]
  BY DEF Renumber
<1>2. DOMAIN rm = 1 .. Len(rm) /\ \A j \in 1 .. Len(rm) : rm[j] \in GoodSection
  BY LenProperties
<1>3. \A n \in Nat : RenumberedInt(n, removed) \in Nat /\ RenumberedInt(n, removed) <= n
  BY RenumberedIs
<1>4. ASSUME NEW s \in GoodSection
      PROVE  Edit(s) \in GoodSection
  <2>1. /\ s.num \in Numbered /\ s.num.int \in 0 .. MaxInt
        /\ s.dep \in PhaseRef \cup {NoRef} /\ s \in Section
    BY SectionIs DEF GoodSection
  <2> PICK n : n = Num(s)
    OBVIOUS
  <2> PICK d : d = Dep(s)
    OBVIOUS
  <2>2. n \in PhaseNum /\ Counted(n) /\ n.int <= MaxInt
    <3>1. CASE n = s.num
      BY <2>1, <3>1, PlanningAssumption DEF Numbered
    <3>2. CASE n = Whole(RenumberedInt(s.num.int, removed))
      <4> PICK k : k = RenumberedInt(s.num.int, removed)
        OBVIOUS
      <4>1. k \in Nat /\ k <= MaxInt
        BY <1>3, <2>1, PlanningAssumption
      <4> QED BY <3>2, <4>1, WholeIs DEF Numbered
    <3> QED BY <3>1, <3>2
  <2>3. d \in PhaseRef \cup {NoRef}
    <3>1. CASE d = s.dep
      BY <2>1, <3>1
    <3>2. CASE s.dep # NoRef /\ d = [s.dep EXCEPT !.num.int = RenumberedInt(@, removed)]
      <4> PICK e : e = s.dep
        OBVIOUS
      <4>1. e \in PhaseRef
        BY <2>1, <3>2
      <4>2. e.num \in PhaseNum /\ e.pad \in BOOLEAN /\ e = [num |-> e.num, pad |-> e.pad]
        BY <4>1 DEF PhaseRef
      <4> PICK k : k = RenumberedInt(e.num.int, removed)
        OBVIOUS
      <4>3. e.num.int \in Nat /\ k \in Nat
        BY <1>3, <4>2 DEF PhaseNum
      <4>4. d = [e EXCEPT !.num.int = k]
        BY <3>2
      <4> PICK p : p = [e.num EXCEPT !.int = k]
        OBVIOUS
      <4>5. p \in PhaseNum
        BY <4>2, <4>3 DEF PhaseNum
      <4>6. d = [num |-> p, pad |-> e.pad]
        BY <4>2, <4>4
      <4> QED BY <4>2, <4>5, <4>6 DEF PhaseRef
    <3> QED BY <3>1, <3>2
  <2>4. Edit(s) = [s EXCEPT !.num = n, !.dep = d]
    OBVIOUS
  <2> HIDE DEF Num, Dep, Edit
  <2>5. Edit(s) \in Section /\ Edit(s).num = n
    BY <2>1, <2>2, <2>3, <2>4 DEF Section
  <2> QED BY <2>2, <2>5 DEF GoodSection
<1> PICK r : r = Renumber(rm, removed)
  OBVIOUS
<1>5. r = [j \in DOMAIN rm |-> r[j]] /\ \A j \in 1 .. Len(rm) : r[j] = Edit(rm[j])
  BY <1>1, <1>2
<1> HIDE DEF Edit
<1>6. \A j \in 1 .. Len(rm) : r[j] \in GoodSection
  BY <1>2, <1>4, <1>5
<1> QED BY <1>5, <1>6, Mapped

\* What phase remove makes of ROADMAP.md.
LEMMA RemovedFromRoadmap ==
  ASSUME NEW rm \in Seq(GoodSection), NEW ref, ref.num.int \in Nat
  PROVE  updateRoadmapAfterPhaseRemoval(rm, ref) \in Seq(GoodSection)
BY DroppedSection, Renumbered DEF updateRoadmapAfterPhaseRemoval

(***************************************************************************)
(* Edits of the phase directories.                                         *)
(***************************************************************************)
LEMMA EmptyIs == EmptyDir \in Contents
BY DEF EmptyDir, Contents

\* A directory made, unless it is there.
LEMMA Made ==
  ASSUME NEW ds, GoodDirs(ds), NEW name \in DirName, name.num \in Numbered
  PROVE  GoodDirs(MkDir(ds, name))
<1>1. IsFiniteSet(DOMAIN ds \cup {name})
  BY FS_AddElement DEF GoodDirs
<1> QED BY <1>1, EmptyIs DEF GoodDirs, MkDir

\* Directories taken away.
LEMMA Restricted ==
  ASSUME NEW ds, GoodDirs(ds), NEW names \in SUBSET DOMAIN ds
  PROVE  GoodDirs(Restrict(ds, names)) /\ DOMAIN Restrict(ds, names) = names
<1>1. IsFiniteSet(names)
  BY FS_Subset DEF GoodDirs
<1> QED BY <1>1 DEF GoodDirs, Restrict

\* A file written into a directory.
LEMMA Refilled ==
  ASSUME NEW ds, GoodDirs(ds), NEW d \in DOMAIN ds, NEW files \in Contents
  PROVE  GoodDirs([ds EXCEPT ![d] = files])
BY DEF GoodDirs

\* Directories moved into the archive.
LEMMA Merged ==
  ASSUME NEW ds, GoodDirs(ds), NEW es, GoodDirs(es), NEW moved \in SUBSET DOMAIN es,
         NEW r, r = [d \in DOMAIN ds \cup moved |-> IF d \in moved THEN es[d] ELSE ds[d]]
  PROVE  GoodDirs(r)
<1>1. IsFiniteSet(DOMAIN ds \cup moved)
  BY FS_Subset, FS_Union DEF GoodDirs
<1> QED BY <1>1 DEF GoodDirs

\* The name a later phase's directory gets is a name again.
LEMMA ShiftedIs ==
  ASSUME NEW names \in SUBSET DirName, \A d \in names : d.num \in Numbered,
         NEW removed \in Numbered, NEW d \in ToRename(names, removed)
  PROVE  Shifted(d, removed) \in DirName /\ Shifted(d, removed).num \in Numbered
<1>1. d \in names /\ d \in DirName /\ d.num \in Numbered
  BY DEF ToRename
<1>2. /\ d.num \in PhaseNum /\ d.num.int \in Nat /\ d.num.decs \in Seq(Nat)
      /\ \A i \in 1 .. Len(d.num.decs) : d.num.decs[i] >= 1
  BY <1>1, NumberIs DEF Numbered
<1>3. CASE removed.decs # << >>
  <2>1. Len(d.num.decs) = 1 /\ d.num.decs[1] > removed.decs[1]
    BY <1>3 DEF ToRename
  <2>2. removed.decs[1] \in Nat /\ removed.decs[1] >= 1 /\ d.num.decs[1] \in Nat
    <3>1. removed.decs \in Seq(Nat) /\ \A i \in 1 .. Len(removed.decs) : removed.decs[i] >= 1
      BY NumberIs
    <3>2. 1 \in 1 .. Len(removed.decs) /\ 1 \in 1 .. Len(d.num.decs)
      BY <1>3, <2>1, <3>1
    <3> QED BY <1>2, <3>1, <3>2
  <2> PICK k : k = d.num.decs[1] - 1
    OBVIOUS
  <2>3. k \in Nat /\ k >= 1
    BY <2>1, <2>2
  <2> PICK q : q = [d.num.decs EXCEPT ![1] = k]
    OBVIOUS
  <2>4. q \in Seq(Nat) /\ Len(q) = 1 /\ q[1] = k
    BY <1>2, <2>1, <2>3, ExceptSeq
  <2>5. Shifted(d, removed) = [d EXCEPT !.num.decs = q]
    BY <1>3 DEF Shifted
  <2> PICK p : p = [d.num EXCEPT !.decs = q]
    OBVIOUS
  <2>6. p \in PhaseNum /\ p.decs = q
    BY <1>2, <2>4 DEF PhaseNum
  <2>7. p \in Numbered
    <3>1. \A i \in DOMAIN q : q[i] >= 1
      BY <2>3, <2>4
    <3> QED BY <2>6, <3>1 DEF Numbered, Counted
  <2>8. [d EXCEPT !.num.decs = q] = [num |-> p, slug |-> d.slug]
    BY <1>1 DEF DirName
  <2>9. Shifted(d, removed).num = p /\ Shifted(d, removed) = [num |-> p, slug |-> d.slug]
    BY <2>5, <2>8
  <2> QED BY ONLY <1>1, <2>6, <2>7, <2>9 DEF DirName
<1>4. CASE removed.decs = << >>
  <2>1. d.num.int > removed.int
    BY <1>4 DEF ToRename
  <2> PICK k : k = d.num.int - 1
    OBVIOUS
  <2>2. k \in Nat
    BY <1>2, <2>1, NumberIs
  <2>3. Shifted(d, removed) = [d EXCEPT !.num.int = k]
    BY <1>4 DEF Shifted
  <2> PICK p : p = [d.num EXCEPT !.int = k]
    OBVIOUS
  <2>4. p \in PhaseNum /\ p.decs = d.num.decs
    BY <1>2, <2>2 DEF PhaseNum
  <2>5. p \in Numbered
    BY <1>1, <2>4 DEF Numbered, Counted
  <2>6. [d EXCEPT !.num.int = k] = [num |-> p, slug |-> d.slug]
    BY <1>1 DEF DirName
  <2>7. Shifted(d, removed).num = p /\ Shifted(d, removed) = [num |-> p, slug |-> d.slug]
    BY <2>3, <2>6
  <2> QED BY ONLY <1>1, <2>4, <2>5, <2>7 DEF DirName
<1> QED BY <1>3, <1>4

\* Only later phases are renamed.
LEMMA RenamedAreLater ==
  ASSUME NEW names, NEW removed, NEW moved \in Renamings(names, removed)
  PROVE  moved \subseteq ToRename(names, removed)
BY DEF Renamings

\* Directories of later phases renamed.
LEMMA RenamedDirs ==
  ASSUME NEW ds, GoodDirs(ds), NEW removed \in Numbered,
         NEW moved \in Renamings(DOMAIN ds, removed)
  PROVE  GoodDirs(RenameDirs(ds, moved, removed))
<1> DEFINE To == [d \in moved |-> Shifted(d, removed)]
           new == {Shifted(d, removed) : d \in moved}
           names == (DOMAIN ds \ moved) \cup new
           r == RenameDirs(ds, moved, removed)
<1>1. moved \subseteq ToRename(DOMAIN ds, removed) /\ moved \subseteq DOMAIN ds
  BY RenamedAreLater DEF ToRename
<1>2. IsFiniteSet(moved) /\ IsFiniteSet(DOMAIN ds \ moved)
  BY <1>1, FS_Subset DEF GoodDirs
<1>3. IsFiniteSet(new)
  <2>1. To \in Surjection(moved, new)
    BY DEF Surjection
  <2> HIDE DEF To, new
  <2> QED BY <1>2, <2>1, FS_Surjection
<1>4. IsFiniteSet(names)
  <2> HIDE DEF new
  <2> QED BY <1>2, <1>3, FS_Union
<1>5. \A n \in new : n \in DirName /\ n.num \in Numbered
  <2>1. DOMAIN ds \in SUBSET DirName /\ \A d \in DOMAIN ds : d.num \in Numbered
    BY DEF GoodDirs
  <2>2. \A d \in moved : Shifted(d, removed) \in DirName /\ Shifted(d, removed).num \in Numbered
    BY <1>1, <2>1, ShiftedIs
  <2> QED BY <2>2
<1>6. \A n \in names : n \in DirName /\ n.num \in Numbered
  <2> HIDE DEF new
  <2> QED BY <1>5 DEF GoodDirs
<1>7. r = [n \in names |-> r[n]]
  BY DEF RenameDirs
<1>8. ASSUME NEW n \in names
      PROVE  r[n] \in Contents
  <2>1. r[n] = IF \E d \in moved : Shifted(d, removed) = n
               THEN ds[CHOOSE d \in moved : Shifted(d, removed) = n] ELSE ds[n]
    BY DEF RenameDirs
  <2>2. CASE \E d \in moved : Shifted(d, removed) = n
    <3> PICK d : d = CHOOSE x \in moved : Shifted(x, removed) = n
      OBVIOUS
    <3>1. d \in moved /\ r[n] = ds[d]
      BY <2>1, <2>2
    <3> QED BY <1>1, <3>1 DEF GoodDirs
  <2>3. CASE ~\E d \in moved : Shifted(d, removed) = n
    <3>1. n \in DOMAIN ds /\ r[n] = ds[n]
      BY <2>1, <2>3
    <3> QED BY <3>1 DEF GoodDirs
  <2> QED BY <2>2, <2>3
<1>9. DOMAIN r = names
  BY DEF RenameDirs
<1> HIDE DEF r, names
<1> QED BY <1>4, <1>6, <1>7, <1>8, <1>9 DEF GoodDirs, r

(***************************************************************************)
(* The next free decimal counts from 1.                                    *)
(***************************************************************************)
LEMMA NextDecimalIs ==
  ASSUME NEW ds, GoodDirs(ds), NEW p \in Numbered
  PROVE  NextDecimal(ds, p) \in Nat /\ NextDecimal(ds, p) >= 1
<1> DEFINE n == Len(p.decs)
           D == {e \in DOMAIN ds :
                   /\ e.num.int = p.int /\ e.num.letter = p.letter
                   /\ Len(e.num.decs) > n /\ SubSeq(e.num.decs, 1, n) = p.decs}
           S == {d.num.decs[n + 1] : d \in D}
           f == [d \in D |-> d.num.decs[n + 1]]
<1>1. n \in Nat
  BY NumberIs
<1>2. \A d \in D : d.num.decs[n + 1] \in Nat
  <2> SUFFICES ASSUME NEW d \in D PROVE d.num.decs[n + 1] \in Nat
    OBVIOUS
  <2>1. d.num \in Numbered /\ Len(d.num.decs) > n
    BY DEF GoodDirs
  <2>2. d.num.decs \in Seq(Nat)
    BY <2>1, NumberIs
  <2> HIDE DEF D, n
  <2> QED BY <1>1, <2>1, <2>2
<1>3. IsFiniteSet(S)
  <2>1. IsFiniteSet(D)
    BY FS_Subset DEF GoodDirs
  <2>2. f \in Surjection(D, S)
    BY DEF Surjection
  <2> HIDE DEF f, D, S
  <2> QED BY <2>1, <2>2, FS_Surjection
<1>4. S \cup {0} \in SUBSET Nat /\ IsFiniteSet(S \cup {0}) /\ S \cup {0} # {}
  <2>1. S \in SUBSET Nat
    BY <1>2
  <2> HIDE DEF S
  <2> QED BY <1>3, <2>1, FS_AddElement
<1>5. DecimalsUnder(ds, p) = S
  BY DEF DecimalsUnder
<1> HIDE DEF S
<1>6. Max(S \cup {0}) \in Nat
  BY <1>4, MaxIsLargest
<1> QED BY <1>5, <1>6 DEF NextDecimal

\* A decimal number counted from 1 is one the tools write.
LEMMA ChildIs ==
  ASSUME NEW p \in Numbered, NEW k \in Nat, k >= 1
  PROVE  Child(p, k) \in Numbered /\ Child(p, k).int = p.int
<1> PICK q : q = Append(p.decs, k)
  OBVIOUS
<1>1. p.decs \in Seq(Nat) /\ p \in PhaseNum /\ \A i \in 1 .. Len(p.decs) : p.decs[i] >= 1
  BY NumberIs DEF Numbered
<1>2. q \in Seq(Nat) /\ Len(q) = Len(p.decs) + 1 /\ \A i \in 1 .. Len(q) : q[i] >= 1
  BY <1>1
<1> PICK c : c = [p EXCEPT !.decs = q]
  OBVIOUS
<1>3. c = Child(p, k)
  BY DEF Child
<1>4. c \in PhaseNum /\ c.decs = q /\ c.int = p.int
  BY <1>1, <1>2 DEF PhaseNum
<1>5. DOMAIN q = 1 .. Len(q)
  BY <1>2
<1> QED BY <1>2, <1>3, <1>4, <1>5 DEF Numbered, Counted

\* One more than the largest whole phase of the milestone.
LEMMA NextIntIs ==
  ASSUME NEW rm \in Seq(GoodSection)
  PROVE  Max({p.int : p \in NumbersIn(rm)} \cup {0}) \in Nat
<1> DEFINE S == {p.int : p \in NumbersIn(rm)} \cup {0}
<1>1. \A p \in NumbersIn(rm) : p.int \in Nat /\ p.int <= MaxInt
  BY CurrentIs, SectionIs DEF NumbersIn, GoodSection, Numbered, PhaseNum
<1>2. S \in SUBSET Nat /\ (\A s \in S : s <= MaxInt) /\ S # {}
  BY <1>1, PlanningAssumption
<1> HIDE DEF S
<1>3. IsFiniteSet(S)
  BY <1>2, PlanningAssumption, FS_BoundedSetOfNaturals
<1>4. Max(S) \in Nat
  BY <1>2, <1>3, MaxIsLargest
<1> QED BY <1>4 DEF S

(***************************************************************************)
(* What the user may type.                                                 *)
(***************************************************************************)
LEMMA RefIs ==
  ASSUME PlanningInv, NEW ref \in Refs
  PROVE  /\ ref.num \in Numbered /\ ref.num.int \in Nat /\ ref.pad \in BOOLEAN
         /\ ref \in PhaseRef
<1>1. \A s \in Current(roadmap) : s.num \in Numbered
  BY CurrentIs, SectionIs DEF PlanningInv
<1>2. \A d \in DOMAIN dirs : d.num \in Numbered
  BY DEF PlanningInv, GoodDirs
<1>3. KnownNumbers \subseteq Numbered
  BY <1>1, <1>2 DEF KnownNumbers, NumbersIn
<1>4. ref.num \in Numbered /\ ref.pad \in BOOLEAN /\ ref = [num |-> ref.num, pad |-> ref.pad]
  BY <1>3 DEF Refs
<1>5. ref.num \in PhaseNum /\ ref.num.int \in Nat
  BY <1>4, NumberIs DEF Numbered
<1> QED BY <1>4, <1>5 DEF PhaseRef

\* A new section is one the tools can have written.
LEMMA NewIs ==
  ASSUME NEW num \in Numbered, num.int <= MaxInt, NEW pad \in BOOLEAN, NEW dep \in PhaseRef
  PROVE  NewSection(num, pad, dep) \in GoodSection
<1> PICK s : s = NewSection(num, pad, dep)
  OBVIOUS
<1> PICK todo : todo = [num |-> num, pad |-> pad]
  OBVIOUS
<1>1. s = [num |-> num, pad |-> pad, shipped |-> FALSE, box |-> "open", todo |-> todo,
           row |-> "none", reqs |-> {}, dep |-> dep]
  BY DEF NewSection
<1>2. num \in PhaseNum /\ Counted(num) /\ "open" \in Boxes /\ "none" \in Rows /\ {} \in SUBSET Reqs
  BY DEF Numbered, Boxes, Rows
<1>0. todo \in PhaseRef \cup {NoRef}
  BY <1>2 DEF PhaseRef
<1>3. s \in Section /\ s.num = num
  BY <1>0, <1>1, <1>2 DEF Section
<1> QED BY <1>2, <1>3 DEF GoodSection

(***************************************************************************)
(* The first state.                                                        *)
(***************************************************************************)
\* Directories made for a set of numbers, all with the same files.
MadeFor(ds, nums, slug, files) ==
    /\ DOMAIN ds = [num : nums, slug : {slug}]
    /\ ds = [d \in DOMAIN ds |-> ds[d]]
    /\ \A d \in DOMAIN ds : ds[d] = files

\* Made for finitely many numbers, they are finitely many.
LEMMA DirsFor ==
  ASSUME NEW nums, IsFiniteSet(nums), nums \subseteq Numbered, NEW slug \in Slugs,
         NEW files \in Contents, NEW ds, MadeFor(ds, nums, slug, files)
  PROVE  GoodDirs(ds)
<1> DEFINE names == [num : nums, slug : {slug}]
           f == [p \in nums |-> [num |-> p, slug |-> slug]]
<1>1. f \in Surjection(nums, names)
  BY DEF Surjection
<1>2. IsFiniteSet(names)
  <2> HIDE DEF f, names
  <2> QED BY <1>1, FS_Surjection
<1>3. \A d \in names : d \in DirName /\ d.num \in Numbered
  BY DEF DirName, Numbered
<1>4. ds = [d \in names |-> ds[d]] /\ DOMAIN ds = names /\ \A d \in names : ds[d] = files
  BY DEF MadeFor
<1> HIDE DEF names
<1> QED BY <1>2, <1>3, <1>4 DEF GoodDirs

\* The numbers of a roadmap are finitely many.
LEMMA NumbersFinite ==
  ASSUME NEW rm \in Seq(GoodSection), NEW I \in SUBSET DOMAIN rm
  PROVE  IsFiniteSet({rm[i].num : i \in I}) /\ {rm[i].num : i \in I} \subseteq Numbered
<1> DEFINE f == [i \in I |-> rm[i].num]
           S == {rm[i].num : i \in I}
<1>1. DOMAIN rm = 1 .. Len(rm) /\ Len(rm) \in Nat /\ \A i \in DOMAIN rm : rm[i].num \in Numbered
  BY LenProperties, SectionIs
<1>2. IsFiniteSet(DOMAIN rm)
  BY <1>1, FS_Interval
<1>3. IsFiniteSet(I)
  BY <1>2, FS_Subset
<1>4. f \in Surjection(I, S)
  BY DEF Surjection
<1>5. IsFiniteSet(S)
  <2> HIDE DEF f, S
  <2> QED BY <1>3, <1>4, FS_Surjection
<1> QED BY <1>1, <1>5

\* A project as the roadmapper left it.
LEMMA InitPlanning == Init => PlanningInv
<1> SUFFICES ASSUME Init PROVE PlanningInv
  OBVIOUS
<1>1. roadmap \in Seq(GoodSection)
  <2>1. /\ roadmap \in Seq(Section)
        /\ \A i \in DOMAIN roadmap : Counted(roadmap[i].num) /\ roadmap[i].num.int <= MaxInt
    BY PlanningAssumption DEF Init
  <2>2. Len(roadmap) \in Nat /\ DOMAIN roadmap = 1 .. Len(roadmap)
        /\ \A i \in DOMAIN roadmap : roadmap[i] \in Section
    BY <2>1, LenProperties
  <2>3. \A i \in 1 .. Len(roadmap) : roadmap[i] \in GoodSection
    BY <2>1, <2>2 DEF GoodSection
  <2>4. roadmap = [i \in DOMAIN roadmap |-> roadmap[i]]
    BY <2>1
  <2> QED BY <2>1, <2>3, <2>4, Mapped
<1>2. GoodDirs(dirs)
  <2>1. CASE dirs = NoDirs
    BY <2>1, FS_EmptySet DEF NoDirs, GoodDirs
  <2>2. ASSUME NEW slug \in Slugs, dirs = [d \in [num : NumbersIn(roadmap), slug : {slug}] |-> EmptyDir]
        PROVE  GoodDirs(dirs)
    <3> DEFINE I == {j \in DOMAIN roadmap : ~roadmap[j].shipped}
    <3>1. NumbersIn(roadmap) = {roadmap[i].num : i \in I}
      BY <1>1, CurrentIs DEF NumbersIn
    <3>2. IsFiniteSet(NumbersIn(roadmap)) /\ NumbersIn(roadmap) \subseteq Numbered
      BY <1>1, <3>1, NumbersFinite
    <3> PICK nums : nums = NumbersIn(roadmap)
      OBVIOUS
    <3> PICK files : files = EmptyDir
      OBVIOUS
    <3>3. MadeFor(dirs, nums, slug, files)
      BY <2>2 DEF MadeFor
    <3>4. IsFiniteSet(nums) /\ nums \subseteq Numbered /\ files \in Contents
      BY <3>2, EmptyIs
    <3> QED BY ONLY <3>3, <3>4, DirsFor, slug \in Slugs
  <2> QED BY <2>1, <2>2 DEF Init
<1>3. GoodDirs(archive.phases)
  <2> PICK slug \in Slugs, gone \in {{}, {s.num : s \in {t \in ToSet(roadmap) : t.shipped}}} :
         archive = [phases  |-> [d \in [num : gone, slug : {slug}] |->
                                   [EmptyDir EXCEPT !.plans = PlanIds, !.summaries = PlanIds]],
                    roadmap |-> << >>, reqs |-> << >>]
    BY DEF Init
  <2> DEFINE I == {j \in DOMAIN roadmap : roadmap[j].shipped}
  <2>1. {s.num : s \in {t \in ToSet(roadmap) : t.shipped}} = {roadmap[i].num : i \in I}
    BY DEF ToSet
  <2>2. IsFiniteSet(gone) /\ gone \subseteq Numbered
    BY <1>1, <2>1, NumbersFinite, FS_EmptySet
  <2> PICK files : files = [EmptyDir EXCEPT !.plans = PlanIds, !.summaries = PlanIds]
    OBVIOUS
  <2>3. files \in Contents
    BY DEF EmptyDir, Contents
  <2> PICK ds : ds = archive.phases
    OBVIOUS
  <2>4. MadeFor(ds, gone, slug, files)
    BY DEF MadeFor
  <2>5. GoodDirs(ds)
    BY ONLY <2>2, <2>3, <2>4, DirsFor, slug \in Slugs
  <2> QED BY <2>5
<1>4. reqs \in [Reqs -> [box : BOOLEAN, row : {"Pending", "Complete"}]]
  BY DEF Init
<1>5. commands = 0 /\ commands \in 0 .. MaxCommands
  <2>1. commands = 0
    BY DEF Init
  <2>2. 0 \in 0 .. MaxCommands
    BY PlanningAssumption
  <2> QED BY <2>1, <2>2
<1>6. GoodState
  <2> DEFINE cur == extractCurrentMilestone(roadmap)
  <2>1. Len(cur) \in Nat
    BY <1>1, CurrentIs, LenProperties
  <2>2. state = [phase |-> NoRef, status |-> "Ready to plan", completed |-> 0,
                 total |-> Len(cur), percent |-> 0]
    BY DEF Init
  <2> HIDE DEF cur
  <2>3. state.completed = 0 /\ state.total = Len(cur)
    BY <2>2
  <2>4. state = [x \in StateKeys |-> state[x]]
    BY <2>2 DEF StateKeys
  <2> QED BY ONLY <1>5, <2>1, <2>3, <2>4 DEF GoodState
<1> QED BY <1>1, <1>2, <1>3, <1>4, <1>5, <1>6 DEF PlanningInv

(***************************************************************************)
(* The commands.                                                           *)
(***************************************************************************)
\* A command counts, and STATE.md stays what it was unless it is edited.
LEMMA Counts ==
  ASSUME PlanningInv, Command
  PROVE  /\ commands \in Nat /\ commands' = commands + 1 /\ commands' \in 0 .. MaxCommands
         /\ state' = state => GoodState'
BY PlanningAssumption DEF PlanningInv, Command, GoodState

\* Fields of STATE.md other than the two counters.
LEMMA StateEdited ==
  ASSUME PlanningInv, Command, NEW k, k = [x \in StateKeys |-> k[x]],
         k.completed \in 0 .. commands + 1, k.total \in Int, state' = k
  PROVE  GoodState'
BY Counts DEF GoodState

\* phase add (phase.cjs:311-380).
LEMMA AddKeeps ==
  ASSUME PlanningInv, NEW slug \in Slugs, PhaseAdd(slug)
  PROVE  PlanningInv'
<1> PICK top : top = Max({p.int : p \in NumbersIn(roadmap)} \cup {0})
  OBVIOUS
<1> PICK n : n = top + 1
  OBVIOUS
<1>1. /\ Command /\ n <= MaxInt
      /\ dirs' = MkDir(dirs, [num |-> Whole(n), slug |-> slug])
      /\ roadmap' = Append(roadmap, NewSection(Whole(n), FALSE, Plain(Whole(n - 1))))
      /\ UNCHANGED << reqs, state, archive, shipped >>
  BY DEF PhaseAdd
<1>2. top \in Nat /\ roadmap \in Seq(GoodSection)
  BY NextIntIs DEF PlanningInv
<1>3. n \in Nat /\ n - 1 \in Nat
  BY <1>2
<1>4. Whole(n) \in Numbered /\ Whole(n).int = n /\ Whole(n - 1) \in PhaseNum
  BY <1>3, WholeIs DEF Numbered
<1> PICK pad : pad = FALSE
  OBVIOUS
<1> PICK s : s = NewSection(Whole(n), pad, Plain(Whole(n - 1)))
  OBVIOUS
<1>5. Plain(Whole(n - 1)) \in PhaseRef
  BY <1>4 DEF Plain, PhaseRef
<1>6. s \in GoodSection
  BY <1>1, <1>4, <1>5, NewIs
<1>7. roadmap' \in Seq(GoodSection)
  BY <1>1, <1>2, <1>6, AppendedSet
<1> PICK name : name = [num |-> Whole(n), slug |-> slug]
  OBVIOUS
<1>8. name \in DirName /\ name.num \in Numbered
  BY <1>4 DEF DirName, Numbered
<1>9. GoodDirs(dirs') /\ GoodDirs(archive'.phases)
  BY <1>1, <1>8, Made DEF PlanningInv
<1> QED BY <1>1, <1>7, <1>9, Counts DEF PlanningInv

\* phase insert (phase.cjs:382-460).
LEMMA InsertKeeps ==
  ASSUME PlanningInv, NEW ref \in Refs, NEW slug \in Slugs, PhaseInsert(ref, slug)
  PROVE  PlanningInv'
<1> PICK k : k = NextDecimal(dirs, ref.num)
  OBVIOUS
<1> PICK num : num = Child(ref.num, k)
  OBVIOUS
<1>1. /\ Command /\ ref.num \in NumbersIn(roadmap)
      /\ dirs' = MkDir(dirs, [num |-> num, slug |-> slug])
      /\ roadmap' = InsertAfter(roadmap, ref.num, NewSection(num, TRUE, ref))
      /\ UNCHANGED << reqs, state, archive, shipped >>
  BY DEF PhaseInsert
<1>2. ref.num \in Numbered /\ ref \in PhaseRef /\ roadmap \in Seq(GoodSection) /\ GoodDirs(dirs)
  BY RefIs DEF PlanningInv
<1>3. k \in Nat /\ k >= 1
  BY <1>2, NextDecimalIs
<1>4. num \in Numbered /\ num.int = ref.num.int
  BY <1>2, <1>3, ChildIs
<1>5. ref.num.int <= MaxInt
  BY <1>1, <1>2, CurrentIs, SectionIs DEF NumbersIn, GoodSection
<1> PICK pad : pad = TRUE
  OBVIOUS
<1> PICK s : s = NewSection(num, pad, ref)
  OBVIOUS
<1>6. s \in GoodSection
  BY <1>2, <1>4, <1>5, NewIs
<1>7. roadmap' \in Seq(GoodSection)
  BY <1>1, <1>2, <1>6, InsertedSection
<1> PICK name : name = [num |-> num, slug |-> slug]
  OBVIOUS
<1>8. name \in DirName /\ name.num \in Numbered
  BY <1>4 DEF DirName, Numbered
<1>9. GoodDirs(dirs') /\ GoodDirs(archive'.phases)
  BY <1>1, <1>8, Made DEF PlanningInv
<1> QED BY <1>1, <1>7, <1>9, Counts DEF PlanningInv

\* phase remove (phase.cjs:564-627).
LEMMA RemoveKeeps ==
  ASSUME PlanningInv, NEW ref \in Refs, NEW force \in BOOLEAN, PhaseRemove(ref, force)
  PROVE  PlanningInv'
<1>1. ref.num \in Numbered /\ ref.num.int \in Nat
  BY RefIs
<1>2. PICK gone, moved :
        /\ moved \in Renamings(DOMAIN Restrict(dirs, DOMAIN dirs \ gone), ref.num)
        /\ dirs' = RenameDirs(Restrict(dirs, DOMAIN dirs \ gone), moved, ref.num)
  BY DEF PhaseRemove
<1> PICK left : left = Restrict(dirs, DOMAIN dirs \ gone)
  OBVIOUS
<1>3. GoodDirs(left)
  BY Restricted DEF PlanningInv
<1>4. GoodDirs(dirs')
  BY <1>1, <1>2, <1>3, RenamedDirs
<1>5. /\ Command /\ roadmap' = updateRoadmapAfterPhaseRemoval(roadmap, ref)
      /\ state' = [state EXCEPT !.total = @ - 1]
      /\ UNCHANGED << reqs, archive, shipped >>
  BY DEF PhaseRemove
<1>6. roadmap' \in Seq(GoodSection)
  BY <1>1, <1>5, RemovedFromRoadmap DEF PlanningInv
<1>7. GoodState'
  <2> PICK k : k = [state EXCEPT !.total = @ - 1]
    OBVIOUS
  <2>1. state = [x \in StateKeys |-> state[x]] /\ state.completed \in 0 .. commands /\ state.total \in Int
        /\ commands \in Nat
    BY <1>5, Counts DEF PlanningInv, GoodState
  <2>2. k = [x \in StateKeys |-> k[x]] /\ k.completed = state.completed /\ k.total = state.total - 1
    BY <2>1 DEF StateKeys
  <2>3. k.completed \in 0 .. commands + 1 /\ k.total \in Int
    BY ONLY <2>1, <2>2
  <2> QED BY <1>5, <2>2, <2>3, StateEdited
<1> QED BY <1>4, <1>5, <1>6, <1>7, Counts DEF PlanningInv

\* phase complete (phase.cjs:629-877).
LEMMA CompleteKeeps ==
  ASSUME PlanningInv, NEW ref \in Refs, PhaseComplete(ref)
  PROVE  PlanningInv'
<1> PICK rm : rm = SetRow(TickBox(roadmap, ref), ref, "Complete")
  OBVIOUS
<1>1. /\ Command /\ roadmap' = rm /\ reqs' = CompleteRequirements(rm, ref)
      /\ state' = CompleteState(rm, ref) /\ UNCHANGED << dirs, archive, shipped >>
  BY DEF PhaseComplete
<1>2. roadmap' \in Seq(GoodSection)
  <2>1. roadmap \in Seq(GoodSection) /\ "Complete" \in Rows
    BY DEF PlanningInv, Rows
  <2> QED BY <1>1, <2>1, MarkedAlike DEF Alike
<1>3. reqs' \in [Reqs -> [box : BOOLEAN, row : {"Pending", "Complete"}]]
  <2> PICK found : found = IF ref \in Headings(rm) THEN SectionOf(rm, ref).reqs ELSE {}
    OBVIOUS
  <2>1. reqs' = [r \in Reqs |-> IF r \in found THEN [box |-> TRUE, row |-> "Complete"] ELSE reqs[r]]
    BY <1>1 DEF CompleteRequirements
  <2> QED BY <2>1 DEF PlanningInv
<1>4. GoodState'
  <2> PICK next : next = NextPhase(rm, ref)
    OBVIOUS
  <2> PICK done : done = state.completed + 1
    OBVIOUS
  <2> PICK k : k = CompleteState(rm, ref)
    OBVIOUS
  <2>1. state = [x \in StateKeys |-> state[x]] /\ state.completed \in 0 .. commands /\ state.total \in Int
        /\ commands \in Nat
    BY <1>1, Counts DEF PlanningInv, GoodState
  <2>2. k = [state EXCEPT
           !.phase     = IF next = NoRef THEN ref ELSE next,
           !.status    = IF next = NoRef THEN "Milestone complete" ELSE "Ready to plan",
           !.completed = done,
           !.percent   = IF state.total > 0 THEN Percent(done, state.total) ELSE @]
    BY DEF CompleteState
  <2>3. k = [x \in StateKeys |-> k[x]] /\ k.completed = done /\ k.total = state.total
    BY <2>1, <2>2 DEF StateKeys
  <2>4. done \in 0 .. commands + 1
    BY <2>1
  <2> QED BY <1>1, <2>1, <2>3, <2>4, StateEdited
<1>5. GoodDirs(dirs') /\ GoodDirs(archive'.phases)
  BY <1>1 DEF PlanningInv
<1> QED BY <1>1, <1>2, <1>3, <1>4, <1>5, Counts DEF PlanningInv

\* roadmap update-plan-progress.
LEMMA ProgressKeeps ==
  ASSUME PlanningInv, NEW ref \in Refs, UpdatePlanProgress(ref)
  PROVE  PlanningInv'
<1>1. PICK status \in Rows, done \in BOOLEAN :
        roadmap' = IF done THEN TickBox(SetRow(roadmap, ref, status), ref)
                           ELSE SetRow(roadmap, ref, status)
  BY DEF UpdatePlanProgress, Rows
<1>2. Command /\ UNCHANGED << dirs, reqs, state, archive, shipped >>
  BY DEF UpdatePlanProgress
<1> PICK rm : rm = SetRow(roadmap, ref, status)
  OBVIOUS
<1>3. rm \in Seq(GoodSection)
  BY SetRowAlike DEF PlanningInv, Alike
<1>4. TickBox(rm, ref) \in Seq(GoodSection)
  BY <1>3, TickBoxAlike DEF Alike
<1>5. roadmap' \in Seq(GoodSection)
  BY <1>1, <1>3, <1>4
<1>6. GoodDirs(dirs') /\ GoodDirs(archive'.phases)
  BY <1>2 DEF PlanningInv
<1> QED BY <1>2, <1>5, <1>6, Counts DEF PlanningInv

\* requirements mark-complete.
LEMMA MarkKeeps ==
  ASSUME PlanningInv, NEW ids, MarkComplete(ids)
  PROVE  PlanningInv'
<1>1. Command /\ UNCHANGED << roadmap, dirs, state, archive, shipped >>
  BY DEF MarkComplete
<1>2. reqs' \in [Reqs -> [box : BOOLEAN, row : {"Pending", "Complete"}]]
  BY DEF MarkComplete, PlanningInv
<1>3. GoodDirs(dirs') /\ GoodDirs(archive'.phases) /\ roadmap' \in Seq(GoodSection)
  BY <1>1 DEF PlanningInv
<1> QED BY <1>1, <1>2, <1>3, Counts DEF PlanningInv

\* milestone complete.
LEMMA MilestoneKeeps ==
  ASSUME PlanningInv, NEW archivePhases \in BOOLEAN, MilestoneComplete(archivePhases)
  PROVE  PlanningInv'
<1>1. /\ Command /\ state' = [state EXCEPT !.status = "v1 milestone complete"]
      /\ UNCHANGED << roadmap, reqs >>
  BY DEF MilestoneComplete
<1>2. PICK moved \in SUBSET DOMAIN dirs :
        /\ dirs' = Restrict(dirs, DOMAIN dirs \ moved)
        /\ archive' = [phases  |-> [d \in DOMAIN archive.phases \cup moved |->
                                      IF d \in moved THEN dirs[d] ELSE archive.phases[d]],
                       roadmap |-> roadmap, reqs |-> reqs]
  BY DEF MilestoneComplete, MilestoneDirs
<1>3. GoodDirs(dirs')
  BY <1>2, Restricted DEF PlanningInv
<1> PICK phases : phases = [d \in DOMAIN archive.phases \cup moved |->
                              IF d \in moved THEN dirs[d] ELSE archive.phases[d]]
  OBVIOUS
<1>4. GoodDirs(phases)
  <2> PICK ds : ds = archive.phases
    OBVIOUS
  <2>1. GoodDirs(ds) /\ GoodDirs(dirs)
    BY DEF PlanningInv
  <2>2. phases = [d \in DOMAIN ds \cup moved |-> IF d \in moved THEN dirs[d] ELSE ds[d]]
    OBVIOUS
  <2> QED BY ONLY <2>1, <2>2, Merged, moved \in SUBSET DOMAIN dirs
<1>5. archive'.phases = phases
  BY <1>2
<1>6. GoodState'
  <2> PICK k : k = [state EXCEPT !.status = "v1 milestone complete"]
    OBVIOUS
  <2>1. state = [x \in StateKeys |-> state[x]] /\ state.completed \in 0 .. commands /\ state.total \in Int
        /\ commands \in Nat
    BY <1>1, Counts DEF PlanningInv, GoodState
  <2>2. k = [x \in StateKeys |-> k[x]] /\ k.completed = state.completed /\ k.total = state.total
    BY <2>1 DEF StateKeys
  <2>3. k.completed \in 0 .. commands + 1 /\ k.total \in Int
    BY ONLY <2>1, <2>2
  <2> QED BY <1>1, <2>2, <2>3, StateEdited
<1>7. roadmap' \in Seq(GoodSection) /\ reqs' \in [Reqs -> [box : BOOLEAN, row : {"Pending", "Complete"}]]
  BY <1>1 DEF PlanningInv
<1> QED BY <1>1, <1>3, <1>4, <1>5, <1>6, <1>7, Counts DEF PlanningInv

\* scaffold phase-dir.
LEMMA ScaffoldDirKeeps ==
  ASSUME PlanningInv, NEW p \in NumbersIn(roadmap), NEW slug \in Slugs, ScaffoldPhaseDir(p, slug)
  PROVE  PlanningInv'
<1>1. /\ Command /\ dirs' = MkDir(dirs, [num |-> p, slug |-> slug])
      /\ UNCHANGED << roadmap, reqs, state, archive, shipped >>
  BY DEF ScaffoldPhaseDir
<1>2. p \in Numbered
  BY CurrentIs, SectionIs DEF PlanningInv, NumbersIn
<1> PICK name : name = [num |-> p, slug |-> slug]
  OBVIOUS
<1>3. name \in DirName /\ name.num \in Numbered
  BY <1>2 DEF DirName, Numbered
<1>4. GoodDirs(dirs') /\ GoodDirs(archive'.phases) /\ roadmap' \in Seq(GoodSection)
  BY <1>1, <1>3, Made DEF PlanningInv
<1> QED BY <1>1, <1>4, Counts DEF PlanningInv

\* A directory's files after one of them is written.
LEMMA FilesWrittenTo ==
  ASSUME NEW files \in Contents
  PROVE  /\ [files EXCEPT !.context = TRUE] \in Contents
         /\ [files EXCEPT !.research = TRUE] \in Contents
         /\ \A k \in PlanIds : /\ [files EXCEPT !.plans = @ \cup {k}] \in Contents
                               /\ [files EXCEPT !.summaries = @ \cup {k}] \in Contents
BY DEF Contents

\* scaffold context, uat and verification.
LEMMA ScaffoldContextKeeps ==
  ASSUME PlanningInv, NEW p \in KnownNumbers, ScaffoldContext(p)
  PROVE  PlanningInv'
<1>1. Command /\ UNCHANGED << roadmap, reqs, state, shipped >>
  BY DEF ScaffoldContext
<1>2. \A ds : searchPhaseInDir(ds, p) \subseteq DOMAIN ds
  BY DEF searchPhaseInDir, FirstOf
<1>3. GoodDirs(dirs') /\ GoodDirs(archive'.phases)
  <2>1. ASSUME NEW d \in searchPhaseInDir(dirs, p), dirs' = [dirs EXCEPT ![d].context = TRUE],
               UNCHANGED archive
        PROVE  GoodDirs(dirs') /\ GoodDirs(archive'.phases)
    <3> PICK files : files = [dirs[d] EXCEPT !.context = TRUE]
      OBVIOUS
    <3>1. d \in DOMAIN dirs /\ files \in Contents
      BY <1>2, FilesWrittenTo DEF PlanningInv, GoodDirs
    <3>2. dirs' = [dirs EXCEPT ![d] = files]
      BY <2>1
    <3>3. GoodDirs(dirs)
      BY DEF PlanningInv
    <3>4. GoodDirs([dirs EXCEPT ![d] = files])
      BY ONLY <3>1, <3>3, Refilled
    <3> QED BY <2>1, <3>2, <3>4 DEF PlanningInv
  <2>2. ASSUME NEW d \in searchPhaseInDir(archive.phases, p),
               archive' = [archive EXCEPT !.phases[d].context = TRUE], UNCHANGED dirs
        PROVE  GoodDirs(dirs') /\ GoodDirs(archive'.phases)
    <3> PICK ds : ds = archive.phases
      OBVIOUS
    <3> PICK files : files = [ds[d] EXCEPT !.context = TRUE]
      OBVIOUS
    <3>1. d \in DOMAIN ds /\ GoodDirs(ds) /\ files \in Contents
      BY <1>2, FilesWrittenTo DEF PlanningInv, GoodDirs
    <3>2. archive'.phases = [ds EXCEPT ![d] = files]
      BY <2>2
    <3>3. GoodDirs([ds EXCEPT ![d] = files])
      BY ONLY <3>1, Refilled
    <3> QED BY <2>2, <3>2, <3>3 DEF PlanningInv
  <2> QED BY <2>1, <2>2 DEF ScaffoldContext
<1>4. roadmap' \in Seq(GoodSection) /\ reqs' \in [Reqs -> [box : BOOLEAN, row : {"Pending", "Complete"}]]
  BY <1>1 DEF PlanningInv
<1> QED BY <1>1, <1>3, <1>4, Counts DEF PlanningInv

\* Agents write plans and summaries.
LEMMA AgentsKeep ==
  ASSUME PlanningInv, NEW d \in DOMAIN dirs, AgentWrites(d)
  PROVE  PlanningInv'
<1>1. UNCHANGED << roadmap, reqs, state, archive, shipped, commands >>
  BY DEF AgentWrites
<1>2. PICK files \in Contents : dirs' = [dirs EXCEPT ![d] = files]
  <2> PICK now : now = dirs[d]
    OBVIOUS
  <2>1. now \in Contents
    BY DEF PlanningInv, GoodDirs
  <2>2. now.plans \subseteq PlanIds
    BY <2>1 DEF Contents
  <2> QED BY <2>1, <2>2, FilesWrittenTo DEF AgentWrites
<1>3. GoodDirs(dirs')
  BY <1>2, Refilled DEF PlanningInv
<1> QED BY <1>1, <1>3 DEF PlanningInv, GoodState

\* Every command leaves a tree the others can read.
LEMMA NextPlanning == PlanningInv /\ [Next]_vars => PlanningInv'
<1> SUFFICES ASSUME PlanningInv, [Next]_vars PROVE PlanningInv'
  OBVIOUS
<1>1. ASSUME NEW slug \in Slugs, PhaseAdd(slug) PROVE PlanningInv'
  BY <1>1, AddKeeps
<1>2. ASSUME NEW ref \in Refs, NEW slug \in Slugs, PhaseInsert(ref, slug) PROVE PlanningInv'
  BY <1>2, InsertKeeps
<1>3. ASSUME NEW ref \in Refs, NEW force \in BOOLEAN, PhaseRemove(ref, force) PROVE PlanningInv'
  BY <1>3, RemoveKeeps
<1>4. ASSUME NEW ref \in Refs, PhaseComplete(ref) PROVE PlanningInv'
  BY <1>4, CompleteKeeps
<1>5. ASSUME NEW ref \in Refs, UpdatePlanProgress(ref) PROVE PlanningInv'
  BY <1>5, ProgressKeeps
<1>6. ASSUME NEW ids, MarkComplete(ids) PROVE PlanningInv'
  BY <1>6, MarkKeeps
<1>7. ASSUME NEW archivePhases \in BOOLEAN, MilestoneComplete(archivePhases) PROVE PlanningInv'
  BY <1>7, MilestoneKeeps
<1>8. ASSUME NEW p \in NumbersIn(roadmap), NEW slug \in Slugs, ScaffoldPhaseDir(p, slug) PROVE PlanningInv'
  BY <1>8, ScaffoldDirKeeps
<1>9. ASSUME NEW p \in KnownNumbers, ScaffoldContext(p) PROVE PlanningInv'
  BY <1>9, ScaffoldContextKeeps
<1>10. ASSUME NEW d \in DOMAIN dirs, AgentWrites(d) PROVE PlanningInv'
  BY <1>10, AgentsKeep
<1>11. CASE UNCHANGED vars
  BY <1>11 DEF vars, PlanningInv, GoodState
<1> QED BY <1>1, <1>2, <1>3, <1>4, <1>5, <1>6, <1>7, <1>8, <1>9, <1>10, <1>11 DEF Next

\* So the tree always is.
LEMMA PlanningInvariant == Spec => []PlanningInv
BY InitPlanning, NextPlanning, PTL DEF Spec

(***************************************************************************)
(* A sorted listing has a first entry.                                     *)
(***************************************************************************)
LEMMA FirstOfExists ==
  ASSUME NEW S, IsFiniteSet(S), S # {}, \A d \in S : d.num \in PhaseNum
  PROVE  FirstOf(S) # {}
<1> DEFINE Sizes == {k \in Nat : \E T \in SUBSET S : T # {} /\ Cardinality(T) = k /\ FirstOf(T) = {}}
<1>1. Sizes = {}
  <2> SUFFICES ASSUME Sizes # {} PROVE FALSE
    OBVIOUS
  <2>1. PICK k \in Sizes : \A l \in Sizes : ~(<< l, k >> \in OpToRel(<, Nat))
    <3>1. Sizes \subseteq Nat
      OBVIOUS
    <3> HIDE DEF Sizes
    <3> QED BY <3>1, NatLessThanWellFounded, WFMin
  <2>2. \A l \in Sizes : ~(l < k)
    BY <2>1 DEF OpToRel
  <2>3. PICK T \in SUBSET S : T # {} /\ Cardinality(T) = k /\ FirstOf(T) = {}
    OBVIOUS
  <2>4. PICK x : x \in T
    BY <2>3
  <2> DEFINE U == T \ {x}
  <2>5. IsFiniteSet(T)
    BY FS_Subset
  <2>6. Cardinality(U) = k - 1 /\ k \in Nat /\ IsFiniteSet(U)
    BY <2>3, <2>4, <2>5, FS_RemoveElement
  <2>7. k - 1 \in Nat
    BY <2>6, FS_CardinalityType
  <2>8. x.num \in PhaseNum /\ ~Before(x.num, x.num) /\ \A d \in T : d.num \in PhaseNum
    BY <2>4, OrderIrreflexive
  <2>9. CASE U = {}
    <3>1. T = {x}
      BY <2>4, <2>9
    <3> QED BY <2>3, <2>8, <3>1 DEF FirstOf
  <2>10. CASE U # {}
    <3>1. k - 1 \notin Sizes
      BY <2>2, <2>6, <2>7
    <3>2. FirstOf(U) # {}
      BY <2>6, <2>7, <2>10, <3>1
    <3>3. PICK f \in U : \A e \in U : ~Before(e.num, f.num)
      BY <3>2 DEF FirstOf
    <3>4. CASE Before(x.num, f.num)
      <4>1. \A e \in U : ~Before(e.num, x.num)
        BY <2>8, <3>3, <3>4, OrderTransitive
      <4>2. x \in FirstOf(T)
        BY <2>4, <2>8, <4>1 DEF FirstOf
      <4> QED BY <2>3, <4>2
    <3>5. CASE ~Before(x.num, f.num)
      <4>1. f \in FirstOf(T)
        BY <2>4, <3>3, <3>5 DEF FirstOf
      <4> QED BY <2>3, <4>1
    <3> QED BY <3>4, <3>5
  <2> QED BY <2>9, <2>10
<1>2. Cardinality(S) \in Nat
  BY FS_CardinalityType
<1> QED BY <1>1, <1>2

(***************************************************************************)
(* phase complete names a next phase whenever there is one.                *)
(***************************************************************************)
LEMMA NextPhaseFound ==
  ASSUME PlanningInv, NEW rm, Alike(roadmap, rm), NEW ref, NextPhase(rm, ref) = NoRef
  PROVE  /\ \A p \in NumbersIn(roadmap) : ~Before(ref.num, p)
         /\ \A d \in MilestoneDirs : ~Before(ref.num, d.num)
<1> DEFINE cur == extractCurrentMilestone(rm)
           I == {j \in 1 .. Len(cur) : Before(ref.num, cur[j].num)}
           later == LaterDirs(rm, ref)
<1> PICK i : i = IF I # {} THEN Min(I) ELSE 0
  OBVIOUS
<1>1. rm \in Seq(GoodSection) /\ NumbersIn(rm) = NumbersIn(roadmap)
  BY AlikeNumbers DEF Alike, PlanningInv
<1>2. cur \in Seq(GoodSection) /\ ToSet(cur) = Current(rm)
  BY <1>1, CurrentIs DEF Current
<1>3. NextPhase(rm, ref) =
        IF later # {} THEN Padded((CHOOSE d \in FirstOf(later) : TRUE).num)
        ELSE IF i # 0 THEN Heading(cur[i]) ELSE NoRef
  BY DEF NextPhase, SelectInSeq
<1>4. later = {d \in MilestoneDirs : Before(ref.num, d.num)}
  BY <1>1 DEF LaterDirs, MilestoneDirs, isDirInMilestone
<1>5. IsFiniteSet(later) /\ \A d \in later : d.num \in PhaseNum
  <2>1. IsFiniteSet(DOMAIN dirs) /\ \A d \in DOMAIN dirs : d.num \in PhaseNum
    BY DEF PlanningInv, GoodDirs, Numbered
  <2>2. later \in SUBSET DOMAIN dirs
    BY <1>4 DEF MilestoneDirs
  <2> HIDE DEF later
  <2> QED BY <2>1, <2>2, FS_Subset
<1>6. Len(cur) \in Nat /\ DOMAIN cur = 1 .. Len(cur) /\ \A j \in 1 .. Len(cur) : cur[j] \in GoodSection
  BY <1>2, LenProperties
<1>7. i \in 0 .. Len(cur) /\ (i # 0 => i \in I) /\ (i = 0 => I = {})
  <2>1. I \in SUBSET (1 .. Len(cur))
    OBVIOUS
  <2> HIDE DEF I, cur
  <2> QED BY <1>6, <2>1, FirstPosition
<1> HIDE DEF later
<1>8. later = {}
  <2> SUFFICES ASSUME later # {} PROVE FALSE
    OBVIOUS
  <2>1. FirstOf(later) # {} /\ FirstOf(later) \subseteq later
    BY <1>5, FirstOfExists DEF FirstOf
  <2> PICK d : d = CHOOSE e \in FirstOf(later) : TRUE
    OBVIOUS
  <2>2. d.num \in PhaseNum
    BY <1>5, <2>1
  <2>3. Padded(d.num) \in PhaseRef
    BY <2>2 DEF Padded, PhaseRef
  <2> QED BY <1>3, <2>3, NoRefAssumption
<1>9. i = 0
  <2> SUFFICES ASSUME i # 0 PROVE FALSE
    OBVIOUS
  <2>1. Heading(cur[i]) # NoRef
    BY <1>6, <1>7, HeadingIs
  <2> QED BY <1>3, <1>8, <2>1
<1>10. \A p \in NumbersIn(roadmap) : \E j \in 1 .. Len(cur) : p = cur[j].num
  <2>1. \A s \in Current(rm) : \E j \in 1 .. Len(cur) : s = cur[j]
    BY <1>2, <1>6 DEF ToSet
  <2> HIDE DEF cur
  <2> QED BY <1>1, <2>1 DEF NumbersIn
<1>11. \A j \in 1 .. Len(cur) : ~Before(ref.num, cur[j].num)
  BY <1>7, <1>9
<1> QED BY <1>4, <1>8, <1>10, <1>11

(***************************************************************************)
(* phase complete declares the milestone complete only when neither the    *)
(* roadmap nor the disk has a later phase of it: whatever the two disagree *)
(* on, a phase that either knows is offered as the next one                *)
(* (phase.cjs:744-790).                                                    *)
(***************************************************************************)
THEOREM LastPhase == Spec => LastPhaseIsLast
<1> DEFINE LastDone == state'.status = "Milestone complete" =>
             \A ref \in Refs :
               (\E p \in NumbersIn(roadmap) \cup {d.num : d \in MilestoneDirs} :
                  Before(ref.num, p)) => ~PhaseComplete(ref)
<1>1. PlanningInv => LastDone
  <2> SUFFICES ASSUME PlanningInv, state'.status = "Milestone complete", NEW ref \in Refs,
                      PhaseComplete(ref)
               PROVE  ~\E p \in NumbersIn(roadmap) \cup {d.num : d \in MilestoneDirs} :
                         Before(ref.num, p)
    OBVIOUS
  <2> PICK rm : rm = SetRow(TickBox(roadmap, ref), ref, "Complete")
    OBVIOUS
  <2>1. Alike(roadmap, rm)
    <3>1. roadmap \in Seq(GoodSection) /\ "Complete" \in Rows
      BY DEF PlanningInv, Rows
    <3> QED BY <3>1, MarkedAlike
  <2>2. NextPhase(rm, ref) = NoRef
    <3> PICK next : next = NextPhase(rm, ref)
      OBVIOUS
    <3>1. state' = CompleteState(rm, ref)
      BY DEF PhaseComplete
    <3>2. state = [x \in StateKeys |-> state[x]]
      BY DEF PlanningInv, GoodState
    <3>3. state'.status = IF next = NoRef THEN "Milestone complete" ELSE "Ready to plan"
      BY <3>1, <3>2 DEF CompleteState, StateKeys
    <3> QED BY <3>3
  <2>3. /\ \A p \in NumbersIn(roadmap) : ~Before(ref.num, p)
        /\ \A d \in MilestoneDirs : ~Before(ref.num, d.num)
    BY <2>1, <2>2, NextPhaseFound
  <2> QED BY <2>3
<1>2. PlanningInv => [LastDone]_vars
  BY <1>1
<1> HIDE DEF LastDone
<1>3. Spec => [][LastDone]_vars
  BY <1>2, PlanningInvariant, PTL DEF Spec
<1> QED BY <1>3 DEF LastDone, LastPhaseIsLast

(***************************************************************************)
(* After any sequence of commands ROADMAP.md, the directories,             *)
(* REQUIREMENTS.md and the counters of STATE.md are of their types, and the*)
(* largest phase number is within its bound (phase.cjs:312-877).           *)
(***************************************************************************)
THEOREM TypeCorrect == Spec => []TypeOK
BY PlanningInvariant, TreeTypes, PTL

(***************************************************************************)
(* A command that is given a number finds the directory of exactly that    *)
(* number when there is one, never a decimal or lettered phase that starts *)
(* with the same digits, because the listing it searches is sorted and the *)
(* tools count decimals from 1 (core.cjs:663-711, phase.cjs:152-195).      *)
(***************************************************************************)
THEOREM ExactPhase == Spec => []ExactPhaseFound
BY PlanningInvariant, ExactFound, PTL

(***************************************************************************)
(* When validate consistency reports no phase that is only in the roadmap  *)
(* or only on disk, every whole phase on disk has a section of the         *)
(* milestone and the manager shows no section without a directory          *)
(* (verify.cjs:398-460).                                                   *)
(***************************************************************************)
THEOREM Consistency == Spec => []ConsistencySound
BY PlanningInvariant, ConsistentTree, PTL

(***************************************************************************)
(* roadmap analyze, the manager and init progress never tell an agent      *)
(* different things about a phase that has one directory, except what its  *)
(* checkbox alone says (roadmap.cjs:93-227, init.cjs:798-1195).            *)
(***************************************************************************)
THEOREM ViewsTellTheSame == Spec => []ViewsAgree
BY PlanningInvariant, AgreeingViews, PTL

(***************************************************************************)
(* The manager never recommends to execute a phase and its direct          *)
(* dependency at once, and never a phase whose dependency roadmap analyze  *)
(* shows incomplete (init.cjs:896-1015).                                   *)
(***************************************************************************)
THEOREM DependenciesFirst == Spec => []NoParallelDependency
BY PlanningInvariant, ApartFromDependencies, PTL

(***************************************************************************)
(* No agent that works on a phase of the current milestone is sent to the  *)
(* archive by init phase-op, and a phase with a directory is never confused*)
(* with a decimal of it (init.cjs:43-240, 483-642).                        *)
(***************************************************************************)
THEOREM NobodySentBack == Spec => []ContextsCurrent
BY PlanningInvariant, CurrentContexts, PTL

(***************************************************************************)
(* Executed work: the summaries in phases/ and in the archive.  They are   *)
(* counted as pairs of a directory and a plan, so that taking directories  *)
(* out, putting them beside others and renaming them become facts about    *)
(* unions and bijections of finite sets.                                   *)
(***************************************************************************)
\* Which pairs those are.
LEMMA Entries ==
  ASSUME NEW ds
  PROVE  \A w : w \in SummariesIn(ds) <=>
           \E d \in DOMAIN ds, k \in PlanIds : w = <<d, k>> /\ k \in ds[d].summaries
BY DEF SummariesIn

\* There are finitely many.
LEMMA SummariesCount ==
  ASSUME NEW ds, GoodDirs(ds)
  PROVE  IsFiniteSet(SummariesIn(ds)) /\ Cardinality(SummariesIn(ds)) \in Nat
<1>1. IsFiniteSet(DOMAIN ds) /\ IsFiniteSet(PlanIds)
  BY PlanningAssumption DEF GoodDirs
<1>2. IsFiniteSet((DOMAIN ds) \X PlanIds)
  BY ONLY <1>1, FS_Product
<1>3. SummariesIn(ds) \in SUBSET ((DOMAIN ds) \X PlanIds)
  BY DEF SummariesIn
<1>4. IsFiniteSet(SummariesIn(ds))
  BY ONLY <1>2, <1>3, FS_Subset
<1> QED BY ONLY <1>4, FS_CardinalityType

\* A new directory holds none.
LEMMA MadeKeeps ==
  ASSUME NEW ds, NEW name
  PROVE  SummariesIn(MkDir(ds, name)) = SummariesIn(ds)
<1> PICK es : es = MkDir(ds, name)
  OBVIOUS
<1>1. /\ DOMAIN es = DOMAIN ds \cup {name}
      /\ \A d \in DOMAIN es : es[d] = IF d \in DOMAIN ds THEN ds[d] ELSE EmptyDir
  BY DEF MkDir
<1>2. EmptyDir.summaries = {}
  BY DEF EmptyDir
<1>3. \A d \in DOMAIN es, k \in PlanIds :
         k \in es[d].summaries <=> d \in DOMAIN ds /\ k \in ds[d].summaries
  BY ONLY <1>1, <1>2
<1>4. \A w : w \in SummariesIn(es) <=> w \in SummariesIn(ds)
  <2>1. DOMAIN ds \subseteq DOMAIN es
    BY ONLY <1>1
  <2> QED BY ONLY <1>3, <2>1, Entries, Zenon
<1> QED BY ONLY <1>4, es = MkDir(ds, name)

\* Files written into a directory take none away.
LEMMA FilledKeeps ==
  ASSUME NEW ds, GoodDirs(ds), NEW d \in DOMAIN ds, NEW files \in Contents,
         ds[d].summaries \subseteq files.summaries
  PROVE  Cardinality(SummariesIn(ds)) <= Cardinality(SummariesIn([ds EXCEPT ![d] = files]))
<1> PICK es : es = [ds EXCEPT ![d] = files]
  OBVIOUS
<1>1. GoodDirs(es)
  BY Refilled
<1>2. DOMAIN es = DOMAIN ds /\ \A x \in DOMAIN ds : ds[x].summaries \subseteq es[x].summaries
  OBVIOUS
<1>3. SummariesIn(ds) \in SUBSET SummariesIn(es)
  <2>1. \A w : w \in SummariesIn(ds) => w \in SummariesIn(es)
    BY ONLY <1>2, Entries, Zenon
  <2> QED BY ONLY <2>1
<1>4. IsFiniteSet(SummariesIn(es))
  BY ONLY <1>1, SummariesCount
<1> QED BY ONLY <1>3, <1>4, FS_Subset, es = [ds EXCEPT ![d] = files]

\* Two trees without a common name hold what both together hold.
LEMMA Together ==
  ASSUME NEW ds, GoodDirs(ds), NEW es, GoodDirs(es), NEW all,
         \A d : d \in DOMAIN all <=> d \in DOMAIN ds \/ d \in DOMAIN es,
         \A d \in DOMAIN ds : all[d] = ds[d], \A d \in DOMAIN es : all[d] = es[d],
         DOMAIN ds \cap DOMAIN es = {}
  PROVE  Cardinality(SummariesIn(all))
           = Cardinality(SummariesIn(ds)) + Cardinality(SummariesIn(es))
<1> PICK S, T : S = SummariesIn(ds) /\ T = SummariesIn(es)
  OBVIOUS
<1>1. S \cap T = {}
  <2>1. ASSUME NEW w, w \in SummariesIn(ds), w \in SummariesIn(es)
        PROVE  FALSE
    <3>1. PICK d \in DOMAIN ds, k \in PlanIds : w = <<d, k>>
      BY ONLY <2>1, Entries
    <3>2. PICK e \in DOMAIN es, l \in PlanIds : w = <<e, l>>
      BY ONLY <2>1, Entries
    <3>3. d = e
      BY ONLY <3>1, <3>2
    <3> QED BY ONLY <3>3, DOMAIN ds \cap DOMAIN es = {}
  <2> QED BY <2>1
<1>2. IsFiniteSet(S) /\ IsFiniteSet(T) /\ Cardinality(S) \in Nat /\ Cardinality(T) \in Nat
  BY SummariesCount
<1>3. Cardinality(S \cup T) = Cardinality(S) + Cardinality(T) - Cardinality(S \cap T)
  BY ONLY <1>2, FS_Union
<1>4. Cardinality(S \cap T) = 0
  BY ONLY <1>1, FS_EmptySet
<1>5. Cardinality(S \cup T) = Cardinality(S) + Cardinality(T)
  BY ONLY <1>2, <1>3, <1>4
<1>6. SummariesIn(all) = S \cup T
  <2>1. ASSUME NEW w, w \in SummariesIn(all)
        PROVE  w \in SummariesIn(ds) \/ w \in SummariesIn(es)
    <3>1. PICK d \in DOMAIN all, k \in PlanIds : w = <<d, k>> /\ k \in all[d].summaries
      BY ONLY <2>1, Entries
    <3>2. \/ d \in DOMAIN ds /\ k \in ds[d].summaries
          \/ d \in DOMAIN es /\ k \in es[d].summaries
      BY <3>1
    <3> QED BY ONLY <3>1, <3>2, Entries
  <2>2. ASSUME NEW w, w \in SummariesIn(ds)
        PROVE  w \in SummariesIn(all)
    <3>1. PICK d \in DOMAIN ds, k \in PlanIds : w = <<d, k>> /\ k \in ds[d].summaries
      BY ONLY <2>2, Entries
    <3>2. d \in DOMAIN all /\ k \in all[d].summaries
      BY <3>1
    <3> QED BY ONLY <3>1, <3>2, Entries
  <2>3. ASSUME NEW w, w \in SummariesIn(es)
        PROVE  w \in SummariesIn(all)
    <3>1. PICK d \in DOMAIN es, k \in PlanIds : w = <<d, k>> /\ k \in es[d].summaries
      BY ONLY <2>3, Entries
    <3>2. d \in DOMAIN all /\ k \in all[d].summaries
      BY <3>1
    <3> QED BY ONLY <3>1, <3>2, Entries
  <2> QED BY ONLY <2>1, <2>2, <2>3, S = SummariesIn(ds) /\ T = SummariesIn(es)
<1> QED BY ONLY <1>5, <1>6, S = SummariesIn(ds) /\ T = SummariesIn(es)

\* Directories taken out hold what is then missing.
LEMMA TakenOut ==
  ASSUME NEW ds, GoodDirs(ds), NEW moved \in SUBSET DOMAIN ds
  PROVE  Cardinality(SummariesIn(ds))
           = Cardinality(SummariesIn(Restrict(ds, DOMAIN ds \ moved)))
             + Cardinality(SummariesIn(Restrict(ds, moved)))
<1> PICK left, out : left = Restrict(ds, DOMAIN ds \ moved) /\ out = Restrict(ds, moved)
  OBVIOUS
<1>1. /\ GoodDirs(left) /\ DOMAIN left = DOMAIN ds \ moved
      /\ GoodDirs(out) /\ DOMAIN out = moved
  BY Restricted
<1>2. /\ \A d \in DOMAIN left : left[d] = ds[d]
      /\ \A d \in DOMAIN out : out[d] = ds[d]
  BY DEF Restrict
<1>3. \A d : d \in DOMAIN ds <=> d \in DOMAIN left \/ d \in DOMAIN out
  BY ONLY <1>1, moved \in SUBSET DOMAIN ds
<1>4. DOMAIN left \cap DOMAIN out = {}
  BY ONLY <1>1
<1>5. \A d \in DOMAIN left : ds[d] = left[d]
  BY ONLY <1>2
<1>6. \A d \in DOMAIN out : ds[d] = out[d]
  BY ONLY <1>2
<1>7. Cardinality(SummariesIn(ds)) = Cardinality(SummariesIn(left)) + Cardinality(SummariesIn(out))
  BY ONLY <1>1, <1>3, <1>4, <1>5, <1>6, Together
<1> QED
  BY ONLY <1>7, left = Restrict(ds, DOMAIN ds \ moved) /\ out = Restrict(ds, moved)

\* Directories put beside others are all there.
LEMMA PutBeside ==
  ASSUME NEW ds, GoodDirs(ds), NEW es, GoodDirs(es), NEW moved \in SUBSET DOMAIN es,
         moved \cap DOMAIN ds = {},
         NEW r, r = [d \in DOMAIN ds \cup moved |-> IF d \in moved THEN es[d] ELSE ds[d]]
  PROVE  Cardinality(SummariesIn(r))
           = Cardinality(SummariesIn(ds)) + Cardinality(SummariesIn(Restrict(es, moved)))
<1> PICK out : out = Restrict(es, moved)
  OBVIOUS
<1>1. GoodDirs(out) /\ DOMAIN out = moved
  BY Restricted
<1>2. \A d \in moved : out[d] = es[d]
  BY DEF Restrict
<1>3. DOMAIN r = DOMAIN ds \cup moved
  OBVIOUS
<1>4. \A d \in DOMAIN out : r[d] = out[d]
  BY <1>1, <1>2
<1>5. \A d \in DOMAIN ds : r[d] = ds[d]
  OBVIOUS
<1>6. \A d : d \in DOMAIN r <=> d \in DOMAIN ds \/ d \in DOMAIN out
  BY ONLY <1>1, <1>3
<1>7. DOMAIN ds \cap DOMAIN out = {}
  BY <1>1
<1>8. Cardinality(SummariesIn(r)) = Cardinality(SummariesIn(ds)) + Cardinality(SummariesIn(out))
  BY ONLY <1>1, <1>4, <1>5, <1>6, <1>7, Together, GoodDirs(ds)
<1> QED BY ONLY <1>8, out = Restrict(es, moved)

\* One directory by itself.
LEMMA OneDirectoryHolds ==
  ASSUME NEW ds, GoodDirs(ds), NEW d \in DOMAIN ds
  PROVE  /\ Cardinality(SummariesIn(Restrict(ds, {d}))) = Cardinality(ds[d].summaries)
         /\ IsFiniteSet(ds[d].summaries)
<1> PICK S : S = ds[d].summaries
  OBVIOUS
<1>1. S \in SUBSET PlanIds
  BY DEF GoodDirs, Contents
<1>2. IsFiniteSet(S)
  BY ONLY <1>1, PlanningAssumption, FS_Subset
<1>3. SummariesIn(Restrict(ds, {d})) = {d} \X S
  <2> PICK out : out = Restrict(ds, {d})
    OBVIOUS
  <2>1. DOMAIN out = {d} /\ out[d].summaries = S
    BY DEF Restrict
  <2>2. \A w : w \in SummariesIn(out) <=> \E k \in PlanIds : w = <<d, k>> /\ k \in S
    BY ONLY <2>1, Entries
  <2>3. \A w : w \in {d} \X S <=> \E k \in S : w = <<d, k>>
    OBVIOUS
  <2>4. \A w : w \in SummariesIn(out) <=> w \in {d} \X S
    BY ONLY <1>1, <2>2, <2>3
  <2> QED BY ONLY <2>4, out = Restrict(ds, {d})
<1>4. Cardinality({d}) = 1 /\ IsFiniteSet({d})
  BY ONLY FS_Singleton
<1>5. Cardinality({d} \X S) = Cardinality({d}) * Cardinality(S)
  BY ONLY <1>2, <1>4, FS_Product
<1>6. Cardinality(S) \in Nat
  BY ONLY <1>2, FS_CardinalityType
<1>7. Cardinality({d} \X S) = Cardinality(S)
  BY ONLY <1>4, <1>5, <1>6
<1> QED BY <1>2, <1>3, <1>7

\* What a renamed directory was called.
Unshifted(s, removed) ==
    IF removed.decs # << >>
    THEN [num |-> [s.num EXCEPT !.decs = << s.num.decs[1] + 1 >>], slug |-> s.slug]
    ELSE [num |-> [s.num EXCEPT !.int = s.num.int + 1], slug |-> s.slug]

LEMMA ShiftedBack ==
  ASSUME NEW names \in SUBSET DirName, \A d \in names : d.num \in Numbered,
         NEW removed \in Numbered, NEW d \in ToRename(names, removed)
  PROVE  Unshifted(Shifted(d, removed), removed) = d
<1> PICK s : s = Shifted(d, removed)
  OBVIOUS
<1>1. d \in DirName /\ d.num \in PhaseNum
  BY DEF ToRename, DirName
<1> PICK p, g : p = d.num /\ g = d.slug
  OBVIOUS
<1>2. /\ d = [num |-> p, slug |-> g]
      /\ p = [int |-> p.int, letter |-> p.letter, decs |-> p.decs]
      /\ p.int \in Nat /\ p.decs \in Seq(Nat)
  BY <1>1 DEF DirName, PhaseNum
<1>3. CASE removed.decs # << >>
  <2>1. Len(p.decs) = 1
    BY <1>3 DEF ToRename
  <2> PICK k : k = p.decs[1]
    OBVIOUS
  <2>2. k \in Nat /\ p.decs = << k >>
    BY <1>2, <2>1
  <2>3. Shifted(d, removed) = [d EXCEPT !.num.decs[1] = k - 1]
    BY <1>3 DEF Shifted
  <2>4. s = [num |-> [int |-> p.int, letter |-> p.letter, decs |-> [p.decs EXCEPT ![1] = k - 1]],
             slug |-> g]
    BY <1>2, <2>3
  <2>5. [p.decs EXCEPT ![1] = k - 1] = << k - 1 >>
    BY <2>2
  <2>6. s.num = [int |-> p.int, letter |-> p.letter, decs |-> << k - 1 >>] /\ s.slug = g
    BY <2>4, <2>5
  <2>7. s.num.decs[1] + 1 = k
    BY <2>2, <2>6
  <2>8. [s.num EXCEPT !.decs = << k >>] = [int |-> p.int, letter |-> p.letter, decs |-> << k >>]
    BY ONLY <2>6
  <2>9. Unshifted(s, removed) = d
    BY ONLY <1>2, <1>3, <2>2, <2>6, <2>7, <2>8 DEF Unshifted
  <2> QED BY ONLY <2>9, s = Shifted(d, removed)
<1>4. CASE removed.decs = << >>
  <2>1. Shifted(d, removed) = [d EXCEPT !.num.int = p.int - 1]
    BY <1>4 DEF Shifted
  <2>2. s = [num |-> [int |-> p.int - 1, letter |-> p.letter, decs |-> p.decs], slug |-> g]
    BY <1>2, <2>1
  <2>3. s.num = [int |-> p.int - 1, letter |-> p.letter, decs |-> p.decs] /\ s.slug = g
    BY ONLY <2>2
  <2>4. s.num.int + 1 = p.int
    BY ONLY <1>2, <2>3
  <2>5. [s.num EXCEPT !.int = p.int] = [int |-> p.int, letter |-> p.letter, decs |-> p.decs]
    BY ONLY <2>3
  <2>6. Unshifted(s, removed) = d
    BY ONLY <1>2, <1>4, <2>3, <2>4, <2>5 DEF Unshifted
  <2> QED BY ONLY <2>6, s = Shifted(d, removed)
<1> QED BY <1>3, <1>4

\* So no two of them get the same name.
LEMMA ShiftedApart ==
  ASSUME NEW names \in SUBSET DirName, \A d \in names : d.num \in Numbered,
         NEW removed \in Numbered,
         NEW d \in ToRename(names, removed), NEW e \in ToRename(names, removed),
         Shifted(d, removed) = Shifted(e, removed)
  PROVE  d = e
<1>1. /\ Unshifted(Shifted(d, removed), removed) = d
      /\ Unshifted(Shifted(e, removed), removed) = e
  BY ShiftedBack
<1> QED BY ONLY <1>1, Shifted(d, removed) = Shifted(e, removed)

\* A directory is only renamed to a name that was free.
LEMMA RenamedToFree ==
  ASSUME NEW names, NEW removed, NEW moved \in Renamings(names, removed)
  PROVE  \A d \in moved : Shifted(d, removed) \notin names
BY DEF Renamings

\* Directories under other names hold what they held.
LEMMA SameHeld ==
  ASSUME NEW ds, GoodDirs(ds), NEW es, NEW to \in Bijection(DOMAIN ds, DOMAIN es),
         \A d \in DOMAIN ds : es[to[d]].summaries = ds[d].summaries
  PROVE  Cardinality(SummariesIn(es)) = Cardinality(SummariesIn(ds))
<1> PICK S, T : S = SummariesIn(ds) /\ T = SummariesIn(es)
  OBVIOUS
<1> DEFINE f == [w \in S |-> << to[w[1]], w[2] >>]
<1>1. /\ \A d \in DOMAIN ds : to[d] \in DOMAIN es
      /\ \A d, e \in DOMAIN ds : to[d] = to[e] => d = e
      /\ \A n \in DOMAIN es : \E d \in DOMAIN ds : to[d] = n
  BY DEF Bijection, Injection, Surjection, IsInjective
<1>2. \A w : w \in S <=> \E d \in DOMAIN ds, k \in PlanIds : w = <<d, k>> /\ k \in ds[d].summaries
  BY Entries
<1>3. \A w : w \in T <=> \E d \in DOMAIN es, k \in PlanIds : w = <<d, k>> /\ k \in es[d].summaries
  BY Entries
<1>4. \A d, k : <<d, k>> \in S => f[<<d, k>>] = << to[d], k >>
  OBVIOUS
<1>5. \A w \in S : f[w] \in T
  <2> SUFFICES ASSUME NEW w \in S PROVE f[w] \in T
    OBVIOUS
  <2> HIDE DEF f
  <2>1. PICK d \in DOMAIN ds, k \in PlanIds : w = <<d, k>> /\ k \in ds[d].summaries
    BY ONLY <1>2, w \in S
  <2>2. f[w] = << to[d], k >>
    BY ONLY <1>4, <2>1, w \in S
  <2>3. to[d] \in DOMAIN es /\ k \in es[to[d]].summaries
    BY <1>1, <2>1
  <2> QED BY ONLY <1>3, <2>1, <2>2, <2>3
<1>6. \A v, w \in S : f[v] = f[w] => v = w
  <2> SUFFICES ASSUME NEW v \in S, NEW w \in S, f[v] = f[w] PROVE v = w
    OBVIOUS
  <2> HIDE DEF f
  <2>1. PICK d \in DOMAIN ds, k \in PlanIds : v = <<d, k>>
    BY ONLY <1>2, v \in S
  <2>2. PICK e \in DOMAIN ds, l \in PlanIds : w = <<e, l>>
    BY ONLY <1>2, w \in S
  <2>3. << to[d], k >> = << to[e], l >>
    BY ONLY <1>4, <2>1, <2>2, v \in S, w \in S, f[v] = f[w]
  <2>4. to[d] = to[e] /\ k = l
    BY ONLY <2>3
  <2> QED BY ONLY <1>1, <2>1, <2>2, <2>4
<1>7. \A v \in T : \E w \in S : f[w] = v
  <2> SUFFICES ASSUME NEW v \in T PROVE \E w \in S : f[w] = v
    OBVIOUS
  <2> HIDE DEF f
  <2>1. PICK n \in DOMAIN es, k \in PlanIds : v = <<n, k>> /\ k \in es[n].summaries
    BY ONLY <1>3, v \in T
  <2>2. PICK d \in DOMAIN ds : to[d] = n
    BY ONLY <1>1, <2>1
  <2>3. k \in ds[d].summaries
    BY <2>1, <2>2
  <2>4. <<d, k>> \in S
    BY ONLY <1>2, <2>1, <2>2, <2>3
  <2>5. f[<<d, k>>] = v
    BY ONLY <1>4, <2>1, <2>2, <2>4
  <2> QED BY ONLY <2>4, <2>5
<1>8. f = [w \in S |-> f[w]]
  OBVIOUS
<1> HIDE DEF f
<1>9. f \in Bijection(S, T)
  BY ONLY <1>5, <1>6, <1>7, <1>8 DEF Bijection, Injection, Surjection, IsInjective
<1>10. ExistsBijection(S, T)
  BY ONLY <1>9 DEF ExistsBijection
<1>11. IsFiniteSet(S)
  BY SummariesCount
<1>12. Cardinality(T) = Cardinality(S)
  BY ONLY <1>10, <1>11, FS_Bijection
<1> QED BY ONLY <1>12, S = SummariesIn(ds) /\ T = SummariesIn(es)

\* Renaming loses nothing, wherever it stops.
LEMMA RenamedHold ==
  ASSUME NEW ds, GoodDirs(ds), NEW removed \in Numbered,
         NEW moved \in Renamings(DOMAIN ds, removed)
  PROVE  Cardinality(SummariesIn(RenameDirs(ds, moved, removed))) = Cardinality(SummariesIn(ds))
<1> PICK D : D = DOMAIN ds
  OBVIOUS
<1> PICK r : r = RenameDirs(ds, moved, removed)
  OBVIOUS
<1> DEFINE to == [d \in D |-> IF d \in moved THEN Shifted(d, removed) ELSE d]
<1>1. moved \subseteq ToRename(D, removed) /\ moved \subseteq D
  BY RenamedAreLater DEF ToRename
<1>2. \A d \in moved : Shifted(d, removed) \notin D
  BY RenamedToFree
<1>3. \A d, e \in moved : Shifted(d, removed) = Shifted(e, removed) => d = e
  <2>1. D \in SUBSET DirName /\ \A d \in D : d.num \in Numbered
    BY DEF GoodDirs
  <2> QED BY ONLY <1>1, <2>1, ShiftedApart, removed \in Numbered
<1>4. /\ DOMAIN r = (D \ moved) \cup {Shifted(d, removed) : d \in moved}
      /\ \A n \in DOMAIN r :
           r[n] = IF \E d \in moved : Shifted(d, removed) = n
                  THEN ds[CHOOSE d \in moved : Shifted(d, removed) = n] ELSE ds[n]
  BY DEF RenameDirs
<1>5. \A d \in D : to[d] = IF d \in moved THEN Shifted(d, removed) ELSE d
  OBVIOUS
<1>6. to \in [D -> DOMAIN r]
  BY <1>4
<1> HIDE DEF to
<1>7. \A d, e \in D : to[d] = to[e] => d = e
  BY ONLY <1>2, <1>3, <1>5
<1>8. \A n \in DOMAIN r : \E d \in D : to[d] = n
  BY ONLY <1>1, <1>4, <1>5
<1>9. ASSUME NEW d \in D
      PROVE  r[to[d]] = ds[d]
  <2>1. to[d] \in DOMAIN r
    BY <1>6
  <2>2. CASE d \in moved
    <3> PICK c : c = CHOOSE x \in moved : Shifted(x, removed) = to[d]
      OBVIOUS
    <3>1. to[d] = Shifted(d, removed)
      BY ONLY <1>5, <2>2, d \in D
    <3>2. c \in moved /\ Shifted(c, removed) = to[d]
      BY <2>2, <3>1
    <3>3. c = d
      BY ONLY <1>3, <2>2, <3>1, <3>2
    <3>4. \E x \in moved : Shifted(x, removed) = to[d]
      BY ONLY <3>2
    <3>5. r[to[d]] = ds[CHOOSE x \in moved : Shifted(x, removed) = to[d]]
      BY ONLY <1>4, <2>1, <3>4
    <3> QED BY <3>3, <3>5
  <2>3. CASE d \notin moved
    <3>1. to[d] = d
      BY ONLY <1>5, <2>3, d \in D
    <3>2. ~\E x \in moved : Shifted(x, removed) = to[d]
      BY ONLY <1>2, <3>1, d \in D
    <3>3. r[to[d]] = ds[to[d]]
      BY ONLY <1>4, <2>1, <3>2
    <3> QED BY ONLY <3>1, <3>3
  <2> QED BY <2>2, <2>3
<1>10. to \in Bijection(D, DOMAIN r)
  BY ONLY <1>6, <1>7, <1>8 DEF Bijection, Injection, Surjection, IsInjective
<1>11. \A d \in DOMAIN ds : r[to[d]].summaries = ds[d].summaries
  BY <1>9
<1>12. to \in Bijection(DOMAIN ds, DOMAIN r)
  BY ONLY <1>10, D = DOMAIN ds
<1>13. Cardinality(SummariesIn(r)) = Cardinality(SummariesIn(ds))
  BY ONLY <1>11, <1>12, SameHeld, GoodDirs(ds)
<1> QED BY ONLY <1>13, r = RenameDirs(ds, moved, removed)

\* The counts are numbers.
LEMMA ExecutedIs ==
  ASSUME PlanningInv
  PROVE  /\ Cardinality(SummariesIn(dirs)) \in Nat
         /\ Cardinality(SummariesIn(archive.phases)) \in Nat
         /\ Executed \in Nat
<1>1. /\ Cardinality(SummariesIn(dirs)) \in Nat
      /\ Cardinality(SummariesIn(archive.phases)) \in Nat
  BY SummariesCount DEF PlanningInv
<1> QED BY <1>1 DEF Executed

\* phase remove takes the summaries of the directory it deletes, if any, and
\* without --force it takes none.
LEMMA RemovalTakes ==
  ASSUME PlanningInv, NEW ref \in Refs, NEW force \in BOOLEAN, PhaseRemove(ref, force)
  PROVE  /\ \/ Executed' = Executed
            \/ \E d \in RemovalTarget(ref.num) :
                 Executed' = Executed - Cardinality(dirs[d].summaries)
         /\ ~force => Executed' = Executed
<1>1. ref.num \in Numbered
  BY RefIs
<1>2. PICK gone \in IF RemovalTarget(ref.num) = {} THEN {{}} ELSE {{d} : d \in RemovalTarget(ref.num)} :
        /\ \A d \in gone : MayRemove(d, force)
        /\ \E moved \in Renamings(DOMAIN Restrict(dirs, DOMAIN dirs \ gone), ref.num) :
             dirs' = RenameDirs(Restrict(dirs, DOMAIN dirs \ gone), moved, ref.num)
  BY DEF PhaseRemove
<1> PICK left : left = Restrict(dirs, DOMAIN dirs \ gone)
  OBVIOUS
<1>3. GoodDirs(left)
  BY Restricted DEF PlanningInv
<1>4. PICK moved \in Renamings(DOMAIN left, ref.num) : dirs' = RenameDirs(left, moved, ref.num)
  BY ONLY <1>2, left = Restrict(dirs, DOMAIN dirs \ gone)
<1>5. Cardinality(SummariesIn(RenameDirs(left, moved, ref.num))) = Cardinality(SummariesIn(left))
  BY ONLY <1>1, <1>3, <1>4, RenamedHold
<1>6. Cardinality(SummariesIn(dirs')) = Cardinality(SummariesIn(left))
  BY ONLY <1>4, <1>5
<1>7. archive' = archive
  BY DEF PhaseRemove
<1>8. Executed' = Cardinality(SummariesIn(left)) + Cardinality(SummariesIn(archive.phases))
  BY <1>6, <1>7 DEF Executed
<1>9. Cardinality(SummariesIn(left)) \in Nat
  BY ONLY <1>3, SummariesCount
<1>10. CASE gone = {}
  <2>1. left = dirs
    <3>1. left = [d \in DOMAIN dirs |-> dirs[d]]
      BY <1>10 DEF Restrict
    <3>2. dirs = [d \in DOMAIN dirs |-> dirs[d]]
      BY DEF PlanningInv, GoodDirs
    <3> QED BY ONLY <3>1, <3>2
  <2>2. Executed' = Executed
    BY ONLY <1>8, <2>1 DEF Executed
  <2> QED BY <2>2
<1>11. CASE gone # {}
  <2>1. PICK d \in RemovalTarget(ref.num) : gone = {d}
    BY <1>2, <1>11
  <2>2. d \in DOMAIN dirs /\ GoodDirs(dirs)
    BY <2>1 DEF RemovalTarget, PlanningInv
  <2>3. {d} \in SUBSET DOMAIN dirs
    BY ONLY <2>2
  <2>4. Cardinality(SummariesIn(dirs))
          = Cardinality(SummariesIn(Restrict(dirs, DOMAIN dirs \ {d})))
            + Cardinality(SummariesIn(Restrict(dirs, {d})))
    BY ONLY <2>2, <2>3, TakenOut
  <2>5. Cardinality(SummariesIn(Restrict(dirs, {d}))) = Cardinality(dirs[d].summaries)
        /\ IsFiniteSet(dirs[d].summaries)
    BY ONLY <2>2, OneDirectoryHolds
  <2>6. Cardinality(dirs[d].summaries) \in Nat
    BY ONLY <2>5, FS_CardinalityType
  <2>7. Cardinality(SummariesIn(dirs))
          = Cardinality(SummariesIn(left)) + Cardinality(dirs[d].summaries)
    BY ONLY <2>1, <2>4, <2>5, left = Restrict(dirs, DOMAIN dirs \ gone)
  <2>8. Executed' = Executed - Cardinality(dirs[d].summaries)
    <3>1. Executed = Cardinality(SummariesIn(dirs)) + Cardinality(SummariesIn(archive.phases))
      BY DEF Executed
    <3>2. Cardinality(SummariesIn(archive.phases)) \in Nat
      BY ExecutedIs
    <3> QED BY ONLY <1>8, <1>9, <2>6, <2>7, <3>1, <3>2
  <2>9. ~force => Executed' = Executed
    <3> SUFFICES ASSUME ~force PROVE Executed' = Executed
      OBVIOUS
    <3>1. dirs[d].summaries = {}
      BY <1>2, <2>1 DEF MayRemove
    <3>2. Cardinality(dirs[d].summaries) = 0
      BY ONLY <3>1, FS_EmptySet
    <3>3. Executed \in Nat
      BY ExecutedIs
    <3> QED BY ONLY <2>8, <3>2, <3>3
  <2> QED BY <2>8, <2>9
<1> QED BY <1>10, <1>11

\* Archiving moves summaries, and loses none.
LEMMA ArchivingKeeps ==
  ASSUME PlanningInv, NEW archivePhases \in BOOLEAN, MilestoneComplete(archivePhases)
  PROVE  Executed' = Executed
<1> PICK ds : ds = archive.phases
  OBVIOUS
<1>1. PICK moved :
        /\ moved \subseteq DOMAIN dirs /\ moved \cap DOMAIN archive.phases = {}
        /\ dirs' = Restrict(dirs, DOMAIN dirs \ moved)
        /\ archive' = [phases  |-> [d \in DOMAIN archive.phases \cup moved |->
                                      IF d \in moved THEN dirs[d] ELSE archive.phases[d]],
                       roadmap |-> roadmap, reqs |-> reqs]
  <2>1. MilestoneDirs \subseteq DOMAIN dirs
    BY DEF MilestoneDirs
  <2> PICK M : M = MilestoneDirs
    OBVIOUS
  <2> DEFINE blocked == M \cap DOMAIN archive.phases
  <2>2. PICK moved \in IF ~archivePhases THEN {{}}
                       ELSE IF blocked = {} THEN {M} ELSE SUBSET (M \ blocked) :
        /\ dirs' = Restrict(dirs, DOMAIN dirs \ moved)
        /\ archive' = [phases  |-> [d \in DOMAIN archive.phases \cup moved |->
                                      IF d \in moved THEN dirs[d] ELSE archive.phases[d]],
                       roadmap |-> roadmap, reqs |-> reqs]
    BY DEF MilestoneComplete
  <2>3. moved \subseteq M /\ moved \cap DOMAIN archive.phases = {}
    <3>1. CASE ~archivePhases
      BY <2>2, <3>1
    <3>2. CASE archivePhases /\ blocked = {}
      BY <2>2, <3>2
    <3>3. CASE archivePhases /\ blocked # {}
      BY <2>2, <3>3
    <3> QED BY <3>1, <3>2, <3>3
  <2> QED BY <2>1, <2>2, <2>3
<1> PICK r : r = [d \in DOMAIN ds \cup moved |-> IF d \in moved THEN dirs[d] ELSE ds[d]]
  OBVIOUS
<1>2. archive'.phases = r
  BY <1>1
<1>3. GoodDirs(dirs) /\ GoodDirs(ds)
  BY DEF PlanningInv
<1>4. moved \in SUBSET DOMAIN dirs /\ moved \cap DOMAIN ds = {}
  BY <1>1
<1>5. Cardinality(SummariesIn(r))
        = Cardinality(SummariesIn(ds)) + Cardinality(SummariesIn(Restrict(dirs, moved)))
  BY ONLY <1>3, <1>4, PutBeside,
          r = [d \in DOMAIN ds \cup moved |-> IF d \in moved THEN dirs[d] ELSE ds[d]]
<1>6. Cardinality(SummariesIn(dirs))
        = Cardinality(SummariesIn(Restrict(dirs, DOMAIN dirs \ moved)))
          + Cardinality(SummariesIn(Restrict(dirs, moved)))
  BY ONLY <1>3, <1>4, TakenOut
<1>7. /\ Cardinality(SummariesIn(ds)) \in Nat
      /\ Cardinality(SummariesIn(Restrict(dirs, moved))) \in Nat
      /\ Cardinality(SummariesIn(Restrict(dirs, DOMAIN dirs \ moved))) \in Nat
  BY <1>3, <1>4, Restricted, SummariesCount
<1>8. Executed' = Cardinality(SummariesIn(Restrict(dirs, DOMAIN dirs \ moved)))
                  + Cardinality(SummariesIn(r))
  BY <1>1, <1>2 DEF Executed
<1>9. Executed = Cardinality(SummariesIn(dirs)) + Cardinality(SummariesIn(ds))
  BY DEF Executed
<1> QED BY ONLY <1>5, <1>6, <1>7, <1>8, <1>9

\* scaffold context writes a file that is no summary.
LEMMA ContextKeeps ==
  ASSUME PlanningInv, NEW p \in KnownNumbers, ScaffoldContext(p)
  PROVE  Executed' \in Nat /\ Executed' >= Executed
<1>1. \A ds : searchPhaseInDir(ds, p) \subseteq DOMAIN ds
  BY DEF searchPhaseInDir, FirstOf
<1>2. ASSUME NEW ds, GoodDirs(ds), NEW d \in DOMAIN ds, NEW es,
             es = [ds EXCEPT ![d].context = TRUE]
      PROVE  Cardinality(SummariesIn(ds)) <= Cardinality(SummariesIn(es)) /\ GoodDirs(es)
  <2> PICK files : files = [ds[d] EXCEPT !.context = TRUE]
    OBVIOUS
  <2>1. ds[d] \in Contents
    BY <1>2 DEF GoodDirs
  <2>2. files \in Contents /\ ds[d].summaries \subseteq files.summaries
    BY ONLY <2>1, files = [ds[d] EXCEPT !.context = TRUE] DEF Contents
  <2>3. es = [ds EXCEPT ![d] = files]
    BY <1>2
  <2>4. Cardinality(SummariesIn(ds)) <= Cardinality(SummariesIn([ds EXCEPT ![d] = files]))
    BY ONLY <1>2, <2>2, FilledKeeps
  <2>5. GoodDirs([ds EXCEPT ![d] = files])
    BY ONLY <1>2, <2>2, Refilled
  <2> QED BY ONLY <2>3, <2>4, <2>5
<1>3. GoodDirs(dirs) /\ GoodDirs(archive.phases)
  BY DEF PlanningInv
<1>4. ASSUME NEW d \in searchPhaseInDir(dirs, p), dirs' = [dirs EXCEPT ![d].context = TRUE],
             UNCHANGED archive
      PROVE  Executed' \in Nat /\ Executed' >= Executed
  <2>1. d \in DOMAIN dirs
    BY <1>1
  <2>2. Cardinality(SummariesIn(dirs)) <= Cardinality(SummariesIn(dirs')) /\ GoodDirs(dirs')
    BY ONLY <1>2, <1>3, <1>4, <2>1
  <2>3. Cardinality(SummariesIn(dirs')) \in Nat
    BY ONLY <2>2, SummariesCount
  <2>4. Executed' = Cardinality(SummariesIn(dirs')) + Cardinality(SummariesIn(archive.phases))
    BY <1>4 DEF Executed
  <2>5. Executed = Cardinality(SummariesIn(dirs)) + Cardinality(SummariesIn(archive.phases))
    BY DEF Executed
  <2> QED BY ONLY <2>2, <2>3, <2>4, <2>5, ExecutedIs, PlanningInv
<1>5. ASSUME NEW d \in searchPhaseInDir(archive.phases, p),
             archive' = [archive EXCEPT !.phases[d].context = TRUE], UNCHANGED dirs
      PROVE  Executed' \in Nat /\ Executed' >= Executed
  <2> PICK ds, es : ds = archive.phases /\ es = [ds EXCEPT ![d].context = TRUE]
    OBVIOUS
  <2>1. d \in DOMAIN ds /\ GoodDirs(ds)
    BY <1>1, <1>3
  <2>2. archive'.phases = es
    BY <1>5
  <2>3. Cardinality(SummariesIn(ds)) <= Cardinality(SummariesIn(es)) /\ GoodDirs(es)
    BY <1>2, <2>1
  <2>4. Cardinality(SummariesIn(es)) \in Nat /\ Cardinality(SummariesIn(ds)) \in Nat
    BY ONLY <2>1, <2>3, SummariesCount
  <2>5. Executed' = Cardinality(SummariesIn(dirs)) + Cardinality(SummariesIn(es))
    BY <1>5, <2>2 DEF Executed
  <2>6. Executed = Cardinality(SummariesIn(dirs)) + Cardinality(SummariesIn(ds))
    BY DEF Executed
  <2> QED BY ONLY <2>3, <2>4, <2>5, <2>6, ExecutedIs, PlanningInv
<1> QED BY <1>4, <1>5 DEF ScaffoldContext

\* Agents only add files.
LEMMA AgentsAdd ==
  ASSUME PlanningInv, NEW d \in DOMAIN dirs, AgentWrites(d)
  PROVE  Executed' \in Nat /\ Executed' >= Executed
<1>1. PICK files \in Contents : dirs' = [dirs EXCEPT ![d] = files]
                                /\ dirs[d].summaries \subseteq files.summaries
  <2> PICK now : now = dirs[d]
    OBVIOUS
  <2>1. now \in Contents
    BY DEF PlanningInv, GoodDirs
  <2>2. now.plans \subseteq PlanIds
    BY <2>1 DEF Contents
  <2>3. /\ now.summaries \subseteq [now EXCEPT !.research = TRUE].summaries
        /\ \A k : /\ now.summaries \subseteq [now EXCEPT !.plans = @ \cup {k}].summaries
                  /\ now.summaries \subseteq [now EXCEPT !.summaries = @ \cup {k}].summaries
    BY <2>1 DEF Contents
  <2>4. \/ \E k \in PlanIds : dirs' = [dirs EXCEPT ![d] = [now EXCEPT !.plans = @ \cup {k}]]
        \/ \E k \in PlanIds : dirs' = [dirs EXCEPT ![d] = [now EXCEPT !.summaries = @ \cup {k}]]
        \/ dirs' = [dirs EXCEPT ![d] = [now EXCEPT !.research = TRUE]]
    BY <2>2 DEF AgentWrites
  <2> QED BY <2>1, <2>3, <2>4, FilesWrittenTo
<1>2. GoodDirs(dirs) /\ archive' = archive
  BY DEF PlanningInv, AgentWrites
<1>3. Cardinality(SummariesIn(dirs)) <= Cardinality(SummariesIn(dirs')) /\ GoodDirs(dirs')
  BY ONLY <1>1, <1>2, FilledKeeps, Refilled, d \in DOMAIN dirs
<1>4. Cardinality(SummariesIn(dirs')) \in Nat
  BY ONLY <1>3, SummariesCount
<1>5. Executed' = Cardinality(SummariesIn(dirs')) + Cardinality(SummariesIn(archive.phases))
  BY <1>2 DEF Executed
<1>6. Executed = Cardinality(SummariesIn(dirs)) + Cardinality(SummariesIn(archive.phases))
  BY DEF Executed
<1> QED BY ONLY <1>3, <1>4, <1>5, <1>6, ExecutedIs, PlanningInv

\* Commands that make a directory, or touch none, keep the count.
LEMMA MakingKeeps ==
  ASSUME archive' = archive, NEW name, dirs' = dirs \/ dirs' = MkDir(dirs, name)
  PROVE  Executed' = Executed
<1>1. SummariesIn(dirs') = SummariesIn(dirs)
  BY MadeKeeps
<1> QED BY <1>1 DEF Executed

\* What ExecutedWorkKept asks of one step.
LEMMA WorkKeptByStep ==
  ASSUME PlanningInv, Next, Executed' < Executed
  PROVE  \E ref \in Refs :
           /\ PhaseRemove(ref, TRUE) /\ ~PhaseRemove(ref, FALSE)
           /\ \E d \in RemovalTarget(ref.num) :
                Executed' = Executed - Cardinality(dirs[d].summaries)
<1>1. Executed \in Nat
  BY ExecutedIs
<1>2. ASSUME NEW ref \in Refs, NEW force \in BOOLEAN, PhaseRemove(ref, force)
      PROVE  \E r \in Refs :
               /\ PhaseRemove(r, TRUE) /\ ~PhaseRemove(r, FALSE)
               /\ \E d \in RemovalTarget(r.num) :
                    Executed' = Executed - Cardinality(dirs[d].summaries)
  <2>1. PhaseRemove(ref, TRUE)
    BY <1>2 DEF PhaseRemove, MayRemove
  <2>2. ASSUME PhaseRemove(ref, FALSE)
        PROVE  FALSE
    <3>1. Executed' = Executed
      BY <2>2, RemovalTakes
    <3> QED BY ONLY <1>1, <3>1, Executed' < Executed
  <2>3. \/ Executed' = Executed
        \/ \E d \in RemovalTarget(ref.num) :
             Executed' = Executed - Cardinality(dirs[d].summaries)
    BY <1>2, RemovalTakes
  <2>4. \E d \in RemovalTarget(ref.num) :
          Executed' = Executed - Cardinality(dirs[d].summaries)
    BY ONLY <1>1, <2>3, Executed' < Executed
  <2> QED BY ONLY <2>1, <2>2, <2>4, ref \in Refs
<1>3. Executed' # Executed /\ ~(Executed' \in Nat /\ Executed' >= Executed)
  BY ONLY <1>1, Executed' < Executed
<1>4. ASSUME NEW slug \in Slugs, PhaseAdd(slug) PROVE FALSE
  <2>1. archive' = archive /\ \E name : dirs' = MkDir(dirs, name)
    BY <1>4 DEF PhaseAdd
  <2> QED BY <1>3, <2>1, MakingKeeps
<1>5. ASSUME NEW ref \in Refs, NEW slug \in Slugs, PhaseInsert(ref, slug) PROVE FALSE
  <2>1. archive' = archive /\ \E name : dirs' = MkDir(dirs, name)
    BY <1>5 DEF PhaseInsert
  <2> QED BY <1>3, <2>1, MakingKeeps
<1>6. ASSUME NEW p, NEW slug \in Slugs, ScaffoldPhaseDir(p, slug) PROVE FALSE
  <2>1. archive' = archive /\ \E name : dirs' = MkDir(dirs, name)
    BY <1>6 DEF ScaffoldPhaseDir
  <2> QED BY <1>3, <2>1, MakingKeeps
<1>7. ASSUME \/ \E ref \in Refs : PhaseComplete(ref) \/ UpdatePlanProgress(ref)
             \/ \E ids \in SUBSET Reqs \ {{}} : MarkComplete(ids)
      PROVE  FALSE
  <2>1. archive' = archive /\ dirs' = dirs
    BY <1>7 DEF PhaseComplete, UpdatePlanProgress, MarkComplete
  <2> QED BY <1>3, <2>1, MakingKeeps
<1>8. ASSUME NEW archivePhases \in BOOLEAN, MilestoneComplete(archivePhases) PROVE FALSE
  BY <1>3, <1>8, ArchivingKeeps
<1>9. ASSUME NEW p \in KnownNumbers, ScaffoldContext(p) PROVE FALSE
  BY <1>3, <1>9, ContextKeeps
<1>10. ASSUME NEW d \in DOMAIN dirs, AgentWrites(d) PROVE FALSE
  BY <1>3, <1>10, AgentsAdd
<1> QED BY <1>2, <1>4, <1>5, <1>6, <1>7, <1>8, <1>9, <1>10 DEF Next

\* No command but phase remove --force loses executed work, and that no more
\* than the directory it deletes holds (phase.cjs:455-627, milestone.cjs).
THEOREM WorkSurvives == Spec => ExecutedWorkKept
<1>1. PlanningInv /\ Next => (Executed' < Executed =>
         \E ref \in Refs :
           /\ PhaseRemove(ref, TRUE) /\ ~PhaseRemove(ref, FALSE)
           /\ \E d \in RemovalTarget(ref.num) :
                Executed' = Executed - Cardinality(dirs[d].summaries))
  BY WorkKeptByStep
<1> QED
  BY <1>1, PlanningInvariant, PTL DEF Spec, ExecutedWorkKept

=============================================================================
