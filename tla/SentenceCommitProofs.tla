------------------------ MODULE SentenceCommitProofs ------------------------
(***************************************************************************)
(* Proofs about SentenceCommit: what a run of _update_sentence_commits does *)
(* to the rows, for every utterance, every bound and every choice of ends.  *)
(***************************************************************************)
EXTENDS SentenceCommit, SequenceTheorems, FiniteSetTheorems, WellFoundedInduction, TLAPS

-------------------------------------------------------------------------------
(* Positions in a set of numbers: Nth, and how many elements there are up to *)
(* one.                                                                      *)

\* A set of numbers that is not empty has a least one.
LEMMA LeastIs ==
    ASSUME NEW T, T \subseteq Nat, T # {}
    PROVE  \E x \in T : \A y \in T : x <= y
<1> DEFINE R == {p \in Nat \X Nat : p[1] < p[2]}
<1>1. IsWellFoundedOn(R, Nat)
    BY NatLessThanWellFounded DEF OpToRel
<1> HIDE DEF R
<1>2. PICK x \in T : \A y \in T : ~(<<y, x>> \in R)
    BY <1>1, WFMin
<1>3. ASSUME NEW y \in T PROVE x <= y
    <2>1. ~(<<y, x>> \in R) /\ x \in Nat /\ y \in Nat
        BY <1>2
    <2>2. ~(y < x)
        BY <2>1 DEF R
    <2> QED
        BY <2>1, <2>2
<1> QED
    BY <1>3

\* The elements of S up to x.
Upto(S, x) == {y \in S : y <= x}
Rank(S, x) == Cardinality(Upto(S, x))

\* Sets of positions.
Places(S, n) == n \in Nat /\ S \subseteq 1..n

\* Ranks grow with the elements, each by one.
LEMMA RankIs ==
    ASSUME NEW S, NEW n, Places(S, n)
    PROVE  /\ IsFiniteSet(S) /\ Cardinality(S) \in Nat /\ Cardinality(S) = Rank(S, n)
           /\ Cardinality(S) <= n
           /\ \A x \in Nat : Rank(S, x) \in Nat /\ Rank(S, x) <= x /\ Rank(S, x) <= Cardinality(S)
           /\ Rank(S, 0) = 0
           /\ \A x \in Nat : Rank(S, x + 1) = Rank(S, x) + (IF x + 1 \in S THEN 1 ELSE 0)
           /\ \A x, y \in Nat : x <= y => Rank(S, x) <= Rank(S, y)
           /\ \A x \in Nat : \A y \in S : x < y => Rank(S, x) < Rank(S, y)
<1>1. n \in Nat /\ S \subseteq 1..n
    BY DEF Places
<1>2. IsFiniteSet(1..n) /\ Cardinality(1..n) = n
    <2>1. 1 \in Int /\ n \in Int
        BY <1>1
    <2>2. IsFiniteSet(1..n) /\ Cardinality(1..n) = IF 1 > n THEN 0 ELSE n - 1 + 1
        BY <2>1, FS_Interval
    <2>3. (IF 1 > n THEN 0 ELSE n - 1 + 1) = n
        BY <1>1
    <2> QED
        BY <2>2, <2>3
<1>3. IsFiniteSet(S) /\ Cardinality(S) <= n
    BY <1>1, <1>2, FS_Subset
<1>4. Cardinality(S) \in Nat
    BY <1>3, FS_CardinalityType
<1>0. \A y \in S : y \in 1..n
    BY <1>1
<1>5. Upto(S, n) = S
    <2>1. \A y \in S : y <= n
        BY <1>0, <1>1
    <2> QED
        BY <2>1 DEF Upto
<1>6. ASSUME NEW x \in Nat
      PROVE  /\ IsFiniteSet(Upto(S, x)) /\ Rank(S, x) \in Nat /\ Rank(S, x) <= x
             /\ Rank(S, x) <= Cardinality(S)
    <2>0. ASSUME NEW y \in S, y <= x PROVE y \in 1..x
        BY <1>0, <1>1, <2>0
    <2>1. Upto(S, x) \subseteq S /\ Upto(S, x) \subseteq 1..x
        BY <2>0 DEF Upto
    <2>2. IsFiniteSet(Upto(S, x)) /\ Cardinality(Upto(S, x)) <= Cardinality(S)
        BY <1>3, <2>1, FS_Subset
    <2>3. IsFiniteSet(1..x) /\ Cardinality(1..x) = x
        <3>1. 1 \in Int /\ x \in Int
            OBVIOUS
        <3>2. IsFiniteSet(1..x) /\ Cardinality(1..x) = IF 1 > x THEN 0 ELSE x - 1 + 1
            BY <3>1, FS_Interval
        <3>3. (IF 1 > x THEN 0 ELSE x - 1 + 1) = x
            OBVIOUS
        <3> QED
            BY <3>2, <3>3
    <2>4. Cardinality(Upto(S, x)) <= x
        BY <2>1, <2>3, FS_Subset
    <2>5. Cardinality(Upto(S, x)) \in Nat
        BY <2>2, FS_CardinalityType
    <2> QED
        BY <2>2, <2>4, <2>5 DEF Rank
<1>7. Rank(S, 0) = 0
    <2>1. 0 \in Nat
        OBVIOUS
    <2>2. PICK r \in Nat : r = Rank(S, 0) /\ r <= 0
        BY <2>1, <1>6
    <2> QED
        BY <2>2
<1>8. ASSUME NEW x \in Nat
      PROVE  Rank(S, x + 1) = Rank(S, x) + (IF x + 1 \in S THEN 1 ELSE 0)
    <2>1. CASE x + 1 \in S
        <3>0. \A y \in S : (y <= x + 1 <=> y <= x \/ y = x + 1)
            BY <1>0, <1>1
        <3>1. Upto(S, x + 1) = Upto(S, x) \cup {x + 1} /\ x + 1 \notin Upto(S, x)
            <4>1. ~(x + 1 <= x)
                OBVIOUS
            <4> QED
                BY <2>1, <3>0, <4>1 DEF Upto
        <3>2. IsFiniteSet(Upto(S, x))
            BY <1>6
        <3>3. Cardinality(Upto(S, x) \cup {x + 1}) = Cardinality(Upto(S, x)) + 1
            BY <3>1, <3>2, FS_AddElement
        <3> QED
            BY <2>1, <3>1, <3>3 DEF Rank
    <2>2. CASE x + 1 \notin S
        <3>0. \A y \in S : (y <= x + 1 <=> y <= x \/ y = x + 1)
            BY <1>0, <1>1
        <3>1. Upto(S, x + 1) = Upto(S, x)
            BY <2>2, <3>0 DEF Upto
        <3>2. PICK r \in Nat : r = Rank(S, x)
            BY <1>6
        <3> QED
            BY <2>2, <3>1, <3>2 DEF Rank
    <2> QED
        BY <2>1, <2>2
<1>9. ASSUME NEW x \in Nat, NEW y \in Nat, x <= y PROVE Rank(S, x) <= Rank(S, y)
    <2>0. \A z \in S : z <= x => z <= y
        BY <1>0, <1>1, <1>9
    <2>1. Upto(S, x) \subseteq Upto(S, y)
        BY <2>0 DEF Upto
    <2>2. IsFiniteSet(Upto(S, y))
        BY <1>6
    <2> QED
        BY <2>1, <2>2, FS_Subset DEF Rank
<1>10. ASSUME NEW x \in Nat, NEW y \in S, x < y PROVE Rank(S, x) < Rank(S, y)
    <2>1. y \in Nat /\ y - 1 \in Nat /\ x <= y - 1 /\ (y - 1) + 1 = y
        BY <1>1, <1>10
    <2>2. PICK z \in Nat : z = y - 1
        BY <2>1
    <2>3. Rank(S, x) <= Rank(S, z) /\ Rank(S, z + 1) = Rank(S, z) + 1 /\ z + 1 = y
        BY <2>1, <2>2, <1>8, <1>9
    <2>4. PICK a \in Nat, b \in Nat : a = Rank(S, x) /\ b = Rank(S, z)
        BY <1>6
    <2> QED
        BY <2>3, <2>4
<1> QED
    BY <1>3, <1>4, <1>5, <1>6, <1>7, <1>8, <1>9, <1>10 DEF Rank

\* The k-th element is the one with rank k.
LEMMA NthIs ==
    ASSUME NEW S, NEW n, Places(S, n), NEW k \in 1..Cardinality(S)
    PROVE  /\ Nth(S, k) \in S /\ Rank(S, Nth(S, k)) = k /\ k <= Nth(S, k)
           /\ \A x \in S : Rank(S, x) = k => x = Nth(S, k)
<1>1. n \in Nat /\ S \subseteq 1..n
    BY DEF Places
<1>2. /\ Cardinality(S) \in Nat /\ Cardinality(S) = Rank(S, n)
      /\ \A x \in Nat : Rank(S, x) \in Nat /\ Rank(S, x) <= x
      /\ Rank(S, 0) = 0
      /\ \A x \in Nat : Rank(S, x + 1) = Rank(S, x) + (IF x + 1 \in S THEN 1 ELSE 0)
      /\ \A x \in Nat : \A y \in S : x < y => Rank(S, x) < Rank(S, y)
    BY RankIs
<1>3. PICK c \in Nat : c = Cardinality(S)
    BY <1>2
<1>4. k \in 1..c
    BY <1>3
<1> DEFINE T == {x \in 0..n : Rank(S, x) >= k}
<1>5. n \in T
    BY <1>1, <1>2, <1>3, <1>4
<1>6. PICK m \in T : \A y \in T : m <= y
    <2>1. T \subseteq Nat /\ T # {}
        BY <1>1, <1>5
    <2> HIDE DEF T
    <2> QED
        BY <2>1, LeastIs
<1>7. m \in Nat /\ m <= n /\ Rank(S, m) >= k
    BY <1>1, <1>6
<1>8. m # 0
    BY <1>2, <1>4, <1>7
<1>9. PICK p \in Nat : p + 1 = m
    BY <1>7, <1>8
<1>10. ~(Rank(S, p) >= k)
    <2>1. p \in 0..n /\ ~(m <= p)
        BY <1>1, <1>7, <1>9
    <2> QED
        BY <1>6, <2>1
<1>11. PICK r \in Nat : r = Rank(S, p)
    BY <1>2
<1>12. m \in S /\ Rank(S, m) = k
    <2>1. Rank(S, p + 1) = Rank(S, p) + (IF p + 1 \in S THEN 1 ELSE 0)
        BY <1>2
    <2>2. Rank(S, m) = r + (IF m \in S THEN 1 ELSE 0) /\ Rank(S, m) >= k /\ ~(r >= k)
        BY ONLY <1>7, <1>9, <1>10, <1>11, <2>1
    <2>3. r \in Nat /\ k \in Nat
        BY <1>4
    <2> QED
        BY ONLY <2>2, <2>3
<1>13. PICK x : x = Nth(S, k)
    OBVIOUS
<1>14. x \in S /\ Rank(S, x) = k
    <2>1. x = CHOOSE z \in S : Rank(S, z) = k
        BY <1>13 DEF Nth, Rank, Upto
    <2> QED
        BY <2>1, <1>12
<1>15. ASSUME NEW y \in S, Rank(S, y) = k PROVE y = x
    <2>1. x \in Nat /\ y \in Nat
        BY <1>1, <1>14
    <2>2. /\ x < y => Rank(S, x) < Rank(S, y)
          /\ y < x => Rank(S, y) < Rank(S, x)
        BY ONLY <1>2, <1>14, <1>15, <2>1
    <2>3. k \in Nat
        BY <1>4
    <2>4. ~(x < y) /\ ~(y < x)
        BY ONLY <1>14, <1>15, <2>2, <2>3
    <2> QED
        BY ONLY <2>1, <2>4
<1>16. k <= x
    BY <1>1, <1>2, <1>4, <1>14
<1> QED
    BY <1>13, <1>14, <1>15, <1>16

\* An element is the one of its rank, and ranks order the elements.
LEMMA NthOf ==
    ASSUME NEW S, NEW n, Places(S, n), NEW x \in S
    PROVE  Rank(S, x) \in 1..Cardinality(S) /\ Nth(S, Rank(S, x)) = x
<1>1. n \in Nat /\ S \subseteq 1..n /\ x \in Nat /\ 0 < x
    BY DEF Places
<1>2. /\ Cardinality(S) \in Nat /\ Rank(S, x) \in Nat /\ Rank(S, x) <= Cardinality(S)
      /\ Rank(S, 0) = 0 /\ Rank(S, 0) < Rank(S, x)
    <2>1. 0 \in Nat
        OBVIOUS
    <2> QED
        BY <1>1, <2>1, RankIs
<1>3. PICK k : k = Rank(S, x)
    OBVIOUS
<1>4. k \in 1..Cardinality(S)
    BY <1>2, <1>3
<1>5. x = Nth(S, k)
    BY <1>3, <1>4, NthIs
<1> QED
    BY <1>3, <1>4, <1>5

\* The elements come in their order.
LEMMA NthOrder ==
    ASSUME NEW S, NEW n, Places(S, n), NEW k \in 1..Cardinality(S), NEW l \in 1..Cardinality(S),
           k < l
    PROVE  Nth(S, k) < Nth(S, l)
<1>1. n \in Nat /\ S \subseteq 1..n
    BY DEF Places
<1>2. PICK x, y : x = Nth(S, k) /\ y = Nth(S, l)
    OBVIOUS
<1>3. x \in S /\ y \in S /\ Rank(S, x) = k /\ Rank(S, y) = l
    BY <1>2, NthIs
<1>4. x \in Nat /\ y \in Nat
    BY <1>1, <1>3
<1>5. ~(y <= x)
    <2>1. y <= x => Rank(S, y) <= Rank(S, x)
        BY <1>4, RankIs
    <2>2. k \in Int /\ l \in Int
        BY RankIs
    <2> QED
        BY <2>1, <2>2, <1>3
<1> QED
    BY <1>2, <1>4, <1>5

\* The least element.
LEMMA FirstIs ==
    ASSUME NEW S, NEW n, Places(S, n), S # {}
    PROVE  Nth(S, 1) \in S /\ \A x \in S : Nth(S, 1) <= x
<1>1. n \in Nat /\ S \subseteq 1..n
    BY DEF Places
<1>2. PICK z \in S : TRUE
    OBVIOUS
<1>3. Rank(S, z) \in 1..Cardinality(S)
    BY NthOf
<1>4. PICK c \in Nat : c = Cardinality(S)
    BY RankIs
<1>5. 1 \in 1..c
    BY <1>3, <1>4
<1>6. PICK f : f = Nth(S, 1)
    OBVIOUS
<1>7. f \in S /\ Rank(S, f) = 1
    BY <1>4, <1>5, <1>6, NthIs
<1>8. ASSUME NEW x \in S PROVE f <= x
    <2>1. f \in Nat /\ x \in Nat
        BY <1>1, <1>7
    <2>2. x < f => Rank(S, x) < Rank(S, f)
        BY <1>7, <2>1, RankIs
    <2>3. Rank(S, x) \in 1..c
        BY <1>4, NthOf
    <2> QED
        BY <1>7, <2>1, <2>2, <2>3
<1> QED
    BY <1>6, <1>7, <1>8

-------------------------------------------------------------------------------
(* Words, texts and units. *)

\* Where a text or unit may begin, and end.
Los == 1..(MaxWord + 1)
His == 0..MaxWord
Units == [lo : Los, hi : His]
Texts == [lo : Los, hi : His, ends : SUBSET Word]

\* What the constants are.
LEMMA Constants ==
    /\ MaxWord \in Nat \ {0} /\ Word = 1..MaxWord /\ MinWords \in Nat /\ Lookahead \in Nat
    /\ BigGrowth \in Nat \ {0} /\ SmallHits \in Nat \ {0} /\ StableHits \in Nat \ {0}
    /\ MaxBirth \in Nat /\ MaxDecode \in Nat /\ MaxSegment \in Nat
BY SentenceCommitAssumption DEF Word

\* The sentence ends of a text are positions.
LEMMA EndsAre ==
    ASSUME NEW t \in Texts
    PROVE  /\ Places(EndsOf(t), MaxWord) /\ t.lo \in Nat \ {0} /\ t.hi \in Nat
           /\ \A e \in EndsOf(t) : e \in Nat /\ e \in t.ends /\ t.lo <= e /\ e <= t.hi
<1>1. t.lo \in 1..(MaxWord + 1) /\ t.hi \in 0..MaxWord /\ t.ends \subseteq 1..MaxWord
    BY Constants DEF Texts, Los, His
<1>2. MaxWord \in Nat
    BY Constants
<1>3. EndsOf(t) \subseteq t.ends /\ EndsOf(t) \subseteq t.lo..t.hi
    BY DEF EndsOf, WordsOf
<1>4. Places(EndsOf(t), MaxWord)
    BY <1>1, <1>2, <1>3 DEF Places
<1> QED
    BY <1>1, <1>2, <1>3, <1>4

\* What the completed units of a text are.
LEMMA UnitsAre ==
    ASSUME NEW t \in Texts, NEW us, us = UnitsOf(t)
    PROVE  /\ us \in Seq(Units) /\ Len(us) = Cardinality(EndsOf(t))
           /\ \A k \in 1..Len(us) :
                  /\ us[k].lo \in Nat \ {0} /\ us[k].hi \in Nat
                  /\ us[k].lo <= us[k].hi /\ Within(us[k], t) /\ us[k].hi \in t.ends
                  /\ us[k].hi = Nth(EndsOf(t), k)
                  /\ us[k].lo = IF k = 1 THEN t.lo ELSE us[k - 1].hi + 1
           /\ \A j, k \in 1..Len(us) : j < k => us[j].hi < us[k].lo
<1>1. PICK E : E = EndsOf(t)
    OBVIOUS
<1>2. /\ Places(E, MaxWord) /\ t.lo \in Nat \ {0} /\ t.hi \in Nat
      /\ \A e \in E : e \in Nat /\ e \in t.ends /\ t.lo <= e /\ e <= t.hi
    BY <1>1, EndsAre
<1>3. PICK n \in Nat : n = Cardinality(E)
    BY <1>2, RankIs
<1>4. us = [k \in 1..n |-> Unit(IF k = 1 THEN t.lo ELSE Nth(E, k - 1) + 1, Nth(E, k))]
    BY <1>1, <1>3 DEF UnitsOf
<1>5. \A k \in 1..n : Nth(E, k) \in E
    BY <1>2, <1>3, NthIs
<1>6. \A j, k \in 1..n : j < k => Nth(E, j) < Nth(E, k)
    BY <1>2, <1>3, NthOrder
<1>7. \A k \in 1..n : /\ us[k].hi = Nth(E, k)
                      /\ us[k].lo = IF k = 1 THEN t.lo ELSE Nth(E, k - 1) + 1
    BY <1>4 DEF Unit
<1>8. ASSUME NEW k \in 1..n
      PROVE  /\ us[k].lo \in Nat \ {0} /\ us[k].hi \in Nat /\ us[k].lo <= us[k].hi
             /\ t.lo <= us[k].lo /\ us[k].hi <= t.hi /\ us[k].hi \in t.ends
             /\ us[k].lo = IF k = 1 THEN t.lo ELSE us[k - 1].hi + 1
    <2>1. PICK h \in E : h = Nth(E, k)
        BY <1>5
    <2>2. h \in Nat /\ h \in t.ends /\ t.lo <= h /\ h <= t.hi
        BY <1>2
    <2>3. CASE k = 1
        BY <2>1, <2>2, <2>3, <1>2, <1>7
    <2>4. CASE k # 1
        <3>1. k - 1 \in 1..n /\ k - 1 < k
            BY <2>4
        <3>2. PICK l \in E : l = Nth(E, k - 1)
            BY <3>1, <1>5
        <3>3. l \in Nat /\ t.lo <= l /\ l < h
            BY <1>2, <1>6, <2>1, <3>1, <3>2
        <3>4. us[k].lo = l + 1 /\ us[k].hi = h /\ us[k - 1].hi = l
            BY <1>7, <2>1, <2>4, <3>1, <3>2
        <3> QED
            BY <2>2, <2>4, <3>3, <3>4, <1>2
    <2> QED
        BY <2>3, <2>4
<1>9. ASSUME NEW j \in 1..n, NEW k \in 1..n, j < k PROVE us[j].hi < us[k].lo
    <2>1. k # 1 /\ k - 1 \in 1..n /\ (j = k - 1 \/ j < k - 1)
        BY <1>9
    <2>2. PICK g \in Nat, l \in Nat : g = Nth(E, j) /\ l = Nth(E, k - 1)
        BY <1>2, <1>5, <2>1
    <2>3. g <= l
        BY <1>6, <2>1, <2>2
    <2>4. us[j].hi = g /\ us[k].lo = l + 1
        BY <1>7, <2>1, <2>2
    <2> QED
        BY <2>2, <2>3, <2>4
<1>10. \A k \in 1..n : us[k] \in Units
    <2> TAKE k \in 1..n
    <2>1. us[k] = Unit(us[k].lo, us[k].hi)
        BY <1>4 DEF Unit
    <2>2. us[k].lo \in Los /\ us[k].hi \in His
        <3>1. t.hi <= MaxWord /\ MaxWord \in Nat
            BY Constants DEF Texts, His
        <3> QED
            BY <1>2, <1>8, <3>1 DEF Los, His
    <2> QED
        BY <2>1, <2>2 DEF Unit, Units
<1>11. us \in Seq(Units) /\ Len(us) = n
    <2>1. us \in [1..n -> Units]
        BY <1>4, <1>10
    <2> QED
        BY <2>1, SeqDef, LenProperties, IsASeq
<1> QED
    BY <1>1, <1>3, <1>7, <1>8, <1>9, <1>11 DEF Within

\* The tail begins behind the last unit.
LEMMA TailIs ==
    ASSUME NEW t \in Texts, NEW us, us = UnitsOf(t), NEW v, v = TailOf(t)
    PROVE  /\ v \in Units /\ v.hi = t.hi /\ t.lo <= v.lo
           /\ v.lo = IF us = << >> THEN t.lo ELSE us[Len(us)].hi + 1
<1>1. PICK E : E = EndsOf(t)
    OBVIOUS
<1>2. /\ Places(E, MaxWord) /\ t.lo \in Nat \ {0} /\ t.hi \in Nat
      /\ \A e \in E : e \in Nat /\ t.lo <= e /\ e <= t.hi
    BY <1>1, EndsAre
<1>3. PICK n \in Nat : n = Cardinality(E)
    BY <1>2, RankIs
<1>4. /\ us \in Seq(Units) /\ Len(us) = n /\ \A k \in 1..n : us[k].hi = Nth(E, k)
    BY <1>1, <1>3, UnitsAre
<1>5. t.lo \in Los /\ t.hi \in His /\ MaxWord \in Nat
    BY Constants DEF Texts
<1>6. v = IF E = {} THEN Unit(t.lo, t.hi) ELSE Unit(Nth(E, n) + 1, t.hi)
    BY <1>1, <1>3 DEF TailOf
<1>7. IsFiniteSet(E)
    BY <1>2, RankIs
<1>8. E = {} <=> n = 0
    BY <1>3, <1>7, FS_EmptySet
<1>9. us = << >> <=> n = 0
    BY <1>4, EmptySeq
<1>10. CASE n = 0
    BY <1>2, <1>5, <1>6, <1>8, <1>9, <1>10 DEF Unit, Units
<1>11. CASE n # 0
    <2>1. n \in 1..n
        BY <1>11
    <2>2. PICK e \in E : e = Nth(E, n)
        BY <1>2, <1>3, <2>1, NthIs
    <2>3. e \in Nat /\ t.lo <= e /\ e <= t.hi /\ t.hi <= MaxWord
        BY <1>2, <1>5 DEF His
    <2>4. v.lo = e + 1 /\ v.hi = t.hi /\ v = Unit(e + 1, t.hi)
        BY <1>6, <1>8, <1>11, <2>2 DEF Unit
    <2>5. us[Len(us)].hi = e
        BY <1>4, <2>1, <2>2
    <2>6. e + 1 \in Los /\ t.lo <= e + 1
        BY <1>2, <1>5, <2>3 DEF Los
    <2> QED
        BY <1>5, <1>9, <1>11, <2>4, <2>5, <2>6 DEF Unit, Units
<1> QED
    BY <1>10, <1>11

\* Each word of a text is in a unit or in the tail.
LEMMA UnitsCover ==
    ASSUME NEW t \in Texts, NEW us, us = UnitsOf(t), NEW w \in WordsOf(t), w < TailOf(t).lo
    PROVE  \E k \in 1..Len(us) : w \in WordsOf(us[k])
<1>1. PICK E : E = EndsOf(t)
    OBVIOUS
<1>2. /\ Places(E, MaxWord) /\ t.lo \in Nat \ {0} /\ t.hi \in Nat
      /\ \A e \in E : e \in Nat /\ t.lo <= e /\ e <= t.hi
    BY <1>1, EndsAre
<1>3. PICK n \in Nat : n = Cardinality(E)
    BY <1>2, RankIs
<1>4. /\ us \in Seq(Units) /\ Len(us) = n
      /\ \A k \in 1..n : us[k].hi = Nth(E, k) /\ us[k].hi \in Nat
      /\ \A k \in 1..n : us[k].lo = IF k = 1 THEN t.lo ELSE us[k - 1].hi + 1
    BY <1>1, <1>3, UnitsAre
<1>5. w \in Nat /\ t.lo <= w /\ w <= t.hi
    BY <1>2 DEF WordsOf
<1>6. TailOf(t).lo = IF us = << >> THEN t.lo ELSE us[n].hi + 1
    BY <1>4, TailIs
<1>7. n # 0 /\ w <= us[n].hi
    <2>1. n = 0 => us = << >>
        BY <1>4, EmptySeq
    <2>2. us # << >>
        BY <1>5, <1>2, <1>6
    <2>3. n \in 1..n
        BY <2>1, <2>2
    <2>4. PICK h \in Nat : h = us[n].hi
        BY <1>4, <2>3
    <2> QED
        BY <1>5, <1>6, <2>1, <2>2, <2>4
<1> DEFINE T == {k \in 1..n : w <= us[k].hi}
<1>8. PICK k \in T : \A y \in T : k <= y
    <2>1. T \subseteq Nat /\ n \in T
        BY <1>7
    <2> HIDE DEF T
    <2> QED
        BY <2>1, LeastIs
<1>9. k \in 1..n /\ w <= us[k].hi
    BY <1>8
<1>10. us[k].lo <= w
    <2>1. CASE k = 1
        BY <1>4, <1>5, <1>9, <2>1
    <2>2. CASE k # 1
        <3>1. k - 1 \in 1..n /\ ~(k <= k - 1)
            BY <1>9, <2>2
        <3>2. ~(w <= us[k - 1].hi)
            BY <1>8, <3>1
        <3>3. PICK h \in Nat : h = us[k - 1].hi
            BY <1>4, <3>1
        <3> QED
            BY <1>4, <1>5, <1>9, <2>2, <3>2, <3>3
    <2> QED
        BY <2>1, <2>2
<1>11. us[k].lo \in Int /\ us[k].hi \in Int
    <2>1. us[k].lo \in Nat /\ us[k].hi \in Nat
        BY <1>9, <1>4, UnitsAre
    <2> QED
        BY <2>1
<1> QED
    BY <1>4, <1>5, <1>9, <1>10, <1>11 DEF WordsOf

\* A function on the first numbers is a sequence.
LEMMA SeqOf ==
    ASSUME NEW n \in Nat, NEW R, NEW s \in [1..n -> R]
    PROVE  s \in Seq(R) /\ Len(s) = n
BY SeqDef, LenProperties, IsASeq

-------------------------------------------------------------------------------
(* What is left of a sequence when some positions go. *)

\* The positions that stay.
Stay(s, S) == DOMAIN s \ S

\* The positions that stay are positions.
LEMMA StayIs ==
    ASSUME NEW R, NEW s \in Seq(R), NEW S
    PROVE  Places(Stay(s, S), Len(s))
<1>1. DOMAIN s = 1..Len(s) /\ Len(s) \in Nat
    BY LenProperties
<1> QED
    BY <1>1 DEF Places, Stay

\* The k-th element is the one at the k-th position that stays, which is not
\* before k.
LEMMA KeepIs ==
    ASSUME NEW R, NEW s \in Seq(R), NEW S, NEW left, left = Stay(s, S)
    PROVE  /\ Keep(s, S) \in Seq(R) /\ Len(Keep(s, S)) = Cardinality(left)
           /\ \A k \in 1..Cardinality(left) :
                 /\ Nth(left, k) \in left /\ Nth(left, k) \in DOMAIN s /\ k <= Nth(left, k)
                 /\ Rank(left, Nth(left, k)) = k
                 /\ Keep(s, S)[k] = s[Nth(left, k)]
           /\ \A i \in left : /\ Rank(left, i) \in 1..Cardinality(left)
                              /\ Keep(s, S)[Rank(left, i)] = s[i]
<1>1. Places(left, Len(s)) /\ left \subseteq DOMAIN s
    BY StayIs DEF Stay
<1>2. PICK n \in Nat : n = Cardinality(left)
    BY <1>1, RankIs
<1>3. \A k \in 1..n : Nth(left, k) \in left /\ Rank(left, Nth(left, k)) = k /\ k <= Nth(left, k)
    BY <1>1, <1>2, NthIs
<1>4. \A i \in left : Rank(left, i) \in 1..n /\ Nth(left, Rank(left, i)) = i
    BY <1>1, <1>2, NthOf
<1>5. Keep(s, S) = [k \in 1..n |-> s[Nth(left, k)]]
    BY <1>2 DEF Keep, Stay
<1>6. \A i \in DOMAIN s : s[i] \in R
    BY LenProperties, ElementOfSeq
<1>7. Keep(s, S) \in [1..n -> R]
    BY <1>1, <1>3, <1>5, <1>6
<1>8. Keep(s, S) \in Seq(R) /\ Len(Keep(s, S)) = n
    BY <1>7, SeqDef, LenProperties, IsASeq
<1> QED
    BY <1>1, <1>2, <1>3, <1>4, <1>5, <1>8

\* Positions before the first that goes stay where they are.
LEMMA StayBelow ==
    ASSUME NEW S, NEW n, Places(S, n), NEW m \in Nat, \A i \in 1..m : i \in S, NEW i \in 1..m
    PROVE  Rank(S, i) = i
<1>1. \A y \in S : y \in 1..n
    BY DEF Places
<1>2. n \in Nat
    BY DEF Places
<1>3. Upto(S, i) = 1..i
    <2>1. ASSUME NEW y \in S, y <= i PROVE y \in 1..i
        BY <1>1, <1>2, <2>1
    <2>2. ASSUME NEW y \in 1..i PROVE y \in S /\ y <= i
        <3>1. y \in 1..m
            OBVIOUS
        <3> QED
            BY <3>1
    <2> QED
        BY <2>1, <2>2 DEF Upto
<1>4. Cardinality(1..i) = i
    <2>1. 1 \in Int /\ i \in Int
        OBVIOUS
    <2>2. Cardinality(1..i) = IF 1 > i THEN 0 ELSE i - 1 + 1
        BY <2>1, FS_Interval
    <2>3. (IF 1 > i THEN 0 ELSE i - 1 + 1) = i
        OBVIOUS
    <2> QED
        BY <2>2, <2>3
<1> QED
    BY <1>3, <1>4 DEF Rank

\* The position of an element that stays is what is left of its old one when
\* the positions before it that go are counted off.
LEMMA StayRank ==
    ASSUME NEW n \in Nat, NEW S, S \subseteq 1..n, NEW i \in (1..n) \ S
    PROVE  i - Cardinality({a \in S : a < i}) = Rank((1..n) \ S, i)
<1> DEFINE left == (1..n) \ S
           A == {a \in S : a < i}
           B == Upto(left, i)
<1>1. A \cup B = 1..i /\ A \cap B = {}
    <2>1. ASSUME NEW a \in A PROVE a \in 1..i /\ a \notin B
        <3>1. a \in 1..n /\ a < i
            OBVIOUS
        <3> QED
            BY <3>1 DEF Upto
    <2>2. ASSUME NEW y \in B PROVE y \in 1..i
        <3>1. y \in 1..n /\ y <= i
            BY DEF Upto
        <3> QED
            BY <3>1
    <2>3. ASSUME NEW y \in 1..i PROVE y \in A \/ y \in B
        <3>1. y \in 1..n /\ y <= i
            OBVIOUS
        <3>2. CASE y \in S
            <4>1. y # i
                BY <3>2
            <4> QED
                BY <3>1, <3>2, <4>1
        <3>3. CASE y \notin S
            BY <3>1, <3>3 DEF Upto
        <3> QED
            BY <3>2, <3>3
    <2> QED
        BY <2>1, <2>2, <2>3
<1>2. IsFiniteSet(1..i) /\ Cardinality(1..i) = i
    <2>1. 1 \in Int /\ i \in Int
        OBVIOUS
    <2>2. IsFiniteSet(1..i) /\ Cardinality(1..i) = IF 1 > i THEN 0 ELSE i - 1 + 1
        BY <2>1, FS_Interval
    <2>3. (IF 1 > i THEN 0 ELSE i - 1 + 1) = i
        OBVIOUS
    <2> QED
        BY <2>2, <2>3
<1> HIDE DEF A, B
<1>3. A \subseteq 1..i /\ B \subseteq 1..i
    BY <1>1
<1>4. IsFiniteSet(A) /\ IsFiniteSet(B)
    BY <1>2, <1>3, FS_Subset
<1>5. PICK p \in Nat, q \in Nat : p = Cardinality(A) /\ q = Cardinality(B)
    BY <1>4, FS_CardinalityType
<1>6. Cardinality(A \cap B) = 0
    BY <1>1, FS_EmptySet
<1>7. Cardinality(A \cup B) = Cardinality(A) + Cardinality(B) - Cardinality(A \cap B)
    BY <1>4, FS_Union
<1>8. i = p + q
    <2>1. Cardinality(A \cup B) = i
        BY <1>1, <1>2
    <2> QED
        BY <2>1, <1>5, <1>6, <1>7
<1>9. q = Rank(left, i)
    BY <1>5 DEF B, Rank
<1>10. i - p = q
    BY <1>8
<1> QED
    BY <1>5, <1>9, <1>10 DEF A

-------------------------------------------------------------------------------
(* Rows, and what a run may do to them. *)

\* A word with an identity of it.
Marks == Word \X Nat

RowSet == [lo : Los, hi : His, ids : SUBSET Marks, pids : SUBSET Marks, pub : BOOLEAN,
           conf : BOOLEAN, req : SUBSET (Marks \X Marks)]
Cursors == [lo : Los, hi : His, row : Nat]

\* A row has identities for all of its words, and for no other word, or for none.
Bound(r) ==
    \/ r.ids = {}
    \/ /\ r.lo <= r.hi
       /\ \A p \in r.ids : p[1] \in WordsOf(r)
       /\ \A w \in WordsOf(r) : \E p \in r.ids : p[1] = w

\* The published rows are the first ones.
InTurn(rs) == \A i \in 1..Len(rs) : rs[i].pub => \A j \in 1..i : rs[j].pub

Sound(rs) == rs \in Seq(RowSet) /\ (\A i \in 1..Len(rs) : Bound(rs[i])) /\ InTurn(rs)

\* The unpublished rows of the segment that may be spoken are units of the text.
Backed(rs, us, t, b) ==
    \A i \in 1..Len(rs) : i > base /\ rs[i].conf /\ ~rs[i].pub =>
        \E k \in 1..Len(us) : Span(us[k], t, b) = rs[i].ids

\* The same rows are published, none of them loses a word; and every word of a
\* row stays in a row.
Follows(rs, new) ==
    /\ \A i \in 1..Len(new) : new[i].pub => i \in 1..Len(rs) /\ rs[i].pub
    /\ \A i \in 1..Len(rs) : rs[i].pub =>
           /\ i \in 1..Len(new) /\ new[i].pub /\ new[i].pids = rs[i].pids
           /\ WordsOf(rs[i]) \subseteq WordsOf(new[i])
    /\ \A i \in 1..Len(rs) : \A w \in WordsOf(rs[i]) :
           \E j \in 1..Len(new) : w \in WordsOf(new[j])

\* What follows on what follows.
LEMMA FollowsOn ==
    ASSUME NEW a, NEW b, NEW c, Follows(a, b), Follows(b, c)
    PROVE  Follows(a, c)
<1>1. ASSUME NEW i \in 1..Len(c), c[i].pub PROVE i \in 1..Len(a) /\ a[i].pub
    <2>1. i \in 1..Len(b) /\ b[i].pub
        BY <1>1 DEF Follows
    <2> QED
        BY <2>1 DEF Follows
<1>2. ASSUME NEW i \in 1..Len(a), a[i].pub
      PROVE  /\ i \in 1..Len(c) /\ c[i].pub /\ c[i].pids = a[i].pids
             /\ WordsOf(a[i]) \subseteq WordsOf(c[i])
    <2>1. /\ i \in 1..Len(b) /\ b[i].pub /\ b[i].pids = a[i].pids
          /\ WordsOf(a[i]) \subseteq WordsOf(b[i])
        BY <1>2 DEF Follows
    <2>2. /\ i \in 1..Len(c) /\ c[i].pub /\ c[i].pids = b[i].pids
          /\ WordsOf(b[i]) \subseteq WordsOf(c[i])
        BY <2>1 DEF Follows
    <2> QED
        BY <2>1, <2>2
<1>3. ASSUME NEW i \in 1..Len(a), NEW w \in WordsOf(a[i])
      PROVE  \E j \in 1..Len(c) : w \in WordsOf(c[j])
    <2>1. PICK j \in 1..Len(b) : w \in WordsOf(b[j])
        BY DEF Follows
    <2> QED
        BY <2>1 DEF Follows
<1> QED
    BY <1>1, <1>2, <1>3 DEF Follows

\* Rows that each keep their words and their publication, with new rows behind.
LEMMA FollowsEach ==
    ASSUME NEW rs, NEW new, Len(rs) \in Nat, Len(new) \in Nat, Len(rs) <= Len(new),
           \A i \in 1..Len(rs) : /\ new[i].pub = rs[i].pub /\ new[i].pids = rs[i].pids
                                 /\ WordsOf(rs[i]) \subseteq WordsOf(new[i]),
           \A i \in 1..Len(new) : i > Len(rs) => ~new[i].pub
    PROVE  Follows(rs, new)
<1>0. \A i \in 1..Len(rs) : i \in 1..Len(new)
    OBVIOUS
<1>1. ASSUME NEW i \in 1..Len(new), new[i].pub PROVE i \in 1..Len(rs) /\ rs[i].pub
    <2>1. ~(i > Len(rs))
        BY <1>1
    <2>2. i \in 1..Len(rs)
        BY <2>1
    <2> QED
        BY <1>1, <2>2
<1> QED
    BY <1>0, <1>1 DEF Follows

\* Publication in turn goes over to the rows that follow.
LEMMA InTurnOn ==
    ASSUME NEW rs, NEW new, Len(rs) \in Nat, Follows(rs, new), InTurn(rs)
    PROVE  InTurn(new)
<1> SUFFICES ASSUME NEW i \in 1..Len(new), new[i].pub, NEW j \in 1..i PROVE new[j].pub
    BY DEF InTurn
<1>1. i \in 1..Len(rs) /\ rs[i].pub
    BY DEF Follows
<1>2. rs[j].pub /\ j \in 1..Len(rs)
    BY <1>1 DEF InTurn
<1> QED
    BY <1>2 DEF Follows

\* The fields of a row.
LEMMA RowsAre ==
    ASSUME NEW r \in RowSet
    PROVE  /\ r.lo \in Los /\ r.hi \in His /\ r.ids \subseteq Marks /\ r.pids \subseteq Marks
           /\ r.pub \in BOOLEAN /\ r.conf \in BOOLEAN /\ r.req \subseteq (Marks \X Marks)
           /\ r.lo \in Nat \ {0} /\ r.hi \in Nat /\ r.hi <= MaxWord /\ r.lo <= MaxWord + 1
<1>1. /\ r.lo \in Los /\ r.hi \in His /\ r.ids \subseteq Marks /\ r.pids \subseteq Marks
      /\ r.pub \in BOOLEAN /\ r.conf \in BOOLEAN /\ r.req \subseteq (Marks \X Marks)
    BY DEF RowSet
<1>2. MaxWord \in Nat
    BY Constants
<1> QED
    BY <1>1, <1>2 DEF Los, His

\* Bounds of where texts begin and end.
LEMMA LosAre ==
    /\ \A x : x \in Los <=> x \in Nat /\ 1 <= x /\ x <= MaxWord + 1
    /\ \A x : x \in His <=> x \in Nat /\ x <= MaxWord
    /\ \A x : x \in Word <=> x \in Nat /\ 1 <= x /\ x <= MaxWord
    /\ MaxWord \in Nat
BY Constants DEF Los, His, Word

\* The marks of the words of a unit.
LEMMA SpanIs ==
    ASSUME NEW u \in Units, NEW t, NEW b \in [Word -> Nat]
    PROVE  /\ Span(u, t, b) \subseteq Marks
           /\ \A p \in Span(u, t, b) : p[1] \in WordsOf(u) /\ p = <<p[1], b[p[1]]>>
           /\ Span(u, t, b) # {} => /\ u.lo <= u.hi /\ Within(u, t)
                                    /\ \A w \in WordsOf(u) : <<w, b[w]>> \in Span(u, t, b)
<1>1. u.lo \in Nat /\ u.hi \in Nat /\ 1 <= u.lo /\ u.hi <= MaxWord
    BY LosAre DEF Units
<1>2. WordsOf(u) \subseteq Word
    <2>1. \A w \in u.lo..u.hi : w \in Word
        BY <1>1, LosAre
    <2> QED
        BY <2>1 DEF WordsOf
<1>3. \A w \in WordsOf(u) : <<w, b[w]>> \in Marks
    BY <1>2 DEF Marks
<1>4. CASE Empty(u) \/ ~Within(u, t)
    BY <1>4 DEF Span
<1>5. CASE ~(Empty(u) \/ ~Within(u, t))
    <2>1. Span(u, t, b) = {<<w, b[w]>> : w \in WordsOf(u)}
        BY <1>5 DEF Span
    <2>2. ~(u.hi < u.lo) /\ Within(u, t)
        BY <1>5 DEF Empty
    <2>3. u.lo <= u.hi
        BY <2>2, <1>1
    <2>4. ASSUME NEW p \in Span(u, t, b)
          PROVE  p \in Marks /\ p[1] \in WordsOf(u) /\ p = <<p[1], b[p[1]]>>
        <3>1. PICK w \in WordsOf(u) : p = <<w, b[w]>>
            BY <2>1
        <3> QED
            BY <3>1, <1>3
    <2> QED
        BY <2>1, <2>2, <2>3, <2>4
<1> QED
    BY <1>4, <1>5

\* A row bound to a unit.
LEMMA BoundIs ==
    ASSUME NEW u \in Units, NEW t, NEW b \in [Word -> Nat], NEW r,
           r.lo = u.lo, r.hi = u.hi, r.ids = Span(u, t, b)
    PROVE  Bound(r)
<1>1. WordsOf(r) = WordsOf(u)
    BY DEF WordsOf
<1>2. \A p \in r.ids : p[1] \in WordsOf(u)
    BY SpanIs
<1>3. CASE r.ids # {}
    <2>1. /\ u.lo <= u.hi /\ \A w \in WordsOf(u) : <<w, b[w]>> \in r.ids
        BY <1>3, SpanIs
    <2>2. \A w \in WordsOf(u) : \E p \in r.ids : p[1] = w
        <3> TAKE w \in WordsOf(u)
        <3>1. <<w, b[w]>> \in r.ids /\ <<w, b[w]>>[1] = w
            BY <2>1
        <3> QED
            BY <3>1
    <2> QED
        BY <1>1, <1>2, <2>1, <2>2 DEF Bound
<1> QED
    BY <1>3 DEF Bound

-------------------------------------------------------------------------------
(* The confirmation that is withdrawn, and the one that is given. *)

\* Only the confirmation of a row changes.
Recast(r, c) == [r EXCEPT !.conf = c]

\* Such a row has the same words and the same publication.
LEMMA RecastIs ==
    ASSUME NEW r \in RowSet, NEW c \in BOOLEAN
    PROVE  /\ Recast(r, c) \in RowSet
           /\ Recast(r, c).lo = r.lo /\ Recast(r, c).hi = r.hi /\ Recast(r, c).ids = r.ids
           /\ Recast(r, c).pids = r.pids /\ Recast(r, c).pub = r.pub
           /\ Recast(r, c).conf = c /\ WordsOf(Recast(r, c)) = WordsOf(r)
           /\ Bound(Recast(r, c)) <=> Bound(r)
<1>1. /\ Recast(r, c) \in RowSet
      /\ Recast(r, c).lo = r.lo /\ Recast(r, c).hi = r.hi /\ Recast(r, c).ids = r.ids
      /\ Recast(r, c).pids = r.pids /\ Recast(r, c).pub = r.pub /\ Recast(r, c).conf = c
    BY DEF Recast, RowSet
<1>2. WordsOf(Recast(r, c)) = WordsOf(r)
    BY <1>1 DEF WordsOf
<1> QED
    BY <1>1, <1>2 DEF Bound

\* Rows of which only confirmations change.
LEMMA RecastRows ==
    ASSUME NEW rs, Sound(rs), NEW new,
           new = [i \in DOMAIN rs |-> new[i]],
           \A i \in 1..Len(rs) : \E c \in BOOLEAN : new[i] = Recast(rs[i], c)
    PROVE  Sound(new) /\ Follows(rs, new) /\ Len(new) = Len(rs)
<1>1. rs \in Seq(RowSet) /\ (\A i \in 1..Len(rs) : Bound(rs[i])) /\ InTurn(rs)
    BY DEF Sound
<1>2. DOMAIN rs = 1..Len(rs) /\ Len(rs) \in Nat
    BY <1>1, LenProperties
<1>3. \A i \in 1..Len(rs) : rs[i] \in RowSet
    BY <1>1, <1>2, ElementOfSeq
<1>4. ASSUME NEW i \in 1..Len(rs)
      PROVE  /\ new[i] \in RowSet /\ Bound(new[i]) /\ new[i].pub = rs[i].pub
             /\ new[i].pids = rs[i].pids /\ WordsOf(rs[i]) \subseteq WordsOf(new[i])
    <2>1. PICK c \in BOOLEAN : new[i] = Recast(rs[i], c)
        OBVIOUS
    <2>2. rs[i] \in RowSet /\ Bound(rs[i])
        BY <1>1, <1>3
    <2>3. PICK r \in RowSet : r = rs[i]
        BY <2>2
    <2>4. /\ Recast(r, c) \in RowSet /\ Bound(Recast(r, c)) /\ Recast(r, c).pub = r.pub
          /\ Recast(r, c).pids = r.pids /\ WordsOf(Recast(r, c)) = WordsOf(r)
        BY <2>2, <2>3, RecastIs
    <2> QED
        BY <2>1, <2>3, <2>4
<1>5. new \in [1..Len(rs) -> RowSet]
    BY <1>2, <1>4
<1>6. new \in Seq(RowSet) /\ Len(new) = Len(rs)
    BY <1>2, <1>5, SeqDef, LenProperties, IsASeq
<1>7. \A i \in 1..Len(new) : i > Len(rs) => ~new[i].pub
    BY <1>2, <1>6
<1>8. Follows(rs, new)
    <2>1. Len(rs) \in Nat /\ Len(new) \in Nat /\ Len(rs) <= Len(new)
        BY <1>2, <1>6
    <2>2. \A i \in 1..Len(rs) : /\ new[i].pub = rs[i].pub /\ new[i].pids = rs[i].pids
                                 /\ WordsOf(rs[i]) \subseteq WordsOf(new[i])
        BY <1>4
    <2> QED
        BY <2>1, <2>2, <1>7, FollowsEach
<1>9. InTurn(new)
    BY <1>1, <1>2, <1>8, InTurnOn
<1> QED
    BY <1>4, <1>6, <1>8, <1>9 DEF Sound

\* A row keeps its confirmation only if it is a unit of the text.
LEMMA RevokedIs ==
    ASSUME Sound(rows), NEW us \in Seq(Units), NEW t, NEW b, NEW rs, rs = Revoked(us, t, b)
    PROVE  Sound(rs) /\ Follows(rows, rs) /\ Backed(rs, us, t, b) /\ Len(rs) = Len(rows)
<1>1. rows \in Seq(RowSet)
    BY DEF Sound
<1>2. DOMAIN rows = 1..Len(rows) /\ DOMAIN us = 1..Len(us)
    BY <1>1, LenProperties
<1>3. \A i \in 1..Len(rows) : rows[i] \in RowSet
    BY <1>1, <1>2, ElementOfSeq
<1>4. rs = [i \in 1..Len(rows) |->
              IF i > base /\ ~rows[i].pub /\ ~IsCurrent(rows[i], us, t, b)
              THEN Recast(rows[i], FALSE) ELSE rows[i]]
    BY <1>2 DEF Revoked, Recast
<1>5. ASSUME NEW i \in 1..Len(rows) PROVE \E c \in BOOLEAN : rs[i] = Recast(rows[i], c)
    <2>1. rows[i] = Recast(rows[i], rows[i].conf) /\ rows[i].conf \in BOOLEAN
        BY <1>3 DEF Recast, RowSet
    <2> QED
        BY <1>4, <2>1
<1>6. rs = [i \in DOMAIN rows |-> rs[i]]
    BY <1>2, <1>4
<1>7. Sound(rs) /\ Follows(rows, rs) /\ Len(rs) = Len(rows)
    BY <1>5, <1>6, RecastRows
<1>8. ASSUME NEW i \in 1..Len(rs), i > base, rs[i].conf, ~rs[i].pub
      PROVE  \E k \in 1..Len(us) : Span(us[k], t, b) = rs[i].ids
    <2>1. i \in 1..Len(rows)
        BY <1>7
    <2>2. PICK r \in RowSet : r = rows[i]
        BY <1>3, <2>1
    <2>3. Recast(r, FALSE).conf = FALSE /\ Recast(r, FALSE).pub = r.pub
        BY RecastIs
    <2>4. IsCurrent(rows[i], us, t, b) /\ rs[i] = rows[i]
        BY <1>4, <1>8, <2>1, <2>2, <2>3
    <2> QED
        BY <1>2, <2>4 DEF IsCurrent
<1> QED
    BY <1>7, <1>8 DEF Backed

\* The evidence is about units of the text.
LEMMA ObservedIs ==
    ASSUME NEW us \in Seq(Units), NEW t, NEW b, NEW raw, NEW fresh,
           NEW s \in DOMAIN Observed(us, t, b, raw, fresh)
    PROVE  \E k \in 1..Len(us) : Span(us[k], t, b) = s
<1>1. DOMAIN us = 1..Len(us)
    BY LenProperties
<1>2. s \in {Span(us[k], t, b) : k \in {k \in DOMAIN us : us[k].hi >= RawStart(t, raw)}}
    BY DEF Observed
<1> QED
    BY <1>1, <1>2

\* A row is confirmed on evidence of a unit of the text.
LEMMA ConfirmedIs ==
    ASSUME NEW rs, Sound(rs), NEW us \in Seq(Units), NEW t, NEW b, Backed(rs, us, t, b),
           NEW ev, \A s \in DOMAIN ev : \E k \in 1..Len(us) : Span(us[k], t, b) = s,
           NEW new, new = Confirmed(rs, t, b, ev)
    PROVE  Sound(new) /\ Follows(rs, new) /\ Backed(new, us, t, b) /\ Len(new) = Len(rs)
<1>1. rs \in Seq(RowSet)
    BY DEF Sound
<1>2. DOMAIN rs = 1..Len(rs)
    BY <1>1, LenProperties
<1>3. \A i \in 1..Len(rs) : rs[i] \in RowSet
    BY <1>1, <1>2, ElementOfSeq
<1>4. new = [i \in 1..Len(rs) |-> IF ~rs[i].pub /\ Ready(rs[i], t, b, ev)
                                   THEN Recast(rs[i], TRUE) ELSE rs[i]]
    BY <1>2 DEF Confirmed, Recast
<1>5. ASSUME NEW i \in 1..Len(rs) PROVE \E c \in BOOLEAN : new[i] = Recast(rs[i], c)
    <2>1. rs[i] = Recast(rs[i], rs[i].conf) /\ rs[i].conf \in BOOLEAN
        BY <1>3 DEF Recast, RowSet
    <2> QED
        BY <1>4, <2>1
<1>6. new = [i \in DOMAIN rs |-> new[i]]
    BY <1>2, <1>4
<1>7. Sound(new) /\ Follows(rs, new) /\ Len(new) = Len(rs)
    BY <1>5, <1>6, RecastRows
<1>8. ASSUME NEW i \in 1..Len(new), i > base, new[i].conf, ~new[i].pub
      PROVE  \E k \in 1..Len(us) : Span(us[k], t, b) = new[i].ids
    <2>1. i \in 1..Len(rs)
        BY <1>7
    <2>2. PICK r \in RowSet : r = rs[i]
        BY <1>3, <2>1
    <2>3. Recast(r, TRUE).ids = r.ids
        BY RecastIs
    <2>4. CASE ~rs[i].pub /\ Ready(rs[i], t, b, ev)
        <3>1. rs[i].ids \in DOMAIN ev /\ new[i] = Recast(rs[i], TRUE)
            BY <2>1, <2>4, <1>4 DEF Ready
        <3> QED
            BY <3>1, <2>2, <2>3
    <2>5. CASE ~(~rs[i].pub /\ Ready(rs[i], t, b, ev))
        <3>1. new[i] = rs[i]
            BY <1>4, <2>1, <2>5
        <3> QED
            BY <3>1, <2>1, <1>8 DEF Backed
    <2> QED
        BY <2>4, <2>5
<1> QED
    BY <1>7, <1>8 DEF Backed

-------------------------------------------------------------------------------
(* Rows that become one. *)

\* Units in the order of the text, that share no word.
Apart(us) == \A j, k \in 1..Len(us) : j < k => us[j].hi < us[k].lo

\* The cursor's rows are rows.
Aims(cs, n) == cs \in Seq(Cursors) /\ \A k \in 1..Len(cs) : cs[k].row <= n

\* The rows of a unit.
Over(k, us, t, b, rs) == Overlapping(Span(us[k], t, b), rs)
First(k, us, t, b, rs) == Owner(Span(us[k], t, b), rs)

\* What a sequence consists of.
LEMMA Members ==
    ASSUME NEW R, NEW s \in Seq(R)
    PROVE  /\ Len(s) \in Nat /\ DOMAIN s = 1..Len(s)
           /\ \A i \in 1..Len(s) : s[i] \in R
<1>1. Len(s) \in Nat /\ DOMAIN s = 1..Len(s)
    BY LenProperties
<1> QED
    BY <1>1, ElementOfSeq

\* The rows that one merge takes: none is published or of an earlier segment,
\* and the unit has all of their identities and words.
LEMMA MergeIs ==
    ASSUME NEW rs, Sound(rs), NEW us \in Seq(Units), NEW t, NEW b \in [Word -> Nat],
           NEW k \in Merges(us, t, b, rs)
    PROVE  /\ k \in 1..Len(us) /\ Span(us[k], t, b) # {}
           /\ First(k, us, t, b, rs) \in Over(k, us, t, b, rs)
           /\ \A i \in Over(k, us, t, b, rs) :
                 /\ i \in 1..Len(rs) /\ i > base /\ ~rs[i].pub
                 /\ rs[i].ids # {} /\ rs[i].ids \subseteq Span(us[k], t, b)
                 /\ rs[i].ids \cap Span(us[k], t, b) # {}
                 /\ rs[i].lo \in Word /\ rs[i].hi \in Word
                 /\ WordsOf(rs[i]) \subseteq WordsOf(us[k])
<1>0. rs \in Seq(RowSet) /\ \A i \in 1..Len(rs) : Bound(rs[i])
    BY DEF Sound
<1>1. /\ DOMAIN us = 1..Len(us) /\ Len(us) \in Nat /\ DOMAIN rs = 1..Len(rs) /\ Len(rs) \in Nat
      /\ \A i \in 1..Len(rs) : rs[i] \in RowSet
      /\ \A i \in 1..Len(us) : us[i] \in Units
    BY <1>0, Members
<1>2. PICK over : over = Over(k, us, t, b, rs)
    OBVIOUS
<1>3. PICK S : S = Span(us[k], t, b)
    OBVIOUS
<1>4. over = {i \in 1..Len(rs) : rs[i].ids \cap S # {}}
    BY <1>1, <1>2, <1>3 DEF Over, Overlapping
<1>5. k \in 1..Len(us) /\ Merge(us[k], S, rs)
    BY <1>1, <1>3 DEF Merges
<1>6. over = Overlapping(S, rs)
    BY <1>2, <1>3 DEF Over
<1>7. /\ S # {} /\ Cardinality(over) > 1
      /\ \A i \in over : i > base /\ ~rs[i].pub
      /\ UNION {rs[i].ids : i \in over} = S
    BY <1>5, <1>6 DEF Merge
<1>8. over # {}
    <2>1. Cardinality({}) = 0
        BY FS_EmptySet
    <2> QED
        BY <1>7, <2>1
<1>9. Places(over, Len(rs))
    BY <1>1, <1>4 DEF Places
<1>10. First(k, us, t, b, rs) \in over
    <2>1. Nth(over, 1) \in over
        BY <1>8, <1>9, FirstIs
    <2>2. First(k, us, t, b, rs) = Nth(over, 1)
        BY <1>3, <1>6 DEF First, Owner
    <2> QED
        BY <2>1, <2>2
<1>11. ASSUME NEW i \in over
       PROVE  /\ i \in 1..Len(rs) /\ i > base /\ ~rs[i].pub
              /\ rs[i].ids # {} /\ rs[i].ids \subseteq S /\ rs[i].ids \cap S # {}
              /\ rs[i].lo \in Word /\ rs[i].hi \in Word
              /\ WordsOf(rs[i]) \subseteq WordsOf(us[k])
    <2>1. i \in 1..Len(rs) /\ rs[i].ids \cap S # {}
        BY <1>4
    <2>2. i > base /\ ~rs[i].pub
        BY <1>7
    <2>3. rs[i].ids # {} /\ rs[i].ids \subseteq S
        BY <1>7, <2>1
    <2>4. us[k] \in Units
        BY <1>1, <1>5
    <2>5. \A p \in S : p[1] \in WordsOf(us[k])
        BY <1>3, <2>4, SpanIs
    <2>6. rs[i].lo <= rs[i].hi /\ \A w \in WordsOf(rs[i]) : \E p \in rs[i].ids : p[1] = w
        BY <1>0, <2>1, <2>3 DEF Bound
    <2>7. WordsOf(rs[i]) \subseteq WordsOf(us[k])
        BY <2>3, <2>5, <2>6
    <2>8. rs[i].lo \in Nat \ {0} /\ rs[i].hi \in Nat /\ rs[i].hi <= MaxWord
        BY <1>1, <2>1, RowsAre
    <2>9. rs[i].lo \in Word /\ rs[i].hi \in Word
        <3>1. PICK x \in Nat \ {0}, y \in Nat : x = rs[i].lo /\ y = rs[i].hi
            BY <2>8
        <3>2. x <= y /\ y <= MaxWord /\ MaxWord \in Nat
            BY <2>6, <2>8, <3>1, LosAre
        <3>3. 1 <= x /\ x <= MaxWord /\ 1 <= y
            BY <3>2
        <3> QED
            BY <3>1, <3>2, <3>3, LosAre
    <2> QED
        BY <2>1, <2>2, <2>3, <2>7, <2>9
<1> QED
    BY <1>2, <1>3, <1>5, <1>7, <1>10, <1>11

\* Different merges take different rows.
LEMMA MergesApart ==
    ASSUME NEW rs, Sound(rs), NEW us \in Seq(Units), Apart(us), NEW t, NEW b \in [Word -> Nat],
           NEW k \in Merges(us, t, b, rs), NEW l \in Merges(us, t, b, rs),
           NEW i \in Over(k, us, t, b, rs), i \in Over(l, us, t, b, rs)
    PROVE  k = l
<1>1. PICK S, T : S = Span(us[k], t, b) /\ T = Span(us[l], t, b)
    OBVIOUS
<1>2. k \in 1..Len(us) /\ rs[i].ids # {} /\ rs[i].ids \subseteq S
    BY <1>1, MergeIs
<1>3. l \in 1..Len(us) /\ rs[i].ids \cap T # {}
    BY <1>1, MergeIs
<1>4. PICK p : p \in S /\ p \in T
    BY <1>2, <1>3
<1>5. us[k] \in Units /\ us[l] \in Units
    BY <1>2, <1>3, Members
<1>6. p[1] \in WordsOf(us[k]) /\ p[1] \in WordsOf(us[l])
    BY <1>1, <1>4, <1>5, SpanIs
<1>7. PICK x \in Nat, y \in Nat, v \in Nat, z \in Nat :
          x = us[k].lo /\ y = us[k].hi /\ v = us[l].lo /\ z = us[l].hi
    BY <1>5, LosAre DEF Units
<1>8. p[1] \in x..y /\ p[1] \in v..z
    BY <1>6, <1>7 DEF WordsOf
<1>9. x <= z /\ v <= y
    BY <1>8
<1>10. ~(k < l) /\ ~(l < k)
    BY <1>2, <1>3, <1>7, <1>9 DEF Apart
<1>11. k \in Int /\ l \in Int
    BY <1>2, <1>3
<1> QED
    BY <1>10, <1>11

\* The row that takes the others stays, the others go.
LEMMA AbsorbedIs ==
    ASSUME NEW rs, Sound(rs), NEW us \in Seq(Units), Apart(us), NEW t, NEW b \in [Word -> Nat],
           NEW ks, ks = Merges(us, t, b, rs), NEW gone, gone = Absorbed(ks, us, t, b, rs)
    PROVE  /\ gone \subseteq 1..Len(rs)
           /\ \A i \in gone : i > base /\ ~rs[i].pub
           /\ \A k \in ks : First(k, us, t, b, rs) \notin gone
           /\ \A k \in ks : \A i \in Over(k, us, t, b, rs) :
                 i \in gone \/ i = First(k, us, t, b, rs)
           /\ \A i \in gone : \E k \in ks : i \in Over(k, us, t, b, rs)
<1>1. gone = UNION {Over(k, us, t, b, rs) \ {First(k, us, t, b, rs)} : k \in ks}
    BY DEF Absorbed, Over, First
<1>2. ASSUME NEW i \in gone
      PROVE  \E k \in ks : i \in Over(k, us, t, b, rs) /\ i # First(k, us, t, b, rs)
    BY <1>1
<1>3. ASSUME NEW i \in gone PROVE i \in 1..Len(rs) /\ i > base /\ ~rs[i].pub
    <2>1. PICK k \in Merges(us, t, b, rs) : i \in Over(k, us, t, b, rs)
        BY <1>2
    <2> QED
        BY <2>1, MergeIs
<1>4. ASSUME NEW k \in ks, First(k, us, t, b, rs) \in gone PROVE FALSE
    <2>1. PICK l \in ks : /\ First(k, us, t, b, rs) \in Over(l, us, t, b, rs)
                          /\ First(k, us, t, b, rs) # First(l, us, t, b, rs)
        BY <1>2, <1>4
    <2>2. First(k, us, t, b, rs) \in Over(k, us, t, b, rs)
        BY MergeIs
    <2>3. k = l
        BY <2>1, <2>2, MergesApart
    <2> QED
        BY <2>1, <2>3
<1>5. ASSUME NEW k \in ks, NEW i \in Over(k, us, t, b, rs)
      PROVE  i \in gone \/ i = First(k, us, t, b, rs)
    BY <1>1
<1> QED
    BY <1>2, <1>3, <1>4, <1>5

-------------------------------------------------------------------------------
(* What a merge leaves. *)

\* The merges that begin at a row, and the row after them.
Begin(i, ks, us, t, b, rs) == {k \in ks : First(k, us, t, b, rs) = i}
Taken(i, k, us, t, b, rs) == Over(k, us, t, b, rs) \ {i}
Joint(r, u, span, req) ==
    [r EXCEPT !.lo = u.lo, !.hi = u.hi, !.ids = span, !.conf = FALSE, !.req = @ \cup req]
RowAfter(i, ks, us, t, b, rs) ==
    IF Begin(i, ks, us, t, b, rs) = {} THEN rs[i]
    ELSE LET k == CHOOSE k \in Begin(i, ks, us, t, b, rs) : TRUE
         IN  Joint(rs[i], us[k], Span(us[k], t, b),
                   {Ends(rs[j], b) : j \in Taken(i, k, us, t, b, rs)})
RowsAfter(ks, us, t, b, rs) == [i \in DOMAIN rs |-> RowAfter(i, ks, us, t, b, rs)]
Shorter(gone) == Keep(cand, {c \in DOMAIN cand : cand[c].row \in gone})
Ahead(i, gone) == i - Cardinality({a \in gone : a < i})

\* The rows that stay.
Remaining(rs, gone) == (1..Len(rs)) \ gone

\* The fields of a row that took others.
LEMMA JointIs ==
    ASSUME NEW r \in RowSet, NEW u \in Units, NEW span \in SUBSET Marks,
           NEW req \in SUBSET (Marks \X Marks)
    PROVE  /\ Joint(r, u, span, req) \in RowSet
           /\ Joint(r, u, span, req).lo = u.lo /\ Joint(r, u, span, req).hi = u.hi
           /\ Joint(r, u, span, req).ids = span /\ Joint(r, u, span, req).conf = FALSE
           /\ Joint(r, u, span, req).pub = r.pub /\ Joint(r, u, span, req).pids = r.pids
BY DEF Joint, RowSet, Units

\* A row after the merges has at least its words, and is unconfirmed if it changed.
LEMMA RowAfterIs ==
    ASSUME NEW rs, Sound(rs), NEW us \in Seq(Units), Apart(us), NEW t, NEW b \in [Word -> Nat],
           NEW ks, ks = Merges(us, t, b, rs), NEW i \in 1..Len(rs),
           NEW new, new = RowAfter(i, ks, us, t, b, rs)
    PROVE  /\ new \in RowSet /\ Bound(new) /\ new.pub = rs[i].pub /\ new.pids = rs[i].pids
           /\ new.conf => new = rs[i]
           /\ rs[i].pub => new = rs[i]
           /\ WordsOf(rs[i]) \subseteq WordsOf(new)
           /\ \A k \in ks : i = First(k, us, t, b, rs) => new.lo = us[k].lo /\ new.hi = us[k].hi
<1>1. rs \in Seq(RowSet) /\ Bound(rs[i])
    BY DEF Sound
<1>2. rs[i] \in RowSet
    BY <1>1, Members
<1>3. CASE Begin(i, ks, us, t, b, rs) = {}
    <2>1. new = rs[i]
        BY <1>3 DEF RowAfter
    <2>2. \A k \in ks : i # First(k, us, t, b, rs)
        BY <1>3 DEF Begin
    <2> QED
        BY <1>1, <1>2, <2>1, <2>2
<1>4. CASE Begin(i, ks, us, t, b, rs) # {}
    <2>1. PICK k \in Begin(i, ks, us, t, b, rs) :
              new = Joint(rs[i], us[k], Span(us[k], t, b),
                          {Ends(rs[j], b) : j \in Taken(i, k, us, t, b, rs)})
        BY <1>4 DEF RowAfter
    <2>2. k \in ks /\ First(k, us, t, b, rs) = i
        BY DEF Begin
    <2>3. k \in Merges(us, t, b, rs)
        BY <2>2
    <2>4. i \in Over(k, us, t, b, rs) /\ k \in 1..Len(us)
        BY <2>2, <2>3, MergeIs
    <2>5. ~rs[i].pub /\ WordsOf(rs[i]) \subseteq WordsOf(us[k])
        BY <2>3, <2>4, MergeIs
    <2>6. us[k] \in Units
        BY <2>4, Members
    <2>7. Span(us[k], t, b) \in SUBSET Marks
        BY <2>6, SpanIs
    <2>8. {Ends(rs[j], b) : j \in Taken(i, k, us, t, b, rs)} \in SUBSET (Marks \X Marks)
        <3>1. ASSUME NEW j \in Taken(i, k, us, t, b, rs) PROVE Ends(rs[j], b) \in Marks \X Marks
            <4>1. j \in Over(k, us, t, b, rs)
                BY DEF Taken
            <4>2. rs[j].lo \in Word /\ rs[j].hi \in Word
                BY <2>3, <4>1, MergeIs
            <4> QED
                BY <4>2 DEF Ends, Marks
        <3> QED
            BY <3>1
    <2>9. /\ new \in RowSet /\ new.lo = us[k].lo /\ new.hi = us[k].hi
          /\ new.ids = Span(us[k], t, b) /\ new.conf = FALSE
          /\ new.pub = rs[i].pub /\ new.pids = rs[i].pids
        <3>1. PICK r \in RowSet, u \in Units, S \in SUBSET Marks, q \in SUBSET (Marks \X Marks) :
                  /\ r = rs[i] /\ u = us[k] /\ S = Span(us[k], t, b)
                  /\ q = {Ends(rs[j], b) : j \in Taken(i, k, us, t, b, rs)}
            BY <1>2, <2>6, <2>7, <2>8
        <3>2. new = Joint(r, u, S, q)
            BY <2>1, <3>1
        <3>3. /\ new \in RowSet /\ new.lo = u.lo /\ new.hi = u.hi /\ new.ids = S
              /\ new.conf = FALSE /\ new.pub = r.pub /\ new.pids = r.pids
            <4>0. /\ r \in RowSet /\ u \in Units
                  /\ S \in SUBSET Marks /\ q \in SUBSET (Marks \X Marks)
                OBVIOUS
            <4>1. /\ Joint(r, u, S, q) \in RowSet
                  /\ Joint(r, u, S, q).lo = u.lo /\ Joint(r, u, S, q).hi = u.hi
                  /\ Joint(r, u, S, q).ids = S /\ Joint(r, u, S, q).conf = FALSE
                  /\ Joint(r, u, S, q).pub = r.pub /\ Joint(r, u, S, q).pids = r.pids
                BY ONLY <4>0, JointIs, ZenonT(30)
            <4> QED
                BY ONLY <3>2, <4>1
        <3> QED
            BY <3>1, <3>3
    <2>10. WordsOf(new) = WordsOf(us[k])
        BY <2>9 DEF WordsOf
    <2>11. Bound(new)
        <3>1. PICK u \in Units : u = us[k]
            BY <2>6
        <3>2. new.lo = u.lo /\ new.hi = u.hi /\ new.ids = Span(u, t, b)
            BY ONLY <2>9, <3>1
        <3>3. b \in [Word -> Nat]
            OBVIOUS
        <3> QED
            BY ONLY <3>1, <3>2, <3>3, BoundIs
    <2>12. ASSUME NEW l \in ks, i = First(l, us, t, b, rs)
           PROVE  new.lo = us[l].lo /\ new.hi = us[l].hi
        <3>1. l \in Merges(us, t, b, rs)
            OBVIOUS
        <3>2. i \in Over(l, us, t, b, rs)
            BY <2>12, <3>1, MergeIs
        <3>3. k = l
            BY <2>3, <2>4, <3>1, <3>2, MergesApart
        <3> QED
            BY <2>9, <3>3
    <2> QED
        BY <2>5, <2>9, <2>10, <2>11, <2>12
<1> QED
    BY <1>3, <1>4

\* The rows after the merges.
LEMMA MergedRows ==
    ASSUME NEW rs, Sound(rs), NEW us \in Seq(Units), Apart(us), NEW t, NEW b \in [Word -> Nat],
           Backed(rs, us, t, b), base \in Nat,
           NEW ks, ks = Merges(us, t, b, rs), NEW gone, gone = Absorbed(ks, us, t, b, rs),
           NEW left, left = Remaining(rs, gone),
           NEW new, new = Keep(RowsAfter(ks, us, t, b, rs), gone)
    PROVE  /\ Sound(new) /\ Follows(rs, new) /\ Backed(new, us, t, b)
           /\ Len(new) = Cardinality(left)
           /\ \A i \in left : Rank(left, i) \in 1..Len(new)
<1>1. rs \in Seq(RowSet) /\ InTurn(rs)
    BY DEF Sound
<1>0. left = (1..Len(rs)) \ gone
    BY DEF Remaining
<1>2. DOMAIN rs = 1..Len(rs) /\ Len(rs) \in Nat /\ \A i \in 1..Len(rs) : rs[i] \in RowSet
    BY <1>1, Members
<1>3. PICK mid : mid = RowsAfter(ks, us, t, b, rs)
    OBVIOUS
<1>4. /\ mid = [i \in 1..Len(rs) |-> RowAfter(i, ks, us, t, b, rs)]
      /\ \A i \in 1..Len(rs) : mid[i] = RowAfter(i, ks, us, t, b, rs)
    BY <1>2, <1>3 DEF RowsAfter
<1>5. ASSUME NEW i \in 1..Len(rs)
      PROVE  /\ mid[i] \in RowSet /\ Bound(mid[i]) /\ mid[i].pub = rs[i].pub
             /\ mid[i].pids = rs[i].pids
             /\ mid[i].conf => mid[i] = rs[i]
             /\ rs[i].pub => mid[i] = rs[i]
             /\ WordsOf(rs[i]) \subseteq WordsOf(mid[i])
             /\ \A k \in ks : i = First(k, us, t, b, rs) =>
                    mid[i].lo = us[k].lo /\ mid[i].hi = us[k].hi
    BY <1>4, RowAfterIs
<1>6. mid \in Seq(RowSet) /\ Len(mid) = Len(rs) /\ DOMAIN mid = 1..Len(rs)
    <2>1. mid \in [1..Len(rs) -> RowSet]
        BY <1>4, <1>5
    <2> QED
        BY <1>2, <2>1, SeqDef, LenProperties, IsASeq
<1>7. left = Stay(mid, gone)
    BY <1>0, <1>6 DEF Stay
<1>8. PICK n \in Nat : n = Cardinality(left)
    <2>1. Places(left, Len(mid))
        BY <1>6, <1>7, StayIs
    <2> QED
        BY <2>1, RankIs
<1>9. /\ new \in Seq(RowSet) /\ Len(new) = n
      /\ \A c \in 1..n :
            /\ Nth(left, c) \in left /\ c <= Nth(left, c) /\ Rank(left, Nth(left, c)) = c
            /\ new[c] = mid[Nth(left, c)]
      /\ \A i \in left : Rank(left, i) \in 1..n /\ new[Rank(left, i)] = mid[i]
    <2>1. new = Keep(mid, gone)
        BY <1>3
    <2>2. mid \in Seq(RowSet)
        BY <1>6
    <2>3. /\ Keep(mid, gone) \in Seq(RowSet) /\ Len(Keep(mid, gone)) = Cardinality(left)
          /\ \A k \in 1..Cardinality(left) :
                 /\ Nth(left, k) \in left /\ Nth(left, k) \in DOMAIN mid /\ k <= Nth(left, k)
                 /\ Rank(left, Nth(left, k)) = k
                 /\ Keep(mid, gone)[k] = mid[Nth(left, k)]
          /\ \A i \in left : /\ Rank(left, i) \in 1..Cardinality(left)
                              /\ Keep(mid, gone)[Rank(left, i)] = mid[i]
        BY ONLY <2>2, <1>7, KeepIs
    <2> QED
        BY ONLY <2>1, <2>3, <1>8
<1>10. /\ gone \subseteq 1..Len(rs)
       /\ \A i \in gone : i > base /\ ~rs[i].pub
       /\ \A k \in ks : First(k, us, t, b, rs) \notin gone
       /\ \A k \in ks : \A i \in Over(k, us, t, b, rs) : i \in gone \/ i = First(k, us, t, b, rs)
       /\ \A i \in gone : \E k \in ks : i \in Over(k, us, t, b, rs)
    BY AbsorbedIs
<1>11. ASSUME NEW i \in 1..Len(rs), rs[i].pub PROVE i \in left /\ Rank(left, i) = i
    <2>1. \A j \in 1..i : rs[j].pub /\ j \in 1..Len(rs)
        BY <1>1, <1>11 DEF InTurn
    <2>2. \A j \in 1..i : j \in left
        BY <2>1, <1>0, <1>10
    <2>3. Places(left, Len(rs))
        BY <1>0, <1>2 DEF Places
    <2>4. i \in Nat /\ i \in 1..i
        OBVIOUS
    <2>5. Rank(left, i) = i
        BY <2>2, <2>3, <2>4, StayBelow
    <2> QED
        BY <2>2, <2>4, <2>5
<1>12. ASSUME NEW c \in 1..n, new[c].pub PROVE c \in 1..Len(rs) /\ rs[c].pub
    <2>1. PICK i \in left : Rank(left, i) = c /\ new[c] = mid[i]
        BY <1>9
    <2>2. rs[i].pub
        BY <1>0, <1>5, <1>12, <2>1
    <2>3. Rank(left, i) = i
        BY <1>0, <1>11, <2>2
    <2> QED
        BY <1>0, <2>1, <2>2, <2>3
<1>13. ASSUME NEW i \in 1..Len(rs), rs[i].pub
       PROVE  /\ i \in 1..n /\ new[i].pub /\ new[i].pids = rs[i].pids
              /\ WordsOf(rs[i]) \subseteq WordsOf(new[i])
    <2>1. i \in left /\ Rank(left, i) = i
        BY <1>11, <1>13
    <2>2. i \in 1..n /\ new[i] = mid[i]
        <3>1. Rank(left, i) \in 1..n /\ new[Rank(left, i)] = mid[i]
            BY <1>9, <2>1
        <3> QED
            BY ONLY <2>1, <3>1
    <2> QED
        BY <1>5, <1>13, <2>2
<1>14. ASSUME NEW i \in 1..Len(rs), NEW w \in WordsOf(rs[i])
       PROVE  \E c \in 1..n : w \in WordsOf(new[c])
    <2>1. CASE i \in left
        <3>1. Rank(left, i) \in 1..n /\ new[Rank(left, i)] = mid[i]
            BY <1>9, <2>1
        <3>2. w \in WordsOf(mid[i])
            BY <1>5
        <3> QED
            BY <3>1, <3>2
    <2>2. CASE i \notin left
        <3>1. i \in gone
            BY <1>0, <2>2
        <3>2. PICK k \in ks : i \in Over(k, us, t, b, rs)
            BY <1>10, <3>1
        <3>3. k \in Merges(us, t, b, rs)
            OBVIOUS
        <3>4. w \in WordsOf(us[k])
            BY <3>2, <3>3, MergeIs
        <3>5. PICK o : o = First(k, us, t, b, rs)
            OBVIOUS
        <3>6. o \in Over(k, us, t, b, rs)
            BY <3>3, <3>5, MergeIs
        <3>7. o \in 1..Len(rs)
            BY <3>3, <3>6, MergeIs
        <3>8. o \in left
            BY <1>0, <1>10, <3>5, <3>7
        <3>9. mid[o].lo = us[k].lo /\ mid[o].hi = us[k].hi
            BY <1>5, <3>5, <3>7
        <3>10. w \in WordsOf(mid[o])
            BY <3>4, <3>9 DEF WordsOf
        <3>11. Rank(left, o) \in 1..n /\ new[Rank(left, o)] = mid[o]
            BY <1>9, <3>8
        <3> QED
            BY <3>10, <3>11
    <2> QED
        BY <2>1, <2>2
<1>15. Follows(rs, new)
    <2>1. Len(new) = n
        BY <1>9
    <2> QED
        BY ONLY <2>1, <1>12, <1>13, <1>14 DEF Follows
<1>16. ASSUME NEW c \in 1..Len(new) PROVE Bound(new[c])
    <2>1. c \in 1..n
        BY <1>9
    <2>2. PICK i \in left : new[c] = mid[i]
        BY <1>9, <2>1
    <2> QED
        BY <1>0, <1>5, <2>2
<1>17. Sound(new)
    BY <1>1, <1>2, <1>9, <1>15, <1>16, InTurnOn DEF Sound
<1>18. ASSUME NEW c \in 1..Len(new), c > base, new[c].conf, ~new[c].pub
       PROVE  \E k \in 1..Len(us) : Span(us[k], t, b) = new[c].ids
    <2>1. c \in 1..n
        BY <1>9
    <2>2. PICK i \in left : c <= i /\ new[c] = mid[i]
        BY <1>9, <2>1
    <2>3. i \in 1..Len(rs) /\ i > base
        BY <1>0, <1>18, <2>1, <2>2
    <2>4. new[c] = rs[i]
        BY <1>5, <1>18, <2>2, <2>3
    <2> QED
        BY <1>18, <2>3, <2>4 DEF Backed
<1> QED
    BY <1>8, <1>9, <1>15, <1>17, <1>18 DEF Backed

\* The marks that stand for a consumed position after the merges.
Stands(c, ks, us, t, b, rs) ==
    LET mine == {k \in ks : Owner(Span(us[k], t, b), rs) = c.row}
    IN  IF c.row = 0 THEN {}
        ELSE IF mine = {} THEN rs[c.row].ids
        ELSE Span(us[CHOOSE k \in mine : TRUE], t, b)

\* The parts of what the merges leave.
NextCursor(kept, gone) ==
    [c \in DOMAIN Shorter(gone) |->
        LET i == Ahead(Shorter(gone)[c].row, gone)
        IN  [lo |-> kept[i].lo, hi |-> kept[i].hi, row |-> i]]
Reduced(ks, us, t, b, rs) == Keep(RowsAfter(ks, us, t, b, rs), Absorbed(ks, us, t, b, rs))

\* What the merges leave consists of these.
LEMMA MergedParts ==
    ASSUME NEW ks, NEW us, NEW t, NEW b, NEW rs
    PROVE  /\ Merged(ks, us, t, b, rs).rows = Reduced(ks, us, t, b, rs)
           /\ Merged(ks, us, t, b, rs).cand
                = NextCursor(Reduced(ks, us, t, b, rs), Absorbed(ks, us, t, b, rs))
BY DEF Merged, RowsAfter, RowAfter, Begin, First, Joint, Taken, Over, Shorter, Ahead, Reduced,
       NextCursor

\* The cursor after the merges: every position that stays has a row of its own.
LEMMA MergedCursor ==
    ASSUME NEW rs, Sound(rs), NEW us \in Seq(Units), Apart(us), NEW t, NEW b \in [Word -> Nat],
           NEW ks, ks = Merges(us, t, b, rs), PrefixHolds(ks, us, t, b, rs),
           Aims(cand, Len(rs)),
           NEW gone, gone = Absorbed(ks, us, t, b, rs),
           NEW left, left = Remaining(rs, gone),
           NEW kept \in Seq(RowSet), Len(kept) = Cardinality(left),
           \A i \in left : Rank(left, i) \in 1..Len(kept),
           NEW cs, cs = NextCursor(kept, gone)
    PROVE  Aims(cs, Len(kept))
<1>1. cand \in Seq(Cursors) /\ \A k \in 1..Len(cand) : cand[k].row <= Len(rs)
    BY DEF Aims
<1>2. PICK over : over = {c \in DOMAIN cand : cand[c].row \in gone}
    OBVIOUS
<1>3. PICK s : s = Shorter(gone)
    OBVIOUS
<1>4. s = Keep(cand, over)
    BY <1>2, <1>3 DEF Shorter
<1>5. PICK stay : stay = Stay(cand, over)
    OBVIOUS
<1>6. /\ s \in Seq(Cursors) /\ Len(s) = Cardinality(stay)
      /\ \A c \in 1..Cardinality(stay) :
            Nth(stay, c) \in stay /\ Nth(stay, c) \in DOMAIN cand /\ s[c] = cand[Nth(stay, c)]
    BY <1>1, <1>4, <1>5, KeepIs
<1>7. PICK n \in Nat : n = Len(s) /\ n = Cardinality(stay) /\ DOMAIN s = 1..n
    BY <1>6, LenProperties
<1>8. ASSUME NEW c \in 1..n PROVE s[c].row # 0
    <2>1. \A d \in DOMAIN Shorter(Absorbed(ks, us, t, b, rs)) :
              Stands(Shorter(Absorbed(ks, us, t, b, rs))[d], ks, us, t, b, rs) # {}
        BY DEF PrefixHolds, Shorter, Stands
    <2>2. Stands(s[c], ks, us, t, b, rs) # {}
        BY <1>3, <1>7, <2>1
    <2> QED
        BY <2>2 DEF Stands
<1>9. ASSUME NEW c \in 1..n
      PROVE  /\ s[c].row \in left
             /\ Ahead(s[c].row, gone) = Rank(left, s[c].row)
    <2>1. PICK d \in stay : d \in DOMAIN cand /\ s[c] = cand[d]
        BY <1>6, <1>7
    <2>2. DOMAIN cand = 1..Len(cand) /\ cand[d] \in Cursors /\ cand[d].row <= Len(rs)
        BY <1>1, <2>1, Members
    <2>3. d \notin over
        BY <1>5 DEF Stay
    <2>4. s[c].row \notin gone
        BY <1>2, <2>1, <2>3
    <2>5. PICK i \in Nat : i = s[c].row
        BY <2>1, <2>2 DEF Cursors
    <2>6. i # 0 /\ i <= Len(rs)
        BY <1>8, <2>1, <2>2, <2>5
    <2>7. Len(rs) \in Nat
        BY Members DEF Sound
    <2>0. left = (1..Len(rs)) \ gone
        BY DEF Remaining
    <2>8. i \in (1..Len(rs)) \ gone
        BY <2>4, <2>5, <2>6, <2>7
    <2>9. gone \subseteq 1..Len(rs)
        BY AbsorbedIs
    <2>10. i - Cardinality({a \in gone : a < i}) = Rank((1..Len(rs)) \ gone, i)
        BY <2>7, <2>8, <2>9, StayRank
    <2> QED
        BY <2>0, <2>5, <2>8, <2>10 DEF Ahead
<1>10. cs = [c \in 1..n |-> LET i == Ahead(s[c].row, gone)
                            IN  [lo |-> kept[i].lo, hi |-> kept[i].hi, row |-> i]]
    BY <1>3, <1>7 DEF NextCursor
<1>11. ASSUME NEW c \in 1..n PROVE cs[c] \in Cursors /\ cs[c].row <= Len(kept)
    <2>1. PICK i : i = Ahead(s[c].row, gone)
        OBVIOUS
    <2>2. cs[c] = [lo |-> kept[i].lo, hi |-> kept[i].hi, row |-> i]
        BY <1>10, <2>1
    <2>3. i \in 1..Len(kept)
        <3>1. s[c].row \in left /\ i = Rank(left, s[c].row)
            BY <1>9, <2>1
        <3>2. Rank(left, s[c].row) \in 1..Len(kept)
            BY <3>1
        <3> QED
            BY <3>1, <3>2
    <2>4. kept[i] \in RowSet
        BY <2>3, Members
    <2>5. Len(kept) \in Nat
        BY Members
    <2>6. i \in Nat /\ i <= Len(kept)
        BY <2>3, <2>5
    <2>7. kept[i].lo \in Los /\ kept[i].hi \in His
        BY <2>4, RowsAre
    <2>8. PICK x \in Los, y \in His : x = kept[i].lo /\ y = kept[i].hi
        BY <2>7
    <2>9. cs[c] = [lo |-> x, hi |-> y, row |-> i]
        BY <2>2, <2>8
    <2>10. [lo |-> x, hi |-> y, row |-> i] \in Cursors
        BY <2>6 DEF Cursors
    <2>11. cs[c].row = i
        BY <2>9
    <2> QED
        BY <2>6, <2>9, <2>10, <2>11
<1>12. cs \in Seq(Cursors) /\ Len(cs) = n
    <2>1. cs \in [1..n -> Cursors]
        BY <1>10, <1>11
    <2> QED
        BY <2>1, SeqOf
<1> QED
    BY <1>11, <1>12 DEF Aims

\* Whether rows are merged or not.
LEMMA ReconcileIs ==
    ASSUME NEW rs, Sound(rs), NEW us \in Seq(Units), Apart(us), NEW t, NEW b \in [Word -> Nat],
           Backed(rs, us, t, b), base \in Nat, Aims(cand, Len(rs)),
           NEW R, R = Reconcile(us, t, b, rs)
    PROVE  /\ Sound(R.rows) /\ Follows(rs, R.rows) /\ Backed(R.rows, us, t, b)
           /\ Aims(R.cand, Len(R.rows))
<1>1. PICK ks : ks = Merges(us, t, b, rs)
    OBVIOUS
<1>2. CASE ks # {} /\ PrefixHolds(ks, us, t, b, rs)
    <2>1. R = Merged(ks, us, t, b, rs)
        BY <1>1, <1>2 DEF Reconcile
    <2>2. PICK gone : gone = Absorbed(ks, us, t, b, rs)
        OBVIOUS
    <2>3. PICK left : left = Remaining(rs, gone)
        OBVIOUS
    <2>4. PICK kept : kept = Reduced(ks, us, t, b, rs)
        OBVIOUS
    <2>5. kept = Keep(RowsAfter(ks, us, t, b, rs), gone)
        BY <2>2, <2>4 DEF Reduced
    <2>6. /\ Sound(kept) /\ Follows(rs, kept) /\ Backed(kept, us, t, b)
          /\ Len(kept) = Cardinality(left)
          /\ \A i \in left : Rank(left, i) \in 1..Len(kept)
        <3>1. /\ Sound(rs) /\ us \in Seq(Units) /\ Apart(us) /\ b \in [Word -> Nat]
              /\ Backed(rs, us, t, b) /\ base \in Nat
            OBVIOUS
        <3> QED
            BY ONLY <1>1, <2>2, <2>3, <2>5, <3>1, MergedRows
    <2>7. R.rows = kept /\ R.cand = NextCursor(kept, gone)
        BY <2>1, <2>2, <2>4, MergedParts
    <2>8. kept \in Seq(RowSet)
        BY <2>6 DEF Sound
    <2>9. Aims(NextCursor(kept, gone), Len(kept))
        BY <1>1, <1>2, <2>2, <2>3, <2>6, <2>8, MergedCursor
    <2> QED
        BY <2>6, <2>7, <2>9
<1>3. CASE ~(ks # {} /\ PrefixHolds(ks, us, t, b, rs))
    <2>1. R.rows = rs /\ R.cand = cand
        BY <1>1, <1>3 DEF Reconcile
    <2>2. Len(rs) \in Nat
        BY Members DEF Sound
    <2>3. Follows(rs, rs)
        BY <2>2 DEF Follows
    <2> QED
        BY <2>1, <2>3
<1> QED
    BY <1>2, <1>3

-------------------------------------------------------------------------------
(* Rows that follow their units, and the rows behind them. *)

\* The growth that a row takes.
Wider(u, r) == Extends(u, r) \/ Within(r, u)

\* The fields of a row that followed its unit.
LEMMA UpgradedIs ==
    ASSUME NEW r \in RowSet, NEW u \in Units, NEW span \in SUBSET Marks
    PROVE  /\ Upgraded(r, u, span) \in RowSet
           /\ Upgraded(r, u, span).lo = u.lo /\ Upgraded(r, u, span).hi = u.hi
           /\ Upgraded(r, u, span).ids = span /\ Upgraded(r, u, span).conf = FALSE
           /\ Upgraded(r, u, span).pub = r.pub /\ Upgraded(r, u, span).pids = r.pids
BY DEF Upgraded, RowSet, Units

\* Such a unit has every word of the row.
LEMMA WiderIs ==
    ASSUME NEW r \in RowSet, NEW u \in Units, Wider(u, r)
    PROVE  WordsOf(r) \subseteq WordsOf(u)
<1>1. PICK x \in Nat, y \in Nat : x = r.lo /\ y = r.hi
    BY RowsAre
<1>2. PICK v \in Nat, z \in Nat : v = u.lo /\ z = u.hi
    BY LosAre DEF Units
<1>3. v <= x /\ y <= z
    BY <1>1, <1>2 DEF Wider, Extends, Within
<1>4. \A w \in x..y : w \in v..z
    BY <1>3
<1> QED
    BY <1>1, <1>2, <1>4 DEF WordsOf

\* The rows at the positions grown follow the unit there.
Grown(rs, cs, us, t, b, grown) ==
    [i \in DOMAIN rs |->
        IF \E k \in grown : cs[k].row = i
        THEN LET k == CHOOSE k \in grown : cs[k].row = i
             IN  Upgraded(rs[i], us[k], Span(us[k], t, b))
        ELSE rs[i]]

\* At each of the positions the unit is more than the row.
Widens(grown, us, rs, cs) ==
    \A k \in grown : k \in 1..Len(us) /\ k \in 1..Len(cs) /\ Wider(us[k], rs[cs[k].row])

\* Rows that grow keep their words and lose their confirmation.
LEMMA GrownIs ==
    ASSUME NEW rs, Sound(rs), NEW us \in Seq(Units), NEW t, NEW b \in [Word -> Nat], NEW seen,
           Backed(rs, seen, t, b), NEW cs, NEW grown,
           Widens(grown, us, rs, cs)
    PROVE  /\ Sound(Grown(rs, cs, us, t, b, grown))
           /\ Follows(rs, Grown(rs, cs, us, t, b, grown))
           /\ Backed(Grown(rs, cs, us, t, b, grown), seen, t, b)
           /\ Len(Grown(rs, cs, us, t, b, grown)) = Len(rs)
<1>0. PICK new : new = Grown(rs, cs, us, t, b, grown)
    OBVIOUS
<1>1. rs \in Seq(RowSet) /\ (\A i \in 1..Len(rs) : Bound(rs[i])) /\ InTurn(rs)
    BY DEF Sound
<1>2. /\ DOMAIN rs = 1..Len(rs) /\ Len(rs) \in Nat
      /\ \A i \in 1..Len(rs) : rs[i] \in RowSet
    BY <1>1, Members
<1>3. ASSUME NEW i \in 1..Len(rs)
      PROVE  \/ new[i] = rs[i]
             \/ \E u \in Units : /\ new[i] = Upgraded(rs[i], u, Span(u, t, b))
                                 /\ Wider(u, rs[i])
    <2>1. CASE \E k \in grown : cs[k].row = i
        <3>1. PICK k \in grown : /\ cs[k].row = i
                                 /\ new[i] = Upgraded(rs[i], us[k], Span(us[k], t, b))
            BY <1>0, <1>2, <2>1 DEF Grown
        <3>2. us[k] \in Units /\ Wider(us[k], rs[i])
            BY <3>1, Members DEF Widens
        <3> QED
            BY <3>1, <3>2
    <2>2. CASE ~\E k \in grown : cs[k].row = i
        BY <1>0, <1>2, <2>2 DEF Grown
    <2> QED
        BY <2>1, <2>2
<1>4. ASSUME NEW i \in 1..Len(rs)
      PROVE  /\ new[i] \in RowSet /\ Bound(new[i]) /\ new[i].pub = rs[i].pub
             /\ new[i].pids = rs[i].pids /\ WordsOf(rs[i]) \subseteq WordsOf(new[i])
             /\ new[i].conf => new[i] = rs[i]
    <2>1. CASE new[i] = rs[i]
        BY <1>1, <1>2, <2>1
    <2>2. CASE \E u \in Units : /\ new[i] = Upgraded(rs[i], u, Span(u, t, b))
                                /\ Wider(u, rs[i])
        <3>1. PICK u \in Units : /\ new[i] = Upgraded(rs[i], u, Span(u, t, b))
                                 /\ Wider(u, rs[i])
            BY <2>2
        <3>2. PICK r \in RowSet : r = rs[i]
            BY <1>2
        <3>3. Span(u, t, b) \in SUBSET Marks
            BY SpanIs
        <3>4. PICK n : n = Upgraded(r, u, Span(u, t, b))
            OBVIOUS
        <3>5. /\ n \in RowSet /\ n.lo = u.lo /\ n.hi = u.hi /\ n.ids = Span(u, t, b)
              /\ n.conf = FALSE /\ n.pub = r.pub /\ n.pids = r.pids
            BY <3>3, <3>4, UpgradedIs
        <3>6. Bound(n)
            BY <3>5, BoundIs
        <3>7. WordsOf(r) \subseteq WordsOf(n)
            <4>1. WordsOf(n) = WordsOf(u)
                BY <3>5 DEF WordsOf
            <4>2. WordsOf(r) \subseteq WordsOf(u)
                BY <3>1, <3>2, WiderIs
            <4> QED
                BY <4>1, <4>2
        <3>8. new[i] = n
            BY <3>1, <3>2, <3>4
        <3> QED
            BY <3>2, <3>5, <3>6, <3>7, <3>8
    <2> QED
        BY <1>3, <2>1, <2>2
<1>5. new \in Seq(RowSet) /\ Len(new) = Len(rs)
    <2>1. DOMAIN new = 1..Len(rs) /\ new = [i \in 1..Len(rs) |-> new[i]]
        BY <1>0, <1>2 DEF Grown
    <2>2. new \in [1..Len(rs) -> RowSet]
        BY <1>4, <2>1
    <2> QED
        BY <1>2, <2>2, SeqOf
<1>6. Follows(rs, new)
    <2>1. \A i \in 1..Len(rs) : /\ new[i].pub = rs[i].pub /\ new[i].pids = rs[i].pids
                                 /\ WordsOf(rs[i]) \subseteq WordsOf(new[i])
        BY <1>4
    <2>2. /\ Len(rs) \in Nat /\ Len(new) \in Nat /\ Len(rs) <= Len(new)
          /\ \A i \in 1..Len(new) : i > Len(rs) => ~new[i].pub
        BY <1>2, <1>5
    <2> QED
        BY <2>1, <2>2, FollowsEach
<1>7. Sound(new)
    <2>1. \A i \in 1..Len(new) : Bound(new[i])
        BY <1>4, <1>5
    <2>2. InTurn(new)
        BY <1>1, <1>2, <1>6, InTurnOn
    <2> QED
        BY <1>5, <2>1, <2>2 DEF Sound
<1>8. ASSUME NEW i \in 1..Len(new), i > base, new[i].conf, ~new[i].pub
      PROVE  \E k \in 1..Len(seen) : Span(seen[k], t, b) = new[i].ids
    <2>1. i \in 1..Len(rs)
        BY <1>5
    <2>2. new[i] = rs[i]
        BY <1>4, <1>8, <2>1
    <2> QED
        BY <1>8, <2>1, <2>2 DEF Backed
<1> QED
    BY <1>0, <1>5, <1>6, <1>7, <1>8 DEF Backed

\* The fields of a new row.
LEMMA RowIs ==
    ASSUME NEW u \in Units, NEW span \in SUBSET Marks
    PROVE  /\ Row(u, span) \in RowSet
           /\ Row(u, span).lo = u.lo /\ Row(u, span).hi = u.hi /\ Row(u, span).ids = span
           /\ Row(u, span).conf = FALSE /\ Row(u, span).pub = FALSE
<1>1. 1 \in Los /\ 0 \in His
    BY Constants DEF Los, His
<1>2. NoRow \in RowSet /\ NoRow.conf = FALSE /\ NoRow.pub = FALSE
    BY <1>1 DEF NoRow, RowSet
<1>3. u.lo \in Los /\ u.hi \in His
    BY DEF Units
<1> QED
    BY <1>2, <1>3 DEF Row, RowSet

\* A number of rows and of new ones.
Beyond(n, ns) == n + Cardinality(ns)
Count(rs, ns) == Beyond(Len(rs), ns)

\* The rows with those of new units behind them.
Longer(mid, rs, us, ns, t, b) ==
    /\ Len(mid) = Count(rs, ns)
    /\ \A i \in 1..Len(rs) : mid[i] = rs[i]
    /\ \A i \in 1..Len(mid) : i > Len(rs) =>
          \E k \in ns : k = Nth(ns, i - Len(rs)) /\ mid[i] = Row(us[k], Span(us[k], t, b))

\* The units that become rows are put behind the rows.
LEMMA WithNewIs ==
    ASSUME NEW rs, Sound(rs), NEW us \in Seq(Units), NEW t, NEW b \in [Word -> Nat], NEW seen,
           Backed(rs, seen, t, b), NEW ns, Places(ns, Len(us))
    PROVE  /\ Sound(WithNew(rs, us, ns, t, b)) /\ Follows(rs, WithNew(rs, us, ns, t, b))
           /\ Backed(WithNew(rs, us, ns, t, b), seen, t, b)
           /\ Len(WithNew(rs, us, ns, t, b)) = Count(rs, ns)
           /\ Longer(WithNew(rs, us, ns, t, b), rs, us, ns, t, b)
<1>0. PICK new : new = WithNew(rs, us, ns, t, b)
    OBVIOUS
<1>1. rs \in Seq(RowSet) /\ (\A i \in 1..Len(rs) : Bound(rs[i])) /\ InTurn(rs)
    BY DEF Sound
<1>2. /\ DOMAIN rs = 1..Len(rs) /\ Len(rs) \in Nat /\ \A i \in 1..Len(rs) : rs[i] \in RowSet
    BY <1>1, Members
<1>3. PICK n \in Nat : n = Cardinality(ns)
    BY RankIs
<1>4. PICK add : add = [k \in 1..n |-> LET u == us[Nth(ns, k)] IN Row(u, Span(u, t, b))]
    OBVIOUS
<1>5. ASSUME NEW k \in 1..n
      PROVE  /\ Nth(ns, k) \in ns /\ us[Nth(ns, k)] \in Units
             /\ add[k] = Row(us[Nth(ns, k)], Span(us[Nth(ns, k)], t, b))
             /\ add[k] \in RowSet /\ Bound(add[k]) /\ add[k].conf = FALSE /\ add[k].pub = FALSE
    <2>1. Nth(ns, k) \in ns
        BY <1>3, NthIs
    <2>2. Nth(ns, k) \in 1..Len(us)
        BY <2>1 DEF Places
    <2>3. PICK u \in Units : u = us[Nth(ns, k)]
        BY <2>2, Members
    <2>4. add[k] = Row(u, Span(u, t, b))
        BY <1>4, <2>3
    <2>5. Span(u, t, b) \in SUBSET Marks
        BY SpanIs
    <2>6. PICK r : r = Row(u, Span(u, t, b))
        OBVIOUS
    <2>7. /\ r \in RowSet /\ r.lo = u.lo /\ r.hi = u.hi /\ r.ids = Span(u, t, b)
          /\ r.conf = FALSE /\ r.pub = FALSE
        BY <2>5, <2>6, RowIs
    <2>8. Bound(r)
        BY <2>7, BoundIs
    <2> QED
        BY <2>1, <2>3, <2>4, <2>6, <2>7, <2>8
<1>6. add \in Seq(RowSet) /\ Len(add) = n
    <2>1. DOMAIN add = 1..n /\ add = [k \in 1..n |-> add[k]]
        BY <1>4
    <2>2. add \in [1..n -> RowSet]
        BY <1>5, <2>1
    <2> QED
        BY <2>2, SeqOf
<1>7. new = rs \o add
    BY <1>0, <1>3, <1>4 DEF WithNew
<1>8. /\ new \in Seq(RowSet) /\ Len(new) = Len(rs) + n
      /\ \A i \in 1..Len(rs) + n : new[i] = IF i <= Len(rs) THEN rs[i] ELSE add[i - Len(rs)]
    <2>1. rs \in Seq(RowSet) /\ add \in Seq(RowSet)
        BY <1>1, <1>6
    <2>2. /\ rs \o add \in Seq(RowSet) /\ Len(rs \o add) = Len(rs) + Len(add)
          /\ \A i \in 1..Len(rs) + Len(add) :
                (rs \o add)[i] = IF i <= Len(rs) THEN rs[i] ELSE add[i - Len(rs)]
        BY ONLY <2>1, ConcatProperties
    <2>3. Len(add) = n
        BY <1>6
    <2> QED
        BY ONLY <1>7, <2>2, <2>3
<1>9. \A i \in 1..Len(rs) : new[i] = rs[i]
    BY <1>2, <1>8
<1>10. ASSUME NEW i \in 1..Len(new), i > Len(rs)
       PROVE  /\ i - Len(rs) \in 1..n /\ new[i] = add[i - Len(rs)]
    BY <1>2, <1>8, <1>10
<1>11. ASSUME NEW i \in 1..Len(new), i > Len(rs)
       PROVE  /\ ~new[i].pub /\ ~new[i].conf /\ Bound(new[i])
              /\ \E k \in ns : /\ k = Nth(ns, i - Len(rs))
                               /\ new[i] = Row(us[k], Span(us[k], t, b))
    <2>1. PICK k \in 1..n : k = i - Len(rs) /\ new[i] = add[k]
        BY <1>10, <1>11
    <2> QED
        BY <1>5, <2>1
<1>12. Follows(rs, new)
    <2>1. \A i \in 1..Len(rs) : /\ new[i].pub = rs[i].pub /\ new[i].pids = rs[i].pids
                                 /\ WordsOf(rs[i]) \subseteq WordsOf(new[i])
        BY <1>9
    <2>2. Len(rs) \in Nat /\ Len(new) \in Nat /\ Len(rs) <= Len(new)
        BY <1>2, <1>8
    <2>3. \A i \in 1..Len(new) : i > Len(rs) => ~new[i].pub
        BY <1>11
    <2> QED
        BY <2>1, <2>2, <2>3, FollowsEach
<1>13. ASSUME NEW i \in 1..Len(new) PROVE Bound(new[i])
    <2>1. CASE i > Len(rs)
        BY <1>11, <2>1
    <2>2. CASE ~(i > Len(rs))
        <3>1. i \in 1..Len(rs)
            BY <1>2, <2>2
        <3> QED
            BY <1>1, <1>9, <3>1
    <2> QED
        BY <2>1, <2>2
<1>14. Sound(new)
    <2>1. InTurn(new)
        BY <1>1, <1>2, <1>12, InTurnOn
    <2> QED
        BY <1>8, <1>13, <2>1 DEF Sound
<1>15. ASSUME NEW i \in 1..Len(new), i > base, new[i].conf, ~new[i].pub
       PROVE  \E k \in 1..Len(seen) : Span(seen[k], t, b) = new[i].ids
    <2>1. ~(i > Len(rs))
        BY <1>11, <1>15
    <2>2. i \in 1..Len(rs)
        BY <1>2, <2>1
    <2> QED
        BY <1>9, <1>15, <2>2 DEF Backed
<1>16. Len(new) = Count(rs, ns)
    BY <1>3, <1>8 DEF Beyond, Count
<1>17. Longer(new, rs, us, ns, t, b)
    BY <1>9, <1>11, <1>16 DEF Longer
<1>18. Backed(new, seen, t, b)
    BY <1>15 DEF Backed
<1> QED
    BY <1>0, <1>12, <1>14, <1>16, <1>17, <1>18

-------------------------------------------------------------------------------
(* Which positions a run consumes. *)

\* The smaller and the greater of two numbers.
LEMMA Bounds ==
    ASSUME NEW a \in Int, NEW b \in Int
    PROVE  /\ AtMost(a, b) \in Int /\ AtMost(a, b) <= a /\ AtMost(a, b) <= b
           /\ AtMost(a, b) = a \/ AtMost(a, b) = b
           /\ AtLeast(a, b) \in Int /\ a <= AtLeast(a, b) /\ b <= AtLeast(a, b)
           /\ AtLeast(a, b) = a \/ AtLeast(a, b) = b
BY DEF AtMost, AtLeast

\* The units that a run works on: those of the text, its tail where that is taken
\* for one, and what was consumed at positions behind them.
LEMMA CompletedIs ==
    ASSUME NEW t \in Texts, NEW m, NEW cs \in Seq(Cursors), NEW us, us = Completed(t, m, cs)
    PROVE  /\ us \in Seq(Units) /\ Len(cs) <= Len(us) /\ Len(UnitsOf(t)) <= Len(us)
           /\ \A k \in 1..Len(UnitsOf(t)) : us[k] = UnitsOf(t)[k]
           /\ \A k \in 1..Len(us) : k > Len(UnitsOf(t)) =>
                 \/ /\ k = Len(UnitsOf(t)) + 1 /\ (m.force \/ m.tail) /\ ~Empty(TailOf(t))
                    /\ us[k] = TailOf(t)
                 \/ k <= Len(cs) /\ us[k] = Unit(cs[k].lo, cs[k].hi)
           /\ (m.force \/ m.tail) /\ ~Empty(TailOf(t)) =>
                 /\ Len(UnitsOf(t)) + 1 \in 1..Len(us)
                 /\ us[Len(UnitsOf(t)) + 1] = TailOf(t)
<1>1. PICK vs \in Seq(Units) : vs = UnitsOf(t)
    BY UnitsAre
<1>2. PICK v \in Units : v = TailOf(t)
    BY TailIs
<1>3. PICK all : all = IF (m.force \/ m.tail) /\ ~Empty(v) THEN Append(vs, v) ELSE vs
    OBVIOUS
<1>4. PICK n \in Nat : n = Len(vs)
    BY <1>1, LenProperties
<1>5. /\ all \in Seq(Units) /\ Len(all) = IF (m.force \/ m.tail) /\ ~Empty(v) THEN n + 1 ELSE n
      /\ \A k \in 1..n : all[k] = vs[k]
      /\ (m.force \/ m.tail) /\ ~Empty(v) => all[n + 1] = v
    <2>1. CASE (m.force \/ m.tail) /\ ~Empty(v)
        <3>1. all = Append(vs, v)
            BY <1>3, <2>1
        <3>2. /\ Append(vs, v) \in Seq(Units) /\ Len(Append(vs, v)) = n + 1
              /\ \A k \in 1..n : Append(vs, v)[k] = vs[k]
              /\ Append(vs, v)[n + 1] = v
            BY <1>4, AppendProperties
        <3> QED
            BY <2>1, <3>1, <3>2
    <2>2. CASE ~((m.force \/ m.tail) /\ ~Empty(v))
        BY <1>3, <1>4, <2>2
    <2> QED
        BY <2>1, <2>2
<1>6. PICK a \in Nat, c \in Nat : a = Len(all) /\ c = Len(cs)
    BY <1>5, LenProperties
<1>7. n <= a /\ a <= n + 1 /\ (a = n + 1 <=> (m.force \/ m.tail) /\ ~Empty(v))
    BY <1>5, <1>6
<1>8. PICK l \in Nat : l = AtLeast(a, c)
    BY DEF AtLeast
<1>9. a <= l /\ c <= l /\ (l = a \/ l = c)
    BY <1>8 DEF AtLeast
<1>10. us = [k \in 1..l |-> IF k <= a THEN all[k] ELSE Unit(cs[k].lo, cs[k].hi)]
    BY <1>1, <1>2, <1>3, <1>6, <1>8 DEF Completed
<1>11. ASSUME NEW k \in 1..l PROVE us[k] \in Units
    <2>1. CASE k <= a
        <3>1. k \in 1..a
            BY <2>1
        <3>2. all[k] \in Units
            BY <1>5, <1>6, <3>1, Members
        <3> QED
            BY <1>10, <2>1, <3>2
    <2>2. CASE ~(k <= a)
        <3>1. k \in 1..c
            BY <1>9, <2>2
        <3>2. cs[k] \in Cursors
            BY <1>6, <3>1, Members
        <3>3. us[k] = [lo |-> cs[k].lo, hi |-> cs[k].hi]
            BY <1>10, <2>2 DEF Unit
        <3> QED
            BY <3>2, <3>3 DEF Cursors, Units
    <2> QED
        BY <2>1, <2>2
<1>12. us \in Seq(Units) /\ Len(us) = l
    <2>1. us \in [1..l -> Units]
        BY <1>10, <1>11
    <2> QED
        BY <2>1, SeqOf
<1>13. ASSUME NEW k \in 1..n PROVE us[k] = vs[k]
    <2>1. k \in 1..l /\ k <= a
        BY <1>7, <1>9
    <2> QED
        BY <1>5, <1>10, <2>1
<1>14. ASSUME NEW k \in 1..l, k > n
       PROVE  \/ k = n + 1 /\ (m.force \/ m.tail) /\ ~Empty(v) /\ us[k] = v
              \/ k <= c /\ us[k] = Unit(cs[k].lo, cs[k].hi)
    <2>1. CASE k <= a
        <3>1. k = n + 1 /\ (m.force \/ m.tail) /\ ~Empty(v)
            BY <1>7, <1>14, <2>1
        <3>2. us[k] = all[k]
            BY <1>10, <2>1
        <3> QED
            BY <1>5, <3>1, <3>2
    <2>2. CASE ~(k <= a)
        BY <1>9, <1>10, <2>2
    <2> QED
        BY <2>1, <2>2
<1>15. ASSUME (m.force \/ m.tail) /\ ~Empty(v) PROVE n + 1 \in 1..l /\ us[n + 1] = v
    <2>1. n + 1 \in 1..l /\ n + 1 <= a
        BY <1>7, <1>9, <1>15
    <2> QED
        BY <1>5, <1>10, <1>15, <2>1
<1> QED
    BY <1>1, <1>2, <1>4, <1>6, <1>7, <1>9, <1>12, <1>13, <1>14, <1>15

\* The cursor only moves forward, to a unit there is.
LEMMA RemappedIs ==
    ASSUME NEW us \in Seq(Units), NEW m, NEW cs \in Seq(Cursors), Len(cs) <= Len(us),
           NEW from, from = Remapped(us, m, cs)
    PROVE  from \in Len(cs)..Len(us) /\ from \in Nat
<1>1. PICK n \in Nat, c \in Nat : n = Len(us) /\ c = Len(cs)
    BY LenProperties
<1>2. PICK same : same = {k \in c + 1..n : us[1].lo = cs[1].lo /\ us[k].hi = cs[c].hi}
    OBVIOUS
<1>3. from = IF m.canonical /\ c > 0 /\ same # {} THEN Nth(same, 1) ELSE c
    BY <1>1, <1>2 DEF Remapped
<1>4. CASE same # {}
    <2>1. Places(same, n)
        <3>1. \A k \in same : k \in 1..n
            BY <1>2
        <3> QED
            BY <3>1 DEF Places
    <2>2. Nth(same, 1) \in same
        BY <1>4, <2>1, FirstIs
    <2>3. Nth(same, 1) \in c..n
        BY <1>2, <2>2
    <2> QED
        BY <1>1, <1>3, <2>3
<1>5. CASE same = {}
    BY <1>1, <1>3, <1>5
<1> QED
    BY <1>4, <1>5

\* Agreement ends at a position.
LEMMA AgreedIs ==
    ASSUME NEW n \in Nat, NEW us, n = Len(us), NEW from \in 0..n, NEW prev
    PROVE  AgreedEnd(us, from, prev) \in from..n
<1>1. PICK differ : differ = {k \in from + 1..n : k > Len(prev) \/ us[k] # prev[k]}
    OBVIOUS
<1>2. AgreedEnd(us, from, prev) = IF differ = {} THEN n ELSE Nth(differ, 1) - 1
    BY <1>1 DEF AgreedEnd
<1>3. CASE differ = {}
    BY <1>2, <1>3
<1>4. CASE differ # {}
    <2>1. \A k \in differ : k \in from + 1..n /\ k \in 1..n
        BY <1>1
    <2>2. Places(differ, n)
        BY <2>1 DEF Places
    <2>3. PICK k \in differ : k = Nth(differ, 1)
        BY <1>4, <2>2, FirstIs
    <2>4. k - 1 \in from..n
        BY <2>1
    <2> QED
        BY <1>2, <1>4, <2>3, <2>4
<1> QED
    BY <1>3, <1>4

\* What is held back leaves a position to end at.
LEMMA HeldIs ==
    ASSUME NEW n \in Nat, NEW us, n = Len(us), NEW from \in 0..n, NEW m, NEW prev
    PROVE  HeldEnd(us, from, m, prev) \in from..n
<1>1. PICK a \in from..n : a = AgreedEnd(us, from, prev)
    BY AgreedIs
<1>2. PICK end \in from..n : end = IF m.force \/ m.all THEN n ELSE a
    OBVIOUS
<1>3. HeldEnd(us, from, m, prev)
        = IF ~m.force /\ m.holdback THEN AtLeast(from, AtMost(end, n - 1)) ELSE end
    BY <1>1, <1>2 DEF HeldEnd
<1>4. AtLeast(from, AtMost(end, n - 1)) \in from..n
    BY DEF AtLeast, AtMost
<1> QED
    BY <1>3, <1>4

\* So do the stops.
LEMMA ReadyIs ==
    ASSUME NEW n \in Nat, NEW us, n = Len(us), NEW from \in 0..n, NEW t, NEW m, NEW prev, NEW early,
           NEW end, end = AtLeast(from, ReadyEnd(us, from, t, m, prev, early))
    PROVE  end \in from..n /\ end \in Nat
<1>1. PICK h \in from..n : h = HeldEnd(us, from, m, prev)
    BY HeldIs
<1>2. PICK e \in from..n :
          e = HeldEnd(us, from, m, prev) + (IF Promotes(us, from, t, m, prev, early) THEN 1 ELSE 0)
    <2>1. CASE Promotes(us, from, t, m, prev, early)
        <3>1. h = n - 1
            BY <1>1, <2>1 DEF Promotes, Watched
        <3>2. h + 1 \in from..n
            BY <3>1
        <3> QED
            BY <1>1, <2>1, <3>2
    <2>2. CASE ~Promotes(us, from, t, m, prev, early)
        <3>1. h + 0 \in from..n
            OBVIOUS
        <3> QED
            BY <1>1, <2>2, <3>1
    <2> QED
        BY <2>1, <2>2
<1>3. PICK stops : stops = {k \in from + 1..e : Stops(us, t, m, k)}
    OBVIOUS
<1>4. ReadyEnd(us, from, t, m, prev, early) = IF stops = {} THEN e ELSE Nth(stops, 1) - 1
    BY <1>2, <1>3 DEF ReadyEnd
<1>5. IF stops = {} THEN e \in from..n ELSE Nth(stops, 1) - 1 \in from..n
    <2>1. \A k \in stops : k \in from + 1..e /\ k \in 1..n
        BY <1>3
    <2>2. Places(stops, n)
        BY <2>1 DEF Places
    <2>3. CASE stops # {}
        <3>1. PICK k \in stops : k = Nth(stops, 1)
            BY <2>2, <2>3, FirstIs
        <3>2. k - 1 \in from..n
            BY <2>1
        <3> QED
            BY <2>3, <3>1, <3>2
    <2> QED
        BY <2>3
<1>6. PICK r \in from..n : r = ReadyEnd(us, from, t, m, prev, early)
    BY <1>4, <1>5
<1> QED
    BY <1>6 DEF AtLeast

\* What a run consumes: the positions up to from are consumed already, those up to
\* end are now, some of them as new rows; others that were are grown.
Steps(cs, us, from, end, new, grown) ==
    /\ Len(cs) <= from /\ from <= end /\ end <= Len(us)
    /\ new \subseteq from + 1..end
    /\ \A k \in grown : k \in 1..Len(us) /\ k \in 1..Len(cs)

\* The cursor points at rows.
LEMMA RecordedIs ==
    ASSUME NEW us \in Seq(Units), NEW cs, NEW old \in Nat, Aims(cs, old),
           NEW from \in Nat, NEW end \in Nat, NEW new, NEW grown,
           Steps(cs, us, from, end, new, grown),
           NEW next, next = Recorded(cs, us, from, end, new, grown, old)
    PROVE  /\ Aims(next, Beyond(old, new))
           /\ Len(next) = IF end > from THEN end ELSE Len(cs)
           /\ \A k \in 1..Len(next) :
                 /\ k \in from + 1..end =>
                       /\ next[k].lo = us[k].lo /\ next[k].hi = us[k].hi
                       /\ next[k].row = IF k \in new THEN old + Rank(new, k) ELSE 0
                 /\ k \in 1..Len(cs) => next[k].row = cs[k].row
                 /\ k \in 1..Len(cs) /\ k \notin grown => next[k] = cs[k]
                 /\ k \in grown => next[k].lo = us[k].lo /\ next[k].hi = us[k].hi
                 /\ k > Len(cs) /\ k <= from => next[k].row = 0
<1>0. /\ Len(cs) <= from /\ from <= end /\ end <= Len(us)
      /\ new \subseteq from + 1..end
      /\ \A k \in grown : k \in 1..Len(us) /\ k \in 1..Len(cs)
    BY DEF Steps
<1>1. /\ cs \in Seq(Cursors) /\ DOMAIN cs = 1..Len(cs)
      /\ \A k \in 1..Len(cs) : cs[k] \in Cursors /\ cs[k].row <= old
    BY Members DEF Aims
<1>2. PICK n \in Nat, c \in Nat : n = Len(us) /\ c = Len(cs)
    BY <1>1, LenProperties
<1>3. c <= from /\ from <= end /\ end <= n
    BY <1>0, <1>2
<1>4. PICK l \in Nat : l = IF end > from THEN end ELSE c
    OBVIOUS
<1>5. l = IF end > from THEN AtLeast(end, c) ELSE c
    BY <1>3, <1>4 DEF AtLeast
<1>6. Places(new, n)
    <2>1. \A k \in new : k \in 1..n
        BY <1>0, <1>3
    <2> QED
        BY <2>1 DEF Places
<1>7. PICK d \in Nat : d = Cardinality(new)
    BY <1>6, RankIs
<1>8. next = [k \in 1..l |->
                IF k \in from + 1..end
                THEN [lo |-> us[k].lo, hi |-> us[k].hi,
                      row |-> IF k \in new THEN old + Rank(new, k) ELSE 0]
                ELSE IF k \in grown THEN [cs[k] EXCEPT !.lo = us[k].lo, !.hi = us[k].hi]
                ELSE IF k \in 1..c THEN cs[k]
                ELSE [lo |-> 1, hi |-> 0, row |-> 0]]
    BY <1>1, <1>2, <1>5 DEF Recorded, Rank, Upto
<1>9. ASSUME NEW k \in 1..l
      PROVE  /\ next[k] \in Cursors /\ next[k].row <= old + d
             /\ k \in from + 1..end =>
                   /\ next[k].lo = us[k].lo /\ next[k].hi = us[k].hi
                   /\ next[k].row = IF k \in new THEN old + Rank(new, k) ELSE 0
             /\ k \in 1..c => next[k].row = cs[k].row
             /\ k \in 1..c /\ k \notin grown => next[k] = cs[k]
             /\ k \in grown => next[k].lo = us[k].lo /\ next[k].hi = us[k].hi
             /\ k > c /\ k <= from => next[k].row = 0
    <2>1. CASE k \in from + 1..end
        <3>1. k \in 1..n /\ ~(k \in 1..c) /\ k \notin grown /\ ~(k <= from)
            <4>1. ~(k \in 1..c) /\ k \in 1..n /\ ~(k <= from)
                BY <1>3, <2>1
            <4> QED
                BY <1>0, <1>2, <4>1
        <3>2. us[k] \in Units
            BY <1>2, <3>1, Members
        <3>3. PICK x \in Los, y \in His : x = us[k].lo /\ y = us[k].hi
            BY <3>2 DEF Units
        <3>4. PICK r \in Nat : r = (IF k \in new THEN old + Rank(new, k) ELSE 0) /\ r <= old + d
            <4>0. Rank(new, k) \in Nat /\ Rank(new, k) <= Cardinality(new)
                <5>1. k \in Nat
                    OBVIOUS
                <5> QED
                    BY <1>6, <5>1, RankIs
            <4>1. PICK q \in Nat : q = Rank(new, k) /\ q <= d
                BY <1>7, <4>0
            <4> QED
                BY <4>1
        <3>5. next[k] = [lo |-> x, hi |-> y, row |-> r]
            BY <1>8, <2>1, <3>3, <3>4
        <3>6. next[k] \in Cursors
            BY <3>5 DEF Cursors
        <3> QED
            BY <3>1, <3>3, <3>4, <3>5, <3>6
    <2>2. CASE k \notin from + 1..end /\ k \in grown
        <3>1. k \in 1..c /\ k \in 1..n
            BY <1>0, <1>2, <2>2
        <3>2. us[k] \in Units /\ cs[k] \in Cursors /\ cs[k].row <= old
            BY <1>1, <1>2, <3>1, Members
        <3>3. PICK x \in Los, y \in His : x = us[k].lo /\ y = us[k].hi
            BY <3>2 DEF Units
        <3>4. PICK z \in Cursors : z = cs[k]
            BY <3>2
        <3>5. next[k] = [z EXCEPT !.lo = x, !.hi = y]
            BY <1>8, <2>2, <3>3, <3>4
        <3>6. /\ [z EXCEPT !.lo = x, !.hi = y] \in Cursors
              /\ [z EXCEPT !.lo = x, !.hi = y].lo = x /\ [z EXCEPT !.lo = x, !.hi = y].hi = y
              /\ [z EXCEPT !.lo = x, !.hi = y].row = z.row
            BY DEF Cursors
        <3>7. z.row \in Nat /\ z.row <= old + d
            BY <3>2, <3>4 DEF Cursors
        <3> QED
            BY <2>2, <3>1, <3>3, <3>4, <3>5, <3>6, <3>7
    <2>3. CASE k \notin from + 1..end /\ k \notin grown /\ k \in 1..c
        <3>1. next[k] = cs[k]
            BY <1>8, <2>3
        <3>2. cs[k] \in Cursors /\ cs[k].row <= old
            BY <1>1, <1>2, <2>3
        <3>3. PICK r \in Nat : r = cs[k].row
            BY <3>2 DEF Cursors
        <3>4. r <= old + d
            BY <3>2, <3>3
        <3>5. ~(k > c)
            BY <2>3
        <3> QED
            BY <2>3, <3>1, <3>2, <3>3, <3>4, <3>5
    <2>4. CASE k \notin from + 1..end /\ k \notin grown /\ k \notin 1..c
        <3>1. next[k] = [lo |-> 1, hi |-> 0, row |-> 0]
            BY <1>8, <2>4
        <3>2. 1 \in Los /\ 0 \in His
            BY Constants DEF Los, His
        <3>3. next[k] \in Cursors /\ next[k].row = 0
            BY <3>1, <3>2 DEF Cursors
        <3> QED
            BY <2>4, <3>3
    <2> QED
        BY <2>1, <2>2, <2>3, <2>4
<1>10. next \in Seq(Cursors) /\ Len(next) = l
    <2>1. next \in [1..l -> Cursors]
        BY <1>8, <1>9
    <2> QED
        BY <2>1, SeqOf
<1>11. Aims(next, Beyond(old, new))
    BY <1>7, <1>9, <1>10 DEF Aims, Beyond
<1> QED
    BY <1>2, <1>4, <1>9, <1>10, <1>11

-------------------------------------------------------------------------------
(* What a run leaves. *)

Reasons == {"none", "hard", "vad"}
Pends == [lo : Los, hi : His, ends : SUBSET Word, reason : Reasons, terminal : BOOLEAN,
          retain : BOOLEAN]
Anchors == [hi : His, stop : BOOLEAN]

\* No prefix, no anchor and no unit are of their types.
LEMMA NothingIs == NoPend \in Pends /\ NoAnchor \in Anchors /\ Blank \in Units
<1>1. 1 \in Los /\ 0 \in His
    BY Constants DEF Los, His
<1> QED
    BY <1>1 DEF NoPend, Pends, Reasons, NoAnchor, Anchors, Blank, Unit, Units

\* The text that a prefix and the next text make, and what is left of the prefix.
LEMMA JoinedIs ==
    ASSUME pend \in Pends, NEW g \in Texts, NEW anc \in Anchors, NEW j, j = Joined(g, anc)
    PROVE  /\ j = [text |-> j.text, pend |-> j.pend, anchor |-> j.anchor]
           /\ j.text \in Texts /\ j.pend \in Pends /\ j.anchor \in Anchors
<1>1. /\ pend.lo \in Los /\ pend.hi \in His /\ pend.ends \subseteq Word /\ pend.reason \in Reasons
      /\ pend.terminal \in BOOLEAN /\ pend.retain \in BOOLEAN
    BY DEF Pends
<1>2. g.lo \in Los /\ g.hi \in His /\ g.ends \subseteq Word
    BY DEF Texts
<1> DEFINE whole(E) == [lo |-> pend.lo, hi |-> g.hi, ends |-> E \cup {w \in g.ends : w >= g.lo}]
           inner == {w \in pend.ends : w < pend.hi}
           as(t, p, a) == [text |-> t, pend |-> p, anchor |-> a]
           Good(v) == /\ v = [text |-> v.text, pend |-> v.pend, anchor |-> v.anchor]
                      /\ v.text \in Texts /\ v.pend \in Pends /\ v.anchor \in Anchors
<1>3. \A t \in Texts : \A p \in Pends : \A a \in Anchors : Good(as(t, p, a))
    OBVIOUS
<1>4. ASSUME NEW E \in SUBSET Word PROVE whole(E) \in Texts
    BY <1>1, <1>2 DEF Texts
<1>5. inner \in SUBSET Word
    BY <1>1
<1>6. [lo |-> pend.lo, hi |-> pend.hi, ends |-> pend.ends] \in Texts
    BY <1>1 DEF Texts
<1>7. [pend EXCEPT !.terminal = FALSE, !.retain = pend.reason = "hard" /\ pend.lo < g.lo] \in Pends
    <2>1. (pend.reason = "hard" /\ pend.lo < g.lo) \in BOOLEAN
        OBVIOUS
    <2> QED
        BY <2>1 DEF Pends
<1>8. [pend EXCEPT !.retain = TRUE] \in Pends
    BY DEF Pends
<1>9. pend.ends \in SUBSET Word
    BY <1>1
<1>10. ~Empty(pend) => pend.ends \cup {pend.hi} \in SUBSET Word
    <2>1. ~Empty(pend) => pend.hi \in Word
        <3>1. PICK x \in Nat, y \in Nat : x = pend.lo /\ y = pend.hi /\ 1 <= x /\ y <= MaxWord
            BY <1>1, LosAre
        <3>2. ~Empty(pend) => 1 <= y
            BY <3>1 DEF Empty
        <3> QED
            BY <3>1, <3>2, LosAre
    <2> QED
        BY <1>1, <2>1
<1>11. NoPend \in Pends /\ NoAnchor \in Anchors
    BY NothingIs
<1>12. \/ j = as(g, pend, anc)
       \/ j = as([lo |-> pend.lo, hi |-> pend.hi, ends |-> pend.ends], pend, anc)
       \/ j = as(whole(inner),
                 [pend EXCEPT !.terminal = FALSE,
                              !.retain = pend.reason = "hard" /\ pend.lo < g.lo], anc)
       \/ j = as(g, NoPend, anc)
       \/ j = as(whole(pend.ends), [pend EXCEPT !.retain = TRUE], NoAnchor)
       \/ ~Empty(pend) /\ j = as(whole(pend.ends \cup {pend.hi}), [pend EXCEPT !.retain = TRUE],
                                 NoAnchor)
       \/ j = as(whole(pend.ends), [pend EXCEPT !.retain = TRUE], anc)
    BY DEF Joined
<1> HIDE DEF whole, inner, as, Good
<1>13. Good(j)
    BY <1>3, <1>4, <1>5, <1>6, <1>7, <1>8, <1>9, <1>10, <1>11, <1>12
<1> QED
    BY <1>13 DEF Good

\* What the anchor repeats is cut off.
LEMMA ComposeIs ==
    ASSUME pend \in Pends, NEW g \in Texts, NEW anc \in Anchors, NEW c, c = Compose(g, anc)
    PROVE  c.text \in Texts /\ c.pend \in Pends /\ c.anchor \in Anchors
<1>1. PICK j : j = Joined(g, anc)
    OBVIOUS
<1>2. /\ j = [text |-> j.text, pend |-> j.pend, anchor |-> j.anchor]
      /\ j.text \in Texts /\ j.pend \in Pends /\ j.anchor \in Anchors
    BY <1>1, JoinedIs
<1>3. CASE Cuts(j)
    <2>1. c = [j EXCEPT !.text.lo = @ + 1]
        BY <1>1, <1>3 DEF Compose
    <2>2. c.text = [j.text EXCEPT !.lo = @ + 1] /\ c.pend = j.pend /\ c.anchor = j.anchor
        BY <1>2, <2>1
    <2>3. PICK x \in Nat, y \in Nat : x = j.text.lo /\ y = j.text.hi /\ 1 <= x /\ y <= MaxWord
        BY <1>2, LosAre DEF Texts
    <2>4. x <= y
        BY <1>3, <2>3 DEF Cuts, Empty
    <2>5. x + 1 \in Los
        BY <2>3, <2>4, LosAre
    <2>6. [j.text EXCEPT !.lo = @ + 1] \in Texts
        BY <1>2, <2>3, <2>5 DEF Texts
    <2> QED
        BY <1>2, <2>2, <2>6
<1>4. CASE ~Cuts(j)
    BY <1>1, <1>2, <1>4 DEF Compose
<1> QED
    BY <1>3, <1>4

\* The words that are not consumed.
LEMMA OpenIs ==
    ASSUME NEW us \in Seq(Units), NEW t \in Texts, NEW m, NEW end \in Nat, end <= Len(us)
    PROVE  Open(us, t, m, end) \in Texts
<1>1. t.lo \in Los /\ t.hi \in His /\ t.ends \subseteq Word
    BY DEF Texts
<1>2. PICK rest \in Units : rest = Rest(t, m)
    BY NothingIs, TailIs DEF Rest
<1>3. PICK n \in Nat : n = Len(us)
    BY LenProperties
<1>4. PICK from \in Los : from = IF end < n THEN us[end + 1].lo ELSE rest.lo
    <2>1. rest.lo \in Los
        BY DEF Units
    <2>2. CASE end < n
        <3>1. end + 1 \in 1..n
            BY <2>2
        <3>2. us[end + 1] \in Units
            BY <1>3, <3>1, Members
        <3>3. us[end + 1].lo \in Los
            BY <3>2 DEF Units
        <3> QED
            BY <2>2, <3>3
    <2>3. CASE ~(end < n)
        BY <2>1, <2>3
    <2> QED
        BY <2>2, <2>3
<1>5. PICK hi \in His : hi = IF end < n \/ ~Empty(rest) THEN t.hi ELSE from - 1
    <2>1. from - 1 \in His
        BY LosAre
    <2> QED
        BY <1>1, <2>1
<1>6. PICK cut : cut = IF end < n /\ m.slice /\ ~m.force /\ Short(us[end + 1])
                       THEN {us[end + 1].hi} ELSE {}
    OBVIOUS
<1>7. Open(us, t, m, end)
        = [lo |-> from, hi |-> hi, ends |-> {w \in t.ends : from <= w /\ w <= hi} \ cut]
    BY <1>2, <1>3, <1>4, <1>5, <1>6 DEF Open
<1>8. {w \in t.ends : from <= w /\ w <= hi} \ cut \in SUBSET Word
    BY <1>1
<1> QED
    BY <1>7, <1>8 DEF Texts

\* A row takes only what is more than it.
LEMMA AcceptsIs ==
    ASSUME NEW i, NEW u, NEW row, NEW span, NEW k, NEW m, NEW def, NEW aged,
           Accepts(i, u, row, span, k, m, def, aged)
    PROVE  Wider(u, row)
BY DEF Accepts, Big, Small, Wider

\* A reading of a text, and what the merges leave of the rows.
Readings(x) ==
    /\ x.text \in Texts /\ x.pend \in Pends /\ x.anchor \in Anchors /\ x.born \in [Word -> Nat]
    /\ x.seen = UnitsOf(x.text)
    /\ \A s \in DOMAIN x.evidence :
           \E k \in 1..Len(x.seen) : Span(x.seen[k], x.text, x.born) = s

\* The runs that go on from rows.
Goes(u, rs, x) ==
    /\ u.text = x.text /\ u.born = x.born /\ u.units = x.seen /\ u.evidence = x.evidence
    /\ u.pend \in Pends /\ u.anchor \in Anchors /\ u.open \in Texts
    /\ Sound(u.rows) /\ Follows(rs, u.rows) /\ Backed(u.rows, x.seen, x.text, x.born)
    /\ Aims(u.cand, Len(u.rows))

\* A run goes on from the rows that the merges leave.
LEMMA OutcomeIs ==
    ASSUME NEW x, Readings(x), NEW R, Sound(R.rows), Backed(R.rows, x.seen, x.text, x.born),
           Aims(R.cand, Len(R.rows)), NEW us \in Seq(Units), Len(R.cand) <= Len(us),
           NEW from \in Nat, NEW end \in Nat, Len(R.cand) <= from, from <= end, end <= Len(us),
           NEW grown, Widens(grown, us, R.rows, R.cand),
           NEW u, u = Outcome(x, R, us, from, end, grown)
    PROVE  Goes(u, R.rows, x)
<1>1. /\ x.text \in Texts /\ x.pend \in Pends /\ x.anchor \in Anchors /\ x.born \in [Word -> Nat]
      /\ \A s \in DOMAIN x.evidence :
             \E k \in 1..Len(x.seen) : Span(x.seen[k], x.text, x.born) = s
    BY DEF Readings
<1>2. PICK t \in Texts, b \in [Word -> Nat] : t = x.text /\ b = x.born
    BY <1>1
<1>3. PICK upgraded : upgraded = Grown(R.rows, R.cand, us, t, b, grown)
    OBVIOUS
<1>4. PICK new : new = {k \in from + 1..end : ~Held(us[k], Span(us[k], t, b), x.mode, upgraded)}
    OBVIOUS
<1>5. /\ u.text = t /\ u.born = b /\ u.units = x.seen /\ u.evidence = x.evidence
      /\ u.rows = Confirmed(WithNew(upgraded, us, new, t, b), t, b, x.evidence)
      /\ u.cand = Recorded(R.cand, us, from, end, new, grown, Len(upgraded))
      /\ u.open = Open(us, t, x.mode, end)
      /\ u.pend = NoPend \/ u.pend = x.pend
      /\ u.anchor = NoAnchor \/ u.anchor = x.anchor
    BY <1>2, <1>3, <1>4 DEF Outcome, Grown
<1>6. /\ Sound(upgraded) /\ Follows(R.rows, upgraded) /\ Backed(upgraded, x.seen, t, b)
      /\ Len(upgraded) = Len(R.rows)
    <2>1. Backed(R.rows, x.seen, t, b)
        BY <1>2
    <2>3. /\ Sound(Grown(R.rows, R.cand, us, t, b, grown))
          /\ Follows(R.rows, Grown(R.rows, R.cand, us, t, b, grown))
          /\ Backed(Grown(R.rows, R.cand, us, t, b, grown), x.seen, t, b)
          /\ Len(Grown(R.rows, R.cand, us, t, b, grown)) = Len(R.rows)
        BY <2>1, GrownIs
    <2> QED
        BY ONLY <1>3, <2>3
<1>7. PICK n \in Nat, l \in Nat : n = Len(us) /\ l = Len(R.rows)
    <2>1. R.rows \in Seq(RowSet)
        BY DEF Sound
    <2> QED
        BY <2>1, LenProperties
<1>8. new \subseteq from + 1..end /\ Places(new, Len(us))
    <2>1. \A k \in new : k \in from + 1..end /\ k \in 1..n
        BY <1>4, <1>7
    <2> QED
        BY <1>7, <2>1 DEF Places
<1>9. PICK mid : mid = WithNew(upgraded, us, new, t, b)
    OBVIOUS
<1>10. /\ Sound(mid) /\ Follows(upgraded, mid) /\ Backed(mid, x.seen, t, b)
       /\ Len(mid) = Count(upgraded, new)
    <2>1. Sound(upgraded) /\ Backed(upgraded, x.seen, t, b) /\ Places(new, Len(us))
        BY <1>6, <1>8
    <2>2. /\ Sound(WithNew(upgraded, us, new, t, b))
          /\ Follows(upgraded, WithNew(upgraded, us, new, t, b))
          /\ Backed(WithNew(upgraded, us, new, t, b), x.seen, t, b)
          /\ Len(WithNew(upgraded, us, new, t, b)) = Count(upgraded, new)
        BY <2>1, WithNewIs
    <2> QED
        BY ONLY <1>9, <2>2
<1>11. PICK seen \in Seq(Units) : seen = x.seen
    BY <1>2, UnitsAre DEF Readings
<1>12. /\ Sound(u.rows) /\ Follows(mid, u.rows) /\ Backed(u.rows, seen, t, b)
       /\ Len(u.rows) = Len(mid)
    <2>1. u.rows = Confirmed(mid, t, b, x.evidence)
        BY <1>5, <1>9
    <2>2. Backed(mid, seen, t, b)
        BY <1>10, <1>11
    <2>3. \A s \in DOMAIN x.evidence : \E k \in 1..Len(seen) : Span(seen[k], t, b) = s
        BY <1>1, <1>2, <1>11
    <2> QED
        BY SMTT(30), <1>10, <2>1, <2>2, <2>3, ConfirmedIs
<1>13. Follows(R.rows, u.rows)
    BY <1>6, <1>10, <1>12, FollowsOn
<1>14. Aims(u.cand, Len(u.rows))
    <2>1. Aims(R.cand, l) /\ Len(upgraded) = l
        BY <1>6, <1>7
    <2>2. u.cand = Recorded(R.cand, us, from, end, new, grown, l)
        BY <1>5, <2>1
    <2>3. Aims(u.cand, Beyond(l, new))
        <3>1. Steps(R.cand, us, from, end, new, grown)
            BY <1>8 DEF Steps, Widens
        <3> QED
            BY <2>1, <2>2, <3>1, RecordedIs
    <2>4. Len(u.rows) = Beyond(l, new)
        BY <1>10, <1>12, <2>1 DEF Count
    <2> QED
        BY <2>3, <2>4
<1>15. u.open \in Texts
    BY <1>5, OpenIs
<1>16. u.pend \in Pends /\ u.anchor \in Anchors
    BY <1>1, <1>5, NothingIs
<1> QED
    BY <1>2, <1>5, <1>11, <1>12, <1>13, <1>14, <1>15, <1>16 DEF Goes

\* A run on a text goes on from the rows there are.
LEMMA UpdateIs ==
    ASSUME pend \in Pends, born \in [Word -> Nat], base \in Nat, Sound(rows),
           Aims(cand, Len(rows)), NEW in, in.text \in Texts, in.anchor \in Anchors,
           NEW m, NEW early, NEW aged, NEW u, u = Update(in, m, early, aged)
    PROVE  /\ u.text \in Texts /\ u.born \in [Word -> Nat] /\ u.units = UnitsOf(u.text)
           /\ u.pend \in Pends /\ u.anchor \in Anchors /\ u.open \in Texts
           /\ Sound(u.rows) /\ Follows(rows, u.rows) /\ Backed(u.rows, u.units, u.text, u.born)
           /\ Aims(u.cand, Len(u.rows))
<1>1. PICK j : j = Compose(in.text, in.anchor)
    OBVIOUS
<1>2. j.text \in Texts /\ j.pend \in Pends /\ j.anchor \in Anchors
    BY <1>1, ComposeIs
<1>3. PICK b : b = Born(j.text)
    OBVIOUS
<1>4. b \in [Word -> Nat]
    <2>1. \A w \in Word : born[w] \in Nat /\ born[w] + 1 \in Nat
        OBVIOUS
    <2> QED
        BY <1>3, <2>1 DEF Born
<1>5. PICK x : x = Reading(j, b, in, m, early, aged)
    OBVIOUS
<1>6. /\ x.text = j.text /\ x.pend = j.pend /\ x.anchor = j.anchor /\ x.born = b
      /\ x.seen = UnitsOf(j.text) /\ x.mode = m /\ x.early = early /\ x.aged = aged
      /\ x.evidence = Observed(UnitsOf(j.text), j.text, b, in.raw, in.fresh)
    BY <1>5 DEF Reading
<1>7. PICK seen : seen = UnitsOf(j.text)
    OBVIOUS
<1>8. seen \in Seq(Units) /\ Apart(seen)
    BY <1>2, <1>7, UnitsAre DEF Apart
<1>9. Readings(x)
    <2>1. \A s \in DOMAIN Observed(seen, j.text, b, in.raw, in.fresh) :
              \E k \in 1..Len(seen) : Span(seen[k], j.text, b) = s
        BY <1>8, ObservedIs
    <2> QED
        BY <1>2, <1>4, <1>6, <1>7, <2>1 DEF Readings
<1>10. u = Merging(x)
    BY <1>1, <1>3, <1>5 DEF Update
<1>11. PICK rs : rs = Revoked(seen, j.text, b)
    OBVIOUS
<1>12. Sound(rs) /\ Follows(rows, rs) /\ Backed(rs, seen, j.text, b) /\ Len(rs) = Len(rows)
    BY <1>8, <1>11, RevokedIs
<1>13. PICK R : R = Reconcile(seen, j.text, b, rs)
    OBVIOUS
<1>14. /\ Sound(R.rows) /\ Follows(rs, R.rows) /\ Backed(R.rows, seen, j.text, b)
       /\ Aims(R.cand, Len(R.rows))
    <2>1. Aims(cand, Len(rs))
        BY <1>12
    <2> QED
        BY <1>4, <1>8, <1>12, <1>13, <2>1, ReconcileIs
<1>15. PICK us : us = Completed(j.text, m, R.cand)
    OBVIOUS
<1>16. R.cand \in Seq(Cursors)
    BY <1>14 DEF Aims
<1>17. us \in Seq(Units) /\ Len(R.cand) <= Len(us)
    BY <1>2, <1>15, <1>16, CompletedIs
<1>18. u = Follow(x, R, us)
    BY <1>6, <1>7, <1>10, <1>11, <1>13, <1>15 DEF Merging
<1>19. PICK from : from = Remapped(us, m, R.cand)
    OBVIOUS
<1>20. from \in Len(R.cand)..Len(us) /\ from \in Nat
    BY <1>16, <1>17, <1>19, RemappedIs
<1>21. PICK n \in Nat, c \in Nat : n = Len(us) /\ c = Len(R.cand)
    BY <1>16, <1>17, LenProperties
<1>22. PICK end : end = AtLeast(from, ReadyEnd(us, from, j.text, m, R.previous, early))
    OBVIOUS
<1>23. end \in from..n /\ end \in Nat
    <2>1. from \in 0..n
        BY <1>20, <1>21
    <2> QED
        BY <1>21, <1>22, <2>1, ReadyIs
<1>24. PICK grown :
          grown = {k \in 1..AtMost(Len(us), Len(R.cand)) :
                     LET i == R.cand[k].row
                     IN  i # 0 /\ Accepts(i, us[k], R.rows[i], Span(us[k], x.text, x.born),
                                         k, x.mode, R.deferred, x.aged)}
    OBVIOUS
<1>25. Widens(grown, us, R.rows, R.cand)
    <2> SUFFICES ASSUME NEW k \in grown
                 PROVE  /\ k \in 1..Len(us) /\ k \in 1..Len(R.cand)
                        /\ Wider(us[k], R.rows[R.cand[k].row])
        BY DEF Widens
    <2>1. k \in 1..AtMost(n, c) /\ Wider(us[k], R.rows[R.cand[k].row])
        BY <1>21, <1>24, AcceptsIs
    <2>2. k \in 1..n /\ k \in 1..c
        BY <2>1 DEF AtMost
    <2> QED
        BY <1>21, <2>1, <2>2
<1>26. u = Outcome(x, R, us, from, end, grown)
    BY <1>6, <1>18, <1>19, <1>22, <1>24 DEF Follow
<1>27. Goes(u, R.rows, x)
    <2>1. Len(R.cand) <= from /\ from <= end /\ end <= Len(us)
        BY <1>20, <1>21, <1>23
    <2>2. Backed(R.rows, x.seen, x.text, x.born)
        BY <1>6, <1>7, <1>14
    <2> QED
        BY <1>9, <1>14, <1>17, <1>20, <1>23, <1>25, <1>26, <2>1, <2>2, OutcomeIs
<1>28. Follows(rows, R.rows)
    BY <1>12, <1>14, FollowsOn
<1>29. Follows(R.rows, u.rows)
    BY <1>27 DEF Goes
<1>30. Follows(rows, u.rows)
    BY <1>28, <1>29, FollowsOn
<1> QED
    BY <1>2, <1>4, <1>6, <1>27, <1>30 DEF Goes

-------------------------------------------------------------------------------
(* The invariant, step by step. *)

\* What there is to know of what a run leaves.
Leaves(u) ==
    /\ u.text \in Texts /\ u.born \in [Word -> Nat] /\ u.units = UnitsOf(u.text)
    /\ u.pend \in Pends /\ u.anchor \in Anchors /\ u.open \in Texts
    /\ Sound(u.rows) /\ Follows(rows, u.rows) /\ Backed(u.rows, u.units, u.text, u.born)
    /\ Aims(u.cand, Len(u.rows))

Ledgers == [lo : Los, hi : His, seg : Nat]

Shape ==
    /\ heard \in Texts /\ shown \in Texts /\ segment \in Nat
    /\ pend \in Pends /\ anchor \in Anchors
    /\ ledger \in Ledgers /\ born \in [Word -> Nat] /\ units \in Seq(Units)
    /\ base \in Nat

\* The invariant: the rows are sound, and what may be spoken early is a unit of
\* the text that was processed last.
CommitInv ==
    Shape /\ Sound(rows) /\ Aims(cand, Len(rows)) /\ Backed(rows, units, ledger, born)

\* The marks of a unit depend on where the text begins and ends only.
LEMMA SpanSame ==
    ASSUME NEW u, NEW t, NEW v, NEW b, t.lo = v.lo, t.hi = v.hi
    PROVE  Span(u, t, b) = Span(u, v, b)
BY DEF Span, Within

\* So does what backs a confirmation.
LEMMA BackedSame ==
    ASSUME NEW rs, NEW us, NEW t, NEW v, NEW b, t.lo = v.lo, t.hi = v.hi, Backed(rs, us, t, b)
    PROVE  Backed(rs, us, v, b)
BY SpanSame DEF Backed

\* Every run from a state of the invariant.
LEMMA RunIs ==
    ASSUME CommitInv, NEW in, in.text \in Texts, in.anchor \in Anchors, NEW m, NEW early, NEW aged,
           NEW u, u = Update(in, m, early, aged)
    PROVE  Leaves(u)
<1>1. pend \in Pends /\ born \in [Word -> Nat] /\ base \in Nat /\ Sound(rows)
      /\ Aims(cand, Len(rows))
    BY DEF CommitInv, Shape
<1> QED
    BY <1>1, UpdateIs DEF Leaves

\* What a run leaves has these fields, and no others.
Fields(u) ==
    u = [text |-> u.text, born |-> u.born, units |-> u.units, evidence |-> u.evidence,
         rows |-> u.rows, cand |-> u.cand, previous |-> u.previous, open |-> u.open,
         growing |-> u.growing, deferred |-> u.deferred, pend |-> u.pend, anchor |-> u.anchor,
         clipped |-> u.clipped, moved |-> u.moved]

\* What a run leaves has the fields.
LEMMA OutcomeFields ==
    ASSUME NEW x, NEW R, NEW us, NEW from, NEW end, NEW grown
    PROVE  Fields(Outcome(x, R, us, from, end, grown))
BY DEF Outcome, Fields

\* So it does as a whole.
LEMMA UpdateFields ==
    ASSUME NEW in, NEW m, NEW early, NEW aged
    PROVE  Fields(Update(in, m, early, aged))
<1>1. ASSUME NEW x, NEW R, NEW us PROVE Fields(Follow(x, R, us))
    BY OutcomeFields DEF Follow
<1>2. ASSUME NEW x PROVE Fields(Merging(x))
    BY <1>1 DEF Merging
<1> QED
    BY <1>2 DEF Update

\* What a caller takes over of a run.
LEMMA CommitsIs ==
    ASSUME CommitInv, NEW u, Leaves(u), NEW v, v.text = u.text, v.born = u.born,
           v.units = u.units, Commits(v)
    PROVE  /\ ledger' = [lo |-> u.text.lo, hi |-> u.text.hi, seg |-> segment]
           /\ ledger' \in Ledgers /\ ledger'.lo = u.text.lo /\ ledger'.hi = u.text.hi
           /\ born' = u.born /\ born' \in [Word -> Nat]
           /\ units' = u.units /\ units' \in Seq(Units) /\ rows' = v.rows
<1>1. u.text \in Texts /\ u.born \in [Word -> Nat] /\ u.units = UnitsOf(u.text)
    BY DEF Leaves
<1>2. u.text.lo \in Los /\ u.text.hi \in His
    BY <1>1 DEF Texts
<1>3. segment \in Nat
    BY DEF CommitInv, Shape
<1>4. UnitsOf(u.text) \in Seq(Units)
    BY <1>1, UnitsAre
<1>5. /\ ledger' = [lo |-> v.text.lo, hi |-> v.text.hi, seg |-> segment]
      /\ born' = v.born /\ units' = v.units /\ rows' = v.rows
    BY DEF Commits
<1> QED
    BY <1>1, <1>2, <1>3, <1>4, <1>5 DEF Ledgers

\* A run inside a segment.
LEMMA StaysIs ==
    ASSUME CommitInv, NEW u, Leaves(u), Stays(u), heard' \in Texts, shown' \in Texts
    PROVE  CommitInv' /\ Follows(rows, rows')
<1>1. /\ Commits(u) /\ cand' = u.cand /\ pend' = u.pend /\ anchor' = u.anchor
      /\ segment' = segment /\ base' = base
    BY DEF Stays
<1>2. /\ ledger' \in Ledgers /\ ledger'.lo = u.text.lo /\ ledger'.hi = u.text.hi
      /\ born' = u.born /\ born' \in [Word -> Nat]
      /\ units' = u.units /\ units' \in Seq(Units) /\ rows' = u.rows
    BY <1>1, CommitsIs
<1>3. /\ u.pend \in Pends /\ u.anchor \in Anchors
      /\ Sound(u.rows) /\ Follows(rows, u.rows) /\ Backed(u.rows, u.units, u.text, u.born)
      /\ Aims(u.cand, Len(u.rows))
    BY DEF Leaves
<1>4. segment \in Nat /\ base \in Nat
    BY DEF CommitInv, Shape
<1>5. Shape'
    BY <1>1, <1>2, <1>3, <1>4 DEF Shape
<1>6. Sound(rows')
    BY <1>2, <1>3
<1>7. Aims(cand', Len(rows'))
    BY <1>1, <1>2, <1>3
<1>8. Backed(rows, units, ledger, born)'
    <2>1. ASSUME NEW i \in 1..Len(rows'), i > base', rows'[i].conf, ~rows'[i].pub
          PROVE  \E k \in 1..Len(units') : Span(units'[k], ledger', born') = rows'[i].ids
        <3>1. PICK k \in 1..Len(u.units) : Span(u.units[k], u.text, u.born) = u.rows[i].ids
            BY <1>1, <1>2, <1>3, <2>1 DEF Backed
        <3>2. Span(u.units[k], ledger', u.born) = Span(u.units[k], u.text, u.born)
            BY <1>2, SpanSame
        <3> QED
            BY <1>2, <3>1, <3>2
    <2> QED
        BY <2>1 DEF Backed
<1>9. (Sound(rows) /\ Aims(cand, Len(rows)))'
    BY <1>6, <1>7 DEF Sound, InTurn, Bound, Aims
<1> QED
    BY <1>2, <1>3, <1>5, <1>8, <1>9 DEF CommitInv

\* A run at the end of a segment, or of the stream.
LEMMA FreshIs ==
    ASSUME CommitInv, Fresh, Sound(rows'), heard' \in Texts, shown' \in Texts, segment' \in Nat,
           pend' \in Pends, anchor' \in Anchors, ledger' \in Ledgers, born' \in [Word -> Nat],
           units' \in Seq(Units)
    PROVE  CommitInv'
<1>1. base' = Len(rows') /\ cand' = << >>
    BY DEF Fresh
<1>2. rows' \in Seq(RowSet)
    BY DEF Sound
<1>3. PICK n \in Nat : n = Len(rows')
    BY <1>2, LenProperties
<1>4. Shape'
    BY <1>1, <1>3 DEF Shape
<1>5. Aims(cand', Len(rows'))
    <2>1. << >> \in Seq(Cursors) /\ Len(<< >>) = 0
        BY EmptySeq
    <2>2. \A k \in 1..0 : FALSE
        OBVIOUS
    <2> QED
        BY <1>1, <2>1, <2>2 DEF Aims
<1>6. Backed(rows, units, ledger, born)'
    <2>1. \A i \in 1..n : ~(i > n)
        OBVIOUS
    <2> QED
        BY <1>1, <1>3, <2>1 DEF Backed
<1>7. (Sound(rows) /\ Aims(cand, Len(rows)))'
    BY <1>5 DEF Sound, InTurn, Bound, Aims
<1> QED
    BY <1>4, <1>6, <1>7 DEF CommitInv

\* The texts made of ends.
LEMMA MadeOf ==
    ASSUME NEW a, NEW H, NEW S, NEW g,
           g \in {[lo |-> a, hi |-> h, ends |-> E] : h \in H, E \in S}
    PROVE  \E h \in H, E \in S : g = [lo |-> a, hi |-> h, ends |-> E]
OBVIOUS

\* A decode is a text.
LEMMA DecodesAre ==
    ASSUME CommitInv, NEW g \in Decodes
    PROVE  g \in Texts /\ g.lo = heard.lo
<1>1. heard.lo \in Los
    BY DEF CommitInv, Shape, Texts
<1> DEFINE H == {x \in heard.lo..MaxWord : x - heard.hi \in -1..1}
           S == SUBSET (heard.lo..MaxWord)
<1>0. g \in {[lo |-> heard.lo, hi |-> h, ends |-> E] : h \in H, E \in S}
    BY DEF Decodes
<1>2. PICK h \in heard.lo..MaxWord, E \in SUBSET (heard.lo..MaxWord) :
          g = [lo |-> heard.lo, hi |-> h, ends |-> E]
    <2>1. \A h \in H : h \in heard.lo..MaxWord
        OBVIOUS
    <2> HIDE DEF H, S
    <2>2. PICK h \in H, E \in S : g = [lo |-> heard.lo, hi |-> h, ends |-> E]
        BY <1>0, MadeOf
    <2> QED
        BY <2>1, <2>2 DEF S
<1>3. heard.lo \in Nat /\ 1 <= heard.lo /\ MaxWord \in Nat
    BY <1>1, LosAre
<1>4. h \in His
    <2>1. h \in Nat /\ h <= MaxWord
        BY <1>3
    <2> QED
        BY <2>1, LosAre
<1>5. E \subseteq Word
    <2>1. \A e \in heard.lo..MaxWord : e \in Word
        BY <1>3, LosAre
    <2> QED
        BY <2>1
<1> QED
    BY <1>1, <1>2, <1>4, <1>5 DEF Texts

\* What a segment starts with.
LEMMA NothingAt ==
    ASSUME NEW a \in Los
    PROVE  Nothing(a) \in Texts
<1>1. a - 1 \in His
    BY LosAre
<1> QED
    BY <1>1 DEF Nothing, Texts

\* What the callers give a run is typed.
LEMMA InputIs ==
    ASSUME CommitInv, NEW t \in Texts, NEW raw, NEW fresh
    PROVE  Input(t, raw, fresh).text \in Texts /\ Input(t, raw, fresh).anchor \in Anchors
BY DEF Input, CommitInv, Shape

\* A decode.
LEMMA PartialIs ==
    ASSUME CommitInv, NEW g \in Decodes, NEW hold \in BOOLEAN, NEW early \in BOOLEAN,
           NEW aged \in BOOLEAN, Partial(g, hold, early, aged)
    PROVE  CommitInv' /\ Follows(rows, rows')
<1>1. PICK t \in Texts : t = IF hold THEN shown ELSE g
    BY DecodesAre DEF CommitInv, Shape
<1>2. PICK u : u = Update(Input(t, g, TRUE), [Mode EXCEPT !.holdback = TRUE], early, aged)
    OBVIOUS
<1>3. Stays(u) /\ shown' = t /\ heard' = g
    BY <1>1, <1>2 DEF Partial
<1>4. Leaves(u)
    <2>1. Input(t, g, TRUE).text \in Texts /\ Input(t, g, TRUE).anchor \in Anchors
        BY InputIs
    <2> QED
        BY <1>2, <2>1, RunIs
<1>5. heard' \in Texts /\ shown' \in Texts
    BY <1>3, DecodesAre
<1> QED
    BY <1>3, <1>4, <1>5, StaysIs

\* A pause.
LEMMA IdleIs ==
    ASSUME CommitInv, NEW tail \in BOOLEAN, NEW aged \in BOOLEAN, Idle(tail, aged)
    PROVE  CommitInv' /\ Follows(rows, rows')
<1>1. PICK u : u = Update(Input(shown, heard, FALSE),
                          [Mode EXCEPT !.all = TRUE, !.slice = TRUE, !.tail = tail], FALSE, aged)
    OBVIOUS
<1>2. Stays(u) /\ shown' = shown /\ heard' = heard
    BY <1>1 DEF Idle
<1>3. shown \in Texts /\ heard \in Texts
    BY DEF CommitInv, Shape
<1>4. Leaves(u)
    <2>1. /\ Input(shown, heard, FALSE).text \in Texts
          /\ Input(shown, heard, FALSE).anchor \in Anchors
        BY <1>3, InputIs
    <2> QED
        BY <1>1, <2>1, RunIs
<1>5. heard' \in Texts /\ shown' \in Texts
    BY <1>2, <1>3
<1> QED
    BY <1>2, <1>4, <1>5, StaysIs

\* The prefix for the next segment.
LEMMA CarryIs ==
    ASSUME NEW g \in Texts, NEW u, Leaves(u), NEW reason \in {"hard", "vad"}, NEW mid
    PROVE  Carry(g, u, reason, mid) \in Pends
<1>1. PICK own : own = [lo |-> TailOf(g).lo, hi |-> TailOf(g).hi, ends |-> {}]
    OBVIOUS
<1>2. own \in Texts
    <2>1. TailOf(g) \in Units
        BY TailIs
    <2>2. TailOf(g).lo \in Los /\ TailOf(g).hi \in His
        BY <2>1 DEF Units
    <2> QED
        BY <1>1, <2>2 DEF Texts
<1>3. PICK p \in Texts : p = IF Empty(u.open) THEN own ELSE u.open
    BY <1>2 DEF Leaves
<1>4. PICK short \in BOOLEAN :
          short <=> /\ UnitsOf(g) # << >>
                    /\ Unit(p.lo, p.hi) = UnitsOf(g)[Len(UnitsOf(g))]
                    /\ Short(UnitsOf(g)[Len(UnitsOf(g))])
                    /\ UnitsOf(g)[Len(UnitsOf(g))].hi \notin Clauses
    OBVIOUS
<1>5. PICK off \in BOOLEAN : off <=> short \/ (mid /\ Stop(p))
    OBVIOUS
<1>6. PICK ended \in BOOLEAN :
          ended <=> short \/ (off /\ ~(UnitsOf(g) # << >>
                                       /\ Unit(p.lo, p.hi) = UnitsOf(g)[Len(UnitsOf(g))]))
    OBVIOUS
<1>7. PICK E \in SUBSET Word : E = IF off THEN p.ends \ {p.hi} ELSE p.ends
    <2>1. p.ends \in SUBSET Word
        BY DEF Texts
    <2> QED
        BY <2>1
<1>8. \/ Carry(g, u, reason, mid) = NoPend
      \/ \E x \in BOOLEAN :
            Carry(g, u, reason, mid)
              = [lo |-> p.lo, hi |-> p.hi, ends |-> E, reason |-> reason, terminal |-> x,
                 retain |-> FALSE]
    BY <1>1, <1>3, <1>4, <1>5, <1>6, <1>7 DEF Carry
<1>9. p.lo \in Los /\ p.hi \in His /\ reason \in Reasons
    BY DEF Texts, Reasons
<1>10. ASSUME NEW x \in BOOLEAN
       PROVE  [lo |-> p.lo, hi |-> p.hi, ends |-> E, reason |-> reason, terminal |-> x,
               retain |-> FALSE] \in Pends
    BY <1>9 DEF Pends
<1> QED
    BY <1>8, <1>10, NothingIs

\* The end of a segment.
LEMMA RotateIs ==
    ASSUME CommitInv, NEW g \in Decodes, NEW reason \in {"hard", "vad"}, NEW mid \in BOOLEAN,
           NEW forced \in BOOLEAN, NEW canonical \in BOOLEAN, NEW fresh \in BOOLEAN,
           Rotate(g, reason, mid, forced, canonical, fresh)
    PROVE  CommitInv' /\ Follows(rows, rows')
<1>1. g \in Texts
    BY DecodesAre
<1>2. PICK m : m = [Mode EXCEPT !.force = forced, !.tail = forced, !.all = TRUE,
                                !.slice = TRUE, !.final = TRUE,
                                !.holdback = (Len(UnitsOf(g)) = 1 /\ Empty(TailOf(g))
                                              /\ Short(UnitsOf(g)[1]) /\ ~forced) \/ mid,
                                !.promote = ~mid, !.canonical = canonical]
    OBVIOUS
<1>3. PICK u : u = Update(Input(g, g, fresh), m, FALSE, TRUE)
    OBVIOUS
<1>4. Leaves(u)
    <2>1. Input(g, g, fresh).text \in Texts /\ Input(g, g, fresh).anchor \in Anchors
        BY <1>1, InputIs
    <2> QED
        BY <1>3, <2>1, RunIs
<1>5. /\ ~Empty(g) /\ Commits(u) /\ Fresh
      /\ pend' = IF forced THEN NoPend ELSE Carry(g, u, reason, mid)
      /\ anchor' = [hi |-> g.hi, stop |-> Stop(g)]
      /\ segment' = segment + 1
      /\ \E start \in {g.hi + 1} \cup (IF Overlap /\ reason = "hard" THEN {g.hi} ELSE {}) :
             heard' = Nothing(start) /\ shown' = Nothing(start)
    BY <1>2, <1>3 DEF Rotate
<1>6. /\ ledger' \in Ledgers /\ born' \in [Word -> Nat] /\ units' \in Seq(Units)
      /\ rows' = u.rows
    BY <1>4, <1>5, CommitsIs
<1>7. Sound(u.rows) /\ Follows(rows, u.rows)
    BY <1>4 DEF Leaves
<1>8. segment' \in Nat
    BY <1>5 DEF CommitInv, Shape
<1>9. pend' \in Pends
    BY <1>1, <1>4, <1>5, CarryIs, NothingIs
<1>10. anchor' \in Anchors
    <2>1. g.hi \in His
        BY <1>1 DEF Texts
    <2>2. Stop(g) \in BOOLEAN
        BY DEF Stop
    <2> QED
        BY <1>5, <2>1, <2>2 DEF Anchors
<1>11. heard' \in Texts /\ shown' \in Texts
    <2>1. PICK x \in Nat, y \in Nat : x = g.lo /\ y = g.hi /\ 1 <= x /\ y <= MaxWord
        BY <1>1, LosAre DEF Texts
    <2>2. 1 <= y
        BY <1>5, <2>1 DEF Empty
    <2>3. y \in Los /\ y + 1 \in Los
        BY <2>1, <2>2, LosAre
    <2>4. \E start \in {y + 1, y} : heard' = Nothing(start) /\ shown' = Nothing(start)
        BY <1>5, <2>1
    <2> QED
        BY <2>3, <2>4, NothingAt
<1> QED
    BY <1>5, <1>6, <1>7, <1>8, <1>9, <1>10, <1>11, FreshIs

\* The silence after a cut.
LEMMA CarriedIs ==
    ASSUME CommitInv, CarriedEndpoint
    PROVE  CommitInv' /\ Follows(rows, rows')
<1>1. /\ pend \in Pends /\ heard \in Texts /\ shown \in Texts /\ segment \in Nat
    BY DEF CommitInv, Shape
<1>2. PICK t : t = [lo |-> pend.lo, hi |-> pend.hi,
                    ends |-> IF pend.terminal THEN pend.ends \cup {pend.hi} ELSE pend.ends]
    OBVIOUS
<1>3. PICK in : in = [text |-> t, raw |-> heard, fresh |-> FALSE, anchor |-> NoAnchor]
    OBVIOUS
<1>4. PICK u : u = Update(in, [Mode EXCEPT !.force = TRUE, !.all = TRUE, !.slice = TRUE,
                                           !.final = TRUE], FALSE, TRUE)
    OBVIOUS
<1>5. PICK e : e = (u.moved \/ heard.lo <= pend.hi)
    OBVIOUS
<1>6. PICK v : v = [u EXCEPT !.moved = e]
    OBVIOUS
<1>7. /\ ~Empty(pend) /\ Commits(v) /\ Fresh /\ NoCarry
      /\ heard' = heard /\ shown' = shown /\ segment' = segment
    BY <1>2, <1>3, <1>4, <1>5, <1>6 DEF CarriedEndpoint
<1>8. t \in Texts
    <2>1. /\ pend.lo \in Los /\ pend.hi \in His /\ pend.ends \in SUBSET Word
        BY <1>1 DEF Pends
    <2>2. pend.hi \in Word
        <3>1. PICK x \in Nat, y \in Nat : x = pend.lo /\ y = pend.hi /\ 1 <= x /\ y <= MaxWord
            BY <2>1, LosAre
        <3>2. 1 <= y
            BY <1>7, <3>1 DEF Empty
        <3> QED
            BY <3>1, <3>2, LosAre
    <2>3. (IF pend.terminal THEN pend.ends \cup {pend.hi} ELSE pend.ends) \in SUBSET Word
        BY <2>1, <2>2
    <2> QED
        BY <1>2, <2>1, <2>3 DEF Texts
<1>9. Leaves(u)
    <2>1. in.text \in Texts /\ in.anchor \in Anchors
        BY <1>3, <1>8, NothingIs
    <2> QED
        BY <1>4, <2>1, RunIs
<1>10. v.text = u.text /\ v.born = u.born /\ v.units = u.units /\ v.rows = u.rows
    <2>1. Fields(u)
        BY <1>4, UpdateFields
    <2> QED
        BY <1>6, <2>1 DEF Fields
<1>11. /\ ledger' \in Ledgers /\ born' \in [Word -> Nat] /\ units' \in Seq(Units)
       /\ rows' = u.rows
    BY <1>7, <1>9, <1>10, CommitsIs
<1>12. Sound(u.rows) /\ Follows(rows, u.rows)
    BY <1>9 DEF Leaves
<1>13. pend' \in Pends /\ anchor' \in Anchors
    BY <1>7, NothingIs DEF NoCarry
<1>14. heard' \in Texts /\ shown' \in Texts /\ segment' \in Nat
    BY <1>1, <1>7
<1> QED
    BY <1>7, <1>11, <1>12, <1>13, <1>14, FreshIs

\* Rows from nothing but the text.
LEMMA RecommittedIs ==
    ASSUME CommitInv, NEW t \in Texts, NEW rs, rs = Recommitted(t)
    PROVE  Sound(rs) /\ \A i \in 1..Len(rs) : ~rs[i].pub
<1>1. PICK m : m = [Mode EXCEPT !.force = TRUE]
    OBVIOUS
<1>2. PICK us : us = Completed(t, m, << >>)
    OBVIOUS
<1>3. us \in Seq(Units)
    <2>1. << >> \in Seq(Cursors)
        BY EmptySeq
    <2> QED
        BY <1>2, <2>1, CompletedIs
<1>4. PICK n \in Nat : n = Len(us) /\ DOMAIN us = 1..n
    BY <1>3, LenProperties
<1>5. born \in [Word -> Nat]
    BY DEF CommitInv, Shape
<1>6. rs = [k \in 1..n |-> Row(us[k], Span(us[k], t, born))]
    BY <1>1, <1>2, <1>4 DEF Recommitted
<1>7. ASSUME NEW k \in 1..n PROVE rs[k] \in RowSet /\ Bound(rs[k]) /\ ~rs[k].pub
    <2>1. PICK u \in Units : u = us[k]
        BY <1>3, <1>4, Members
    <2>2. Span(u, t, born) \in SUBSET Marks
        BY <1>5, SpanIs
    <2>3. PICK r : r = Row(u, Span(u, t, born))
        OBVIOUS
    <2>4. /\ r \in RowSet /\ r.lo = u.lo /\ r.hi = u.hi /\ r.ids = Span(u, t, born)
          /\ r.pub = FALSE
        BY <2>2, <2>3, RowIs
    <2>5. Bound(r)
        BY <1>5, <2>4, BoundIs
    <2>6. rs[k] = r
        BY <1>6, <2>1, <2>3
    <2> QED
        BY <2>4, <2>5, <2>6
<1>8. rs \in Seq(RowSet) /\ Len(rs) = n
    <2>1. rs \in [1..n -> RowSet]
        BY <1>6, <1>7
    <2> QED
        BY <2>1, SeqOf
<1> QED
    BY <1>7, <1>8 DEF Sound, InTurn

\* The finish.
LEMMA FinishIs ==
    ASSUME CommitInv, NEW g \in Decodes, NEW canonical \in BOOLEAN, Finish(g, canonical)
    PROVE  CommitInv' /\ Follows(rows, rows')
<1>1. g \in Texts /\ segment \in Nat
    BY DecodesAre DEF CommitInv, Shape
<1>2. PICK u : u = Update(Input(g, g, TRUE),
                          [Mode EXCEPT !.force = TRUE, !.final = TRUE, !.canonical = canonical],
                          FALSE, TRUE)
    OBVIOUS
<1>3. PICK rs : rs = IF u.rows = << >> THEN Recommitted(g) ELSE u.rows
    OBVIOUS
<1>4. PICK v : v = [u EXCEPT !.rows = rs]
    OBVIOUS
<1>5. /\ Commits(v) /\ Fresh /\ NoCarry /\ heard' = g /\ shown' = g /\ segment' = segment
    BY <1>2, <1>3, <1>4 DEF Finish
<1>6. Leaves(u)
    <2>1. Input(g, g, TRUE).text \in Texts /\ Input(g, g, TRUE).anchor \in Anchors
        BY <1>1, InputIs
    <2> QED
        BY <1>2, <2>1, RunIs
<1>7. v.text = u.text /\ v.born = u.born /\ v.units = u.units /\ v.rows = rs
    <2>1. Fields(u)
        BY <1>2, UpdateFields
    <2> QED
        BY <1>4, <2>1 DEF Fields
<1>8. /\ ledger' \in Ledgers /\ born' \in [Word -> Nat] /\ units' \in Seq(Units)
      /\ rows' = rs
    BY <1>5, <1>6, <1>7, CommitsIs
<1>9. Sound(u.rows) /\ Follows(rows, u.rows)
    BY <1>6 DEF Leaves
<1>10. Sound(rs) /\ Follows(rows, rs)
    <2>1. CASE u.rows = << >>
        <3>1. Sound(rs) /\ \A i \in 1..Len(rs) : ~rs[i].pub
            BY <1>1, <1>3, <2>1, RecommittedIs
        <3>2. Len(u.rows) = 0 /\ \A i \in 1..0 : FALSE
            BY <2>1, EmptySeq
        <3>3. \A i \in 1..Len(rows) : ~rows[i].pub /\ \A w \in WordsOf(rows[i]) : FALSE
            BY <1>9, <3>2 DEF Follows
        <3> QED
            BY <3>1, <3>3 DEF Follows
    <2>2. CASE u.rows # << >>
        BY <1>3, <1>9, <2>2
    <2> QED
        BY <2>1, <2>2
<1>11. pend' \in Pends /\ anchor' \in Anchors
    BY <1>5, NothingIs DEF NoCarry
<1>12. heard' \in Texts /\ shown' \in Texts /\ segment' \in Nat
    BY <1>1, <1>5
<1> QED
    BY <1>5, <1>8, <1>10, <1>11, <1>12, FreshIs

\* The second reading begins anew, which it may as nothing is published.
LEMMA ReadAgainIs ==
    ASSUME CommitInv, NEW E \in SUBSET Word, ReadAgain(E)
    PROVE  CommitInv' /\ (\A i \in 1..Len(rows) : ~rows[i].pub) /\ done'
<1>1. /\ heard \in Texts /\ segment \in Nat /\ born \in [Word -> Nat] /\ units \in Seq(Units)
      /\ rows \in Seq(RowSet)
    BY DEF CommitInv, Shape, Sound
<1>2. PICK t : t = [lo |-> 1, hi |-> heard.hi, ends |-> E]
    OBVIOUS
<1>3. /\ rows' = Recommitted(t) /\ heard' = t /\ shown' = t
      /\ ledger' = [lo |-> 1, hi |-> heard.hi, seg |-> segment]
      /\ Fresh /\ NoCarry /\ done' = TRUE
      /\ segment' = segment /\ born' = born /\ units' = units
      /\ \A i \in DOMAIN rows : ~rows[i].pub
    BY <1>2 DEF ReadAgain
<1>4. t \in Texts
    <2>1. heard.hi \in His
        BY <1>1 DEF Texts
    <2>2. 1 \in Los
        BY Constants DEF Los
    <2> QED
        BY <1>2, <2>1, <2>2 DEF Texts
<1>5. Sound(rows')
    BY <1>3, <1>4, RecommittedIs
<1>6. ledger' \in Ledgers
    <2>1. heard.hi \in His
        BY <1>1 DEF Texts
    <2>2. 1 \in Los
        BY Constants DEF Los
    <2> QED
        BY <1>1, <1>3, <2>1, <2>2 DEF Ledgers
<1>7. pend' \in Pends /\ anchor' \in Anchors
    BY <1>3, NothingIs DEF NoCarry
<1>8. DOMAIN rows = 1..Len(rows)
    BY <1>1, LenProperties
<1> QED
    BY <1>1, <1>3, <1>4, <1>5, <1>6, <1>7, <1>8, FreshIs

\* A row that is published in its turn.
Issued(r) == [r EXCEPT !.pub = TRUE, !.pids = r.ids]

\* Only its publication changes.
LEMMA IssuedIs ==
    ASSUME NEW r \in RowSet
    PROVE  /\ Issued(r) \in RowSet /\ Issued(r).lo = r.lo /\ Issued(r).hi = r.hi
           /\ Issued(r).ids = r.ids /\ Issued(r).pub = TRUE /\ Issued(r).conf = r.conf
BY DEF Issued, RowSet

\* Publication changes one row, and no word.
LEMMA PublishIs ==
    ASSUME CommitInv, NEW n \in DOMAIN rows, Publish(n)
    PROVE  /\ CommitInv' /\ ~rows[n].pub /\ Len(rows') = Len(rows) /\ DOMAIN rows = 1..Len(rows)
           /\ \A i \in 1..Len(rows) : /\ i # n => rows'[i] = rows[i]
                                      /\ WordsOf(rows'[i]) = WordsOf(rows[i])
<1>1. rows \in Seq(RowSet) /\ (\A i \in 1..Len(rows) : Bound(rows[i])) /\ InTurn(rows)
    BY DEF CommitInv, Sound
<1>2. /\ DOMAIN rows = 1..Len(rows) /\ Len(rows) \in Nat
      /\ \A i \in 1..Len(rows) : rows[i] \in RowSet
    BY <1>1, Members
<1>3. /\ ~rows[n].pub /\ \A j \in 1..n - 1 : rows[j].pub
      /\ rows' = [rows EXCEPT ![n].pub = TRUE, ![n].pids = rows[n].ids]
      /\ UNCHANGED <<heard, shown, segment, pend, anchor, ledger, born, units, base, cand>>
    BY DEF Publish
<1>4. PICK new : new = rows'
    OBVIOUS
<1>5. /\ new = [i \in 1..Len(rows) |-> IF i = n THEN Issued(rows[n]) ELSE rows[i]]
    BY <1>2, <1>3, <1>4 DEF Issued
<1>6. ASSUME NEW i \in 1..Len(rows)
      PROVE  /\ new[i] \in RowSet /\ Bound(new[i]) /\ WordsOf(new[i]) = WordsOf(rows[i])
             /\ new[i].ids = rows[i].ids /\ new[i].conf = rows[i].conf
             /\ new[i].pub <=> rows[i].pub \/ i = n
             /\ i # n => new[i] = rows[i]
    <2>1. CASE i = n
        <3>1. PICK r \in RowSet : r = rows[n]
            BY <1>2, <2>1
        <3>2. PICK s : s = Issued(r)
            OBVIOUS
        <3>3. /\ s \in RowSet /\ s.lo = r.lo /\ s.hi = r.hi /\ s.ids = r.ids /\ s.pub = TRUE
              /\ s.conf = r.conf
            BY <3>2, IssuedIs
        <3>4. WordsOf(s) = WordsOf(r)
            BY <3>3 DEF WordsOf
        <3>5. Bound(s)
            <4>1. Bound(r)
                BY <1>1, <2>1, <3>1
            <4> QED
                BY ONLY <3>3, <3>4, <4>1 DEF Bound
        <3>6. new[i] = s
            BY <1>5, <2>1, <3>1, <3>2
        <3> QED
            BY <2>1, <3>1, <3>3, <3>4, <3>5, <3>6
    <2>2. CASE i # n
        <3>1. new[i] = rows[i]
            BY <1>5, <2>2
        <3> QED
            BY <1>1, <1>2, <2>2, <3>1
    <2> QED
        BY <2>1, <2>2
<1>7. new \in Seq(RowSet) /\ Len(new) = Len(rows)
    <2>1. new \in [1..Len(rows) -> RowSet]
        BY <1>5, <1>6
    <2> QED
        BY <1>2, <2>1, SeqOf
<1>8. InTurn(new)
    <2> SUFFICES ASSUME NEW i \in 1..Len(rows), new[i].pub, NEW j \in 1..i PROVE new[j].pub
        BY <1>7 DEF InTurn
    <2>1. j \in 1..Len(rows)
        BY <1>2
    <2>2. CASE i = n
        <3>1. j = n \/ j \in 1..n - 1
            BY <2>2
        <3> QED
            BY <1>3, <1>6, <2>1, <3>1
    <2>3. CASE i # n
        <3>1. rows[j].pub
            BY <1>1, <1>6, <2>3 DEF InTurn
        <3> QED
            BY <1>6, <2>1, <3>1
    <2> QED
        BY <2>2, <2>3
<1>9. Sound(new)
    BY <1>6, <1>7, <1>8 DEF Sound
<1>10. Shape' /\ Aims(cand', Len(rows'))
    <2>1. Shape /\ Aims(cand, Len(rows))
        BY DEF CommitInv
    <2>2. Shape'
        BY <2>1, <1>3 DEF Shape
    <2>3. cand' = cand /\ Len(rows') = Len(rows)
        BY <1>3, <1>4, <1>7
    <2> QED
        BY <2>1, <2>2, <2>3
<1>11. Backed(rows, units, ledger, born)'
    <2>1. ASSUME NEW i \in 1..Len(rows), i > base, new[i].conf, ~new[i].pub
          PROVE  \E k \in 1..Len(units) : Span(units[k], ledger, born) = new[i].ids
        <3>1. rows[i].conf /\ ~rows[i].pub /\ new[i].ids = rows[i].ids
            BY <1>6, <2>1
        <3>2. Backed(rows, units, ledger, born)
            BY DEF CommitInv
        <3> QED
            BY <2>1, <3>1, <3>2 DEF Backed
    <2> QED
        BY <1>3, <1>4, <1>7, <2>1 DEF Backed
<1>12. (Sound(rows) /\ Aims(cand, Len(rows)))'
    <2>1. rows' \in Seq(RowSet) /\ (\A i \in 1..Len(rows') : Bound(rows'[i])) /\ InTurn(rows')
        BY ONLY <1>4, <1>9 DEF Sound
    <2>2. Sound(rows)'
        BY ONLY <2>1 DEF Sound, InTurn, Bound, WordsOf
    <2>3. Aims(cand, Len(rows))'
        BY ONLY <1>10 DEF Aims
    <2> QED
        BY ONLY <2>2, <2>3
<1> QED
    BY <1>2, <1>3, <1>4, <1>6, <1>7, <1>10, <1>11, <1>12 DEF CommitInv

-------------------------------------------------------------------------------
(* The theorems. *)

\* Nothing is committed at first.
LEMMA CommitInit == Init => CommitInv
<1> SUFFICES ASSUME Init PROVE CommitInv
    OBVIOUS
<1>1. /\ heard = Nothing(1) /\ shown = Nothing(1) /\ segment = 1 /\ pend = NoPend
      /\ anchor = NoAnchor /\ ledger = [lo |-> 1, hi |-> 0, seg |-> 0]
      /\ born = [w \in Word |-> 0] /\ units = << >> /\ rows = << >> /\ base = 0 /\ cand = << >>
    BY DEF Init
<1>2. 1 \in Los /\ 0 \in His
    BY Constants DEF Los, His
<1>3. Nothing(1) \in Texts /\ NoPend \in Pends /\ NoAnchor \in Anchors
    BY <1>2, NothingAt, NothingIs
<1>4. << >> \in Seq(RowSet) /\ << >> \in Seq(Units) /\ << >> \in Seq(Cursors) /\ Len(<< >>) = 0
    BY EmptySeq
<1>5. \A i \in 1..0 : FALSE
    OBVIOUS
<1>6. ledger \in Ledgers /\ born \in [Word -> Nat]
    BY <1>1, <1>2 DEF Ledgers
<1>7. Shape
    BY <1>1, <1>3, <1>4, <1>6 DEF Shape
<1>8. Sound(rows) /\ Aims(cand, Len(rows)) /\ Backed(rows, units, ledger, born)
    BY <1>1, <1>4, <1>5 DEF Sound, InTurn, Aims, Backed
<1> QED
    BY <1>7, <1>8 DEF CommitInv

\* Each step leaves the rows sound, and goes on from them unless it publishes one
\* or reads the whole utterance again.
LEMMA CommitNext ==
    ASSUME CommitInv, Next
    PROVE  /\ CommitInv'
           /\ \/ Follows(rows, rows')
              \/ (\A i \in 1..Len(rows) : ~rows[i].pub) /\ done'
              \/ \E n \in DOMAIN rows : Publish(n)
<1>1. CASE \E g \in Decodes, hold, early, aged \in BOOLEAN : Partial(g, hold, early, aged)
    BY <1>1, PartialIs
<1>2. CASE \E tail, aged \in BOOLEAN : Idle(tail, aged)
    BY <1>2, IdleIs
<1>3. CASE \E g \in Decodes, mid, forced, canonical, fresh \in BOOLEAN, reason \in {"hard", "vad"} :
               Rotate(g, reason, mid, forced, canonical, fresh)
    BY <1>3, RotateIs
<1>4. CASE CarriedEndpoint
    BY <1>4, CarriedIs
<1>5. CASE \E g \in Decodes, canonical \in BOOLEAN : Finish(g, canonical)
    BY <1>5, FinishIs
<1>6. CASE \E E \in SUBSET Word : ReadAgain(E)
    BY <1>6, ReadAgainIs
<1>7. CASE \E n \in DOMAIN rows : Publish(n)
    BY <1>7, PublishIs
<1> QED
    BY <1>1, <1>2, <1>3, <1>4, <1>5, <1>6, <1>7 DEF Next

\* The invariant is about the variables.
LEMMA CommitStutter == CommitInv /\ UNCHANGED vars => CommitInv'
<1> SUFFICES ASSUME CommitInv, UNCHANGED vars PROVE CommitInv'
    OBVIOUS
<1>1. UNCHANGED <<heard, shown, segment, pend, anchor, ledger, born, units, rows, base, cand>>
    BY DEF vars
<1>2. Shape'
    BY <1>1 DEF CommitInv, Shape
<1>3. (Sound(rows) /\ Aims(cand, Len(rows)))'
    BY <1>1 DEF CommitInv, Sound, InTurn, Bound, Aims
<1>4. Backed(rows, units, ledger, born)'
    BY <1>1 DEF CommitInv, Backed
<1> QED
    BY <1>2, <1>3, <1>4 DEF CommitInv

\* In every state the rows are typed, their identities are those of their words,
\* they are published in order, and a confirmed one is a unit of the text.
THEOREM CommitIsSound == Spec => []CommitInv
<1>1. CommitInv /\ [Next]_vars => CommitInv'
    BY CommitNext, CommitStutter
<1> QED
    BY <1>1, CommitInit, PTL DEF Spec

\* A row that may be spoken before its segment ends is a complete unit of the
\* text processed last (Revoked, Upgraded and Merged take the confirmation back).
THEOREM ConfirmedAreCurrent == Spec => []ConfirmedIsCurrent
<1>1. CommitInv => ConfirmedIsCurrent
    <2> SUFFICES ASSUME CommitInv, NEW i \in DOMAIN rows, i > base, rows[i].conf, ~rows[i].pub
                 PROVE  \E k \in DOMAIN units : Span(units[k], ledger, born) = rows[i].ids
        BY DEF ConfirmedIsCurrent
    <2>1. rows \in Seq(RowSet) /\ units \in Seq(Units) /\ Backed(rows, units, ledger, born)
        BY DEF CommitInv, Shape, Sound
    <2>2. DOMAIN rows = 1..Len(rows) /\ DOMAIN units = 1..Len(units)
        BY <2>1, LenProperties
    <2> QED
        BY <2>1, <2>2 DEF Backed
<1> QED
    BY <1>1, CommitIsSound, PTL

\* A published row keeps its place and the words that were spoken.
PublishedStep ==
    \A i \in Published : /\ i \in Published' /\ rows'[i].pids = rows[i].pids
                         /\ WordsOf(rows[i]) \subseteq WordsOf(rows'[i])

\* Each step keeps what is published.
LEMMA PublishedNext == CommitInv /\ [Next]_vars => PublishedStep
<1> SUFFICES ASSUME CommitInv, [Next]_vars PROVE PublishedStep
    OBVIOUS
<1>1. rows \in Seq(RowSet)
    BY DEF CommitInv, Sound
<1>2. DOMAIN rows = 1..Len(rows)
    BY <1>1, LenProperties
<1>3. CASE UNCHANGED vars
    <2>1. rows' = rows
        BY <1>3 DEF vars
    <2> QED
        BY <2>1 DEF PublishedStep, Published
<1>4. CASE Next
    <2>1. rows' \in Seq(RowSet)
        BY <1>4, CommitNext DEF CommitInv, Sound
    <2>2. DOMAIN rows' = 1..Len(rows')
        BY <2>1, LenProperties
    <2>3. CASE Follows(rows, rows')
        <3> SUFFICES ASSUME NEW i \in 1..Len(rows), rows[i].pub
                     PROVE  /\ i \in 1..Len(rows') /\ rows'[i].pub
                            /\ rows'[i].pids = rows[i].pids
                            /\ WordsOf(rows[i]) \subseteq WordsOf(rows'[i])
            BY <1>2, <2>2 DEF PublishedStep, Published
        <3> QED
            BY <2>3 DEF Follows
    <2>4. CASE \A i \in 1..Len(rows) : ~rows[i].pub
        BY <1>2, <2>4 DEF PublishedStep, Published
    <2>5. CASE \E n \in DOMAIN rows : Publish(n)
        <3>1. PICK n \in DOMAIN rows : Publish(n)
            BY <2>5
        <3>2. /\ ~rows[n].pub /\ Len(rows') = Len(rows)
              /\ \A i \in 1..Len(rows) : i # n => rows'[i] = rows[i]
            BY <3>1, PublishIs
        <3>3. \A i \in 1..Len(rows) : rows[i].pub => rows'[i] = rows[i] /\ i \in 1..Len(rows')
            BY <3>2
        <3> QED
            BY <1>2, <2>2, <3>3 DEF PublishedStep, Published
    <2> QED
        BY <1>4, <2>3, <2>4, <2>5, CommitNext
<1> QED
    BY <1>3, <1>4

\* Neither a merge nor a growth nor a new reading changes what was spoken: it is
\* the property PublishedStays of every step.
THEOREM PublishedRowsStay == Spec => PublishedStays
<1>1. CommitInv /\ [Next]_vars => PublishedStep
    BY PublishedNext
<1>2. Spec => [][PublishedStep]_vars
    BY <1>1, CommitIsSound, PTL DEF Spec
<1> QED
    BY <1>2 DEF PublishedStays, PublishedStep

\* A committed word stays committed.
CommittedStep == ~done' \/ Published # {} => Committed \subseteq Committed'

\* Each step keeps what is committed.
LEMMA CommittedNext == CommitInv /\ [Next]_vars => CommittedStep
<1> SUFFICES ASSUME CommitInv, [Next]_vars PROVE CommittedStep
    OBVIOUS
<1>1. rows \in Seq(RowSet)
    BY DEF CommitInv, Sound
<1>2. DOMAIN rows = 1..Len(rows)
    BY <1>1, LenProperties
<1>3. CASE UNCHANGED vars
    <2>1. rows' = rows
        BY <1>3 DEF vars
    <2> QED
        BY <2>1 DEF CommittedStep, Committed
<1>4. CASE Next
    <2>1. rows' \in Seq(RowSet)
        BY <1>4, CommitNext DEF CommitInv, Sound
    <2>2. DOMAIN rows' = 1..Len(rows')
        BY <2>1, LenProperties
    <2>3. CASE Follows(rows, rows')
        <3>1. ASSUME NEW i \in 1..Len(rows), NEW w \in WordsOf(rows[i])
              PROVE  \E j \in 1..Len(rows') : w \in WordsOf(rows'[j])
            BY <2>3 DEF Follows
        <3> QED
            BY <1>2, <2>2, <3>1 DEF CommittedStep, Committed
    <2>4. CASE (\A i \in 1..Len(rows) : ~rows[i].pub) /\ done'
        BY <1>2, <2>4 DEF CommittedStep, Published
    <2>5. CASE \E n \in DOMAIN rows : Publish(n)
        <3>1. PICK n \in DOMAIN rows : Publish(n)
            BY <2>5
        <3>2. /\ Len(rows') = Len(rows)
              /\ \A i \in 1..Len(rows) : WordsOf(rows'[i]) = WordsOf(rows[i])
            BY <3>1, PublishIs
        <3> QED
            BY <1>2, <2>2, <3>2 DEF CommittedStep, Committed
    <2> QED
        BY <1>4, <2>3, <2>4, <2>5, CommitNext
<1> QED
    BY <1>3, <1>4

\* No step but the second reading of the finish takes a committed word away.
THEOREM CommittedWordsStay == Spec => CommittedStays
<1>1. CommitInv /\ [Next]_vars => CommittedStep
    BY CommittedNext
<1>2. Spec => [][CommittedStep]_vars
    BY <1>1, CommitIsSound, PTL DEF Spec
<1> QED
    BY <1>2 DEF CommittedStays, CommittedStep

-------------------------------------------------------------------------------
(* Runs that cut no consumed words differently. *)

\* A row with the words, the identities and the publication of another.
Same(r, s) == r.lo = s.lo /\ r.hi = s.hi /\ r.ids = s.ids /\ r.pids = s.pids /\ r.pub = s.pub
SameRows(new, rs) == Len(new) = Len(rs) /\ \A i \in 1..Len(rs) : Same(new[i], rs[i])

\* A confirmation given or taken leaves the rest of a row.
LEMMA RecastSame ==
    ASSUME NEW rs, Sound(rs), NEW new, Len(new) = Len(rs),
           \A i \in 1..Len(rs) : \E c \in BOOLEAN : new[i] = Recast(rs[i], c)
    PROVE  SameRows(new, rs)
<1>1. \A i \in 1..Len(rs) : rs[i] \in RowSet
    BY Members DEF Sound
<1>2. ASSUME NEW i \in 1..Len(rs) PROVE Same(new[i], rs[i])
    <2>1. PICK r \in RowSet : r = rs[i]
        BY <1>1
    <2>2. PICK c \in BOOLEAN : new[i] = Recast(r, c)
        BY <2>1
    <2>3. Same(Recast(r, c), r)
        BY RecastIs DEF Same
    <2> QED
        BY <2>1, <2>2, <2>3
<1> QED
    BY <1>2 DEF SameRows

\* So it is when confirmations are withdrawn.
LEMMA RevokedSame ==
    ASSUME Sound(rows), NEW us \in Seq(Units), NEW t, NEW b, NEW rs, rs = Revoked(us, t, b)
    PROVE  SameRows(rs, rows)
<1>1. rows \in Seq(RowSet)
    BY DEF Sound
<1>2. DOMAIN rows = 1..Len(rows) /\ \A i \in 1..Len(rows) : rows[i] \in RowSet
    BY <1>1, Members
<1>3. rs = [i \in 1..Len(rows) |->
              IF i > base /\ ~rows[i].pub /\ ~IsCurrent(rows[i], us, t, b)
              THEN Recast(rows[i], FALSE) ELSE rows[i]]
    BY <1>2 DEF Revoked, Recast
<1>4. ASSUME NEW i \in 1..Len(rows) PROVE \E c \in BOOLEAN : rs[i] = Recast(rows[i], c)
    <2>1. rows[i] = Recast(rows[i], rows[i].conf) /\ rows[i].conf \in BOOLEAN
        BY <1>2 DEF Recast, RowSet
    <2> QED
        BY <1>3, <2>1
<1>5. Len(rs) = Len(rows)
    BY RevokedIs
<1> QED
    BY <1>4, <1>5, RecastSame

\* And when they are given.
LEMMA ConfirmedSame ==
    ASSUME NEW rs, Sound(rs), NEW t, NEW b, NEW ev, NEW new, new = Confirmed(rs, t, b, ev),
           Len(new) = Len(rs)
    PROVE  SameRows(new, rs)
<1>1. rs \in Seq(RowSet)
    BY DEF Sound
<1>2. DOMAIN rs = 1..Len(rs) /\ \A i \in 1..Len(rs) : rs[i] \in RowSet
    BY <1>1, Members
<1>3. new = [i \in 1..Len(rs) |-> IF ~rs[i].pub /\ Ready(rs[i], t, b, ev)
                                   THEN Recast(rs[i], TRUE) ELSE rs[i]]
    BY <1>2 DEF Confirmed, Recast
<1>4. ASSUME NEW i \in 1..Len(rs) PROVE \E c \in BOOLEAN : new[i] = Recast(rs[i], c)
    <2>1. rs[i] = Recast(rs[i], rs[i].conf) /\ rs[i].conf \in BOOLEAN
        BY <1>2 DEF Recast, RowSet
    <2> QED
        BY <1>3, <2>1
<1> QED
    BY <1>4, RecastSame

\* Units that share a word are the same one.
LEMMA Shared ==
    ASSUME NEW us \in Seq(Units), Apart(us), NEW j \in 1..Len(us), NEW k \in 1..Len(us),
           NEW w \in WordsOf(us[j]), w \in WordsOf(us[k])
    PROVE  j = k
<1>1. PICK x \in Units, y \in Units : x = us[j] /\ y = us[k]
    BY Members
<1>2. x.lo \in Nat /\ x.hi \in Nat /\ y.lo \in Nat /\ y.hi \in Nat
    BY LosAre DEF Units
<1>3. w \in x.lo..x.hi /\ w \in y.lo..y.hi
    BY <1>1 DEF WordsOf
<1>4. ~(x.hi < y.lo) /\ ~(y.hi < x.lo)
    BY <1>2, <1>3
<1>5. ~(j < k) /\ ~(k < j)
    BY <1>1, <1>4 DEF Apart
<1>6. j \in Int /\ k \in Int
    BY Members
<1> QED
    BY <1>5, <1>6

\* A consumed position has the words of its row, and every row of the segment has
\* a position.
Placed(cs, rs) ==
    /\ base <= Len(rs)
    /\ \A k \in 1..Len(cs) : cs[k].row # 0 =>
          /\ cs[k].row > base /\ cs[k].row <= Len(rs)
          /\ rs[cs[k].row].lo = cs[k].lo /\ rs[cs[k].row].hi = cs[k].hi
    /\ \A i \in 1..Len(rs) : i > base => \E k \in 1..Len(cs) : cs[k].row = i

\* What was consumed is the beginning of the text.
Holds(cs, us) ==
    Len(cs) <= Len(us) /\ \A k \in 1..Len(cs) : us[k] = Unit(cs[k].lo, cs[k].hi)

\* The fields of a consumed position.
LEMMA CursorsAre ==
    ASSUME NEW cs \in Seq(Cursors), NEW k \in 1..Len(cs)
    PROVE  /\ cs[k].lo \in Nat \ {0} /\ cs[k].hi \in Nat /\ cs[k].row \in Nat
           /\ cs[k].lo \in Los /\ cs[k].hi \in His
<1>1. PICK c \in Cursors : c = cs[k]
    BY Members
<1>2. c.lo \in Los /\ c.hi \in His /\ c.row \in Nat
    BY DEF Cursors
<1> QED
    BY <1>1, <1>2, LosAre

\* The same rows are placed alike.
LEMMA PlacedSame ==
    ASSUME NEW cs, NEW rs, NEW new, Placed(cs, rs), SameRows(new, rs),
           Aims(cs, Len(rs)), Len(rs) \in Nat
    PROVE  Placed(cs, new)
<1>1. ASSUME NEW k \in 1..Len(cs), cs[k].row # 0 PROVE cs[k].row \in 1..Len(rs)
    <2>1. cs[k].row \in Nat
        BY CursorsAre DEF Aims
    <2> QED
        BY <1>1, <2>1 DEF Aims
<1>2. ASSUME NEW k \in 1..Len(cs), cs[k].row # 0
      PROVE  /\ cs[k].row > base /\ cs[k].row <= Len(new)
             /\ new[cs[k].row].lo = cs[k].lo /\ new[cs[k].row].hi = cs[k].hi
    <2>1. PICK i \in 1..Len(rs) : i = cs[k].row
        BY <1>1, <1>2
    <2>2. i > base /\ rs[i].lo = cs[k].lo /\ rs[i].hi = cs[k].hi
        BY <1>2, <2>1 DEF Placed
    <2>3. new[i].lo = rs[i].lo /\ new[i].hi = rs[i].hi /\ i <= Len(new)
        BY DEF SameRows, Same
    <2> QED
        BY <2>1, <2>2, <2>3
<1>3. Len(new) = Len(rs)
    BY DEF SameRows
<1> QED
    BY <1>2, <1>3 DEF Placed

\* A row of the segment that shares a word with a unit is the one of its position.
Meets(cs, us, rs) ==
    \A i \in 1..Len(rs) : i > base =>
        \A k \in 1..Len(us) : \A w \in WordsOf(rs[i]) :
            w \in WordsOf(us[k]) => k \in 1..Len(cs) /\ cs[k].row = i

\* So it is where what was consumed is the beginning of the text.
LEMMA PlaceIs ==
    ASSUME NEW rs, NEW us \in Seq(Units), Apart(us), NEW cs, Placed(cs, rs), Holds(cs, us),
           cs \in Seq(Cursors)
    PROVE  Meets(cs, us, rs)
<1> SUFFICES ASSUME NEW i \in 1..Len(rs), i > base, NEW k \in 1..Len(us),
                    NEW w \in WordsOf(rs[i]), w \in WordsOf(us[k])
             PROVE  k \in 1..Len(cs) /\ cs[k].row = i
    BY DEF Meets
<1>1. PICK c \in 1..Len(cs) : cs[c].row = i
    BY DEF Placed
<1>2. i # 0
    OBVIOUS
<1>3. rs[i].lo = cs[c].lo /\ rs[i].hi = cs[c].hi
    BY <1>1, <1>2 DEF Placed
<1>4. c \in 1..Len(us) /\ us[c] = Unit(cs[c].lo, cs[c].hi)
    <2>1. Len(cs) \in Nat /\ Len(us) \in Nat
        BY Members
    <2> QED
        BY <2>1 DEF Holds
<1>5. WordsOf(us[c]) = WordsOf(rs[i])
    BY <1>3, <1>4 DEF WordsOf, Unit
<1>6. c = k
    BY <1>4, <1>5, Shared
<1> QED
    BY <1>1, <1>6

\* No unit takes the place of two rows.
LEMMA NoMerge ==
    ASSUME NEW rs, Sound(rs), NEW us \in Seq(Units), Apart(us), NEW t, NEW b \in [Word -> Nat],
           cand \in Seq(Cursors), Placed(cand, rs), Holds(cand, us)
    PROVE  Merges(us, t, b, rs) = {}
<1> SUFFICES ASSUME NEW k \in Merges(us, t, b, rs) PROVE FALSE
    OBVIOUS
<1>1. PICK over : over = Over(k, us, t, b, rs)
    OBVIOUS
<1>2. k \in 1..Len(us)
    BY MergeIs
<1>3. \A i \in over : /\ i \in 1..Len(rs) /\ i > base
                      /\ rs[i].ids \cap Span(us[k], t, b) # {}
    BY <1>1, MergeIs
<1>4. Cardinality(over) > 1
    BY <1>1 DEF Merges, Merge, Over
<1>20. Meets(cand, us, rs)
    BY PlaceIs
<1>5. ASSUME NEW i \in over PROVE cand[k].row = i
    <2>1. PICK p : p \in rs[i].ids /\ p \in Span(us[k], t, b)
        BY <1>3
    <2>2. us[k] \in Units
        BY <1>2, Members
    <2>3. p[1] \in WordsOf(us[k])
        BY <2>1, <2>2, SpanIs
    <2>4. Bound(rs[i])
        BY <1>3 DEF Sound
    <2>5. p[1] \in WordsOf(rs[i])
        BY <2>1, <2>4 DEF Bound
    <2>6. i \in 1..Len(rs) /\ i > base
        BY <1>3
    <2>7. PICK w : w = p[1]
        OBVIOUS
    <2> QED
        BY <1>2, <1>20, <2>3, <2>5, <2>6, <2>7 DEF Meets
<1>6. Places(over, Len(rs))
    <2>1. Len(rs) \in Nat
        BY Members DEF Sound
    <2> QED
        BY <1>3, <2>1 DEF Places
<1>7. Cardinality(over) \in Nat
    BY <1>6, RankIs
<1>8. 1 \in 1..Cardinality(over) /\ 2 \in 1..Cardinality(over)
    BY <1>4, <1>7
<1>9. Nth(over, 1) \in over /\ Nth(over, 2) \in over /\ Nth(over, 1) < Nth(over, 2)
    <2>1. Nth(over, 1) \in over
        BY <1>6, <1>8, NthIs
    <2>2. Nth(over, 2) \in over
        BY <1>6, <1>8, NthIs
    <2>3. Nth(over, 1) < Nth(over, 2)
        BY <1>6, <1>8, NthOrder
    <2> QED
        BY <2>1, <2>2, <2>3
<1>10. Nth(over, 1) = Nth(over, 2)
    BY <1>5, <1>9
<1>11. Nth(over, 1) \in Nat
    BY <1>3, <1>9
<1> QED
    BY <1>9, <1>10, <1>11

\* The units of a text one after the other.
Lined(us, t) ==
    /\ us \in Seq(Units) /\ Apart(us)
    /\ \A k \in 1..Len(us) :
          /\ us[k].lo <= us[k].hi /\ Within(us[k], t)
          /\ us[k].lo = IF k = 1 THEN t.lo ELSE us[k - 1].hi + 1

\* The tail is taken for a unit.
TakesTail(t, m) == (m.force \/ m.tail) /\ ~Empty(TailOf(t))

\* The units that a run works on are those of the text, and its tail where it is
\* taken for one.
Whole(us, t, m) ==
    /\ Len(us) = Len(UnitsOf(t)) + (IF TakesTail(t, m) THEN 1 ELSE 0)
    /\ \A k \in 1..Len(UnitsOf(t)) : us[k] = UnitsOf(t)[k]
    /\ TakesTail(t, m) => us[Len(us)] = TailOf(t)

\* So it is if the text has what was consumed.
LEMMA WholeIs ==
    ASSUME NEW t \in Texts, NEW m, NEW cs \in Seq(Cursors), Holds(cs, UnitsOf(t)),
           NEW us, us = Completed(t, m, cs)
    PROVE  Lined(us, t) /\ Whole(us, t, m) /\ Holds(cs, us)
<1>1. PICK vs \in Seq(Units) : vs = UnitsOf(t)
    BY UnitsAre
<1>2. PICK v \in Units : v = TailOf(t)
    BY TailIs
<1>3. PICK n \in Nat, l \in Nat : n = Len(vs) /\ l = Len(us)
    BY <1>1, CompletedIs, LenProperties
<1>4. /\ us \in Seq(Units) /\ n <= l
      /\ \A k \in 1..n : us[k] = vs[k]
      /\ \A k \in 1..l : k > n =>
            \/ k = n + 1 /\ (m.force \/ m.tail) /\ ~Empty(v) /\ us[k] = v
            \/ k <= Len(cs) /\ us[k] = Unit(cs[k].lo, cs[k].hi)
      /\ (m.force \/ m.tail) /\ ~Empty(v) => n + 1 \in 1..l /\ us[n + 1] = v
    BY <1>1, <1>2, <1>3, CompletedIs
<1>5. Len(cs) \in Nat /\ Len(cs) <= n
    BY <1>1, <1>3, LenProperties DEF Holds
<1>6. \A k \in 1..l : k > n => k = n + 1 /\ (m.force \/ m.tail) /\ ~Empty(v) /\ us[k] = v
    <2>1. PICK c \in Nat : c = Len(cs) /\ c <= n
        BY <1>5
    <2>2. ASSUME NEW k \in 1..l, k > n
          PROVE  k = n + 1 /\ (m.force \/ m.tail) /\ ~Empty(v) /\ us[k] = v
        <3>1. ~(k <= c)
            BY <2>1, <2>2
        <3> QED
            BY <1>4, <2>1, <2>2, <3>1
    <2> QED
        BY <2>2
<1>7. l = n + (IF TakesTail(t, m) THEN 1 ELSE 0)
    <2>1. CASE TakesTail(t, m)
        <3>1. n + 1 <= l
            BY <1>2, <1>4, <2>1 DEF TakesTail
        <3>2. ~(n + 2 <= l)
            <4>1. n + 2 > n /\ n + 2 # n + 1 /\ 1 <= n + 2 /\ n + 2 \in Int
                OBVIOUS
            <4> QED
                BY <1>6, <4>1
        <3> QED
            BY <2>1, <3>1, <3>2
    <2>2. CASE ~TakesTail(t, m)
        <3>1. ~(n + 1 <= l)
            <4>1. n + 1 > n /\ 1 <= n + 1 /\ n + 1 \in Int
                OBVIOUS
            <4> QED
                BY <1>2, <1>6, <2>2, <4>1 DEF TakesTail
        <3> QED
            BY <1>4, <2>2, <3>1
    <2> QED
        BY <2>1, <2>2
<1>8. Whole(us, t, m)
    <2>1. TakesTail(t, m) => us[l] = v
        BY <1>6, <1>7
    <2> QED
        BY <1>1, <1>2, <1>3, <1>4, <1>7, <2>1 DEF Whole
<1>9. \A k \in 1..n : /\ vs[k].lo \in Nat \ {0} /\ vs[k].hi \in Nat
                      /\ vs[k].lo <= vs[k].hi /\ Within(vs[k], t)
                      /\ vs[k].lo = IF k = 1 THEN t.lo ELSE vs[k - 1].hi + 1
    <2>1. ASSUME NEW k \in 1..Len(vs)
          PROVE  /\ vs[k].lo \in Nat \ {0} /\ vs[k].hi \in Nat
                 /\ vs[k].lo <= vs[k].hi /\ Within(vs[k], t)
                 /\ vs[k].lo = IF k = 1 THEN t.lo ELSE vs[k - 1].hi + 1
        BY <1>1, UnitsAre
    <2> QED
        BY <1>3, <2>1
<1>10. \A j, k \in 1..n : j < k => vs[j].hi < vs[k].lo
    BY <1>1, <1>3, UnitsAre
<1>11. /\ v.hi = t.hi /\ t.lo <= v.lo
       /\ v.lo = IF n = 0 THEN t.lo ELSE vs[n].hi + 1
    <2>1. vs = << >> <=> n = 0
        BY <1>1, <1>3, EmptySeq
    <2> QED
        BY <1>1, <1>2, <1>3, <2>1, TailIs
<1>12. v.lo \in Nat \ {0} /\ v.hi \in Nat /\ t.lo \in Nat /\ t.hi \in Nat
    BY LosAre DEF Units, Texts
<1>13. ASSUME NEW k \in 1..l
       PROVE  /\ us[k].lo <= us[k].hi /\ Within(us[k], t)
              /\ us[k].lo = IF k = 1 THEN t.lo ELSE us[k - 1].hi + 1
    <2>1. CASE k \in 1..n
        <3>1. us[k] = vs[k] /\ (k # 1 => k - 1 \in 1..n /\ us[k - 1] = vs[k - 1])
            BY <1>4, <2>1
        <3> QED
            BY <1>9, <2>1, <3>1
    <2>2. CASE k \notin 1..n
        <3>1. k > n
            BY <2>2
        <3>2. k = n + 1 /\ ~Empty(v) /\ us[k] = v
            BY <1>6, <3>1
        <3>3. v.lo <= v.hi
            BY <1>12, <3>2 DEF Empty
        <3>4. Within(v, t)
            BY <1>11, <1>12 DEF Within
        <3>5. n # 0 => k - 1 \in 1..n /\ us[k - 1] = vs[n] /\ k # 1
            BY <1>4, <3>2
        <3>6. n = 0 => k = 1
            BY <3>2
        <3> QED
            BY <1>11, <3>2, <3>3, <3>4, <3>5, <3>6
    <2> QED
        BY <2>1, <2>2
<1>14. Apart(us)
    <2> SUFFICES ASSUME NEW j \in 1..l, NEW k \in 1..l, j < k PROVE us[j].hi < us[k].lo
        BY <1>3 DEF Apart
    <2>1. j \in 1..n
        BY <1>6
    <2>2. CASE k \in 1..n
        BY <1>4, <1>10, <2>1, <2>2
    <2>3. CASE k \notin 1..n
        <3>1. k = n + 1 /\ us[k] = v
            BY <1>6, <2>3
        <3>2. n # 0 /\ n \in 1..n
            BY <2>1
        <3>3. v.lo = vs[n].hi + 1
            BY <1>11, <3>2
        <3>4. vs[j].hi <= vs[n].hi
            <4>1. j = n \/ j < n
                BY <2>1
            <4>2. j < n => vs[j].hi < vs[n].lo
                BY <1>10, <2>1, <3>2
            <4>3. vs[j].hi \in Nat /\ vs[n].hi \in Nat /\ vs[n].lo \in Nat /\ vs[n].lo <= vs[n].hi
                BY <1>9, <2>1, <3>2
            <4> QED
                BY <4>1, <4>2, <4>3
        <3>5. vs[j].hi \in Nat /\ vs[n].hi \in Nat
            BY <1>9, <2>1, <3>2
        <3>6. us[j] = vs[j]
            BY <1>4, <2>1
        <3> QED
            BY <3>1, <3>3, <3>4, <3>5, <3>6
    <2> QED
        BY <2>2, <2>3
<1>15. Lined(us, t)
    BY <1>3, <1>4, <1>13, <1>14 DEF Lined
<1>16. Holds(cs, us)
    <2>1. \A k \in 1..Len(cs) : vs[k] = Unit(cs[k].lo, cs[k].hi) /\ k \in 1..n
        BY <1>1, <1>5 DEF Holds
    <2>2. Len(cs) <= l
        BY <1>4, <1>5
    <2> QED
        BY <1>3, <1>4, <2>1, <2>2 DEF Holds
<1> QED
    BY <1>8, <1>15, <1>16

\* The cursor does not move where the text has what was consumed.
LEMMA NotRemapped ==
    ASSUME NEW us \in Seq(Units), Apart(us), NEW cs \in Seq(Cursors), Holds(cs, us), NEW m,
           \A k \in 1..Len(us) : us[k].lo <= us[k].hi
    PROVE  Remapped(us, m, cs) = Len(cs)
<1>1. PICK n \in Nat, c \in Nat : n = Len(us) /\ c = Len(cs)
    BY LenProperties
<1>2. PICK same : same = {k \in c + 1..n : us[1].lo = cs[1].lo /\ us[k].hi = cs[c].hi}
    OBVIOUS
<1>3. CASE c > 0
    <2>1. c \in 1..c /\ c \in 1..n
        BY <1>1, <1>3 DEF Holds
    <2>2. us[c].hi = cs[c].hi
        <3>1. us[c] = Unit(cs[c].lo, cs[c].hi)
            BY <1>1, <2>1 DEF Holds
        <3> QED
            BY <3>1 DEF Unit
    <2>3. ASSUME NEW k \in c + 1..n PROVE us[k].hi # cs[c].hi
        <3>1. k \in 1..n /\ c < k
            BY <2>1
        <3>2. us[c].hi < us[k].lo /\ us[k].lo <= us[k].hi
            BY <1>1, <2>1, <3>1 DEF Apart
        <3>3. us[c].hi \in Nat /\ us[k].lo \in Nat /\ us[k].hi \in Nat
            <4>1. PICK x \in Units, y \in Units : x = us[c] /\ y = us[k]
                BY <1>1, <2>1, <3>1, Members
            <4> QED
                BY <4>1, LosAre DEF Units
        <3> QED
            BY <2>2, <3>2, <3>3
    <2>4. same = {}
        BY <1>2, <2>3
    <2> QED
        BY <1>1, <1>2, <2>4 DEF Remapped
<1>4. CASE ~(c > 0)
    BY <1>1, <1>4 DEF Remapped
<1> QED
    BY <1>3, <1>4

\* A row is not more than itself.
LEMMA NotMore ==
    ASSUME NEW u \in Units, NEW r, r.lo = u.lo, r.hi = u.hi, u.lo <= u.hi
    PROVE  ~Extends(u, r) /\ ~Big(u, r)
<1>1. PICK x \in Nat, y \in Nat : x = u.lo /\ y = u.hi
    BY LosAre DEF Units
<1>2. ~Extends(u, r)
    BY <1>1 DEF Extends
<1>3. Size(r) = Size(u)
    BY DEF Size, WordsOf
<1>4. Size(u) \in Nat
    <2>1. x..y \subseteq 1..y \/ x = 0
        BY <1>1
    <2>2. IsFiniteSet(x..y) /\ Cardinality(x..y) \in Nat
        BY FS_Interval, FS_CardinalityType
    <2> QED
        BY <1>1, <2>2 DEF Size, WordsOf
<1>5. BigGrowth \in Nat \ {0}
    BY Constants
<1>6. ~(Size(u) > Size(r) + BigGrowth)
    BY <1>3, <1>4, <1>5
<1> QED
    BY <1>2, <1>6 DEF Big

\* The rows after a run: the old ones, with those of the new units behind.
Extended(out, rs, us, new, t, b) ==
    /\ Len(out) = Count(rs, new)
    /\ \A i \in 1..Len(rs) : Same(out[i], rs[i])
    /\ \A i \in 1..Len(out) : i > Len(rs) =>
          \E k \in new : /\ k = Nth(new, i - Len(rs))
                         /\ out[i].lo = us[k].lo /\ out[i].hi = us[k].hi
                         /\ out[i].ids = Span(us[k], t, b) /\ out[i].pids = {}

\* The consumed positions after a run.
Consumed(next, cs, us, new, end, old) ==
    /\ next \in Seq(Cursors) /\ Len(next) = end
    /\ \A k \in 1..Len(cs) : next[k] = cs[k]
    /\ \A k \in Len(cs) + 1..end :
          /\ next[k].lo = us[k].lo /\ next[k].hi = us[k].hi
          /\ next[k].row = IF k \in new THEN old + Rank(new, k) ELSE 0

\* The new units are those of which no row has the words.
Picks(new, us, end, m, t, b) ==
    new = {k \in Len(cand) + 1..end : ~Held(us[k], Span(us[k], t, b), m, rows)}

\* What a run does that cuts no consumed words differently: us are the units, those
\* from the consumed ones up to end are consumed now, and new of them become rows.
Adds(u, m, us, end, new) ==
    /\ Lined(us, u.text) /\ Whole(us, u.text, m) /\ Holds(cand, us)
    /\ end \in Nat /\ Len(cand) <= end /\ end <= Len(us)
    /\ Places(new, Len(us)) /\ Picks(new, us, end, m, u.text, u.born)
    /\ Extended(u.rows, rows, us, new, u.text, u.born)
    /\ Consumed(u.cand, cand, us, new, end, Len(rows))
    /\ u.open = Open(us, u.text, m, end)

\* Where it stops, and what it leaves of prefix and anchor.
Ending(u, j, in, m, us, end, new, early) ==
    /\ end = AtLeast(Len(cand), ReadyEnd(us, Len(cand), u.text, m, previous, early))
    /\ u.pend = IF ~Empty(pend) /\ (new # {} \/ m.force) /\ (m.force \/ ~j.pend.retain)
                THEN NoPend ELSE j.pend
    /\ u.anchor = IF in.anchor # NoAnchor /\ (new # {} \/ m.force) THEN NoAnchor ELSE j.anchor

\* Rows that are the same hold the same units.
LEMMA HeldSame ==
    ASSUME NEW u, NEW span, NEW m, NEW rs, SameRows(rs, rows), rs \in Seq(RowSet),
           rows \in Seq(RowSet)
    PROVE  Held(u, span, m, rs) <=> Held(u, span, m, rows)
<1>1. DOMAIN rs = 1..Len(rs) /\ DOMAIN rows = 1..Len(rows) /\ Len(rs) = Len(rows)
    BY Members DEF SameRows
<1>2. \A i \in 1..Len(rows) : Covers(rs[i], span) <=> Covers(rows[i], span)
    BY DEF SameRows, Same, Covers
<1> QED
    BY <1>1, <1>2 DEF Held

\* What a run says of its text and of the consumed units.
LEMMA OutcomeText ==
    ASSUME NEW x, NEW R, NEW us, NEW from, NEW end, NEW grown,
           NEW u, u = Outcome(x, R, us, from, end, grown)
    PROVE  u.text = x.text /\ u.born = x.born
BY DEF Outcome

\* Whether words of the carry are left out of the text.
LEMMA OutcomeClips ==
    ASSUME NEW x, NEW R, NEW us, NEW from, NEW end, NEW grown,
           NEW u, u = Outcome(x, R, us, from, end, grown)
    PROVE  u.clipped <=> (~Empty(pend) /\ x.text.lo > pend.lo)
BY DEF Outcome

\* Whether consumed words are cut differently.
LEMMA OutcomeMoves ==
    ASSUME NEW x, NEW R, NEW us, NEW from, NEW end, NEW grown,
           NEW u, u = Outcome(x, R, us, from, end, grown)
    PROVE  u.moved <=> \E k \in DOMAIN cand :
                           k > Len(x.seen) \/ x.seen[k] # Unit(cand[k].lo, cand[k].hi)
BY DEF Outcome

\* The units that become rows.
Fills(new, x, us, from, end, rs) ==
    new = {k \in from + 1..end : ~Held(us[k], Span(us[k], x.text, x.born), x.mode, rs)}

\* The rows, the positions and the rest.
LEMMA OutcomeRows ==
    ASSUME NEW x, NEW R, NEW us, NEW from, NEW end, NEW grown,
           NEW u, u = Outcome(x, R, us, from, end, grown), NEW t, t = x.text, NEW b, b = x.born,
           NEW upgraded, upgraded = Grown(R.rows, R.cand, us, t, b, grown),
           NEW new, Fills(new, x, us, from, end, upgraded)
    PROVE  /\ u.rows = Confirmed(WithNew(upgraded, us, new, t, b), t, b, x.evidence)
           /\ u.cand = Recorded(R.cand, us, from, end, new, grown, Len(upgraded))
           /\ u.open = Open(us, t, x.mode, end)
BY DEF Outcome, Grown, Fills

\* The prefix that is left.
LEMMA OutcomePend ==
    ASSUME NEW x, NEW R, NEW us, NEW from, NEW end, NEW grown,
           NEW u, u = Outcome(x, R, us, from, end, grown), NEW t, t = x.text, NEW b, b = x.born,
           NEW upgraded, upgraded = Grown(R.rows, R.cand, us, t, b, grown),
           NEW new, Fills(new, x, us, from, end, upgraded)
    PROVE  u.pend = IF ~Empty(pend) /\ (new # {} \/ x.mode.force)
                        /\ (x.mode.force \/ ~x.pend.retain)
                    THEN NoPend ELSE x.pend
BY DEF Outcome, Grown, Fills

\* The anchor that is left.
LEMMA OutcomeAnchor ==
    ASSUME NEW x, NEW R, NEW us, NEW from, NEW end, NEW grown,
           NEW u, u = Outcome(x, R, us, from, end, grown), NEW t, t = x.text, NEW b, b = x.born,
           NEW upgraded, upgraded = Grown(R.rows, R.cand, us, t, b, grown),
           NEW new, Fills(new, x, us, from, end, upgraded)
    PROVE  u.anchor = IF x.old # NoAnchor /\ (new # {} \/ x.mode.force) THEN NoAnchor ELSE x.anchor
BY DEF Outcome, Grown, Fills

\* It is what the new units make of the rows.
LEMMA WithNewLonger ==
    ASSUME NEW rs, Sound(rs), NEW us \in Seq(Units), NEW t, NEW b \in [Word -> Nat], NEW seen,
           Backed(rs, seen, t, b), NEW new, Places(new, Len(us)),
           NEW mid, mid = WithNew(rs, us, new, t, b)
    PROVE  Sound(mid) /\ Longer(mid, rs, us, new, t, b)
BY WithNewIs

\* A run that cuts no consumed words differently adds units.
LEMMA AddsIs ==
    ASSUME CommitInv, Placed(cand, rows), NEW in, in.text \in Texts, in.anchor \in Anchors,
           NEW m, NEW early, NEW aged, NEW u, u = Update(in, m, early, aged), ~u.moved,
           NEW j, j = Compose(in.text, in.anchor)
    PROVE  /\ u.text = j.text /\ u.born = Born(j.text)
           /\ u.clipped <=> ~Empty(pend) /\ u.text.lo > pend.lo
           /\ \E us, end, new : Adds(u, m, us, end, new) /\ Ending(u, j, in, m, us, end, new, early)
<1>0. /\ Sound(rows) /\ Aims(cand, Len(rows)) /\ base \in Nat /\ pend \in Pends
      /\ born \in [Word -> Nat] /\ rows \in Seq(RowSet) /\ cand \in Seq(Cursors)
    BY DEF CommitInv, Shape, Sound, Aims
<1>1. j.text \in Texts /\ j.pend \in Pends /\ j.anchor \in Anchors
    BY <1>0, ComposeIs
<1>2. PICK b : b = Born(j.text)
    OBVIOUS
<1>3. b \in [Word -> Nat]
    <2>1. \A w \in Word : born[w] \in Nat /\ born[w] + 1 \in Nat
        BY <1>0
    <2> QED
        BY <1>2, <2>1 DEF Born
<1>4. PICK t \in Texts : t = j.text
    BY <1>1
<1>5. PICK x : x = Reading(j, b, in, m, early, aged)
    OBVIOUS
<1>6. /\ x.text = t /\ x.pend = j.pend /\ x.anchor = j.anchor /\ x.old = in.anchor /\ x.born = b
      /\ x.seen = UnitsOf(t) /\ x.mode = m /\ x.early = early /\ x.aged = aged
    BY <1>4, <1>5 DEF Reading
<1>7. PICK seen : seen = UnitsOf(t)
    OBVIOUS
<1>8. seen \in Seq(Units) /\ Apart(seen)
    BY <1>7, UnitsAre DEF Apart
<1>9. PICK rs : rs = Revoked(seen, t, b)
    OBVIOUS
<1>10. /\ Sound(rs) /\ Backed(rs, seen, t, b) /\ SameRows(rs, rows) /\ Len(rs) = Len(rows)
       /\ rs \in Seq(RowSet)
    <2>1. Sound(rs) /\ Backed(rs, seen, t, b) /\ Len(rs) = Len(rows)
        BY <1>0, <1>8, <1>9, RevokedIs
    <2>2. SameRows(rs, rows)
        BY <1>0, <1>8, <1>9, RevokedSame
    <2> QED
        BY <2>1, <2>2 DEF Sound
<1>11. PICK R : R = Reconcile(seen, t, b, rs)
    OBVIOUS
<1>12. PICK us : us = Completed(t, m, R.cand)
    OBVIOUS
<1>13. u = Follow(x, R, us)
    BY <1>2, <1>4, <1>5, <1>6, <1>7, <1>9, <1>11, <1>12 DEF Update, Merging
<1>14. PICK from : from = Remapped(us, m, R.cand)
    OBVIOUS
<1>15. PICK end : end = AtLeast(from, ReadyEnd(us, from, t, m, R.previous, early))
    OBVIOUS
<1>16. PICK grown :
          grown = {k \in 1..AtMost(Len(us), Len(R.cand)) :
                     LET i == R.cand[k].row
                     IN  i # 0 /\ Accepts(i, us[k], R.rows[i], Span(us[k], t, b),
                                         k, m, R.deferred, aged)}
    OBVIOUS
<1>17. u = Outcome(x, R, us, from, end, grown)
    BY <1>6, <1>13, <1>14, <1>15, <1>16 DEF Follow
<1>18. /\ u.text = t /\ u.born = b
       /\ u.clipped <=> (~Empty(pend) /\ t.lo > pend.lo)
       /\ u.moved <=> \E k \in DOMAIN cand :
                       k > Len(seen) \/ seen[k] # Unit(cand[k].lo, cand[k].hi)
    <2>1. u.text = t /\ u.born = b
        BY <1>6, <1>17, OutcomeText
    <2>2. u.clipped <=> (~Empty(pend) /\ t.lo > pend.lo)
        BY <1>6, <1>17, OutcomeClips
    <2>3. u.moved <=> \E k \in DOMAIN cand :
                          k > Len(seen) \/ seen[k] # Unit(cand[k].lo, cand[k].hi)
        BY <1>6, <1>7, <1>17, OutcomeMoves
    <2> QED
        BY <2>1, <2>2, <2>3
<1>19. Holds(cand, seen)
    <2>1. DOMAIN cand = 1..Len(cand) /\ Len(cand) \in Nat /\ Len(seen) \in Nat
        BY <1>0, <1>8, Members
    <2>2. \A k \in 1..Len(cand) : ~(k > Len(seen)) /\ seen[k] = Unit(cand[k].lo, cand[k].hi)
        BY <1>18, <2>1
    <2>3. PICK c \in Nat, n \in Nat : c = Len(cand) /\ n = Len(seen)
        BY <2>1
    <2>4. c <= n
        <3>1. c = 0 \/ c \in 1..c
            OBVIOUS
        <3> QED
            BY <2>2, <2>3, <3>1
    <2> QED
        BY <2>2, <2>3, <2>4 DEF Holds
<1>20. Placed(cand, rs)
    <2>1. Len(rows) \in Nat
        BY <1>0, Members
    <2> QED
        BY <1>0, <1>10, <2>1, PlacedSame
<1>21. Merges(seen, t, b, rs) = {}
    BY <1>0, <1>3, <1>8, <1>10, <1>19, <1>20, NoMerge
<1>22. R.rows = rs /\ R.cand = cand /\ R.previous = previous
    BY <1>11, <1>21 DEF Reconcile
<1>23. Lined(us, t) /\ Whole(us, t, m) /\ Holds(cand, us)
    BY <1>0, <1>7, <1>12, <1>19, <1>22, WholeIs
<1>24. us \in Seq(Units) /\ Apart(us) /\ \A k \in 1..Len(us) : us[k].lo <= us[k].hi
    BY <1>23 DEF Lined
<1>25. from = Len(cand)
    BY <1>0, <1>14, <1>22, <1>23, <1>24, NotRemapped
<1>26. PICK n \in Nat, c \in Nat, l \in Nat : n = Len(us) /\ c = Len(cand) /\ l = Len(rows)
    BY <1>0, <1>24, Members
<1>27. c <= n
    BY <1>23, <1>26 DEF Holds
<1>28. end \in c..n /\ end \in Nat
    <2>1. from \in 0..n
        BY <1>25, <1>26, <1>27
    <2> QED
        BY <1>15, <1>25, <1>26, <2>1, ReadyIs
<1>29. grown = {}
    <2> SUFFICES ASSUME NEW k \in grown PROVE FALSE
        OBVIOUS
    <2>1. k \in 1..AtMost(n, c) /\ cand[k].row # 0
        BY <1>16, <1>22, <1>26
    <2>2. k \in 1..n /\ k \in 1..c
        BY <2>1 DEF AtMost
    <2>3. Accepts(cand[k].row, us[k], rs[cand[k].row], Span(us[k], t, b), k, m, R.deferred, aged)
        BY <1>16, <1>22
    <2>4. PICK v \in Units : v = us[k]
        BY <1>24, <1>26, <2>2, Members
    <2>5. v = Unit(cand[k].lo, cand[k].hi)
        BY <1>23, <1>26, <2>2, <2>4 DEF Holds
    <2>6. PICK r : r = rs[cand[k].row]
        OBVIOUS
    <2>7. r.lo = cand[k].lo /\ r.hi = cand[k].hi
        BY <1>20, <1>26, <2>1, <2>2, <2>6 DEF Placed
    <2>10. v.lo = cand[k].lo /\ v.hi = cand[k].hi
        BY <2>5 DEF Unit
    <2>11. v.lo <= v.hi
        BY <1>24, <1>26, <2>2, <2>4
    <2>8. r.lo = v.lo /\ r.hi = v.hi /\ v.lo <= v.hi
        BY <2>7, <2>10, <2>11
    <2>9. ~Extends(v, r) /\ ~Big(v, r)
        BY <2>8, NotMore
    <2> QED
        BY <2>3, <2>4, <2>6, <2>9 DEF Accepts, Small
<1>30. PICK new : new = {k \in c + 1..end : ~Held(us[k], Span(us[k], t, b), m, rs)}
    OBVIOUS
<1>31. Places(new, Len(us)) /\ new \subseteq c + 1..end
    <2>1. \A k \in new : k \in c + 1..end /\ k \in 1..n
        BY <1>28, <1>30
    <2> QED
        BY <1>26, <2>1 DEF Places
<1>32. PICK upgraded : upgraded = Grown(R.rows, R.cand, us, t, b, grown)
    OBVIOUS
<1>33. upgraded = rs
    <2>1. upgraded = [i \in DOMAIN rs |-> rs[i]]
        BY <1>22, <1>29, <1>32 DEF Grown
    <2>2. rs = [i \in DOMAIN rs |-> rs[i]]
        <3>1. rs \in [1..Len(rs) -> RowSet]
            BY <1>10, SeqDef
        <3> QED
            BY <3>1
    <2> QED
        BY <2>1, <2>2
<1>34. /\ u.rows = Confirmed(WithNew(rs, us, new, t, b), t, b, x.evidence)
       /\ u.cand = Recorded(cand, us, c, end, new, {}, l)
       /\ u.open = Open(us, t, m, end)
    <2>1. new = {k \in from + 1..end : ~Held(us[k], Span(us[k], t, b), x.mode, upgraded)}
        BY <1>6, <1>25, <1>26, <1>30, <1>33
    <2>3. Fills(new, x, us, from, end, upgraded)
        BY <1>6, <2>1 DEF Fills
    <2>2. /\ u.rows = Confirmed(WithNew(upgraded, us, new, t, b), t, b, x.evidence)
          /\ u.cand = Recorded(R.cand, us, from, end, new, grown, Len(upgraded))
          /\ u.open = Open(us, t, x.mode, end)
        BY <1>6, <1>17, <1>32, <2>3, OutcomeRows
    <2> QED
        BY <1>6, <1>10, <1>22, <1>25, <1>26, <1>29, <1>33, <2>2
<1>35. Ending(u, j, in, m, us, end, new, early)
    <2>1. new = {k \in from + 1..end : ~Held(us[k], Span(us[k], t, b), x.mode, upgraded)}
        BY <1>6, <1>25, <1>26, <1>30, <1>33
    <2>3. Fills(new, x, us, from, end, upgraded)
        BY <1>6, <2>1 DEF Fills
    <2>2. u.pend = IF ~Empty(pend) /\ (new # {} \/ x.mode.force)
                       /\ (x.mode.force \/ ~x.pend.retain)
                   THEN NoPend ELSE x.pend
        BY <1>6, <1>17, <1>32, <2>3, OutcomePend
    <2>4. u.anchor = IF x.old # NoAnchor /\ (new # {} \/ x.mode.force)
                     THEN NoAnchor ELSE x.anchor
        BY <1>6, <1>17, <1>32, <2>3, OutcomeAnchor
    <2>5. end = AtLeast(Len(cand), ReadyEnd(us, Len(cand), u.text, m, previous, early))
        BY <1>15, <1>18, <1>22, <1>25
    <2>6. u.pend = IF ~Empty(pend) /\ (new # {} \/ m.force) /\ (m.force \/ ~j.pend.retain)
                   THEN NoPend ELSE j.pend
        BY <1>6, <2>2
    <2>7. u.anchor = IF in.anchor # NoAnchor /\ (new # {} \/ m.force)
                     THEN NoAnchor ELSE j.anchor
        BY <1>6, <2>4
    <2> QED
        BY <2>5, <2>6, <2>7 DEF Ending
<1>36. PICK mid : mid = WithNew(rs, us, new, t, b)
    OBVIOUS
<1>37. /\ Sound(mid) /\ Len(mid) = Count(rs, new)
       /\ \A i \in 1..Len(rs) : mid[i] = rs[i]
       /\ \A i \in 1..Len(mid) : i > Len(rs) =>
             \E k \in new : k = Nth(new, i - Len(rs)) /\ mid[i] = Row(us[k], Span(us[k], t, b))
    <2>1. Sound(mid) /\ Longer(mid, rs, us, new, t, b)
        BY <1>3, <1>10, <1>24, <1>31, <1>36, WithNewLonger
    <2> QED
        BY <2>1 DEF Longer
<1>38. SameRows(u.rows, mid)
    <2>1. mid \in Seq(RowSet)
        BY <1>37 DEF Sound
    <2>2. DOMAIN mid = 1..Len(mid) /\ Len(mid) \in Nat
        BY <2>1, Members
    <2>3. Len(Confirmed(mid, t, b, x.evidence)) = Len(mid)
        <3>1. PICK h : h = Confirmed(mid, t, b, x.evidence)
            OBVIOUS
        <3>2. h = [i \in 1..Len(mid) |-> h[i]]
            BY <2>2, <3>1 DEF Confirmed
        <3>3. h \in [1..Len(mid) -> {h[i] : i \in 1..Len(mid)}]
            BY <3>2
        <3>4. Len(h) = Len(mid)
            BY <2>2, <3>3, SeqOf
        <3> QED
            BY <3>1, <3>4
    <2>4. u.rows = Confirmed(mid, t, b, x.evidence)
        BY <1>34, <1>36
    <2> QED
        BY <1>37, <2>3, <2>4, ConfirmedSame
<1>39. Extended(u.rows, rows, us, new, t, b)
    <2>1. Len(u.rows) = Count(rows, new)
        BY <1>10, <1>37, <1>38 DEF Count, SameRows
    <2>2. ASSUME NEW i \in 1..l PROVE Same(u.rows[i], rows[i])
        <3>1. i \in 1..Len(rs) /\ i \in 1..Len(mid)
            <4>1. Cardinality(new) \in Nat
                BY <1>31, RankIs
            <4>2. Len(mid) = l + Cardinality(new)
                BY <1>10, <1>26, <1>37 DEF Count, Beyond
            <4> QED
                BY <1>10, <1>26, <4>1, <4>2
        <3>2. Same(u.rows[i], mid[i]) /\ Same(rs[i], rows[i]) /\ mid[i] = rs[i]
            BY <1>10, <1>26, <1>37, <1>38, <3>1 DEF SameRows
        <3> QED
            BY <3>2 DEF Same
    <2>3. ASSUME NEW i \in 1..Len(u.rows), i > l
          PROVE  \E k \in new : /\ k = Nth(new, i - l)
                                /\ u.rows[i].lo = us[k].lo /\ u.rows[i].hi = us[k].hi
                                /\ u.rows[i].ids = Span(us[k], t, b) /\ u.rows[i].pids = {}
        <3>1. i \in 1..Len(mid) /\ i > Len(rs)
            BY <1>10, <1>26, <1>38, <2>3 DEF SameRows
        <3>2. PICK k \in new : k = Nth(new, i - l) /\ mid[i] = Row(us[k], Span(us[k], t, b))
            BY <1>10, <1>26, <1>37, <3>1
        <3>3. Same(u.rows[i], mid[i])
            BY <1>38, <3>1 DEF SameRows
        <3>4. PICK v \in Units, s \in SUBSET Marks : v = us[k] /\ s = Span(us[k], t, b)
            <4>1. us[k] \in Units
                BY <1>24, <1>31, Members DEF Places
            <4> QED
                BY <1>3, <4>1, SpanIs
        <3>5. Row(v, s).lo = v.lo /\ Row(v, s).hi = v.hi /\ Row(v, s).ids = s
            BY RowIs
        <3>6. Row(v, s).pids = {}
            BY DEF Row, NoRow
        <3> QED
            BY <3>2, <3>3, <3>4, <3>5, <3>6 DEF Same
    <2> QED
        BY <1>26, <2>1, <2>2, <2>3 DEF Extended
<1>40. Consumed(u.cand, cand, us, new, end, l)
    <2>1. Steps(cand, us, c, end, new, {})
        BY <1>26, <1>28, <1>31 DEF Steps
    <2>2. Aims(cand, l)
        BY <1>0, <1>26
    <2>3. PICK next : next = Recorded(cand, us, c, end, new, {}, l)
        OBVIOUS
    <2>4. /\ Aims(next, Beyond(l, new))
          /\ Len(next) = IF end > c THEN end ELSE Len(cand)
          /\ \A k \in 1..Len(next) :
                /\ k \in c + 1..end =>
                      /\ next[k].lo = us[k].lo /\ next[k].hi = us[k].hi
                      /\ next[k].row = IF k \in new THEN l + Rank(new, k) ELSE 0
                /\ k \in 1..Len(cand) /\ k \notin {} => next[k] = cand[k]
        BY <1>24, <1>28, <2>1, <2>2, <2>3, RecordedIs
    <2>5. Len(next) = end
        BY <1>26, <1>28, <2>4
    <2>6. next \in Seq(Cursors)
        BY <2>4 DEF Aims
    <2>7. \A k \in 1..Len(cand) : k \in 1..end
        BY <1>26, <1>28
    <2>8. \A k \in Len(cand) + 1..end : k \in 1..end /\ k \in c + 1..end
        BY <1>26, <1>28
    <2>9. Consumed(next, cand, us, new, end, l)
        BY <2>4, <2>5, <2>6, <2>7, <2>8 DEF Consumed
    <2> QED
        BY <1>34, <2>3, <2>9
<1>41. Picks(new, us, end, m, t, b)
    <2>1. \A k \in c + 1..end : Held(us[k], Span(us[k], t, b), m, rs)
                                   <=> Held(us[k], Span(us[k], t, b), m, rows)
        BY <1>0, <1>10, HeldSame
    <2> QED
        BY <1>26, <1>30, <2>1 DEF Picks
<1>42. Adds(u, m, us, end, new)
    <2>1. Len(cand) <= end /\ end <= Len(us)
        BY <1>26, <1>28
    <2>2. Consumed(u.cand, cand, us, new, end, Len(rows))
        BY <1>26, <1>40
    <2> QED
        BY <1>18, <1>23, <1>28, <1>31, <1>34, <1>39, <1>41, <2>1, <2>2 DEF Adds
<1> QED
    BY <1>2, <1>4, <1>18, <1>35, <1>42

-------------------------------------------------------------------------------
(* Where a text begins, and whose its words are. *)

\* What is left of the prefix is the prefix, or nothing.
LikePend(p) ==
    p = NoPend \/ (p.lo = pend.lo /\ p.hi = pend.hi /\ p.ends = pend.ends /\ p.reason = pend.reason)

\* A joined text begins with the decode or with the prefix, and ends with the decode
\* if there is one.
JoinsOn(j, g) ==
    /\ j.text.lo = g.lo \/ (~Empty(pend) /\ j.text.lo = pend.lo)
    /\ j.text.hi = IF Empty(g) /\ ~Empty(pend) THEN pend.hi ELSE g.hi
    /\ LikePend(j.pend)

\* So it is with every joined text.
LEMMA JoinedOn ==
    ASSUME pend \in Pends, NEW g \in Texts, NEW anc, NEW j, j = Joined(g, anc)
    PROVE  JoinsOn(j, g)
<1> DEFINE whole(E) == [lo |-> pend.lo, hi |-> g.hi, ends |-> E \cup {w \in g.ends : w >= g.lo}]
           inner == {w \in pend.ends : w < pend.hi}
           as(t, p, a) == [text |-> t, pend |-> p, anchor |-> a]
           same(p) == p.lo = pend.lo /\ p.hi = pend.hi /\ p.ends = pend.ends
                      /\ p.reason = pend.reason
           cut == [pend EXCEPT !.terminal = FALSE,
                               !.retain = pend.reason = "hard" /\ pend.lo < g.lo]
           kept == [pend EXCEPT !.retain = TRUE]
<1>1. \/ j = as(g, pend, anc) /\ Empty(pend)
      \/ j = as([lo |-> pend.lo, hi |-> pend.hi, ends |-> pend.ends], pend, anc)
           /\ Empty(g) /\ ~Empty(pend)
      \/ j = as(whole(inner), cut, anc) /\ ~Empty(pend) /\ ~Empty(g)
      \/ j = as(g, NoPend, anc) /\ ~Empty(g)
      \/ j = as(whole(pend.ends), kept, NoAnchor) /\ ~Empty(pend) /\ ~Empty(g)
      \/ j = as(whole(pend.ends \cup {pend.hi}), kept, NoAnchor) /\ ~Empty(pend) /\ ~Empty(g)
      \/ j = as(whole(pend.ends), kept, anc) /\ ~Empty(pend) /\ ~Empty(g)
    BY DEF Joined
<1>2. same(pend)
    OBVIOUS
<1>3. same(cut)
    BY DEF Pends
<1>4. same(kept)
    BY DEF Pends
<1>5. \A E : whole(E).lo = pend.lo /\ whole(E).hi = g.hi
    OBVIOUS
<1>6. ASSUME NEW t, NEW p, NEW a, j = as(t, p, a) PROVE j.text = t /\ j.pend = p
    BY <1>6
<1> HIDE DEF whole, inner, as, cut, kept
<1>7. \/ j.text = g /\ j.pend = pend /\ Empty(pend)
      \/ j.text.lo = pend.lo /\ j.text.hi = pend.hi /\ j.pend = pend /\ Empty(g) /\ ~Empty(pend)
      \/ (\E E : j.text = whole(E)) /\ (j.pend = cut \/ j.pend = kept) /\ ~Empty(pend) /\ ~Empty(g)
      \/ j.text = g /\ j.pend = NoPend /\ ~Empty(g)
    <2>1. ASSUME j = as([lo |-> pend.lo, hi |-> pend.hi, ends |-> pend.ends], pend, anc)
          PROVE  j.text.lo = pend.lo /\ j.text.hi = pend.hi /\ j.pend = pend
        <3>1. /\ j.text = [lo |-> pend.lo, hi |-> pend.hi, ends |-> pend.ends]
              /\ j.pend = pend
            BY <1>6, <2>1
        <3> QED
            BY <3>1
    <2>2. j = as(g, pend, anc) => j.text = g /\ j.pend = pend
        BY <1>6
    <2>3. j = as(g, NoPend, anc) => j.text = g /\ j.pend = NoPend
        BY <1>6
    <2>4. ASSUME NEW E, NEW p, NEW a, j = as(whole(E), p, a)
          PROVE  (\E F : j.text = whole(F)) /\ j.pend = p
        BY <1>6, <2>4
    <2>5. j = as(whole(inner), cut, anc) => (\E E : j.text = whole(E)) /\ j.pend = cut
        BY <2>4
    <2>6. j = as(whole(pend.ends), kept, NoAnchor) => (\E E : j.text = whole(E)) /\ j.pend = kept
        BY <2>4
    <2>7. j = as(whole(pend.ends \cup {pend.hi}), kept, NoAnchor)
            => (\E E : j.text = whole(E)) /\ j.pend = kept
        BY <2>4
    <2>8. j = as(whole(pend.ends), kept, anc) => (\E E : j.text = whole(E)) /\ j.pend = kept
        BY <2>4
    <2> QED
        BY <1>1, <2>1, <2>2, <2>3, <2>5, <2>6, <2>7, <2>8
<1>8. CASE j.text = g /\ j.pend = pend /\ Empty(pend)
    BY <1>8 DEF JoinsOn, LikePend
<1>9. CASE j.text.lo = pend.lo /\ j.text.hi = pend.hi /\ j.pend = pend /\ Empty(g)
             /\ ~Empty(pend)
    BY <1>9 DEF JoinsOn, LikePend
<1>10. CASE (\E E : j.text = whole(E)) /\ (j.pend = cut \/ j.pend = kept) /\ ~Empty(pend)
            /\ ~Empty(g)
    <2>1. j.text.lo = pend.lo /\ j.text.hi = g.hi
        BY <1>5, <1>10
    <2>2. same(j.pend)
        BY <1>3, <1>4, <1>10
    <2>3. LikePend(j.pend)
        BY <2>2 DEF LikePend
    <2> QED
        BY <1>10, <2>1, <2>3 DEF JoinsOn
<1>11. CASE j.text = g /\ j.pend = NoPend /\ ~Empty(g)
    BY <1>11 DEF JoinsOn, LikePend
<1> QED
    BY <1>7, <1>8, <1>9, <1>10, <1>11

\* The anchor takes at most the first word of it.
LEMMA ComposedOn ==
    ASSUME pend \in Pends, NEW g \in Texts, NEW anc \in Anchors, NEW c, c = Compose(g, anc),
           NEW j, j = Joined(g, anc)
    PROVE  /\ c.text.hi = j.text.hi /\ c.text.ends = j.text.ends /\ c.pend = j.pend
           /\ c.text.lo = j.text.lo + (IF Cuts(j) THEN 1 ELSE 0)
<1>1. /\ j = [text |-> j.text, pend |-> j.pend, anchor |-> j.anchor]
      /\ j.text \in Texts /\ j.pend \in Pends /\ j.anchor \in Anchors
    BY JoinedIs
<1>2. PICK x \in Nat : x = j.text.lo
    BY <1>1, LosAre DEF Texts
<1>3. CASE Cuts(j)
    <2>1. c = [j EXCEPT !.text.lo = @ + 1]
        BY <1>3 DEF Compose
    <2>2. c.text = [j.text EXCEPT !.lo = @ + 1] /\ c.pend = j.pend
        BY <1>1, <2>1
    <2>3. PICK t \in Texts : t = j.text
        BY <1>1
    <2>4. /\ [t EXCEPT !.lo = @ + 1].lo = t.lo + 1 /\ [t EXCEPT !.lo = @ + 1].hi = t.hi
          /\ [t EXCEPT !.lo = @ + 1].ends = t.ends
        BY DEF Texts
    <2> QED
        BY <1>3, <2>2, <2>3, <2>4
<1>4. CASE ~Cuts(j)
    <2>1. c = j
        BY <1>4 DEF Compose
    <2> QED
        BY <1>2, <1>4, <2>1
<1> QED
    BY <1>3, <1>4

\* Words that the decoder's text or the prefix may show.
Reached(w) == w >= heard.lo \/ (~Empty(pend) /\ w >= pend.lo)

\* The words of a composed text are such.
LEMMA ComposedReach ==
    ASSUME pend \in Pends, heard \in Texts, NEW g \in Texts, g.lo = heard.lo,
           NEW anc \in Anchors, NEW c, c = Compose(g, anc), NEW w \in WordsOf(c.text)
    PROVE  Reached(w)
<1>1. PICK j : j = Joined(g, anc)
    OBVIOUS
<1>2. JoinsOn(j, g) /\ c.text.lo = j.text.lo + (IF Cuts(j) THEN 1 ELSE 0)
    BY <1>1, JoinedOn, ComposedOn
<1>3. c.text \in Texts /\ j.text \in Texts
    BY <1>1, ComposeIs, JoinedIs
<1>4. PICK x \in Nat, y \in Nat, z \in Nat :
          x = c.text.lo /\ y = j.text.lo /\ z = c.text.hi
    BY <1>3, LosAre DEF Texts
<1>5. w \in Nat /\ w >= x
    BY <1>4 DEF WordsOf
<1>6. x >= y
    BY <1>2, <1>4
<1>7. w >= j.text.lo
    BY <1>4, <1>5, <1>6
<1>8. j.text.lo = heard.lo \/ (~Empty(pend) /\ j.text.lo = pend.lo)
    BY <1>2 DEF JoinsOn
<1> QED
    BY <1>7, <1>8 DEF Reached

\* The identities that rows have are not younger than the ledger's.
Known(rs, b) == \A i \in 1..Len(rs) : \A p \in rs[i].ids : p[2] <= b[p[1]]

\* No occurrence of a word is in two rows.
Disjoint(rs) == \A i, j \in 1..Len(rs) : i # j => rs[i].ids \cap rs[j].ids = {}

\* Words whose identity a text may take over from the ledger.
Passes(w) ==
    \/ ledger.seg = segment /\ w \in WordsOf(ledger) /\ Reached(w)
    \/ /\ ledger.seg # segment /\ ~Empty(pend) /\ Within(pend, ledger)
       /\ ledger.hi = pend.hi /\ w \in WordsOf(pend)

\* No row of an earlier segment has the identity of such a word.
Untold == \A i \in 1..base : \A w \in Word : Passes(w) => <<w, born[w]>> \notin rows[i].ids

\* The words of a text are words.
LEMMA TextWords ==
    ASSUME NEW t \in Texts, NEW w \in WordsOf(t)
    PROVE  w \in Word
<1>1. t.lo \in Nat /\ 1 <= t.lo /\ t.hi \in Nat /\ t.hi <= MaxWord
    BY LosAre DEF Texts
<1>2. w \in Nat /\ t.lo <= w /\ w <= t.hi
    BY <1>1 DEF WordsOf
<1> QED
    BY <1>1, <1>2, LosAre

\* A text has no identity in common with the rows of earlier segments.
LEMMA Fresher ==
    ASSUME CommitInv, Known(rows, born), Untold, base <= Len(rows), NEW t \in Texts,
           \A w \in WordsOf(t) : Reached(w), NEW i \in 1..base, NEW w \in WordsOf(t)
    PROVE  <<w, Born(t)[w]>> \notin rows[i].ids
<1>1. w \in Word
    BY TextWords
<1>2. base \in Nat /\ rows \in Seq(RowSet) /\ born \in [Word -> Nat]
    BY DEF CommitInv, Shape, Sound
<1>3. i \in 1..Len(rows)
    <2>1. Len(rows) \in Nat
        BY <1>2, Members
    <2> QED
        BY <1>2, <2>1
<1>4. Born(t)[w] = IF w \in WordsOf(t) \ Remembered(t) THEN born[w] + 1 ELSE born[w]
    BY <1>1 DEF Born
<1>5. CASE w \in Remembered(t)
    <2>1. Passes(w)
        <3>1. CASE ledger.seg = segment
            BY <1>5, <3>1 DEF Remembered, Passes
        <3>2. CASE ledger.seg # segment
            BY <1>5, <3>2 DEF Remembered, Passes
        <3> QED
            BY <3>1, <3>2
    <2>2. <<w, born[w]>> \notin rows[i].ids
        BY <1>1, <2>1 DEF Untold
    <2> QED
        BY <1>4, <1>5, <2>2
<1>6. CASE w \notin Remembered(t)
    <2>1. PICK p : p = <<w, born[w] + 1>>
        OBVIOUS
    <2>2. p \notin rows[i].ids
        <3>1. p[1] = w /\ p[2] = born[w] + 1
            BY <2>1
        <3>2. p \in rows[i].ids => born[w] + 1 <= born[w]
            BY <1>3, <3>1 DEF Known
        <3>3. born[w] \in Nat
            BY <1>1, <1>2
        <3> QED
            BY <3>2, <3>3
    <2> QED
        BY <1>4, <1>6, <2>1, <2>2
<1> QED
    BY <1>5, <1>6

-------------------------------------------------------------------------------
(* What a run adds is nobody's. *)

\* Units that share no word share no identity.
LEMMA SpansApart ==
    ASSUME NEW us \in Seq(Units), Apart(us), NEW t, NEW b \in [Word -> Nat],
           NEW j \in 1..Len(us), NEW k \in 1..Len(us), j # k
    PROVE  Span(us[j], t, b) \cap Span(us[k], t, b) = {}
<1> SUFFICES ASSUME NEW p \in Span(us[j], t, b), p \in Span(us[k], t, b) PROVE FALSE
    OBVIOUS
<1>1. us[j] \in Units /\ us[k] \in Units
    BY Members
<1>2. p[1] \in WordsOf(us[j]) /\ p[1] \in WordsOf(us[k])
    BY <1>1, SpanIs
<1>3. PICK w : w = p[1]
    OBVIOUS
<1>4. j = k
    BY <1>2, <1>3, Shared
<1> QED
    BY <1>4

\* The identities of a text are those of a ledger.
LEMMA BornIs ==
    ASSUME CommitInv, NEW t
    PROVE  Born(t) \in [Word -> Nat] /\ \A w \in Word : born[w] <= Born(t)[w]
<1>1. \A w \in Word : born[w] \in Nat /\ born[w] + 1 \in Nat /\ born[w] <= born[w] + 1
    BY DEF CommitInv, Shape
<1> QED
    BY <1>1 DEF Born

\* What the rows of a state own.
Owns == Placed(cand, rows) /\ Known(rows, born) /\ Untold /\ Disjoint(rows)

\* A unit behind the consumed ones has no identity that a row has.
LEMMA NewApart ==
    ASSUME CommitInv, Owns, NEW t \in Texts, \A w \in WordsOf(t) : Reached(w),
           NEW us, Lined(us, t), Holds(cand, us), NEW k \in 1..Len(us), k > Len(cand),
           NEW i \in 1..Len(rows)
    PROVE  rows[i].ids \cap Span(us[k], t, Born(t)) = {}
<1> SUFFICES ASSUME NEW p \in Span(us[k], t, Born(t)), p \in rows[i].ids PROVE FALSE
    OBVIOUS
<1>1. us \in Seq(Units) /\ Apart(us) /\ us[k] \in Units /\ Within(us[k], t)
    BY Members DEF Lined
<1>2. Born(t) \in [Word -> Nat]
    BY BornIs
<1>3. PICK w : w = p[1] /\ w \in WordsOf(us[k]) /\ p = <<w, Born(t)[w]>>
    BY <1>1, <1>2, SpanIs
<1>4. Bound(rows[i]) /\ cand \in Seq(Cursors) /\ base \in Nat
    BY DEF CommitInv, Sound, Aims, Shape
<1>5. w \in WordsOf(rows[i])
    BY <1>3, <1>4 DEF Bound
<1>6. CASE i > base
    <2>1. Meets(cand, us, rows)
        BY <1>1, <1>4, PlaceIs DEF Owns
    <2>2. k \in 1..Len(cand)
        BY <1>3, <1>5, <1>6, <2>1 DEF Meets
    <2>3. Len(cand) \in Nat
        BY <1>4, Members
    <2> QED
        BY <2>2, <2>3
<1>7. CASE ~(i > base)
    <2>1. i \in 1..base
        BY <1>4, <1>7
    <2>2. w \in WordsOf(t)
        <3>1. PICK x \in Nat, y \in Nat, c \in Nat, d \in Nat :
                  x = us[k].lo /\ y = us[k].hi /\ c = t.lo /\ d = t.hi
            BY <1>1, LosAre DEF Units, Texts
        <3>2. w \in x..y /\ c <= x /\ y <= d
            BY <1>1, <1>3, <3>1 DEF WordsOf, Within
        <3>3. w \in c..d
            BY <3>2
        <3> QED
            BY <3>1, <3>3 DEF WordsOf
    <2>3. <<w, Born(t)[w]>> \notin rows[i].ids
        BY <2>1, <2>2, Fresher DEF Owns, Placed
    <2> QED
        BY <1>3, <2>3
<1> QED
    BY <1>6, <1>7

\* The rows that a run adds.
Added(i, k, u, us, new) ==
    /\ k \in new /\ k = Nth(new, i - Len(rows)) /\ k \in 1..Len(us) /\ k > Len(cand)
    /\ u.rows[i].lo = us[k].lo /\ u.rows[i].hi = us[k].hi
    /\ u.rows[i].ids = Span(us[k], u.text, u.born) /\ u.rows[i].pids = {}

\* They are made of units behind the consumed ones.
LEMMA AddedIs ==
    ASSUME CommitInv, NEW u, NEW m, NEW us, NEW end, NEW new, Adds(u, m, us, end, new),
           NEW i \in 1..Len(u.rows), i > Len(rows)
    PROVE  \E k \in new : Added(i, k, u, us, new)
<1>1. PICK k \in new : /\ k = Nth(new, i - Len(rows))
                       /\ u.rows[i].lo = us[k].lo /\ u.rows[i].hi = us[k].hi
                       /\ u.rows[i].ids = Span(us[k], u.text, u.born) /\ u.rows[i].pids = {}
    BY DEF Adds, Extended
<1>2. k \in Len(cand) + 1..end /\ k \in 1..Len(us)
    BY DEF Adds, Picks, Places
<1>3. Len(cand) \in Nat /\ end \in Nat
    BY Members DEF CommitInv, Aims, Adds
<1>4. k > Len(cand)
    BY <1>2, <1>3
<1> QED
    BY <1>1, <1>2, <1>4 DEF Added

\* The old rows stay what they were.
LEMMA OldIs ==
    ASSUME CommitInv, NEW u, NEW m, NEW us, NEW end, NEW new, Adds(u, m, us, end, new)
    PROVE  /\ \A i \in 1..Len(rows) : Same(u.rows[i], rows[i]) /\ i \in 1..Len(u.rows)
           /\ Len(rows) \in Nat /\ Cardinality(new) \in Nat
           /\ Len(u.rows) = Len(rows) + Cardinality(new) /\ Len(rows) <= Len(u.rows)
<1>1. Len(rows) \in Nat
    BY Members DEF CommitInv, Sound
<1>2. Cardinality(new) \in Nat
    BY RankIs DEF Adds
<1>3. Len(u.rows) = Len(rows) + Cardinality(new)
    BY DEF Adds, Extended, Count, Beyond
<1>4. \A i \in 1..Len(rows) : Same(u.rows[i], rows[i])
    BY DEF Adds, Extended
<1>5. Len(rows) <= Len(u.rows)
    BY <1>1, <1>2, <1>3
<1>6. \A i \in 1..Len(rows) : i \in 1..Len(u.rows)
    BY <1>1, <1>2, <1>3
<1> QED
    BY <1>1, <1>2, <1>3, <1>4, <1>5, <1>6

\* A run keeps the occurrences of words apart.
LEMMA RunApart ==
    ASSUME CommitInv, Owns, NEW u, NEW m, NEW us, NEW end, NEW new, Adds(u, m, us, end, new),
           u.text \in Texts, u.born = Born(u.text), \A w \in WordsOf(u.text) : Reached(w)
    PROVE  Disjoint(u.rows)
<1>1. /\ \A i \in 1..Len(rows) : Same(u.rows[i], rows[i]) /\ i \in 1..Len(u.rows)
      /\ Len(rows) \in Nat
    BY OldIs
<1>2. Lined(us, u.text) /\ Holds(cand, us) /\ us \in Seq(Units) /\ Apart(us)
      /\ Places(new, Len(us))
    BY DEF Adds, Lined
<1>3. u.born \in [Word -> Nat]
    BY BornIs
<1>4. ASSUME NEW i \in 1..Len(rows), NEW j \in 1..Len(u.rows), j > Len(rows)
      PROVE  u.rows[i].ids \cap u.rows[j].ids = {}
    <2>1. PICK k \in new : Added(j, k, u, us, new)
        BY <1>4, AddedIs
    <2>2. k \in 1..Len(us) /\ k > Len(cand) /\ u.rows[j].ids = Span(us[k], u.text, u.born)
        BY <2>1 DEF Added
    <2>3. rows[i].ids \cap Span(us[k], u.text, Born(u.text)) = {}
        BY <1>2, <2>2, NewApart
    <2>4. u.rows[i].ids = rows[i].ids
        BY <1>1 DEF Same
    <2> QED
        BY <2>2, <2>3, <2>4
<1>5. ASSUME NEW i \in 1..Len(u.rows), i > Len(rows), NEW j \in 1..Len(u.rows), j > Len(rows),
             i # j
      PROVE  u.rows[i].ids \cap u.rows[j].ids = {}
    <2>1. PICK k \in new : Added(i, k, u, us, new)
        BY <1>5, AddedIs
    <2>2. PICK l \in new : Added(j, l, u, us, new)
        BY <1>5, AddedIs
    <2>3. k # l
        <3>1. k = Nth(new, i - Len(rows)) /\ l = Nth(new, j - Len(rows))
            BY <2>1, <2>2 DEF Added
        <3>2. i - Len(rows) \in 1..Cardinality(new) /\ j - Len(rows) \in 1..Cardinality(new)
            <4>1. Cardinality(new) \in Nat /\ Len(u.rows) = Len(rows) + Cardinality(new)
                BY OldIs
            <4> QED
                BY <1>1, <1>5, <4>1
        <3>3. PICK x \in 1..Cardinality(new), y \in 1..Cardinality(new) :
                  x = i - Len(rows) /\ y = j - Len(rows)
            BY <3>2
        <3>4. Rank(new, Nth(new, x)) = x /\ Rank(new, Nth(new, y)) = y
            BY <1>2, NthIs
        <3>5. x # y
            BY <1>1, <1>5, <3>3
        <3> QED
            BY <3>1, <3>3, <3>4, <3>5
    <2>4. Span(us[k], u.text, u.born) \cap Span(us[l], u.text, u.born) = {}
        BY <1>2, <1>3, <2>1, <2>2, <2>3, SpansApart DEF Added
    <2> QED
        BY <2>1, <2>2, <2>4 DEF Added
<1>6. ASSUME NEW i \in 1..Len(u.rows), NEW j \in 1..Len(u.rows), i # j
      PROVE  u.rows[i].ids \cap u.rows[j].ids = {}
    <2>1. CASE i \in 1..Len(rows) /\ j \in 1..Len(rows)
        <3>1. rows[i].ids \cap rows[j].ids = {}
            BY <1>6, <2>1 DEF Owns, Disjoint
        <3> QED
            BY <1>1, <2>1, <3>1 DEF Same
    <2>2. CASE i \in 1..Len(rows) /\ j > Len(rows)
        BY <1>4, <2>2
    <2>3. CASE i > Len(rows) /\ j \in 1..Len(rows)
        <3>1. u.rows[j].ids \cap u.rows[i].ids = {}
            BY <1>4, <2>3
        <3> QED
            BY <3>1
    <2>4. CASE i > Len(rows) /\ j > Len(rows)
        BY <1>5, <1>6, <2>4
    <2>5. (i \in 1..Len(rows) \/ i > Len(rows)) /\ (j \in 1..Len(rows) \/ j > Len(rows))
        BY <1>1
    <2> QED
        BY <2>1, <2>2, <2>3, <2>4, <2>5
<1> QED
    BY <1>6 DEF Disjoint

\* The identities that the rows have stay known.
LEMMA RunKnown ==
    ASSUME CommitInv, Owns, NEW u, NEW m, NEW us, NEW end, NEW new, Adds(u, m, us, end, new),
           u.text \in Texts, u.born = Born(u.text)
    PROVE  Known(u.rows, u.born)
<1> SUFFICES ASSUME NEW i \in 1..Len(u.rows), NEW p \in u.rows[i].ids
             PROVE  p[2] <= u.born[p[1]]
    BY DEF Known
<1>1. u.born \in [Word -> Nat] /\ \A w \in Word : born[w] <= u.born[w]
    BY BornIs
<1>2. /\ \A j \in 1..Len(rows) : Same(u.rows[j], rows[j]) /\ j \in 1..Len(u.rows)
      /\ Len(rows) \in Nat
    BY OldIs
<1>3. CASE i \in 1..Len(rows)
    <2>1. p \in rows[i].ids
        BY <1>2, <1>3 DEF Same
    <2>2. p[2] <= born[p[1]]
        BY <1>3, <2>1 DEF Owns, Known
    <2>3. p \in Marks
        <3>1. rows[i] \in RowSet
            BY <1>3, Members DEF CommitInv, Sound
        <3> QED
            BY <2>1, <3>1, RowsAre
    <2>4. PICK w \in Word, n \in Nat : p = <<w, n>>
        BY <2>3 DEF Marks
    <2>5. n <= born[w]
        BY <2>2, <2>4
    <2>6. born[w] \in Nat /\ u.born[w] \in Nat /\ born[w] <= u.born[w]
        BY <1>1 DEF CommitInv, Shape
    <2>7. n <= u.born[w]
        BY <2>5, <2>6
    <2> QED
        BY <2>4, <2>7
<1>4. CASE i > Len(rows)
    <2>1. PICK k \in new : Added(i, k, u, us, new)
        BY <1>4, AddedIs
    <2>2. us[k] \in Units
        BY <2>1, Members DEF Added, Adds, Lined
    <2>3. p \in Span(us[k], u.text, u.born)
        BY <2>1 DEF Added
    <2>4. p = <<p[1], u.born[p[1]]>> /\ p \in Marks
        BY <1>1, <2>2, <2>3, SpanIs
    <2>5. PICK w \in Word, n \in Nat : p = <<w, n>>
        BY <2>4 DEF Marks
    <2>6. n = u.born[w]
        BY <2>4, <2>5
    <2>7. n <= u.born[w]
        BY <2>6
    <2> QED
        BY <2>5, <2>7
<1> QED
    BY <1>2, <1>3, <1>4

\* Every row of the segment has its position.
LEMMA RunPlaced ==
    ASSUME CommitInv, Placed(cand, rows), NEW u, NEW m, NEW us, NEW end, NEW new,
           Adds(u, m, us, end, new)
    PROVE  Placed(u.cand, u.rows)
<1>1. /\ \A i \in 1..Len(rows) : Same(u.rows[i], rows[i]) /\ i \in 1..Len(u.rows)
      /\ Len(rows) \in Nat /\ Cardinality(new) \in Nat
      /\ Len(u.rows) = Len(rows) + Cardinality(new) /\ Len(rows) <= Len(u.rows)
    BY OldIs
<1>2. cand \in Seq(Cursors) /\ Aims(cand, Len(rows)) /\ base \in Nat
    BY DEF CommitInv, Aims, Shape
<1>3. PICK c \in Nat, l \in Nat : c = Len(cand) /\ l = Len(rows)
    BY <1>1, <1>2, Members
<1>4. /\ end \in Nat /\ c <= end /\ Places(new, Len(us)) /\ u.cand \in Seq(Cursors)
      /\ Len(u.cand) = end
      /\ \A k \in 1..c : u.cand[k] = cand[k]
      /\ \A k \in c + 1..end :
            /\ u.cand[k].lo = us[k].lo /\ u.cand[k].hi = us[k].hi
            /\ u.cand[k].row = IF k \in new THEN l + Rank(new, k) ELSE 0
    BY <1>3 DEF Adds, Consumed
<1>5. base <= l
    BY <1>3 DEF Placed
<1>6. ASSUME NEW k \in 1..Len(u.cand), u.cand[k].row # 0
      PROVE  /\ u.cand[k].row > base /\ u.cand[k].row <= Len(u.rows)
             /\ u.rows[u.cand[k].row].lo = u.cand[k].lo
             /\ u.rows[u.cand[k].row].hi = u.cand[k].hi
    <2>1. CASE k \in 1..c
        <3>1. u.cand[k] = cand[k]
            BY <1>4, <2>1
        <3>2. PICK i : i = cand[k].row
            OBVIOUS
        <3>3. i # 0 /\ i > base /\ i <= l /\ rows[i].lo = cand[k].lo /\ rows[i].hi = cand[k].hi
            BY <1>3, <1>6, <2>1, <3>1, <3>2 DEF Placed
        <3>4. i \in Nat
            BY <1>2, <1>3, <2>1, <3>2, CursorsAre
        <3>5. i \in 1..Len(rows)
            BY <1>3, <3>3, <3>4
        <3>6. u.rows[i].lo = rows[i].lo /\ u.rows[i].hi = rows[i].hi /\ i \in 1..Len(u.rows)
            BY <1>1, <3>5 DEF Same
        <3>7. i <= Len(u.rows)
            <4>1. PICK z \in Nat : z = Cardinality(new) /\ Len(u.rows) = l + z
                BY <1>1, <1>3
            <4>2. i <= l + z
                BY <3>3, <3>4, <4>1
            <4> QED
                BY <4>1, <4>2
        <3> QED
            BY <3>1, <3>2, <3>3, <3>6, <3>7
    <2>2. CASE k \notin 1..c
        <3>1. k \in c + 1..end
            BY <1>4, <2>2
        <3>2. k \in new /\ u.cand[k].row = l + Rank(new, k)
            BY <1>4, <1>6, <3>1
        <3>3. PICK r \in 1..Cardinality(new) : r = Rank(new, k) /\ Nth(new, r) = k
            BY <1>4, <3>2, NthOf
        <3>4. PICK i : i = l + r
            OBVIOUS
        <3>5. i \in 1..Len(u.rows) /\ i > Len(rows) /\ i - Len(rows) = r
            <4>1. PICK z \in Nat : z = Cardinality(new) /\ Len(u.rows) = l + z
                BY <1>1, <1>3
            <4>2. r \in 1..z
                BY <4>1
            <4>3. l + r \in 1..l + z /\ l + r > l /\ l + r - l = r
                BY <4>2
            <4> QED
                BY <1>3, <3>4, <4>1, <4>3
        <3>6. PICK n \in new : Added(i, n, u, us, new)
            BY <3>5, AddedIs
        <3>7. n = k /\ u.rows[i].lo = us[k].lo /\ u.rows[i].hi = us[k].hi
            BY <3>3, <3>5, <3>6 DEF Added
        <3>8. u.cand[k].row = i
            BY <3>2, <3>3, <3>4
        <3>9. i > base /\ i <= Len(u.rows)
            BY <1>2, <1>3, <1>5, <3>4, <3>5
        <3> QED
            BY <1>4, <3>1, <3>7, <3>8, <3>9
    <2> QED
        BY <2>1, <2>2
<1>7. ASSUME NEW i \in 1..Len(u.rows), i > base
      PROVE  \E k \in 1..Len(u.cand) : u.cand[k].row = i
    <2>1. CASE i \in 1..Len(rows)
        <3>1. PICK k \in 1..c : cand[k].row = i
            BY <1>3, <1>7, <2>1 DEF Placed
        <3>2. k \in 1..Len(u.cand)
            BY <1>4
        <3> QED
            BY <1>4, <3>1, <3>2
    <2>2. CASE i \notin 1..Len(rows)
        <3>1. i > Len(rows)
            BY <1>1, <2>2
        <3>2. PICK k \in new : Added(i, k, u, us, new)
            BY <3>1, AddedIs
        <3>3. PICK r : r = i - Len(rows)
            OBVIOUS
        <3>4. r \in 1..Cardinality(new)
            BY <1>1, <3>1, <3>3
        <3>5. k = Nth(new, r)
            BY <3>2, <3>3 DEF Added
        <3>6. Rank(new, k) = r
            BY <1>4, <3>4, <3>5, NthIs
        <3>7. k \in c + 1..end
            BY <1>3 DEF Adds, Picks
        <3>8. u.cand[k].row = l + r /\ l + r = i
            <4>1. u.cand[k].row = l + r
                BY <1>4, <3>6, <3>7
            <4>2. l + r = i
                BY <1>1, <1>3, <3>1, <3>3
            <4> QED
                BY <4>1, <4>2
        <3>9. k \in 1..Len(u.cand)
            <4>1. k \in 1..end
                BY <1>4, <3>7
            <4> QED
                BY <1>4, <4>1
        <3> QED
            BY <3>8, <3>9
    <2> QED
        BY <2>1, <2>2
<1>8. base <= Len(u.rows)
    BY <1>1, <1>2, <1>3, <1>5
<1> QED
    BY <1>6, <1>7, <1>8 DEF Placed

-------------------------------------------------------------------------------
(* What is left open. *)

\* A prefix ends where the decoder's text begins, or just before it.
Fits(p, h) ==
    ~Empty(p) => /\ p.hi <= h.lo /\ h.lo <= p.hi + 1
                 /\ p.reason = "vad" => h.lo = p.hi + 1
                 /\ p.ends \subseteq WordsOf(p)

\* The last word of a decode ends a unit of the joined text only if it does in the
\* decode.
LEMMA JoinedEnds ==
    ASSUME pend \in Pends, heard \in Texts, Fits(pend, heard), NEW g \in Texts,
           g.lo = heard.lo, ~Empty(g), NEW anc, NEW j, j = Joined(g, anc), g.hi \in j.text.ends
    PROVE  g.hi \in g.ends
<1> DEFINE whole(E) == [lo |-> pend.lo, hi |-> g.hi, ends |-> E \cup {w \in g.ends : w >= g.lo}]
           inner == {w \in pend.ends : w < pend.hi}
<1>1. \/ j.text = g
      \/ /\ j.text = whole(inner) /\ ~Empty(pend)
      \/ /\ j.text = whole(pend.ends) /\ ~Empty(pend) /\ pend.reason = "vad"
      \/ /\ j.text = whole(pend.ends \cup {pend.hi}) /\ ~Empty(pend) /\ UnitsOf(g) # << >>
      \/ /\ j.text = whole(pend.ends) /\ ~Empty(pend) /\ ~Stop(pend)
         /\ ~(g.lo = pend.hi /\ (Stop(pend) => pend.hi \in g.ends))
    BY DEF Joined
<1>2. PICK a \in Nat, b \in Nat, x \in Nat, y \in Nat :
          a = pend.lo /\ b = pend.hi /\ x = g.lo /\ y = g.hi
    BY LosAre DEF Pends, Texts
<1>3. x <= y
    BY <1>2 DEF Empty
<1>4. ~Empty(pend) => b <= x /\ \A w \in pend.ends : w <= b
    BY <1>2 DEF Fits, WordsOf
<1>5. \A E : whole(E).ends = E \cup {w \in g.ends : w >= g.lo}
    OBVIOUS
<1> HIDE DEF whole
<1>6. CASE j.text = whole(inner) /\ ~Empty(pend)
    <2>1. y \in inner \/ y \in g.ends
        BY <1>2, <1>5, <1>6
    <2>2. y \notin inner
        BY <1>2, <1>3, <1>4, <1>6
    <2> QED
        BY <1>2, <2>1, <2>2
<1>7. CASE j.text = whole(pend.ends) /\ ~Empty(pend) /\ pend.reason = "vad"
    <2>1. y \in pend.ends \/ y \in g.ends
        BY <1>2, <1>5, <1>7
    <2>2. x = b + 1
        BY <1>2, <1>7 DEF Fits
    <2>3. y \notin pend.ends
        BY <1>3, <1>4, <1>7, <2>2
    <2> QED
        BY <1>2, <2>1, <2>3
<1>8. CASE j.text = whole(pend.ends \cup {pend.hi}) /\ ~Empty(pend) /\ UnitsOf(g) # << >>
    <2>1. y \in pend.ends \/ y = b \/ y \in g.ends
        BY <1>2, <1>5, <1>8
    <2>2. CASE y <= b
        <3>1. x = y
            BY <1>3, <1>4, <1>8, <2>2
        <3>2. PICK us \in Seq(Units) : us = UnitsOf(g)
            BY UnitsAre
        <3>3. PICK n \in Nat : n = Len(us) /\ n # 0
            BY <1>8, <3>2, EmptySeq, LenProperties
        <3>4. 1 \in 1..n
            BY <3>3
        <3>5. us[1].hi \in g.ends /\ us[1].lo <= us[1].hi /\ Within(us[1], g)
              /\ us[1].hi \in Nat /\ us[1].lo \in Nat
            BY <3>2, <3>3, <3>4, UnitsAre
        <3>6. us[1].hi = y
            BY <1>2, <3>1, <3>5 DEF Within
        <3> QED
            BY <1>2, <3>5, <3>6
    <2>3. CASE ~(y <= b)
        <3>1. y \notin pend.ends /\ y # b
            BY <1>4, <1>8, <2>3
        <3> QED
            BY <1>2, <2>1, <3>1
    <2> QED
        BY <2>2, <2>3
<1>9. CASE j.text = whole(pend.ends) /\ ~Empty(pend) /\ ~Stop(pend)
           /\ ~(g.lo = pend.hi /\ (Stop(pend) => pend.hi \in g.ends))
    <2>1. y \in pend.ends \/ y \in g.ends
        BY <1>2, <1>5, <1>9
    <2>2. x # b
        BY <1>2, <1>9
    <2>3. y \notin pend.ends
        BY <1>3, <1>4, <1>9, <2>2
    <2> QED
        BY <1>2, <2>1, <2>3
<1> QED
    BY <1>1, <1>6, <1>7, <1>8, <1>9

\* The tail lies behind every end.
LEMMA EndsBefore ==
    ASSUME NEW t \in Texts, NEW e \in EndsOf(t)
    PROVE  e < TailOf(t).lo
<1>1. PICK E : E = EndsOf(t)
    OBVIOUS
<1>2. Places(E, MaxWord) /\ e \in E /\ \A x \in E : x \in Nat
    BY <1>1, EndsAre
<1>3. PICK n \in Nat : n = Cardinality(E)
    BY <1>2, RankIs
<1>4. PICK r \in 1..n : r = Rank(E, e) /\ Nth(E, r) = e
    BY <1>2, <1>3, NthOf
<1>5. n \in 1..n
    BY <1>4
<1>6. Nth(E, n) \in E
    BY <1>2, <1>3, <1>5, NthIs
<1>7. e <= Nth(E, n)
    <2>1. CASE r = n
        BY <1>2, <1>4, <2>1
    <2>2. CASE r # n
        <3>1. r < n
            BY <2>2
        <3>2. Nth(E, r) < Nth(E, n)
            BY <1>2, <1>3, <1>5, <3>1, NthOrder
        <3> QED
            BY <1>2, <1>4, <1>6, <3>2
    <2> QED
        BY <2>1, <2>2
<1>8. TailOf(t).lo = Nth(E, n) + 1
    BY <1>1, <1>2, <1>3 DEF TailOf, Unit
<1> QED
    BY <1>2, <1>6, <1>7, <1>8

\* The words that are left open begin behind the units up to the end.
LEMMA OpenAfter ==
    ASSUME NEW t \in Texts, NEW us, Lined(us, t), NEW m, Whole(us, t, m), NEW end \in Nat,
           end <= Len(us), ~Empty(Open(us, t, m, end)), NEW k \in 1..end
    PROVE  us[k].hi < Open(us, t, m, end).lo
<1>1. us \in Seq(Units) /\ Apart(us)
    BY DEF Lined
<1>2. PICK n \in Nat : n = Len(us)
    BY <1>1, Members
<1>3. PICK o \in Texts : o = Open(us, t, m, end)
    BY <1>1, OpenIs
<1>4. k \in 1..n /\ us[k] \in Units
    BY <1>1, <1>2, Members
<1>5. CASE end < n
    <2>1. o.lo = us[end + 1].lo
        BY <1>2, <1>3, <1>5 DEF Open
    <2>2. end + 1 \in 1..n /\ k < end + 1
        BY <1>5
    <2> QED
        BY <1>1, <1>2, <1>3, <1>4, <2>1, <2>2 DEF Apart
<1>6. CASE ~(end < n)
    <2>1. end = n
        BY <1>2, <1>6
    <2>2. PICK v : v = Rest(t, m)
        OBVIOUS
    <2>3. o.lo = v.lo /\ o.hi = IF ~Empty(v) THEN t.hi ELSE v.lo - 1
        BY <1>2, <1>3, <1>6, <2>2 DEF Open
    <2>4. ~Empty(v)
        <3>1. o.lo \in Nat /\ o.hi \in Nat /\ ~(o.hi < o.lo)
            BY <1>3, LosAre DEF Texts, Empty
        <3> QED
            BY <2>3, <3>1
    <2>5. ~(m.force \/ m.tail) /\ v = TailOf(t)
        BY <2>2, <2>4 DEF Rest, Blank, Unit, Empty
    <2>6. PICK vs \in Seq(Units) : vs = UnitsOf(t)
        BY UnitsAre
    <2>7. Len(vs) = n /\ \A i \in 1..n : us[i] = vs[i]
        <3>1. Len(vs) \in Nat
            BY <2>6, Members
        <3> QED
            BY <1>2, <2>5, <2>6, <3>1 DEF Whole, TakesTail
    <2>8. n \in 1..n /\ vs # << >>
        BY <1>4, <2>7, EmptySeq
    <2>9. v.lo = us[n].hi + 1
        BY <2>5, <2>6, <2>7, <2>8, TailIs
    <2>10. us[n] \in Units
        BY <1>1, <1>2, <2>8, Members
    <2>11. us[k].hi <= us[n].hi
        <3>1. us[k].hi \in Nat /\ us[n].hi \in Nat /\ us[n].lo \in Nat
            BY <1>4, <2>10, LosAre DEF Units
        <3>2. us[n].lo <= us[n].hi
            BY <1>2, <2>8 DEF Lined
        <3>3. k < n => us[k].hi < us[n].lo
            BY <1>1, <1>2, <1>4, <2>8 DEF Apart
        <3>4. k < n \/ k = n
            BY <1>4
        <3> QED
            BY <3>1, <3>2, <3>3, <3>4
    <2>12. us[k].hi \in Nat /\ us[n].hi \in Nat
        BY <1>4, <2>10, LosAre DEF Units
    <2> QED
        BY <1>3, <2>3, <2>9, <2>11, <2>12
<1> QED
    BY <1>5, <1>6

\* If nothing is left open, the decode has no tail of its own.
LEMMA NoOwnTail ==
    ASSUME pend \in Pends, heard \in Texts, Fits(pend, heard), NEW g \in Texts,
           g.lo = heard.lo, ~Empty(g), NEW anc \in Anchors, NEW c, c = Compose(g, anc),
           NEW t, t = c.text, NEW us, Lined(us, t), NEW m, Whole(us, t, m), ~m.force, ~m.tail,
           NEW end \in Nat, end <= Len(us), Empty(Open(us, t, m, end)),
           ~Empty(TailOf(g)), Within(TailOf(g), t)
    PROVE  FALSE
<1>1. PICK j : j = Joined(g, anc)
    OBVIOUS
<1>2. t \in Texts /\ t.hi = j.text.hi /\ t.ends = j.text.ends
    BY <1>1, ComposeIs, ComposedOn
<1>3. t.hi = g.hi
    <2>1. JoinsOn(j, g)
        BY <1>1, JoinedOn
    <2> QED
        BY <1>2, <2>1 DEF JoinsOn
<1>4. PICK v \in Units : v = TailOf(t) /\ v.hi = t.hi
    BY <1>2, TailIs
<1>5. PICK vs \in Seq(Units) : vs = UnitsOf(t)
    BY <1>2, UnitsAre
<1>6. PICK n \in Nat : n = Len(us) /\ n = Len(vs)
    <2>1. Len(us) \in Nat /\ Len(vs) \in Nat
        BY <1>5, Members DEF Lined
    <2> QED
        BY <1>5, <2>1 DEF Whole, TakesTail
<1>7. PICK x \in Nat, y \in Nat : x = t.lo /\ y = t.hi
    BY <1>2, LosAre DEF Texts
<1>8. x <= y
    <2>1. PICK z \in Units : z = TailOf(g)
        BY TailIs
    <2>2. z.lo \in Nat /\ z.hi \in Nat /\ z.lo <= z.hi /\ x <= z.lo /\ z.hi <= y
        BY <1>7, <2>1, LosAre DEF Units, Empty, Within
    <2> QED
        BY <2>2
<1>9. end = n
    <2> SUFFICES ASSUME end < n PROVE FALSE
        BY <1>6
    <2>1. PICK o : o = Open(us, t, m, end)
        OBVIOUS
    <2>2. o.lo = us[end + 1].lo /\ o.hi = t.hi
        BY <1>6, <2>1 DEF Open
    <2>3. end + 1 \in 1..n
        OBVIOUS
    <2>4. us[end + 1] \in Units /\ us[end + 1].lo <= us[end + 1].hi /\ Within(us[end + 1], t)
        BY <1>6, <2>3, Members DEF Lined
    <2>5. us[end + 1].lo \in Nat /\ us[end + 1].hi \in Nat
        BY <2>4, LosAre DEF Units
    <2>6. us[end + 1].lo <= t.hi
        BY <1>7, <2>4, <2>5 DEF Within
    <2> QED
        BY <1>7, <2>1, <2>2, <2>5, <2>6 DEF Empty
<1>10. Empty(v)
    <2> SUFFICES ASSUME ~Empty(v) PROVE FALSE
        OBVIOUS
    <2>1. Rest(t, m) = v
        BY <1>4 DEF Rest
    <2>2. PICK o : o = Open(us, t, m, end)
        OBVIOUS
    <2>3. o.lo = v.lo /\ o.hi = t.hi
        <3>1. ~(end < Len(us)) /\ ~Empty(Rest(t, m))
            BY <1>6, <1>9, <2>1
        <3> QED
            BY <2>1, <2>2, <3>1 DEF Open
    <2> QED
        BY <1>4, <2>2, <2>3 DEF Empty
<1>11. v.lo \in Nat /\ y < v.lo
    BY <1>4, <1>7, <1>10, LosAre DEF Units, Empty
<1>12. vs # << >> /\ n \in 1..n
    <2>1. vs # << >>
        <3>1. vs = << >> => v.lo = t.lo
            BY <1>2, <1>4, <1>5, TailIs
        <3> QED
            BY <1>7, <1>8, <1>11, <3>1
    <2>2. n # 0
        BY <1>5, <1>6, <2>1, EmptySeq
    <2> QED
        BY <2>1, <2>2
<1>13. v.lo = vs[n].hi + 1
    BY <1>2, <1>4, <1>5, <1>6, <1>12, TailIs
<1>14. vs[n].hi \in Nat /\ vs[n].hi \in t.ends /\ Within(vs[n], t)
    BY <1>2, <1>5, <1>6, <1>12, UnitsAre
<1>15. vs[n].hi = g.hi
    BY <1>3, <1>7, <1>11, <1>13, <1>14 DEF Within
<1>16. g.hi \in g.ends
    BY <1>1, <1>2, <1>14, <1>15, JoinedEnds
<1>17. g.hi \in EndsOf(g)
    <2>1. g.lo \in Nat /\ g.hi \in Nat /\ g.lo <= g.hi
        BY LosAre DEF Texts, Empty
    <2> QED
        BY <1>16, <2>1 DEF EndsOf, WordsOf
<1>18. g.hi < TailOf(g).lo
    BY <1>17, EndsBefore
<1>19. TailOf(g).hi = g.hi
    BY TailIs
<1> QED
    BY <1>18, <1>19 DEF Empty

-------------------------------------------------------------------------------
(* What every run says of text, prefix and open words. *)

Says(u, x) ==
    /\ u.text = x.text
    /\ u.pend = NoPend \/ u.pend = x.pend
    /\ \E us, end : u.open = Open(us, x.text, x.mode, end)

\* It does as it is put together.
LEMMA OutcomeSays ==
    ASSUME NEW x, NEW R, NEW us, NEW from, NEW end, NEW grown
    PROVE  Says(Outcome(x, R, us, from, end, grown), x)
<1>1. PICK u : u = Outcome(x, R, us, from, end, grown)
    OBVIOUS
<1>2. u.text = x.text
    BY <1>1 DEF Outcome
<1>3. u.pend = NoPend \/ u.pend = x.pend
    BY <1>1 DEF Outcome
<1>4. u.open = Open(us, x.text, x.mode, end)
    BY <1>1 DEF Outcome
<1> QED
    BY <1>1, <1>2, <1>3, <1>4 DEF Says

\* The text, the prefix and the open words that a run leaves.
Speaks(u, j, m) ==
    /\ u.text = j.text
    /\ u.pend = NoPend \/ u.pend = j.pend
    /\ \E us, end : u.open = Open(us, j.text, m, end)

\* So every run does.
LEMMA UpdateSpeaks ==
    ASSUME NEW in, NEW m, NEW early, NEW aged, NEW j, j = Compose(in.text, in.anchor)
    PROVE  Speaks(Update(in, m, early, aged), j, m)
<1>1. ASSUME NEW x, NEW R, NEW us PROVE Says(Follow(x, R, us), x)
    BY OutcomeSays DEF Follow
<1>2. ASSUME NEW x PROVE Says(Merging(x), x)
    BY <1>1 DEF Merging
<1>3. PICK x : x = Reading(j, Born(j.text), in, m, early, aged)
    OBVIOUS
<1>4. Says(Update(in, m, early, aged), x)
    BY <1>2, <1>3 DEF Update
<1>5. x.text = j.text /\ x.pend = j.pend /\ x.mode = m
    BY <1>3 DEF Reading
<1> QED
    BY <1>4, <1>5 DEF Says, Speaks

\* The prefix that goes on fits as before.
LEMMA FitsOn ==
    ASSUME Fits(pend, heard), NEW p, LikePend(p) \/ p = NoPend, NEW h, h.lo = heard.lo
    PROVE  Fits(p, h)
<1>1. CASE p = NoPend
    BY <1>1 DEF Fits, NoPend, Empty
<1>2. CASE p # NoPend
    <2>1. p.lo = pend.lo /\ p.hi = pend.hi /\ p.ends = pend.ends /\ p.reason = pend.reason
        BY <1>2 DEF LikePend
    <2>2. WordsOf(p) = WordsOf(pend) /\ (Empty(p) <=> Empty(pend))
        BY <2>1 DEF WordsOf, Empty
    <2> QED
        BY <2>1, <2>2 DEF Fits
<1> QED
    BY <1>1, <1>2

\* The prefix for the next segment ends with the decode.
CarriedOver(p, g, u, reason) ==
    ~Empty(p) => /\ p.hi = g.hi /\ p.reason = reason /\ p.ends \subseteq WordsOf(p)
                 /\ \/ Empty(u.open) /\ p.lo = TailOf(g).lo /\ ~Empty(TailOf(g))
                    \/ ~Empty(u.open) /\ p.lo = u.open.lo /\ u.open.hi = g.hi

\* It is the open words, or the tail of the decode.
LEMMA CarryOver ==
    ASSUME NEW g \in Texts, NEW u, Leaves(u), u.text.hi = g.hi, NEW j, NEW m, Speaks(u, j, m),
           NEW reason, NEW mid, NEW q, q = Carry(g, u, reason, mid)
    PROVE  CarriedOver(q, g, u, reason)
<1>1. PICK own : own = [lo |-> TailOf(g).lo, hi |-> TailOf(g).hi, ends |-> {}]
    OBVIOUS
<1>2. PICK p : p = IF Empty(u.open) THEN own ELSE u.open
    OBVIOUS
<1>3. PICK short \in BOOLEAN :
          short <=> /\ UnitsOf(g) # << >>
                    /\ Unit(p.lo, p.hi) = UnitsOf(g)[Len(UnitsOf(g))]
                    /\ Short(UnitsOf(g)[Len(UnitsOf(g))])
                    /\ UnitsOf(g)[Len(UnitsOf(g))].hi \notin Clauses
    OBVIOUS
<1>4. PICK off \in BOOLEAN : off <=> short \/ (mid /\ Stop(p))
    OBVIOUS
<1>5. PICK ended \in BOOLEAN :
          ended <=> short \/ (off /\ ~(UnitsOf(g) # << >>
                                       /\ Unit(p.lo, p.hi) = UnitsOf(g)[Len(UnitsOf(g))]))
    OBVIOUS
<1>6. PICK E : E = IF off THEN p.ends \ {p.hi} ELSE p.ends
    OBVIOUS
<1>7. \/ q = NoPend
      \/ ~Empty(p) /\ \E x \in BOOLEAN :
            q = [lo |-> p.lo, hi |-> p.hi, ends |-> E, reason |-> reason, terminal |-> x,
                 retain |-> FALSE]
    BY <1>1, <1>2, <1>3, <1>4, <1>5, <1>6 DEF Carry
<1>8. ~Empty(u.open) => u.open.hi = g.hi /\ u.open.ends \subseteq WordsOf(u.open)
    <2>1. PICK us, end : u.open = Open(us, j.text, m, end)
        BY DEF Speaks
    <2>2. PICK o \in Texts : o = u.open
        BY DEF Leaves
    <2>3. PICK t \in Texts : t = j.text /\ t.hi = g.hi
        BY DEF Leaves, Speaks
    <2>4. /\ o.hi = t.hi \/ o.hi = o.lo - 1
          /\ o.ends \subseteq {w \in t.ends : o.lo <= w /\ w <= o.hi}
        BY <2>1, <2>2, <2>3 DEF Open
    <2>5. o.lo \in Nat /\ o.hi \in Nat
        BY LosAre DEF Texts
    <2>6. o.ends \subseteq o.lo..o.hi
        <3>1. t.ends \subseteq Word
            BY DEF Texts
        <3>2. \A w \in o.ends : w \in Nat /\ o.lo <= w /\ w <= o.hi
            BY <2>4, <3>1, LosAre
        <3> QED
            BY <2>5, <3>2
    <2> QED
        BY <2>2, <2>3, <2>4, <2>5, <2>6 DEF Empty, WordsOf
<1>9. TailOf(g).hi = g.hi
    BY TailIs
<1>10. CASE q = NoPend
    BY <1>10 DEF CarriedOver, NoPend, Empty
<1>11. CASE q # NoPend
    <2>1. q.lo = p.lo /\ q.hi = p.hi /\ q.ends \subseteq p.ends /\ q.reason = reason /\ ~Empty(p)
        BY <1>6, <1>7, <1>11
    <2>2. WordsOf(q) = WordsOf(p)
        BY <2>1 DEF WordsOf
    <2>3. CASE Empty(u.open)
        <3>1. p.lo = TailOf(g).lo /\ p.hi = TailOf(g).hi /\ p.ends = {}
            BY <1>1, <1>2, <2>3
        <3>2. ~Empty(TailOf(g))
            BY <2>1, <3>1 DEF Empty
        <3> QED
            BY <1>9, <2>1, <2>3, <3>1, <3>2 DEF CarriedOver
    <2>4. CASE ~Empty(u.open)
        <3>1. p = u.open
            BY <1>2, <2>4
        <3> QED
            BY <1>8, <2>1, <2>2, <2>4, <3>1 DEF CarriedOver
    <2> QED
        BY <2>3, <2>4
<1> QED
    BY <1>10, <1>11

\* No row has the identity of a word that is carried over.
LEMMA CarriedUntold ==
    ASSUME CommitInv, Owns, Fits(pend, heard), NEW g \in Texts, g.lo = heard.lo, ~Empty(g),
           NEW c, c = Compose(g, anchor), NEW u, NEW m, NEW us, NEW end, NEW new,
           Adds(u, m, us, end, new), u.text = c.text, u.born = Born(u.text),
           ~m.force, ~m.tail, NEW p, NEW reason, CarriedOver(p, g, u, reason), ~Empty(p),
           p.lo \in Nat, p.hi \in Nat, Within(p, u.text), NEW w \in WordsOf(p),
           NEW i \in 1..Len(u.rows)
    PROVE  <<w, u.born[w]>> \notin u.rows[i].ids
<1>1. pend \in Pends /\ heard \in Texts /\ anchor \in Anchors /\ base \in Nat
      /\ cand \in Seq(Cursors)
    BY DEF CommitInv, Shape, Aims
<1>2. PICK t \in Texts : t = u.text
    BY <1>1, ComposeIs
<1>3. /\ Lined(us, t) /\ Whole(us, t, m) /\ Holds(cand, us) /\ end \in Nat /\ Len(cand) <= end
      /\ end <= Len(us) /\ u.open = Open(us, t, m, end)
    BY <1>2 DEF Adds
<1>4. ~Empty(u.open) /\ p.lo = u.open.lo /\ p.hi = u.open.hi
    <2>1. CASE Empty(u.open)
        <3>1. p.lo = TailOf(g).lo /\ p.hi = TailOf(g).hi /\ ~Empty(TailOf(g))
            BY <2>1, TailIs DEF CarriedOver
        <3>2. Within(TailOf(g), t)
            BY <1>2, <3>1 DEF Within
        <3>3. Empty(Open(us, t, m, end))
            BY <1>3, <2>1
        <3> QED
            BY <1>1, <1>2, <1>3, <3>1, <3>2, <3>3, NoOwnTail
    <2> QED
        BY <2>1 DEF CarriedOver
<1>5. w \in Nat /\ p.lo <= w /\ w <= p.hi
    BY DEF WordsOf
<1>6. us \in Seq(Units)
    BY <1>3 DEF Lined
<1>7. ASSUME NEW k \in 1..end PROVE w \notin WordsOf(us[k])
    <2>1. us[k].hi < p.lo
        BY <1>2, <1>3, <1>4, OpenAfter
    <2>2. us[k] \in Units
        <3>1. Len(us) \in Nat
            BY <1>6, Members
        <3> QED
            BY <1>3, <1>6, <3>1, Members
    <2>3. us[k].lo \in Nat /\ us[k].hi \in Nat
        BY <2>2, LosAre DEF Units
    <2> QED
        BY <1>5, <2>1, <2>3 DEF WordsOf
<1>8. /\ \A n \in 1..Len(rows) : Same(u.rows[n], rows[n]) /\ n \in 1..Len(u.rows)
      /\ Len(rows) \in Nat
    BY OldIs
<1>9. w \in WordsOf(t)
    <2>1. t.lo \in Nat /\ t.hi \in Nat
        BY LosAre DEF Texts
    <2>2. t.lo <= p.lo /\ p.hi <= t.hi
        BY <1>2 DEF Within
    <2> QED
        BY <1>5, <2>1, <2>2 DEF WordsOf
<1>10. CASE i \in 1..Len(rows) /\ ~(i > base)
    <2>1. i \in 1..base
        BY <1>1, <1>10
    <2>2. \A x \in WordsOf(t) : Reached(x)
        BY <1>1, <1>2, ComposedReach
    <2>3. <<w, Born(t)[w]>> \notin rows[i].ids
        BY <1>9, <2>1, <2>2, Fresher DEF Owns, Placed
    <2> QED
        BY <1>2, <1>8, <1>10, <2>3 DEF Same
<1>11. CASE i \in 1..Len(rows) /\ i > base
    <2>1. PICK k \in 1..Len(cand) : cand[k].row = i
        BY <1>11 DEF Owns, Placed
    <2>2. rows[i].lo = cand[k].lo /\ rows[i].hi = cand[k].hi
        BY <1>1, <1>11, <2>1 DEF Owns, Placed
    <2>3. us[k] = Unit(cand[k].lo, cand[k].hi)
        BY <1>3 DEF Holds
    <2>4. WordsOf(us[k]) = WordsOf(rows[i])
        BY <2>2, <2>3 DEF WordsOf, Unit
    <2>5. k \in 1..end
        <3>1. Len(cand) \in Nat
            BY <1>1, Members
        <3> QED
            BY <1>3, <3>1
    <2>6. w \notin WordsOf(rows[i])
        BY <1>7, <2>4, <2>5
    <2>7. Bound(rows[i])
        BY <1>11 DEF CommitInv, Sound
    <2>8. PICK q : q = <<w, u.born[w]>>
        OBVIOUS
    <2>9. q[1] = w
        BY <2>8
    <2>10. q \notin rows[i].ids
        BY <2>6, <2>7, <2>9 DEF Bound
    <2> QED
        BY <1>8, <1>11, <2>8, <2>10 DEF Same
<1>12. CASE i > Len(rows)
    <2>1. PICK k \in new : Added(i, k, u, us, new)
        BY <1>12, AddedIs
    <2>2. k \in 1..end
        <3>1. k \in Len(cand) + 1..end
            BY DEF Adds, Picks
        <3>2. Len(cand) \in Nat
            BY <1>1, Members
        <3> QED
            BY <1>3, <3>1, <3>2
    <2>3. us[k] \in Units /\ u.rows[i].ids = Span(us[k], u.text, u.born)
        BY <1>6, <2>1, Members DEF Added
    <2>4. PICK q : q = <<w, u.born[w]>>
        OBVIOUS
    <2>5. q[1] = w
        BY <2>4
    <2>6. u.born \in [Word -> Nat]
        BY BornIs
    <2>7. q \notin Span(us[k], u.text, u.born)
        BY <1>7, <2>2, <2>3, <2>5, <2>6, SpanIs
    <2> QED
        BY <2>3, <2>4, <2>7
<1> QED
    BY <1>8, <1>10, <1>11, <1>12

\* Rows from nothing but the text have no word twice.
LEMMA RecommittedApart ==
    ASSUME CommitInv, NEW t \in Texts, NEW rs, rs = Recommitted(t)
    PROVE  Disjoint(rs)
<1>1. PICK m : m = [Mode EXCEPT !.force = TRUE]
    OBVIOUS
<1>2. PICK us : us = Completed(t, m, << >>)
    OBVIOUS
<1>3. << >> \in Seq(Cursors) /\ Len(<< >>) = 0 /\ Holds(<< >>, UnitsOf(t))
    <2>1. << >> \in Seq(Cursors) /\ Len(<< >>) = 0
        BY EmptySeq
    <2>2. Len(UnitsOf(t)) \in Nat
        BY UnitsAre, Members
    <2> QED
        BY <2>1, <2>2 DEF Holds
<1>4. us \in Seq(Units) /\ Apart(us)
    BY <1>2, <1>3, WholeIs DEF Lined
<1>5. PICK n \in Nat : n = Len(us) /\ DOMAIN us = 1..n
    BY <1>4, LenProperties
<1>6. born \in [Word -> Nat]
    BY DEF CommitInv, Shape
<1>7. rs = [k \in 1..n |-> Row(us[k], Span(us[k], t, born))]
    BY <1>1, <1>2, <1>5 DEF Recommitted
<1>8. ASSUME NEW k \in 1..n PROVE rs[k].ids = Span(us[k], t, born)
    <2>1. PICK v \in Units : v = us[k]
        BY <1>4, <1>5, Members
    <2>2. Span(v, t, born) \in SUBSET Marks
        BY <1>6, SpanIs
    <2>3. PICK S \in SUBSET Marks : S = Span(v, t, born)
        BY <2>2
    <2>4. rs[k] = Row(v, S)
        <3>1. rs[k] = Row(us[k], Span(us[k], t, born))
            BY <1>7
        <3> QED
            BY <2>1, <2>3, <3>1
    <2>5. Row(v, S).ids = S
        BY RowIs
    <2> QED
        BY <2>1, <2>3, <2>4, <2>5
<1>9. Len(rs) = n
    <2>1. DOMAIN rs = 1..n /\ rs \in Seq(RowSet)
        <3>1. Sound(rs)
            BY RecommittedIs
        <3> QED
            BY <1>7, <3>1 DEF Sound
    <2>2. Len(rs) \in Nat /\ DOMAIN rs = 1..Len(rs)
        BY <2>1, Members
    <2>3. PICK l \in Nat : l = Len(rs)
        BY <2>2
    <2>4. 1..l = 1..n
        BY <2>1, <2>2, <2>3
    <2>5. l = n
        <3>1. l \in 1..n \/ l = 0
            BY <2>4
        <3>2. n \in 1..l \/ n = 0
            BY <2>4
        <3> QED
            BY <2>4, <3>1, <3>2
    <2> QED
        BY <2>3, <2>5
<1>10. ASSUME NEW j \in 1..n, NEW k \in 1..n, j # k PROVE rs[j].ids \cap rs[k].ids = {}
    <2>1. j \in 1..Len(us) /\ k \in 1..Len(us)
        BY <1>5
    <2>2. Span(us[j], t, born) \cap Span(us[k], t, born) = {}
        BY <1>4, <1>6, <1>10, <2>1, SpansApart
    <2>3. rs[j].ids = Span(us[j], t, born) /\ rs[k].ids = Span(us[k], t, born)
        BY <1>8
    <2> QED
        BY <2>2, <2>3
<1> QED
    BY <1>9, <1>10 DEF Disjoint

-------------------------------------------------------------------------------
(* No occurrence of a word is in two rows, step by step. *)

\* Where the decoder's text and the prefix are.
Steady == shown.lo = heard.lo /\ Fits(pend, heard)

\* As long as no consumed words were cut differently, no occurrence is in two rows.
OwnInv ==
    CommitInv /\ Steady /\ (~moved => Disjoint(rows) /\ (~done => Owns))

\* A run inside a segment.
LEMMA StaysOwns ==
    ASSUME OwnInv, ~done, NEW in, in.text \in Texts, in.text.lo = heard.lo, in.anchor \in Anchors,
           NEW m, NEW early, NEW aged, NEW u, u = Update(in, m, early, aged), Stays(u),
           heard' \in Texts, shown' \in Texts, heard'.lo = heard.lo, shown'.lo = heard.lo
    PROVE  OwnInv'
<1>1. CommitInv /\ Fits(pend, heard) /\ pend \in Pends /\ heard \in Texts
    BY DEF OwnInv, Steady, CommitInv, Shape
<1>2. Leaves(u)
    BY <1>1, RunIs
<1>3. CommitInv'
    BY <1>1, <1>2, StaysIs
<1>4. PICK j : j = Compose(in.text, in.anchor)
    OBVIOUS
<1>5. JoinsOn(Joined(in.text, in.anchor), in.text)
      /\ j.pend = Joined(in.text, in.anchor).pend
    BY <1>1, <1>4, JoinedOn, ComposedOn
<1>6. /\ cand' = u.cand /\ pend' = u.pend /\ segment' = segment /\ base' = base /\ done' = done
      /\ rows' = u.rows /\ born' = u.born /\ moved' = (moved \/ u.moved)
      /\ ledger' = [lo |-> u.text.lo, hi |-> u.text.hi, seg |-> segment]
    BY DEF Stays, Commits
<1>7. Steady'
    <2>1. u.pend = NoPend \/ u.pend = j.pend
        BY <1>4, UpdateSpeaks DEF Speaks
    <2>2. LikePend(u.pend) \/ u.pend = NoPend
        BY <1>5, <2>1 DEF JoinsOn
    <2>3. PICK p, h : p = u.pend /\ h = heard'
        OBVIOUS
    <2>4. Fits(p, h)
        BY <1>1, <2>2, <2>3, FitsOn
    <2>5. Fits(pend', heard')
        BY <1>6, <2>3, <2>4
    <2>6. Fits(pend, heard)'
        BY <2>5 DEF Fits, Empty, WordsOf
    <2> QED
        BY <2>6 DEF Steady
<1>8. ASSUME ~moved' PROVE Disjoint(rows') /\ Owns'
    <2>1. ~moved /\ ~u.moved
        BY <1>6, <1>8
    <2>2. Owns
        BY <2>1 DEF OwnInv
    <2>3. /\ u.text = j.text /\ u.born = Born(j.text)
          /\ \E us, end, new : Adds(u, m, us, end, new)
        BY <1>1, <1>4, <2>1, <2>2, AddsIs DEF Owns
    <2>4. PICK us, end, new : Adds(u, m, us, end, new)
        BY <2>3
    <2>5. u.text \in Texts /\ u.born = Born(u.text)
        BY <1>2, <2>3 DEF Leaves
    <2>6. \A w \in WordsOf(u.text) : Reached(w)
        BY <1>1, <1>4, <2>3, ComposedReach
    <2>7. Disjoint(u.rows)
        BY <1>1, <2>2, <2>4, <2>5, <2>6, RunApart
    <2>8. Known(u.rows, u.born)
        BY <1>1, <2>2, <2>4, <2>5, RunKnown
    <2>9. Placed(u.cand, u.rows)
        BY <1>1, <2>2, <2>4, RunPlaced DEF Owns
    <2>10. ASSUME NEW i \in 1..base, NEW w \in Word, w \in WordsOf(u.text)
           PROVE  <<w, u.born[w]>> \notin u.rows[i].ids
        <3>1. <<w, Born(u.text)[w]>> \notin rows[i].ids
            BY <1>1, <2>2, <2>5, <2>6, <2>10, Fresher DEF Owns, Placed
        <3>2. i \in 1..Len(rows) /\ Same(u.rows[i], rows[i])
            <4>1. /\ \A n \in 1..Len(rows) : Same(u.rows[n], rows[n])
                  /\ Len(rows) \in Nat
                BY <1>1, <2>4, OldIs
            <4>2. base <= Len(rows) /\ base \in Nat
                BY <1>1, <2>2 DEF Owns, Placed, CommitInv, Shape
            <4>3. i \in 1..Len(rows)
                BY <4>1, <4>2
            <4> QED
                BY <4>1, <4>3
        <3> QED
            BY <2>5, <3>1, <3>2 DEF Same
    <2>11. Placed(cand, rows)'
        BY <1>6, <2>9 DEF Placed
    <2>12. Known(rows, born)'
        BY <1>6, <2>8 DEF Known
    <2>13. Untold'
        <3> SUFFICES ASSUME NEW i \in 1..base', NEW w \in Word, Passes(w)'
                     PROVE  <<w, born'[w]>> \notin rows'[i].ids
            BY DEF Untold
        <3>1. ledger'.seg = segment'
            BY <1>6
        <3>2. w \in WordsOf(ledger')
            BY <3>1 DEF Passes, WordsOf
        <3>3. w \in WordsOf(u.text)
            BY <1>6, <3>2 DEF WordsOf
        <3> QED
            BY <1>6, <2>10, <3>3
    <2>14. Disjoint(rows)'
        BY <1>6, <2>7 DEF Disjoint
    <2> QED
        BY <2>11, <2>12, <2>13, <2>14 DEF Owns, Disjoint
<1>9. ~moved' => (Disjoint(rows) /\ (~done => Owns))'
    BY <1>8 DEF Disjoint
<1> QED
    BY <1>3, <1>7, <1>9 DEF OwnInv

\* A decode.
LEMMA PartialOwns ==
    ASSUME OwnInv, NEW g \in Decodes, NEW hold \in BOOLEAN, NEW early \in BOOLEAN,
           NEW aged \in BOOLEAN, Partial(g, hold, early, aged)
    PROVE  OwnInv'
<1>1. CommitInv /\ shown.lo = heard.lo /\ shown \in Texts
    BY DEF OwnInv, Steady, CommitInv, Shape
<1>2. g \in Texts /\ g.lo = heard.lo
    BY <1>1, DecodesAre
<1>3. PICK t \in Texts : t = (IF hold THEN shown ELSE g) /\ t.lo = heard.lo
    BY <1>1, <1>2
<1>4. PICK u : u = Update(Input(t, g, TRUE), [Mode EXCEPT !.holdback = TRUE], early, aged)
    OBVIOUS
<1>5. Stays(u) /\ shown' = t /\ heard' = g /\ ~done
    BY <1>3, <1>4 DEF Partial
<1>6. PICK in : in = Input(t, g, TRUE)
    OBVIOUS
<1>7. in.text = t /\ in.text \in Texts /\ in.anchor \in Anchors
    BY <1>1, <1>6, InputIs DEF Input
<1> QED
    BY <1>2, <1>3, <1>4, <1>5, <1>6, <1>7, StaysOwns

\* A pause.
LEMMA IdleOwns ==
    ASSUME OwnInv, NEW tail \in BOOLEAN, NEW aged \in BOOLEAN, Idle(tail, aged)
    PROVE  OwnInv'
<1>1. CommitInv /\ shown.lo = heard.lo /\ shown \in Texts /\ heard \in Texts
    BY DEF OwnInv, Steady, CommitInv, Shape
<1>2. PICK in : in = Input(shown, heard, FALSE)
    OBVIOUS
<1>3. PICK u : u = Update(in, [Mode EXCEPT !.all = TRUE, !.slice = TRUE, !.tail = tail], FALSE, aged)
    OBVIOUS
<1>4. Stays(u) /\ shown' = shown /\ heard' = heard /\ ~done
    BY <1>2, <1>3 DEF Idle
<1>5. in.text = shown /\ in.text \in Texts /\ in.anchor \in Anchors
    BY <1>1, <1>2, InputIs DEF Input
<1> QED
    BY <1>1, <1>3, <1>4, <1>5, StaysOwns

\* The cursor begins anew.
LEMMA FreshPlaced ==
    ASSUME Fresh, CommitInv'
    PROVE  Placed(cand, rows)'
<1>1. base' = Len(rows') /\ cand' = << >>
    BY DEF Fresh
<1>2. PICK n \in Nat : n = Len(rows')
    BY Members DEF CommitInv, Sound
<1>3. Len(<< >>) = 0
    BY EmptySeq
<1>4. \A k \in 1..0 : FALSE
    OBVIOUS
<1>5. \A i \in 1..n : ~(i > n)
    OBVIOUS
<1> QED
    BY <1>1, <1>2, <1>3, <1>4, <1>5 DEF Placed

\* The end of a segment.
LEMMA RotateOwns ==
    ASSUME OwnInv, NEW g \in Decodes, NEW reason \in {"hard", "vad"}, NEW mid \in BOOLEAN,
           NEW forced \in BOOLEAN, NEW canonical \in BOOLEAN, NEW fresh \in BOOLEAN,
           Rotate(g, reason, mid, forced, canonical, fresh)
    PROVE  OwnInv'
<1>1. CommitInv /\ Fits(pend, heard) /\ pend \in Pends /\ heard \in Texts /\ anchor \in Anchors
      /\ segment \in Nat
    BY DEF OwnInv, Steady, CommitInv, Shape
<1>2. g \in Texts /\ g.lo = heard.lo
    BY <1>1, DecodesAre
<1>3. CommitInv'
    BY <1>1, RotateIs
<1>4. PICK m : m = [Mode EXCEPT !.force = forced, !.tail = forced, !.all = TRUE,
                                !.slice = TRUE, !.final = TRUE,
                                !.holdback = (Len(UnitsOf(g)) = 1 /\ Empty(TailOf(g))
                                              /\ Short(UnitsOf(g)[1]) /\ ~forced) \/ mid,
                                !.promote = ~mid, !.canonical = canonical]
    OBVIOUS
<1>5. PICK in : in = Input(g, g, fresh)
    OBVIOUS
<1>6. PICK u : u = Update(in, m, FALSE, TRUE)
    OBVIOUS
<1>7. /\ ~done /\ ~Empty(g) /\ Commits(u) /\ Fresh
      /\ pend' = IF forced THEN NoPend ELSE Carry(g, u, reason, mid)
      /\ segment' = segment + 1
      /\ \E start \in {g.hi + 1} \cup (IF Overlap /\ reason = "hard" THEN {g.hi} ELSE {}) :
             heard' = Nothing(start) /\ shown' = Nothing(start)
      /\ done' = done
    BY <1>4, <1>5, <1>6 DEF Rotate
<1>8. m.force = forced /\ m.tail = forced
    BY <1>4 DEF Mode
<1>9. in.text = g /\ in.anchor = anchor
    BY <1>5 DEF Input
<1>10. Leaves(u)
    BY <1>1, <1>2, <1>6, <1>9, RunIs
<1>11. PICK j : j = Compose(g, anchor)
    OBVIOUS
<1>12. u.text = j.text /\ Speaks(u, j, m)
    <2>1. j = Compose(in.text, in.anchor)
        BY <1>9, <1>11
    <2>2. Speaks(Update(in, m, FALSE, TRUE), j, m)
        BY <2>1, UpdateSpeaks
    <2> QED
        BY <1>6, <2>2 DEF Speaks
<1>13. u.text.hi = g.hi
    <2>1. JoinsOn(Joined(g, anchor), g) /\ j.text.hi = Joined(g, anchor).text.hi
        BY <1>1, <1>2, <1>11, JoinedOn, ComposedOn
    <2> QED
        BY <1>7, <1>12, <2>1 DEF JoinsOn
<1>14. PICK p : p = pend'
    OBVIOUS
<1>15. CarriedOver(p, g, u, reason)
    <2>1. CASE forced
        BY <1>7, <1>14, <2>1 DEF CarriedOver, NoPend, Empty
    <2>2. CASE ~forced
        <3>1. p = Carry(g, u, reason, mid)
            BY <1>7, <1>14, <2>2
        <3> QED
            BY <1>2, <1>10, <1>12, <1>13, <3>1, CarryOver
    <2> QED
        BY <2>1, <2>2
<1>16. PICK h : h = heard'
    OBVIOUS
<1>17. /\ h.lo = g.hi \/ h.lo = g.hi + 1
       /\ reason = "vad" => h.lo = g.hi + 1
       /\ shown'.lo = h.lo
    <2>1. PICK start \in {g.hi + 1} \cup (IF Overlap /\ reason = "hard" THEN {g.hi} ELSE {}) :
              heard' = Nothing(start) /\ shown' = Nothing(start)
        BY <1>7
    <2>2. (start = g.hi \/ start = g.hi + 1) /\ (reason = "vad" => start = g.hi + 1)
        BY <2>1
    <2>3. Nothing(start).lo = start
        BY DEF Nothing
    <2> QED
        BY <1>16, <2>1, <2>2, <2>3
<1>18. Fits(p, h)
    <2>1. g.hi \in Nat
        BY <1>2, LosAre DEF Texts
    <2> QED
        BY <1>15, <1>17, <2>1 DEF Fits, CarriedOver
<1>19. Steady'
    <2>1. Fits(pend', heard')
        BY <1>14, <1>16, <1>18
    <2>2. Fits(pend, heard)'
        BY <2>1 DEF Fits, Empty, WordsOf
    <2> QED
        BY <1>16, <1>17, <2>2 DEF Steady
<1>20. /\ rows' = u.rows /\ born' = u.born /\ moved' = (moved \/ u.moved)
       /\ ledger' = [lo |-> u.text.lo, hi |-> u.text.hi, seg |-> segment]
       /\ base' = Len(rows')
    BY <1>7 DEF Commits, Fresh
<1>21. ASSUME ~moved' PROVE Disjoint(rows') /\ Owns'
    <2>1. ~moved /\ ~u.moved
        BY <1>20, <1>21
    <2>2. Owns
        BY <1>7, <2>1 DEF OwnInv
    <2>3. u.born = Born(j.text) /\ \E us, end, new : Adds(u, m, us, end, new)
        <3>1. j = Compose(in.text, in.anchor) /\ in.text \in Texts /\ in.anchor \in Anchors
            BY <1>1, <1>2, <1>9, <1>11
        <3>2. Placed(cand, rows)
            BY <2>2 DEF Owns
        <3>3. PICK aged \in BOOLEAN, early \in BOOLEAN : aged /\ ~early
            OBVIOUS
        <3>4. u = Update(in, m, early, aged)
            BY <1>6, <3>3
        <3> QED
            BY <1>1, <2>1, <3>1, <3>2, <3>4, AddsIs
    <2>4. PICK us, end, new : Adds(u, m, us, end, new)
        BY <2>3
    <2>5. u.text \in Texts /\ u.born = Born(u.text)
        BY <1>10, <1>12, <2>3 DEF Leaves
    <2>6. \A w \in WordsOf(u.text) : Reached(w)
        BY <1>1, <1>2, <1>11, <1>12, ComposedReach
    <2>7. Disjoint(u.rows)
        BY <1>1, <2>2, <2>4, <2>5, <2>6, RunApart
    <2>8. Known(u.rows, u.born)
        BY <1>1, <2>2, <2>4, <2>5, RunKnown
    <2>9. Placed(cand, rows)'
        BY <1>3, <1>7, FreshPlaced
    <2>10. Known(rows, born)'
        BY <1>20, <2>8 DEF Known
    <2>11. Untold'
        <3> SUFFICES ASSUME NEW i \in 1..base', NEW w \in Word, Passes(w)'
                     PROVE  <<w, born'[w]>> \notin rows'[i].ids
            BY DEF Untold
        <3>1. ledger'.seg # segment' /\ ledger'.lo = u.text.lo /\ ledger'.hi = u.text.hi
            BY <1>1, <1>7, <1>20
        <3>2. ~Empty(p) /\ Within(p, u.text) /\ w \in WordsOf(p)
            BY <1>14, <3>1 DEF Passes, Empty, Within, WordsOf
        <3>3. ~forced
            BY <1>7, <1>14, <3>2 DEF NoPend, Empty
        <3>4. p.lo \in Nat /\ p.hi \in Nat
            BY <1>3, <1>14, LosAre DEF CommitInv, Shape, Pends
        <3>5. i \in 1..Len(u.rows)
            BY <1>20
        <3>6. <<w, u.born[w]>> \notin u.rows[i].ids
            BY <1>1, <1>2, <1>7, <1>8, <1>11, <1>12, <1>15, <2>2, <2>4, <2>5, <3>2, <3>3, <3>4,
               <3>5, CarriedUntold
        <3> QED
            BY <1>20, <3>6
    <2>12. Disjoint(rows)'
        BY <1>20, <2>7 DEF Disjoint
    <2> QED
        BY <2>9, <2>10, <2>11, <2>12 DEF Owns, Disjoint
<1>22. ~moved' => (Disjoint(rows) /\ (~done => Owns))'
    BY <1>21 DEF Disjoint
<1> QED
    BY <1>3, <1>19, <1>22 DEF OwnInv

\* Without a prefix and with one text for both, all is in its place.
LEMMA SteadyAt ==
    ASSUME pend' = NoPend, shown'.lo = heard'.lo
    PROVE  Steady'
<1>1. Fits(NoPend, heard')
    BY DEF Fits, NoPend, Empty
<1>2. Fits(pend, heard)'
    BY <1>1 DEF Fits, Empty, WordsOf
<1> QED
    BY <1>2 DEF Steady

\* The words of the prefix that is put before nothing.
LEMMA CarriedReach ==
    ASSUME pend \in Pends, heard \in Texts, ~Empty(pend), NEW g \in Texts, g.lo = pend.lo,
           g.hi = pend.hi, NEW anc \in Anchors, NEW c, c = Compose(g, anc)
    PROVE  c.text.hi = pend.hi /\ \A w \in WordsOf(c.text) : Reached(w)
<1>1. PICK j : j = Joined(g, anc)
    OBVIOUS
<1>2. /\ JoinsOn(j, g) /\ c.text.hi = j.text.hi
      /\ c.text.lo = j.text.lo + (IF Cuts(j) THEN 1 ELSE 0)
    BY <1>1, JoinedOn, ComposedOn
<1>3. j.text.lo = pend.lo /\ j.text.hi = pend.hi
    BY <1>2 DEF JoinsOn
<1>4. c.text \in Texts
    BY ComposeIs
<1>5. PICK x \in Nat, y \in Nat, z \in Nat : x = c.text.lo /\ y = pend.lo /\ z = c.text.hi
    BY <1>4, LosAre DEF Texts, Pends
<1>6. x >= y
    BY <1>2, <1>3, <1>5
<1>7. ASSUME NEW w \in WordsOf(c.text) PROVE Reached(w)
    <2>1. w \in Nat /\ w >= x
        BY <1>5 DEF WordsOf
    <2>2. w >= pend.lo
        BY <1>5, <1>6, <2>1
    <2> QED
        BY <2>2 DEF Reached
<1> QED
    BY <1>2, <1>3, <1>7

\* The prefix that is committed by itself.
LEMMA CarriedOwns ==
    ASSUME OwnInv, CarriedEndpoint
    PROVE  OwnInv'
<1>1. /\ CommitInv /\ pend \in Pends /\ heard \in Texts /\ shown \in Texts /\ segment \in Nat
      /\ shown.lo = heard.lo
    BY DEF OwnInv, Steady, CommitInv, Shape
<1>2. PICK t : t = [lo |-> pend.lo, hi |-> pend.hi,
                    ends |-> IF pend.terminal THEN pend.ends \cup {pend.hi} ELSE pend.ends]
    OBVIOUS
<1>3. PICK in : in = [text |-> t, raw |-> heard, fresh |-> FALSE, anchor |-> NoAnchor]
    OBVIOUS
<1>4. PICK m : m = [Mode EXCEPT !.force = TRUE, !.all = TRUE, !.slice = TRUE, !.final = TRUE]
    OBVIOUS
<1>5. PICK u : u = Update(in, m, FALSE, TRUE)
    OBVIOUS
<1>6. PICK e : e = (u.moved \/ heard.lo <= pend.hi)
    OBVIOUS
<1>7. PICK v : v = [u EXCEPT !.moved = e]
    OBVIOUS
<1>8. /\ ~done /\ ~Empty(pend) /\ Commits(v) /\ Fresh /\ NoCarry
      /\ heard' = heard /\ shown' = shown /\ segment' = segment /\ done' = done
    BY <1>2, <1>3, <1>4, <1>5, <1>6, <1>7 DEF CarriedEndpoint
<1>9. t \in Texts /\ t.lo = pend.lo /\ t.hi = pend.hi
    <2>1. /\ pend.lo \in Los /\ pend.hi \in His /\ pend.ends \in SUBSET Word
        BY <1>1 DEF Pends
    <2>2. pend.hi \in Word
        <3>1. PICK x \in Nat, y \in Nat : x = pend.lo /\ y = pend.hi /\ 1 <= x /\ y <= MaxWord
            BY <2>1, LosAre
        <3>2. 1 <= y
            BY <1>8, <3>1 DEF Empty
        <3> QED
            BY <3>1, <3>2, LosAre
    <2>3. (IF pend.terminal THEN pend.ends \cup {pend.hi} ELSE pend.ends) \in SUBSET Word
        BY <2>1, <2>2
    <2> QED
        BY <1>2, <2>1, <2>3 DEF Texts
<1>10. CommitInv'
    BY <1>1, CarriedIs
<1>11. in.text = t /\ in.anchor = NoAnchor /\ in.text \in Texts /\ in.anchor \in Anchors
    BY <1>3, <1>9, NothingIs
<1>12. v.text = u.text /\ v.born = u.born /\ v.rows = u.rows /\ v.moved = e
    <2>1. Fields(u)
        BY <1>5, UpdateFields
    <2> QED
        BY <1>7, <2>1 DEF Fields
<1>13. /\ ledger' = [lo |-> u.text.lo, hi |-> u.text.hi, seg |-> segment]
       /\ born' = u.born /\ rows' = u.rows /\ moved' = (moved \/ e) /\ pend' = NoPend
       /\ base' = Len(rows')
    BY <1>8, <1>12 DEF Commits, NoCarry, Fresh
<1>14. Steady'
    BY <1>1, <1>8, <1>13, SteadyAt
<1>15. PICK j : j = Compose(t, NoAnchor)
    OBVIOUS
<1>16. j.text.hi = pend.hi /\ \A w \in WordsOf(j.text) : Reached(w)
    BY <1>1, <1>8, <1>9, <1>15, NothingIs, CarriedReach
<1>17. ASSUME ~moved' PROVE Disjoint(rows') /\ Owns'
    <2>1. ~moved /\ ~e
        BY <1>13, <1>17
    <2>2. ~u.moved /\ ~(heard.lo <= pend.hi)
        BY <1>6, <2>1
    <2>3. Owns
        BY <1>8, <2>1 DEF OwnInv
    <2>4. /\ u.text = j.text /\ u.born = Born(j.text)
          /\ \E us, end, new : Adds(u, m, us, end, new)
        <3>1. j = Compose(in.text, in.anchor)
            BY <1>11, <1>15
        <3>2. Placed(cand, rows)
            BY <2>3 DEF Owns
        <3>3. PICK aged \in BOOLEAN, early \in BOOLEAN : aged /\ ~early
            OBVIOUS
        <3>4. u = Update(in, m, early, aged)
            BY <1>5, <3>3
        <3> QED
            BY <1>1, <1>11, <2>2, <3>1, <3>2, <3>4, AddsIs
    <2>5. PICK us, end, new : Adds(u, m, us, end, new)
        BY <2>4
    <2>6. u.text \in Texts /\ u.born = Born(u.text)
        <3>1. Leaves(u)
            BY <1>1, <1>5, <1>11, RunIs
        <3> QED
            BY <2>4, <3>1 DEF Leaves
    <2>7. \A w \in WordsOf(u.text) : Reached(w)
        BY <1>16, <2>4
    <2>8. Disjoint(u.rows)
        BY <1>1, <2>3, <2>5, <2>6, <2>7, RunApart
    <2>9. Known(u.rows, u.born)
        BY <1>1, <2>3, <2>5, <2>6, RunKnown
    <2>10. Placed(cand, rows)'
        BY <1>8, <1>10, FreshPlaced
    <2>11. Known(rows, born)'
        BY <1>13, <2>9 DEF Known
    <2>12. Untold'
        <3> SUFFICES ASSUME NEW w \in Word, Passes(w)' PROVE FALSE
            BY DEF Untold
        <3>1. ledger'.seg = segment' /\ ledger'.hi = pend.hi /\ ledger'.lo = u.text.lo
            BY <1>8, <1>13, <1>16, <2>4
        <3>2. w \in ledger'.lo..ledger'.hi /\ Reached(w)'
            BY <3>1 DEF Passes, WordsOf
        <3>3. w >= heard.lo
            BY <1>8, <1>13, <3>2 DEF Reached, NoPend, Empty
        <3>4. PICK x \in Nat, y \in Nat : x = heard.lo /\ y = pend.hi
            BY <1>1, LosAre DEF Texts, Pends
        <3>5. PICK z \in Nat : z = ledger'.lo
            BY <2>6, <3>1, LosAre DEF Texts
        <3>6. w \in z..y /\ w >= x /\ ~(x <= y)
            BY <2>2, <3>1, <3>2, <3>3, <3>4, <3>5
        <3> QED
            BY <3>6
    <2>13. Disjoint(rows)'
        BY <1>13, <2>8 DEF Disjoint
    <2> QED
        BY <2>10, <2>11, <2>12, <2>13 DEF Owns, Disjoint
<1>18. ~moved' => (Disjoint(rows) /\ (~done => Owns))'
    BY <1>17 DEF Disjoint
<1> QED
    BY <1>10, <1>14, <1>18 DEF OwnInv

\* The end of the stream.
LEMMA FinishOwns ==
    ASSUME OwnInv, NEW g \in Decodes, NEW canonical \in BOOLEAN, Finish(g, canonical)
    PROVE  OwnInv'
<1>1. CommitInv /\ pend \in Pends /\ heard \in Texts /\ anchor \in Anchors
    BY DEF OwnInv, CommitInv, Shape
<1>2. g \in Texts /\ g.lo = heard.lo
    BY <1>1, DecodesAre
<1>3. PICK in : in = Input(g, g, TRUE)
    OBVIOUS
<1>4. PICK m : m = [Mode EXCEPT !.force = TRUE, !.final = TRUE, !.canonical = canonical]
    OBVIOUS
<1>5. PICK u : u = Update(in, m, FALSE, TRUE)
    OBVIOUS
<1>6. PICK rs : rs = IF u.rows = << >> THEN Recommitted(g) ELSE u.rows
    OBVIOUS
<1>7. PICK v : v = [u EXCEPT !.rows = rs]
    OBVIOUS
<1>8. /\ ~done /\ Commits(v) /\ NoCarry /\ heard' = g /\ shown' = g /\ done' = TRUE
    BY <1>3, <1>4, <1>5, <1>6, <1>7 DEF Finish
<1>9. CommitInv'
    BY <1>1, FinishIs
<1>10. in.text = g /\ in.anchor = anchor
    BY <1>3 DEF Input
<1>11. v.rows = rs /\ v.moved = u.moved
    <2>1. Fields(u)
        BY <1>5, UpdateFields
    <2> QED
        BY <1>7, <2>1 DEF Fields
<1>12. rows' = rs /\ moved' = (moved \/ u.moved) /\ pend' = NoPend
    BY <1>8, <1>11 DEF Commits, NoCarry
<1>13. Steady'
    BY <1>8, <1>12, SteadyAt
<1>14. ASSUME ~moved' PROVE Disjoint(rs)
    <2>1. ~moved /\ ~u.moved
        BY <1>12, <1>14
    <2>2. Owns
        BY <1>8, <2>1 DEF OwnInv
    <2>3. CASE u.rows = << >>
        BY <1>1, <1>2, <1>6, <2>3, RecommittedApart
    <2>4. CASE u.rows # << >>
        <3>1. PICK j : j = Compose(g, anchor)
            OBVIOUS
        <3>2. /\ u.text = j.text /\ u.born = Born(j.text)
              /\ \E us, end, new : Adds(u, m, us, end, new)
            <4>1. j = Compose(in.text, in.anchor) /\ in.text \in Texts /\ in.anchor \in Anchors
                BY <1>1, <1>2, <1>10, <3>1
            <4>2. Placed(cand, rows)
                BY <2>2 DEF Owns
            <4>3. PICK aged \in BOOLEAN, early \in BOOLEAN : aged /\ ~early
                OBVIOUS
            <4>4. u = Update(in, m, early, aged)
                BY <1>5, <4>3
            <4> QED
                BY <1>1, <2>1, <4>1, <4>2, <4>4, AddsIs
        <3>3. PICK us, end, new : Adds(u, m, us, end, new)
            BY <3>2
        <3>4. u.text \in Texts /\ u.born = Born(u.text)
            <4>1. j.text \in Texts
                BY <1>1, <1>2, <3>1, ComposeIs
            <4> QED
                BY <3>2, <4>1
        <3>5. \A w \in WordsOf(u.text) : Reached(w)
            BY <1>1, <1>2, <3>1, <3>2, ComposedReach
        <3>6. Disjoint(u.rows)
            BY <1>1, <2>2, <3>3, <3>4, <3>5, RunApart
        <3> QED
            BY <1>6, <2>4, <3>6
    <2> QED
        BY <2>3, <2>4
<1>15. ~moved' => (Disjoint(rows) /\ (~done => Owns))'
    BY <1>8, <1>12, <1>14 DEF Disjoint
<1> QED
    BY <1>9, <1>13, <1>15 DEF OwnInv

\* The second reading of the whole utterance.
LEMMA ReadAgainOwns ==
    ASSUME OwnInv, NEW E \in SUBSET Word, ReadAgain(E)
    PROVE  OwnInv'
<1>1. CommitInv /\ heard \in Texts
    BY DEF OwnInv, CommitInv, Shape
<1>2. PICK t : t = [lo |-> 1, hi |-> heard.hi, ends |-> E]
    OBVIOUS
<1>3. /\ rows' = Recommitted(t) /\ heard' = t /\ shown' = t /\ NoCarry /\ done' = TRUE
      /\ moved' = moved
    BY <1>2 DEF ReadAgain
<1>4. t \in Texts
    <2>1. heard.hi \in His
        BY <1>1 DEF Texts
    <2>2. 1 \in Los
        BY Constants DEF Los
    <2> QED
        BY <1>2, <2>1, <2>2 DEF Texts
<1>5. CommitInv'
    BY <1>1, ReadAgainIs
<1>6. PICK rs : rs = Recommitted(t)
    OBVIOUS
<1>7. Disjoint(rs)
    BY <1>1, <1>4, <1>6, RecommittedApart
<1>8. Disjoint(rows)'
    BY <1>3, <1>6, <1>7 DEF Disjoint
<1>9. Steady'
    BY <1>3, SteadyAt DEF NoCarry
<1> QED
    BY <1>3, <1>5, <1>8, <1>9 DEF OwnInv

\* Rows of the same words.
Alike(r, s) == r.lo = s.lo /\ r.hi = s.hi /\ r.ids = s.ids

\* Publication leaves the words of every row.
LEMMA PublishOwns ==
    ASSUME OwnInv, NEW n \in DOMAIN rows, Publish(n)
    PROVE  OwnInv'
<1>1. CommitInv /\ rows \in Seq(RowSet)
    BY DEF OwnInv, CommitInv, Sound
<1>2. /\ DOMAIN rows = 1..Len(rows) /\ Len(rows) \in Nat
      /\ \A i \in 1..Len(rows) : rows[i] \in RowSet
    BY <1>1, Members
<1>3. CommitInv' /\ Len(rows') = Len(rows)
    BY <1>1, PublishIs
<1>4. /\ rows' = [rows EXCEPT ![n].pub = TRUE, ![n].pids = rows[n].ids]
      /\ UNCHANGED <<heard, shown, segment, pend, ledger, born, base, cand, done, moved>>
    BY DEF Publish
<1>5. PICK new : new = rows'
    OBVIOUS
<1>6. new = [i \in 1..Len(rows) |-> IF i = n THEN Issued(rows[n]) ELSE rows[i]]
    BY <1>2, <1>4, <1>5 DEF Issued
<1>7. ASSUME NEW i \in 1..Len(rows) PROVE Alike(new[i], rows[i])
    <2>1. CASE i = n
        <3>1. PICK r \in RowSet : r = rows[n]
            BY <1>2, <2>1
        <3>2. PICK s : s = Issued(r)
            OBVIOUS
        <3>3. s.lo = r.lo /\ s.hi = r.hi /\ s.ids = r.ids
            BY <3>2, IssuedIs
        <3>4. new[i] = s
            BY <1>6, <2>1, <3>1, <3>2
        <3> QED
            BY <2>1, <3>1, <3>3, <3>4 DEF Alike
    <2>2. CASE i # n
        <3>1. new[i] = rows[i]
            BY <1>6, <2>2
        <3> QED
            BY <3>1 DEF Alike
    <2> QED
        BY <2>1, <2>2
<1>8. Steady'
    <2>1. Steady
        BY DEF OwnInv
    <2> QED
        BY <1>4, <2>1 DEF Steady, Fits, Empty, WordsOf
<1>9. ASSUME Disjoint(rows) PROVE Disjoint(rows)'
    <2>1. Disjoint(new)
        BY <1>3, <1>5, <1>7, <1>9 DEF Disjoint, Alike
    <2> QED
        BY <1>5, <2>1 DEF Disjoint
<1>10. ASSUME Owns PROVE Owns'
    <2>1. Placed(cand, new)
        <3>1. base \in Nat /\ Placed(cand, rows)
            BY <1>1, <1>10 DEF Owns, CommitInv, Shape
        <3>2. ASSUME NEW k \in 1..Len(cand), cand[k].row # 0
              PROVE  /\ cand[k].row > base /\ cand[k].row <= Len(new)
                     /\ new[cand[k].row].lo = cand[k].lo /\ new[cand[k].row].hi = cand[k].hi
            <4>1. /\ cand[k].row > base /\ cand[k].row <= Len(rows)
                  /\ rows[cand[k].row].lo = cand[k].lo /\ rows[cand[k].row].hi = cand[k].hi
                BY <3>1, <3>2 DEF Placed
            <4>2. cand[k].row \in Nat
                <5>1. cand \in Seq(Cursors)
                    BY <1>1 DEF CommitInv, Aims
                <5>2. cand[k] \in Cursors
                    BY <3>2, <5>1, Members
                <5> QED
                    BY <5>2 DEF Cursors
            <4>3. cand[k].row \in 1..Len(rows)
                BY <1>2, <3>2, <4>1, <4>2
            <4> QED
                BY <1>3, <1>5, <1>7, <4>1, <4>3 DEF Alike
        <3> QED
            BY <1>3, <1>5, <3>1, <3>2 DEF Placed
    <2>2. Placed(cand, rows)'
        BY ZenonT(30), <1>4, <1>5, <2>1 DEF Placed
    <2>3. Known(new, born)
        BY <1>3, <1>5, <1>7, <1>10 DEF Owns, Known, Alike
    <2>4. Known(rows, born)'
        BY <1>4, <1>5, <2>3 DEF Known
    <2>5. Untold'
        <3> SUFFICES ASSUME NEW i \in 1..base, NEW w \in Word, Passes(w)
                     PROVE  <<w, born[w]>> \notin new[i].ids
            BY <1>4, <1>5 DEF Untold, Passes, Reached, WordsOf, Within, Empty
        <3>1. <<w, born[w]>> \notin rows[i].ids
            BY <1>10 DEF Owns, Untold
        <3>2. i \in 1..Len(rows)
            <4>1. base \in Nat /\ base <= Len(rows)
                BY <1>1, <1>10 DEF Owns, Placed, CommitInv, Shape
            <4> QED
                BY <1>2, <4>1
        <3> QED
            BY <1>7, <3>1, <3>2 DEF Alike
    <2>6. Disjoint(rows)'
        BY <1>9, <1>10 DEF Owns
    <2> QED
        BY <2>2, <2>4, <2>5, <2>6 DEF Owns
<1>11. (~moved => Disjoint(rows) /\ (~done => Owns))'
    <2>1. ~moved => Disjoint(rows) /\ (~done => Owns)
        BY DEF OwnInv
    <2> QED
        BY <1>4, <1>9, <1>10, <2>1
<1> QED
    BY <1>3, <1>8, <1>11 DEF OwnInv

\* At first there are no rows.
LEMMA OwnInit == Init => OwnInv
<1> SUFFICES ASSUME Init PROVE OwnInv
    OBVIOUS
<1>1. /\ heard = Nothing(1) /\ shown = Nothing(1) /\ pend = NoPend /\ rows = << >> /\ base = 0
      /\ cand = << >>
    BY DEF Init
<1>2. CommitInv
    BY CommitInit
<1>3. Len(<< >>) = 0 /\ (\A i \in 1..0 : FALSE) /\ (\A i, j \in 1..0 : FALSE)
    BY EmptySeq
<1>4. Steady
    BY <1>1 DEF Steady, Fits, NoPend, Empty
<1>5. Disjoint(rows) /\ Placed(cand, rows) /\ Known(rows, born) /\ Untold
    BY <1>1, <1>3 DEF Disjoint, Placed, Known, Untold
<1> QED
    BY <1>2, <1>4, <1>5 DEF OwnInv, Owns

\* Each step keeps it.
LEMMA OwnNext == OwnInv /\ Next => OwnInv'
<1> SUFFICES ASSUME OwnInv, Next PROVE OwnInv'
    OBVIOUS
<1>1. CASE \E g \in Decodes, hold, early, aged \in BOOLEAN : Partial(g, hold, early, aged)
    BY <1>1, PartialOwns
<1>2. CASE \E tail, aged \in BOOLEAN : Idle(tail, aged)
    BY <1>2, IdleOwns
<1>3. CASE \E g \in Decodes, mid, forced, canonical, fresh \in BOOLEAN, reason \in {"hard", "vad"} :
               Rotate(g, reason, mid, forced, canonical, fresh)
    BY <1>3, RotateOwns
<1>4. CASE CarriedEndpoint
    BY <1>4, CarriedOwns
<1>5. CASE \E g \in Decodes, canonical \in BOOLEAN : Finish(g, canonical)
    BY <1>5, FinishOwns
<1>6. CASE \E E \in SUBSET Word : ReadAgain(E)
    BY <1>6, ReadAgainOwns
<1>7. CASE \E n \in DOMAIN rows : Publish(n)
    BY <1>7, PublishOwns
<1> QED
    BY <1>1, <1>2, <1>3, <1>4, <1>5, <1>6, <1>7 DEF Next

\* It is about the variables.
LEMMA OwnStutter == OwnInv /\ UNCHANGED vars => OwnInv'
<1> SUFFICES ASSUME OwnInv, UNCHANGED vars PROVE OwnInv'
    OBVIOUS
<1>1. UNCHANGED <<heard, shown, segment, pend, ledger, born, rows, base, cand, done, moved>>
    BY DEF vars
<1>2. CommitInv'
    BY CommitStutter DEF OwnInv
<1>3. Steady'
    BY <1>1 DEF OwnInv, Steady, Fits, Empty, WordsOf
<1>4. Disjoint(rows) => Disjoint(rows)'
    BY <1>1 DEF Disjoint
<1>5. Owns => Owns'
    BY <1>1 DEF Owns, Placed, Known, Disjoint, Untold, Passes, Reached, WordsOf, Within, Empty
<1>6. (~moved => Disjoint(rows) /\ (~done => Owns))'
    <2>1. ~moved => Disjoint(rows) /\ (~done => Owns)
        BY DEF OwnInv
    <2> QED
        BY <1>1, <1>4, <1>5, <2>1
<1> QED
    BY <1>2, <1>3, <1>6 DEF OwnInv

\* As long as no decode cuts consumed units differently, no occurrence of a word is
\* in two rows, whatever is carried, merged, grown or committed early: nothing is
\* spoken twice (StableBoundariesOwnOnce).
THEOREM StableBoundariesAreOwn == Spec => []StableBoundariesOwnOnce
<1>1. OwnInv /\ [Next]_vars => OwnInv'
    BY OwnNext, OwnStutter
<1>2. OwnInv => StableBoundariesOwnOnce
    <2> SUFFICES ASSUME OwnInv, ~moved, NEW i \in DOMAIN rows, NEW j \in DOMAIN rows, i # j
                 PROVE  rows[i].ids \cap rows[j].ids = {}
        BY DEF StableBoundariesOwnOnce
    <2>1. rows \in Seq(RowSet) /\ Disjoint(rows)
        BY DEF OwnInv, CommitInv, Sound
    <2>2. DOMAIN rows = 1..Len(rows)
        BY <2>1, LenProperties
    <2> QED
        BY <2>1, <2>2 DEF Disjoint
<1> QED
    BY <1>1, <1>2, OwnInit, PTL DEF Spec

-------------------------------------------------------------------------------
(* The words that rows have. *)

\* A word is in a row; all up to one are.
Has(rs, w) == \E i \in 1..Len(rs) : w \in WordsOf(rs[i])
Filled(rs, h) == \A w \in Nat : 1 <= w /\ w <= h => Has(rs, w)

\* A word between the first unit and the end of one is in one of them.
LEMMA LinedHas ==
    ASSUME NEW t \in Texts, NEW us, Lined(us, t), NEW end \in 1..Len(us), NEW w \in Nat,
           t.lo <= w, w <= us[end].hi
    PROVE  \E k \in 1..end : w \in WordsOf(us[k])
<1>1. us \in Seq(Units)
    BY DEF Lined
<1>2. PICK n \in Nat : n = Len(us) /\ end \in 1..n /\ end \in Nat
    BY <1>1, Members
<1>3. ASSUME NEW k \in 1..n
      PROVE  us[k].lo \in Nat /\ us[k].hi \in Nat /\ us[k].lo = IF k = 1 THEN t.lo ELSE us[k - 1].hi + 1
    <2>1. PICK v \in Units : v = us[k]
        BY <1>1, <1>2, Members
    <2> QED
        BY <1>2, <2>1, LosAre DEF Units, Lined
<1>4. PICK S : S = {k \in 1..end : w <= us[k].hi}
    OBVIOUS
<1>5. Places(S, end) /\ end \in S
    BY <1>2, <1>4 DEF Places
<1>6. PICK k \in S : \A x \in S : k <= x
    BY <1>5, FirstIs
<1>7. k \in 1..n /\ k \in 1..end /\ w <= us[k].hi
    BY <1>2, <1>4
<1>8. us[k].lo <= w
    <2>1. CASE k = 1
        BY <1>3, <1>7, <2>1
    <2>2. CASE k # 1
        <3>1. k - 1 \in 1..end /\ k - 1 \in 1..n /\ k - 1 \in Nat /\ k - 1 < k
            BY <1>2, <1>7, <2>2
        <3>2. k - 1 \notin S
            <4>1. k - 1 \in S => k <= k - 1
                BY <1>6
            <4> QED
                BY <1>7, <3>1, <4>1
        <3>3. ~(w <= us[k - 1].hi)
            BY <1>4, <3>1, <3>2
        <3>4. us[k - 1].hi \in Nat
            BY <1>3, <3>1
        <3> QED
            BY <1>3, <1>7, <2>2, <3>3, <3>4
    <2> QED
        BY <2>1, <2>2
<1>9. w \in WordsOf(us[k])
    BY <1>3, <1>7, <1>8 DEF WordsOf
<1> QED
    BY <1>7, <1>9

\* The units before a place hold everything before it.
Before(us, t, end, h) ==
    \A w \in Nat : t.lo <= w /\ w <= h => \E k \in 1..end : w \in WordsOf(us[k])

\* So they do up to an earlier one.
LEMMA BeforeTo ==
    ASSUME NEW us, NEW t, NEW end, NEW h \in Int, Before(us, t, end, h), NEW k \in Int, k <= h
    PROVE  Before(us, t, end, k)
<1>1. ASSUME NEW w \in Nat, t.lo <= w, w <= k PROVE \E i \in 1..end : w \in WordsOf(us[i])
    <2>1. w <= h
        BY <1>1
    <2> QED
        BY <1>1, <2>1 DEF Before
<1> QED
    BY <1>1 DEF Before

\* So the units up to the end do with everything that is not left open.
LEMMA OpenBefore ==
    ASSUME NEW t \in Texts, NEW us, Lined(us, t), NEW m, Whole(us, t, m), NEW end \in Nat,
           end <= Len(us), NEW o, o = Open(us, t, m, end)
    PROVE  IF Empty(o) THEN Before(us, t, end, t.hi) ELSE Before(us, t, end, o.lo - 1)
<1>1. us \in Seq(Units) /\ o \in Texts
    BY OpenIs DEF Lined
<1>2. PICK n \in Nat : n = Len(us) /\ end <= n
    BY <1>1, Members
<1>3. PICK a \in Nat, b \in Nat, x \in Nat, y \in Nat :
          a = t.lo /\ b = t.hi /\ x = o.lo /\ y = o.hi
    BY <1>1, LosAre DEF Texts
<1>4. ASSUME NEW k \in 1..n
      PROVE  /\ us[k].lo \in Nat /\ us[k].hi \in Nat /\ us[k].lo <= us[k].hi
             /\ us[k].hi <= b
             /\ us[k].lo = IF k = 1 THEN a ELSE us[k - 1].hi + 1
    <2>1. PICK v \in Units : v = us[k]
        BY <1>1, <1>2, Members
    <2> QED
        BY <1>2, <1>3, <2>1, LosAre DEF Units, Lined, Within
<1>5. CASE end < n
    <2>1. o.lo = us[end + 1].lo /\ o.hi = t.hi
        BY <1>2, <1>5 DEF Open
    <2>2. end + 1 \in 1..n
        BY <1>5
    <2>3. ~Empty(o)
        <3>1. PICK k \in 1..n : k = end + 1
            BY <2>2
        <3>2. us[k].lo \in Nat /\ us[k].hi \in Nat /\ us[k].lo <= us[k].hi /\ us[k].hi <= b
            BY <1>4
        <3>3. x = us[k].lo /\ y = b
            BY <1>3, <2>1, <3>1
        <3> QED
            BY <1>3, <3>2, <3>3 DEF Empty
    <2>4. ASSUME NEW w \in Nat, t.lo <= w, w <= o.lo - 1
          PROVE  \E k \in 1..end : w \in WordsOf(us[k])
        <3>1. end # 0
            BY <1>3, <1>4, <2>1, <2>2, <2>4
        <3>2. end \in 1..n /\ us[end + 1].lo = us[end].hi + 1
            BY <1>2, <1>4, <2>2, <3>1
        <3>3. w <= us[end].hi
            <4>1. us[end].hi \in Nat
                BY <1>4, <3>2
            <4> QED
                BY <2>1, <2>4, <3>2, <4>1
        <3> QED
            BY <1>2, <2>4, <3>2, <3>3, LinedHas
    <2> QED
        BY <2>3, <2>4 DEF Before
<1>6. CASE ~(end < n)
    <2>1. end = n
        BY <1>2, <1>6
    <2>2. PICK vs \in Seq(Units) : vs = UnitsOf(t)
        BY UnitsAre
    <2>3. PICK v \in Units : v = TailOf(t)
        BY TailIs
    <2>4. v.hi = b /\ v.lo = IF vs = << >> THEN a ELSE vs[Len(vs)].hi + 1
        BY <1>3, <2>2, <2>3, TailIs
    <2>5. v.lo \in Nat
        BY <2>3, LosAre DEF Units
    <2>6. ASSUME ~TakesTail(t, m) PROVE Before(us, t, end, v.lo - 1)
        <3>1. n = Len(vs) /\ \A k \in 1..n : us[k] = vs[k]
            <4>1. Len(vs) \in Nat
                BY <2>2, Members
            <4> QED
                BY <1>2, <2>2, <2>6, <4>1 DEF Whole
        <3>2. CASE n = 0
            <4>1. vs = << >>
                BY <2>2, <3>1, <3>2, EmptySeq
            <4> QED
                BY <1>3, <2>4, <4>1 DEF Before
        <3>3. CASE n # 0
            <4>1. vs # << >> /\ n \in 1..n
                BY <3>1, <3>3, EmptySeq
            <4>2. v.lo = us[n].hi + 1 /\ us[n].hi \in Nat
                BY <1>4, <2>4, <3>1, <4>1
            <4>3. ASSUME NEW w \in Nat, t.lo <= w, w <= v.lo - 1
                  PROVE  \E k \in 1..end : w \in WordsOf(us[k])
                <5>1. w <= us[n].hi
                    BY <4>2, <4>3
                <5> QED
                    BY <1>2, <2>1, <4>1, <4>3, <5>1, LinedHas
            <4> QED
                BY <4>3 DEF Before
        <3> QED
            BY <3>2, <3>3
    <2>7. CASE TakesTail(t, m)
        <3>1. Len(UnitsOf(t)) \in Nat
            BY <2>2, Members
        <3>2. n \in 1..n /\ us[n] = v
            BY <1>2, <2>3, <2>7, <3>1 DEF Whole
        <3>3. Before(us, t, end, b)
            <4> SUFFICES ASSUME NEW w \in Nat, t.lo <= w, w <= b
                         PROVE  \E k \in 1..end : w \in WordsOf(us[k])
                BY DEF Before
            <4>1. w <= us[n].hi
                BY <2>4, <3>2
            <4> QED
                BY <1>2, <2>1, <3>2, <4>1, LinedHas
        <3>4. Empty(o)
            <4>1. Rest(t, m) = Blank
                BY <2>7 DEF Rest, TakesTail
            <4>2. Empty(Blank) /\ Blank.lo = 1
                BY DEF Blank, Empty, Unit
            <4>3. o.lo = 1 /\ o.hi = 0
                BY <1>2, <2>1, <4>1, <4>2 DEF Open
            <4> QED
                BY <4>3 DEF Empty
        <3> QED
            BY <1>3, <3>3, <3>4
    <2>8. CASE ~TakesTail(t, m) /\ (m.force \/ m.tail)
        <3>1. Empty(v)
            BY <2>3, <2>8 DEF TakesTail
        <3>2. Before(us, t, end, b)
            <4>1. b <= v.lo - 1
                BY <2>4, <2>5, <3>1 DEF Empty
            <4>2. Before(us, t, end, v.lo - 1)
                BY <2>6, <2>8
            <4> QED
                BY <1>3, <2>5, <4>1, <4>2, BeforeTo
        <3>3. Empty(o)
            <4>1. Rest(t, m) = Blank
                BY <2>8 DEF Rest
            <4>2. Empty(Blank) /\ Blank.lo = 1
                BY DEF Blank, Empty, Unit
            <4>3. o.lo = 1 /\ o.hi = 0
                BY <1>2, <2>1, <4>1, <4>2 DEF Open
            <4> QED
                BY <4>3 DEF Empty
        <3> QED
            BY <1>3, <3>2, <3>3
    <2>9. CASE ~TakesTail(t, m) /\ ~(m.force \/ m.tail)
        <3>1. Rest(t, m) = v
            BY <2>3, <2>9 DEF Rest
        <3>2. o.lo = v.lo /\ o.hi = IF ~Empty(v) THEN t.hi ELSE v.lo - 1
            BY <1>2, <2>1, <3>1 DEF Open
        <3>3. CASE Empty(v)
            <4>1. Empty(o)
                BY <2>5, <3>2, <3>3 DEF Empty
            <4>2. b <= v.lo - 1
                BY <2>4, <2>5, <3>3 DEF Empty
            <4>3. Before(us, t, end, v.lo - 1)
                BY <2>6, <2>9
            <4>4. Before(us, t, end, b)
                BY <1>3, <2>5, <4>2, <4>3, BeforeTo
            <4> QED
                BY <1>3, <4>1, <4>4
        <3>4. CASE ~Empty(v)
            <4>1. ~Empty(o)
                BY <1>3, <2>4, <3>2, <3>4 DEF Empty
            <4>2. Before(us, t, end, v.lo - 1)
                BY <2>6, <2>9
            <4> QED
                BY <3>2, <4>1, <4>2
        <3> QED
            BY <3>3, <3>4
    <2> QED
        BY <2>7, <2>8, <2>9
<1> QED
    BY <1>5, <1>6

\* Where the words begin that no row needs to have yet.
Owed == IF Empty(pend) THEN heard.lo ELSE pend.lo
Due == IF Len(cand) = 0 THEN Owed ELSE cand[1].lo

\* Every word before that is in a row.
Begun == Filled(rows, Due - 1)

\* So are the words of the consumed units.
Told(cs, rs) == \A k \in 1..Len(cs) : \A w \in WordsOf(cs[k]) : Has(rs, w)

\* So is the word that the next text may repeat.
Doubled == Len(cand) = 0 /\ Empty(pend) /\ anchor.hi = heard.lo => Has(rows, anchor.hi)

\* The words that were spoken are words of their row.
Spoken(rs) == \A i \in 1..Len(rs) : \A p \in rs[i].pids : p[1] \in WordsOf(rs[i])

\* A prefix that ends a sentence is longer than a word: a single one lost its period.
Lasting(p) == ~Empty(p) /\ Stop(p) => p.lo < p.hi

\* Nothing is lost so far.
Kept == Begun /\ Told(cand, rows) /\ Doubled /\ Spoken(rows) /\ Lasting(pend)

\* A run loses no word of a row, and its units' words are in rows.
LEMMA RunHas ==
    ASSUME CommitInv, Told(cand, rows), Spoken(rows), NEW u, NEW m, NEW us, NEW end, NEW new,
           Adds(u, m, us, end, new), u.text \in Texts, u.born \in [Word -> Nat]
    PROVE  /\ \A w : Has(rows, w) => Has(u.rows, w)
           /\ \A k \in 1..end : \A w \in WordsOf(us[k]) : Has(u.rows, w)
           /\ Spoken(u.rows)
<1>1. /\ \A i \in 1..Len(rows) : Same(u.rows[i], rows[i]) /\ i \in 1..Len(u.rows)
      /\ Len(rows) \in Nat /\ Cardinality(new) \in Nat
      /\ Len(u.rows) = Len(rows) + Cardinality(new) /\ Len(rows) <= Len(u.rows)
    BY OldIs
<1>2. Lined(us, u.text) /\ Holds(cand, us) /\ us \in Seq(Units) /\ Places(new, Len(us))
      /\ end \in Nat /\ end <= Len(us) /\ Len(cand) <= end
    BY DEF Adds, Lined
<1>3. cand \in Seq(Cursors) /\ Len(cand) \in Nat /\ Len(us) \in Nat
    BY <1>2, Members DEF CommitInv, Aims
<1>4. ASSUME NEW w, Has(rows, w) PROVE Has(u.rows, w)
    <2>1. PICK i \in 1..Len(rows) : w \in WordsOf(rows[i])
        BY <1>4 DEF Has
    <2>2. w \in WordsOf(u.rows[i])
        BY <1>1, <2>1 DEF Same, WordsOf
    <2> QED
        BY <1>1, <2>2 DEF Has
<1>5. ASSUME NEW k \in 1..end, NEW w \in WordsOf(us[k]) PROVE Has(u.rows, w)
    <2>1. CASE k <= Len(cand)
        <3>1. k \in 1..Len(cand)
            BY <1>2, <1>3, <2>1
        <3>2. us[k] = Unit(cand[k].lo, cand[k].hi)
            BY <1>2, <3>1 DEF Holds
        <3>3. Has(rows, w)
            <4>1. w \in WordsOf(cand[k])
                BY <3>2 DEF WordsOf, Unit
            <4> QED
                BY <3>1, <4>1 DEF Told
        <3> QED
            BY <1>4, <3>3
    <2>2. CASE ~(k <= Len(cand)) /\ k \in new
        <3>1. Rank(new, k) \in 1..Cardinality(new) /\ Nth(new, Rank(new, k)) = k
            BY <1>2, <2>2, NthOf
        <3>2. PICK r \in Nat, l \in Nat, c \in Nat :
                  r = Rank(new, k) /\ l = Len(rows) /\ c = Cardinality(new)
            BY <1>1, <3>1
        <3>3. PICK i \in Nat : i = l + r
            BY <3>2
        <3>4. i \in 1..Len(u.rows) /\ i > Len(rows) /\ i - Len(rows) = r
            BY <1>1, <3>1, <3>2, <3>3
        <3>5. Extended(u.rows, rows, us, new, u.text, u.born)
            BY DEF Adds
        <3>6. PICK j \in new : /\ j = Nth(new, i - Len(rows))
                               /\ u.rows[i].lo = us[j].lo /\ u.rows[i].hi = us[j].hi
            BY <3>4, <3>5 DEF Extended
        <3>7. j = k
            BY <3>1, <3>2, <3>4, <3>6
        <3>8. w \in WordsOf(u.rows[i])
            BY <3>6, <3>7 DEF WordsOf
        <3> QED
            BY <3>4, <3>8 DEF Has
    <2>3. CASE ~(k <= Len(cand)) /\ k \notin new
        <3>1. k \in Len(cand) + 1..end
            BY <1>2, <1>3, <2>3
        <3>2. Picks(new, us, end, m, u.text, u.born)
            BY DEF Adds
        <3>3. PICK S : S = Span(us[k], u.text, u.born)
            OBVIOUS
        <3>4. Held(us[k], S, m, rows)
            BY <2>3, <3>1, <3>2, <3>3 DEF Picks
        <3>5. rows \in Seq(RowSet) /\ DOMAIN rows = 1..Len(rows) /\ base \in Nat
              /\ \A i \in 1..Len(rows) : Bound(rows[i])
            BY Members DEF CommitInv, Shape, Sound
        <3>6. k \in 1..Len(us)
            BY <1>2, <1>3
        <3>7. PICK v \in Units : v = us[k]
            BY <1>2, <3>6, Members
        <3>8. v.lo \in Nat /\ v.hi \in Nat /\ w \in Nat /\ v.lo <= w /\ w <= v.hi
            <4>1. v.lo \in Nat /\ v.hi \in Nat
                BY LosAre DEF Units
            <4> QED
                BY <3>7, <4>1 DEF WordsOf
        <3>9. CASE AlreadyHeld(us[k], m, rows)
            <4>1. PICK i \in base + 1..Len(rows) : Within(us[k], rows[i])
                BY <3>9 DEF AlreadyHeld
            <4>2. i \in 1..Len(rows)
                BY <1>1, <3>5
            <4>3. rows[i].lo \in Nat /\ rows[i].hi \in Nat
                <5>1. PICK r \in RowSet : r = rows[i]
                    BY <3>5, <4>2, Members
                <5> QED
                    BY <5>1, LosAre DEF RowSet
            <4>4. w \in WordsOf(rows[i])
                BY <3>7, <3>8, <4>1, <4>3 DEF Within, WordsOf
            <4>5. Has(rows, w)
                BY <4>2, <4>4 DEF Has
            <4> QED
                BY <1>4, <4>5
        <3>10. CASE S # {} /\ \E i \in DOMAIN rows : Covers(rows[i], S)
            <4>1. PICK i \in 1..Len(rows) : Covers(rows[i], S)
                BY <3>5, <3>10
            <4>2. <<w, u.born[w]>> \in S
                BY <3>3, <3>7, <3>10, SpanIs
            <4>3. PICK p \in S : p = <<w, u.born[w]>> /\ p[1] = w
                BY <4>2
            <4>4. p \in rows[i].ids \/ p \in rows[i].pids
                BY <4>1 DEF Covers
            <4>5. p \in rows[i].ids => w \in WordsOf(rows[i])
                BY <3>5, <4>3 DEF Bound
            <4>6. p \in rows[i].pids => w \in WordsOf(rows[i])
                BY <4>3 DEF Spoken
            <4>7. Has(rows, w)
                BY <4>4, <4>5, <4>6 DEF Has
            <4> QED
                BY <1>4, <4>7
        <3> QED
            BY <3>3, <3>4, <3>9, <3>10 DEF Held
    <2> QED
        BY <2>1, <2>2, <2>3
<1>6. Spoken(u.rows)
    <2> SUFFICES ASSUME NEW i \in 1..Len(u.rows), NEW p \in u.rows[i].pids
                 PROVE  p[1] \in WordsOf(u.rows[i])
        BY DEF Spoken
    <2>1. CASE i <= Len(rows)
        <3>1. i \in 1..Len(rows)
            BY <1>1, <2>1
        <3>2. /\ u.rows[i].lo = rows[i].lo /\ u.rows[i].hi = rows[i].hi
              /\ u.rows[i].pids = rows[i].pids
            BY <1>1, <3>1 DEF Same
        <3> QED
            BY <3>1, <3>2 DEF Spoken, WordsOf
    <2>2. CASE ~(i <= Len(rows))
        <3>1. i > Len(rows)
            BY <1>1, <2>2
        <3>2. Extended(u.rows, rows, us, new, u.text, u.born)
            BY DEF Adds
        <3>3. u.rows[i].pids = {}
            BY <3>1, <3>2 DEF Extended
        <3> QED
            BY <3>3
    <2> QED
        BY <2>1, <2>2
<1> QED
    BY <1>4, <1>5, <1>6

\* What a run has consumed, and what is before it, is in rows: up to where the open
\* words begin, or up to the end.
LEMMA RunFills ==
    ASSUME CommitInv, Told(cand, rows), Spoken(rows), NEW u, NEW m, NEW us, NEW end, NEW new,
           Adds(u, m, us, end, new), u.text \in Texts, u.born \in [Word -> Nat],
           Filled(rows, u.text.lo - 1)
    PROVE  Filled(u.rows, IF Empty(u.open) THEN u.text.hi ELSE u.open.lo - 1)
<1>1. Lined(us, u.text) /\ Whole(us, u.text, m) /\ u.open = Open(us, u.text, m, end)
      /\ end \in Nat /\ end <= Len(us)
    BY DEF Adds
<1>2. PICK h : h = IF Empty(u.open) THEN u.text.hi ELSE u.open.lo - 1
    OBVIOUS
<1>3. Before(us, u.text, end, h)
    BY <1>1, <1>2, OpenBefore
<1>4. u.text.lo \in Nat
    BY LosAre DEF Texts
<1>5. ASSUME NEW w \in Nat, 1 <= w, w <= h PROVE Has(u.rows, w)
    <2>1. CASE u.text.lo <= w
        <3>1. PICK k \in 1..end : w \in WordsOf(us[k])
            BY <1>3, <1>5, <2>1 DEF Before
        <3> QED
            BY <3>1, RunHas
    <2>2. CASE ~(u.text.lo <= w)
        <3>1. w <= u.text.lo - 1
            BY <1>4, <2>2
        <3>2. Has(rows, w)
            BY <1>5, <3>1 DEF Filled
        <3> QED
            BY <3>2, RunHas
    <2> QED
        BY <2>1, <2>2
<1> QED
    BY <1>2, <1>5 DEF Filled

\* What the rows have stays theirs.
LEMMA FilledOn ==
    ASSUME NEW rs, NEW h, Filled(rs, h), NEW new, \A w : Has(rs, w) => Has(new, w)
    PROVE  Filled(new, h)
BY DEF Filled

\* A run that must go to the end does: nothing is left open.
LEMMA ForcedAll ==
    ASSUME NEW us \in Seq(Units), NEW t, NEW m, m.force, NEW cs, NEW c \in Nat, c <= Len(us),
           NEW prev, NEW early, NEW end, end = AtLeast(c, ReadyEnd(us, c, t, m, prev, early))
    PROVE  end = Len(us) /\ Empty(Open(us, t, m, end))
<1>1. PICK n \in Nat : n = Len(us)
    BY Members
<1>2. HeldEnd(us, c, m, prev) = n
    BY <1>1 DEF HeldEnd
<1>3. ~Promotes(us, c, t, m, prev, early)
    BY DEF Promotes, Watched
<1>4. \A k : ~Stops(us, t, m, k)
    BY DEF Stops
<1>5. ReadyEnd(us, c, t, m, prev, early) = n
    <2>1. n + 0 = n
        OBVIOUS
    <2> QED
        BY <1>2, <1>3, <1>4, <2>1 DEF ReadyEnd
<1>6. end = n
    BY <1>1, <1>5 DEF AtLeast
<1>7. Rest(t, m) = Blank
    BY DEF Rest
<1>8. Empty(Blank) /\ Blank.lo = 1
    BY DEF Blank, Empty, Unit
<1>9. PICK o : o = Open(us, t, m, end)
    OBVIOUS
<1>10. o.lo = 1 /\ o.hi = 0
    BY <1>1, <1>6, <1>7, <1>8, <1>9 DEF Open
<1> QED
    BY <1>1, <1>6, <1>9, <1>10 DEF Empty

\* Without a prefix the text is the decode's, and its anchor the given one.
LEMMA JoinedPlain ==
    ASSUME Empty(pend), NEW g, NEW anc, NEW j, j = Joined(g, anc)
    PROVE  j.text = g /\ j.pend = pend /\ j.anchor = anc
BY DEF Joined

\* All before the text is in rows, unless words of the prefix are cut off.
LEMMA Begins ==
    ASSUME CommitInv, Kept, NEW g \in Texts, NEW anc \in Anchors,
           Empty(pend) => g.lo = heard.lo /\ anc = anchor,
           NEW c, c = Compose(g, anc), NEW us, Lined(us, c.text), Holds(cand, us),
           Empty(pend) \/ ~(c.text.lo > pend.lo)
    PROVE  Filled(rows, c.text.lo - 1)
<1>1. pend \in Pends /\ heard \in Texts /\ anchor \in Anchors /\ cand \in Seq(Cursors)
    BY DEF CommitInv, Shape, Aims
<1>2. c.text \in Texts
    BY <1>1, ComposeIs
<1>3. PICK x \in Nat, y \in Nat, z \in Nat : x = c.text.lo /\ y = heard.lo /\ z = pend.lo
    BY <1>1, <1>2, LosAre DEF Texts, Pends
<1>4. Len(cand) \in Nat /\ Filled(rows, Due - 1)
    BY <1>1, Members DEF Kept, Begun
<1>5. CASE Len(cand) # 0
    <2>1. 1 \in 1..Len(cand) /\ Len(cand) <= Len(us) /\ Len(us) \in Nat
        BY <1>4, <1>5, Members DEF Holds, Lined
    <2>2. us[1] = Unit(cand[1].lo, cand[1].hi)
        BY <2>1 DEF Holds
    <2>3. 1 \in 1..Len(us)
        BY <1>4, <2>1
    <2>4. us[1].lo = c.text.lo
        BY <2>3 DEF Lined
    <2>5. us[1].lo = cand[1].lo
        BY <2>2 DEF Unit
    <2> QED
        BY <1>4, <1>5, <2>4, <2>5 DEF Due
<1>6. CASE Len(cand) = 0 /\ ~Empty(pend)
    <2>1. Due = pend.lo
        BY <1>6 DEF Due, Owed
    <2>2. x <= z
        BY <1>3, <1>6
    <2>3. ASSUME NEW w \in Nat, 1 <= w, w <= x - 1 PROVE Has(rows, w)
        <3>1. w <= z - 1
            BY <2>2, <2>3
        <3> QED
            BY <1>3, <1>4, <2>1, <2>3, <3>1 DEF Filled
    <2> QED
        BY <1>3, <2>3 DEF Filled
<1>7. CASE Len(cand) = 0 /\ Empty(pend)
    <2>1. Due = heard.lo
        BY <1>7 DEF Due, Owed
    <2>2. PICK j : j = Joined(g, anc)
        OBVIOUS
    <2>3. j.text = g /\ j.anchor = anchor
        BY <1>7, <2>2, JoinedPlain
    <2>4. x = y + (IF Cuts(j) THEN 1 ELSE 0)
        BY <1>1, <1>3, <1>7, <2>2, <2>3, ComposedOn
    <2>5. CASE ~Cuts(j)
        BY <1>3, <1>4, <2>1, <2>4, <2>5
    <2>6. CASE Cuts(j)
        <3>1. anchor.hi = heard.lo
            BY <1>7, <2>3, <2>6 DEF Cuts
        <3>2. Has(rows, y)
            BY <1>3, <1>7, <3>1 DEF Kept, Doubled
        <3>3. ASSUME NEW w \in Nat, 1 <= w, w <= x - 1 PROVE Has(rows, w)
            <4>1. w = y \/ w <= y - 1
                BY <2>4, <2>6, <3>3
            <4> QED
                BY <1>3, <1>4, <2>1, <3>2, <3>3, <4>1 DEF Filled
        <3> QED
            BY <1>3, <3>3 DEF Filled
    <2> QED
        BY <2>5, <2>6
<1> QED
    BY <1>4, <1>5, <1>6, <1>7

\* The prefix stays with the text unless words of it are cut off.
LEMMA PrefixStays ==
    ASSUME pend \in Pends, heard \in Texts, ~Empty(pend), Lasting(pend), Fits(pend, heard),
           NEW g \in Texts, g.lo = heard.lo, ~Empty(g), NEW anc \in Anchors,
           NEW c, c = Compose(g, anc), ~(c.text.lo > pend.lo)
    PROVE  c.pend.lo = pend.lo /\ c.pend.hi = pend.hi /\ c.pend.ends = pend.ends
<1>1. PICK j : j = Joined(g, anc)
    OBVIOUS
<1>2. JoinsOn(j, g) /\ c.pend = j.pend /\ c.text.lo = j.text.lo + (IF Cuts(j) THEN 1 ELSE 0)
    BY <1>1, JoinedOn, ComposedOn
<1>3. PICK a \in Nat, b \in Nat, x \in Nat : a = pend.lo /\ b = pend.hi /\ x = g.lo
    BY LosAre DEF Pends, Texts
<1>4. a <= b /\ b <= x
    BY <1>3 DEF Fits, Empty
<1>5. j.pend # NoPend
    <2> SUFFICES ASSUME j.pend = NoPend PROVE FALSE
        OBVIOUS
    <2> DEFINE as(t, p, e) == [text |-> t, pend |-> p, anchor |-> e]
    <2>1. PICK cut : cut = [pend EXCEPT !.terminal = FALSE,
                                        !.retain = pend.reason = "hard" /\ pend.lo < g.lo]
        OBVIOUS
    <2>2. PICK kept : kept = [pend EXCEPT !.retain = TRUE]
        OBVIOUS
    <2>3. cut.lo = pend.lo /\ cut.hi = pend.hi /\ kept.lo = pend.lo /\ kept.hi = pend.hi
        BY <2>1, <2>2 DEF Pends
    <2>4. cut # NoPend /\ kept # NoPend
        BY <2>3 DEF NoPend, Empty
    <2>5. PICK like \in BOOLEAN : like <=> (g.lo = pend.hi /\ (Stop(pend) => pend.hi \in g.ends))
        OBVIOUS
    <2>6. \/ j = as(g, NoPend, anc) /\ ~like
          \/ \E t, p, e : j = as(t, p, e) /\ (p = cut \/ p = kept)
        BY <1>1, <2>1, <2>2, <2>5 DEF Joined
    <2> HIDE DEF as
    <2>7. \A t, p, e : j = as(t, p, e) => j.text = t /\ j.pend = p
        BY DEF as
    <2>8. j.text = g /\ ~(g.lo = pend.hi /\ (Stop(pend) => pend.hi \in g.ends))
        BY <2>4, <2>5, <2>6, <2>7
    <2>9. j.text = g
        BY <2>8
    <2>10. x <= a
        <3>1. c.text.lo = x \/ c.text.lo = x + 1
            BY <1>2, <1>3, <2>9
        <3> QED
            BY <1>3, <3>1
    <2>11. x = a /\ x = b
        BY <1>4, <2>10
    <2>12. Stop(pend)
        BY <1>3, <2>8, <2>11
    <2> QED
        BY <1>3, <2>11, <2>12 DEF Lasting
<1> QED
    BY <1>2, <1>5 DEF JoinsOn, LikePend

\* The anchor is the given one or none.
LEMMA AnchorStays ==
    ASSUME pend \in Pends, NEW g \in Texts, Empty(pend), NEW anc \in Anchors, NEW c,
           c = Compose(g, anc)
    PROVE  c.anchor = anc /\ c.pend = pend
<1>1. PICK j : j = Joined(g, anc)
    OBVIOUS
<1>2. j.anchor = anc /\ j.pend = pend
    BY <1>1, JoinedPlain
<1>3. /\ j = [text |-> j.text, pend |-> j.pend, anchor |-> j.anchor]
    BY <1>1, JoinedIs
<1>4. c = [j EXCEPT !.text.lo = @ + 1] \/ c = j
    BY <1>1 DEF Compose
<1> QED
    BY <1>2, <1>3, <1>4

-------------------------------------------------------------------------------
(* No word is lost, step by step. *)

\* Nothing is lost as long as no decode cuts consumed units differently and the text
\* always begins with the prefix.
LossInv ==
    /\ OwnInv
    /\ ~moved /\ ~clipped => IF done THEN Filled(rows, heard.hi) ELSE Kept

\* A run inside a segment.
LEMMA StaysKeeps ==
    ASSUME LossInv, ~done, NEW in, in.text \in Texts, in.text.lo = heard.lo, ~Empty(in.text),
           in.anchor = anchor, NEW m, ~m.force, NEW early, NEW aged,
           NEW u, u = Update(in, m, early, aged), Stays(u),
           heard' \in Texts, shown' \in Texts, heard'.lo = heard.lo, shown'.lo = heard.lo
    PROVE  LossInv'
<1>1. /\ OwnInv /\ CommitInv /\ Fits(pend, heard) /\ pend \in Pends /\ heard \in Texts
      /\ anchor \in Anchors
    BY DEF LossInv, OwnInv, Steady, CommitInv, Shape
<1>2. OwnInv'
    BY <1>1, StaysOwns
<1>3. /\ cand' = u.cand /\ pend' = u.pend /\ anchor' = u.anchor /\ done' = done
      /\ rows' = u.rows /\ moved' = (moved \/ u.moved) /\ clipped' = (clipped \/ u.clipped)
    BY DEF Stays, Commits
<1>4. ASSUME ~moved', ~clipped' PROVE Kept'
    <2>1. ~moved /\ ~u.moved /\ ~clipped /\ ~u.clipped
        BY <1>3, <1>4
    <2>2. Owns /\ Kept /\ Placed(cand, rows)
        BY <1>1, <2>1 DEF LossInv, OwnInv, Owns
    <2>3. PICK j : j = Compose(in.text, in.anchor)
        OBVIOUS
    <2>4. /\ u.text = j.text /\ u.born = Born(j.text)
          /\ u.clipped <=> ~Empty(pend) /\ u.text.lo > pend.lo
          /\ \E us, end, new : Adds(u, m, us, end, new) /\ Ending(u, j, in, m, us, end, new, early)
        BY <1>1, <2>1, <2>2, <2>3, AddsIs
    <2>5. PICK us, end, new :
              Adds(u, m, us, end, new) /\ Ending(u, j, in, m, us, end, new, early)
        BY <2>4
    <2>6. u.text \in Texts /\ u.born \in [Word -> Nat]
        BY <1>1, RunIs DEF Leaves
    <2>7. Told(cand, rows) /\ Spoken(rows) /\ Lasting(pend)
        BY <2>2 DEF Kept
    <2>8. /\ \A w : Has(rows, w) => Has(u.rows, w)
          /\ \A k \in 1..end : \A w \in WordsOf(us[k]) : Has(u.rows, w)
          /\ Spoken(u.rows)
        BY <1>1, <2>5, <2>6, <2>7, RunHas
    <2>9. /\ Lined(us, u.text) /\ Holds(cand, us) /\ us \in Seq(Units) /\ Places(new, Len(us))
          /\ end \in Nat /\ Len(cand) <= end /\ end <= Len(us) /\ Len(cand) \in Nat
          /\ u.cand \in Seq(Cursors) /\ Len(u.cand) = end /\ Len(us) \in Nat
          /\ Consumed(u.cand, cand, us, new, end, Len(rows))
          /\ Picks(new, us, end, m, u.text, u.born)
        <3>1. Len(cand) \in Nat
            BY <1>1, Members DEF CommitInv, Aims
        <3> QED
            BY <2>5, <3>1, Members DEF Adds, Lined, Consumed
    <2>10. Filled(rows, u.text.lo - 1)
        BY <1>1, <2>1, <2>2, <2>3, <2>4, <2>9, Begins
    <2>11. ASSUME NEW k \in 1..end PROVE u.cand[k].lo = us[k].lo /\ u.cand[k].hi = us[k].hi
        <3>1. CASE k <= Len(cand)
            <4>1. k \in 1..Len(cand)
                BY <2>9, <3>1
            <4>2. u.cand[k] = cand[k] /\ us[k] = Unit(cand[k].lo, cand[k].hi)
                BY <2>9, <4>1 DEF Consumed, Holds
            <4> QED
                BY <4>2 DEF Unit
        <3>2. CASE ~(k <= Len(cand))
            <4>1. k \in Len(cand) + 1..end
                BY <2>9, <3>2
            <4> QED
                BY <2>9, <4>1 DEF Consumed
        <3> QED
            BY <3>1, <3>2
    <2>12. Told(u.cand, u.rows)
        <3> SUFFICES ASSUME NEW k \in 1..end, NEW w \in WordsOf(u.cand[k]) PROVE Has(u.rows, w)
            BY <2>9 DEF Told
        <3>1. w \in WordsOf(us[k])
            BY <2>11 DEF WordsOf
        <3> QED
            BY <2>8, <3>1
    <2>13. u.pend = IF ~Empty(pend) /\ new # {} /\ ~j.pend.retain THEN NoPend ELSE j.pend
        BY <2>5 DEF Ending
    <2>14. u.anchor = NoAnchor \/ u.anchor = j.anchor
        BY <2>5 DEF Ending
    <2>15. end = 0 => new = {}
        BY <2>9 DEF Picks
    <2>16. ~Empty(pend) => /\ j.pend.lo = pend.lo /\ j.pend.hi = pend.hi
                           /\ j.pend.ends = pend.ends
        BY <1>1, <2>1, <2>3, <2>4, <2>7, PrefixStays
    <2>17. Empty(pend) => j.anchor = anchor /\ j.pend = pend
        BY <1>1, <2>3, AnchorStays
    <2>18. Lasting(u.pend)
        <3>1. CASE u.pend = NoPend
            BY <3>1 DEF Lasting, NoPend, Empty
        <3>2. CASE u.pend = j.pend /\ ~Empty(pend)
            BY <2>7, <2>16, <3>2 DEF Lasting, Empty, Stop
        <3>3. CASE u.pend = j.pend /\ Empty(pend)
            BY <2>7, <2>17, <3>3
        <3> QED
            BY <2>13, <3>1, <3>2, <3>3
    <2>19. ASSUME end = 0
           PROVE  Empty(u.pend) <=> Empty(pend)
        <3>1. u.pend = j.pend
            BY <2>13, <2>15, <2>19
        <3> QED
            BY <2>16, <2>17, <3>1 DEF Empty
    <2>20. PICK d : d = IF end = 0 THEN (IF Empty(u.pend) THEN heard.lo ELSE u.pend.lo)
                        ELSE u.cand[1].lo
        OBVIOUS
    <2>21. Filled(u.rows, d - 1)
        <3>1. CASE end = 0
            <4>1. Len(cand) = 0
                BY <2>9, <3>1
            <4>2. d = Due
                <5>1. u.pend = j.pend
                    BY <2>13, <2>15, <3>1
                <5> QED
                    BY <2>16, <2>19, <2>20, <3>1, <4>1, <5>1 DEF Due, Owed
            <4>3. Filled(rows, Due - 1)
                BY <2>2 DEF Kept, Begun
            <4> QED
                BY <2>8, <4>2, <4>3, FilledOn
        <3>2. CASE end # 0
            <4>1. 1 \in 1..end /\ 1 \in 1..Len(us)
                BY <2>9, <3>2
            <4>2. us[1].lo = u.text.lo
                BY <2>9, <4>1 DEF Lined
            <4>3. d = u.text.lo
                BY <2>11, <2>20, <3>2, <4>1, <4>2
            <4> QED
                BY <2>8, <2>10, <4>3, FilledOn
        <3> QED
            BY <3>1, <3>2
    <2>22. Begun'
        <3>1. d = Due'
            BY <1>3, <2>9, <2>20 DEF Due, Owed, Empty
        <3>2. Filled(rows, d - 1)'
            BY <1>3, <2>21 DEF Filled, Has, WordsOf
        <3> QED
            BY <1>3, <2>21, <3>1 DEF Begun, Filled, Has, WordsOf
    <2>23. Doubled'
        <3> SUFFICES ASSUME end = 0, Empty(u.pend), u.anchor.hi = heard.lo
                     PROVE  Has(u.rows, u.anchor.hi)
            BY <1>3, <2>9 DEF Doubled, Empty, Has, WordsOf
        <3>1. Len(cand) = 0 /\ Empty(pend)
            BY <2>9, <2>19
        <3>2. heard.lo \in Nat /\ heard.lo >= 1
            BY <1>1, LosAre DEF Texts
        <3>3. u.anchor = anchor
            BY <2>14, <2>17, <3>1, <3>2 DEF NoAnchor
        <3> QED
            BY <2>2, <2>8, <3>1, <3>3 DEF Kept, Doubled
    <2>24. Told(cand, rows)'
        BY <1>3, <2>12 DEF Told, Has, WordsOf
    <2>25. Spoken(rows)'
        BY <1>3, <2>8 DEF Spoken, WordsOf
    <2>26. Lasting(pend)'
        BY <1>3, <2>18 DEF Lasting, Empty, Stop
    <2> QED
        BY <2>22, <2>23, <2>24, <2>25, <2>26 DEF Kept
<1>5. (~moved /\ ~clipped => IF done THEN Filled(rows, heard.hi) ELSE Kept)'
    BY <1>3, <1>4
<1> QED
    BY <1>2, <1>5 DEF LossInv

\* A decode has a word.
LEMMA DecodesFull ==
    ASSUME CommitInv, NEW g \in Decodes
    PROVE  ~Empty(g)
<1> DEFINE H == {x \in heard.lo..MaxWord : x - heard.hi \in -1..1}
           S == SUBSET (heard.lo..MaxWord)
<1>1. g \in {[lo |-> heard.lo, hi |-> h, ends |-> E] : h \in H, E \in S}
    BY DEF Decodes
<1>2. \A h \in H : h \in heard.lo..MaxWord
    OBVIOUS
<1> HIDE DEF H, S
<1>3. PICK h \in H, E \in S : g = [lo |-> heard.lo, hi |-> h, ends |-> E]
    BY <1>1, MadeOf
<1>4. heard.lo \in Nat
    BY LosAre DEF CommitInv, Shape, Texts
<1>5. g.lo = heard.lo /\ g.hi \in heard.lo..MaxWord
    BY <1>2, <1>3
<1> QED
    BY <1>4, <1>5, LosAre DEF Empty

\* A decode.
LEMMA PartialKeeps ==
    ASSUME LossInv, NEW g \in Decodes, NEW hold \in BOOLEAN, NEW early \in BOOLEAN,
           NEW aged \in BOOLEAN, Partial(g, hold, early, aged)
    PROVE  LossInv'
<1>1. CommitInv /\ shown.lo = heard.lo /\ shown \in Texts
    BY DEF LossInv, OwnInv, Steady, CommitInv, Shape
<1>2. g \in Texts /\ g.lo = heard.lo /\ ~Empty(g)
    BY <1>1, DecodesAre, DecodesFull
<1>3. PICK t \in Texts : t = (IF hold THEN shown ELSE g) /\ t.lo = heard.lo
    BY <1>1, <1>2
<1>4. ~Empty(t)
    <2>1. hold => g.hi < shown.hi
        BY DEF Partial
    <2>2. PICK x \in Nat, y \in Nat, z \in Nat : x = g.lo /\ y = g.hi /\ z = t.hi
        BY <1>2, LosAre DEF Texts
    <2>3. x <= y /\ (z = y \/ y < z)
        BY <1>2, <1>3, <2>1, <2>2 DEF Empty
    <2> QED
        BY <1>2, <1>3, <2>2, <2>3 DEF Empty
<1>5. PICK m : m = [Mode EXCEPT !.holdback = TRUE]
    OBVIOUS
<1>6. PICK in : in = Input(t, g, TRUE)
    OBVIOUS
<1>7. PICK u : u = Update(in, m, early, aged)
    OBVIOUS
<1>8. Stays(u) /\ shown' = t /\ heard' = g /\ ~done
    BY <1>3, <1>5, <1>6, <1>7 DEF Partial
<1>9. in.text = t /\ in.anchor = anchor
    BY <1>6 DEF Input
<1>10. ~m.force
    BY <1>5 DEF Mode
<1> QED
    BY <1>2, <1>3, <1>4, <1>7, <1>8, <1>9, <1>10, StaysKeeps

\* A pause.
LEMMA IdleKeeps ==
    ASSUME LossInv, NEW tail \in BOOLEAN, NEW aged \in BOOLEAN, Idle(tail, aged)
    PROVE  LossInv'
<1>1. CommitInv /\ shown.lo = heard.lo /\ shown \in Texts /\ heard \in Texts
    BY DEF LossInv, OwnInv, Steady, CommitInv, Shape
<1>2. PICK m : m = [Mode EXCEPT !.all = TRUE, !.slice = TRUE, !.tail = tail]
    OBVIOUS
<1>3. PICK in : in = Input(shown, heard, FALSE)
    OBVIOUS
<1>4. PICK early \in BOOLEAN : ~early
    OBVIOUS
<1>5. PICK u : u = Update(in, m, early, aged)
    OBVIOUS
<1>6. Stays(u) /\ shown' = shown /\ heard' = heard /\ ~done /\ ~Empty(shown)
    BY <1>2, <1>3, <1>4, <1>5 DEF Idle
<1>7. in.text = shown /\ in.anchor = anchor
    BY <1>3 DEF Input
<1>8. ~m.force
    BY <1>2 DEF Mode
<1> QED
    BY <1>1, <1>5, <1>6, <1>7, <1>8, StaysKeeps

\* How many words a unit has: at least one, and one if it is one.
LEMMA SizeIs ==
    ASSUME NEW v, v.lo \in Nat, v.hi \in Nat, v.lo <= v.hi
    PROVE  Size(v) \in Nat /\ Size(v) >= 1 /\ (v.lo = v.hi => Size(v) = 1)
<1>1. PICK a \in Nat, b \in Nat : a = v.lo /\ b = v.hi /\ a <= b
    OBVIOUS
<1>2. a \in Int /\ b \in Int
    OBVIOUS
<1>3. Cardinality(a..b) = IF a > b THEN 0 ELSE b - a + 1
    BY <1>2, FS_Interval
<1>4. Size(v) = b - a + 1
    BY <1>1, <1>3 DEF Size, WordsOf
<1> QED
    BY <1>1, <1>4

\* What a cut leaves open does not end a sentence with its first word: a single word
\* is short and loses its period, or it was consumed.
LEMMA OpenLasts ==
    ASSUME NEW g \in Texts, NEW t \in Texts, NEW m, ~m.force, ~m.tail, m.slice, m.all,
           m.holdback => Len(UnitsOf(g)) = 1 /\ Short(UnitsOf(g)[1]),
           NEW us, Lined(us, t), Whole(us, t, m), NEW c \in Nat, c <= Len(us), NEW prev,
           NEW early, NEW end \in Nat, end <= Len(us),
           end = AtLeast(c, ReadyEnd(us, c, t, m, prev, early)),
           NEW o, o = Open(us, t, m, end)
    PROVE  Lasting(o)
<1> SUFFICES ASSUME ~Empty(o), Stop(o), ~(o.lo < o.hi) PROVE FALSE
    BY DEF Lasting
<1>1. us \in Seq(Units) /\ o \in Texts
    BY OpenIs DEF Lined
<1>2. PICK n \in Nat : n = Len(us) /\ end <= n /\ c <= n
    BY <1>1, Members
<1>3. PICK a \in Nat, b \in Nat, x \in Nat, y \in Nat :
          a = t.lo /\ b = t.hi /\ x = o.lo /\ y = o.hi
    BY <1>1, LosAre DEF Texts
<1>4. x = y /\ y \in o.ends /\ y \notin Clauses
    BY <1>3 DEF Empty, Stop
<1>5. CASE end < n
    <2>1. PICK k \in 1..n : k = end + 1
        BY <1>5
    <2>2. PICK v \in Units : v = us[k]
        BY <1>1, <1>2, Members
    <2>3. v.lo \in Nat /\ v.hi \in Nat /\ v.lo <= v.hi /\ v.hi <= b
        BY <1>2, <1>3, <2>2, LosAre DEF Units, Lined, Within
    <2>4. x = v.lo /\ y = b
        BY <1>2, <1>3, <1>5, <2>1, <2>2 DEF Open
    <2>5. v.lo = b /\ v.hi = b
        BY <1>3, <1>4, <2>3, <2>4
    <2>6. ~Short(v)
        <3> SUFFICES ASSUME Short(v) PROVE FALSE
            OBVIOUS
        <3>1. o.ends = {w \in t.ends : o.lo <= w /\ w <= o.hi} \ {v.hi}
            BY <1>2, <1>5, <2>1, <2>2 DEF Open
        <3> QED
            BY <1>4, <2>4, <2>5, <3>1
    <2>7. MinWords \in Nat /\ MinWords <= 1
        <3>1. Size(v) = 1
            BY <2>3, <2>5, SizeIs
        <3> QED
            BY <2>6, <3>1, Constants DEF Short
    <2>8. ~m.holdback
        <3> SUFFICES ASSUME m.holdback PROVE FALSE
            OBVIOUS
        <3>1. PICK vs \in Seq(Units) : vs = UnitsOf(g) /\ Len(vs) = 1
            BY UnitsAre
        <3>2. 1 \in 1..Len(vs)
            BY <3>1
        <3>3. vs[1].lo \in Nat /\ vs[1].hi \in Nat /\ vs[1].lo <= vs[1].hi
            BY <3>1, <3>2, UnitsAre
        <3>4. Size(vs[1]) \in Nat /\ Size(vs[1]) >= 1
            BY <3>3, SizeIs
        <3>5. Size(vs[1]) < MinWords
            BY <3>1 DEF Short
        <3> QED
            BY <2>7, <3>4, <3>5
    <2>9. HeldEnd(us, c, m, prev) = n
        BY <1>2, <2>8 DEF HeldEnd
    <2>10. ~Promotes(us, c, t, m, prev, early)
        BY <2>8 DEF Promotes, Watched
    <2>11. PICK S : S = {i \in c + 1..n : Stops(us, t, m, i)}
        OBVIOUS
    <2>12. ReadyEnd(us, c, t, m, prev, early) = IF S = {} THEN n ELSE Nth(S, 1) - 1
        <3>1. n + 0 = n
            OBVIOUS
        <3> QED
            BY <2>9, <2>10, <2>11, <3>1 DEF ReadyEnd
    <2>13. ~Stops(us, t, m, k)
        BY <1>4, <2>2, <2>4, <2>5, <2>6 DEF Stops
    <2>14. CASE S = {}
        <3>1. end = AtLeast(c, n)
            BY <2>12, <2>14
        <3> QED
            BY <1>2, <1>5, <3>1 DEF AtLeast
    <2>15. CASE S # {}
        <3>1. Places(S, n)
            BY <2>11 DEF Places
        <3>2. PICK f \in S : f = Nth(S, 1)
            BY <2>15, <3>1, FirstIs
        <3>3. f \in c + 1..n /\ Stops(us, t, m, f)
            BY <2>11, <3>2
        <3>4. end = AtLeast(c, f - 1)
            BY <2>12, <2>15, <3>2
        <3>5. f = end + 1
            BY <3>3, <3>4 DEF AtLeast
        <3> QED
            BY <2>1, <2>13, <3>3, <3>5
    <2> QED
        BY <2>14, <2>15
<1>6. CASE ~(end < n)
    <2>1. end = n
        BY <1>2, <1>6
    <2>2. PICK v \in Units : v = TailOf(t)
        BY TailIs
    <2>3. Rest(t, m) = v
        BY <2>2 DEF Rest
    <2>4. x = v.lo /\ y = IF ~Empty(v) THEN b ELSE v.lo - 1
        BY <1>2, <1>3, <2>1, <2>3 DEF Open
    <2>5. y = b /\ v.lo = b
        BY <1>3, <1>4, <2>4
    <2>6. a <= v.lo
        BY <1>3, <2>2, TailIs
    <2>7. b \in EndsOf(t)
        <3>1. o.ends \subseteq t.ends
            BY <1>2, <2>1 DEF Open
        <3>2. b \in a..b
            BY <1>3, <2>5, <2>6
        <3> QED
            BY <1>3, <1>4, <2>5, <3>1, <3>2 DEF EndsOf, WordsOf
    <2>8. b < v.lo
        BY <2>2, <2>7, EndsBefore
    <2> QED
        BY <1>3, <2>5, <2>8
<1> QED
    BY <1>5, <1>6

\* So does what is carried over: the open words, or the tail without its ends.
LEMMA CarryLasts ==
    ASSUME NEW g \in Texts, NEW u, NEW mid \in BOOLEAN, ~mid => Lasting(u.open), NEW reason,
           NEW q, q = Carry(g, u, reason, mid)
    PROVE  /\ Lasting(q)
           /\ ~Empty(u.open) => ~Empty(q) /\ q.lo = u.open.lo
<1>1. PICK own : own = [lo |-> TailOf(g).lo, hi |-> TailOf(g).hi, ends |-> {}]
    OBVIOUS
<1>2. PICK p : p = IF Empty(u.open) THEN own ELSE u.open
    OBVIOUS
<1>3. PICK short \in BOOLEAN :
          short <=> /\ UnitsOf(g) # << >>
                    /\ Unit(p.lo, p.hi) = UnitsOf(g)[Len(UnitsOf(g))]
                    /\ Short(UnitsOf(g)[Len(UnitsOf(g))])
                    /\ UnitsOf(g)[Len(UnitsOf(g))].hi \notin Clauses
    OBVIOUS
<1>4. PICK off \in BOOLEAN : off <=> short \/ (mid /\ Stop(p))
    OBVIOUS
<1>5. PICK ended \in BOOLEAN :
          ended <=> short \/ (off /\ ~(UnitsOf(g) # << >>
                                       /\ Unit(p.lo, p.hi) = UnitsOf(g)[Len(UnitsOf(g))]))
    OBVIOUS
<1>6. PICK E : E = IF off THEN p.ends \ {p.hi} ELSE p.ends
    OBVIOUS
<1>7. /\ Empty(p) => q = NoPend
      /\ ~Empty(p) => \E x \in BOOLEAN :
            q = [lo |-> p.lo, hi |-> p.hi, ends |-> E, reason |-> reason, terminal |-> x,
                 retain |-> FALSE]
    BY <1>1, <1>2, <1>3, <1>4, <1>5, <1>6 DEF Carry
<1>8. CASE Empty(p)
    <2>1. Empty(q)
        BY <1>7, <1>8 DEF NoPend, Empty
    <2>2. Empty(u.open)
        BY <1>2, <1>8
    <2> QED
        BY <2>1, <2>2 DEF Lasting
<1>9. CASE ~Empty(p)
    <2>1. q.lo = p.lo /\ q.hi = p.hi /\ q.ends = E
        BY <1>7, <1>9
    <2>2. ~Empty(q)
        BY <1>9, <2>1 DEF Empty
    <2>3. ASSUME Stop(q) PROVE q.lo < q.hi
        <3>1. ~off /\ Stop(p)
            BY <1>6, <2>1, <2>3 DEF Stop
        <3>2. p = u.open /\ ~Empty(u.open)
            <4>1. own.ends = {}
                BY <1>1
            <4> QED
                BY <1>2, <3>1, <4>1 DEF Stop
        <3>3. ~mid
            BY <1>4, <3>1
        <3> QED
            BY <2>1, <3>1, <3>2, <3>3 DEF Lasting
    <2>4. ~Empty(u.open) => q.lo = u.open.lo
        BY <1>2, <2>1
    <2> QED
        BY <2>2, <2>3, <2>4 DEF Lasting
<1> QED
    BY <1>8, <1>9

\* Rows that have all words up to one have those up to an earlier one.
LEMMA FilledTo ==
    ASSUME NEW rs, NEW h \in Int, Filled(rs, h), NEW k \in Int, k <= h
    PROVE  Filled(rs, k)
<1>1. ASSUME NEW w \in Nat, 1 <= w, w <= k PROVE Has(rs, w)
    <2>1. w <= h
        BY <1>1
    <2> QED
        BY <1>1, <2>1 DEF Filled
<1> QED
    BY <1>1 DEF Filled

\* What a run leaves that is the last one of its segment: all words up to the open
\* ones are in rows, and only a run that is not forced leaves some open.
LEMMA RunCloses ==
    ASSUME LossInv, ~done, ~moved, ~clipped, NEW in, in.text \in Texts, in.anchor \in Anchors,
           Empty(pend) => in.text.lo = heard.lo /\ in.anchor = anchor,
           NEW m, NEW early, NEW aged, NEW u, u = Update(in, m, early, aged),
           ~u.moved, ~u.clipped
    PROVE  /\ Filled(u.rows, IF Empty(u.open) THEN u.text.hi ELSE u.open.lo - 1)
           /\ Spoken(u.rows) /\ (m.force => Empty(u.open))
           /\ \A g \in Texts :
                 /\ ~m.force /\ ~m.tail /\ m.slice /\ m.all
                 /\ m.holdback => Len(UnitsOf(g)) = 1 /\ Short(UnitsOf(g)[1])
                 => Lasting(u.open)
<1>1. CommitInv /\ Owns /\ Kept /\ Placed(cand, rows)
    BY DEF LossInv, OwnInv, Owns
<1>2. PICK j : j = Compose(in.text, in.anchor)
    OBVIOUS
<1>3. /\ u.text = j.text /\ u.born = Born(j.text)
      /\ u.clipped <=> ~Empty(pend) /\ u.text.lo > pend.lo
      /\ \E us, end, new : Adds(u, m, us, end, new) /\ Ending(u, j, in, m, us, end, new, early)
    BY <1>1, <1>2, AddsIs
<1>4. PICK us, end, new :
          Adds(u, m, us, end, new) /\ Ending(u, j, in, m, us, end, new, early)
    BY <1>3
<1>5. u.text \in Texts /\ u.born \in [Word -> Nat]
    BY <1>1, RunIs DEF Leaves
<1>6. Told(cand, rows) /\ Spoken(rows)
    BY <1>1 DEF Kept
<1>7. Spoken(u.rows)
    BY <1>1, <1>4, <1>5, <1>6, RunHas
<1>8. Lined(us, u.text) /\ Whole(us, u.text, m) /\ Holds(cand, us) /\ us \in Seq(Units)
      /\ end \in Nat /\ end <= Len(us) /\ Len(cand) <= end /\ Len(us) \in Nat
      /\ u.open = Open(us, u.text, m, end)
    BY <1>4, Members DEF Adds, Lined
<1>9. end = AtLeast(Len(cand), ReadyEnd(us, Len(cand), u.text, m, previous, early))
    BY <1>4 DEF Ending
<1>10. PICK c \in Nat : c = Len(cand) /\ c <= Len(us)
    <2>1. Len(cand) \in Nat
        BY <1>1, Members DEF CommitInv, Aims
    <2> QED
        BY <1>8, <2>1
<1>11. Filled(rows, u.text.lo - 1)
    BY <1>1, <1>2, <1>3, <1>8, Begins
<1>12. Filled(u.rows, IF Empty(u.open) THEN u.text.hi ELSE u.open.lo - 1)
    BY <1>1, <1>4, <1>5, <1>6, <1>11, RunFills
<1>13. ASSUME m.force PROVE Empty(u.open)
    BY <1>8, <1>9, <1>10, <1>13, ForcedAll
<1>14. ASSUME NEW g \in Texts, ~m.force, ~m.tail, m.slice, m.all,
              m.holdback => Len(UnitsOf(g)) = 1 /\ Short(UnitsOf(g)[1])
       PROVE  Lasting(u.open)
    <2>1. end = AtLeast(c, ReadyEnd(us, c, u.text, m, previous, early))
        BY <1>9, <1>10
    <2> QED
        BY <1>5, <1>8, <1>10, <1>14, <2>1, OpenLasts
<1> QED
    BY <1>7, <1>12, <1>13, <1>14

\* All is kept where a segment begins with a prefix or nothing.
LEMMA FreshKeeps ==
    ASSUME cand' = << >>, NEW rs, rs = rows', NEW p, p = pend', NEW h, h = heard',
           NEW a, a = anchor',
           Filled(rs, (IF Empty(p) THEN h.lo ELSE p.lo) - 1),
           Empty(p) /\ a.hi = h.lo => Has(rs, a.hi), Spoken(rs), Lasting(p)
    PROVE  Kept'
<1>1. Len(cand') = 0
    BY EmptySeq
<1>2. Begun'
    BY <1>1 DEF Begun, Due, Owed, Empty, Filled, Has, WordsOf
<1>3. Told(cand, rows)'
    <2>1. \A k \in 1..0 : FALSE
        OBVIOUS
    <2> QED
        BY <1>1, <2>1 DEF Told
<1>4. Doubled'
    BY <1>1 DEF Doubled, Empty, Has, WordsOf
<1>5. Spoken(rows)'
    BY DEF Spoken, WordsOf
<1>6. Lasting(pend)'
    BY DEF Lasting, Empty, Stop
<1> QED
    BY <1>2, <1>3, <1>4, <1>5, <1>6 DEF Kept

\* The end of a segment.
LEMMA RotateKeeps ==
    ASSUME LossInv, NEW g \in Decodes, NEW reason \in {"hard", "vad"}, NEW mid \in BOOLEAN,
           NEW forced \in BOOLEAN, NEW canonical \in BOOLEAN, NEW fresh \in BOOLEAN,
           Rotate(g, reason, mid, forced, canonical, fresh)
    PROVE  LossInv'
<1>1. /\ OwnInv /\ CommitInv /\ Fits(pend, heard) /\ pend \in Pends /\ heard \in Texts
      /\ anchor \in Anchors
    BY DEF LossInv, OwnInv, Steady, CommitInv, Shape
<1>2. g \in Texts /\ g.lo = heard.lo
    BY <1>1, DecodesAre
<1>3. OwnInv'
    BY <1>1, RotateOwns
<1>4. PICK m : m = [Mode EXCEPT !.force = forced, !.tail = forced, !.all = TRUE,
                                !.slice = TRUE, !.final = TRUE,
                                !.holdback = (Len(UnitsOf(g)) = 1 /\ Empty(TailOf(g))
                                              /\ Short(UnitsOf(g)[1]) /\ ~forced) \/ mid,
                                !.promote = ~mid, !.canonical = canonical]
    OBVIOUS
<1>5. PICK in : in = Input(g, g, fresh)
    OBVIOUS
<1>6. PICK u : u = Update(in, m, FALSE, TRUE)
    OBVIOUS
<1>7. /\ ~done /\ ~Empty(g) /\ Commits(u) /\ Fresh
      /\ pend' = IF forced THEN NoPend ELSE Carry(g, u, reason, mid)
      /\ anchor' = [hi |-> g.hi, stop |-> Stop(g)]
      /\ \E start \in {g.hi + 1} \cup (IF Overlap /\ reason = "hard" THEN {g.hi} ELSE {}) :
             heard' = Nothing(start) /\ shown' = Nothing(start)
      /\ done' = done
    BY <1>4, <1>5, <1>6 DEF Rotate
<1>8. /\ m.force <=> forced
      /\ m.tail <=> forced
      /\ m.slice /\ m.all
      /\ ~mid /\ m.holdback => Len(UnitsOf(g)) = 1 /\ Short(UnitsOf(g)[1])
    BY <1>4 DEF Mode
<1>9. in.text = g /\ in.anchor = anchor
    BY <1>5 DEF Input
<1>10. Leaves(u)
    BY <1>1, <1>2, <1>6, <1>9, RunIs
<1>11. PICK j : j = Compose(g, anchor)
    OBVIOUS
<1>12. u.text = j.text /\ Speaks(u, j, m)
    <2>1. j = Compose(in.text, in.anchor)
        BY <1>9, <1>11
    <2>2. Speaks(Update(in, m, FALSE, TRUE), j, m)
        BY <2>1, UpdateSpeaks
    <2> QED
        BY <1>6, <2>2 DEF Speaks
<1>13. u.text.hi = g.hi
    <2>1. JoinsOn(Joined(g, anchor), g) /\ j.text.hi = Joined(g, anchor).text.hi
        BY <1>1, <1>2, <1>11, JoinedOn, ComposedOn
    <2> QED
        BY <1>7, <1>12, <2>1 DEF JoinsOn
<1>14. PICK p : p = pend'
    OBVIOUS
<1>15. CarriedOver(p, g, u, reason)
    <2>1. CASE forced
        BY <1>7, <1>14, <2>1 DEF CarriedOver, NoPend, Empty
    <2>2. CASE ~forced
        <3>1. p = Carry(g, u, reason, mid)
            BY <1>7, <1>14, <2>2
        <3> QED
            BY <1>2, <1>10, <1>12, <1>13, <3>1, CarryOver
    <2> QED
        BY <2>1, <2>2
<1>16. PICK h : h = heard' /\ (h.lo = g.hi \/ h.lo = g.hi + 1)
    <2>1. PICK start \in {g.hi + 1} \cup (IF Overlap /\ reason = "hard" THEN {g.hi} ELSE {}) :
              heard' = Nothing(start)
        BY <1>7
    <2>2. start = g.hi \/ start = g.hi + 1
        BY <2>1
    <2>3. Nothing(start).lo = start
        BY DEF Nothing
    <2> QED
        BY <2>1, <2>2, <2>3
<1>17. /\ rows' = u.rows /\ moved' = (moved \/ u.moved) /\ clipped' = (clipped \/ u.clipped)
       /\ cand' = << >>
    BY <1>7 DEF Commits, Fresh
<1>18. ASSUME ~moved', ~clipped' PROVE Kept'
    <2>1. ~moved /\ ~u.moved /\ ~clipped /\ ~u.clipped
        BY <1>17, <1>18
    <2>2. PICK aged \in BOOLEAN, early \in BOOLEAN : aged /\ ~early
        OBVIOUS
    <2>3. u = Update(in, m, early, aged)
        BY <1>6, <2>2
    <2>4. /\ Filled(u.rows, IF Empty(u.open) THEN u.text.hi ELSE u.open.lo - 1)
          /\ Spoken(u.rows) /\ (m.force => Empty(u.open))
          /\ \A f \in Texts :
                /\ ~m.force /\ ~m.tail /\ m.slice /\ m.all
                /\ m.holdback => Len(UnitsOf(f)) = 1 /\ Short(UnitsOf(f)[1])
                => Lasting(u.open)
        BY <1>1, <1>2, <1>7, <1>9, <2>1, <2>3, RunCloses
    <2>5. ~forced => Lasting(p) /\ (~Empty(u.open) => ~Empty(p) /\ p.lo = u.open.lo)
        <3> SUFFICES ASSUME ~forced
                     PROVE  Lasting(p) /\ (~Empty(u.open) => ~Empty(p) /\ p.lo = u.open.lo)
            OBVIOUS
        <3>1. p = Carry(g, u, reason, mid)
            BY <1>7, <1>14
        <3>2. ~mid => Lasting(u.open)
            BY <1>2, <1>8, <2>4
        <3> QED
            BY <1>2, <3>1, <3>2, CarryLasts
    <2>6. PICK x \in Nat, y \in Nat : x = g.hi /\ y = g.lo /\ 1 <= y /\ y <= x
        BY <1>2, <1>7, LosAre DEF Texts, Empty
    <2>7. Lasting(p)
        <3>1. forced => p = NoPend
            BY <1>7, <1>14
        <3>2. Lasting(NoPend)
            BY DEF Lasting, NoPend, Empty
        <3> QED
            BY <2>5, <3>1, <3>2
    <2>8. Empty(u.open) => Filled(u.rows, x)
        BY <1>13, <2>4, <2>6
    <2>9. Empty(p) => Empty(u.open)
        BY <1>8, <2>4, <2>5
    <2>10. Filled(u.rows, (IF Empty(p) THEN h.lo ELSE p.lo) - 1)
        <3>1. CASE Empty(p)
            <4>1. h.lo - 1 \in Int /\ h.lo - 1 <= x
                BY <1>16, <2>6
            <4> QED
                BY <2>6, <2>8, <2>9, <3>1, <4>1, FilledTo
        <3>2. CASE ~Empty(p) /\ ~Empty(u.open)
            <4>1. p.lo = u.open.lo
                BY <1>15, <3>2 DEF CarriedOver
            <4> QED
                BY <2>4, <3>2, <4>1
        <3>3. CASE ~Empty(p) /\ Empty(u.open)
            <4>1. p.hi = x /\ p.lo = TailOf(g).lo
                BY <1>15, <2>6, <3>3 DEF CarriedOver
            <4>2. p.lo \in Nat
                <5>1. PICK v \in Units : v = TailOf(g)
                    BY <1>2, TailIs
                <5> QED
                    BY <4>1, <5>1, LosAre DEF Units
            <4>3. p.lo - 1 \in Int /\ p.lo - 1 <= x
                BY <2>6, <3>3, <4>1, <4>2 DEF Empty
            <4> QED
                BY <2>6, <2>8, <3>3, <4>3, FilledTo
        <3> QED
            BY <3>1, <3>2, <3>3
    <2>11. PICK a : a = anchor' /\ a.hi = x
        <3>1. [hi |-> g.hi, stop |-> Stop(g)].hi = g.hi
            OBVIOUS
        <3> QED
            BY <1>7, <2>6, <3>1
    <2>12. Empty(p) /\ a.hi = h.lo => Has(u.rows, a.hi)
        <3>1. 1 <= x /\ x <= x
            BY <2>6
        <3> QED
            BY <2>6, <2>8, <2>9, <2>11, <3>1 DEF Filled
    <2> QED
        BY <1>14, <1>16, <1>17, <2>4, <2>7, <2>10, <2>11, <2>12, FreshKeeps
<1>19. (~moved /\ ~clipped => IF done THEN Filled(rows, heard.hi) ELSE Kept)'
    BY <1>7, <1>18
<1> QED
    BY <1>3, <1>19 DEF LossInv

\* The prefix that is committed by itself.
LEMMA CarriedKeeps ==
    ASSUME LossInv, CarriedEndpoint
    PROVE  LossInv'
<1>1. /\ OwnInv /\ CommitInv /\ Fits(pend, heard) /\ pend \in Pends /\ heard \in Texts
    BY DEF LossInv, OwnInv, Steady, CommitInv, Shape
<1>2. PICK t : t = [lo |-> pend.lo, hi |-> pend.hi,
                    ends |-> IF pend.terminal THEN pend.ends \cup {pend.hi} ELSE pend.ends]
    OBVIOUS
<1>3. PICK in : in = [text |-> t, raw |-> heard, fresh |-> FALSE, anchor |-> NoAnchor]
    OBVIOUS
<1>4. PICK m : m = [Mode EXCEPT !.force = TRUE, !.all = TRUE, !.slice = TRUE, !.final = TRUE]
    OBVIOUS
<1>5. PICK u : u = Update(in, m, FALSE, TRUE)
    OBVIOUS
<1>6. PICK e : e = (u.moved \/ heard.lo <= pend.hi)
    OBVIOUS
<1>7. PICK v : v = [u EXCEPT !.moved = e]
    OBVIOUS
<1>8. /\ ~done /\ ~Empty(pend) /\ Commits(v) /\ Fresh /\ NoCarry
      /\ heard' = heard /\ done' = done
    BY <1>2, <1>3, <1>4, <1>5, <1>6, <1>7 DEF CarriedEndpoint
<1>9. t \in Texts /\ t.lo = pend.lo /\ t.hi = pend.hi
    <2>1. /\ pend.lo \in Los /\ pend.hi \in His /\ pend.ends \in SUBSET Word
        BY <1>1 DEF Pends
    <2>2. pend.hi \in Word
        <3>1. PICK x \in Nat, y \in Nat : x = pend.lo /\ y = pend.hi /\ 1 <= x /\ y <= MaxWord
            BY <2>1, LosAre
        <3>2. 1 <= y
            BY <1>8, <3>1 DEF Empty
        <3> QED
            BY <3>1, <3>2, LosAre
    <2>3. (IF pend.terminal THEN pend.ends \cup {pend.hi} ELSE pend.ends) \in SUBSET Word
        BY <2>1, <2>2
    <2> QED
        BY <1>2, <2>1, <2>3 DEF Texts
<1>10. OwnInv'
    BY <1>1, CarriedOwns
<1>11. in.text = t /\ in.anchor = NoAnchor /\ in.text \in Texts /\ in.anchor \in Anchors
    BY <1>3, <1>9, NothingIs
<1>12. v.rows = u.rows /\ v.moved = e /\ v.clipped = u.clipped
    <2>1. Fields(u)
        BY <1>5, UpdateFields
    <2> QED
        BY <1>7, <2>1 DEF Fields
<1>13. /\ rows' = u.rows /\ moved' = (moved \/ e) /\ clipped' = (clipped \/ u.clipped)
       /\ pend' = NoPend /\ anchor' = NoAnchor /\ cand' = << >>
    BY <1>8, <1>12 DEF Commits, NoCarry, Fresh
<1>14. PICK j : j = Compose(t, NoAnchor)
    OBVIOUS
<1>15. j.text.hi = pend.hi
    BY <1>1, <1>8, <1>9, <1>14, NothingIs, CarriedReach
<1>16. ASSUME ~moved', ~clipped' PROVE Kept'
    <2>1. ~moved /\ ~clipped /\ ~u.moved /\ ~u.clipped /\ ~(heard.lo <= pend.hi)
        BY <1>6, <1>13, <1>16
    <2>2. PICK aged \in BOOLEAN, early \in BOOLEAN : aged /\ ~early
        OBVIOUS
    <2>3. u = Update(in, m, early, aged)
        BY <1>5, <2>2
    <2>4. /\ Filled(u.rows, IF Empty(u.open) THEN u.text.hi ELSE u.open.lo - 1)
          /\ Spoken(u.rows) /\ (m.force => Empty(u.open))
        BY <1>8, <1>11, <2>1, <2>3, RunCloses
    <2>5. u.text = j.text
        <3>1. Speaks(Update(in, m, early, aged), j, m)
            BY <1>11, <1>14, UpdateSpeaks
        <3> QED
            BY <2>3, <3>1 DEF Speaks
    <2>6. m.force
        BY <1>4 DEF Mode
    <2>7. PICK x \in Nat, y \in Nat : x = heard.lo /\ y = pend.hi /\ 1 <= x
        BY <1>1, LosAre DEF Texts, Pends
    <2>8. x = y + 1
        BY <1>1, <1>8, <2>1, <2>7 DEF Fits
    <2>9. Filled(u.rows, heard.lo - 1)
        <3>1. Filled(u.rows, y)
            BY <1>15, <2>4, <2>5, <2>6, <2>7
        <3>2. y = heard.lo - 1
            BY <2>7, <2>8
        <3> QED
            BY <3>1, <3>2
    <2>10. Empty(NoPend) /\ NoAnchor.hi = 0 /\ Lasting(NoPend)
        BY DEF NoPend, NoAnchor, Empty, Lasting
    <2>11. ~(NoAnchor.hi = heard.lo)
        BY <2>7, <2>10
    <2> QED
        BY <1>8, <1>13, <2>4, <2>9, <2>10, <2>11, FreshKeeps
<1>17. (~moved /\ ~clipped => IF done THEN Filled(rows, heard.hi) ELSE Kept)'
    BY <1>8, <1>16
<1> QED
    BY <1>10, <1>17 DEF LossInv

\* The end of the stream.
LEMMA FinishKeeps ==
    ASSUME LossInv, NEW g \in Decodes, NEW canonical \in BOOLEAN, Finish(g, canonical)
    PROVE  LossInv'
<1>1. /\ OwnInv /\ CommitInv /\ pend \in Pends /\ heard \in Texts /\ anchor \in Anchors
    BY DEF LossInv, OwnInv, CommitInv, Shape
<1>2. g \in Texts /\ g.lo = heard.lo /\ ~Empty(g)
    BY <1>1, DecodesAre, DecodesFull
<1>3. PICK in : in = Input(g, g, TRUE)
    OBVIOUS
<1>4. PICK m : m = [Mode EXCEPT !.force = TRUE, !.final = TRUE, !.canonical = canonical]
    OBVIOUS
<1>5. PICK u : u = Update(in, m, FALSE, TRUE)
    OBVIOUS
<1>6. PICK rs : rs = IF u.rows = << >> THEN Recommitted(g) ELSE u.rows
    OBVIOUS
<1>7. PICK v : v = [u EXCEPT !.rows = rs]
    OBVIOUS
<1>8. /\ ~done /\ Commits(v) /\ heard' = g /\ done' = TRUE
    BY <1>3, <1>4, <1>5, <1>6, <1>7 DEF Finish
<1>9. OwnInv'
    BY <1>1, FinishOwns
<1>10. in.text = g /\ in.anchor = anchor
    BY <1>3 DEF Input
<1>11. v.rows = rs /\ v.moved = u.moved /\ v.clipped = u.clipped
    <2>1. Fields(u)
        BY <1>5, UpdateFields
    <2> QED
        BY <1>7, <2>1 DEF Fields
<1>12. rows' = rs /\ moved' = (moved \/ u.moved) /\ clipped' = (clipped \/ u.clipped)
    BY <1>8, <1>11 DEF Commits
<1>13. ASSUME ~moved', ~clipped' PROVE Filled(rs, g.hi)
    <2>1. ~moved /\ ~clipped /\ ~u.moved /\ ~u.clipped
        BY <1>12, <1>13
    <2>2. PICK aged \in BOOLEAN, early \in BOOLEAN : aged /\ ~early
        OBVIOUS
    <2>3. u = Update(in, m, early, aged)
        BY <1>5, <2>2
    <2>4. /\ Filled(u.rows, IF Empty(u.open) THEN u.text.hi ELSE u.open.lo - 1)
          /\ (m.force => Empty(u.open))
        BY <1>1, <1>2, <1>8, <1>10, <2>1, <2>3, RunCloses
    <2>5. PICK j : j = Compose(g, anchor)
        OBVIOUS
    <2>6. u.text = j.text
        <3>1. Speaks(Update(in, m, early, aged), j, m)
            BY <1>10, <2>5, UpdateSpeaks
        <3> QED
            BY <2>3, <3>1 DEF Speaks
    <2>7. j.text.hi = g.hi
        <3>1. JoinsOn(Joined(g, anchor), g) /\ j.text.hi = Joined(g, anchor).text.hi
            BY <1>1, <1>2, <2>5, JoinedOn, ComposedOn
        <3> QED
            BY <1>2, <3>1 DEF JoinsOn
    <2>8. m.force
        BY <1>4 DEF Mode
    <2>9. Filled(u.rows, g.hi)
        BY <2>4, <2>6, <2>7, <2>8
    <2>10. PICK x \in Nat : x = g.hi /\ 1 <= x
        <3>1. PICK x \in Nat, y \in Nat : x = g.hi /\ y = g.lo /\ 1 <= y /\ y <= x
            BY <1>2, LosAre DEF Texts, Empty
        <3> QED
            BY <3>1
    <2>11. Has(u.rows, x)
        <3>1. x <= x
            BY <2>10
        <3> QED
            BY <2>9, <2>10, <3>1 DEF Filled
    <2>12. u.rows # << >>
        <3> SUFFICES ASSUME u.rows = << >> PROVE FALSE
            OBVIOUS
        <3>1. Len(u.rows) = 0
            BY EmptySeq
        <3> QED
            BY <2>11, <3>1 DEF Has
    <2> QED
        BY <1>6, <2>9, <2>12
<1>14. (~moved /\ ~clipped => IF done THEN Filled(rows, heard.hi) ELSE Kept)'
    <2>1. ~moved' /\ ~clipped' => Filled(rows, heard.hi)'
        BY <1>8, <1>12, <1>13 DEF Filled, Has, WordsOf
    <2> QED
        BY <1>8, <2>1
<1> QED
    BY <1>9, <1>14 DEF LossInv

\* Rows from nothing but a text have all of its words.
LEMMA RecommittedAll ==
    ASSUME CommitInv, NEW t \in Texts, t.lo = 1, NEW rs, rs = Recommitted(t)
    PROVE  Filled(rs, t.hi)
<1>1. PICK m : m = [Mode EXCEPT !.force = TRUE]
    OBVIOUS
<1>2. PICK us : us = Completed(t, m, << >>)
    OBVIOUS
<1>3. << >> \in Seq(Cursors) /\ Holds(<< >>, UnitsOf(t))
    <2>1. << >> \in Seq(Cursors) /\ Len(<< >>) = 0
        BY EmptySeq
    <2>2. Len(UnitsOf(t)) \in Nat
        BY UnitsAre, Members
    <2> QED
        BY <2>1, <2>2 DEF Holds
<1>4. Lined(us, t) /\ Whole(us, t, m)
    BY <1>2, <1>3, WholeIs
<1>5. us \in Seq(Units)
    BY <1>4 DEF Lined
<1>6. PICK n \in Nat : n = Len(us) /\ DOMAIN us = 1..n
    BY <1>5, LenProperties
<1>7. born \in [Word -> Nat]
    BY DEF CommitInv, Shape
<1>8. rs = [k \in 1..n |-> Row(us[k], Span(us[k], t, born))]
    BY <1>1, <1>2, <1>6 DEF Recommitted
<1>9. Len(rs) = n
    <2>1. DOMAIN rs = 1..n /\ rs \in Seq(RowSet)
        <3>1. Sound(rs)
            BY RecommittedIs
        <3> QED
            BY <1>8, <3>1 DEF Sound
    <2>2. Len(rs) \in Nat /\ DOMAIN rs = 1..Len(rs)
        BY <2>1, Members
    <2>3. PICK l \in Nat : l = Len(rs)
        BY <2>2
    <2>4. 1..l = 1..n
        BY <2>1, <2>2, <2>3
    <2>5. l = n
        <3>1. l \in 1..n \/ l = 0
            BY <2>4
        <3>2. n \in 1..l \/ n = 0
            BY <2>4
        <3> QED
            BY <2>4, <3>1, <3>2
    <2> QED
        BY <2>3, <2>5
<1>10. ASSUME NEW k \in 1..n PROVE rs[k].lo = us[k].lo /\ rs[k].hi = us[k].hi
    <2>1. PICK v \in Units : v = us[k]
        BY <1>6, <1>5, Members
    <2>2. PICK S \in SUBSET Marks : S = Span(v, t, born)
        BY <1>7, SpanIs
    <2>3. rs[k] = Row(us[k], Span(us[k], t, born))
        BY <1>8
    <2>4. rs[k] = Row(v, S)
        BY <2>1, <2>2, <2>3
    <2>5. Row(v, S).lo = v.lo /\ Row(v, S).hi = v.hi
        BY RowIs
    <2> QED
        BY <2>1, <2>4, <2>5
<1>11. PICK o : o = Open(us, t, m, n)
    OBVIOUS
<1>12. Empty(o)
    <2>1. m.force
        BY <1>1 DEF Mode
    <2>2. Rest(t, m) = Blank
        BY <2>1 DEF Rest
    <2>3. Empty(Blank) /\ Blank.lo = 1
        BY DEF Blank, Empty, Unit
    <2>4. o.lo = 1 /\ o.hi = 0
        BY <1>6, <1>11, <2>2, <2>3 DEF Open
    <2> QED
        BY <2>4 DEF Empty
<1>13. Before(us, t, n, t.hi)
    <2>1. n <= Len(us)
        BY <1>6
    <2> QED
        BY <1>4, <1>11, <1>12, <2>1, OpenBefore
<1>14. ASSUME NEW w \in Nat, 1 <= w, w <= t.hi PROVE Has(rs, w)
    <2>1. PICK k \in 1..n : w \in WordsOf(us[k])
        BY <1>13, <1>14 DEF Before
    <2>2. w \in WordsOf(rs[k])
        BY <1>10, <2>1 DEF WordsOf
    <2> QED
        BY <1>9, <2>2 DEF Has
<1> QED
    BY <1>14 DEF Filled

\* The second reading of the whole utterance.
LEMMA ReadAgainKeeps ==
    ASSUME LossInv, NEW E \in SUBSET Word, ReadAgain(E)
    PROVE  LossInv'
<1>1. OwnInv /\ CommitInv /\ heard \in Texts
    BY DEF LossInv, OwnInv, CommitInv, Shape
<1>2. PICK t : t = [lo |-> 1, hi |-> heard.hi, ends |-> E]
    OBVIOUS
<1>3. rows' = Recommitted(t) /\ heard' = t /\ done' = TRUE
    BY <1>2 DEF ReadAgain
<1>4. t \in Texts /\ t.lo = 1
    <2>1. heard.hi \in His
        BY <1>1 DEF Texts
    <2>2. 1 \in Los
        BY Constants DEF Los
    <2> QED
        BY <1>2, <2>1, <2>2 DEF Texts
<1>5. OwnInv'
    BY <1>1, ReadAgainOwns
<1>6. PICK rs : rs = Recommitted(t)
    OBVIOUS
<1>7. Filled(rs, t.hi)
    BY <1>1, <1>4, <1>6, RecommittedAll
<1>8. Filled(rows, heard.hi)'
    BY <1>3, <1>6, <1>7 DEF Filled, Has, WordsOf
<1> QED
    BY <1>3, <1>5, <1>8 DEF LossInv

\* Publication leaves the words of every row.
LEMMA PublishKeeps ==
    ASSUME LossInv, NEW n \in DOMAIN rows, Publish(n)
    PROVE  LossInv'
<1>1. OwnInv /\ CommitInv /\ rows \in Seq(RowSet) /\ \A i \in 1..Len(rows) : Bound(rows[i])
    BY DEF LossInv, OwnInv, CommitInv, Sound
<1>2. /\ DOMAIN rows = 1..Len(rows) /\ Len(rows) \in Nat
      /\ \A i \in 1..Len(rows) : rows[i] \in RowSet
    BY <1>1, Members
<1>3. OwnInv' /\ Len(rows') = Len(rows)
    BY <1>1, PublishOwns, PublishIs
<1>4. /\ rows' = [rows EXCEPT ![n].pub = TRUE, ![n].pids = rows[n].ids]
      /\ UNCHANGED <<heard, pend, anchor, cand, done, clipped, moved>>
    BY DEF Publish
<1>5. PICK new : new = rows' /\ Len(new) = Len(rows)
    BY <1>3
<1>6. new = [i \in 1..Len(rows) |-> IF i = n THEN Issued(rows[n]) ELSE rows[i]]
    BY <1>2, <1>4, <1>5 DEF Issued
<1>7. ASSUME NEW i \in 1..Len(rows)
      PROVE  /\ new[i].lo = rows[i].lo /\ new[i].hi = rows[i].hi
             /\ new[i].pids = rows[i].pids \/ new[i].pids = rows[i].ids
    <2>1. CASE i = n
        <3>1. PICK r \in RowSet : r = rows[n]
            BY <1>2, <2>1
        <3>2. PICK s : s = Issued(r)
            OBVIOUS
        <3>3. s.lo = r.lo /\ s.hi = r.hi
            BY <3>2, IssuedIs
        <3>4. s.pids = r.ids
            BY <3>2 DEF Issued, RowSet
        <3>5. new[i] = s
            BY <1>6, <2>1, <3>1, <3>2
        <3> QED
            BY <2>1, <3>1, <3>3, <3>4, <3>5
    <2>2. CASE i # n
        <3>1. new[i] = rows[i]
            BY <1>6, <2>2
        <3> QED
            BY <3>1
    <2> QED
        BY <2>1, <2>2
<1>8. ASSUME NEW i \in 1..Len(rows) PROVE WordsOf(new[i]) = WordsOf(rows[i])
    BY <1>7 DEF WordsOf
<1>9. \A w : Has(rows, w) => Has(new, w)
    BY <1>5, <1>8 DEF Has
<1>10. ASSUME Filled(rows, heard.hi) PROVE Filled(rows, heard.hi)'
    <2>1. Filled(new, heard.hi)
        BY <1>9, <1>10, FilledOn
    <2> QED
        BY <1>4, <1>5, <2>1 DEF Filled, Has, WordsOf
<1>11. ASSUME Kept PROVE Kept'
    <2>1. Filled(new, Due - 1)
        BY <1>9, <1>11, FilledOn DEF Kept, Begun
    <2>2. Begun'
        BY <1>4, <1>5, <2>1 DEF Begun, Due, Owed, Empty, Filled, Has, WordsOf
    <2>3. Told(cand, new)
        BY <1>9, <1>11 DEF Kept, Told
    <2>4. Told(cand, rows)'
        BY <1>4, <1>5, <2>3 DEF Told, Has, WordsOf
    <2>5. Len(cand) = 0 /\ Empty(pend) /\ anchor.hi = heard.lo => Has(new, anchor.hi)
        BY <1>9, <1>11 DEF Kept, Doubled
    <2>6. Doubled'
        BY <1>4, <1>5, <2>5 DEF Doubled, Empty, Has, WordsOf
    <2>7. Spoken(new)
        <3> SUFFICES ASSUME NEW i \in 1..Len(rows), NEW q \in new[i].pids
                     PROVE  q[1] \in WordsOf(new[i])
            BY <1>5 DEF Spoken
        <3>1. q \in rows[i].pids \/ q \in rows[i].ids
            BY <1>7
        <3>2. CASE q \in rows[i].pids
            BY <1>8, <1>11, <3>2 DEF Kept, Spoken
        <3>3. CASE q \in rows[i].ids
            BY <1>1, <1>8, <3>3 DEF Bound
        <3> QED
            BY <3>1, <3>2, <3>3
    <2>8. Spoken(rows)'
        BY <1>5, <2>7 DEF Spoken, WordsOf
    <2>9. Lasting(pend)'
        BY <1>4, <1>11 DEF Kept, Lasting, Empty, Stop
    <2> QED
        BY <2>2, <2>4, <2>6, <2>8, <2>9 DEF Kept
<1>12. (~moved /\ ~clipped => IF done THEN Filled(rows, heard.hi) ELSE Kept)'
    <2>1. ~moved /\ ~clipped => IF done THEN Filled(rows, heard.hi) ELSE Kept
        BY DEF LossInv
    <2> QED
        BY <1>4, <1>10, <1>11, <2>1
<1> QED
    BY <1>3, <1>12 DEF LossInv

\* At first nothing was said.
LEMMA LossInit == Init => LossInv
<1> SUFFICES ASSUME Init PROVE LossInv
    OBVIOUS
<1>1. /\ heard = Nothing(1) /\ pend = NoPend /\ anchor = NoAnchor /\ rows = << >>
      /\ cand = << >> /\ done = FALSE
    BY DEF Init
<1>2. OwnInv
    BY OwnInit
<1>3. Len(<< >>) = 0 /\ \A i \in 1..0 : FALSE
    BY EmptySeq
<1>4. Nothing(1).lo = 1 /\ Empty(NoPend) /\ NoAnchor.hi = 0
    BY DEF Nothing, NoPend, NoAnchor, Empty
<1>5. Begun
    <2>1. Due = 1
        BY <1>1, <1>3, <1>4 DEF Due, Owed
    <2> QED
        BY <2>1 DEF Begun, Filled
<1>6. Told(cand, rows) /\ Spoken(rows)
    BY <1>1, <1>3 DEF Told, Spoken
<1>7. Doubled
    BY <1>1, <1>4 DEF Doubled
<1>8. Lasting(pend)
    BY <1>1, <1>4 DEF Lasting
<1> QED
    BY <1>1, <1>2, <1>5, <1>6, <1>7, <1>8 DEF LossInv, Kept

\* Each step keeps it.
LEMMA LossNext == LossInv /\ Next => LossInv'
<1> SUFFICES ASSUME LossInv, Next PROVE LossInv'
    OBVIOUS
<1>1. CASE \E g \in Decodes, hold, early, aged \in BOOLEAN : Partial(g, hold, early, aged)
    BY <1>1, PartialKeeps
<1>2. CASE \E tail, aged \in BOOLEAN : Idle(tail, aged)
    BY <1>2, IdleKeeps
<1>3. CASE \E g \in Decodes, mid, forced, canonical, fresh \in BOOLEAN, reason \in {"hard", "vad"} :
               Rotate(g, reason, mid, forced, canonical, fresh)
    BY <1>3, RotateKeeps
<1>4. CASE CarriedEndpoint
    BY <1>4, CarriedKeeps
<1>5. CASE \E g \in Decodes, canonical \in BOOLEAN : Finish(g, canonical)
    BY <1>5, FinishKeeps
<1>6. CASE \E E \in SUBSET Word : ReadAgain(E)
    BY <1>6, ReadAgainKeeps
<1>7. CASE \E n \in DOMAIN rows : Publish(n)
    BY <1>7, PublishKeeps
<1> QED
    BY <1>1, <1>2, <1>3, <1>4, <1>5, <1>6, <1>7 DEF Next

\* It is about the variables.
LEMMA LossStutter == LossInv /\ UNCHANGED vars => LossInv'
<1> SUFFICES ASSUME LossInv, UNCHANGED vars PROVE LossInv'
    OBVIOUS
<1>1. UNCHANGED <<heard, pend, anchor, rows, cand, done, clipped, moved>>
    BY DEF vars
<1>2. OwnInv'
    BY OwnStutter DEF LossInv
<1>3. Filled(rows, heard.hi) => Filled(rows, heard.hi)'
    BY <1>1 DEF Filled, Has, WordsOf
<1>4. Begun => Begun'
    BY <1>1 DEF Begun, Due, Owed, Empty, Filled, Has, WordsOf
<1>5. Told(cand, rows) => Told(cand, rows)'
    BY <1>1 DEF Told, Has, WordsOf
<1>6. Doubled => Doubled'
    BY <1>1 DEF Doubled, Empty, Has, WordsOf
<1>7. Spoken(rows) => Spoken(rows)'
    BY <1>1 DEF Spoken, WordsOf
<1>8. Lasting(pend) => Lasting(pend)'
    BY <1>1 DEF Lasting, Empty, Stop
<1>9. Kept => Kept'
    BY <1>4, <1>5, <1>6, <1>7, <1>8 DEF Kept
<1>10. (~moved /\ ~clipped => IF done THEN Filled(rows, heard.hi) ELSE Kept)'
    <2>1. ~moved /\ ~clipped => IF done THEN Filled(rows, heard.hi) ELSE Kept
        BY DEF LossInv
    <2> QED
        BY <1>1, <1>3, <1>9, <2>1
<1> QED
    BY <1>2, <1>10 DEF LossInv

\* If no decode changes consumed boundaries and the carry is always part of the text,
\* every word of the final text is in a row: what a run holds back, stops or leaves
\* open is only delayed, over any cut, idle commit or finish
\* (StableBoundariesLoseNothing).
THEOREM StableBoundariesKeepAll == Spec => []StableBoundariesLoseNothing
<1>1. LossInv /\ [Next]_vars => LossInv'
    BY LossNext, LossStutter
<1>2. LossInv => StableBoundariesLoseNothing
    <2> SUFFICES ASSUME LossInv, ~moved, ~clipped, done, NEW w \in 1..heard.hi
                 PROVE  w \in Committed
        BY DEF StableBoundariesLoseNothing, NothingLost
    <2>1. Filled(rows, heard.hi)
        BY DEF LossInv
    <2>2. rows \in Seq(RowSet) /\ heard.hi \in Nat
        BY LosAre DEF LossInv, OwnInv, CommitInv, Sound, Shape, Texts
    <2>3. DOMAIN rows = 1..Len(rows)
        BY <2>2, LenProperties
    <2>4. Has(rows, w)
        <3>1. w \in Nat /\ 1 <= w /\ w <= heard.hi
            BY <2>2
        <3> QED
            BY <2>1, <3>1 DEF Filled
    <2> QED
        BY <2>3, <2>4 DEF Has, Committed
<1> QED
    BY <1>1, <1>2, LossInit, PTL DEF Spec

=============================================================================
