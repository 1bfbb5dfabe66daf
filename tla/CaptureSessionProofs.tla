------------------------- MODULE CaptureSessionProofs -------------------------
EXTENDS CaptureSession, SequenceTheorems, WellFoundedInduction, TLAPS

-------------------------------------------------------------------------------
(* Numbers and sequences. *)

\* A set of numbers that is not empty has a least one.
LEMMA LeastIs ==
    ASSUME NEW T, T \subseteq Nat, T # {}
    PROVE  \E x \in T : \A y \in T : x <= y
<1> DEFINE R == {p \in Nat \X Nat : p[1] < p[2]}
<1>1. IsWellFoundedOn(R, Nat)
    BY NatLessThanWellFounded DEF OpToRel
<1> HIDE DEF R
<1>2. PICK x \in T : \A y \in T : ~(<<y, x>> \in R)
    BY <1>1, WFMin
<1>3. ASSUME NEW y \in T PROVE x <= y
    <2>1. ~(<<y, x>> \in R) /\ x \in Nat /\ y \in Nat
        BY <1>2
    <2>2. ~(y < x)
        BY <2>1 DEF R
    <2> QED
        BY <2>1, <2>2
<1> QED
    BY <1>3

\* What holds of 1 and of the successor of what it holds of holds up to n.
LEMMA UpTo ==
    ASSUME NEW n \in Nat \ {0}, NEW H, H \subseteq 1..n,
           1 \in H, \A k \in H : k < n => k + 1 \in H
    PROVE  H = 1..n
<1> SUFFICES ASSUME H # 1..n PROVE FALSE
    OBVIOUS
<1> DEFINE T == (1..n) \ H
<1>0. \E y \in 1..n : y \notin H
    OBVIOUS
<1>1. T \subseteq Nat /\ T # {}
    BY <1>0
<1>2. PICK x \in T : \A y \in T : x <= y
    BY <1>1, LeastIs
<1>3. x \in 1..n /\ x # 1 /\ x \notin H
    BY <1>2
<1>4. x - 1 \in 1..n /\ ~(x <= x - 1) /\ x - 1 < n
    BY <1>3
<1>5. x - 1 \in H
    BY <1>4, <1>2
<1>6. (x - 1) + 1 \in H
    BY <1>4, <1>5
<1> QED
    BY <1>3, <1>6

\* How FlattenSeq builds its result.
Builds(f, ss, n) ==
    f[1] = ss[1] /\ \A k \in 1..n : k < n => f[k + 1] = f[k] \o ss[k + 1]

\* Some function builds the prefixes.
LEMMA PrefixesExist ==
    ASSUME NEW S, NEW ss \in Seq(Seq(S)), ss # << >>
    PROVE  \E f \in [1..Len(ss) -> Seq(S)] : Builds(f, ss, Len(ss))
<1>1. Len(ss) \in Nat \ {0} /\ \A i \in 1..Len(ss) : ss[i] \in Seq(S)
    BY EmptySeq, ElementOfSeq
<1> DEFINE H == {k \in 1..Len(ss) : \E f \in [1..k -> Seq(S)] : Builds(f, ss, k)}
<1>2. 1 \in H
    <2>1. [i \in 1..1 |-> ss[1]] \in [1..1 -> Seq(S)]
        BY <1>1
    <2>2. Builds([i \in 1..1 |-> ss[1]], ss, 1)
        BY DEF Builds
    <2> QED
        BY <1>1, <2>1, <2>2
<1>3. ASSUME NEW k \in H, k < Len(ss) PROVE k + 1 \in H
    <2>1. PICK f \in [1..k -> Seq(S)] : Builds(f, ss, k)
        OBVIOUS
    <2>2. k \in Nat \ {0} /\ k + 1 \in 1..Len(ss)
        BY <1>1, <1>3
    <2> DEFINE g == [i \in 1..(k + 1) |-> IF i = k + 1 THEN f[k] \o ss[k + 1] ELSE f[i]]
    <2>3. f[k] \in Seq(S) /\ ss[k + 1] \in Seq(S)
        BY <1>1, <2>2
    <2>4. f[k] \o ss[k + 1] \in Seq(S)
        BY <2>3, ConcatProperties
    <2>5. g \in [1..(k + 1) -> Seq(S)]
        BY <2>4, <2>2
    <2>6. Builds(g, ss, k + 1)
        <3>1. g[1] = ss[1]
            BY <2>1, <2>2 DEF Builds
        <3>2. ASSUME NEW i \in 1..(k + 1), i < k + 1 PROVE g[i + 1] = g[i] \o ss[i + 1]
            <4>0. i \in Nat \ {0} /\ i <= k /\ i \in 1..(k + 1) /\ i + 1 \in 1..(k + 1)
                BY <3>2, <2>2
            <4>1. CASE i = k
                <5>1. g[i + 1] = f[k] \o ss[k + 1] /\ g[i] = f[k]
                    BY <4>0, <4>1, <2>2
                <5> QED
                    BY <5>1, <4>1
            <4>2. CASE i # k
                <5>1. g[i + 1] = f[i + 1] /\ g[i] = f[i] /\ i \in 1..k /\ i < k
                    BY <4>0, <4>2, <2>2
                <5> QED
                    BY <5>1, <2>1 DEF Builds
            <4> QED
                BY <4>1, <4>2
        <3> QED
            BY <3>1, <3>2 DEF Builds
    <2> QED
        BY <2>2, <2>5, <2>6
<1>4. H = 1..Len(ss)
    BY <1>1, <1>2, <1>3, UpTo
<1> QED
    BY <1>1, <1>4

\* Such a function solves the equation by which FlattenSeq chooses it.
Solves(f, ss) ==
    f = [i \in 1..Len(ss) |-> IF i = 1 THEN ss[i] ELSE f[i - 1] \o ss[i]]

\* A row that is not empty is flattened by a function from left to right.
LEMMA FlattenIs ==
    ASSUME NEW S, NEW ss \in Seq(Seq(S)), ss # << >>
    PROVE  \E f \in [1..Len(ss) -> Seq(S)] :
               Builds(f, ss, Len(ss)) /\ FlattenSeq(ss) = f[Len(ss)]
<1>1. Len(ss) \in Nat \ {0} /\ \A i \in 1..Len(ss) : ss[i] \in Seq(S)
    BY EmptySeq, ElementOfSeq
<1>2. PICK g \in [1..Len(ss) -> Seq(S)] : Builds(g, ss, Len(ss))
    BY PrefixesExist
<1>3. Solves(g, ss)
    <2>1. ASSUME NEW i \in 1..Len(ss), i # 1 PROVE g[i] = g[i - 1] \o ss[i]
        <3>1. i - 1 \in 1..Len(ss) /\ i - 1 < Len(ss) /\ (i - 1) + 1 = i
            BY <1>1, <2>1
        <3> QED
            BY <1>2, <3>1 DEF Builds
    <2>2. g = [i \in 1..Len(ss) |-> g[i]]
        OBVIOUS
    <2>3. [i \in 1..Len(ss) |-> g[i]] =
              [i \in 1..Len(ss) |-> IF i = 1 THEN ss[i] ELSE g[i - 1] \o ss[i]]
        BY <2>1, <1>2 DEF Builds
    <2> QED
        BY <2>2, <2>3 DEF Solves
<1>4. PICK f : f = CHOOSE h : Solves(h, ss)
    OBVIOUS
<1>5. FlattenSeq(ss) = f[Len(ss)]
    BY <1>1, <1>4 DEF FlattenSeq, Solves
<1>6. Solves(f, ss)
    BY <1>3, <1>4
<1>7. f[1] = ss[1] /\ \A k \in 1..Len(ss) : k < Len(ss) => f[k + 1] = f[k] \o ss[k + 1]
    <2>1. \A i \in 1..Len(ss) : f[i] = IF i = 1 THEN ss[i] ELSE f[i - 1] \o ss[i]
        BY <1>6 DEF Solves
    <2>2. f[1] = ss[1]
        BY <2>1, <1>1
    <2>3. ASSUME NEW k \in 1..Len(ss), k < Len(ss) PROVE f[k + 1] = f[k] \o ss[k + 1]
        <3>1. k + 1 \in 1..Len(ss) /\ k + 1 # 1 /\ (k + 1) - 1 = k
            BY <2>3, <1>1
        <3> QED
            BY <2>1, <3>1
    <2> QED
        BY <2>2, <2>3
<1>8. \A i \in 1..Len(ss) : f[i] \in Seq(S)
    <2> DEFINE H == {k \in 1..Len(ss) : f[k] \in Seq(S)}
    <2>1. 1 \in H
        BY <1>1, <1>7
    <2>2. ASSUME NEW k \in H, k < Len(ss) PROVE k + 1 \in H
        <3>0. k \in 1..Len(ss) /\ k + 1 \in 1..Len(ss) /\ f[k] \in Seq(S)
            BY <1>1, <2>2
        <3>1. f[k + 1] = f[k] \o ss[k + 1]
            BY <1>7, <2>2, <3>0
        <3>2. f[k] \o ss[k + 1] \in Seq(S)
            BY <1>1, <3>0, ConcatProperties
        <3> QED
            BY <3>0, <3>1, <3>2
    <2>3. H = 1..Len(ss)
        BY <1>1, <2>1, <2>2, UpTo
    <2> QED
        BY <2>3
<1>9. f \in [1..Len(ss) -> Seq(S)]
    <2>1. f = [i \in 1..Len(ss) |-> IF i = 1 THEN ss[i] ELSE f[i - 1] \o ss[i]]
        BY <1>6 DEF Solves
    <2>2. DOMAIN f = 1..Len(ss)
        BY <2>1
    <2> QED
        BY <2>1, <2>2, <1>8
<1> QED
    BY <1>5, <1>7, <1>9 DEF Builds

-------------------------------------------------------------------------------
(* Order: what a sequence holds, and sequences one behind the other. *)

\* Each element is below the next ones.
Rising(s) == \A i, j \in 1..Len(s) : i < j => s[i] < s[j]

\* All of X is below all of Y.
Below(X, Y) == \A a \in X, b \in Y : a < b

\* A row of rising sequences, each below the next ones.
InRow(ss) ==
    /\ \A i \in 1..Len(ss) : Rising(ss[i])
    /\ \A i, j \in 1..Len(ss) : i < j => Below(Range(ss[i]), Range(ss[j]))

Joined(ss) == UNION {Range(ss[i]) : i \in 1..Len(ss)}

\* The elements of a sequence.
LEMMA RangeIs ==
    ASSUME NEW S, NEW s \in Seq(S)
    PROVE  /\ Range(s) = {s[i] : i \in 1..Len(s)} /\ Range(s) \subseteq S
           /\ (Range(s) = {} <=> s = << >>)
<1>1. Len(s) \in Nat /\ s \in [1..Len(s) -> S]
    BY LenProperties
<1>2. Range(s) = {s[i] : i \in 1..Len(s)} /\ Range(s) \subseteq S
    BY <1>1 DEF Range
<1>3. Range(s) = {} => s = << >>
    <2>1. ASSUME s # << >> PROVE 1 \in 1..Len(s)
        BY <2>1, EmptySeq
    <2> QED
        BY <2>1, <1>2
<1>4. s = << >> => Range(s) = {}
    BY <1>1, <1>2
<1> QED
    BY <1>2, <1>3, <1>4

\* The empty sequence.
LEMMA EmptyIs ==
    /\ Range(<< >>) = {} /\ Rising(<< >>) /\ \A S : << >> \in Seq(S) /\ Len(<< >>) = 0
<1>1. \A S : << >> \in Seq(S) /\ Len(<< >>) = 0
    BY EmptySeq
<1>2. Range(<< >>) = {}
    BY <1>1, RangeIs
<1> QED
    BY <1>1, <1>2 DEF Rising

\* Two sequences, one behind the other.
LEMMA ConcatIs ==
    ASSUME NEW S, S \subseteq Nat, NEW s \in Seq(S), NEW t \in Seq(S)
    PROVE  /\ s \o t \in Seq(S) /\ Range(s \o t) = Range(s) \cup Range(t)
           /\ Len(s \o t) = Len(s) + Len(t)
           /\ (Rising(s \o t) <=> Rising(s) /\ Rising(t) /\ Below(Range(s), Range(t)))
<1>1. PICK m \in Nat, n \in Nat : m = Len(s) /\ n = Len(t)
    BY LenProperties
<1>2. /\ s \o t \in Seq(S) /\ Len(s \o t) = m + n
      /\ \A i \in 1..(m + n) : (s \o t)[i] = IF i <= m THEN s[i] ELSE t[i - m]
    BY <1>1, ConcatProperties
<1>3. Range(s \o t) = Range(s) \cup Range(t)
    BY RangeConcatenation
<1>4. /\ \A i \in 1..m : s[i] \in S /\ s[i] = (s \o t)[i]
      /\ \A i \in 1..n : t[i] \in S /\ m + i \in 1..(m + n) /\ t[i] = (s \o t)[m + i]
    <2>1. \A i \in 1..m : i \in 1..(m + n) /\ i <= m
        OBVIOUS
    <2>2. \A i \in 1..n : m + i \in 1..(m + n) /\ ~(m + i <= m) /\ (m + i) - m = i
        OBVIOUS
    <2> QED
        BY <2>1, <2>2, <1>1, <1>2, ElementOfSeq
<1>5. Range(s) = {s[i] : i \in 1..m} /\ Range(t) = {t[i] : i \in 1..n}
    BY <1>1, RangeIs
<1>6. ASSUME Rising(s \o t) PROVE Rising(s) /\ Rising(t) /\ Below(Range(s), Range(t))
    <2>1. \A i, j \in 1..(m + n) : i < j => (s \o t)[i] < (s \o t)[j]
        BY <1>2, <1>6 DEF Rising
    <2>2. ASSUME NEW i \in 1..m, NEW j \in 1..m, i < j PROVE s[i] < s[j]
        <3>1. i \in 1..(m + n) /\ j \in 1..(m + n)
            OBVIOUS
        <3> QED
            BY <2>1, <2>2, <3>1, <1>4
    <2>3. ASSUME NEW i \in 1..n, NEW j \in 1..n, i < j PROVE t[i] < t[j]
        <3>1. m + i \in 1..(m + n) /\ m + j \in 1..(m + n) /\ m + i < m + j
            BY <2>3
        <3> QED
            BY <2>1, <3>1, <1>4
    <2>4. ASSUME NEW i \in 1..m, NEW j \in 1..n PROVE s[i] < t[j]
        <3>1. i \in 1..(m + n) /\ m + j \in 1..(m + n) /\ i < m + j
            OBVIOUS
        <3> QED
            BY <2>1, <3>1, <1>4
    <2>5. Below(Range(s), Range(t))
        BY <2>4, <1>5 DEF Below
    <2> QED
        BY <2>2, <2>3, <2>5, <1>1 DEF Rising
<1>7. ASSUME Rising(s), Rising(t), Below(Range(s), Range(t)) PROVE Rising(s \o t)
    <2>1. ASSUME NEW i \in 1..(m + n), NEW j \in 1..(m + n), i < j
          PROVE  (s \o t)[i] < (s \o t)[j]
        <3>1. CASE j <= m
            <4>1. i \in 1..m /\ j \in 1..m
                BY <2>1, <3>1
            <4> QED
                BY <4>1, <2>1, <1>7, <1>1, <1>4 DEF Rising
        <3>2. CASE i <= m /\ ~(j <= m)
            <4>1. i \in 1..m /\ j - m \in 1..n /\ (s \o t)[j] = t[j - m] /\ (s \o t)[i] = s[i]
                BY <3>2, <1>2
            <4>2. s[i] \in Range(s) /\ t[j - m] \in Range(t)
                BY <4>1, <1>5
            <4> QED
                BY <4>1, <4>2, <1>7 DEF Below
        <3>3. CASE ~(i <= m)
            <4>1. /\ i - m \in 1..n /\ j - m \in 1..n /\ i - m < j - m
                  /\ (s \o t)[j] = t[j - m] /\ (s \o t)[i] = t[i - m]
                BY <3>3, <2>1, <1>2
            <4> QED
                BY <4>1, <1>7, <1>1 DEF Rising
        <3> QED
            BY <3>1, <3>2, <3>3, <2>1
    <2> QED
        BY <2>1, <1>2 DEF Rising
<1> QED
    BY <1>1, <1>2, <1>3, <1>6, <1>7

\* The two parts of a rising sequence.
LEMMA SplitIs ==
    ASSUME NEW S, S \subseteq Nat, NEW s \in Seq(S), NEW k \in 0..Len(s)
    PROVE  /\ SubSeq(s, 1, k) \in Seq(S) /\ SubSeq(s, k + 1, Len(s)) \in Seq(S)
           /\ Len(SubSeq(s, k + 1, Len(s))) = Len(s) - k
           /\ Range(s) = Range(SubSeq(s, 1, k)) \cup Range(SubSeq(s, k + 1, Len(s)))
           /\ Rising(s) => /\ Rising(SubSeq(s, 1, k)) /\ Rising(SubSeq(s, k + 1, Len(s)))
                           /\ Below(Range(SubSeq(s, 1, k)), Range(SubSeq(s, k + 1, Len(s))))
<1>1. PICK n \in Nat : n = Len(s)
    BY LenProperties
<1>2. \A i \in 1..n : s[i] \in S
    BY <1>1, ElementOfSeq
<1>3. SubSeq(s, 1, k) \in Seq(S)
    BY <1>1, <1>2, SubSeqProperties
<1>4. /\ SubSeq(s, k + 1, n) \in Seq(S)
      /\ Len(SubSeq(s, k + 1, n)) = n - k
    BY <1>1, <1>2, SubSeqProperties
<1>5. s = SubSeq(s, 1, k) \o SubSeq(s, k + 1, n)
    <2>1. SubSeq(s, 1, k) \o SubSeq(s, k + 1, n) = SubSeq(s, 1, n)
        <3>1. 1 \in 1..Len(s) + 1 /\ k \in (1 - 1)..Len(s) /\ n \in k..Len(s)
            BY <1>1
        <3> QED
            BY <3>1, ConcatAdjacentSubSeq
    <2>2. SubSeq(s, 1, n) = s
        BY <1>1, SubSeqFull
    <2> QED
        BY <2>1, <2>2
<1>6. PICK u \in Seq(S), v \in Seq(S) : u = SubSeq(s, 1, k) /\ v = SubSeq(s, k + 1, n)
    BY <1>3, <1>4
<1>7. /\ Range(u \o v) = Range(u) \cup Range(v)
      /\ (Rising(u \o v) <=> Rising(u) /\ Rising(v) /\ Below(Range(u), Range(v)))
    <2>1. /\ u \o v \in Seq(S) /\ Range(u \o v) = Range(u) \cup Range(v)
          /\ Len(u \o v) = Len(u) + Len(v)
          /\ (Rising(u \o v) <=> Rising(u) /\ Rising(v) /\ Below(Range(u), Range(v)))
        BY ONLY S \subseteq Nat, u \in Seq(S), v \in Seq(S), ConcatIs
    <2> QED
        BY <2>1
<1> QED
    BY <1>1, <1>4, <1>5, <1>6, <1>7

\* What a sequence is from its m-th element on.
LEMMA RestIs ==
    ASSUME NEW S, NEW s \in Seq(S), NEW m \in 1..(Len(s) + 1)
    PROVE  /\ SubSeq(s, m, Len(s)) \in Seq(S) /\ Len(SubSeq(s, m, Len(s))) = Len(s) - m + 1
           /\ \A i \in 1..(Len(s) - m + 1) : SubSeq(s, m, Len(s))[i] = s[m + i - 1]
<1>1. PICK n \in Nat : n = Len(s)
    BY LenProperties
<1>2. m \in Int /\ n \in Int /\ (IF m <= n THEN n - m + 1 ELSE 0) = n - m + 1
    BY <1>1
<1>3. \A i \in m..n : s[i] \in S
    <2>1. \A i \in m..n : i \in 1..n
        BY <1>1
    <2> QED
        BY <1>1, <2>1, ElementOfSeq
<1>4. /\ SubSeq(s, m, n) \in Seq(S) /\ Len(SubSeq(s, m, n)) = IF m <= n THEN n - m + 1 ELSE 0
      /\ \A i \in 1..(n - m + 1) : SubSeq(s, m, n)[i] = s[m + i - 1]
    BY ONLY <1>2, <1>3, SubSeqProperties
<1> QED
    BY ONLY <1>1, <1>2, <1>4

\* The first of a sequence, and the rest.
LEMMA HeadTailIs ==
    ASSUME NEW S, NEW s \in Seq(S), s # << >>
    PROVE  /\ Len(s) \in Nat \ {0} /\ Head(s) = s[1] /\ Head(s) \in S
           /\ Tail(s) \in Seq(S) /\ Len(Tail(s)) = Len(s) - 1
           /\ \A i \in 1..Len(Tail(s)) : Tail(s)[i] = s[i + 1]
<1>1. Len(s) \in Nat \ {0} /\ Tail(s) \in Seq(S) /\ Len(Tail(s)) = Len(s) - 1
    BY HeadTailProperties, EmptySeq
<1>2. Tail(s) = SubSeq(s, 2, Len(s))
    BY TailIsSubSeq
<1>3. ASSUME NEW i \in 1..Len(Tail(s)) PROVE Tail(s)[i] = s[i + 1]
    BY <1>1, HeadTailProperties
<1>4. Head(s) = s[1] /\ Head(s) \in S
    BY <1>1, HeadTailProperties
<1> QED
    BY <1>1, <1>3, <1>4

\* A flattened row holds what its sequences hold, in their order.
LEMMA FlattenHolds ==
    ASSUME NEW S, S \subseteq Nat, NEW ss \in Seq(Seq(S))
    PROVE  /\ FlattenSeq(ss) \in Seq(S) /\ Range(FlattenSeq(ss)) = Joined(ss)
           /\ InRow(ss) => Rising(FlattenSeq(ss))
<1>1. CASE ss = << >>
    <2>1. FlattenSeq(ss) = << >>
        BY <1>1 DEF FlattenSeq
    <2>2. Joined(ss) = {}
        BY <1>1 DEF Joined
    <2> QED
        BY <2>1, <2>2, EmptyIs
<1>2. CASE ss # << >>
    <2>1. PICK n \in Nat \ {0} : n = Len(ss)
        BY <1>2, EmptySeq
    <2>2. PICK f \in [1..n -> Seq(S)] : Builds(f, ss, n) /\ FlattenSeq(ss) = f[n]
        BY <1>2, <2>1, FlattenIs
    <2>3. \A i \in 1..n : ss[i] \in Seq(S) /\ f[i] \in Seq(S)
        BY <2>1, ElementOfSeq
    <2> DEFINE Upto(k) == UNION {Range(ss[i]) : i \in 1..k}
               H == {k \in 1..n : /\ Range(f[k]) = Upto(k)
                                  /\ InRow(ss) => Rising(f[k])}
    <2>4. 1 \in H
        <3>1. f[1] = ss[1] /\ Upto(1) = Range(ss[1])
            BY <2>2 DEF Builds
        <3>2. 1 \in 1..n /\ (InRow(ss) => Rising(ss[1]))
            BY <2>1 DEF InRow
        <3>3. Range(f[1]) = Upto(1) /\ (InRow(ss) => Rising(f[1]))
            BY <3>1, <3>2
        <3> QED
            BY <3>2, <3>3
    <2>5. ASSUME NEW k \in H, k < n PROVE k + 1 \in H
        <3>1. k \in 1..n /\ k + 1 \in 1..n /\ f[k + 1] = f[k] \o ss[k + 1]
            BY <2>2, <2>5 DEF Builds
        <3>2. Upto(k + 1) = Upto(k) \cup Range(ss[k + 1])
            <4>1. 1..(k + 1) = (1..k) \cup {k + 1}
                BY <3>1
            <4> QED
                BY <4>1
        <3>3. Range(f[k + 1]) = Upto(k + 1)
            <4>1. PICK u \in Seq(S), v \in Seq(S) : u = f[k] /\ v = ss[k + 1]
                BY <3>1, <2>3
            <4>2. Range(u \o v) = Range(u) \cup Range(v)
                BY ONLY u \in Seq(S), v \in Seq(S), RangeConcatenation
            <4>3. Range(f[k]) = Upto(k)
                OBVIOUS
            <4> QED
                BY <3>1, <3>2, <4>1, <4>2, <4>3
        <3>4. ASSUME InRow(ss) PROVE Rising(f[k + 1])
            <4>1. Below(Upto(k), Range(ss[k + 1]))
                <5>1. \A i \in 1..k : i \in 1..n /\ i < k + 1
                    BY <3>1
                <5> QED
                    BY <5>1, <3>1, <3>4, <2>1 DEF InRow, Below
            <4>2. Rising(f[k]) /\ Rising(ss[k + 1])
                BY <3>1, <3>4, <2>1 DEF InRow
            <4> QED
                <5>1. PICK u \in Seq(S), v \in Seq(S) : u = f[k] /\ v = ss[k + 1]
                    BY <3>1, <2>3
                <5>2. Below(Range(u), Range(v))
                    BY <4>1, <5>1
                <5>3. Rising(u \o v)
                    BY <4>2, <5>1, <5>2, ConcatIs
                <5> QED
                    BY <3>1, <5>1, <5>3
        <3> QED
            BY <3>1, <3>3, <3>4
    <2>6. H = 1..n
        <3> HIDE DEF H
        <3>1. H \subseteq 1..n
            BY DEF H
        <3> QED
            BY <3>1, <2>4, <2>5, UpTo
    <2>7. n \in H /\ Upto(n) = Joined(ss)
        <3>1. Upto(n) = Joined(ss)
            BY <2>1 DEF Joined
        <3> HIDE DEF H
        <3>2. n \in H
            BY <2>6
        <3> USE DEF H
        <3> QED
            BY <3>1, <3>2
    <2> QED
        BY <2>2, <2>3, <2>7
<1> QED
    BY <1>1, <1>2

-------------------------------------------------------------------------------
(* Rows of items: the queue and the deferred items. *)

\* What the constants and the sets made of them are.
LEMMA Constants ==
    /\ QueueSize \in Nat \ {0} /\ HardCap \in Nat \ {0} /\ PreRollSize \in Nat
    /\ MaxArrivals \in Nat /\ MaxEvents \in Nat
    /\ Arrivals \subseteq Nat /\ Gens \subseteq Nat \ {0} /\ 1 \in Gens
BY CaptureAssumption DEF Arrivals, Gens

\* The arrivals in a row of items.
Sounds(items) == UNION {Range(items[i].at) : i \in 1..Len(items)}

\* Items in the order of their arrivals.
Ordered(items) ==
    /\ \A i \in 1..Len(items) : Rising(items[i].at)
    /\ \A i, j \in 1..Len(items) : i < j => Below(Range(items[i].at), Range(items[j].at))

\* Items of one generation.
Marked(items, g) == \A i \in 1..Len(items) : items[i].gen = g

\* Two sequences of arrivals, one behind the other.
LEMMA BehindIs ==
    ASSUME NEW s \in Seq(Arrivals), NEW t \in Seq(Arrivals)
    PROVE  /\ s \o t \in Seq(Arrivals) /\ Range(s \o t) = Range(s) \cup Range(t)
           /\ (Rising(s \o t) <=> Rising(s) /\ Rising(t) /\ Below(Range(s), Range(t)))
<1>1. Arrivals \subseteq Nat
    BY Constants
<1>2. s \o t \in Seq(Arrivals)
    BY ConcatProperties
<1>3. Range(s \o t) = Range(s) \cup Range(t)
    BY RangeConcatenation
<1>4. /\ s \o t \in Seq(Arrivals) /\ Range(s \o t) = Range(s) \cup Range(t)
      /\ Len(s \o t) = Len(s) + Len(t)
      /\ (Rising(s \o t) <=> Rising(s) /\ Rising(t) /\ Below(Range(s), Range(t)))
    BY ONLY <1>1, s \in Seq(Arrivals), t \in Seq(Arrivals), ConcatIs
<1> QED
    BY <1>2, <1>3, <1>4

\* One more arrival.
LEMMA GrownIs ==
    ASSUME NEW s \in Seq(Arrivals), NEW x \in Arrivals
    PROVE  /\ Append(s, x) \in Seq(Arrivals)
           /\ Range(Append(s, x)) = Range(s) \cup {x}
           /\ (Rising(s) /\ Below(Range(s), {x}) => Rising(Append(s, x)))
<1>1. << x >> \in Seq(Arrivals) /\ Len(<< x >>) = 1 /\ << x >>[1] = x
    OBVIOUS
<1>2. Range(<< x >>) = {x}
    <2>1. Range(<< x >>) = {<< x >>[i] : i \in 1..Len(<< x >>)}
        BY <1>1, RangeIs
    <2> QED
        BY <2>1, <1>1
<1>3. Rising(<< x >>)
    BY <1>1 DEF Rising
<1>4. Append(s, x) = s \o << x >> /\ Append(s, x) \in Seq(Arrivals) /\ Append(s, x) # << >>
    BY AppendIsConcat, AppendProperties
<1>5. PICK t \in Seq(Arrivals) : t = << x >>
    BY <1>1
<1>6. /\ Range(s \o t) = Range(s) \cup Range(t)
      /\ (Rising(s \o t) <=> Rising(s) /\ Rising(t) /\ Below(Range(s), Range(t)))
    BY BehindIs
<1>7. Range(t) = {x} /\ Rising(t) /\ Append(s, x) = s \o t
    BY <1>2, <1>3, <1>4, <1>5
<1> QED
    BY <1>4, <1>6, <1>7

\* What an item holds.
LEMMA ItemIs ==
    ASSUME NEW item \in Item
    PROVE  /\ item.gen \in Gens /\ item.at \in Seq(Arrivals) /\ item.audio \in BOOLEAN
           /\ Range(item.at) \subseteq Arrivals
<1>1. item.gen \in Gens /\ item.at \in Seq(Arrivals) /\ item.audio \in BOOLEAN
    BY DEF Item
<1> QED
    BY <1>1, RangeIs

\* The empty row of items.
LEMMA NoItems ==
    /\ << >> \in Seq(Item) /\ Sounds(<< >>) = {} /\ Ordered(<< >>) /\ \A g : Marked(<< >>, g)
<1>1. << >> \in Seq(Item) /\ Len(<< >>) = 0
    BY EmptySeq
<1> QED
    BY <1>1 DEF Sounds, Ordered, Marked

\* An item behind a row of items.
LEMMA ItemsAppend ==
    ASSUME NEW q \in Seq(Item), NEW item \in Item
    PROVE  /\ Append(q, item) \in Seq(Item) /\ Len(Append(q, item)) = Len(q) + 1
           /\ Sounds(Append(q, item)) = Sounds(q) \cup Range(item.at)
           /\ Ordered(q) /\ Rising(item.at) /\ Below(Sounds(q), Range(item.at)) =>
                  Ordered(Append(q, item))
           /\ \A g : Marked(q, g) /\ item.gen = g => Marked(Append(q, item), g)
<1>1. PICK n \in Nat : n = Len(q)
    BY LenProperties
<1>2. PICK r : r = Append(q, item)
    OBVIOUS
<1>3. /\ r \in Seq(Item) /\ Len(r) = n + 1 /\ r[n + 1] = item
      /\ \A i \in 1..n : r[i] = q[i]
    BY <1>1, <1>2, AppendProperties
<1>4. 1..(n + 1) = (1..n) \cup {n + 1}
    OBVIOUS
<1>5. Sounds(r) = Sounds(q) \cup Range(item.at)
    BY <1>1, <1>3, <1>4 DEF Sounds
<1>6. ASSUME Ordered(q), Rising(item.at), Below(Sounds(q), Range(item.at)) PROVE Ordered(r)
    <2>1. \A i \in 1..(n + 1) : Rising(r[i].at)
        BY <1>1, <1>3, <1>4, <1>6 DEF Ordered
    <2>2. ASSUME NEW i \in 1..(n + 1), NEW j \in 1..(n + 1), i < j
          PROVE  Below(Range(r[i].at), Range(r[j].at))
        <3>1. CASE j = n + 1
            <4>1. i \in 1..n /\ r[i] = q[i] /\ r[j] = item
                BY <2>2, <3>1, <1>3
            <4>2. Range(q[i].at) \subseteq Sounds(q)
                BY <4>1, <1>1 DEF Sounds
            <4> QED
                BY <4>1, <4>2, <1>6 DEF Below
        <3>2. CASE j # n + 1
            <4>1. i \in 1..n /\ j \in 1..n
                BY <2>2, <3>2
            <4> QED
                BY <4>1, <2>2, <1>1, <1>3, <1>6 DEF Ordered
        <3> QED
            BY <3>1, <3>2
    <2> QED
        BY <2>1, <2>2, <1>3 DEF Ordered
<1>7. ASSUME NEW g, Marked(q, g), item.gen = g PROVE Marked(r, g)
    BY <1>1, <1>3, <1>4, <1>7 DEF Marked
<1> QED
    BY <1>1, <1>2, <1>3, <1>5, <1>6, <1>7

\* The first k items, flattened, and the others.
LEMMA ItemsCut ==
    ASSUME NEW q \in Seq(Item), NEW k \in 0..Len(q)
    PROVE  /\ Frames(q, k) \in Seq(Arrivals) /\ SubSeq(q, k + 1, Len(q)) \in Seq(Item)
           /\ Len(SubSeq(q, k + 1, Len(q))) = Len(q) - k
           /\ Sounds(q) = Range(Frames(q, k)) \cup Sounds(SubSeq(q, k + 1, Len(q)))
           /\ Ordered(q) => /\ Rising(Frames(q, k)) /\ Ordered(SubSeq(q, k + 1, Len(q)))
                            /\ Below(Range(Frames(q, k)), Sounds(SubSeq(q, k + 1, Len(q))))
           /\ \A g : Marked(q, g) => Marked(SubSeq(q, k + 1, Len(q)), g)
<1>0. PICK front, rest : front = Frames(q, k) /\ rest = SubSeq(q, k + 1, Len(q))
    OBVIOUS
<1>1. PICK n \in Nat : n = Len(q)
    BY LenProperties
<1>2. \A i \in 1..n : q[i] \in Item /\ q[i].at \in Seq(Arrivals)
    BY <1>1, ElementOfSeq, ItemIs
<1>3. PICK ss : ss = [i \in 1..k |-> q[i].at]
    OBVIOUS
<1>4. k \in Nat /\ k <= n /\ 1..k \subseteq 1..n
    BY <1>1
<1>5. ss \in [1..k -> Seq(Arrivals)]
    BY <1>2, <1>3, <1>4
<1>6. ss \in Seq(Seq(Arrivals)) /\ Len(ss) = k /\ \A i \in 1..k : ss[i] = q[i].at
    BY <1>3, <1>4, <1>5
<1>7. /\ front \in Seq(Arrivals) /\ Range(front) = Joined(ss)
      /\ InRow(ss) => Rising(front)
    BY <1>0, <1>3, <1>6, FlattenHolds, Constants DEF Frames
<1>8. /\ rest \in Seq(Item) /\ Len(rest) = n - k
      /\ \A i \in 1..(n - k) : rest[i] = q[k + i]
    <2>1. \A i \in (k + 1)..n : q[i] \in Item
        BY <1>2, <1>4
    <2>2. rest \in Seq(Item) /\ Len(rest) = n - k
        <3>1. rest = SubSeq(q, k + 1, n) /\ k + 1 \in Int /\ n \in Int
            BY <1>0, <1>1, <1>4
        <3>2. /\ SubSeq(q, k + 1, n) \in Seq(Item)
              /\ Len(SubSeq(q, k + 1, n)) = IF k + 1 <= n THEN n - (k + 1) + 1 ELSE 0
            BY <2>1, <3>1, SubSeqProperties
        <3> QED
            BY <3>1, <3>2, <1>1, <1>4
    <2>3. ASSUME NEW i \in 1..(n - k) PROVE rest[i] = q[k + i]
        <3>1. i \in 1..(n - (k + 1) + 1) /\ (k + 1) + i - 1 = k + i
            BY <1>4
        <3> QED
            BY <3>1, <2>1, <1>0, <1>1, <1>4, SubSeqProperties
    <2> QED
        BY <2>2, <2>3
<1>9. 1..n = (1..k) \cup {k + i : i \in 1..(n - k)}
    <2>1. \A m \in 1..n : m \in 1..k \/ (m - k \in 1..(n - k) /\ m = k + (m - k))
        BY <1>4
    <2>2. \A i \in 1..(n - k) : k + i \in 1..n
        BY <1>4
    <2> QED
        BY <2>1, <2>2, <1>4
<1>10. Sounds(q) = Range(front) \cup Sounds(rest)
    <2>1. Joined(ss) = UNION {Range(q[i].at) : i \in 1..k}
        BY <1>6 DEF Joined
    <2>2. Sounds(rest) = UNION {Range(q[k + i].at) : i \in 1..(n - k)}
        BY <1>8 DEF Sounds
    <2>3. Sounds(q) = UNION {Range(q[i].at) : i \in 1..n}
        BY <1>1 DEF Sounds
    <2>4. ASSUME NEW x \in Sounds(q) PROVE x \in Joined(ss) \cup Sounds(rest)
        <3>1. PICK i \in 1..n : x \in Range(q[i].at)
            BY <2>3, <2>4
        <3>2. i \in 1..k \/ \E j \in 1..(n - k) : i = k + j
            BY <1>9
        <3> QED
            BY <3>1, <3>2, <2>1, <2>2
    <2>5. \A i \in 1..(n - k) : k + i \in 1..n
        BY <1>9
    <2>6. Joined(ss) \subseteq Sounds(q) /\ Sounds(rest) \subseteq Sounds(q)
        BY <2>1, <2>2, <2>3, <2>5, <1>4
    <2> QED
        BY <2>4, <2>6, <1>7
<1>11. ASSUME Ordered(q)
       PROVE  Rising(front) /\ Ordered(rest) /\ Below(Range(front), Sounds(rest))
    <2>1. InRow(ss)
        <3>1. \A i \in 1..k : Rising(ss[i])
            BY <1>1, <1>4, <1>6, <1>11 DEF Ordered
        <3>2. \A i, j \in 1..k : i < j => Below(Range(ss[i]), Range(ss[j]))
            BY <1>1, <1>4, <1>6, <1>11 DEF Ordered
        <3> QED
            BY <3>1, <3>2, <1>6 DEF InRow
    <2>2. \A i \in 1..(n - k) : k + i \in 1..n /\ rest[i] = q[k + i]
        BY <1>4, <1>8
    <2>3. Ordered(rest)
        <3>1. \A i \in 1..(n - k) : Rising(rest[i].at)
            BY <2>2, <1>1, <1>11 DEF Ordered
        <3>2. \A i, j \in 1..(n - k) : i < j => k + i < k + j
            BY <1>4
        <3>3. \A i, j \in 1..(n - k) : i < j => Below(Range(rest[i].at), Range(rest[j].at))
            BY <2>2, <3>2, <1>1, <1>11 DEF Ordered
        <3> QED
            BY <3>1, <3>3, <1>8 DEF Ordered
    <2>4. ASSUME NEW i \in 1..k, NEW j \in 1..(n - k)
          PROVE  Below(Range(ss[i]), Range(rest[j].at))
        <3>1. i \in 1..n /\ k + j \in 1..n /\ i < k + j
            BY <1>4
        <3> QED
            BY <3>1, <2>2, <1>1, <1>6, <1>11 DEF Ordered
    <2>5. Below(Range(front), Sounds(rest))
        <3>1. ASSUME NEW a \in Range(front), NEW b \in Sounds(rest) PROVE a < b
            <4>1. PICK i \in 1..k : a \in Range(ss[i])
                BY <1>6, <1>7 DEF Joined
            <4>2. PICK j \in 1..(n - k) : b \in Range(rest[j].at)
                BY <1>8 DEF Sounds
            <4> QED
                BY <4>1, <4>2, <2>4 DEF Below
        <3> QED
            BY <3>1 DEF Below
    <2> QED
        BY <2>1, <2>3, <2>5, <1>7
<1>12. ASSUME NEW g, Marked(q, g) PROVE Marked(rest, g)
    BY <1>1, <1>4, <1>8, <1>12 DEF Marked
<1> QED
    BY <1>0, <1>1, <1>7, <1>8, <1>10, <1>11, <1>12

\* All items, flattened.
LEMMA ItemsFlat ==
    ASSUME NEW q \in Seq(Item)
    PROVE  /\ Frames(q, Len(q)) \in Seq(Arrivals) /\ Range(Frames(q, Len(q))) = Sounds(q)
           /\ Ordered(q) => Rising(Frames(q, Len(q)))
<1>1. PICK k \in 0..Len(q) : k = Len(q)
    BY LenProperties
<1>2. /\ Frames(q, k) \in Seq(Arrivals)
      /\ Sounds(q) = Range(Frames(q, k)) \cup Sounds(SubSeq(q, k + 1, Len(q)))
      /\ Ordered(q) => Rising(Frames(q, k))
    BY ItemsCut
<1>3. SubSeq(q, k + 1, Len(q)) = << >>
    BY <1>1, LenProperties, SubSeqEmpty
<1> QED
    BY <1>1, <1>2, <1>3, NoItems

\* The first item, and the others.
LEMMA ItemsTail ==
    ASSUME NEW q \in Seq(Item), q # << >>
    PROVE  /\ Head(q) \in Item /\ Tail(q) \in Seq(Item)
           /\ Len(Tail(q)) = Len(q) - 1 /\ Len(q) \in Nat \ {0}
           /\ Sounds(q) = Range(Head(q).at) \cup Sounds(Tail(q))
           /\ Ordered(q) => /\ Rising(Head(q).at) /\ Ordered(Tail(q))
                            /\ Below(Range(Head(q).at), Sounds(Tail(q)))
           /\ \A g : Marked(q, g) => Head(q).gen = g /\ Marked(Tail(q), g)
<1>1. PICK n \in Nat \ {0} : n = Len(q)
    BY EmptySeq
<1>2. PICK h, t : h = Head(q) /\ t = Tail(q)
    OBVIOUS
<1>3. /\ h = q[1] /\ h \in Item /\ t \in Seq(Item) /\ Len(t) = n - 1
      /\ \A i \in 1..(n - 1) : t[i] = q[i + 1]
    BY <1>1, <1>2, HeadTailIs
<1>4. 1..n = {1} \cup {i + 1 : i \in 1..(n - 1)}
    <2>1. \A m \in 1..n : m = 1 \/ (m - 1 \in 1..(n - 1) /\ m = (m - 1) + 1)
        OBVIOUS
    <2>2. 1 \in 1..n /\ \A i \in 1..(n - 1) : i + 1 \in 1..n
        OBVIOUS
    <2>3. 1..n \subseteq {1} \cup {i + 1 : i \in 1..(n - 1)}
        BY <2>1
    <2> QED
        BY <2>2, <2>3
<1>5. Sounds(q) = Range(h.at) \cup Sounds(t)
    <2>1. Sounds(t) = UNION {Range(q[i + 1].at) : i \in 1..(n - 1)}
        BY <1>3 DEF Sounds
    <2>2. Sounds(q) = UNION {Range(q[i].at) : i \in 1..n}
        BY <1>1 DEF Sounds
    <2>3. ASSUME NEW x \in Sounds(q) PROVE x \in Range(h.at) \cup Sounds(t)
        <3>1. PICK i \in 1..n : x \in Range(q[i].at)
            BY <2>2, <2>3
        <3>2. i = 1 \/ \E j \in 1..(n - 1) : i = j + 1
            BY <1>4
        <3> QED
            BY <3>1, <3>2, <2>1, <1>3
    <2>4. 1 \in 1..n /\ \A i \in 1..(n - 1) : i + 1 \in 1..n
        BY <1>4
    <2>5. Range(h.at) \subseteq Sounds(q) /\ Sounds(t) \subseteq Sounds(q)
        BY <2>1, <2>2, <2>4, <1>3
    <2> QED
        BY <2>3, <2>5
<1>6. ASSUME Ordered(q)
      PROVE  Rising(h.at) /\ Ordered(t) /\ Below(Range(h.at), Sounds(t))
    <2>1. \A i \in 1..(n - 1) : i + 1 \in 1..n /\ 1 < i + 1
        OBVIOUS
    <2>2. \A i, j \in 1..(n - 1) : i < j => i + 1 < j + 1
        OBVIOUS
    <2>3. Ordered(t)
        <3>1. \A i \in 1..(n - 1) : Rising(t[i].at)
            BY <2>1, <1>1, <1>3, <1>6 DEF Ordered
        <3>2. \A i, j \in 1..(n - 1) : i < j => Below(Range(t[i].at), Range(t[j].at))
            BY <2>1, <2>2, <1>1, <1>3, <1>6 DEF Ordered
        <3> QED
            BY <3>1, <3>2, <1>3 DEF Ordered
    <2>4. 1 \in 1..n
        OBVIOUS
    <2>5. \A j \in 1..(n - 1) : Below(Range(h.at), Range(t[j].at))
        BY <2>1, <2>4, <1>1, <1>3, <1>6 DEF Ordered
    <2>6. Below(Range(h.at), Sounds(t))
        BY <2>5, <1>3 DEF Below, Sounds
    <2> QED
        BY <2>3, <2>4, <2>6, <1>1, <1>3, <1>6 DEF Ordered
<1>7. ASSUME NEW g, Marked(q, g) PROVE h.gen = g /\ Marked(t, g)
    BY <1>1, <1>3, <1>4, <1>7 DEF Marked
<1> QED
    BY <1>1, <1>2, <1>3, <1>5, <1>6, <1>7

-------------------------------------------------------------------------------
(* What waits for the consumer: deferred items d, queue q and spill s. *)

Spills0 == [gen : Gens, at : Seq(Arrivals)]

Content(d, q, s) == Sounds(d) \cup Sounds(q) \cup Range(s.at)

\* In the order of arrival, all of generation g, nothing later than arrival n.
InLine(d, q, s, g, n) ==
    /\ d \in Seq(Item) /\ q \in Seq(Item) /\ Len(q) <= QueueSize /\ s \in Spills0
    /\ Ordered(d) /\ Ordered(q) /\ Rising(s.at)
    /\ Below(Sounds(d), Sounds(q)) /\ Below(Sounds(d), Range(s.at))
    /\ Below(Sounds(q), Range(s.at))
    /\ Marked(d, g) /\ Marked(q, g) /\ (s.at # << >> => s.gen = g)
    /\ \A m \in Content(d, q, s) : m <= n

\* What the spill holds, and what is left of it when it is flushed.
LEMMA SpillIs ==
    ASSUME NEW s \in Spills0
    PROVE  /\ s.gen \in Gens /\ s.at \in Seq(Arrivals) /\ Range(s.at) \subseteq Arrivals
           /\ Reset(s) \in Spills0 /\ Reset(s).at = << >> /\ Reset(s).gen = s.gen
           /\ Audio(s.gen, s.at) \in Item
<1>1. s.gen \in Gens /\ s.at \in Seq(Arrivals)
    BY DEF Spills0
<1>2. << >> \in Seq(Arrivals)
    BY EmptyIs
<1>3. Reset(s) \in Spills0 /\ Reset(s).at = << >> /\ Reset(s).gen = s.gen
    BY <1>2 DEF Spills0, Reset
<1>4. Audio(s.gen, s.at) \in Item
    BY <1>1 DEF Audio, Item
<1> QED
    BY <1>1, <1>3, <1>4, RangeIs

\* The spill goes behind the queue, or nothing changes.
LEMMA FlushKeeps ==
    ASSUME NEW d, NEW q, NEW s, NEW g, NEW n, InLine(d, q, s, g, n)
    PROVE  /\ InLine(d, FlushedQueue(q, s), FlushedSpill(q, s), g, n)
           /\ Content(d, FlushedQueue(q, s), FlushedSpill(q, s)) = Content(d, q, s)
           /\ FlushedQueue(q, s) = << >> => q = << >>
           /\ FlushedQueue(q, s) = << >> /\ FlushedSpill(q, s).at = << >> => s.at = << >>
<1>1. CASE ~Flushes(q, s)
    BY <1>1 DEF FlushedQueue, FlushedSpill
<1>2. CASE Flushes(q, s)
    <2>1. PICK a, r : a = Append(q, Audio(s.gen, s.at)) /\ r = Reset(s)
        OBVIOUS
    <2>2. FlushedQueue(q, s) = a /\ FlushedSpill(q, s) = r
        BY <1>2, <2>1 DEF FlushedQueue, FlushedSpill
    <2>3. /\ q \in Seq(Item) /\ s \in Spills0 /\ Len(q) \in Nat /\ Len(q) < QueueSize
          /\ Audio(s.gen, s.at) \in Item
        BY <1>2, SpillIs, LenProperties DEF InLine, Flushes
    <2>4. Audio(s.gen, s.at).at = s.at /\ Audio(s.gen, s.at).gen = s.gen
        BY DEF Audio
    <2>5. r \in Spills0 /\ r.at = << >> /\ Range(r.at) = {} /\ Rising(r.at)
        BY <2>1, <2>3, SpillIs, EmptyIs
    <2>6. /\ a \in Seq(Item) /\ Len(a) = Len(q) + 1 /\ a # << >>
          /\ Sounds(a) = Sounds(q) \cup Range(s.at)
        BY <2>1, <2>3, <2>4, ItemsAppend, AppendProperties
    <2>7. Ordered(a)
        BY <2>1, <2>3, <2>4, ItemsAppend DEF InLine
    <2>8. Marked(a, g)
        BY <1>2, <2>1, <2>3, <2>4, ItemsAppend DEF InLine, Flushes
    <2>9. Content(d, a, r) = Content(d, q, s)
        BY <2>5, <2>6 DEF Content
    <2>10. Len(a) <= QueueSize
        BY <2>3, <2>6, Constants
    <2>11. Below(Sounds(d), Sounds(a)) /\ Below(Sounds(d), Range(r.at)) /\ Below(Sounds(a), Range(r.at))
        BY <2>5, <2>6 DEF InLine, Below
    <2>12. InLine(d, a, r, g, n)
        BY <2>5, <2>6, <2>7, <2>8, <2>9, <2>10, <2>11 DEF InLine
    <2> QED
        BY <2>2, <2>6, <2>9, <2>12
<1> QED
    BY <1>1, <1>2

\* The first deferred item is taken.
LEMMA PopDeferred ==
    ASSUME NEW d, NEW q, NEW s, NEW g, NEW n, InLine(d, q, s, g, n), d # << >>
    PROVE  /\ InLine(Tail(d), q, s, g, n) /\ Head(d) \in Item /\ Head(d).gen = g
           /\ Content(d, q, s) = Range(Head(d).at) \cup Content(Tail(d), q, s)
           /\ Rising(Head(d).at) /\ Below(Range(Head(d).at), Content(Tail(d), q, s))
<1>1. d \in Seq(Item) /\ Ordered(d) /\ Marked(d, g)
    BY DEF InLine
<1>2. PICK h, t : h = Head(d) /\ t = Tail(d)
    OBVIOUS
<1>3. /\ h \in Item /\ t \in Seq(Item) /\ Sounds(d) = Range(h.at) \cup Sounds(t)
      /\ Rising(h.at) /\ Ordered(t) /\ Below(Range(h.at), Sounds(t))
      /\ h.gen = g /\ Marked(t, g)
    BY <1>1, <1>2, ItemsTail
<1>4. Content(d, q, s) = Range(h.at) \cup Content(t, q, s)
    BY <1>3 DEF Content
<1>5. Below(Sounds(t), Sounds(q)) /\ Below(Sounds(t), Range(s.at))
    BY <1>3 DEF InLine, Below
<1>6. InLine(t, q, s, g, n)
    BY <1>3, <1>4, <1>5 DEF InLine
<1>7. Below(Range(h.at), Content(t, q, s))
    BY <1>3 DEF InLine, Below, Content
<1> QED
    BY <1>2, <1>3, <1>4, <1>6, <1>7

\* Nothing is deferred: the first item of the queue is taken.
LEMMA PopQueue ==
    ASSUME NEW q, NEW s, NEW g, NEW n, InLine(<< >>, q, s, g, n), q # << >>
    PROVE  /\ InLine(<< >>, Tail(q), s, g, n) /\ Head(q) \in Item /\ Head(q).gen = g
           /\ Content(<< >>, q, s) = Range(Head(q).at) \cup Content(<< >>, Tail(q), s)
           /\ Rising(Head(q).at) /\ Below(Range(Head(q).at), Content(<< >>, Tail(q), s))
<1>1. q \in Seq(Item) /\ Ordered(q) /\ Marked(q, g) /\ Len(q) <= QueueSize
    BY DEF InLine
<1>2. PICK h, t : h = Head(q) /\ t = Tail(q)
    OBVIOUS
<1>3. /\ h \in Item /\ t \in Seq(Item) /\ Sounds(q) = Range(h.at) \cup Sounds(t)
      /\ Rising(h.at) /\ Ordered(t) /\ Below(Range(h.at), Sounds(t))
      /\ h.gen = g /\ Marked(t, g)
    BY <1>1, <1>2, ItemsTail
<1>4. Len(t) = Len(q) - 1 /\ Len(q) \in Nat
    BY <1>1, <1>2, ItemsTail
<1>5. Len(t) <= QueueSize
    BY <1>1, <1>4, Constants
<1>6. Content(<< >>, q, s) = Range(h.at) \cup Content(<< >>, t, s)
    BY <1>3, NoItems DEF Content
<1>7. Below(Sounds(<< >>), Sounds(t)) /\ Below(Sounds(t), Range(s.at))
    BY <1>3, NoItems DEF InLine, Below
<1>8. InLine(<< >>, t, s, g, n)
    BY <1>3, <1>5, <1>6, <1>7 DEF InLine
<1>9. Below(Range(h.at), Content(<< >>, t, s))
    BY <1>3, NoItems DEF InLine, Below, Content
<1> QED
    BY <1>2, <1>3, <1>6, <1>8, <1>9

\* The next item is taken, with the spill flushed before and after.
LEMMA TakeItem ==
    ASSUME NEW g, NEW n, HasItem, InLine(deferred, queue, spill, g, n)
    PROVE  /\ InLine(LeftDeferred, LeftQueue, LeftSpill, g, n)
           /\ NextItem \in Item /\ NextItem.gen = g
           /\ Content(deferred, queue, spill) =
                  Range(NextItem.at) \cup Content(LeftDeferred, LeftQueue, LeftSpill)
           /\ Rising(NextItem.at)
           /\ Below(Range(NextItem.at), Content(LeftDeferred, LeftQueue, LeftSpill))
<1>1. PICK q, s : q = TopQueue /\ s = TopSpill
    OBVIOUS
<1>2. InLine(deferred, q, s, g, n) /\ Content(deferred, q, s) = Content(deferred, queue, spill)
    BY <1>1, FlushKeeps DEF TopQueue, TopSpill
<1>3. CASE deferred # << >>
    <2>1. /\ InLine(Tail(deferred), q, s, g, n) /\ Head(deferred) \in Item
          /\ Head(deferred).gen = g
          /\ Content(deferred, q, s) = Range(Head(deferred).at) \cup Content(Tail(deferred), q, s)
          /\ Rising(Head(deferred).at)
          /\ Below(Range(Head(deferred).at), Content(Tail(deferred), q, s))
        BY <1>2, <1>3, PopDeferred
    <2>2. /\ NextItem = Head(deferred) /\ LeftDeferred = Tail(deferred)
          /\ LeftQueue = FlushedQueue(q, s) /\ LeftSpill = FlushedSpill(q, s)
        BY <1>1, <1>3 DEF NextItem, LeftDeferred, LeftQueue, LeftSpill, OpenQueue
    <2>3. /\ InLine(LeftDeferred, LeftQueue, LeftSpill, g, n)
          /\ Content(LeftDeferred, LeftQueue, LeftSpill) = Content(Tail(deferred), q, s)
        BY <2>1, <2>2, FlushKeeps
    <2> QED
        BY <1>2, <2>1, <2>2, <2>3
<1>4. CASE deferred = << >>
    <2>1. q # << >> /\ InLine(<< >>, q, s, g, n)
        BY <1>1, <1>2, <1>4 DEF HasItem
    <2>2. /\ InLine(<< >>, Tail(q), s, g, n) /\ Head(q) \in Item /\ Head(q).gen = g
          /\ Content(<< >>, q, s) = Range(Head(q).at) \cup Content(<< >>, Tail(q), s)
          /\ Rising(Head(q).at)
          /\ Below(Range(Head(q).at), Content(<< >>, Tail(q), s))
        BY <2>1, PopQueue
    <2>3. /\ NextItem = Head(q) /\ LeftDeferred = << >>
          /\ LeftQueue = FlushedQueue(Tail(q), s) /\ LeftSpill = FlushedSpill(Tail(q), s)
        BY <1>1, <1>4 DEF NextItem, LeftDeferred, LeftQueue, LeftSpill, OpenQueue
    <2>4. /\ InLine(LeftDeferred, LeftQueue, LeftSpill, g, n)
          /\ Content(LeftDeferred, LeftQueue, LeftSpill) = Content(<< >>, Tail(q), s)
        BY <2>2, <2>3, FlushKeeps
    <2> QED
        BY <1>2, <1>4, <2>2, <2>3, <2>4
<1> QED
    BY <1>3, <1>4

\* One item is put in front of the deferred ones.
LEMMA ItemsFront ==
    ASSUME NEW d \in Seq(Item), NEW item \in Item
    PROVE  /\ << item >> \o d \in Seq(Item)
           /\ Sounds(<< item >> \o d) = Range(item.at) \cup Sounds(d)
           /\ Ordered(d) /\ Rising(item.at) /\ Below(Range(item.at), Sounds(d)) =>
                  Ordered(<< item >> \o d)
           /\ \A g : Marked(d, g) /\ item.gen = g => Marked(<< item >> \o d, g)
<1>1. PICK n \in Nat : n = Len(d)
    BY LenProperties
<1>2. PICK r : r = << item >> \o d
    OBVIOUS
<1>3. << item >> \in Seq(Item) /\ Len(<< item >>) = 1 /\ << item >>[1] = item
    OBVIOUS
<1>4. r \in Seq(Item) /\ Len(r) = 1 + n
    BY <1>1, <1>2, <1>3, ConcatProperties
<1>5. \A i \in 1..(1 + n) : r[i] = IF i <= 1 THEN << item >>[i] ELSE d[i - 1]
    BY <1>1, <1>2, <1>3, ConcatProperties
<1>6. r[1] = item
    BY <1>3, <1>5
<1>7. \A i \in 1..n : r[i + 1] = d[i]
    <2>1. \A i \in 1..n : i + 1 \in 1..(1 + n) /\ ~(i + 1 <= 1) /\ (i + 1) - 1 = i
        OBVIOUS
    <2> QED
        BY <1>5, <2>1
<1>8. \A i \in 1..(1 + n) : i = 1 \/ \E j \in 1..n : i = j + 1
    <2>1. \A i \in 1..(1 + n) : i = 1 \/ (i - 1 \in 1..n /\ i = (i - 1) + 1)
        OBVIOUS
    <2> QED
        BY <2>1
<1>9. 1 \in 1..(1 + n) /\ \A j \in 1..n : j + 1 \in 1..(1 + n)
    OBVIOUS
<1>10. Sounds(r) = Range(item.at) \cup Sounds(d)
    <2>1. Sounds(r) \subseteq Range(item.at) \cup Sounds(d)
        BY <1>1, <1>4, <1>6, <1>7, <1>8 DEF Sounds
    <2>2. Range(item.at) \subseteq Sounds(r)
        BY <1>4, <1>6, <1>9 DEF Sounds
    <2>3. Sounds(d) \subseteq Sounds(r)
        <3>1. ASSUME NEW x \in Sounds(d) PROVE x \in Sounds(r)
            <4>1. PICK j \in 1..n : x \in Range(d[j].at)
                BY <1>1, <3>1 DEF Sounds
            <4>2. x \in Range(r[j + 1].at) /\ j + 1 \in 1..(1 + n)
                BY <4>1, <1>7, <1>9
            <4> QED
                BY <4>2, <1>4 DEF Sounds
        <3> QED
            BY <3>1
    <2> QED
        BY <2>1, <2>2, <2>3
<1>11. ASSUME Ordered(d), Rising(item.at), Below(Range(item.at), Sounds(d)) PROVE Ordered(r)
    <2>1. ASSUME NEW i \in 1..(1 + n) PROVE Rising(r[i].at)
        BY <1>1, <1>6, <1>7, <1>8, <1>11 DEF Ordered
    <2>2. ASSUME NEW i \in 1..(1 + n), NEW j \in 1..(1 + n), i < j
          PROVE  Below(Range(r[i].at), Range(r[j].at))
        <3>1. PICK b \in 1..n : j = b + 1
            BY <2>2, <1>8
        <3>2. Range(d[b].at) \subseteq Sounds(d) /\ r[j] = d[b]
            BY <3>1, <1>1, <1>7 DEF Sounds
        <3>3. CASE i = 1
            BY <3>3, <3>2, <1>6, <1>11 DEF Below
        <3>4. CASE i # 1
            <4>1. PICK a \in 1..n : i = a + 1
                BY <3>4, <1>8
            <4>2. a < b /\ r[i] = d[a]
                BY <4>1, <3>1, <2>2, <1>7
            <4> QED
                BY <4>2, <3>2, <1>1, <1>11 DEF Ordered
        <3> QED
            BY <3>3, <3>4
    <2> QED
        BY <2>1, <2>2, <1>4 DEF Ordered
<1>12. ASSUME NEW g, Marked(d, g), item.gen = g PROVE Marked(r, g)
    BY <1>1, <1>4, <1>6, <1>7, <1>8, <1>12 DEF Marked
<1> QED
    BY <1>2, <1>4, <1>10, <1>11, <1>12

\* The rest of a batch goes back in front.
LEMMA PutFront ==
    ASSUME NEW d, NEW q, NEW s, NEW g \in Gens, NEW n, InLine(d, q, s, g, n),
           NEW r \in Seq(Arrivals), Rising(r), Below(Range(r), Content(d, q, s)),
           \A m \in Range(r) : m <= n
    PROVE  /\ InLine(<< Audio(g, r) >> \o d, q, s, g, n)
           /\ Content(<< Audio(g, r) >> \o d, q, s) = Range(r) \cup Content(d, q, s)
<1>1. PICK item : item = Audio(g, r)
    OBVIOUS
<1>2. item \in Item /\ item.at = r /\ item.gen = g
    BY <1>1 DEF Audio, Item
<1>3. PICK e : e = << item >> \o d
    OBVIOUS
<1>4. d \in Seq(Item) /\ Ordered(d) /\ Marked(d, g) /\ Below(Range(r), Sounds(d))
    BY DEF InLine, Below, Content
<1>5. e \in Seq(Item) /\ Sounds(e) = Range(r) \cup Sounds(d) /\ Ordered(e) /\ Marked(e, g)
    BY <1>2, <1>3, <1>4, ItemsFront
<1>6. Content(e, q, s) = Range(r) \cup Content(d, q, s)
    BY <1>5 DEF Content
<1>7. Below(Sounds(e), Sounds(q)) /\ Below(Sounds(e), Range(s.at))
    BY <1>5 DEF InLine, Below, Content
<1>8. InLine(e, q, s, g, n)
    BY <1>5, <1>6, <1>7 DEF InLine
<1> QED
    BY <1>1, <1>3, <1>6, <1>8

\* The newest samples of the held tail and what comes behind it.
LEMMA RollIs ==
    ASSUME NEW roll \in Seq(Arrivals), NEW part \in Seq(Arrivals)
    PROVE  /\ Roll(roll, part) \in Seq(Arrivals) /\ Len(Roll(roll, part)) <= PreRollSize
           /\ Range(Roll(roll, part)) \subseteq Range(roll) \cup Range(part)
           /\ Rising(roll) /\ Rising(part) /\ Below(Range(roll), Range(part)) =>
                  Rising(Roll(roll, part))
<1>1. PICK all : all = roll \o part
    OBVIOUS
<1>2. /\ all \in Seq(Arrivals) /\ Range(all) = Range(roll) \cup Range(part)
      /\ (Rising(all) <=> Rising(roll) /\ Rising(part) /\ Below(Range(roll), Range(part)))
    <2>2. /\ roll \o part \in Seq(Arrivals)
          /\ Range(roll \o part) = Range(roll) \cup Range(part)
          /\ (Rising(roll \o part) <=>
                  Rising(roll) /\ Rising(part) /\ Below(Range(roll), Range(part)))
        BY BehindIs
    <2> QED
        BY <1>1, <2>2
<1>3. PICK n \in Nat : n = Len(all)
    BY <1>2, LenProperties
<1>4. PICK k : k = Less(n, PreRollSize)
    OBVIOUS
<1>5. k \in 0..n /\ n - k <= PreRollSize
    BY <1>4, Constants DEF Less
<1>6. Roll(roll, part) = SubSeq(all, k + 1, Len(all))
    BY <1>1, <1>3, <1>4 DEF Roll, Newest
<1>7. PICK new : new = SubSeq(all, k + 1, Len(all))
    OBVIOUS
<1>8. /\ new \in Seq(Arrivals) /\ Len(new) = Len(all) - k /\ Range(new) \subseteq Range(all)
      /\ Rising(all) => Rising(new)
    <2>1. Arrivals \subseteq Nat /\ k \in 0..Len(all)
        BY <1>3, <1>5, Constants
    <2>2. /\ SubSeq(all, k + 1, Len(all)) \in Seq(Arrivals)
          /\ Len(SubSeq(all, k + 1, Len(all))) = Len(all) - k
          /\ Range(all) =
                 Range(SubSeq(all, 1, k)) \cup Range(SubSeq(all, k + 1, Len(all)))
          /\ Rising(all) => Rising(SubSeq(all, k + 1, Len(all)))
        <3>1. all \in Seq(Arrivals)
            BY <1>2
        <3> QED
            BY ONLY <3>1, <2>1, SplitIs
    <2> QED
        BY <1>7, <2>2
<1> QED
    BY <1>2, <1>3, <1>5, <1>6, <1>7, <1>8

\* Of items of this session all the audio is its own.
LEMMA OwnIs ==
    ASSUME NEW q \in Seq(Item), NEW k \in 0..Len(q), Marked(q, gen)
    PROVE  Own(q, k) = Frames(q, k)
<1>1. k \in Nat /\ 1..k \subseteq 1..Len(q)
    BY LenProperties
<1>2. \A i \in 1..k : q[i].gen = gen
    BY <1>1 DEF Marked
<1>3. [i \in 1..k |-> IF q[i].gen = gen THEN q[i].at ELSE << >>] = [i \in 1..k |-> q[i].at]
    BY <1>2
<1> QED
    BY <1>3 DEF Own, Frames

\* A silence span at the head of the queue waits as the only deferred item.
LEMMA ShiftSpan ==
    ASSUME NEW q, NEW s, NEW g, NEW n, InLine(<< >>, q, s, g, n), q # << >>
    PROVE  /\ InLine(Append(<< >>, Head(q)), Tail(q), s, g, n)
           /\ Content(Append(<< >>, Head(q)), Tail(q), s) = Content(<< >>, q, s)
<1>1. PICK h, t : h = Head(q) /\ t = Tail(q)
    OBVIOUS
<1>2. /\ InLine(<< >>, t, s, g, n) /\ h \in Item /\ h.gen = g
      /\ Content(<< >>, q, s) = Range(h.at) \cup Content(<< >>, t, s)
      /\ Rising(h.at) /\ Below(Range(h.at), Content(<< >>, t, s))
    BY <1>1, PopQueue
<1>3. PICK d : d = Append(<< >>, h)
    OBVIOUS
<1>4. Below(Sounds(<< >>), Range(h.at))
    BY NoItems DEF Below
<1>5. /\ d \in Seq(Item) /\ Sounds(d) = Sounds(<< >>) \cup Range(h.at)
      /\ Ordered(d) /\ Marked(d, g)
    BY <1>2, <1>3, <1>4, NoItems, ItemsAppend
<1>6. Sounds(d) = Range(h.at)
    BY <1>5, NoItems
<1>7. Content(d, t, s) = Content(<< >>, q, s)
    BY <1>2, <1>6, NoItems DEF Content
<1>8. Below(Sounds(d), Sounds(t)) /\ Below(Sounds(d), Range(s.at))
    BY <1>2, <1>6 DEF Below, Content
<1>9. \A m \in Content(<< >>, q, s) : m <= n
    BY DEF InLine
<1>10. InLine(d, t, s, g, n)
    BY <1>2, <1>5, <1>7, <1>8, <1>9 DEF InLine
<1> QED
    BY <1>1, <1>3, <1>7, <1>10

\* The first k items of the queue are taken, with nothing deferred.
LEMMA CutQueue ==
    ASSUME NEW q, NEW s, NEW g, NEW n, InLine(<< >>, q, s, g, n), NEW k \in 0..Len(q)
    PROVE  /\ InLine(<< >>, SubSeq(q, k + 1, Len(q)), s, g, n)
           /\ Frames(q, k) \in Seq(Arrivals) /\ Rising(Frames(q, k))
           /\ Content(<< >>, q, s) =
                  Range(Frames(q, k)) \cup Content(<< >>, SubSeq(q, k + 1, Len(q)), s)
           /\ Below(Range(Frames(q, k)), Content(<< >>, SubSeq(q, k + 1, Len(q)), s))
<1>1. PICK front, rest : front = Frames(q, k) /\ rest = SubSeq(q, k + 1, Len(q))
    OBVIOUS
<1>2. q \in Seq(Item) /\ Ordered(q) /\ Marked(q, g) /\ Len(q) <= QueueSize /\ Len(q) \in Nat
    BY LenProperties DEF InLine
<1>3. /\ front \in Seq(Arrivals) /\ rest \in Seq(Item) /\ Len(rest) = Len(q) - k
      /\ Sounds(q) = Range(front) \cup Sounds(rest)
      /\ Rising(front) /\ Ordered(rest) /\ Below(Range(front), Sounds(rest))
      /\ Marked(rest, g)
    BY <1>1, <1>2, ItemsCut
<1>4. Len(rest) <= QueueSize
    BY <1>2, <1>3, Constants
<1>5. Content(<< >>, q, s) = Range(front) \cup Content(<< >>, rest, s)
    BY <1>3 DEF Content
<1>6. Below(Sounds(<< >>), Sounds(rest)) /\ Below(Sounds(rest), Range(s.at))
    BY <1>3, NoItems DEF InLine, Below
<1>7. InLine(<< >>, rest, s, g, n)
    BY <1>3, <1>4, <1>5, <1>6 DEF InLine
<1>8. Below(Range(front), Content(<< >>, rest, s))
    BY <1>3, NoItems DEF InLine, Below, Content
<1> QED
    BY <1>1, <1>3, <1>5, <1>7, <1>8

\* The item behind the first k of the queue, and what is behind it.
LEMMA NextOf ==
    ASSUME NEW q \in Seq(Item), NEW k \in 0..Len(q), k < Len(q)
    PROVE  /\ SubSeq(q, k + 1, Len(q)) # << >>
           /\ Head(SubSeq(q, k + 1, Len(q))) = q[k + 1]
           /\ Tail(SubSeq(q, k + 1, Len(q))) = SubSeq(q, k + 2, Len(q))
<1>1. PICK n \in Nat : n = Len(q)
    BY LenProperties
<1>2. PICK r, t : r = SubSeq(q, k + 1, Len(q)) /\ t = SubSeq(q, k + 2, Len(q))
    OBVIOUS
<1>3. /\ r \in Seq(Item) /\ Len(r) = n - k
      /\ \A i \in 1..(n - k) : r[i] = q[(k + 1) + i - 1]
    <2>1. k + 1 \in 1..(Len(q) + 1) /\ n - (k + 1) + 1 = n - k
        BY <1>1
    <2>2. PICK m \in 1..(Len(q) + 1) : m = k + 1
        BY <2>1
    <2>3. /\ SubSeq(q, m, Len(q)) \in Seq(Item)
          /\ Len(SubSeq(q, m, Len(q))) = Len(q) - m + 1
          /\ \A i \in 1..(Len(q) - m + 1) : SubSeq(q, m, Len(q))[i] = q[m + i - 1]
        BY ONLY q \in Seq(Item), <2>2, RestIs
    <2> QED
        BY ONLY <1>1, <1>2, <2>1, <2>2, <2>3
<1>4. /\ t \in Seq(Item) /\ Len(t) = n - (k + 1)
      /\ \A i \in 1..(n - (k + 1)) : t[i] = q[(k + 2) + i - 1]
    <2>1. k + 2 \in 1..(Len(q) + 1) /\ n - (k + 2) + 1 = n - (k + 1)
        BY <1>1
    <2>2. PICK m \in 1..(Len(q) + 1) : m = k + 2
        BY <2>1
    <2>3. /\ SubSeq(q, m, Len(q)) \in Seq(Item)
          /\ Len(SubSeq(q, m, Len(q))) = Len(q) - m + 1
          /\ \A i \in 1..(Len(q) - m + 1) : SubSeq(q, m, Len(q))[i] = q[m + i - 1]
        BY ONLY q \in Seq(Item), <2>2, RestIs
    <2> QED
        BY ONLY <1>1, <1>2, <2>1, <2>2, <2>3
<1>5. Len(r) # 0
    BY <1>1, <1>3
<1>6. r # << >>
    BY <1>5, EmptySeq
<1>7. /\ Head(r) = r[1] /\ Tail(r) \in Seq(Item) /\ Len(Tail(r)) = Len(r) - 1
      /\ \A i \in 1..Len(Tail(r)) : Tail(r)[i] = r[i + 1]
    BY <1>3, <1>6, HeadTailIs
<1>8. 1 \in 1..(n - k) /\ (k + 1) + 1 - 1 = k + 1
    BY <1>1
<1>9. Head(r) = q[k + 1]
    BY <1>3, <1>7, <1>8
<1>10. Len(Tail(r)) = Len(t)
    BY <1>3, <1>4, <1>7
<1>11. ASSUME NEW i \in 1..(n - (k + 1)) PROVE Tail(r)[i] = t[i]
    <2>1. i + 1 \in 1..(n - k) /\ (k + 1) + (i + 1) - 1 = (k + 2) + i - 1
        BY <1>1
    <2> QED
        BY <2>1, <1>3, <1>4, <1>7, <1>10
<1>12. Tail(r) = t
    BY <1>4, <1>7, <1>10, <1>11, SeqEqual
<1> QED
    BY <1>2, <1>6, <1>9, <1>12

\* Behind a deferred item nothing is pulled.
LEMMA PullNothing ==
    ASSUME NEW q \in Seq(Item)
    PROVE  Frames(q, 0) = << >> /\ SubSeq(q, 0 + 1, Len(q)) = q
<1>1. Frames(q, 0) = << >>
    <2>1. [i \in 1..0 |-> q[i].at] = << >>
        OBVIOUS
    <2>2. FlattenSeq(<< >>) = << >>
        BY DEF FlattenSeq
    <2> QED
        BY <2>1, <2>2 DEF Frames
<1>2. PICK n \in Nat : n = Len(q)
    BY LenProperties
<1>3. PICK r : r = SubSeq(q, 0 + 1, Len(q))
    OBVIOUS
<1>4. r \in Seq(Item) /\ Len(r) = n /\ \A i \in 1..n : r[i] = q[i]
    BY <1>2, <1>3, SubSeqProperties
<1>5. r = q
    BY <1>2, <1>4, SeqEqual
<1> QED
    BY <1>1, <1>3, <1>5

\* A batch is the next part of what waits, and what is put back waits again.
LEMMA Pulled ==
    ASSUME NEW target, NEW k \in Nat, NEW kept \in Nat, TakeAudio(target, k, kept),
           NEW n, InLine(deferred, queue, spill, gen, n), gen \in Gens, samples \in Nat
    PROVE  /\ samples' \in Nat
           /\ \E part \in Seq(Arrivals) :
                  /\ Rising(part) /\ (Skip(part) \/ Decode(part))
                  /\ InLine(deferred', queue', spill', gen, n)
                  /\ Content(deferred, queue, spill) =
                         Range(part) \cup Content(deferred', queue', spill')
                  /\ Below(Range(part), Content(deferred', queue', spill'))
<1>1. PICK d, q, s, at : /\ d = LeftDeferred /\ q = LeftQueue /\ s = LeftSpill
                         /\ at = NextItem.at
    OBVIOUS
<1>2. PICK e, r, u, g : e = deferred' /\ r = queue' /\ u = spill' /\ g = gen
    OBVIOUS
<1>3. /\ InLine(d, q, s, g, n) /\ NextItem \in Item
      /\ Content(deferred, queue, spill) = Range(at) \cup Content(d, q, s)
      /\ Rising(at) /\ Below(Range(at), Content(d, q, s))
    <2>1. HasItem
        BY DEF TakeAudio
    <2> QED
        BY <1>1, <1>2, <2>1, TakeItem
<1>4. at \in Seq(Arrivals)
    BY <1>1, <1>3, ItemIs
<1>5. d \in Seq(Item) /\ q \in Seq(Item) /\ Marked(q, gen) /\ Len(q) \in Nat
    BY <1>2, <1>3, LenProperties DEF InLine
<1>6. k \in 0..Len(q) /\ (d # << >> => k = 0)
    BY <1>1, <1>5 DEF TakeAudio, MayPull
<1>7. PICK front, all : front = Frames(q, k) /\ all = at \o front
    OBVIOUS
<1>8. Own(q, k) = front
    BY <1>5, <1>6, <1>7, OwnIs
<1>9. PICK span : span = (MayPull(d) /\ Len(all) < target /\ k < Len(q))
    OBVIOUS
<1>10. PICK behind : behind = IF span THEN Append(d, q[k + 1]) ELSE d
    OBVIOUS
<1>11. PICK part, rest : part = SubSeq(all, 1, kept) /\ rest = SubSeq(all, kept + 1, Len(all))
    OBVIOUS
<1>12. /\ kept <= Len(all) /\ (Skip(part) \/ Decode(part)) /\ u = s
       /\ r = SubSeq(q, k + 1 + (IF span THEN 1 ELSE 0), Len(q))
       /\ e = IF rest = << >> THEN behind ELSE PutBack(<< Audio(g, rest) >>, behind)
    BY <1>1, <1>2, <1>7, <1>8, <1>9, <1>10, <1>11 DEF TakeAudio
<1>13. /\ InLine(behind, r, s, g, n) /\ front \in Seq(Arrivals) /\ Rising(front)
       /\ Content(d, q, s) = Range(front) \cup Content(behind, r, s)
       /\ Below(Range(front), Content(behind, r, s))
    <2>1. CASE d # << >>
        <3>1. k = 0 /\ ~span
            BY <1>6, <1>9, <2>1 DEF MayPull
        <3>2. front = << >> /\ r = q /\ behind = d
            BY <3>1, <1>5, <1>7, <1>10, <1>12, PullNothing
        <3> QED
            BY <3>2, <1>3, EmptyIs DEF Below
    <2>2. CASE d = << >>
        <3>1. PICK c : c = SubSeq(q, k + 1, Len(q))
            OBVIOUS
        <3>2. /\ InLine(<< >>, c, s, g, n) /\ front \in Seq(Arrivals) /\ Rising(front)
              /\ Content(<< >>, q, s) = Range(front) \cup Content(<< >>, c, s)
              /\ Below(Range(front), Content(<< >>, c, s))
            BY <1>3, <1>6, <1>7, <2>2, <3>1, CutQueue
        <3>3. CASE ~span
            <4>1. r = c /\ behind = << >>
                BY <1>6, <1>10, <1>12, <2>2, <3>1, <3>3
            <4> QED
                BY <2>2, <3>2, <4>1
        <3>4. CASE span
            <4>1. k < Len(q) /\ k \in Nat /\ Len(q) \in Nat /\ (k + 1) + 1 = k + 2
                <5>1. k < Len(q)
                    BY <1>9, <3>4
                <5>2. k \in Nat /\ Len(q) \in Nat /\ (k + 1) + 1 = k + 2
                    BY <1>5
                <5> QED
                    BY <5>1, <5>2
            <4>2. c # << >> /\ Head(c) = q[k + 1] /\ Tail(c) = SubSeq(q, k + 2, Len(q))
                BY <1>5, <1>6, <3>1, <4>1, NextOf
            <4>3. r = Tail(c) /\ behind = Append(<< >>, Head(c))
                BY <1>10, <1>12, <2>2, <3>4, <4>1, <4>2
            <4>4. InLine(behind, r, s, g, n) /\ Content(behind, r, s) = Content(<< >>, c, s)
                BY <3>2, <4>2, <4>3, ShiftSpan
            <4> QED
                BY <2>2, <3>2, <4>4
        <3> QED
            BY <3>3, <3>4
    <2> QED
        BY <2>1, <2>2
<1>14. PICK W : W = Content(behind, r, s)
    OBVIOUS
<1>15. /\ all \in Seq(Arrivals) /\ Range(all) = Range(at) \cup Range(front)
       /\ Rising(all) /\ Below(Range(all), W)
    <2>1. Arrivals \subseteq Nat
        BY Constants
    <2>2. Below(Range(at), Range(front))
        BY <1>3, <1>13 DEF Below
    <2>3. /\ at \o front \in Seq(Arrivals)
          /\ Range(at \o front) = Range(at) \cup Range(front)
          /\ (Rising(at \o front) <=>
                  Rising(at) /\ Rising(front) /\ Below(Range(at), Range(front)))
        BY <1>4, <1>13, BehindIs
    <2>4. Below(Range(at) \cup Range(front), W)
        BY <1>3, <1>13, <1>14 DEF Below
    <2> QED
        BY <1>3, <1>7, <1>13, <2>2, <2>3, <2>4
<1>16. /\ part \in Seq(Arrivals) /\ rest \in Seq(Arrivals)
       /\ Range(all) = Range(part) \cup Range(rest)
       /\ Rising(part) /\ Rising(rest) /\ Below(Range(part), Range(rest))
    <2>1. Arrivals \subseteq Nat /\ kept \in 0..Len(all)
        BY <1>12, <1>15, Constants, LenProperties
    <2>2. /\ SubSeq(all, 1, kept) \in Seq(Arrivals)
          /\ SubSeq(all, kept + 1, Len(all)) \in Seq(Arrivals)
          /\ Range(all) = Range(SubSeq(all, 1, kept)) \cup Range(SubSeq(all, kept + 1, Len(all)))
          /\ Rising(all) => /\ Rising(SubSeq(all, 1, kept))
                            /\ Rising(SubSeq(all, kept + 1, Len(all)))
                            /\ Below(Range(SubSeq(all, 1, kept)),
                                     Range(SubSeq(all, kept + 1, Len(all))))
        <3>1. all \in Seq(Arrivals)
            BY <1>15
        <3> QED
            BY ONLY <3>1, <2>1, SplitIs
    <2> QED
        BY <1>11, <1>15, <2>2
<1>17. /\ InLine(e, r, s, g, n) /\ Content(e, r, s) = Range(rest) \cup W
    <2>1. CASE rest = << >>
        BY <2>1, <1>12, <1>13, <1>14, EmptyIs
    <2>2. CASE rest # << >>
        <3>1. e = << Audio(g, rest) >> \o behind
            BY <2>2, <1>12 DEF PutBack
        <3>2. \A m \in Content(deferred, queue, spill) : m <= n
            BY DEF InLine
        <3>3. \A m \in Range(rest) : m <= n
            BY <3>2, <1>3, <1>13, <1>15, <1>16
        <3>4. Below(Range(rest), Content(behind, r, s))
            BY <1>14, <1>15, <1>16 DEF Below
        <3>5. g \in Gens
            BY <1>2
        <3>6. /\ InLine(<< Audio(g, rest) >> \o behind, r, s, g, n)
              /\ Content(<< Audio(g, rest) >> \o behind, r, s) =
                     Range(rest) \cup Content(behind, r, s)
            BY <1>13, <1>16, <3>3, <3>4, <3>5, PutFront
        <3> QED
            BY <3>1, <3>6, <1>14
    <2> QED
        BY <2>1, <2>2
<1>18. Content(deferred, queue, spill) = Range(part) \cup Content(e, r, s)
    BY <1>3, <1>13, <1>14, <1>15, <1>16, <1>17
<1>19. Below(Range(part), Content(e, r, s))
    BY <1>15, <1>16, <1>17 DEF Below
<1>20. samples' \in Nat
    <2>1. samples' = Less(samples, Size(NextItem) + PulledCount(q, k)) + Len(rest)
        BY <1>1, <1>7, <1>8, <1>11 DEF TakeAudio
    <2>2. Len(rest) \in Nat /\ Len(front) \in Nat /\ Len(NextItem.at) \in Nat
        BY <1>1, <1>4, <1>13, <1>16, LenProperties
    <2>3. PulledCount(q, k) = Len(front)
        BY <1>7 DEF PulledCount
    <2>4. Size(NextItem) \in Nat
        BY <2>2 DEF Size
    <2>5. PICK a \in Nat, b \in Nat : a = Size(NextItem) /\ b = PulledCount(q, k)
        BY <2>2, <2>3, <2>4
    <2>6. PICK j \in Nat : j = Size(NextItem) + PulledCount(q, k)
        BY <2>5
    <2>7. PICK l \in Nat : l = Len(rest)
        BY <2>2
    <2>8. samples \in Nat
        OBVIOUS
    <2>9. Less(samples, j) + l \in Nat
        BY <2>8 DEF Less
    <2> QED
        BY <2>1, <2>6, <2>7, <2>9
<1> QED
    BY <1>2, <1>12, <1>16, <1>17, <1>18, <1>19, <1>20

-------------------------------------------------------------------------------
(* The silence spans in a row of items. *)

Spans(items) == {item \in Range(items) : ~item.audio}

\* Behind a row: its spans, and the item when it is one.
LEMMA SpansAppend ==
    ASSUME NEW q \in Seq(Item), NEW item \in Item
    PROVE  Spans(Append(q, item)) = Spans(q) \cup {it \in {item} : ~it.audio}
<1>1. PICK n \in Nat : n = Len(q)
    BY LenProperties
<1>2. PICK r : r = Append(q, item)
    OBVIOUS
<1>3. /\ r \in Seq(Item) /\ Len(r) = n + 1 /\ r[n + 1] = item
      /\ \A i \in 1..n : r[i] = q[i]
    BY <1>1, <1>2, AppendProperties
<1>4. 1..(n + 1) = (1..n) \cup {n + 1}
    OBVIOUS
<1>5. Range(r) = {r[i] : i \in 1..(n + 1)} /\ Range(q) = {q[i] : i \in 1..n}
    BY <1>1, <1>3, RangeIs
<1>6. Range(r) = Range(q) \cup {item}
    BY <1>3, <1>4, <1>5
<1> QED
    BY <1>2, <1>6 DEF Spans

\* Without the first item no span is new.
LEMMA SpansTail ==
    ASSUME NEW q \in Seq(Item), q # << >>
    PROVE  /\ Spans(Tail(q)) \subseteq Spans(q)
           /\ ~Head(q).audio => Head(q) \in Spans(q)
<1>1. /\ Len(q) \in Nat \ {0} /\ Head(q) = q[1] /\ Tail(q) \in Seq(Item)
      /\ Len(Tail(q)) = Len(q) - 1
      /\ \A i \in 1..Len(Tail(q)) : Tail(q)[i] = q[i + 1]
    BY HeadTailIs
<1>2. /\ Range(q) = {q[i] : i \in 1..Len(q)}
      /\ Range(Tail(q)) = {Tail(q)[i] : i \in 1..Len(Tail(q))}
    BY <1>1, RangeIs
<1>3. 1 \in 1..Len(q) /\ \A i \in 1..(Len(q) - 1) : i + 1 \in 1..Len(q)
    BY <1>1
<1>4. Head(q) \in Range(q) /\ Range(Tail(q)) \subseteq Range(q)
    BY <1>1, <1>2, <1>3
<1> QED
    BY <1>4 DEF Spans

\* Behind the first k items no span is new.
LEMMA SpansCut ==
    ASSUME NEW q \in Seq(Item), NEW k \in 0..Len(q)
    PROVE  Spans(SubSeq(q, k + 1, Len(q))) \subseteq Spans(q)
<1>1. PICK n \in Nat : n = Len(q)
    BY LenProperties
<1>2. PICK r : r = SubSeq(q, k + 1, Len(q))
    OBVIOUS
<1>3. /\ r \in Seq(Item) /\ Len(r) = n - k
      /\ \A i \in 1..(n - k) : r[i] = q[(k + 1) + i - 1]
    <2>1. \A i \in (k + 1)..n : q[i] \in Item
        BY <1>1
    <2>2. /\ k + 1 \in Int /\ n \in Int /\ n - (k + 1) + 1 = n - k
          /\ (IF k + 1 <= n THEN n - (k + 1) + 1 ELSE 0) = n - k
        BY <1>1
    <2> QED
        BY <1>1, <1>2, <2>1, <2>2, SubSeqProperties
<1>4. /\ Range(r) = {r[i] : i \in 1..(n - k)} /\ Range(q) = {q[i] : i \in 1..n}
    BY <1>1, <1>3, RangeIs
<1>5. \A i \in 1..(n - k) : (k + 1) + i - 1 \in 1..n
    BY <1>1
<1>6. Range(r) \subseteq Range(q)
    BY <1>3, <1>4, <1>5
<1> QED
    BY <1>2, <1>6 DEF Spans

\* In front of a row: an audio item adds no span.
LEMMA SpansFront ==
    ASSUME NEW d \in Seq(Item), NEW item \in Item, item.audio
    PROVE  Spans(<< item >> \o d) = Spans(d)
<1>1. << item >> \in Seq(Item) /\ Len(<< item >>) = 1 /\ << item >>[1] = item
    OBVIOUS
<1>2. PICK one : one = << item >>
    OBVIOUS
<1>3. one \in Seq(Item) /\ Range(one) = {item}
    <2>1. one \in Seq(Item) /\ Len(one) = 1 /\ one[1] = item
        BY <1>1, <1>2
    <2>2. Range(one) = {one[i] : i \in 1..Len(one)}
        BY <2>1, RangeIs
    <2> QED
        BY <2>1, <2>2
<1>4. Range(one \o d) = Range(one) \cup Range(d)
    BY <1>3, RangeConcatenation
<1> QED
    BY <1>2, <1>3, <1>4 DEF Spans

\* The spill is audio: no span is new when it is flushed.
LEMMA SpansFlush ==
    ASSUME NEW q \in Seq(Item), NEW s \in Spills0
    PROVE  FlushedQueue(q, s) \in Seq(Item) /\ Spans(FlushedQueue(q, s)) = Spans(q)
<1>1. PICK item : item = Audio(s.gen, s.at)
    OBVIOUS
<1>2. item \in Item /\ item.audio
    BY <1>1, SpillIs DEF Audio
<1>3. Append(q, item) \in Seq(Item) /\ Spans(Append(q, item)) = Spans(q)
    BY <1>2, SpansAppend, ItemsAppend
<1> QED
    BY <1>1, <1>3 DEF FlushedQueue

\* An empty row has no spans.
LEMMA SpansEmpty == Spans(<< >>) = {}
BY EmptyIs DEF Spans

\* The next item, and what it leaves.
LEMMA SpansTake ==
    ASSUME HasItem, NEW g, NEW n, InLine(deferred, queue, spill, g, n)
    PROVE  /\ Spans(LeftDeferred) \cup Spans(LeftQueue) \subseteq
                  Spans(deferred) \cup Spans(queue)
           /\ ~NextItem.audio => NextItem \in Spans(deferred) \cup Spans(queue)
<1>1. PICK q, s : q = TopQueue /\ s = TopSpill
    OBVIOUS
<1>2. deferred \in Seq(Item) /\ queue \in Seq(Item) /\ spill \in Spills0
    BY DEF InLine
<1>3. q \in Seq(Item) /\ Spans(q) = Spans(queue)
    BY <1>1, <1>2, SpansFlush DEF TopQueue
<1>4. s \in Spills0
    BY <1>1, <1>2, SpillIs DEF TopSpill, FlushedSpill
<1>5. CASE deferred # << >>
    <2>1. /\ NextItem = Head(deferred) /\ LeftDeferred = Tail(deferred)
          /\ LeftQueue = FlushedQueue(q, s)
        BY <1>1, <1>5 DEF NextItem, LeftDeferred, LeftQueue, OpenQueue
    <2>2. Spans(LeftQueue) = Spans(queue)
        BY <1>3, <1>4, <2>1, SpansFlush
    <2> QED
        BY <1>2, <1>5, <2>1, <2>2, SpansTail
<1>6. CASE deferred = << >>
    <2>1. q # << >>
        BY <1>1, <1>6 DEF HasItem
    <2>2. /\ NextItem = Head(q) /\ LeftDeferred = << >>
          /\ LeftQueue = FlushedQueue(Tail(q), s)
        BY <1>1, <1>6 DEF NextItem, LeftDeferred, LeftQueue, OpenQueue
    <2>3. Tail(q) \in Seq(Item)
        BY <1>3, <2>1, HeadTailIs
    <2>4. Spans(LeftQueue) = Spans(Tail(q))
        BY <1>4, <2>2, <2>3, SpansFlush
    <2> QED
        BY <1>3, <2>1, <2>2, <2>4, SpansTail, SpansEmpty
<1> QED
    BY <1>5, <1>6

\* A span that a batch ends at is deferred, and nothing else changes places.
LEMMA SpansPull ==
    ASSUME NEW target, NEW k \in Nat, NEW kept, TakeAudio(target, k, kept),
           NEW m, InLine(deferred, queue, spill, gen, m), gen \in Gens,
           InLine(deferred', queue', spill', gen, m)
    PROVE  Spans(deferred') \cup Spans(queue') \subseteq Spans(deferred) \cup Spans(queue)
<1>1. PICK d, q : d = LeftDeferred /\ q = LeftQueue
    OBVIOUS
<1>2. PICK e, r : e = deferred' /\ r = queue'
    OBVIOUS
<1>3. PICK n \in Nat : n = Len(q)
    <2>1. InLine(LeftDeferred, LeftQueue, LeftSpill, gen, m)
        BY TakeItem DEF TakeAudio
    <2> QED
        BY <1>1, <2>1, LenProperties DEF InLine
<1>4. d \in Seq(Item) /\ q \in Seq(Item)
    BY <1>1, TakeItem DEF TakeAudio, InLine
<1>5. Spans(d) \cup Spans(q) \subseteq Spans(deferred) \cup Spans(queue)
    BY <1>1, SpansTake DEF TakeAudio
<1>6. k \in 0..n
    BY <1>1, <1>3 DEF TakeAudio
<1>7. PICK all, span, behind, rest :
          /\ all = NextItem.at \o Own(q, k)
          /\ span = (MayPull(d) /\ Len(all) < target /\ k < Len(q))
          /\ behind = IF span THEN Append(d, q[k + 1]) ELSE d
          /\ rest = SubSeq(all, kept + 1, Len(all))
    OBVIOUS
<1>8. /\ r = SubSeq(q, k + 1 + (IF span THEN 1 ELSE 0), Len(q))
      /\ e = IF rest = << >> THEN behind ELSE << Audio(gen, rest) >> \o behind
    BY <1>1, <1>2, <1>7 DEF TakeAudio, PutBack
<1>9. Spans(r) \subseteq Spans(q)
    <2>1. CASE span
        <3>0. k < Len(q)
            BY <1>7, <2>1
        <3>1. k + 1 \in 0..Len(q) /\ k + 1 + 1 = (k + 1) + 1
            BY <1>3, <1>6, <3>0
        <3> QED
            BY <1>4, <1>8, <2>1, <3>1, SpansCut
    <2>2. CASE ~span
        <3>1. k \in 0..Len(q) /\ k + 1 + 0 = k + 1
            BY <1>3, <1>6
        <3> QED
            BY <1>4, <1>8, <2>2, <3>1, SpansCut
    <2> QED
        BY <2>1, <2>2
<1>10. behind \in Seq(Item) /\ Spans(behind) \subseteq Spans(d) \cup Spans(q)
    <2>1. CASE span
        <3>0. k < Len(q)
            BY <1>7, <2>1
        <3>1. k + 1 \in 1..n
            BY <1>3, <1>6, <3>0
        <3>2. PICK item : item = q[k + 1]
            OBVIOUS
        <3>3. item \in Item /\ item \in Range(q)
            BY <1>3, <1>4, <3>1, <3>2, ElementOfSeq, RangeIs
        <3>4. {it \in {item} : ~it.audio} \subseteq Spans(q)
            BY <3>3 DEF Spans
        <3>5. behind = Append(d, item)
            BY <1>7, <2>1, <3>2
        <3> QED
            BY <1>4, <3>3, <3>4, <3>5, SpansAppend, ItemsAppend
    <2>2. CASE ~span
        BY <1>4, <1>7, <2>2
    <2> QED
        BY <2>1, <2>2
<1>11. Spans(e) \subseteq Spans(behind)
    <2>1. CASE rest = << >>
        BY <1>8, <2>1
    <2>2. CASE rest # << >>
        <3>1. PICK item : item = Audio(gen, rest)
            OBVIOUS
        <3>2. e = << item >> \o behind /\ e \in Seq(Item)
            BY <1>2, <1>8, <2>2, <3>1 DEF InLine
        <3>3. item \in Item /\ item.audio
            <4>1. << item >> \in Seq({item}) /\ << item >>[1] = item /\ Len(<< item >>) = 1
                OBVIOUS
            <4>2. e[1] = item
                BY <3>2, <4>1, <1>10
            <4>3. 1 \in 1..Len(e)
                BY <3>2, <4>1, <1>10
            <4> QED
                BY <3>1, <3>2, <4>2, <4>3, ElementOfSeq DEF Audio
        <3> QED
            BY <1>10, <3>2, <3>3, SpansFront
    <2> QED
        BY <2>1, <2>2
<1> QED
    BY <1>2, <1>5, <1>9, <1>10, <1>11

-------------------------------------------------------------------------------
(* What was taken: heard h, batch b and held tail p, ahead of the set X of  *)
(* what still waits.                                                        *)

Lined(h, b, p, X, n) ==
    /\ Rising(h) /\ Rising(b) /\ Rising(p)
    /\ Below(Range(h), Range(b)) /\ Below(Range(h), Range(p)) /\ Below(Range(b), Range(p))
    /\ Below(Range(h), X) /\ Below(Range(b), X) /\ Below(Range(p), X)
    /\ \A m \in Range(h) \cup Range(b) \cup Range(p) : m <= n

\* A part is dropped, or the held tail becomes the batch.
LEMMA LinedMoves ==
    ASSUME NEW h, NEW b, NEW p, NEW X, NEW n, Lined(h, b, p, X, n)
    PROVE  /\ Lined(h, << >>, p, X, n) /\ Lined(h, b, << >>, X, n)
           /\ Lined(h, << >>, << >>, X, n) /\ Lined(<< >>, b, p, X, n)
           /\ b = << >> => Lined(h, p, << >>, X, n)
           /\ \A Y : Y \subseteq X => Lined(h, b, p, Y, n)
BY EmptyIs DEF Lined, Below

\* The decoder hears the batch.
LEMMA LinedFeeds ==
    ASSUME NEW h \in Seq(Arrivals), NEW b \in Seq(Arrivals), NEW X, NEW n,
           Lined(h, b, << >>, X, n)
    PROVE  /\ h \o b \in Seq(Arrivals) /\ Range(h \o b) = Range(h) \cup Range(b)
           /\ Lined(h \o b, << >>, << >>, X, n)
<1>2. /\ h \o b \in Seq(Arrivals) /\ Range(h \o b) = Range(h) \cup Range(b)
      /\ (Rising(h \o b) <=> Rising(h) /\ Rising(b) /\ Below(Range(h), Range(b)))
    BY BehindIs
<1>3. PICK c : c = h \o b
    OBVIOUS
<1>4. Rising(c) /\ Range(c) = Range(h) \cup Range(b)
    BY <1>2, <1>3 DEF Lined
<1>5. Lined(c, << >>, << >>, X, n)
    BY <1>4, EmptyIs DEF Lined, Below
<1> QED
    BY <1>2, <1>3, <1>5

\* The next part of what waits goes to the decoder or into the held tail.
LEMMA LinedTakes ==
    ASSUME NEW h, NEW p \in Seq(Arrivals), NEW part \in Seq(Arrivals), NEW Y, NEW n,
           Lined(h, << >>, p, Range(part) \cup Y, n), Rising(part), Below(Range(part), Y),
           \A m \in Range(part) \cup Y : m <= n
    PROVE  /\ p \o part \in Seq(Arrivals) /\ Range(p \o part) = Range(p) \cup Range(part)
           /\ Lined(h, p \o part, << >>, Y, n) /\ Lined(h, part, << >>, Y, n)
           /\ Lined(h, << >>, Roll(p, part), Y, n)
<1>2. /\ p \o part \in Seq(Arrivals) /\ Range(p \o part) = Range(p) \cup Range(part)
      /\ (Rising(p \o part) <=> Rising(p) /\ Rising(part) /\ Below(Range(p), Range(part)))
    BY BehindIs
<1>3. Rising(p) /\ Below(Range(p), Range(part))
    BY DEF Lined, Below
<1>4. PICK c, roll : c = p \o part /\ roll = Roll(p, part)
    OBVIOUS
<1>5. Rising(c) /\ Range(c) = Range(p) \cup Range(part)
    BY <1>2, <1>3, <1>4
<1>6. Rising(roll) /\ Range(roll) \subseteq Range(p) \cup Range(part)
    BY <1>3, <1>4, RollIs
<1>7. Lined(h, c, << >>, Y, n)
    BY <1>5, EmptyIs DEF Lined, Below
<1>8. Lined(h, part, << >>, Y, n)
    BY EmptyIs DEF Lined, Below
<1>9. Lined(h, << >>, roll, Y, n)
    BY <1>6, EmptyIs DEF Lined, Below
<1> QED
    BY <1>2, <1>4, <1>7, <1>8, <1>9

-------------------------------------------------------------------------------
(* The inductive invariant, but for the window of the decoder. *)

\* The values of all variables but those of the window.
BaseTypes ==
    /\ mlx \in BOOLEAN
    /\ handler \in {"receive", "paused", "barrier", "making", "resetting", "finishing",
                    "closed"}
    /\ arrivals \in 0..MaxArrivals
    /\ queue \in Seq(Item) /\ Len(queue) <= QueueSize
    /\ deferred \in Seq(Item)
    /\ spill \in [gen : Gens, at : Seq(Arrivals)] /\ samples \in Nat
    /\ gen \in Gens /\ since \in 0..arrivals /\ finish \in BOOLEAN
    /\ finished \in BOOLEAN
    /\ consumer \in {"idle", "decoding", "publishing", "committing", "closing", "sealing",
                     "rotating", "tail", "answering", "done", "failed"}
    /\ mine \in [gen : Gens, id : Nat, from : {0} \cup Gens]
    /\ batch \in Seq(Arrivals) /\ preroll \in Seq(Arrivals) /\ Len(preroll) <= PreRollSize
    /\ decoder \in [id : Nat, used : BOOLEAN]
    /\ text \in {0} \cup Gens /\ prefix \in {0} \cup Gens
    /\ skipped \in BOOLEAN /\ heard \in Seq(Arrivals) /\ quiet \subseteq Arrivals
    /\ events \in 0..MaxEvents

\* All that waits is of one generation: the last one's while start resets.
Label == IF handler = "resetting" THEN gen - 1 ELSE gen
Waiting == Content(deferred, queue, spill)

\* The last arrival that has been put in line: a silence span waits for its place.
Latest == IF handler = "barrier" THEN arrivals - 1 ELSE arrivals

Line == InLine(deferred, queue, spill, Label, Latest)

\* What was taken is in its order, ahead of what waits.
TakenInLine == Lined(heard, batch, preroll, Waiting, Latest)

\* The tasks: what a state of one says of the other, and of what waits.
Phases ==
    /\ gen - 1 + (IF handler = "making" THEN 1 ELSE 0) <= events
    /\ handler = "resetting" => since = arrivals /\ gen > 1
    /\ handler = "barrier" => since < arrivals
    /\ mine.id <= decoder.id
    /\ finish => handler \in {"finishing", "closed"}
    /\ handler = "finishing" => finish
    /\ handler = "closed" => Stopped
    /\ finished => finish /\ consumer = "done"
    /\ consumer \in {"tail", "answering"} => handler = "finishing"
    /\ consumer \in {"tail", "answering"} \/ finished =>
           deferred = << >> /\ queue = << >> /\ spill.at = << >>

Busy == consumer \in {"decoding", "closing", "tail"}

\* The held tail: it is silence, which the decoder hears after a gap.
Held ==
    /\ preroll # << >> => skipped
    /\ Busy => preroll = << >>
    /\ ~Busy => batch = << >>
    /\ consumer \in {"closing", "tail"} =>
           (batch # << >> => skipped) /\ Range(batch) \subseteq quiet
    /\ Range(preroll) \subseteq quiet
    /\ Busy /\ ~Current => heard = << >>

\* Nothing of this session has been left out.
Hand == IF consumer = "decoding" /\ Current THEN Range(batch) ELSE {}
Covered ==
    \/ consumer = "failed" \/ (handler = "closed" /\ ~finished)
    \/ (since + 1)..arrivals \subseteq Range(heard) \cup quiet \cup Hand \cup Waiting

\* A span that waits is silent.
Silent ==
    /\ \A item \in Spans(deferred) \cup Spans(queue) : Range(item.at) \subseteq quiet
    /\ handler = "barrier" => arrivals \in quiet

Inv == BaseTypes /\ Phases /\ Held /\ Line /\ Silent /\ TakenInLine /\ Covered

\* The first state.
LEMMA InitInv == Init => Inv
<1> SUFFICES ASSUME Init PROVE Inv
    OBVIOUS
<1>1. 1 \in Gens /\ MaxArrivals \in Nat /\ MaxEvents \in Nat /\ PreRollSize \in Nat
    BY Constants
<1>2. \A S : << >> \in Seq(S) /\ Len(<< >>) = 0
    BY EmptyIs
<1>3. spill \in Spills0 /\ spill.at = << >> /\ spill.gen = 1
    BY <1>1, <1>2 DEF Init, Spills0
<1>4. /\ mlx \in BOOLEAN /\ handler = "receive" /\ arrivals = 0 /\ queue = << >>
      /\ deferred = << >> /\ samples = 0 /\ gen = 1 /\ since = 0 /\ finish = FALSE
      /\ finished = FALSE /\ consumer = "idle" /\ mine = Nothing /\ batch = << >>
      /\ text = 0 /\ prefix = 0 /\ preroll = << >> /\ skipped = FALSE
      /\ heard = << >> /\ quiet = {} /\ events = 0
    BY DEF Init
<1>5. decoder.id = 1 /\ decoder \in [id : Nat, used : BOOLEAN]
    BY DEF Init
<1>6. mine.id = 0 /\ mine \in [gen : Gens, id : Nat, from : {0} \cup Gens]
    BY <1>1, <1>4 DEF Nothing
<1>7. Content(<< >>, << >>, spill) = {}
    BY <1>3, EmptyIs, NoItems DEF Content
<1>8. Label = 1 /\ Latest = 0
    BY <1>4 DEF Label, Latest
<1>9. Line
    BY <1>1, <1>2, <1>3, <1>4, <1>7, <1>8, EmptyIs, NoItems, Constants
    DEF Line, InLine, Below
<1>10. BaseTypes
    <2>1. spill \in [gen : Gens, at : Seq(Arrivals)]
        BY <1>3 DEF Spills0
    <2>2. Len(queue) <= QueueSize /\ Len(preroll) <= PreRollSize
        BY <1>2, <1>4, Constants
    <2>3. arrivals \in 0..MaxArrivals /\ since \in 0..arrivals /\ events \in 0..MaxEvents
        BY <1>1, <1>4
    <2> QED
        BY <1>1, <1>2, <1>4, <1>5, <1>6, <2>1, <2>2, <2>3 DEF BaseTypes
<1>11. Phases
    BY <1>3, <1>4, <1>5, <1>6 DEF Phases
<1>12. Held
    BY <1>4, EmptyIs DEF Held, Busy
<1>13. TakenInLine
    BY <1>4, EmptyIs DEF TakenInLine, Lined, Below
<1>14. Covered
    <2>1. (since + 1)..arrivals = {}
        BY <1>4
    <2> QED
        BY <2>1 DEF Covered
<1>20. Silent
    BY <1>4, SpansEmpty DEF Silent
<1> QED
    BY <1>9, <1>10, <1>11, <1>12, <1>13, <1>14, <1>20 DEF Inv

\* What the types say of each variable.
LEMMA Typed ==
    ASSUME BaseTypes
    PROVE  /\ arrivals \in Nat /\ arrivals <= MaxArrivals /\ samples \in Nat
           /\ gen \in Gens /\ gen \in Nat \ {0} /\ gen <= MaxEvents + 1
           /\ since \in Nat /\ since <= arrivals
           /\ events \in Nat /\ events <= MaxEvents
           /\ decoder.id \in Nat /\ decoder.used \in BOOLEAN
           /\ mine.gen \in Gens /\ mine.id \in Nat /\ mine.from \in {0} \cup Gens
           /\ spill \in Spills0
BY Constants DEF BaseTypes, Spills0, Gens

\* A step that changes nothing.
LEMMA StutterKeeps ==
    Inv /\ UNCHANGED vars => Inv'
<1> SUFFICES ASSUME Inv, UNCHANGED vars PROVE Inv'
    OBVIOUS
<1>1. BaseTypes'
    BY DEF Inv, BaseTypes, vars, ingress, session, subtitles
<1>2. Phases' /\ Held'
    BY DEF Inv, Phases, Stopped, Held, Busy, Current, vars, ingress, session, subtitles
<1>3. Line' /\ Silent' /\ TakenInLine' /\ Covered'
    BY DEF Inv, Line, Silent, Label, Latest, TakenInLine, Waiting, Covered, Hand, Current,
           vars, ingress, session, subtitles
<1> QED
    BY <1>1, <1>2, <1>3 DEF Inv

-------------------------------------------------------------------------------
(* The receive loop. *)

\* The loop leaves the consumer alone and changes only where it is itself.
LEMMA LineStays ==
    Line /\ UNCHANGED << arrivals, queue, spill, deferred, gen >>
         /\ (handler = "resetting" <=> handler' = "resetting")
         /\ (handler = "barrier" <=> handler' = "barrier")
        => Line' /\ Waiting' = Waiting /\ Latest' = Latest
BY DEF Line, Label, Latest, Waiting

\* Start, a start that fails, finish and its return.
LEMMA StartKeeps ==
    Inv /\ (Start \/ StartFails \/ Finish \/ FinishReturns) => Inv'
<1> SUFFICES ASSUME Inv, Start \/ StartFails \/ Finish \/ FinishReturns PROVE Inv'
    OBVIOUS
<1> USE DEF ingress, session, subtitles
<1>1. BaseTypes /\ Phases /\ Held /\ Line /\ Silent /\ TakenInLine /\ Covered
    BY DEF Inv
<1>2. /\ UNCHANGED << mlx, arrivals, queue, spill, samples, deferred, gen, since, finished,
                      consumer, mine, batch, decoder, text, prefix, preroll, skipped,
                      heard, quiet >>
      /\ handler \in {"receive", "making", "finishing"}
      /\ handler' \in {"making", "receive", "finishing", "closed"}
      /\ (finish' = finish \/ (finish' = TRUE /\ handler' = "finishing"))
    BY DEF Start, StartFails, Finish, FinishReturns
<1>3. events' \in Nat /\ events' <= MaxEvents /\ events <= events'
    BY <1>1, Typed, Constants DEF Start, StartFails, Finish, FinishReturns
<1>4. Line' /\ Waiting' = Waiting /\ Latest' = Latest
    BY <1>1, <1>2, LineStays
<1>5. BaseTypes'
    <2>1. events' \in 0..MaxEvents
        BY <1>3, Constants
    <2>2. finish' \in BOOLEAN
        BY <1>1, <1>2 DEF BaseTypes
    <2> QED
        BY <1>1, <1>2, <2>1, <2>2 DEF BaseTypes
<1>6. Phases'
    <2>1. gen' - 1 + (IF handler' = "making" THEN 1 ELSE 0) <= events'
        BY <1>1, <1>2, Typed DEF Phases, Start, StartFails, Finish, FinishReturns
    <2>2. /\ finish' => handler' \in {"finishing", "closed"}
          /\ handler' = "finishing" => finish'
          /\ handler' = "closed" => Stopped'
        BY <1>1, <1>2 DEF Phases, Start, StartFails, Finish, FinishReturns, Stopped
    <2>3. /\ finished' => finish' /\ consumer' = "done"
          /\ consumer' \in {"tail", "answering"} => handler' = "finishing"
        BY <1>1, <1>2 DEF Phases, Start, StartFails, Finish, FinishReturns, Stopped
    <2> QED
        BY <1>1, <1>2, <2>1, <2>2, <2>3 DEF Phases
<1>7. Held'
    BY <1>1, <1>2 DEF Held, Busy, Current
<1>8. TakenInLine'
    BY <1>1, <1>2, <1>4 DEF TakenInLine
<1>9. Covered'
    BY <1>1, <1>2, <1>4 DEF Covered, Hand, Current, Phases
<1>20. Silent'
    BY <1>1, <1>2 DEF Silent
<1> QED
    BY <1>4, <1>5, <1>6, <1>7, <1>8, <1>9, <1>20 DEF Inv

\* The decoder of the new session is there: what waits is left to the resets.
LEMMA ApplyStartKeeps ==
    Inv /\ ApplyStart => Inv'
<1> SUFFICES ASSUME Inv, ApplyStart PROVE Inv'
    OBVIOUS
<1> USE DEF ingress, session, subtitles
<1>1. BaseTypes /\ Phases /\ Held /\ Line /\ Silent /\ TakenInLine /\ Covered
    BY DEF Inv
<1>2. /\ handler = "making" /\ handler' = "resetting" /\ gen' = gen + 1 /\ since' = arrivals
      /\ finish' = FALSE /\ finished' = FALSE /\ decoder' = [id |-> decoder.id + 1, used |-> FALSE]
      /\ text' = 0 /\ samples' = 0 /\ heard' = << >>
      /\ UNCHANGED << mlx, arrivals, queue, spill, deferred, consumer, mine, batch,
                      prefix, preroll, skipped, quiet, events >>
    BY DEF ApplyStart
<1>3. /\ gen \in Nat \ {0} /\ gen <= events /\ events <= MaxEvents /\ events \in Nat
      /\ decoder.id \in Nat /\ mine.id \in Nat /\ arrivals \in Nat
    BY <1>1, <1>2, Typed DEF Phases
<1>4. Line'
    <2>1. Label' = Label /\ Latest' = Latest
        BY <1>2, <1>3 DEF Label, Latest
    <2> QED
        BY <1>1, <1>2, <2>1 DEF Line
<1>5. BaseTypes'
    <2>1. gen' \in Gens
        BY <1>2, <1>3, Constants DEF Gens
    <2>2. decoder' \in [id : Nat, used : BOOLEAN] /\ heard' \in Seq(Arrivals) /\ samples' \in Nat
        BY <1>2, <1>3, EmptyIs
    <2>3. since' \in 0..arrivals'
        BY <1>2, <1>3
    <2> QED
        BY <1>1, <1>2, <2>1, <2>2, <2>3 DEF BaseTypes
<1>6. Phases'
    <2>1. mine.id <= decoder.id /\ decoder'.id = decoder.id + 1
        BY <1>1, <1>2 DEF Phases
    <2>2. consumer \notin {"tail", "answering"}
        BY <1>1, <1>2 DEF Phases
    <2> QED
        BY <1>2, <1>3, <2>1, <2>2 DEF Phases
<1>7. Held'
    BY <1>1, <1>2 DEF Held, Busy, Current
<1>8. TakenInLine'
    BY <1>1, <1>2, LinedMoves DEF TakenInLine, Waiting, Latest
<1>9. Covered'
    <2>1. (since' + 1)..arrivals' = {}
        BY <1>2, <1>3
    <2> QED
        BY <2>1 DEF Covered
<1>20. Silent'
    BY <1>1, <1>2 DEF Silent
<1> QED
    BY <1>4, <1>5, <1>6, <1>7, <1>8, <1>9, <1>20 DEF Inv

\* Nothing waits.
LEMMA NothingWaits ==
    ASSUME NEW s \in Spills0, s.at = << >>, NEW g, NEW n
    PROVE  Content(<< >>, << >>, s) = {} /\ InLine(<< >>, << >>, s, g, n)
<1>1. Content(<< >>, << >>, s) = {}
    BY EmptyIs, NoItems DEF Content
<1> QED
    BY <1>1, EmptyIs, NoItems, Constants DEF InLine, Below

\* The last step of start: the session is empty.
LEMMA FinishStartKeeps ==
    Inv /\ FinishStart => Inv'
<1> SUFFICES ASSUME Inv, FinishStart PROVE Inv'
    OBVIOUS
<1> USE DEF ingress, session, subtitles
<1>1. BaseTypes /\ Phases /\ Held /\ Line /\ Silent /\ TakenInLine /\ Covered
    BY DEF Inv
<1>2. /\ handler = "resetting" /\ handler' = "receive"
      /\ queue' = << >> /\ deferred' = << >> /\ spill' = Reset(spill) /\ samples' = 0
      /\ prefix' = 0 /\ consumer' = IF Stopped THEN "idle" ELSE consumer
      /\ UNCHANGED << mlx, arrivals, gen, since, finish, finished, mine, batch, decoder,
                      text, preroll, skipped, heard, quiet, events >>
    BY DEF FinishStart
<1>3. PICK s : s = spill'
    OBVIOUS
<1>4. s \in Spills0 /\ s.at = << >>
    BY <1>1, <1>2, <1>3, Typed, SpillIs
<1>5. Line' /\ Waiting' = {}
    <2>1. Content(<< >>, << >>, s) = {} /\ InLine(<< >>, << >>, s, Label', Latest')
        BY <1>4, NothingWaits
    <2> QED
        BY <1>2, <1>3, <2>1 DEF Line, Waiting
<1>6. BaseTypes'
    <2>1. queue' \in Seq(Item) /\ Len(queue') <= QueueSize /\ deferred' \in Seq(Item)
        BY <1>2, EmptyIs, Constants
    <2>2. spill' \in [gen : Gens, at : Seq(Arrivals)]
        BY <1>3, <1>4 DEF Spills0
    <2>3. samples' \in Nat
        BY <1>2
    <2>4. consumer' = consumer \/ consumer' = "idle"
        BY <1>2
    <2> QED
        BY <1>1, <1>2, <2>1, <2>2, <2>3, <2>4 DEF BaseTypes
<1>7. Phases'
    <2>1. ~finished /\ ~finish
        BY <1>1, <1>2 DEF Phases
    <2>2. consumer' \notin {"tail", "answering"}
        BY <1>1, <1>2 DEF Phases
    <2>3. gen' - 1 + (IF handler' = "making" THEN 1 ELSE 0) <= events'
        BY <1>1, <1>2, Typed DEF Phases
    <2> QED
        BY <1>1, <1>2, <2>1, <2>2, <2>3 DEF Phases
<1>8. Held'
    <2>1. (Busy' <=> Busy) /\ (consumer' \in {"closing", "tail"} <=> consumer \in {"closing", "tail"})
        BY <1>2 DEF Busy, Stopped
    <2> QED
        BY <1>1, <1>2, <2>1 DEF Held, Current
<1>9. TakenInLine'
    <2>1. Lined(heard, batch, preroll, {}, Latest)
        BY <1>1, LinedMoves DEF TakenInLine
    <2>2. Latest' = Latest
        BY <1>2 DEF Latest
    <2> QED
        BY <1>2, <1>5, <2>1, <2>2 DEF TakenInLine
<1>10. Covered'
    <2>1. (since' + 1)..arrivals' = {}
        BY <1>1, <1>2, Typed DEF Phases
    <2> QED
        BY <2>1 DEF Covered
<1>20. Silent'
    BY <1>2, SpansEmpty DEF Silent
<1> QED
    BY <1>5, <1>6, <1>7, <1>8, <1>9, <1>10, <1>20 DEF Inv

\* The socket closes.
LEMMA DisconnectKeeps ==
    Inv /\ Disconnect => Inv'
<1> SUFFICES ASSUME Inv, Disconnect PROVE Inv'
    OBVIOUS
<1> USE DEF ingress, session, subtitles
<1>1. BaseTypes /\ Phases /\ Held /\ Line /\ Silent /\ TakenInLine /\ Covered
    BY DEF Inv
<1>2. /\ handler = "receive" /\ handler' = "closed" /\ consumer' = "done"
      /\ mine' = Nothing /\ batch' = << >>
      /\ queue' = << >> /\ deferred' = << >> /\ spill' = Reset(spill) /\ samples' = 0
      /\ text' = 0 /\ prefix' = 0 /\ preroll' = << >> /\ heard' = << >> /\ quiet' = {}
      /\ UNCHANGED << mlx, arrivals, gen, since, finish, finished, decoder, skipped, events >>
    BY DEF Disconnect
<1>3. PICK s : s = spill'
    OBVIOUS
<1>4. s \in Spills0 /\ s.at = << >>
    BY <1>1, <1>2, <1>3, Typed, SpillIs
<1>5. Line' /\ Waiting' = {}
    <2>1. Content(<< >>, << >>, s) = {} /\ InLine(<< >>, << >>, s, Label', Latest')
        BY <1>4, NothingWaits
    <2> QED
        BY <1>2, <1>3, <2>1 DEF Line, Waiting
<1>6. mine' \in [gen : Gens, id : Nat, from : {0} \cup Gens] /\ mine'.id = 0
    BY <1>2, Constants DEF Nothing
<1>7. BaseTypes'
    <2>1. queue' \in Seq(Item) /\ Len(queue') <= QueueSize /\ deferred' \in Seq(Item)
        BY <1>2, EmptyIs, Constants
    <2>2. spill' \in [gen : Gens, at : Seq(Arrivals)]
        BY <1>3, <1>4 DEF Spills0
    <2>3. /\ batch' \in Seq(Arrivals) /\ preroll' \in Seq(Arrivals) /\ heard' \in Seq(Arrivals)
          /\ Len(preroll') <= PreRollSize
        BY <1>2, EmptyIs, Constants
    <2>4. samples' \in Nat
        BY <1>2
    <2> QED
        BY <1>1, <1>2, <1>6, <2>1, <2>2, <2>3, <2>4 DEF BaseTypes
<1>8. Phases'
    <2>1. ~finished /\ ~finish
        BY <1>1, <1>2 DEF Phases
    <2>2. gen' - 1 + (IF handler' = "making" THEN 1 ELSE 0) <= events'
        BY <1>1, <1>2, Typed DEF Phases
    <2>3. mine'.id <= decoder'.id
        BY <1>1, <1>2, <1>6, Typed
    <2> QED
        BY <1>2, <2>1, <2>2, <2>3 DEF Phases, Stopped
<1>9. Held'
    BY <1>2, EmptyIs DEF Held, Busy
<1>10. TakenInLine'
    BY <1>2, EmptyIs DEF TakenInLine, Lined, Below
<1>11. Covered'
    BY <1>1, <1>2 DEF Covered, Phases
<1>20. Silent'
    BY <1>2, SpansEmpty DEF Silent
<1> QED
    BY <1>5, <1>7, <1>8, <1>9, <1>10, <1>11, <1>20 DEF Inv

\* What holds up to n holds up to a later arrival.
LEMMA Later ==
    ASSUME NEW n \in Nat
    PROVE  /\ \A d, q, s, g : InLine(d, q, s, g, n) => InLine(d, q, s, g, n + 1)
           /\ \A h, b, p, X : (Lined(h, b, p, X, n) /\ h \in Seq(Arrivals)
                                   /\ b \in Seq(Arrivals) /\ p \in Seq(Arrivals))
                  => Lined(h, b, p, X \cup {n + 1}, n + 1)
<1>1. ASSUME NEW d, NEW q, NEW s, NEW g, InLine(d, q, s, g, n)
      PROVE  InLine(d, q, s, g, n + 1)
    <2>1. Content(d, q, s) \subseteq Arrivals
        <3>1. /\ \A i \in 1..Len(d) : d[i] \in Item
              /\ \A i \in 1..Len(q) : q[i] \in Item /\ s \in Spills0
            BY <1>1, ElementOfSeq DEF InLine
        <3>2. s \in Spills0
            BY <1>1 DEF InLine
        <3>3. Sounds(d) \subseteq Arrivals /\ Sounds(q) \subseteq Arrivals
            BY <3>1, ItemIs DEF Sounds
        <3> QED
            BY <3>2, <3>3, SpillIs DEF Content
    <2>2. \A m \in Content(d, q, s) : m <= n + 1
        <3>1. ASSUME NEW m \in Content(d, q, s) PROVE m <= n + 1
            <4>1. m <= n /\ m \in Nat
                BY <1>1, <2>1, <3>1, Constants DEF InLine
            <4> QED
                BY <4>1
        <3> QED
            BY <3>1
    <2> QED
        BY <1>1, <2>2 DEF InLine
<1>2. ASSUME NEW h \in Seq(Arrivals), NEW b \in Seq(Arrivals), NEW p \in Seq(Arrivals), NEW X,
             Lined(h, b, p, X, n)
      PROVE  Lined(h, b, p, X \cup {n + 1}, n + 1)
    <2>1. \A m \in Range(h) \cup Range(b) \cup Range(p) : m \in Nat /\ m <= n
        BY <1>2, RangeIs, Constants DEF Lined
    <2>2. \A m \in Range(h) \cup Range(b) \cup Range(p) : m < n + 1 /\ m <= n + 1
        BY <2>1
    <2> QED
        BY <1>2, <2>2 DEF Lined, Below
<1> QED
    BY <1>1, <1>2

\* An item of the next arrival goes behind the queue.
LEMMA JoinQueue ==
    ASSUME NEW d, NEW q, NEW s, NEW g, NEW n \in Nat, InLine(d, q, s, g, n),
           s.at = << >>, Len(q) < QueueSize, n + 1 \in Arrivals,
           NEW item \in Item, item.gen = g, item.at = << n + 1 >>
    PROVE  /\ InLine(d, Append(q, item), s, g, n + 1)
           /\ Content(d, Append(q, item), s) = Content(d, q, s) \cup {n + 1}
<1>1. << n + 1 >> \in Seq(Arrivals) /\ Len(<< n + 1 >>) = 1 /\ << n + 1 >>[1] = n + 1
    OBVIOUS
<1>2. Range(item.at) = {n + 1} /\ Rising(item.at)
    <2>1. PICK one : one = << n + 1 >>
        OBVIOUS
    <2>2. one \in Seq(Arrivals) /\ Len(one) = 1 /\ one[1] = n + 1
        BY <1>1, <2>1
    <2>3. Range(one) = {one[i] : i \in 1..Len(one)}
        BY <2>2, RangeIs
    <2>4. Range(one) = {n + 1}
        BY <2>2, <2>3
    <2>5. Rising(one)
        BY <2>2 DEF Rising
    <2> QED
        BY <2>1, <2>4, <2>5
<1>3. InLine(d, q, s, g, n + 1)
    BY Later
<1>4. Content(d, q, s) \subseteq Nat
    <2>1. /\ \A i \in 1..Len(d) : d[i] \in Item
          /\ \A i \in 1..Len(q) : q[i] \in Item
        BY ElementOfSeq DEF InLine
    <2>2. Sounds(d) \subseteq Arrivals /\ Sounds(q) \subseteq Arrivals
        BY <2>1, ItemIs DEF Sounds
    <2> QED
        BY <2>2, EmptyIs, Constants DEF Content
<1>5. \A m \in Content(d, q, s) : m < n + 1
    BY <1>4 DEF InLine
<1>6. PICK a : a = Append(q, item)
    OBVIOUS
<1>7. q \in Seq(Item) /\ Ordered(q) /\ Marked(q, g) /\ Len(q) \in Nat
    BY LenProperties DEF InLine
<1>8. Below(Sounds(q), Range(item.at)) /\ Below(Sounds(d), Range(item.at))
    BY <1>2, <1>5 DEF Below, Content
<1>9. /\ a \in Seq(Item) /\ Len(a) = Len(q) + 1 /\ Sounds(a) = Sounds(q) \cup {n + 1}
      /\ Ordered(a) /\ Marked(a, g)
    BY <1>2, <1>6, <1>7, <1>8, ItemsAppend
<1>10. Len(a) <= QueueSize
    BY <1>7, <1>9, Constants
<1>11. Content(d, a, s) = Content(d, q, s) \cup {n + 1}
    BY <1>9 DEF Content
<1>12. /\ Below(Sounds(d), Sounds(a)) /\ Below(Sounds(a), Range(s.at))
       /\ \A m \in Content(d, a, s) : m <= n + 1
    BY <1>2, <1>3, <1>8, <1>9, <1>11, EmptyIs DEF InLine, Below
<1>13. InLine(d, a, s, g, n + 1)
    BY <1>3, <1>9, <1>10, <1>12 DEF InLine
<1> QED
    BY <1>6, <1>11, <1>13

\* A spill with one more arrival.
With(g, s, n) == [gen |-> g, at |-> Append(s.at, n)]

\* The next arrival goes behind the spill.
LEMMA JoinSpill ==
    ASSUME NEW d, NEW q, NEW s, NEW g \in Gens, NEW n \in Nat, InLine(d, q, s, g, n),
           n + 1 \in Arrivals
    PROVE  /\ InLine(d, q, With(g, s, n + 1), g, n + 1)
           /\ Content(d, q, With(g, s, n + 1)) =
                  Content(d, q, s) \cup {n + 1}
<1>0. PICK r : r = With(g, s, n + 1)
    OBVIOUS
<1>1. s \in Spills0 /\ s.at \in Seq(Arrivals) /\ Rising(s.at) /\ Arrivals \subseteq Nat
    BY SpillIs, Constants DEF InLine
<1>2. Content(d, q, s) \subseteq Nat
    <2>1. /\ \A i \in 1..Len(d) : d[i] \in Item
          /\ \A i \in 1..Len(q) : q[i] \in Item
        BY ElementOfSeq DEF InLine
    <2>2. Sounds(d) \subseteq Arrivals /\ Sounds(q) \subseteq Arrivals
        BY <2>1, ItemIs DEF Sounds
    <2>3. Range(s.at) \subseteq Arrivals
        BY <1>1, SpillIs
    <2> QED
        BY <1>1, <2>2, <2>3 DEF Content
<1>3. \A m \in Content(d, q, s) : m < n + 1
    BY <1>2 DEF InLine
<1>4. Below(Range(s.at), {n + 1})
    BY <1>3 DEF Below, Content
<1>5. PICK a, old, x : a = Append(old, x) /\ old = s.at /\ x = n + 1
    OBVIOUS
<1>6. /\ a \in Seq(Arrivals) /\ Range(a) = Range(s.at) \cup {n + 1} /\ Rising(a)
    <2>1. old \in Seq(Arrivals) /\ x \in Arrivals /\ Rising(old) /\ Below(Range(old), {x})
        BY <1>1, <1>4, <1>5
    <2>2. /\ Append(old, x) \in Seq(Arrivals) /\ Range(Append(old, x)) = Range(old) \cup {x}
          /\ (Rising(old) /\ Below(Range(old), {x}) => Rising(Append(old, x)))
        BY <2>1, GrownIs
    <2> QED
        BY <1>5, <2>1, <2>2
<1>7. r.gen = g /\ r.at = a /\ r \in Spills0
    BY <1>0, <1>5, <1>6 DEF Spills0, With
<1>8. Content(d, q, r) = Content(d, q, s) \cup {n + 1}
    BY <1>6, <1>7 DEF Content
<1>9. \A m \in Content(d, q, r) : m <= n + 1
    <2>1. \A m \in Content(d, q, s) : m <= n + 1
        BY <1>2, <1>3
    <2> QED
        BY <1>8, <2>1
<1>10. Below(Sounds(d), Range(r.at)) /\ Below(Sounds(q), Range(r.at))
    BY <1>3, <1>6, <1>7 DEF InLine, Below, Content
<1>11. InLine(d, q, r, g, n + 1)
    BY <1>6, <1>7, <1>9, <1>10 DEF InLine
<1> QED
    BY <1>0, <1>8, <1>11

\* How an arrival joins the line.
LEMMA AudioJoins ==
    Inv /\ ReceiveAudio =>
        Line' /\ Waiting' = Waiting \cup {Latest + 1} /\ Latest' = Latest + 1
<1> SUFFICES ASSUME Inv, ReceiveAudio
             PROVE  Line' /\ Waiting' = Waiting \cup {Latest + 1} /\ Latest' = Latest + 1
    OBVIOUS
<1> USE DEF ingress, session, subtitles
<1>1. BaseTypes /\ Phases /\ Held /\ Line /\ Silent /\ TakenInLine /\ Covered
    BY DEF Inv
<1>2. /\ handler = "receive" /\ arrivals < MaxArrivals /\ arrivals' = arrivals + 1
      /\ samples' = samples + 1 /\ handler' \in {"paused", "receive"}
      /\ UNCHANGED << mlx, deferred, gen, since, finish, finished, consumer, mine, batch,
                      decoder, text, prefix, preroll, skipped, heard, quiet, events >>
    BY DEF ReceiveAudio
<1>3. PICK q, s, n, g : /\ q = queue' /\ s = spill' /\ n = arrivals /\ g = gen
    OBVIOUS
<1>4. n \in Nat /\ n + 1 \in Arrivals /\ g \in Gens /\ Label = g /\ Latest = n
    BY <1>1, <1>2, <1>3, Typed, Constants DEF Label, Latest, Arrivals
<1>5. InLine(deferred, q, s, g, n + 1) /\ Content(deferred, q, s) = Waiting \cup {n + 1}
    <2>1. InLine(deferred, queue, spill, g, n)
        BY <1>1, <1>4 DEF Line
    <2>2. CASE Spills
        <3>1. PICK r : r = With(g, spill, n + 1)
            OBVIOUS
        <3>2. q = FlushedQueue(queue, r) /\ s = FlushedSpill(queue, r)
            BY <1>3, <2>2, <3>1 DEF ReceiveAudio, Grown, With
        <3>3. /\ InLine(deferred, queue, With(g, spill, n + 1), g, n + 1)
              /\ Content(deferred, queue, With(g, spill, n + 1)) =
                     Content(deferred, queue, spill) \cup {n + 1}
            <4>1. g \in Gens /\ n \in Nat /\ n + 1 \in Arrivals
                BY <1>4
            <4>2. InLine(deferred, queue, With(g, spill, n + 1), g, n + 1)
                BY ONLY <4>1, <2>1, JoinSpill, Zenon
            <4>3. Content(deferred, queue, With(g, spill, n + 1)) =
                     Content(deferred, queue, spill) \cup {n + 1}
                BY ONLY <4>1, <2>1, JoinSpill
            <4> QED
                BY <4>2, <4>3
        <3>4. InLine(deferred, queue, r, g, n + 1)
            BY <3>1, <3>3
        <3>5. Content(deferred, queue, r) = Waiting \cup {n + 1}
            BY <3>1, <3>3 DEF Waiting
        <3> QED
            BY <3>2, <3>4, <3>5, FlushKeeps
    <2>3. CASE ~Spills
        <3>1. PICK item : item = Audio(g, << n + 1 >>)
            OBVIOUS
        <3>2. << n + 1 >> \in Seq(Arrivals)
            BY <1>4
        <3>3. item \in Item /\ item.gen = g /\ item.at = << n + 1 >>
            BY <1>4, <3>1, <3>2 DEF Audio, Item
        <3>4. q = Append(queue, item) /\ s = spill
            BY <1>3, <2>3, <3>1 DEF ReceiveAudio
        <3>5. queue \in Seq(Item) /\ Len(queue) \in Nat
            BY <2>1, LenProperties DEF InLine
        <3>6. spill.at = << >> /\ Len(queue) < QueueSize
            BY <2>3, <3>5, Constants DEF Spills
        <3>7. /\ InLine(deferred, Append(queue, item), spill, g, n + 1)
              /\ Content(deferred, Append(queue, item), spill) = Waiting \cup {n + 1}
            BY <1>4, <2>1, <3>3, <3>6, JoinQueue DEF Waiting
        <3> QED
            BY <3>4, <3>7
    <2> QED
        BY <2>2, <2>3
<1>6. Line' /\ Waiting' = Waiting \cup {n + 1} /\ Latest' = n + 1
    BY <1>2, <1>3, <1>5 DEF Line, Label, Latest, Waiting
<1> QED
    BY <1>4, <1>6

\* A frame goes to the queue, or into the spill.
LEMMA ReceiveAudioKeeps ==
    Inv /\ ReceiveAudio => Inv'
<1> SUFFICES ASSUME Inv, ReceiveAudio PROVE Inv'
    OBVIOUS
<1> USE DEF ingress, session, subtitles
<1>1. BaseTypes /\ Phases /\ Held /\ Line /\ Silent /\ TakenInLine /\ Covered
    BY DEF Inv
<1>2. /\ handler = "receive" /\ arrivals < MaxArrivals /\ arrivals' = arrivals + 1
      /\ samples' = samples + 1 /\ handler' \in {"paused", "receive"}
      /\ UNCHANGED << mlx, deferred, gen, since, finish, finished, consumer, mine, batch,
                      decoder, text, prefix, preroll, skipped, heard, quiet, events >>
    BY DEF ReceiveAudio
<1>3. PICK q, s, n, g : /\ q = queue' /\ s = spill' /\ n = arrivals /\ g = gen
    OBVIOUS
<1>4. n \in Nat /\ n + 1 \in Arrivals /\ g \in Gens /\ Label = g /\ Latest = n
    BY <1>1, <1>2, <1>3, Typed, Constants DEF Label, Latest, Arrivals
<1>6. Line' /\ Waiting' = Waiting \cup {n + 1} /\ Latest' = n + 1
    BY <1>4, AudioJoins
<1>5. InLine(deferred', q, s, Label', Latest')
    BY <1>3, <1>6 DEF Line
<1>7. BaseTypes'
    <2>1. q \in Seq(Item) /\ Len(q) <= QueueSize /\ s \in [gen : Gens, at : Seq(Arrivals)]
        BY <1>5 DEF InLine, Spills0
    <2>2. arrivals' \in 0..MaxArrivals /\ since' \in 0..arrivals' /\ samples' \in Nat
        BY <1>1, <1>2, Typed, Constants
    <2>3. handler' \in {"receive", "paused"}
        BY <1>2
    <2> QED
        BY <1>1, <1>2, <1>3, <2>1, <2>2, <2>3 DEF BaseTypes
<1>8. Phases'
    <2>1. ~finished /\ ~finish /\ consumer \notin {"tail", "answering"}
        BY <1>1, <1>2 DEF Phases
    <2>2. gen' - 1 + (IF handler' = "making" THEN 1 ELSE 0) <= events'
        BY <1>1, <1>2, Typed DEF Phases
    <2> QED
        BY <1>1, <1>2, <2>1, <2>2 DEF Phases
<1>9. Held'
    BY <1>1, <1>2 DEF Held, Busy, Current
<1>10. TakenInLine'
    <2>1. heard \in Seq(Arrivals) /\ batch \in Seq(Arrivals) /\ preroll \in Seq(Arrivals)
        BY <1>1 DEF BaseTypes
    <2>2. Lined(heard, batch, preroll, Waiting, n)
        BY <1>1, <1>4 DEF TakenInLine
    <2>3. Lined(heard, batch, preroll, Waiting \cup {n + 1}, n + 1)
        BY <1>4, <2>1, <2>2, Later
    <2> QED
        BY <1>2, <1>6, <2>3 DEF TakenInLine
<1>11. Covered'
    <2>1. (since' + 1)..arrivals' \subseteq (since + 1)..arrivals \cup {n + 1}
        BY <1>1, <1>2, <1>3, Typed
    <2>2. Hand' = Hand
        BY <1>2 DEF Hand, Current
    <2> QED
        BY <1>1, <1>2, <1>6, <2>1, <2>2 DEF Covered
<1>20. Silent'
    <2>1. queue \in Seq(Item) /\ spill \in Spills0
        BY <1>1 DEF Line, InLine
    <2>2. CASE Spills
        <3>1. PICK r : r = With(g, spill, n + 1)
            OBVIOUS
        <3>2. q = FlushedQueue(queue, r)
            BY <1>3, <2>2, <3>1 DEF ReceiveAudio, Grown, With
        <3>3. PICK old, x : old = spill.at /\ x = n + 1
            OBVIOUS
        <3>4. Append(old, x) \in Seq(Arrivals)
            BY <1>4, <2>1, <3>3, SpillIs, AppendProperties
        <3>5. r \in Spills0
            BY <1>4, <3>1, <3>3, <3>4 DEF With, Spills0
        <3>6. Spans(q) = Spans(queue)
            BY <2>1, <3>2, <3>5, SpansFlush
        <3> QED
            BY <1>1, <1>2, <1>3, <3>6 DEF Silent
    <2>3. CASE ~Spills
        <3>1. PICK item : item = Audio(g, << n + 1 >>)
            OBVIOUS
        <3>2. << n + 1 >> \in Seq(Arrivals)
            BY <1>4
        <3>3. item \in Item /\ item.audio
            BY <1>4, <3>1, <3>2 DEF Audio, Item
        <3>4. q = Append(queue, item)
            BY <1>3, <2>3, <3>1 DEF ReceiveAudio
        <3>5. Spans(q) = Spans(queue)
            <4>1. Spans(q) = Spans(queue) \cup {it \in {item} : ~it.audio}
                BY <2>1, <3>3, <3>4, SpansAppend
            <4> QED
                BY <3>3, <4>1
        <3> QED
            BY <1>1, <1>2, <1>3, <3>5 DEF Silent
    <2> QED
        BY <2>2, <2>3
<1> QED
    BY <1>6, <1>7, <1>8, <1>9, <1>10, <1>11, <1>20 DEF Inv

\* The paused handler looks at the backlog again.
LEMMA PollPressureKeeps ==
    Inv /\ PollPressure => Inv'
<1> SUFFICES ASSUME Inv, PollPressure PROVE Inv'
    OBVIOUS
<1> USE DEF ingress, session, subtitles
<1>1. BaseTypes /\ Phases /\ Held /\ Line /\ Silent /\ TakenInLine /\ Covered
    BY DEF Inv
<1>2. /\ handler = "paused" /\ handler' \in {"paused", "receive"}
      /\ queue' = FlushedQueue(queue, spill) /\ spill' = FlushedSpill(queue, spill)
      /\ UNCHANGED << mlx, arrivals, samples, deferred, gen, since, finish, finished,
                      consumer, mine, batch, decoder, text, prefix, preroll, skipped,
                      heard, quiet, events >>
    BY DEF PollPressure
<1>3. PICK q, s : q = queue' /\ s = spill'
    OBVIOUS
<1>4. InLine(deferred, q, s, Label, Latest) /\ Content(deferred, q, s) = Waiting
    BY <1>1, <1>2, <1>3, FlushKeeps DEF Line, Waiting
<1>5. Line' /\ Waiting' = Waiting /\ Latest' = Latest
    <2>1. Label' = Label /\ Latest' = Latest
        BY <1>2 DEF Label, Latest
    <2> QED
        BY <1>2, <1>3, <1>4, <2>1 DEF Line, Waiting
<1>6. BaseTypes'
    <2>1. q \in Seq(Item) /\ Len(q) <= QueueSize /\ s \in [gen : Gens, at : Seq(Arrivals)]
        BY <1>4 DEF InLine, Spills0
    <2>2. handler' \in {"receive", "paused"}
        BY <1>2
    <2> QED
        BY <1>1, <1>2, <1>3, <2>1, <2>2 DEF BaseTypes
<1>7. Phases'
    <2>1. ~finished /\ ~finish /\ consumer \notin {"tail", "answering"}
        BY <1>1, <1>2 DEF Phases
    <2>2. gen' - 1 + (IF handler' = "making" THEN 1 ELSE 0) <= events'
        BY <1>1, <1>2, Typed DEF Phases
    <2> QED
        BY <1>1, <1>2, <2>1, <2>2 DEF Phases
<1>8. Held'
    BY <1>1, <1>2 DEF Held, Busy, Current
<1>9. TakenInLine'
    BY <1>1, <1>2, <1>5 DEF TakenInLine
<1>10. Covered'
    BY <1>1, <1>2, <1>5 DEF Covered, Hand, Current
<1>20. Silent'
    <2>1. queue \in Seq(Item) /\ spill \in Spills0
        BY <1>1 DEF Line, InLine
    <2>2. Spans(q) = Spans(queue)
        BY <1>2, <1>3, <2>1, SpansFlush
    <2> QED
        BY <1>1, <1>2, <1>3, <2>2 DEF Silent
<1> QED
    BY <1>5, <1>6, <1>7, <1>8, <1>9, <1>10, <1>20 DEF Inv

\* A silence span: it waits for its place in line.
LEMMA ReceiveSilenceKeeps ==
    Inv /\ ReceiveSilence => Inv'
<1> SUFFICES ASSUME Inv, ReceiveSilence PROVE Inv'
    OBVIOUS
<1> USE DEF ingress, session, subtitles
<1>1. BaseTypes /\ Phases /\ Held /\ Line /\ Silent /\ TakenInLine /\ Covered
    BY DEF Inv
<1>2. /\ handler = "receive" /\ handler' = "barrier" /\ arrivals < MaxArrivals
      /\ arrivals' = arrivals + 1 /\ quiet' = quiet \cup {arrivals + 1}
      /\ UNCHANGED << mlx, queue, spill, samples, deferred, gen, since, finish, finished,
                      consumer, mine, batch, decoder, text, prefix, preroll, skipped,
                      heard, events >>
    BY DEF ReceiveSilence
<1>3. arrivals \in Nat /\ since \in Nat /\ since <= arrivals /\ arrivals + 1 \in Arrivals
    BY <1>1, <1>2, Typed, Constants DEF Arrivals
<1>4. Line' /\ Waiting' = Waiting /\ Latest' = Latest
    <2>1. Label' = Label /\ Latest' = Latest
        BY <1>2, <1>3 DEF Label, Latest
    <2> QED
        BY <1>1, <1>2, <2>1 DEF Line, Waiting
<1>5. BaseTypes'
    <2>1. arrivals' \in 0..MaxArrivals /\ since' \in 0..arrivals'
        BY <1>2, <1>3, Constants
    <2>2. quiet' \subseteq Arrivals
        BY <1>1, <1>2, <1>3 DEF BaseTypes
    <2> QED
        BY <1>1, <1>2, <2>1, <2>2 DEF BaseTypes
<1>6. Phases'
    <2>1. ~finished /\ ~finish /\ consumer \notin {"tail", "answering"}
        BY <1>1, <1>2 DEF Phases
    <2>2. gen' - 1 + (IF handler' = "making" THEN 1 ELSE 0) <= events'
        BY <1>1, <1>2, Typed DEF Phases
    <2> QED
        BY <1>1, <1>2, <1>3, <2>1, <2>2 DEF Phases
<1>7. Held'
    BY <1>1, <1>2 DEF Held, Busy, Current
<1>8. TakenInLine'
    BY <1>1, <1>2, <1>4 DEF TakenInLine
<1>9. Covered'
    <2>1. (since' + 1)..arrivals' \subseteq (since + 1)..arrivals \cup {arrivals + 1}
        BY <1>2, <1>3
    <2>2. Hand' = Hand
        BY <1>2 DEF Hand, Current
    <2> QED
        BY <1>1, <1>2, <1>4, <2>1, <2>2 DEF Covered
<1>20. Silent'
    BY <1>1, <1>2 DEF Silent
<1> QED
    BY <1>4, <1>5, <1>6, <1>7, <1>8, <1>9, <1>20 DEF Inv

\* The silence span gets its place behind the audio before it.
LEMMA PlaceSilenceKeeps ==
    Inv /\ PlaceSilence => Inv'
<1> SUFFICES ASSUME Inv, PlaceSilence PROVE Inv'
    OBVIOUS
<1> USE DEF ingress, session, subtitles
<1>1. BaseTypes /\ Phases /\ Held /\ Line /\ Silent /\ TakenInLine /\ Covered
    BY DEF Inv
<1>2. /\ handler = "barrier" /\ handler' \in {"barrier", "receive"}
      /\ UNCHANGED << mlx, arrivals, samples, deferred, gen, since, finish, finished,
                      consumer, mine, batch, decoder, text, prefix, preroll, skipped,
                      heard, quiet, events >>
    BY DEF PlaceSilence
<1>3. PICK q, s, n, g : /\ q = FlushedQueue(queue, spill) /\ s = FlushedSpill(queue, spill)
                        /\ n = arrivals - 1 /\ g = gen
    OBVIOUS
<1>4. g \in Gens /\ Label = g /\ Latest = n /\ n + 1 = arrivals
    BY <1>1, <1>2, <1>3, Typed DEF Label, Latest
<1>5. InLine(deferred, q, s, g, n) /\ Content(deferred, q, s) = Waiting
    BY <1>1, <1>3, <1>4, FlushKeeps DEF Line, Waiting
<1>8. q \in Seq(Item) /\ Spans(q) = Spans(queue)
    <2>1. queue \in Seq(Item) /\ spill \in Spills0
        BY <1>1 DEF Line, InLine
    <2> QED
        BY <1>3, <2>1, SpansFlush
<1>6. CASE ~(s.at = << >> /\ Len(q) < QueueSize)
    <2>1. queue' = q /\ spill' = s /\ handler' = handler
        BY <1>3, <1>6 DEF PlaceSilence
    <2>2. Line' /\ Waiting' = Waiting /\ Latest' = Latest
        <3>1. Label' = g /\ Latest' = n
            BY <1>2, <1>3, <1>4, <2>1 DEF Label, Latest
        <3> QED
            BY <1>2, <1>4, <1>5, <2>1, <3>1 DEF Line, Waiting
    <2>3. BaseTypes'
        <3>1. q \in Seq(Item) /\ Len(q) <= QueueSize /\ s \in [gen : Gens, at : Seq(Arrivals)]
            BY <1>5 DEF InLine, Spills0
        <3> QED
            BY <1>1, <1>2, <2>1, <3>1 DEF BaseTypes
    <2>4. Phases'
        <3>1. ~finished /\ ~finish /\ consumer \notin {"tail", "answering"}
            BY <1>1, <1>2 DEF Phases
        <3> QED
            BY <1>1, <1>2, <2>1, <3>1 DEF Phases
    <2>5. Held'
        BY <1>1, <1>2 DEF Held, Busy, Current
    <2>6. TakenInLine'
        BY <1>1, <1>2, <2>2 DEF TakenInLine
    <2>7. Covered'
        BY <1>1, <1>2, <2>1, <2>2 DEF Covered, Hand, Current
    <2>8. Silent'
        BY <1>1, <1>2, <1>8, <2>1 DEF Silent
    <2> QED
        BY <2>2, <2>3, <2>4, <2>5, <2>6, <2>7, <2>8 DEF Inv
<1>7. CASE s.at = << >> /\ Len(q) < QueueSize
    <2>1. PICK item : item = Span(g, n + 1)
        OBVIOUS
    <2>2. n \in Nat /\ n + 1 \in Arrivals
        <3>1. arrivals \in Nat /\ arrivals <= MaxArrivals /\ since \in Nat /\ since < arrivals
            BY <1>1, <1>2, Typed DEF Phases
        <3> QED
            BY <1>3, <3>1, Constants DEF Arrivals
    <2>3. << n + 1 >> \in Seq(Arrivals)
        BY <2>2
    <2>4. item \in Item /\ item.gen = g /\ item.at = << n + 1 >>
        BY <1>4, <2>1, <2>3 DEF Span, Item
    <2>5. queue' = Append(q, item) /\ spill' = s /\ handler' = "receive"
        BY <1>3, <1>4, <1>7, <2>1 DEF PlaceSilence
    <2>6. /\ InLine(deferred, Append(q, item), s, g, n + 1)
          /\ Content(deferred, Append(q, item), s) = Waiting \cup {n + 1}
        BY <1>4, <1>5, <1>7, <2>2, <2>4, JoinQueue
    <2>7. Line' /\ Waiting' = Waiting \cup {n + 1} /\ Latest' = n + 1
        <3>1. Label' = g /\ Latest' = n + 1
            BY <1>2, <1>3, <1>4, <2>5 DEF Label, Latest
        <3> QED
            BY <1>2, <2>5, <2>6, <3>1 DEF Line, Waiting
    <2>8. BaseTypes'
        <3>1. /\ Append(q, item) \in Seq(Item) /\ Len(Append(q, item)) <= QueueSize
              /\ s \in [gen : Gens, at : Seq(Arrivals)]
            BY <2>6 DEF InLine, Spills0
        <3> QED
            BY <1>1, <1>2, <2>5, <3>1 DEF BaseTypes
    <2>9. Phases'
        <3>1. ~finished /\ ~finish /\ consumer \notin {"tail", "answering"}
            BY <1>1, <1>2 DEF Phases
        <3> QED
            BY <1>1, <1>2, <2>5, <3>1 DEF Phases
    <2>10. Held'
        BY <1>1, <1>2 DEF Held, Busy, Current
    <2>11. TakenInLine'
        <3>1. heard \in Seq(Arrivals) /\ batch \in Seq(Arrivals) /\ preroll \in Seq(Arrivals)
            BY <1>1 DEF BaseTypes
        <3>2. Lined(heard, batch, preroll, Waiting, n)
            BY <1>1, <1>4 DEF TakenInLine
        <3>3. Lined(heard, batch, preroll, Waiting \cup {n + 1}, n + 1)
            BY <2>2, <3>1, <3>2, Later
        <3> QED
            BY <1>2, <2>7, <3>3 DEF TakenInLine
    <2>12. Covered'
        BY <1>1, <1>2, <2>5, <2>7 DEF Covered, Hand, Current
    <2>13. Silent'
        <3>1. Range(item.at) \subseteq quiet
            <4>1. PICK one : one = << n + 1 >>
                OBVIOUS
            <4>2. one \in Seq(Arrivals) /\ Len(one) = 1 /\ one[1] = n + 1
                BY <2>3, <4>1
            <4>3. Range(one) = {one[i] : i \in 1..Len(one)}
                BY <4>2, RangeIs
            <4>4. arrivals \in quiet
                BY <1>1, <1>2 DEF Silent
            <4> QED
                BY <1>4, <2>4, <4>1, <4>2, <4>3, <4>4
        <3>2. Spans(queue') = Spans(queue) \cup {it \in {item} : ~it.audio}
            BY <1>8, <2>4, <2>5, SpansAppend
        <3> QED
            BY <1>1, <1>2, <2>5, <3>1, <3>2 DEF Silent
    <2> QED
        BY <2>7, <2>8, <2>9, <2>10, <2>11, <2>12, <2>13 DEF Inv
<1> QED
    BY <1>6, <1>7

-------------------------------------------------------------------------------
(* The consumer. *)

Mines == [gen : Gens, id : Nat, from : {0} \cup Gens]

\* The session goes on.
Going == ~finished /\ handler # "closed"

\* A step of the consumer before its end: what is left to show for the types
\* and the phases.
LEMMA ConsumerMoves ==
    ASSUME BaseTypes, Phases, Line', Going,
           UNCHANGED << mlx, handler, arrivals, gen, since, finish, finished >>,
           samples' \in Nat, events' \in {events, events + 1}, events' <= MaxEvents,
           consumer' \in {"idle", "decoding", "publishing", "committing", "closing",
                          "sealing", "rotating", "tail", "answering", "failed"},
           mine' \in Mines, mine'.id <= decoder'.id,
           batch' \in Seq(Arrivals), preroll' \in Seq(Arrivals), Len(preroll') <= PreRollSize,
           decoder' \in [id : Nat, used : BOOLEAN], text' \in {0} \cup Gens,
           prefix' \in {0} \cup Gens, skipped' \in BOOLEAN, heard' \in Seq(Arrivals),
           quiet' \subseteq Arrivals,
           consumer' \in {"tail", "answering"} =>
               /\ handler = "finishing"
               /\ deferred' = << >> /\ queue' = << >> /\ spill'.at = << >>
    PROVE  BaseTypes' /\ Phases'
<1>1. events' \in 0..MaxEvents /\ events <= events'
    BY Typed, Constants, SMTT(30)
<1>2. /\ queue' \in Seq(Item) /\ Len(queue') <= QueueSize /\ deferred' \in Seq(Item)
      /\ spill' \in [gen : Gens, at : Seq(Arrivals)]
    BY DEF Line, InLine, Spills0
<1>3. BaseTypes'
    <2>1. /\ consumer' \in {"idle", "decoding", "publishing", "committing", "closing", "sealing",
                            "rotating", "tail", "answering", "done", "failed"}
          /\ mine' \in [gen : Gens, id : Nat, from : {0} \cup Gens]
        BY DEF Mines
    <2> QED
        BY <1>1, <1>2, <2>1 DEF BaseTypes
<1>4. Phases'
    <2>1. gen' - 1 + (IF handler' = "making" THEN 1 ELSE 0) <= events'
        BY SMTT(30), <1>1, Typed DEF Phases
    <2> QED
        BY <2>1 DEF Phases, Going, Stopped
<1> QED
    BY <1>3, <1>4

\* Onward either cuts or waits for the next item.
LEMMA OnwardIs ==
    ASSUME NEW pre, NEW from, Onward(pre, from)
    PROVE  /\ prefix' \in {prefix, 0}
           /\ \/ /\ consumer' = "closing" /\ events < MaxEvents /\ events' = events + 1
                 /\ mine' = [gen |-> gen, id |-> decoder.id, from |-> from]
                 /\ batch' = pre /\ preroll' = << >>
              \/ /\ consumer' \in {"committing", "idle"} /\ events' = events
                 /\ mine' = Nothing /\ batch' = << >> /\ preroll' = pre
BY DEF Onward, Cut, CommitIdle, CommitSome

\* No call is under way.
LEMMA NothingIs ==
    Nothing \in Mines /\ Nothing.id = 0
BY Constants DEF Nothing, Mines

\* Where a step goes on, what it holds is silent, in line, and all that is not heard.
LEMMA OnwardKeeps ==
    ASSUME NEW pre \in Seq(Arrivals), NEW from \in {0} \cup Gens, Onward(pre, from),
           BaseTypes, Phases, Line', Going,
           UNCHANGED << mlx, handler, arrivals, gen, since, finish, finished >>,
           samples' \in Nat, decoder' \in [id : Nat, used : BOOLEAN],
           decoder'.id = decoder.id, text' \in {0} \cup Gens, skipped' \in BOOLEAN,
           heard' \in Seq(Arrivals), quiet' \subseteq Arrivals,
           Len(pre) <= PreRollSize, pre # << >> => skipped', Range(pre) \subseteq quiet',
           Silent', Lined(heard', << >>, pre, Waiting', Latest'),
           \/ handler = "closed"
           \/ (since + 1)..arrivals \subseteq Range(heard') \cup quiet' \cup Waiting'
    PROVE  Inv'
<1>1. /\ prefix' \in {prefix, 0}
      /\ \/ /\ consumer' = "closing" /\ events < MaxEvents /\ events' = events + 1
            /\ mine' = [gen |-> gen, id |-> decoder.id, from |-> from]
            /\ batch' = pre /\ preroll' = << >>
         \/ /\ consumer' \in {"committing", "idle"} /\ events' = events
            /\ mine' = Nothing /\ batch' = << >> /\ preroll' = pre
    BY OnwardIs
<1>2. /\ gen \in Gens /\ decoder.id \in Nat /\ events \in Nat /\ events <= MaxEvents
      /\ prefix \in {0} \cup Gens
    <2>1. prefix \in {0} \cup Gens
        BY DEF BaseTypes
    <2> QED
        BY <2>1, Typed
<1>3. mine' \in Mines /\ mine'.id <= decoder'.id
    BY <1>1, <1>2, NothingIs DEF Mines
<1>4. /\ batch' \in Seq(Arrivals) /\ preroll' \in Seq(Arrivals) /\ Len(preroll') <= PreRollSize
      /\ prefix' \in {0} \cup Gens
    <2>1. /\ batch' = pre \/ batch' = << >>
          /\ preroll' = pre \/ preroll' = << >>
          /\ prefix' = prefix \/ prefix' = 0
        BY <1>1
    <2>2. << >> \in Seq(Arrivals) /\ Len(<< >>) <= PreRollSize
        BY EmptyIs, Constants
    <2> QED
        BY <1>2, <2>1, <2>2
<1>5. events' \in {events, events + 1} /\ events' <= MaxEvents
    BY <1>1, <1>2, Constants
<1>6. consumer' \in {"idle", "committing", "closing"}
    BY <1>1
<1>7. BaseTypes' /\ Phases'
    BY <1>3, <1>4, <1>5, <1>6, ConsumerMoves
<1>8. Held'
    BY <1>1, EmptyIs DEF Held, Busy, Current
<1>9. TakenInLine'
    BY <1>1, LinedMoves DEF TakenInLine
<1>10. Covered'
    BY <1>6 DEF Covered, Hand, Going
<1> QED
    BY <1>7, <1>8, <1>9, <1>10 DEF Inv

\* The same for a step after which nothing is with the decoder.
LEMMA RestKeeps ==
    ASSUME BaseTypes, Phases, Line', Silent', Going,
           UNCHANGED << mlx, handler, arrivals, gen, since, finish, finished >>,
           samples' \in Nat, events' \in {events, events + 1}, events' <= MaxEvents,
           consumer' \in {"idle", "publishing", "committing", "sealing", "rotating",
                          "answering", "failed"},
           mine' \in Mines, mine'.id <= decoder'.id, batch' = << >>,
           preroll' \in Seq(Arrivals), Len(preroll') <= PreRollSize,
           decoder' \in [id : Nat, used : BOOLEAN], text' \in {0} \cup Gens,
           prefix' \in {0} \cup Gens, skipped' \in BOOLEAN, heard' \in Seq(Arrivals),
           quiet' \subseteq Arrivals,
           consumer' = "answering" =>
               /\ handler = "finishing"
               /\ deferred' = << >> /\ queue' = << >> /\ spill'.at = << >>,
           preroll' # << >> => skipped', Range(preroll') \subseteq quiet',
           Lined(heard', << >>, preroll', Waiting', Latest'),
           \/ consumer' = "failed" \/ handler = "closed"
           \/ (since + 1)..arrivals \subseteq Range(heard') \cup quiet' \cup Waiting'
    PROVE  Inv'
<1>1. batch' \in Seq(Arrivals)
    BY EmptyIs
<1>2. BaseTypes' /\ Phases'
    BY <1>1, ConsumerMoves
<1>3. Held'
    BY DEF Held, Busy
<1>4. TakenInLine'
    BY DEF TakenInLine
<1>5. Covered'
    BY DEF Covered, Hand, Going
<1> QED
    BY <1>2, <1>3, <1>4, <1>5 DEF Inv

\* What holds of the variables of the consumer.
LEMMA Holds ==
    ASSUME Inv
    PROVE  /\ samples \in Nat /\ text \in {0} \cup Gens /\ prefix \in {0} \cup Gens
           /\ decoder \in [id : Nat, used : BOOLEAN] /\ mine \in Mines
           /\ batch \in Seq(Arrivals) /\ preroll \in Seq(Arrivals) /\ heard \in Seq(Arrivals)
           /\ Len(preroll) <= PreRollSize /\ skipped \in BOOLEAN /\ quiet \subseteq Arrivals
           /\ gen \in Gens /\ events \in Nat /\ events <= MaxEvents /\ mine.id <= decoder.id
           /\ (consumer \notin {"done", "failed"} => Going)
BY Typed DEF Inv, BaseTypes, Phases, Mines, Going, Stopped

\* The queues are left alone.
LEMMA QueuesStay ==
    Inv /\ UNCHANGED << ingress, deferred, session, quiet >> =>
        Line' /\ Waiting' = Waiting /\ Latest' = Latest /\ Silent'
BY DEF Inv, Line, Silent, Label, Latest, Waiting, ingress, session

\* Nothing is with the decoder.
LEMMA IdleIs ==
    Inv /\ ~Busy =>
        /\ batch = << >> /\ Lined(heard, << >>, preroll, Waiting, Latest)
        /\ (preroll # << >> => skipped) /\ Range(preroll) \subseteq quiet
        /\ \/ consumer = "failed" \/ handler = "closed"
           \/ (since + 1)..arrivals \subseteq Range(heard) \cup quiet \cup Waiting
BY DEF Inv, Held, TakenInLine, Covered, Hand, Busy

\* The decoder has been fed.
LEMMA FedIs ==
    ASSUME Inv, Busy, Fed
    PROVE  /\ preroll = << >> /\ heard' \in Seq(Arrivals)
           /\ decoder' \in [id : Nat, used : BOOLEAN] /\ decoder'.id = decoder.id
           /\ Lined(heard', << >>, << >>, Waiting, Latest)
           /\ \/ handler = "closed"
              \/ (since + 1)..arrivals \subseteq Range(heard') \cup quiet \cup Waiting
<1>1. preroll = << >> /\ Lined(heard, batch, << >>, Waiting, Latest)
    BY DEF Inv, Held, TakenInLine
<1>2. heard \in Seq(Arrivals) /\ batch \in Seq(Arrivals) /\ decoder \in [id : Nat, used : BOOLEAN]
    BY Holds
<1>3. \/ handler = "closed"
      \/ (since + 1)..arrivals \subseteq Range(heard) \cup quiet \cup Hand \cup Waiting
    BY DEF Inv, Covered, Busy
<1>4. CASE Current
    <2>1. heard' = heard \o batch /\ decoder' = [decoder EXCEPT !.used = @ \/ batch # << >>]
        BY <1>4 DEF Fed
    <2>2. /\ heard \o batch \in Seq(Arrivals)
          /\ Range(heard \o batch) = Range(heard) \cup Range(batch)
          /\ Lined(heard \o batch, << >>, << >>, Waiting, Latest)
        BY <1>1, <1>2, LinedFeeds
    <2>3. decoder' \in [id : Nat, used : BOOLEAN] /\ decoder'.id = decoder.id
        BY <1>2, <2>1
    <2>4. Hand \subseteq Range(batch)
        BY DEF Hand
    <2>5. Range(heard') = Range(heard) \cup Range(batch)
        BY <2>1, <2>2
    <2>6. heard' \in Seq(Arrivals) /\ Lined(heard', << >>, << >>, Waiting, Latest)
        BY <2>1, <2>2
    <2> QED
        BY <1>1, <1>3, <2>3, <2>4, <2>5, <2>6
<1>5. CASE ~Current
    <2>1. heard' = heard /\ decoder' = decoder
        BY <1>5 DEF Fed
    <2>2. Hand = {}
        BY <1>5 DEF Hand
    <2>3. Lined(heard', << >>, << >>, Waiting, Latest)
        BY <1>1, <2>1, LinedMoves
    <2> QED
        BY <1>1, <1>2, <1>3, <2>1, <2>2, <2>3
<1> QED
    BY <1>4, <1>5

\* A tick of the empty queue, and the end of a publication.
LEMMA TickKeeps ==
    Inv /\ (Tick \/ Published) => Inv'
<1> SUFFICES ASSUME Inv, Tick \/ Published PROVE Inv'
    OBVIOUS
<1> USE DEF ingress, session, subtitles
<1>1. BaseTypes /\ Phases
    BY DEF Inv
<1>2. /\ consumer \in {"idle", "publishing"}
      /\ UNCHANGED << mlx, handler, arrivals, queue, spill, samples, deferred, gen, since,
                      finish, finished, text, decoder, skipped, heard, quiet >>
    BY DEF Tick, Published
<1>3. PICK pre, from : pre = preroll /\ from = (IF consumer = "idle" THEN text ELSE mine.from)
    OBVIOUS
<1>4. Onward(pre, from)
    BY <1>2, <1>3 DEF Tick, Published
<1>5. pre \in Seq(Arrivals) /\ Len(pre) <= PreRollSize /\ from \in {0} \cup Gens
    BY <1>3, Holds DEF Mines
<1>6. Line' /\ Waiting' = Waiting /\ Latest' = Latest /\ Silent'
    BY <1>2, QueuesStay
<1>7. /\ Lined(heard, << >>, pre, Waiting, Latest)
      /\ (pre # << >> => skipped) /\ Range(pre) \subseteq quiet
      /\ \/ handler = "closed"
         \/ (since + 1)..arrivals \subseteq Range(heard) \cup quiet \cup Waiting
    <2>1. ~Busy /\ consumer # "failed"
        BY <1>2 DEF Busy
    <2> QED
        BY <1>3, <2>1, IdleIs
<1>8. /\ samples' \in Nat /\ decoder' \in [id : Nat, used : BOOLEAN] /\ decoder'.id = decoder.id
      /\ text' \in {0} \cup Gens /\ skipped' \in BOOLEAN /\ heard' \in Seq(Arrivals)
      /\ quiet' \subseteq Arrivals /\ Going
    BY <1>2, Holds
<1>9. /\ Lined(heard', << >>, pre, Waiting', Latest')
      /\ (pre # << >> => skipped') /\ Range(pre) \subseteq quiet'
      /\ \/ handler = "closed"
         \/ (since + 1)..arrivals \subseteq Range(heard') \cup quiet' \cup Waiting'
    BY <1>2, <1>6, <1>7
<1> QED
    BY <1>1, <1>2, <1>4, <1>5, <1>6, <1>8, <1>9, OnwardKeeps

\* The consumer goes on with what it holds.
LEMMA CommitKeeps ==
    Inv /\ (CommitMore \/ Committed \/ Sealed) => Inv'
<1> SUFFICES ASSUME Inv, CommitMore \/ Committed \/ Sealed PROVE Inv'
    OBVIOUS
<1> USE DEF ingress, session, subtitles
<1>1. BaseTypes /\ Phases
    BY DEF Inv
<1>2. /\ consumer \in {"publishing", "sealing", "answering", "committing"}
      /\ consumer' \in {"publishing", "sealing", "answering", "idle", "rotating"}
      /\ (consumer' = "answering" => consumer = "answering")
      /\ prefix' \in {0, prefix, mine.from}
      /\ UNCHANGED << mlx, handler, arrivals, queue, spill, samples, deferred, gen, since,
                      finish, finished, mine, batch, text, decoder, preroll, skipped,
                      heard, quiet, events >>
    BY DEF CommitMore, Committed, Sealed
<1>3. Line' /\ Waiting' = Waiting /\ Latest' = Latest /\ Silent'
    BY <1>2, QueuesStay
<1>4. /\ batch = << >> /\ Lined(heard, << >>, preroll, Waiting, Latest)
      /\ (preroll # << >> => skipped) /\ Range(preroll) \subseteq quiet
      /\ \/ handler = "closed"
         \/ (since + 1)..arrivals \subseteq Range(heard) \cup quiet \cup Waiting
    <2>1. ~Busy /\ consumer # "failed"
        BY <1>2 DEF Busy
    <2> QED
        BY <2>1, IdleIs
<1>5. /\ samples' \in Nat /\ events' \in {events, events + 1} /\ events' <= MaxEvents
      /\ mine' \in Mines /\ mine'.id <= decoder'.id
      /\ preroll' \in Seq(Arrivals) /\ Len(preroll') <= PreRollSize
      /\ decoder' \in [id : Nat, used : BOOLEAN] /\ text' \in {0} \cup Gens
      /\ skipped' \in BOOLEAN /\ heard' \in Seq(Arrivals) /\ quiet' \subseteq Arrivals
      /\ Going
    BY <1>2, Holds
<1>6. prefix' \in {0} \cup Gens
    BY <1>2, Holds DEF Mines
<1>7. consumer' = "answering" =>
          handler = "finishing" /\ deferred' = << >> /\ queue' = << >> /\ spill'.at = << >>
    BY <1>1, <1>2 DEF Phases
<1>8. /\ batch' = << >> /\ Lined(heard', << >>, preroll', Waiting', Latest')
      /\ (preroll' # << >> => skipped') /\ Range(preroll') \subseteq quiet'
      /\ \/ handler = "closed"
         \/ (since + 1)..arrivals \subseteq Range(heard') \cup quiet' \cup Waiting'
    BY <1>2, <1>3, <1>4
<1> QED
    BY <1>1, <1>2, <1>3, <1>5, <1>6, <1>7, <1>8, RestKeeps

\* Back from a cut: a commit, or the next item.
LEMMA AfterCutIs ==
    ASSUME AfterCut
    PROVE  /\ consumer' \in {"idle", "committing"} /\ prefix' \in {0, prefix}
           /\ mine' = Nothing /\ batch' = << >>
BY DEF AfterCut, CommitIdle, CommitSome

\* The decoder of the next segment.
LEMMA RotatedKeeps ==
    Inv /\ Rotated => Inv'
<1> SUFFICES ASSUME Inv, Rotated PROVE Inv'
    OBVIOUS
<1> USE DEF ingress, session, subtitles
<1>1. BaseTypes /\ Phases
    BY DEF Inv
<1>2. /\ consumer = "rotating" /\ text' = 0
      /\ decoder' = IF Current THEN [id |-> decoder.id + 1, used |-> FALSE] ELSE decoder
      /\ UNCHANGED << mlx, handler, arrivals, queue, spill, samples, deferred, gen, since,
                      finish, finished, preroll, skipped, heard, quiet, events >>
    BY DEF Rotated
<1>3. /\ consumer' \in {"idle", "committing"} /\ prefix' \in {0, prefix}
      /\ mine' = Nothing /\ batch' = << >>
    BY AfterCutIs DEF Rotated
<1>4. Line' /\ Waiting' = Waiting /\ Latest' = Latest /\ Silent'
    BY <1>2, QueuesStay
<1>5. /\ Lined(heard, << >>, preroll, Waiting, Latest)
      /\ (preroll # << >> => skipped) /\ Range(preroll) \subseteq quiet
      /\ \/ handler = "closed"
         \/ (since + 1)..arrivals \subseteq Range(heard) \cup quiet \cup Waiting
    <2>1. ~Busy /\ consumer # "failed"
        BY <1>2 DEF Busy
    <2> QED
        BY <2>1, IdleIs
<1>6. decoder' \in [id : Nat, used : BOOLEAN] /\ decoder'.id \in Nat
    <2>1. decoder.id \in Nat /\ decoder \in [id : Nat, used : BOOLEAN]
        BY Holds
    <2> QED
        BY <1>2, <2>1
<1>7. mine' \in Mines /\ mine'.id <= decoder'.id
    BY <1>3, <1>6, NothingIs
<1>8. /\ samples' \in Nat /\ events' \in {events, events + 1} /\ events' <= MaxEvents
      /\ preroll' \in Seq(Arrivals) /\ Len(preroll') <= PreRollSize
      /\ text' \in {0} \cup Gens /\ prefix' \in {0} \cup Gens
      /\ skipped' \in BOOLEAN /\ heard' \in Seq(Arrivals) /\ quiet' \subseteq Arrivals
      /\ Going
    BY <1>2, <1>3, Holds
<1>9. /\ Lined(heard', << >>, preroll', Waiting', Latest')
      /\ (preroll' # << >> => skipped') /\ Range(preroll') \subseteq quiet'
      /\ \/ handler = "closed"
         \/ (since + 1)..arrivals \subseteq Range(heard') \cup quiet' \cup Waiting'
    BY <1>2, <1>4, <1>5
<1> QED
    BY <1>1, <1>2, <1>3, <1>4, <1>6, <1>7, <1>8, <1>9, RestKeeps

\* The decoder returns.
LEMMA DecodedKeeps ==
    Inv /\ Decoded => Inv'
<1> SUFFICES ASSUME Inv, Decoded PROVE Inv'
    OBVIOUS
<1> USE DEF ingress, session, subtitles
<1>1. BaseTypes /\ Phases
    BY DEF Inv
<1>2. /\ consumer = "decoding" /\ Fed
      /\ UNCHANGED << mlx, handler, arrivals, queue, spill, samples, deferred, gen, since,
                      finish, finished, skipped, quiet >>
    BY DEF Decoded
<1>3. Line' /\ Waiting' = Waiting /\ Latest' = Latest /\ Silent'
    BY <1>2, QueuesStay
<1>4. /\ preroll = << >> /\ heard' \in Seq(Arrivals)
      /\ decoder' \in [id : Nat, used : BOOLEAN] /\ decoder'.id = decoder.id
      /\ Lined(heard', << >>, << >>, Waiting, Latest)
      /\ \/ handler = "closed"
         \/ (since + 1)..arrivals \subseteq Range(heard') \cup quiet \cup Waiting
    <2>1. Busy
        BY <1>2 DEF Busy
    <2> QED
        BY <1>2, <2>1, FedIs
<1>5. /\ samples' \in Nat /\ skipped' \in BOOLEAN /\ quiet' \subseteq Arrivals /\ Going
      /\ text \in {0} \cup Gens /\ prefix \in {0} \cup Gens /\ gen \in Gens
      /\ mine \in Mines /\ mine.id <= decoder.id /\ events \in Nat /\ events <= MaxEvents
      /\ decoder.id \in Nat
    BY <1>2, Holds
<1>6. << >> \in Seq(Arrivals) /\ Len(<< >>) <= PreRollSize /\ Range(<< >>) = {}
    BY EmptyIs, Constants
<1>7. CASE UNCHANGED text /\ Onward(preroll, text)
    <2>1. PICK pre, from : pre = preroll /\ from = text
        OBVIOUS
    <2>2. Onward(pre, from) /\ pre = << >> /\ from \in {0} \cup Gens /\ text' \in {0} \cup Gens
        BY <1>4, <1>5, <1>7, <2>1
    <2>3. /\ pre \in Seq(Arrivals) /\ Len(pre) <= PreRollSize
          /\ (pre # << >> => skipped') /\ Range(pre) \subseteq quiet'
          /\ Lined(heard', << >>, pre, Waiting', Latest')
          /\ \/ handler = "closed"
             \/ (since + 1)..arrivals \subseteq Range(heard') \cup quiet' \cup Waiting'
        BY <1>2, <1>3, <1>4, <1>6, <2>2
    <2> QED
        BY <1>1, <1>2, <1>3, <1>4, <1>5, <2>2, <2>3, OnwardKeeps
<1>8. CASE ~(UNCHANGED text /\ Onward(preroll, text))
    <2>1. /\ consumer' \in {"idle", "publishing"} /\ batch' = << >>
          /\ mine' \in {Nothing, [mine EXCEPT !.from = gen]}
          /\ text' \in {text, gen} /\ prefix' \in {0, prefix}
          /\ preroll' = preroll /\ events' = events
        BY <1>8 DEF Decoded, CommitSome
    <2>2. mine' \in Mines /\ mine'.id <= decoder'.id
        <3>1. CASE mine' = Nothing
            BY <1>4, <1>5, <3>1, NothingIs
        <3>2. CASE mine' = [mine EXCEPT !.from = gen]
            BY <1>4, <1>5, <3>2 DEF Mines
        <3> QED
            BY <2>1, <3>1, <3>2
    <2>3. /\ text' \in {0} \cup Gens /\ prefix' \in {0} \cup Gens
          /\ events' \in {events, events + 1} /\ events' <= MaxEvents
        BY <1>5, <2>1
    <2>4. /\ preroll' \in Seq(Arrivals) /\ Len(preroll') <= PreRollSize
          /\ (preroll' # << >> => skipped') /\ Range(preroll') \subseteq quiet'
          /\ Lined(heard', << >>, preroll', Waiting', Latest')
          /\ \/ handler = "closed"
             \/ (since + 1)..arrivals \subseteq Range(heard') \cup quiet' \cup Waiting'
        BY <1>2, <1>3, <1>4, <1>6, <2>1
    <2> QED
        BY <1>1, <1>2, <1>3, <1>4, <1>5, <2>1, <2>2, <2>3, <2>4, RestKeeps
<1> QED
    BY <1>7, <1>8

\* A segment is closed.
LEMMA ClosedKeeps ==
    Inv /\ Closed => Inv'
<1> SUFFICES ASSUME Inv, Closed PROVE Inv'
    OBVIOUS
<1> USE DEF ingress, session, subtitles
<1>1. BaseTypes /\ Phases
    BY DEF Inv
<1>2. /\ consumer = "closing" /\ Fed /\ skipped' = (skipped /\ batch = << >>)
      /\ UNCHANGED << mlx, handler, arrivals, queue, spill, samples, deferred, gen, since,
                      finish, finished, preroll, quiet, events >>
    BY DEF Closed
<1>3. Line' /\ Waiting' = Waiting /\ Latest' = Latest /\ Silent'
    BY <1>2, QueuesStay
<1>4. /\ preroll = << >> /\ heard' \in Seq(Arrivals)
      /\ decoder' \in [id : Nat, used : BOOLEAN] /\ decoder'.id = decoder.id
      /\ Lined(heard', << >>, << >>, Waiting, Latest)
      /\ \/ handler = "closed"
         \/ (since + 1)..arrivals \subseteq Range(heard') \cup quiet \cup Waiting
    <2>1. Busy
        BY <1>2 DEF Busy
    <2> QED
        BY <1>2, <2>1, FedIs
<1>5. /\ samples' \in Nat /\ skipped' \in BOOLEAN /\ quiet' \subseteq Arrivals /\ Going
      /\ text \in {0} \cup Gens /\ prefix \in {0} \cup Gens /\ gen \in Gens
      /\ mine \in Mines /\ mine.id <= decoder.id /\ events \in Nat /\ events <= MaxEvents
      /\ decoder.id \in Nat
    BY <1>2, Holds
<1>6. << >> \in Seq(Arrivals) /\ Len(<< >>) <= PreRollSize /\ Range(<< >>) = {}
    BY EmptyIs, Constants
<1>7. \E from \in {mine.from, gen} :
          /\ text' \in {text, from} /\ prefix' \in {0, prefix} /\ batch' = << >>
          /\ consumer' \in {"idle", "committing", "sealing"}
          /\ mine' \in {Nothing, [mine EXCEPT !.from = from]}
    <2>1. PICK from \in {mine.from} \cup (IF Current /\ decoder'.used THEN {gen} ELSE {}) :
              \/ /\ ~Current \/ from # 0
                 /\ text' = IF Current THEN from ELSE text
                 /\ AfterCut
              \/ /\ Current
                 /\ text' = from /\ CommitSome(from)
                 /\ consumer' = "sealing" /\ mine' = [mine EXCEPT !.from = from]
                 /\ batch' = << >>
        BY DEF Closed
    <2>2. from \in {mine.from, gen}
        OBVIOUS
    <2>3. CASE text' = (IF Current THEN from ELSE text) /\ AfterCut
        BY <2>2, <2>3, AfterCutIs
    <2>4. CASE ~(text' = (IF Current THEN from ELSE text) /\ AfterCut)
        BY <2>1, <2>2, <2>4 DEF CommitSome
    <2> QED
        BY <2>3, <2>4
<1>8. PICK from \in {mine.from, gen} :
          /\ text' \in {text, from} /\ prefix' \in {0, prefix} /\ batch' = << >>
          /\ consumer' \in {"idle", "committing", "sealing"}
          /\ mine' \in {Nothing, [mine EXCEPT !.from = from]}
    BY <1>7
<1>9. from \in {0} \cup Gens
    BY <1>5 DEF Mines
<1>10. mine' \in Mines /\ mine'.id <= decoder'.id
    <2>1. CASE mine' = Nothing
        BY <1>4, <1>5, <2>1, NothingIs
    <2>2. CASE mine' = [mine EXCEPT !.from = from]
        BY <1>4, <1>5, <1>9, <2>2 DEF Mines
    <2> QED
        BY <1>8, <2>1, <2>2
<1>11. /\ text' \in {0} \cup Gens /\ prefix' \in {0} \cup Gens
       /\ events' \in {events, events + 1} /\ events' <= MaxEvents
    BY <1>2, <1>5, <1>8, <1>9
<1>12. /\ preroll' \in Seq(Arrivals) /\ Len(preroll') <= PreRollSize
       /\ (preroll' # << >> => skipped') /\ Range(preroll') \subseteq quiet'
       /\ Lined(heard', << >>, preroll', Waiting', Latest')
       /\ \/ handler = "closed"
          \/ (since + 1)..arrivals \subseteq Range(heard') \cup quiet' \cup Waiting'
    BY <1>2, <1>3, <1>4, <1>6
<1> QED
    BY <1>1, <1>2, <1>3, <1>4, <1>5, <1>8, <1>10, <1>11, <1>12, RestKeeps

\* The batch falls back into the held tail.
LEMMA LinedRolls ==
    ASSUME NEW h, NEW b \in Seq(Arrivals), NEW X, NEW n, Lined(h, b, << >>, X, n)
    PROVE  /\ Roll(<< >>, b) \in Seq(Arrivals) /\ Len(Roll(<< >>, b)) <= PreRollSize
           /\ Range(Roll(<< >>, b)) \subseteq Range(b)
           /\ (b = << >> => Roll(<< >>, b) = << >>)
           /\ Lined(h, << >>, Roll(<< >>, b), X, n)
<1>1. PICK roll, none : roll = Roll(none, b) /\ none = << >>
    OBVIOUS
<1>2. /\ none \in Seq(Arrivals) /\ Range(none) = {} /\ Rising(none)
    BY <1>1, EmptyIs
<1>3. Rising(b) /\ Below(Range(none), Range(b))
    BY <1>2 DEF Lined, Below
<1>4. /\ Roll(none, b) \in Seq(Arrivals) /\ Len(Roll(none, b)) <= PreRollSize
      /\ Range(Roll(none, b)) \subseteq Range(none) \cup Range(b)
      /\ Rising(Roll(none, b))
    BY <1>2, <1>3, RollIs
<1>5. /\ roll \in Seq(Arrivals) /\ Len(roll) <= PreRollSize /\ Range(roll) \subseteq Range(b)
      /\ Rising(roll)
    BY <1>1, <1>2, <1>4
<1>6. b = << >> => roll = << >>
    BY <1>5, EmptyIs, RangeIs
<1>7. Lined(h, << >>, roll, X, n)
    BY <1>5, EmptyIs DEF Lined, Below
<1> QED
    BY <1>1, <1>5, <1>6, <1>7

\* What the consumer holds when its task may fail: the batch can be lost, or
\* fall back into the held tail.
LEMMA BusyIs ==
    ASSUME Inv, Busy
    PROVE  /\ preroll = << >> /\ Lined(heard, << >>, << >>, Waiting, Latest)
           /\ Lined(heard, << >>, Roll(<< >>, batch), Waiting, Latest)
           /\ Roll(<< >>, batch) \in Seq(Arrivals) /\ Len(Roll(<< >>, batch)) <= PreRollSize
           /\ consumer # "decoding" =>
                  /\ Roll(<< >>, batch) # << >> => skipped
                  /\ Range(Roll(<< >>, batch)) \subseteq quiet
                  /\ \/ handler = "closed"
                     \/ (since + 1)..arrivals \subseteq Range(heard) \cup quiet \cup Waiting
<1>1. preroll = << >> /\ Lined(heard, batch, << >>, Waiting, Latest)
    BY DEF Inv, Held, TakenInLine
<1>2. batch \in Seq(Arrivals)
    BY Holds
<1>3. Lined(heard, << >>, << >>, Waiting, Latest)
    BY <1>1, LinedMoves
<1>4. /\ Roll(<< >>, batch) \in Seq(Arrivals) /\ Len(Roll(<< >>, batch)) <= PreRollSize
      /\ Range(Roll(<< >>, batch)) \subseteq Range(batch)
      /\ (batch = << >> => Roll(<< >>, batch) = << >>)
      /\ Lined(heard, << >>, Roll(<< >>, batch), Waiting, Latest)
    BY <1>1, <1>2, LinedRolls
<1>5. ASSUME consumer # "decoding"
      PROVE  /\ batch # << >> => skipped
             /\ Range(batch) \subseteq quiet
             /\ \/ handler = "closed"
                \/ (since + 1)..arrivals \subseteq Range(heard) \cup quiet \cup Waiting
    BY <1>5 DEF Inv, Held, Busy, Covered, Hand
<1> QED
    BY <1>1, <1>3, <1>4, <1>5

\* The close of a segment fails: its tail is held again.
LEMMA CloseFailsKeeps ==
    Inv /\ CloseFails => Inv'
<1> SUFFICES ASSUME Inv, CloseFails PROVE Inv'
    OBVIOUS
<1> USE DEF ingress, session, subtitles
<1>1. BaseTypes /\ Phases
    BY DEF Inv
<1>2. /\ consumer = "closing" /\ events < MaxEvents /\ events' = events + 1
      /\ UNCHANGED << mlx, handler, arrivals, queue, spill, samples, deferred, gen, since,
                      finish, finished, text, quiet >>
    BY DEF CloseFails
<1>3. /\ consumer' \in {"idle", "committing"} /\ prefix' \in {0, prefix}
      /\ mine' = Nothing /\ batch' = << >>
    BY AfterCutIs DEF CloseFails
<1>4. Line' /\ Waiting' = Waiting /\ Latest' = Latest /\ Silent'
    BY <1>2, QueuesStay
<1>5. Busy
    BY <1>2 DEF Busy
<1>6. /\ samples' \in Nat /\ quiet' \subseteq Arrivals /\ Going /\ text' \in {0} \cup Gens
      /\ prefix' \in {0} \cup Gens /\ events' \in {events, events + 1} /\ events' <= MaxEvents
      /\ skipped \in BOOLEAN /\ heard \in Seq(Arrivals)
      /\ decoder \in [id : Nat, used : BOOLEAN] /\ decoder.id \in Nat
    <2>1. events \in Nat /\ MaxEvents \in Nat
        BY Holds, Constants
    <2> QED
        BY <1>2, <1>3, <2>1, Holds
<1>7. << >> \in Seq(Arrivals) /\ Len(<< >>) <= PreRollSize /\ Range(<< >>) = {}
    BY EmptyIs, Constants
<1>8. CASE Fed /\ skipped' = (skipped /\ batch = << >>) /\ UNCHANGED preroll
    <2>1. /\ preroll = << >> /\ heard' \in Seq(Arrivals)
          /\ decoder' \in [id : Nat, used : BOOLEAN] /\ decoder'.id = decoder.id
          /\ Lined(heard', << >>, << >>, Waiting, Latest)
          /\ \/ handler = "closed"
             \/ (since + 1)..arrivals \subseteq Range(heard') \cup quiet \cup Waiting
        BY <1>5, <1>8, FedIs
    <2>2. mine' \in Mines /\ mine'.id <= decoder'.id
        BY <1>3, <1>6, <2>1, NothingIs
    <2>3. skipped' \in BOOLEAN
        BY <1>6, <1>8
    <2>4. /\ preroll' \in Seq(Arrivals) /\ Len(preroll') <= PreRollSize
          /\ (preroll' # << >> => skipped') /\ Range(preroll') \subseteq quiet'
          /\ Lined(heard', << >>, preroll', Waiting', Latest')
          /\ \/ handler = "closed"
             \/ (since + 1)..arrivals \subseteq Range(heard') \cup quiet' \cup Waiting'
        BY <1>2, <1>4, <1>7, <1>8, <2>1
    <2> QED
        BY <1>1, <1>2, <1>3, <1>4, <1>6, <2>1, <2>2, <2>3, <2>4, RestKeeps
<1>9. CASE ~(Fed /\ skipped' = (skipped /\ batch = << >>) /\ UNCHANGED preroll)
    <2>1. preroll' = Roll(preroll, batch) /\ UNCHANGED << heard, decoder, skipped >>
        BY <1>9 DEF CloseFails, Failed
    <2>2. /\ preroll = << >> /\ Lined(heard, << >>, Roll(<< >>, batch), Waiting, Latest)
          /\ Roll(<< >>, batch) \in Seq(Arrivals) /\ Len(Roll(<< >>, batch)) <= PreRollSize
          /\ Roll(<< >>, batch) # << >> => skipped
          /\ Range(Roll(<< >>, batch)) \subseteq quiet
          /\ \/ handler = "closed"
             \/ (since + 1)..arrivals \subseteq Range(heard) \cup quiet \cup Waiting
        BY <1>2, <1>5, BusyIs
    <2>3. mine' \in Mines /\ mine'.id <= decoder'.id
        BY <1>3, <1>6, <2>1, NothingIs
    <2>4. /\ preroll' \in Seq(Arrivals) /\ Len(preroll') <= PreRollSize
          /\ (preroll' # << >> => skipped') /\ Range(preroll') \subseteq quiet'
          /\ Lined(heard', << >>, preroll', Waiting', Latest')
          /\ \/ handler = "closed"
             \/ (since + 1)..arrivals \subseteq Range(heard') \cup quiet' \cup Waiting'
        BY <1>2, <1>4, <2>1, <2>2
    <2>5. /\ skipped' \in BOOLEAN /\ heard' \in Seq(Arrivals)
          /\ decoder' \in [id : Nat, used : BOOLEAN]
        BY <1>6, <2>1
    <2> QED
        BY <1>1, <1>2, <1>3, <1>4, <1>6, <2>3, <2>4, <2>5, RestKeeps
<1> QED
    BY <1>8, <1>9

\* The consumer fails.
LEMMA ConsumerFailsKeeps ==
    Inv /\ ConsumerFails => Inv'
<1> SUFFICES ASSUME Inv, ConsumerFails PROVE Inv'
    OBVIOUS
<1> USE DEF ingress, session, subtitles
<1>1. BaseTypes /\ Phases
    BY DEF Inv
<1>2. /\ consumer \in {"decoding", "publishing", "committing", "sealing", "rotating",
                       "tail", "answering"}
      /\ events < MaxEvents /\ events' = events + 1 /\ consumer' = "failed"
      /\ mine' = Nothing /\ batch' = << >>
      /\ preroll' = IF consumer = "tail" THEN Roll(preroll, batch) ELSE preroll
      /\ UNCHANGED << mlx, handler, arrivals, queue, spill, samples, deferred, gen, since,
                      finish, finished, decoder, text, prefix, skipped, heard, quiet >>
    BY DEF ConsumerFails, Failed
<1>3. Line' /\ Waiting' = Waiting /\ Latest' = Latest /\ Silent'
    BY <1>2, QueuesStay
<1>4. /\ samples' \in Nat /\ quiet' \subseteq Arrivals /\ Going /\ text' \in {0} \cup Gens
      /\ prefix' \in {0} \cup Gens /\ events' \in {events, events + 1} /\ events' <= MaxEvents
      /\ skipped' \in BOOLEAN /\ heard' \in Seq(Arrivals)
      /\ decoder' \in [id : Nat, used : BOOLEAN] /\ decoder'.id \in Nat
      /\ preroll \in Seq(Arrivals) /\ Len(preroll) <= PreRollSize
    <2>1. events \in Nat /\ MaxEvents \in Nat /\ decoder.id \in Nat
        BY Holds, Constants
    <2> QED
        BY <1>2, <2>1, Holds
<1>5. mine' \in Mines /\ mine'.id <= decoder'.id
    BY <1>2, <1>4, NothingIs
<1>6. /\ preroll' \in Seq(Arrivals) /\ Len(preroll') <= PreRollSize
      /\ (preroll' # << >> => skipped) /\ Range(preroll') \subseteq quiet
      /\ Lined(heard, << >>, preroll', Waiting, Latest)
    <2>1. CASE consumer = "tail"
        <3>1. Busy
            BY <2>1 DEF Busy
        <3>2. /\ preroll = << >> /\ Lined(heard, << >>, Roll(<< >>, batch), Waiting, Latest)
              /\ Roll(<< >>, batch) \in Seq(Arrivals) /\ Len(Roll(<< >>, batch)) <= PreRollSize
              /\ Roll(<< >>, batch) # << >> => skipped
              /\ Range(Roll(<< >>, batch)) \subseteq quiet
            BY <2>1, <3>1, BusyIs
        <3> QED
            BY <1>2, <2>1, <3>2
    <2>2. CASE consumer = "decoding"
        <3>1. Busy
            BY <2>2 DEF Busy
        <3>2. preroll = << >> /\ Lined(heard, << >>, << >>, Waiting, Latest)
            BY <3>1, BusyIs
        <3> QED
            BY <1>2, <1>4, <2>2, <3>2, EmptyIs
    <2>3. CASE consumer \notin {"tail", "decoding"}
        <3>1. ~Busy
            BY <1>2, <2>3 DEF Busy
        <3> QED
            BY <1>2, <1>4, <2>3, <3>1, IdleIs
    <2> QED
        BY <2>1, <2>2, <2>3
<1>7. /\ (preroll' # << >> => skipped') /\ Range(preroll') \subseteq quiet'
      /\ Lined(heard', << >>, preroll', Waiting', Latest')
    BY <1>2, <1>3, <1>6
<1> QED
    BY <1>1, <1>2, <1>3, <1>4, <1>5, <1>6, <1>7, RestKeeps

\* A drained session has nothing that waits.
LEMMA DrainedIs ==
    Inv /\ Drained => deferred = << >> /\ queue = << >> /\ spill.at = << >> /\ Waiting = {}
<1> SUFFICES ASSUME Inv, Drained
             PROVE  deferred = << >> /\ queue = << >> /\ spill.at = << >> /\ Waiting = {}
    OBVIOUS
<1>1. InLine(deferred, queue, spill, Label, Latest)
    BY DEF Inv, Line
<1>2. deferred = << >> /\ queue = << >> /\ spill.at = << >>
    BY <1>1, FlushKeeps DEF Drained, TopQueue, TopSpill
<1>3. Waiting = {}
    BY <1>2, EmptyIs, NoItems DEF Waiting, Content
<1> QED
    BY <1>2, <1>3

\* The loop of the consumer ends when nothing waits.
LEMMA EndKeeps ==
    Inv /\ End => Inv'
<1> SUFFICES ASSUME Inv, End PROVE Inv'
    OBVIOUS
<1> USE DEF ingress, session, subtitles
<1>1. BaseTypes /\ Phases
    BY DEF Inv
<1>2. /\ consumer = "idle" /\ finish
      /\ mine' = [gen |-> gen, id |-> decoder.id,
                  from |-> IF decoder.used THEN text ELSE 0]
      /\ preroll' = << >>
      /\ UNCHANGED << mlx, handler, arrivals, queue, spill, samples, deferred, gen, since,
                      finish, finished, decoder, text, skipped, heard, quiet, events >>
    BY DEF End
<1>3. Line' /\ Waiting' = Waiting /\ Latest' = Latest /\ Silent'
    BY <1>2, QueuesStay
<1>4. /\ Lined(heard, << >>, preroll, Waiting, Latest)
      /\ (preroll # << >> => skipped) /\ Range(preroll) \subseteq quiet
      /\ \/ handler = "closed"
         \/ (since + 1)..arrivals \subseteq Range(heard) \cup quiet \cup Waiting
    <2>1. ~Busy /\ consumer # "failed"
        BY <1>2 DEF Busy
    <2> QED
        BY <2>1, IdleIs
<1>5. Lined(heard, << >>, << >>, Waiting, Latest) /\ Lined(heard, preroll, << >>, Waiting, Latest)
    BY <1>4, LinedMoves
<1>6. /\ samples' \in Nat /\ events' \in {events, events + 1} /\ events' <= MaxEvents
      /\ decoder' \in [id : Nat, used : BOOLEAN] /\ text' \in {0} \cup Gens
      /\ skipped' \in BOOLEAN /\ heard' \in Seq(Arrivals) /\ quiet' \subseteq Arrivals
      /\ Going /\ preroll \in Seq(Arrivals) /\ decoder.id \in Nat
      /\ text \in {0} \cup Gens /\ prefix \in {0} \cup Gens /\ gen \in Gens
    BY <1>2, Holds
<1>7. mine' \in Mines /\ mine'.id <= decoder'.id /\ mine'.id = decoder.id
    BY <1>2, <1>6 DEF Mines
<1>8. /\ handler = "finishing"
      /\ deferred' = << >> /\ queue' = << >> /\ spill'.at = << >>
    <2>1. handler = "finishing"
        BY <1>1, <1>2, <1>6 DEF Phases, Going
    <2>2. deferred = << >> /\ queue = << >> /\ spill.at = << >>
        BY DrainedIs DEF End
    <2> QED
        BY <1>2, <2>1, <2>2
<1>9. preroll' \in Seq(Arrivals) /\ Len(preroll') <= PreRollSize /\ Range(preroll') = {}
    BY <1>2, EmptyIs, Constants
<1>10. CASE decoder.used
    <2>1. batch' = preroll /\ consumer' = "tail" /\ prefix' = prefix
        BY <1>10 DEF End
    <2>2. BaseTypes' /\ Phases'
        <3>1. batch' \in Seq(Arrivals) /\ prefix' \in {0} \cup Gens
            BY <1>6, <2>1
        <3> QED
            BY <1>1, <1>2, <1>3, <1>6, <1>7, <1>8, <1>9, <2>1, <3>1, ConsumerMoves
    <2>3. Held'
        <3>1. Current'
            BY <1>2, <1>7 DEF Current
        <3> QED
            BY <1>2, <1>4, <1>9, <2>1, <3>1 DEF Held, Busy
    <2>4. TakenInLine'
        BY <1>2, <1>3, <1>5, <2>1 DEF TakenInLine
    <2>5. Covered'
        BY <1>2, <1>3, <1>4, <1>6 DEF Covered, Going
    <2> QED
        BY <1>3, <2>2, <2>3, <2>4, <2>5 DEF Inv
<1>11. CASE ~decoder.used
    <2>1. batch' = << >> /\ consumer' = "answering" /\ prefix' \in {0, prefix}
        BY <1>11 DEF End, CommitSome
    <2>2. prefix' \in {0} \cup Gens
        BY <1>6, <2>1
    <2>3. /\ Lined(heard', << >>, preroll', Waiting', Latest')
          /\ (preroll' # << >> => skipped') /\ Range(preroll') \subseteq quiet'
          /\ \/ handler = "closed"
             \/ (since + 1)..arrivals \subseteq Range(heard') \cup quiet' \cup Waiting'
        BY <1>2, <1>3, <1>4, <1>5, <1>9
    <2> QED
        BY <1>1, <1>2, <1>3, <1>6, <1>7, <1>8, <1>9, <2>1, <2>2, <2>3, RestKeeps
<1> QED
    BY <1>10, <1>11

\* The decoder has heard the tail.
LEMMA TailHeardKeeps ==
    Inv /\ TailHeard => Inv'
<1> SUFFICES ASSUME Inv, TailHeard PROVE Inv'
    OBVIOUS
<1> USE DEF ingress, session, subtitles
<1>1. BaseTypes /\ Phases
    BY DEF Inv
<1>2. /\ consumer = "tail" /\ consumer' = "answering" /\ Fed
      /\ skipped' = (skipped /\ batch = << >>)
      /\ mine' = [mine EXCEPT !.from = gen] /\ prefix' \in {0, prefix} /\ batch' = << >>
      /\ UNCHANGED << mlx, handler, arrivals, queue, spill, samples, deferred, gen, since,
                      finish, finished, text, preroll, quiet, events >>
    BY DEF TailHeard, CommitSome
<1>3. Line' /\ Waiting' = Waiting /\ Latest' = Latest /\ Silent'
    BY <1>2, QueuesStay
<1>4. /\ preroll = << >> /\ heard' \in Seq(Arrivals)
      /\ decoder' \in [id : Nat, used : BOOLEAN] /\ decoder'.id = decoder.id
      /\ Lined(heard', << >>, << >>, Waiting, Latest)
      /\ \/ handler = "closed"
         \/ (since + 1)..arrivals \subseteq Range(heard') \cup quiet \cup Waiting
    <2>1. Busy
        BY <1>2 DEF Busy
    <2> QED
        BY <1>2, <2>1, FedIs
<1>5. /\ samples' \in Nat /\ skipped' \in BOOLEAN /\ quiet' \subseteq Arrivals /\ Going
      /\ text' \in {0} \cup Gens /\ prefix' \in {0} \cup Gens
      /\ events' \in {events, events + 1} /\ events' <= MaxEvents
      /\ mine \in Mines /\ mine.id <= decoder.id /\ gen \in Gens
    BY <1>2, Holds
<1>6. mine' \in Mines /\ mine'.id <= decoder'.id
    BY <1>2, <1>4, <1>5 DEF Mines
<1>7. /\ handler = "finishing"
      /\ deferred' = << >> /\ queue' = << >> /\ spill'.at = << >>
    BY <1>1, <1>2 DEF Phases
<1>8. /\ preroll' \in Seq(Arrivals) /\ Len(preroll') <= PreRollSize
      /\ (preroll' # << >> => skipped') /\ Range(preroll') \subseteq quiet'
      /\ Lined(heard', << >>, preroll', Waiting', Latest')
      /\ \/ handler = "closed"
         \/ (since + 1)..arrivals \subseteq Range(heard') \cup quiet' \cup Waiting'
    BY <1>2, <1>3, <1>4, EmptyIs, Constants
<1> QED
    BY <1>1, <1>2, <1>3, <1>4, <1>5, <1>6, <1>7, <1>8, RestKeeps

\* The final message.
LEMMA AnswerKeeps ==
    Inv /\ Answer => Inv'
<1> SUFFICES ASSUME Inv, Answer PROVE Inv'
    OBVIOUS
<1> USE DEF ingress, session, subtitles
<1>1. BaseTypes /\ Phases /\ Held
    BY DEF Inv
<1>2. /\ consumer = "answering" /\ consumer' = "done" /\ mine' = Nothing /\ finished' = TRUE
      /\ UNCHANGED << mlx, handler, arrivals, queue, spill, samples, deferred, gen, since,
                      finish, batch, decoder, text, prefix, preroll, skipped, heard,
                      quiet, events >>
    BY DEF Answer
<1>3. Line' /\ Waiting' = Waiting /\ Latest' = Latest /\ Silent'
    BY <1>2 DEF Inv, Line, Silent, Label, Latest, Waiting
<1>4. /\ batch = << >> /\ Lined(heard, << >>, preroll, Waiting, Latest)
      /\ Going
      /\ (since + 1)..arrivals \subseteq Range(heard) \cup quiet \cup Waiting
    <2>1. ~Busy /\ consumer # "failed"
        BY <1>2 DEF Busy
    <2> QED
        BY <1>2, <2>1, IdleIs, Holds DEF Going
<1>5. mine' \in Mines /\ mine'.id <= decoder'.id
    BY <1>2, NothingIs, Holds, Typed, <1>1
<1>6. BaseTypes'
    BY <1>1, <1>2, <1>5 DEF BaseTypes, Mines
<1>7. Phases'
    <2>1. /\ handler = "finishing" /\ finish
          /\ deferred = << >> /\ queue = << >> /\ spill.at = << >>
        BY <1>1, <1>2 DEF Phases
    <2> QED
        BY <1>1, <1>2, <1>5, <2>1 DEF Phases, Stopped
<1>8. Held'
    BY <1>1, <1>2, <1>4 DEF Held, Busy
<1>9. TakenInLine'
    BY <1>2, <1>3, <1>4 DEF TakenInLine
<1>10. Covered'
    BY <1>2, <1>3, <1>4 DEF Covered
<1> QED
    BY <1>3, <1>6, <1>7, <1>8, <1>9, <1>10 DEF Inv

\* An item is taken: what is left is in line.
LEMMA TakeIs ==
    ASSUME Inv, HasItem
    PROVE  /\ InLine(LeftDeferred, LeftQueue, LeftSpill, Label, Latest)
           /\ NextItem \in Item /\ NextItem.gen = Label
           /\ Waiting = Range(NextItem.at) \cup Content(LeftDeferred, LeftQueue, LeftSpill)
           /\ Spans(LeftDeferred) \cup Spans(LeftQueue) \subseteq Spans(deferred) \cup Spans(queue)
           /\ (~NextItem.audio => Range(NextItem.at) \subseteq quiet)
<1>1. InLine(deferred, queue, spill, Label, Latest)
    BY DEF Inv, Line
<1>2. /\ InLine(LeftDeferred, LeftQueue, LeftSpill, Label, Latest)
      /\ NextItem \in Item /\ NextItem.gen = Label
      /\ Content(deferred, queue, spill) =
             Range(NextItem.at) \cup Content(LeftDeferred, LeftQueue, LeftSpill)
    BY <1>1, TakeItem
<1>3. /\ Spans(LeftDeferred) \cup Spans(LeftQueue) \subseteq Spans(deferred) \cup Spans(queue)
      /\ ~NextItem.audio => NextItem \in Spans(deferred) \cup Spans(queue)
    BY <1>1, SpansTake
<1>4. ~NextItem.audio => Range(NextItem.at) \subseteq quiet
    BY <1>3 DEF Inv, Silent
<1> QED
    BY <1>2, <1>3, <1>4 DEF Waiting

\* An item of an earlier session is dropped.
LEMMA DropStaleKeeps ==
    Inv /\ DropStale => Inv'
<1> SUFFICES ASSUME Inv, DropStale PROVE Inv'
    OBVIOUS
<1> USE DEF ingress, session, subtitles
<1>1. BaseTypes /\ Phases /\ Silent
    BY DEF Inv
<1>2. /\ HasItem /\ consumer = "idle" /\ NextItem.gen # gen
      /\ queue' = LeftQueue /\ deferred' = LeftDeferred /\ spill' = LeftSpill
      /\ samples' = Less(samples, Size(NextItem))
      /\ UNCHANGED << mlx, handler, arrivals, gen, since, finish, finished, consumer, mine,
                      batch, decoder, text, prefix, preroll, skipped, heard, quiet, events >>
    BY DEF DropStale, HasItem
<1>3. /\ InLine(LeftDeferred, LeftQueue, LeftSpill, Label, Latest)
      /\ NextItem \in Item /\ NextItem.gen = Label
      /\ Waiting = Range(NextItem.at) \cup Content(LeftDeferred, LeftQueue, LeftSpill)
      /\ Spans(LeftDeferred) \cup Spans(LeftQueue) \subseteq Spans(deferred) \cup Spans(queue)
    BY <1>2, TakeIs
<1>4. Label' = Label /\ Latest' = Latest
    BY <1>2 DEF Label, Latest
<1>5. Line' /\ Waiting' \subseteq Waiting /\ Silent'
    BY <1>1, <1>2, <1>3, <1>4 DEF Line, Waiting, Silent
<1>6. (since + 1)..arrivals = {}
    <2>1. handler = "resetting"
        BY <1>2, <1>3 DEF Label
    <2> QED
        BY <1>1, <2>1, Typed DEF Phases
<1>7. samples' \in Nat
    <2>1. Size(NextItem) \in Nat
        BY <1>3, ItemIs, LenProperties DEF Size
    <2>2. PICK i \in Nat, j \in Nat : i = samples /\ j = Size(NextItem)
        BY <2>1, Holds
    <2>3. Less(i, j) \in Nat
        BY DEF Less
    <2> QED
        BY <1>2, <2>2, <2>3
<1>8. /\ batch = << >> /\ Lined(heard, << >>, preroll, Waiting, Latest)
      /\ (preroll # << >> => skipped) /\ Range(preroll) \subseteq quiet
    <2>1. ~Busy /\ consumer # "failed"
        BY <1>2 DEF Busy
    <2> QED
        BY <2>1, IdleIs
<1>9. Lined(heard', << >>, preroll', Waiting', Latest')
    BY <1>2, <1>4, <1>5, <1>8, LinedMoves
<1>10. /\ events' \in {events, events + 1} /\ events' <= MaxEvents
       /\ mine' \in Mines /\ mine'.id <= decoder'.id
       /\ preroll' \in Seq(Arrivals) /\ Len(preroll') <= PreRollSize
       /\ decoder' \in [id : Nat, used : BOOLEAN] /\ text' \in {0} \cup Gens
       /\ prefix' \in {0} \cup Gens /\ skipped' \in BOOLEAN /\ heard' \in Seq(Arrivals)
       /\ quiet' \subseteq Arrivals /\ Going
    BY <1>2, Holds
<1>11. /\ batch' = << >> /\ (preroll' # << >> => skipped') /\ Range(preroll') \subseteq quiet'
       /\ (since + 1)..arrivals \subseteq Range(heard') \cup quiet' \cup Waiting'
    BY <1>2, <1>6, <1>8
<1> QED
    BY <1>1, <1>2, <1>5, <1>7, <1>9, <1>10, <1>11, RestKeeps

\* A silence span is taken.
LEMMA TakeSpanKeeps ==
    Inv /\ TakeSpan => Inv'
<1> SUFFICES ASSUME Inv, TakeSpan PROVE Inv'
    OBVIOUS
<1> USE DEF ingress, session, subtitles
<1>1. BaseTypes /\ Phases /\ Silent
    BY DEF Inv
<1>2. /\ HasItem /\ consumer = "idle" /\ ~NextItem.audio
      /\ queue' = LeftQueue /\ deferred' = LeftDeferred /\ spill' = LeftSpill
      /\ skipped' = TRUE
      /\ UNCHANGED << mlx, handler, arrivals, samples, gen, since, finish, finished, text,
                      decoder, heard, quiet >>
    BY DEF TakeSpan, HasItem
<1>3. /\ InLine(LeftDeferred, LeftQueue, LeftSpill, Label, Latest)
      /\ Waiting = Range(NextItem.at) \cup Content(LeftDeferred, LeftQueue, LeftSpill)
      /\ Spans(LeftDeferred) \cup Spans(LeftQueue) \subseteq Spans(deferred) \cup Spans(queue)
      /\ Range(NextItem.at) \subseteq quiet
    BY <1>2, TakeIs
<1>4. Label' = Label /\ Latest' = Latest
    BY <1>2 DEF Label, Latest
<1>5. Line' /\ Waiting' \subseteq Waiting /\ Waiting \subseteq quiet \cup Waiting' /\ Silent'
    BY <1>1, <1>2, <1>3, <1>4 DEF Line, Waiting, Silent
<1>6. /\ Lined(heard, << >>, preroll, Waiting, Latest) /\ Range(preroll) \subseteq quiet
      /\ \/ handler = "closed"
         \/ (since + 1)..arrivals \subseteq Range(heard) \cup quiet \cup Waiting
    <2>1. ~Busy /\ consumer # "failed"
        BY <1>2 DEF Busy
    <2> QED
        BY <2>1, IdleIs
<1>7. PICK pre, from : pre \in {preroll, << >>} /\ from = text /\ Onward(pre, from)
    BY DEF TakeSpan
<1>8. Lined(heard', << >>, pre, Waiting', Latest')
    <2>1. Lined(heard, << >>, pre, Waiting, Latest)
        BY <1>6, <1>7, LinedMoves
    <2> QED
        BY <1>2, <1>4, <1>5, <2>1, LinedMoves
<1>9. /\ pre \in Seq(Arrivals) /\ Len(pre) <= PreRollSize /\ Range(pre) \subseteq quiet'
      /\ from \in {0} \cup Gens
    <2>1. CASE pre = preroll
        BY <1>2, <1>6, <1>7, <2>1, Holds
    <2>2. CASE pre = << >>
        BY <1>7, <2>2, Holds, EmptyIs, Constants
    <2> QED
        BY <1>7, <2>1, <2>2
<1>10. /\ samples' \in Nat /\ decoder' \in [id : Nat, used : BOOLEAN]
       /\ decoder'.id = decoder.id /\ text' \in {0} \cup Gens /\ skipped' \in BOOLEAN
       /\ heard' \in Seq(Arrivals) /\ quiet' \subseteq Arrivals /\ Going
    BY <1>2, Holds
<1>11. /\ (pre # << >> => skipped')
       /\ \/ handler = "closed"
          \/ (since + 1)..arrivals \subseteq Range(heard') \cup quiet' \cup Waiting'
    BY <1>2, <1>5, <1>6
<1> QED
    BY <1>1, <1>2, <1>5, <1>7, <1>8, <1>9, <1>10, <1>11, OnwardKeeps

\* A batch of audio is taken, and decoded or skipped.
LEMMA TakeAudioKeeps ==
    ASSUME Inv, NEW target \in 1..BatchSize, NEW k \in 0..QueueSize, NEW kept \in Arrivals,
           TakeAudio(target, k, kept)
    PROVE  Inv'
<1> USE DEF ingress, session, subtitles
<1>1. BaseTypes /\ Phases /\ Silent
    BY DEF Inv
<1>2. /\ HasItem /\ consumer = "idle" /\ NextItem.gen = gen
      /\ UNCHANGED << mlx, handler, arrivals, gen, since, finish, finished, heard >>
    BY DEF TakeAudio, HasItem
<1>3. Label = gen
    BY <1>2, TakeIs
<1>4. k \in Nat /\ kept \in Nat /\ gen \in Gens /\ samples \in Nat
    BY Constants, Holds
<1>5. InLine(deferred, queue, spill, gen, Latest)
    BY <1>3 DEF Inv, Line
<1>6. PICK n, g : n = Latest /\ g = gen
    OBVIOUS
<1>7. /\ samples' \in Nat
      /\ \E part \in Seq(Arrivals) :
             /\ Rising(part) /\ (Skip(part) \/ Decode(part))
             /\ InLine(deferred', queue', spill', gen, n)
             /\ Content(deferred, queue, spill) =
                    Range(part) \cup Content(deferred', queue', spill')
             /\ Below(Range(part), Content(deferred', queue', spill'))
    BY <1>4, <1>5, <1>6, Pulled
<1>8. PICK part \in Seq(Arrivals) :
             /\ Rising(part) /\ (Skip(part) \/ Decode(part))
             /\ InLine(deferred', queue', spill', gen, n)
             /\ Content(deferred, queue, spill) =
                    Range(part) \cup Content(deferred', queue', spill')
             /\ Below(Range(part), Content(deferred', queue', spill'))
    BY <1>7
<1>9. Label' = Label /\ Latest' = Latest
    BY <1>2 DEF Label, Latest
<1>10. Line' /\ Waiting = Range(part) \cup Waiting' /\ Below(Range(part), Waiting')
    BY <1>3, <1>6, <1>8, <1>9 DEF Line, Waiting
<1>11. Spans(deferred') \cup Spans(queue') \subseteq Spans(deferred) \cup Spans(queue)
    BY <1>4, <1>5, <1>6, <1>8, SpansPull
<1>12. /\ Lined(heard, << >>, preroll, Waiting, Latest)
       /\ (preroll # << >> => skipped) /\ Range(preroll) \subseteq quiet
       /\ \/ handler = "closed"
          \/ (since + 1)..arrivals \subseteq Range(heard) \cup quiet \cup Waiting
    <2>1. ~Busy /\ consumer # "failed"
        BY <1>2 DEF Busy
    <2> QED
        BY <2>1, IdleIs
<1>13. /\ text \in {0} \cup Gens /\ prefix \in {0} \cup Gens
       /\ decoder \in [id : Nat, used : BOOLEAN] /\ preroll \in Seq(Arrivals)
       /\ heard \in Seq(Arrivals) /\ Len(preroll) <= PreRollSize /\ skipped \in BOOLEAN
       /\ quiet \subseteq Arrivals /\ decoder.id \in Nat /\ events \in Nat
       /\ events <= MaxEvents /\ Going
    BY <1>2, Holds
<1>14. PICK W, X : W = Waiting' /\ X = Waiting
    OBVIOUS
<1>15. \A m \in X : m <= n
    BY <1>5, <1>6, <1>14 DEF InLine, Waiting
<1>16. /\ preroll \o part \in Seq(Arrivals)
       /\ Range(preroll \o part) = Range(preroll) \cup Range(part)
       /\ Lined(heard, preroll \o part, << >>, W, n) /\ Lined(heard, part, << >>, W, n)
       /\ Lined(heard, << >>, Roll(preroll, part), W, n)
    <2>1. PICK h, p : h = heard /\ p = preroll
        OBVIOUS
    <2>2. X = Range(part) \cup W
        BY <1>10, <1>14
    <2>3. Lined(h, << >>, p, Range(part) \cup W, n)
        BY <1>6, <1>12, <1>14, <2>1, <2>2
    <2>4. Below(Range(part), W)
        BY <1>10, <1>14
    <2>5. Rising(part)
        BY <1>8
    <2>6. p \in Seq(Arrivals) /\ part \in Seq(Arrivals)
        BY <1>13, <2>1
    <2>7. \A m \in Range(part) \cup W : m <= n
        BY <1>15, <2>2
    <2>8. /\ p \o part \in Seq(Arrivals) /\ Range(p \o part) = Range(p) \cup Range(part)
          /\ Lined(h, p \o part, << >>, W, n) /\ Lined(h, part, << >>, W, n)
          /\ Lined(h, << >>, Roll(p, part), W, n)
        BY ONLY <2>3, <2>4, <2>5, <2>6, <2>7, LinedTakes
    <2> QED
        BY <2>1, <2>8
<1>17. part \in Seq(Arrivals) /\ Range(part) \subseteq Arrivals
    BY RangeIs
<1>18. CASE Skip(part)
    <2>1. /\ skipped' = TRUE /\ quiet' = quiet \cup Range(part) /\ text' = text
          /\ decoder' = decoder /\ Onward(Roll(preroll, part), text)
        BY <1>18 DEF Skip
    <2>2. PICK pre, from : pre = Roll(preroll, part) /\ from = text
        OBVIOUS
    <2>3. /\ pre \in Seq(Arrivals) /\ Len(pre) <= PreRollSize
          /\ Range(pre) \subseteq Range(preroll) \cup Range(part)
        BY <1>13, <2>2, RollIs
    <2>4. Onward(pre, from) /\ from \in {0} \cup Gens
        BY <1>13, <2>1, <2>2
    <2>5. Silent'
        BY <1>1, <1>2, <1>11, <2>1 DEF Silent
    <2>6. /\ decoder' \in [id : Nat, used : BOOLEAN] /\ decoder'.id = decoder.id
          /\ text' \in {0} \cup Gens /\ skipped' \in BOOLEAN /\ heard' \in Seq(Arrivals)
          /\ quiet' \subseteq Arrivals
        BY <1>2, <1>13, <1>17, <2>1
    <2>7. (pre # << >> => skipped') /\ Range(pre) \subseteq quiet'
        BY <1>12, <2>1, <2>3
    <2>8. Lined(heard', << >>, pre, Waiting', Latest')
        BY <1>2, <1>6, <1>9, <1>14, <1>16, <2>2
    <2>9. \/ handler = "closed"
          \/ (since + 1)..arrivals \subseteq Range(heard') \cup quiet' \cup Waiting'
        BY <1>2, <1>10, <1>12, <2>1
    <2> QED
        BY <1>1, <1>2, <1>7, <1>10, <1>13, <2>3, <2>4, <2>5, <2>6, <2>7, <2>8, <2>9,
           OnwardKeeps
<1>19. CASE Decode(part)
    <2>1. /\ consumer' = "decoding"
          /\ mine' = [gen |-> gen, id |-> decoder.id, from |-> 0]
          /\ batch' = (IF skipped THEN preroll \o part ELSE part)
          /\ preroll' = (IF skipped THEN << >> ELSE preroll)
          /\ skipped' = FALSE
          /\ UNCHANGED << decoder, text, prefix, quiet, events >>
        BY <1>19 DEF Decode
    <2>2. preroll' = << >>
        BY <1>12, <2>1
    <2>3. /\ batch' \in Seq(Arrivals) /\ Range(part) \subseteq Range(batch')
          /\ Lined(heard, batch', << >>, W, n)
        BY <1>16, <1>17, <2>1
    <2>4. Silent'
        BY <1>1, <1>2, <1>11, <2>1 DEF Silent
    <2>5. mine' \in Mines /\ mine'.id <= decoder'.id /\ mine'.id = decoder'.id
        BY <1>4, <1>13, <2>1 DEF Mines
    <2>6. BaseTypes' /\ Phases'
        <3>1. preroll' \in Seq(Arrivals) /\ Len(preroll') <= PreRollSize
            BY <2>2, EmptyIs, Constants
        <3>2. /\ events' \in {events, events + 1} /\ events' <= MaxEvents
              /\ decoder' \in [id : Nat, used : BOOLEAN] /\ text' \in {0} \cup Gens
              /\ prefix' \in {0} \cup Gens /\ skipped' \in BOOLEAN
              /\ heard' \in Seq(Arrivals) /\ quiet' \subseteq Arrivals
            BY <1>2, <1>13, <2>1
        <3> QED
            BY <1>1, <1>2, <1>7, <1>10, <1>13, <2>1, <2>3, <2>5, <3>1, <3>2, ConsumerMoves
    <2>7. Current'
        BY <2>5 DEF Current
    <2>8. Held'
        BY <2>1, <2>2, <2>7, EmptyIs DEF Held, Busy
    <2>9. TakenInLine'
        BY <1>2, <1>6, <1>9, <1>14, <2>2, <2>3 DEF TakenInLine
    <2>10. Covered'
        <3>1. Hand' = Range(batch')
            BY <2>1, <2>7 DEF Hand
        <3>2. (since + 1)..arrivals \subseteq Range(heard) \cup quiet \cup Waiting
            BY <1>12, <1>13 DEF Going
        <3> QED
            BY <1>2, <1>10, <2>1, <2>3, <3>1, <3>2 DEF Covered
    <2> QED
        BY <1>10, <2>4, <2>6, <2>8, <2>9, <2>10 DEF Inv
<1> QED
    BY <1>8, <1>18, <1>19

-------------------------------------------------------------------------------
(* Every step keeps the invariant, and what it says of a reachable state. *)

\* The steps of the receive task.
LEMMA HandlerKeeps ==
    Inv /\ Handler => Inv'
BY StartKeeps, ApplyStartKeeps, FinishStartKeeps, DisconnectKeeps, ReceiveAudioKeeps,
   PollPressureKeeps, ReceiveSilenceKeeps, PlaceSilenceKeeps
DEF Handler

\* The steps of the consumer that take from the queue.
LEMMA TakeKeeps ==
    Inv /\ Take => Inv'
<1> SUFFICES ASSUME Inv, Take PROVE Inv'
    OBVIOUS
<1>1. CASE DropStale
    BY <1>1, DropStaleKeeps
<1>2. CASE TakeSpan
    BY <1>2, TakeSpanKeeps
<1>3. ASSUME NEW target \in 1..BatchSize, NEW k \in 0..QueueSize, NEW kept \in Arrivals,
             TakeAudio(target, k, kept)
      PROVE  Inv'
    BY <1>3, TakeAudioKeeps
<1> QED
    BY <1>1, <1>2, <1>3 DEF Take

\* The steps of the consumer when a call returns.
LEMMA ReturnKeeps ==
    Inv /\ Return => Inv'
BY DecodedKeeps, TickKeeps, CommitKeeps, ClosedKeeps, CloseFailsKeeps, RotatedKeeps,
   TailHeardKeeps, AnswerKeeps
DEF Return

\* Every step.
LEMMA StepKeeps ==
    Inv /\ [Next]_vars => Inv'
BY HandlerKeeps, TakeKeeps, ReturnKeeps, TickKeeps, CommitKeeps, EndKeeps,
   ConsumerFailsKeeps, StutterKeeps
DEF Next

-------------------------------------------------------------------------------
(* The window of the decoder: the second part of the inductive invariant. *)

\* What comes later in w is greater, or a call that failed has left it there.
Echo(w, r) == \A i, j \in 1..Len(w) : i < j => w[i] < w[j] \/ w[j] \in r

\* The window w is behind what is held, H, but for r, and behind what waits, X.
Backs(w, r, H, X, n) ==
    /\ \A m \in H : m \in r \/ Below(Range(w), {m})
    /\ Below(Range(w), X)
    /\ \A m \in Range(w) : m <= n

InHands == Range(batch) \cup Range(preroll)

Remembers ==
    /\ window \in Seq(Arrivals) /\ retained \subseteq Arrivals
    /\ Echo(window, retained)
    /\ Backs(window, retained, InHands, Waiting, Latest)

\* A batch goes behind a window that is behind it, but for r.
LEMMA WindowGrows ==
    ASSUME NEW w \in Seq(Arrivals), NEW b \in Seq(Arrivals), NEW r, NEW R, r \subseteq R,
           Echo(w, r), Rising(b), \A m \in Range(b) : m \in r \/ Below(Range(w), {m})
    PROVE  /\ w \o b \in Seq(Arrivals) /\ Range(w \o b) = Range(w) \cup Range(b)
           /\ Echo(w \o b, R)
<1>1. PICK k \in Nat, l \in Nat : k = Len(w) /\ l = Len(b)
    BY LenProperties
<1>2. PICK c : c = w \o b
    OBVIOUS
<1>3. /\ c \in Seq(Arrivals) /\ Len(c) = k + l
      /\ \A i \in 1..(k + l) : c[i] = IF i <= k THEN w[i] ELSE b[i - k]
    BY <1>1, <1>2, ConcatProperties
<1>4. Range(c) = Range(w) \cup Range(b)
    BY <1>2, BehindIs
<1>5. Range(w) = {w[i] : i \in 1..k} /\ Range(b) = {b[i] : i \in 1..l}
    BY <1>1, RangeIs
<1>6. ASSUME NEW i \in 1..(k + l), NEW j \in 1..(k + l), i < j
      PROVE  c[i] < c[j] \/ c[j] \in R
    <2>1. CASE j <= k
        <3>1. i \in 1..k /\ j \in 1..k /\ i <= k
            BY <1>6, <2>1
        <3>2. w[i] < w[j] \/ w[j] \in r
            BY <1>1, <1>6, <3>1 DEF Echo
        <3> QED
            BY <1>3, <2>1, <3>1, <3>2
    <2>2. CASE i <= k /\ ~(j <= k)
        <3>1. i \in 1..k /\ j - k \in 1..l
            BY <2>2
        <3>2. c[i] = w[i] /\ c[j] = b[j - k]
            BY <1>3, <2>2
        <3>3. c[i] \in Range(w) /\ c[j] \in Range(b)
            BY <1>5, <3>1, <3>2
        <3> QED
            BY <3>3 DEF Below
    <2>3. CASE ~(i <= k)
        <3>1. i - k \in 1..l /\ j - k \in 1..l /\ i - k < j - k /\ ~(j <= k)
            BY <1>6, <2>3
        <3>2. c[i] = b[i - k] /\ c[j] = b[j - k]
            BY <1>3, <2>3, <3>1
        <3>3. b[i - k] < b[j - k]
            BY <1>1, <3>1 DEF Rising
        <3> QED
            BY <3>2, <3>3
    <2> QED
        BY <1>6, <2>1, <2>2, <2>3
<1>7. Echo(c, R)
    BY <1>3, <1>6 DEF Echo
<1> QED
    BY <1>2, <1>3, <1>4, <1>7

\* The end of a window.
LEMMA WindowEnds ==
    ASSUME NEW w \in Seq(Arrivals), NEW r, Echo(w, r)
    PROVE  /\ Newest(w, Overlap) \in Seq(Arrivals)
           /\ Range(Newest(w, Overlap)) \subseteq Range(w)
           /\ Echo(Newest(w, Overlap), r)
<1>1. PICK n \in Nat : n = Len(w)
    BY LenProperties
<1>2. PICK k : k = Less(n, Overlap)
    OBVIOUS
<1>3. k \in 0..n
    BY <1>2, CaptureAssumption DEF Less
<1>4. PICK c : c = SubSeq(w, k + 1, Len(w))
    OBVIOUS
<1>5. c = Newest(w, Overlap)
    BY <1>1, <1>2, <1>4 DEF Newest
<1>6. k + 1 \in 1..(Len(w) + 1) /\ Len(w) - (k + 1) + 1 = n - k
    BY <1>1, <1>3
<1>7. PICK m : m = k + 1
    OBVIOUS
<1>8. /\ c \in Seq(Arrivals) /\ Len(c) = Len(w) - m + 1
      /\ \A i \in 1..(Len(w) - m + 1) : c[i] = w[m + i - 1]
    <2>1. m \in 1..(Len(w) + 1)
        BY <1>6, <1>7
    <2>2. /\ SubSeq(w, m, Len(w)) \in Seq(Arrivals)
          /\ Len(SubSeq(w, m, Len(w))) = Len(w) - m + 1
          /\ \A i \in 1..(Len(w) - m + 1) : SubSeq(w, m, Len(w))[i] = w[m + i - 1]
        BY ONLY <2>1, w \in Seq(Arrivals), RestIs
    <2> QED
        BY <1>4, <1>7, <2>2
<1>9. Len(c) = n - k /\ \A i \in 1..(n - k) : c[i] = w[k + i]
    <2>1. \A i \in 1..(n - k) : m + i - 1 = k + i
        BY <1>3, <1>7
    <2> QED
        BY <1>6, <1>7, <1>8, <2>1
<1>10. \A i \in 1..(n - k) : k + i \in 1..n
    BY <1>3
<1>11. Range(c) = {c[i] : i \in 1..(n - k)} /\ Range(w) = {w[i] : i \in 1..n}
    BY <1>1, <1>8, <1>9, RangeIs
<1>12. Range(c) \subseteq Range(w)
    BY <1>9, <1>10, <1>11
<1>13. Echo(c, r)
    <2>1. \A i, j \in 1..(n - k) : i < j => k + i < k + j
        BY <1>3
    <2> QED
        BY <1>1, <1>9, <1>10, <2>1 DEF Echo
<1> QED
    BY <1>5, <1>8, <1>12, <1>13

\* The numbers of the line.
LEMMA LatestIs ==
    ASSUME Inv
    PROVE  Latest \in Nat
BY Typed DEF Inv, Phases, Latest

\* One more arrival at most joins the line, and nothing else comes to hand.
Moves ==
    /\ Waiting' \subseteq Waiting \cup {Latest + 1}
    /\ Latest' \in {Latest, Latest + 1}
    /\ InHands' \subseteq InHands \cup Waiting

\* A step that leaves the window alone.
LEMMA WindowStays ==
    ASSUME Inv, Remembers, Moves, UNCHANGED memory
    PROVE  Remembers'
<1>1. PICK w, r, n : w = window /\ r = retained /\ n = Latest
    OBVIOUS
<1>2. w \in Seq(Arrivals) /\ r \subseteq Arrivals /\ Echo(w, r) /\ n \in Nat
    BY <1>1, LatestIs DEF Remembers
<1>3. /\ \A m \in InHands : m \in r \/ Below(Range(w), {m})
      /\ Below(Range(w), Waiting) /\ \A m \in Range(w) : m <= n
    BY <1>1 DEF Remembers, Backs
<1>4. \A m \in Range(w) : m \in Nat
    BY <1>2, RangeIs, Constants
<1>5. \A m \in Range(w) : m <= Latest' /\ m < n + 1
    <2>1. Latest' \in {n, n + 1}
        BY <1>1 DEF Moves
    <2>2. \A m \in Nat : m <= n => m <= n + 1 /\ m < n + 1
        BY <1>2
    <2> QED
        BY <1>3, <1>4, <2>1, <2>2
<1>6. Below(Range(w), Waiting')
    <2>1. Waiting' \subseteq Waiting \cup {n + 1}
        BY <1>1 DEF Moves
    <2> QED
        BY <1>3, <1>5, <2>1 DEF Below
<1>7. ASSUME NEW m \in InHands' PROVE m \in r \/ Below(Range(w), {m})
    <2>1. m \in InHands \/ m \in Waiting
        BY <1>7 DEF Moves
    <2> QED
        BY <1>3, <2>1 DEF Below
<1>8. Backs(w, r, InHands', Waiting', Latest')
    BY <1>5, <1>6, <1>7 DEF Backs
<1>9. window' = w /\ retained' = r
    BY <1>1 DEF memory
<1> QED
    BY <1>2, <1>8, <1>9 DEF Remembers

\* A new window.
LEMMA WindowStarts ==
    ASSUME window' = << >>, retained' = {}
    PROVE  Remembers'
<1>1. << >> \in Seq(Arrivals) /\ Len(<< >>) = 0 /\ Range(<< >>) = {}
    BY EmptyIs
<1>2. Echo(<< >>, {}) /\ Backs(<< >>, {}, InHands', Waiting', Latest')
    BY <1>1 DEF Echo, Backs, Below
<1> QED
    BY <1>1, <1>2 DEF Remembers

\* The batch goes into the window: it is heard, or a call that fails leaves it there.
LEMMA WindowFeeds ==
    ASSUME Inv, Remembers, Waiting' = Waiting, Latest' = Latest,
           window' = window \o batch,
           \/ retained' = retained /\ InHands' \subseteq Range(preroll)
           \/ retained' = retained \cup Range(batch) /\ InHands' \subseteq InHands
    PROVE  Remembers'
<1>1. PICK w, r, b, R : w = window /\ r = retained /\ b = batch /\ R = retained'
    OBVIOUS
<1>2. w \in Seq(Arrivals) /\ r \subseteq Arrivals /\ Echo(w, r) /\ b \in Seq(Arrivals)
    BY <1>1, Holds DEF Remembers
<1>3. /\ \A m \in InHands : m \in r \/ Below(Range(w), {m})
      /\ Below(Range(w), Waiting) /\ \A m \in Range(w) : m <= Latest
    BY <1>1 DEF Remembers, Backs
<1>4. /\ Rising(b) /\ Below(Range(b), Range(preroll)) /\ Below(Range(b), Waiting)
      /\ \A m \in Range(b) : m <= Latest
    BY <1>1 DEF Inv, TakenInLine, Lined
<1>5. Range(b) \subseteq InHands /\ Range(b) \subseteq Arrivals
    BY <1>1, <1>2, RangeIs DEF InHands
<1>6. r \subseteq R /\ R \subseteq Arrivals
    BY <1>1, <1>2, <1>5
<1>7. /\ w \o b \in Seq(Arrivals) /\ Range(w \o b) = Range(w) \cup Range(b)
      /\ Echo(w \o b, R)
    <2>1. \A m \in Range(b) : m \in r \/ Below(Range(w), {m})
        BY <1>3, <1>5
    <2> QED
        BY ONLY <1>2, <1>4, <1>6, <2>1, WindowGrows
<1>8. PICK c : c = w \o b
    OBVIOUS
<1>9. Range(c) = Range(w) \cup Range(b)
    BY <1>7, <1>8
<1>10. ASSUME NEW m \in InHands' PROVE m \in R \/ Below(Range(c), {m})
    <2>1. m \in Range(preroll) \/ m \in R
        BY <1>1, <1>10 DEF InHands
    <2>2. ASSUME m \in Range(preroll) PROVE m \in r \/ Below(Range(c), {m})
        <3>1. m \in r \/ Below(Range(w), {m})
            BY <1>3, <2>2 DEF InHands
        <3>2. Below(Range(b), {m})
            BY <1>4, <2>2 DEF Below
        <3> QED
            BY <1>9, <3>1, <3>2 DEF Below
    <2> QED
        BY <1>6, <2>1, <2>2
<1>11. Backs(c, R, InHands', Waiting', Latest')
    BY <1>3, <1>4, <1>9, <1>10 DEF Backs, Below
<1> QED
    BY <1>1, <1>6, <1>7, <1>8, <1>11 DEF Remembers

\* The next window begins with the end of the last one.
LEMMA WindowRotates ==
    ASSUME Inv, Remembers, Waiting' = Waiting, Latest' = Latest,
           window' = Newest(window, Overlap), retained' = retained,
           InHands' \subseteq InHands
    PROVE  Remembers'
<1>1. PICK w, r, c : w = window /\ r = retained /\ c = Newest(w, Overlap)
    OBVIOUS
<1>2. w \in Seq(Arrivals) /\ r \subseteq Arrivals /\ Echo(w, r)
    BY <1>1 DEF Remembers
<1>3. /\ \A m \in InHands : m \in r \/ Below(Range(w), {m})
      /\ Below(Range(w), Waiting) /\ \A m \in Range(w) : m <= Latest
    BY <1>1 DEF Remembers, Backs
<1>4. c \in Seq(Arrivals) /\ Range(c) \subseteq Range(w) /\ Echo(c, r)
    BY <1>1, <1>2, WindowEnds
<1>5. Backs(c, r, InHands', Waiting', Latest')
    BY <1>3, <1>4 DEF Backs, Below
<1> QED
    BY <1>1, <1>2, <1>4, <1>5 DEF Remembers

\* How a silence span joins it.
LEMMA SilenceJoins ==
    Inv /\ PlaceSilence =>
        /\ Waiting' \subseteq Waiting \cup {Latest + 1}
        /\ Latest' \in {Latest, Latest + 1}
<1> SUFFICES ASSUME Inv, PlaceSilence
             PROVE  /\ Waiting' \subseteq Waiting \cup {Latest + 1}
                    /\ Latest' \in {Latest, Latest + 1}
    OBVIOUS
<1> USE DEF ingress, session, subtitles
<1>1. BaseTypes /\ Phases /\ Line
    BY DEF Inv
<1>2. handler = "barrier" /\ UNCHANGED << arrivals, deferred >>
    BY DEF PlaceSilence
<1>3. PICK q, s, n, g : /\ q = FlushedQueue(queue, spill) /\ s = FlushedSpill(queue, spill)
                        /\ n = Latest /\ g = gen
    OBVIOUS
<1>4. /\ g \in Gens /\ Label = g /\ n \in Nat /\ n + 1 \in Arrivals
      /\ arrivals - 1 = n /\ arrivals = n + 1
    <2>1. /\ arrivals \in Nat /\ arrivals <= MaxArrivals /\ since \in Nat
          /\ since < arrivals /\ gen \in Gens
        BY <1>1, <1>2, Typed DEF Phases
    <2> QED
        BY <1>2, <1>3, <2>1, Constants DEF Label, Latest, Arrivals
<1>5. InLine(deferred, q, s, g, n) /\ Content(deferred, q, s) = Waiting
    BY <1>1, <1>3, <1>4, FlushKeeps DEF Line, Waiting
<1>6. CASE ~(s.at = << >> /\ Len(q) < QueueSize)
    <2>1. queue' = q /\ spill' = s /\ handler' = handler
        BY <1>3, <1>6 DEF PlaceSilence
    <2>2. Waiting' = Waiting /\ Latest' = Latest
        BY <1>2, <1>5, <2>1 DEF Waiting, Latest
    <2> QED
        BY <2>2
<1>7. CASE s.at = << >> /\ Len(q) < QueueSize
    <2>1. PICK item : item = Span(g, n + 1)
        OBVIOUS
    <2>2. << n + 1 >> \in Seq(Arrivals)
        BY <1>4
    <2>3. item \in Item /\ item.gen = g /\ item.at = << n + 1 >>
        BY <1>4, <2>1, <2>2 DEF Span, Item
    <2>4. queue' = Append(q, item) /\ spill' = s /\ handler' = "receive"
        BY <1>3, <1>4, <1>7, <2>1 DEF PlaceSilence
    <2>5. Content(deferred, Append(q, item), s) = Waiting \cup {n + 1}
        BY <1>4, <1>5, <1>7, <2>3, JoinQueue
    <2>6. Waiting' = Waiting \cup {n + 1} /\ Latest' = n + 1
        BY <1>2, <1>4, <2>4, <2>5 DEF Waiting, Latest
    <2> QED
        BY <1>3, <2>6
<1> QED
    BY <1>6, <1>7

\* The steps of the receive task.
LEMMA HandlerRemembers ==
    Inv /\ Remembers /\ Handler => Remembers'
<1> SUFFICES ASSUME Inv, Remembers, Handler PROVE Remembers'
    OBVIOUS
<1> USE DEF ingress, session, subtitles
<1>1. BaseTypes /\ Phases /\ Line
    BY DEF Inv
<1>2. Latest \in Nat /\ arrivals \in Nat
    BY <1>1, LatestIs, Typed
<1>3. CASE ApplyStart \/ Disconnect
    <2>1. window' = << >> /\ retained' = {}
        BY <1>3 DEF ApplyStart, Disconnect
    <2> QED
        BY <2>1, WindowStarts
<1>4. CASE Start \/ StartFails \/ Finish \/ FinishReturns
    <2>1. /\ UNCHANGED << arrivals, queue, spill, deferred, gen, batch, preroll, memory >>
          /\ handler \in {"receive", "making", "finishing"}
          /\ handler' \in {"making", "receive", "finishing", "closed"}
        BY <1>4 DEF Start, StartFails, Finish, FinishReturns
    <2>2. Waiting' = Waiting /\ Latest' = Latest
        BY <1>1, <2>1, LineStays
    <2> QED
        BY <2>1, <2>2, WindowStays DEF Moves, InHands
<1>5. CASE FinishStart
    <2>1. /\ queue' = << >> /\ deferred' = << >> /\ spill' = Reset(spill)
          /\ handler = "resetting" /\ handler' = "receive"
          /\ UNCHANGED << arrivals, batch, preroll, memory >>
        BY <1>5 DEF FinishStart
    <2>2. PICK s : s = spill'
        OBVIOUS
    <2>3. s \in Spills0 /\ s.at = << >>
        BY <1>1, <2>1, <2>2, Typed, SpillIs
    <2>4. Waiting' = {} /\ Latest' = Latest
        <3>1. Content(<< >>, << >>, s) = {}
            BY <2>3, NothingWaits
        <3> QED
            BY <2>1, <2>2, <3>1 DEF Waiting, Latest
    <2> QED
        BY <2>1, <2>4, WindowStays DEF Moves, InHands
<1>6. CASE ReceiveAudio
    <2>1. Waiting' = Waiting \cup {Latest + 1} /\ Latest' = Latest + 1
        BY <1>6, AudioJoins
    <2>2. UNCHANGED << batch, preroll, memory >>
        BY <1>6 DEF ReceiveAudio
    <2> QED
        BY <2>1, <2>2, WindowStays DEF Moves, InHands
<1>7. CASE PollPressure
    <2>1. /\ queue' = FlushedQueue(queue, spill) /\ spill' = FlushedSpill(queue, spill)
          /\ handler = "paused" /\ handler' \in {"paused", "receive"}
          /\ UNCHANGED << arrivals, deferred, batch, preroll, memory >>
        BY <1>7 DEF PollPressure
    <2>2. PICK q, s : q = queue' /\ s = spill'
        OBVIOUS
    <2>3. Content(deferred, q, s) = Waiting
        BY <1>1, <2>1, <2>2, FlushKeeps DEF Line, Waiting
    <2>4. Waiting' = Waiting /\ Latest' = Latest
        BY <2>1, <2>2, <2>3 DEF Waiting, Latest
    <2> QED
        BY <2>1, <2>4, WindowStays DEF Moves, InHands
<1>8. CASE ReceiveSilence
    <2>1. /\ handler = "receive" /\ handler' = "barrier" /\ arrivals' = arrivals + 1
          /\ UNCHANGED << queue, spill, deferred, batch, preroll, memory >>
        BY <1>8 DEF ReceiveSilence
    <2>2. Waiting' = Waiting /\ Latest' = Latest
        BY <1>2, <2>1 DEF Waiting, Latest
    <2> QED
        BY <2>1, <2>2, WindowStays DEF Moves, InHands
<1>9. CASE PlaceSilence
    <2>1. /\ Waiting' \subseteq Waiting \cup {Latest + 1}
          /\ Latest' \in {Latest, Latest + 1}
        BY <1>9, SilenceJoins
    <2>2. UNCHANGED << batch, preroll, memory >>
        BY <1>9 DEF PlaceSilence
    <2> QED
        BY <2>1, <2>2, WindowStays DEF Moves, InHands
<1> QED
    BY <1>3, <1>4, <1>5, <1>6, <1>7, <1>8, <1>9 DEF Handler

\* The batch that follows from what is held.
LEMMA OnwardHolds ==
    ASSUME NEW pre, NEW from, Onward(pre, from)
    PROVE  InHands' \subseteq Range(pre)
<1>1. \/ batch' = pre /\ preroll' = << >>
      \/ batch' = << >> /\ preroll' = pre
    BY OnwardIs
<1> QED
    BY <1>1, EmptyIs DEF InHands

\* A step that takes nothing from the line.
LEMMA LineRests ==
    ASSUME UNCHANGED << ingress, deferred >>
    PROVE  Waiting' = Waiting /\ Latest' = Latest
BY DEF Waiting, Latest, ingress

\* The steps of the consumer that take from the line.
LEMMA TakeRemembers ==
    Inv /\ Remembers /\ Take => Remembers'
<1> SUFFICES ASSUME Inv, Remembers, Take PROVE Remembers'
    OBVIOUS
<1> USE DEF ingress, session, subtitles
<1>1. CASE DropStale
    <2>1. /\ HasItem /\ queue' = LeftQueue /\ deferred' = LeftDeferred /\ spill' = LeftSpill
          /\ UNCHANGED << handler, arrivals, batch, preroll, memory >>
        BY <1>1 DEF DropStale
    <2>2. Waiting' \subseteq Waiting /\ Latest' = Latest
        BY <2>1, TakeIs DEF Waiting, Latest
    <2> QED
        BY <2>1, <2>2, WindowStays DEF Moves, InHands
<1>2. CASE TakeSpan
    <2>1. /\ HasItem /\ queue' = LeftQueue /\ deferred' = LeftDeferred /\ spill' = LeftSpill
          /\ UNCHANGED << handler, arrivals, memory >>
        BY <1>2 DEF TakeSpan
    <2>2. Waiting' \subseteq Waiting /\ Latest' = Latest
        BY <2>1, TakeIs DEF Waiting, Latest
    <2>3. PICK pre, from : pre \in {preroll, << >>} /\ from = text /\ Onward(pre, from)
        BY <1>2 DEF TakeSpan
    <2>4. InHands' \subseteq Range(pre)
        BY <2>3, OnwardHolds
    <2>5. Range(pre) \subseteq InHands
        BY <2>3, EmptyIs DEF InHands
    <2> QED
        BY <2>1, <2>2, <2>4, <2>5, WindowStays DEF Moves
<1>3. ASSUME NEW target \in 1..BatchSize, NEW k \in 0..QueueSize, NEW kept \in Arrivals,
             TakeAudio(target, k, kept)
      PROVE  Remembers'
    <2>1. /\ HasItem /\ NextItem.gen = gen
          /\ UNCHANGED << handler, arrivals, gen, memory >>
        BY <1>3 DEF TakeAudio
    <2>2. Label = gen
        BY <2>1, TakeIs
    <2>3. k \in Nat /\ kept \in Nat /\ gen \in Gens /\ samples \in Nat
        BY Constants, Holds
    <2>4. InLine(deferred, queue, spill, gen, Latest)
        BY <2>2 DEF Inv, Line
    <2>5. PICK part \in Seq(Arrivals) :
              /\ Skip(part) \/ Decode(part)
              /\ Content(deferred, queue, spill) =
                     Range(part) \cup Content(deferred', queue', spill')
        BY <1>3, <2>3, <2>4, Pulled
    <2>6. Waiting = Range(part) \cup Waiting' /\ Latest' = Latest
        BY <2>1, <2>5 DEF Waiting, Latest
    <2>7. PICK p : p = preroll
        OBVIOUS
    <2>8. /\ p \in Seq(Arrivals) /\ Range(p \o part) = Range(p) \cup Range(part)
          /\ Range(Roll(p, part)) \subseteq Range(p) \cup Range(part)
        <3>1. p \in Seq(Arrivals)
            BY <2>7, Holds
        <3> QED
            BY <3>1, RollIs, BehindIs
    <2>9. CASE Skip(part)
        <3>1. PICK pre, from : pre = Roll(p, part) /\ from = text
            OBVIOUS
        <3>2. Onward(pre, from)
            BY <2>7, <2>9, <3>1 DEF Skip
        <3>3. InHands' \subseteq Range(pre)
            BY <3>2, OnwardHolds
        <3>4. InHands' \subseteq InHands \cup Waiting
            BY <2>6, <2>7, <2>8, <3>1, <3>3 DEF InHands
        <3> QED
            BY <2>1, <2>6, <3>4, WindowStays DEF Moves
    <2>10. CASE Decode(part)
        <3>1. /\ batch' \in {p \o part, part}
              /\ preroll' \in {p, << >>}
            BY <2>7, <2>10 DEF Decode
        <3>2. Range(batch') \subseteq Range(p) \cup Range(part) /\ Range(preroll') \subseteq Range(p)
            BY <2>8, <3>1, EmptyIs
        <3>3. InHands' \subseteq InHands \cup Waiting
            BY <2>6, <2>7, <3>2 DEF InHands
        <3> QED
            BY <2>1, <2>6, <3>3, WindowStays DEF Moves
    <2> QED
        BY <2>5, <2>9, <2>10
<1> QED
    BY <1>1, <1>2, <1>3 DEF Take

\* The batch is fed to the decoder of this session, or to one that is gone.
LEMMA FedRemembers ==
    ASSUME Inv, Remembers, Fed, Waiting' = Waiting, Latest' = Latest,
           InHands' \subseteq Range(preroll)
    PROVE  Remembers'
<1>1. CASE Current
    <2>1. window' = window \o batch /\ retained' = retained
        BY <1>1 DEF Fed
    <2> QED
        BY <2>1, WindowFeeds
<1>2. CASE ~Current
    <2>1. UNCHANGED memory
        BY <1>2 DEF Fed, memory
    <2> QED
        BY <2>1, WindowStays DEF Moves, InHands
<1> QED
    BY <1>1, <1>2

\* A call fails that may have taken the batch.
LEMMA FailedRemembers ==
    ASSUME Inv, Remembers, Failed, Waiting' = Waiting, Latest' = Latest,
           InHands' \subseteq InHands
    PROVE  Remembers'
<1>1. CASE UNCHANGED memory
    BY <1>1, WindowStays DEF Moves
<1>2. CASE ~UNCHANGED memory
    <2>1. window' = window \o batch /\ retained' = retained \cup Range(batch)
        BY <1>2 DEF Failed
    <2> QED
        BY <2>1, WindowFeeds
<1> QED
    BY <1>1, <1>2

\* The tail falls back into the pre-roll.
LEMMA RollHolds ==
    ASSUME Inv, preroll' \in {preroll, Roll(preroll, batch)}, batch' = << >>
    PROVE  InHands' \subseteq InHands
<1>1. PICK p, b : p = preroll /\ b = batch
    OBVIOUS
<1>2. p \in Seq(Arrivals) /\ b \in Seq(Arrivals)
    BY <1>1, Holds
<1>3. Range(Roll(p, b)) \subseteq Range(p) \cup Range(b)
    BY <1>2, RollIs
<1> QED
    BY <1>1, <1>3, EmptyIs DEF InHands

\* The steps of the consumer when a call returns or fails.
LEMMA ReturnRemembers ==
    Inv /\ Remembers /\ (Return \/ ConsumerFails) => Remembers'
<1> SUFFICES ASSUME Inv, Remembers, Return \/ ConsumerFails PROVE Remembers'
    OBVIOUS
<1>1. Waiting' = Waiting /\ Latest' = Latest
    <2>1. UNCHANGED << ingress, deferred >>
        BY DEF Return, Decoded, Published, Committed, Closed, CloseFails, Sealed, Rotated,
               TailHeard, Answer, ConsumerFails
    <2> QED
        BY <2>1, LineRests
<1>2. Range(<< >>) = {}
    BY EmptyIs
<1>3. CASE Decoded
    <2>1. Fed
        BY <1>3 DEF Decoded
    <2>2. InHands' \subseteq Range(preroll)
        <3>1. CASE batch' = << >> /\ preroll' = preroll
            BY <1>2, <3>1 DEF InHands
        <3>2. CASE ~(batch' = << >> /\ preroll' = preroll)
            <4>1. Onward(preroll, text)
                BY <1>3, <3>2 DEF Decoded
            <4>2. PICK pre, from : pre = preroll /\ from = text
                OBVIOUS
            <4> QED
                BY <4>1, <4>2, OnwardHolds
        <3> QED
            BY <3>1, <3>2
    <2> QED
        BY <1>1, <2>1, <2>2, FedRemembers
<1>4. CASE Published
    <2>1. Onward(preroll, mine.from) /\ UNCHANGED memory
        BY <1>4 DEF Published
    <2>2. PICK pre, from : pre = preroll /\ from = mine.from
        OBVIOUS
    <2>3. InHands' \subseteq InHands
        BY <2>1, <2>2, OnwardHolds DEF InHands
    <2> QED
        BY <1>1, <2>1, <2>3, WindowStays DEF Moves
<1>5. CASE Committed \/ Sealed \/ Answer
    <2>1. UNCHANGED << batch, preroll, memory >>
        BY <1>5 DEF Committed, Sealed, Answer, subtitles
    <2> QED
        BY <1>1, <2>1, WindowStays DEF Moves, InHands
<1>6. CASE Closed \/ TailHeard
    <2>1. Fed /\ preroll' = preroll /\ batch' = << >>
        BY <1>6 DEF Closed, TailHeard, AfterCut
    <2>2. InHands' \subseteq Range(preroll)
        BY <1>2, <2>1 DEF InHands
    <2> QED
        BY <1>1, <2>1, <2>2, FedRemembers
<1>7. CASE CloseFails
    <2>1. batch' = << >>
        BY <1>7 DEF CloseFails, AfterCut
    <2>2. CASE Fed /\ preroll' = preroll
        <3>1. InHands' \subseteq Range(preroll)
            BY <1>2, <2>1, <2>2 DEF InHands
        <3> QED
            BY <1>1, <2>2, <3>1, FedRemembers
    <2>3. CASE ~(Fed /\ preroll' = preroll)
        <3>1. Failed /\ preroll' = Roll(preroll, batch)
            BY <1>7, <2>3 DEF CloseFails
        <3> QED
            BY <1>1, <2>1, <3>1, FailedRemembers, RollHolds
    <2> QED
        BY <2>2, <2>3
<1>8. CASE Rotated
    <2>1. /\ preroll' = preroll /\ batch' = << >> /\ retained' = retained
          /\ window' = IF Current THEN Newest(window, Overlap) ELSE window
        BY <1>8 DEF Rotated, AfterCut
    <2>2. InHands' \subseteq InHands
        BY <1>2, <2>1 DEF InHands
    <2>3. CASE Current
        BY <1>1, <2>1, <2>2, <2>3, WindowRotates
    <2>4. CASE ~Current
        <3>1. UNCHANGED memory
            BY <2>1, <2>4 DEF memory
        <3> QED
            BY <1>1, <2>2, <3>1, WindowStays DEF Moves
    <2> QED
        BY <2>3, <2>4
<1>9. CASE ConsumerFails
    <2>1. Failed /\ batch' = << >> /\ preroll' \in {preroll, Roll(preroll, batch)}
        BY <1>9 DEF ConsumerFails
    <2> QED
        BY <1>1, <2>1, FailedRemembers, RollHolds
<1> QED
    BY <1>3, <1>4, <1>5, <1>6, <1>7, <1>8, <1>9 DEF Return

\* The other steps of the consumer, and those that change nothing.
LEMMA RestRemembers ==
    Inv /\ Remembers /\ (Tick \/ CommitMore \/ End \/ UNCHANGED vars) => Remembers'
<1> SUFFICES ASSUME Inv, Remembers, Tick \/ CommitMore \/ End \/ UNCHANGED vars
             PROVE  Remembers'
    OBVIOUS
<1>1. UNCHANGED << ingress, deferred >> /\ UNCHANGED memory
    BY DEF Tick, CommitMore, End, vars
<1>2. Waiting' = Waiting /\ Latest' = Latest
    BY <1>1, LineRests
<1>3. InHands' \subseteq InHands
    <2>1. CASE Tick
        <3>1. PICK pre, from : pre = preroll /\ from = text
            OBVIOUS
        <3>2. Onward(pre, from)
            BY <2>1, <3>1 DEF Tick
        <3> QED
            BY <3>1, <3>2, OnwardHolds DEF InHands
    <2>2. CASE CommitMore \/ UNCHANGED vars
        BY <2>2 DEF CommitMore, vars, InHands
    <2>3. CASE End
        <3>1. preroll' = << >> /\ batch' \in {preroll, << >>}
            BY <2>3 DEF End
        <3> QED
            BY <3>1, EmptyIs DEF InHands
    <2> QED
        BY <2>1, <2>2, <2>3
<1> QED
    BY <1>1, <1>2, <1>3, WindowStays DEF Moves

\* Every step.
LEMMA StepRemembers ==
    Inv /\ Remembers /\ [Next]_vars => Remembers'
BY HandlerRemembers, TakeRemembers, ReturnRemembers, RestRemembers DEF Next

\* The first state.
LEMMA InitRemembers == Init => Remembers
<1> SUFFICES ASSUME Init PROVE Remembers
    OBVIOUS
<1>1. window = << >> /\ retained = {}
    BY DEF Init
<1>2. << >> \in Seq(Arrivals) /\ Len(<< >>) = 0 /\ Range(<< >>) = {}
    BY EmptyIs
<1>3. Echo(<< >>, {}) /\ Backs(<< >>, {}, InHands, Waiting, Latest)
    BY <1>2 DEF Echo, Backs, Below
<1> QED
    BY <1>1, <1>2, <1>3 DEF Remembers

-------------------------------------------------------------------------------
(* What the invariant says of a reachable state. *)

\* The order of the line and of what was taken is the order of the whole.
LEMMA InvInOrder ==
    Inv /\ Remembers => AudioInOrder
<1> SUFFICES ASSUME Inv, Remembers PROVE AudioInOrder
    OBVIOUS
<1>1. /\ heard \in Seq(Arrivals) /\ batch \in Seq(Arrivals) /\ preroll \in Seq(Arrivals)
      /\ deferred \in Seq(Item) /\ queue \in Seq(Item) /\ spill.at \in Seq(Arrivals)
    BY DEF Inv, BaseTypes
<1>2. Line /\ TakenInLine
    BY DEF Inv
<1>3. PICK d, q, b : /\ d = Frames(deferred, Len(deferred))
                     /\ q = Frames(queue, Len(queue)) /\ b = InHand
    OBVIOUS
<1>4. /\ Ordered(deferred) /\ Ordered(queue) /\ Rising(spill.at)
      /\ Below(Sounds(deferred), Sounds(queue)) /\ Below(Sounds(deferred), Range(spill.at))
      /\ Below(Sounds(queue), Range(spill.at))
    BY <1>2 DEF Line, InLine
<1>5. d \in Seq(Arrivals) /\ Range(d) = Sounds(deferred) /\ Rising(d)
    BY <1>1, <1>3, <1>4, ItemsFlat
<1>6. q \in Seq(Arrivals) /\ Range(q) = Sounds(queue) /\ Rising(q)
    BY <1>1, <1>3, <1>4, ItemsFlat
<1>7. PICK t \in Seq(Arrivals) : t = spill.at
    BY <1>1
<1>8. PICK u : u = d \o q
    OBVIOUS
<1>9. u \in Seq(Arrivals) /\ Range(u) = Range(d) \cup Range(q) /\ Rising(u)
    BY <1>4, <1>5, <1>6, <1>8, BehindIs
<1>10. PICK w : w = u \o t
    OBVIOUS
<1>11. w \in Seq(Arrivals) /\ Range(w) = Waiting /\ Rising(w)
    <2>1. Below(Range(u), Range(t))
        BY <1>4, <1>5, <1>6, <1>7, <1>9 DEF Below
    <2>2. w \in Seq(Arrivals) /\ Range(w) = Range(u) \cup Range(t) /\ Rising(w)
        BY <1>4, <1>7, <1>9, <1>10, <2>1, BehindIs
    <2> QED
        BY <1>5, <1>6, <1>7, <1>9, <2>2 DEF Waiting, Content
<1>12. w = Backlog
    BY <1>3, <1>7, <1>8, <1>10 DEF Backlog
<1>13. /\ b \in Seq(Arrivals) /\ Rising(b) /\ Below(Range(heard), Range(b))
       /\ Below(Range(b), Range(preroll)) /\ Below(Range(b), Waiting)
    <2>1. b = batch \/ b = << >>
        BY <1>3 DEF InHand
    <2> QED
        BY <1>1, <1>2, <2>1, EmptyIs DEF TakenInLine, Lined, Below
<1>14. /\ Rising(heard) /\ Rising(preroll) /\ Below(Range(heard), Range(preroll))
       /\ Below(Range(heard), Waiting) /\ Below(Range(preroll), Waiting)
    BY <1>2 DEF TakenInLine, Lined
<1>15. PICK h, p : h = heard /\ p = preroll
    OBVIOUS
<1>16. PICK x : x = h \o b
    OBVIOUS
<1>17. x \in Seq(Arrivals) /\ Range(x) = Range(h) \cup Range(b) /\ Rising(x)
    BY <1>1, <1>13, <1>14, <1>15, <1>16, BehindIs
<1>18. PICK y : y = x \o p
    OBVIOUS
<1>19. y \in Seq(Arrivals) /\ Range(y) = Range(x) \cup Range(p) /\ Rising(y)
    <2>1. Below(Range(x), Range(p))
        BY <1>13, <1>14, <1>15, <1>17 DEF Below
    <2> QED
        BY <1>1, <1>14, <1>15, <1>17, <1>18, <2>1, BehindIs
<1>20. PICK z : z = y \o w
    OBVIOUS
<1>21. z \in Seq(Arrivals) /\ Rising(z)
    <2>1. Below(Range(y), Range(w))
        BY <1>11, <1>13, <1>14, <1>15, <1>17, <1>19 DEF Below
    <2> QED
        BY <1>11, <1>19, <1>20, <2>1, BehindIs
<1>22. Increasing(z)
    <2>1. PICK n \in Nat : n = Len(z)
        BY <1>21, LenProperties
    <2>2. \A i \in 1..(n - 1) : i \in 1..n /\ i + 1 \in 1..n /\ i < i + 1
        BY <2>1
    <2> QED
        BY <1>21, <2>1, <2>2 DEF Rising, Increasing
<1>23. z = heard \o InHand \o preroll \o Backlog
    BY <1>3, <1>12, <1>15, <1>16, <1>18, <1>20
<1>24. \A i, j \in DOMAIN window :
           i < j => window[i] < window[j] \/ window[j] \in retained
    <2>1. window \in Seq(Arrivals) /\ Echo(window, retained)
        BY DEF Remembers
    <2>2. DOMAIN window = 1..Len(window)
        BY <2>1, LenProperties
    <2> QED
        BY <2>1, <2>2 DEF Echo
<1> QED
    BY <1>22, <1>23, <1>24 DEF AudioInOrder

\* When the final message has been sent nothing waits.
LEMMA InvFinal ==
    Inv => FinalIsComplete
<1> SUFFICES ASSUME Inv, finished
             PROVE  (since + 1)..arrivals \subseteq Range(heard) \cup quiet
    BY DEF FinalIsComplete
<1>1. finish /\ consumer = "done" /\ deferred = << >> /\ queue = << >> /\ spill.at = << >>
    BY DEF Inv, Phases
<1>2. Waiting = {} /\ Hand = {}
    BY <1>1, NoItems, EmptyIs DEF Waiting, Content, Hand
<1> QED
    BY <1>1, <1>2 DEF Inv, Covered

(* The invariant holds in every reachable state: whatever order the two      *)
(* tasks run in, what was taken from the line and what waits in it are in    *)
(* the order of arrival, nothing of the session has been left out, and the   *)
(* window of the decoder is behind what is still to come, but for what a     *)
(* call that failed has left in it.                                          *)
THEOREM CaptureIsSound == Spec => [](Inv /\ Remembers)
<1>1. Init => Inv /\ Remembers
    BY InitInv, InitRemembers
<1>2. Inv /\ Remembers /\ [Next]_vars => (Inv /\ Remembers)'
    BY StepKeeps, StepRemembers
<1> QED
    BY <1>1, <1>2, PTL DEF Spec

(* Every variable keeps to its values; the queue and the held tail never     *)
(* exceed their bounds.                                                      *)
THEOREM CaptureTyped == Spec => []TypeOK
<1>1. Inv /\ Remembers => TypeOK
    BY DEF Inv, BaseTypes, Remembers, TypeOK
<1> QED
    BY <1>1, CaptureIsSound, PTL

(* The calls that returned have heard the audio in the order in which the    *)
(* socket received it, each frame at most once, through spill, merge,        *)
(* deferral and hard cut; in the window of the decoder, which the end of the *)
(* last window begins, a frame can stand twice only when a call failed that  *)
(* had already put it there.                                                 *)
THEOREM SoundIsInOrder == Spec => []AudioInOrder
BY InvInOrder, CaptureIsSound, PTL

(* When the final message is sent, every frame of the session was heard or   *)
(* was called silent.                                                        *)
THEOREM FinalHasAll == Spec => []FinalIsComplete
BY InvFinal, CaptureIsSound, PTL

===============================================================================
