-------------------------- MODULE HLSListenerProofs --------------------------
(***************************************************************************)
(* Proofs about HLSListener: the safety properties of the compatibility    *)
(* stream, for every length of segments, bootstrap, clips and bounds.      *)
(*                                                                         *)
(* The argument has three parts.  The timeline that is decided, written or *)
(* not, carries each sentence exactly where its cue says, and the carrier  *)
(* before it (Content).  What a listener's playlist leaves out ahead of    *)
(* the playhead is spare carrier behind a segment of the same pause that   *)
(* the listener has (LoadedOrSpare).  And in the pause before a sentence   *)
(* the listener has heard all so far, or a whole segment, until the page   *)
(* has sought over it (PauseServed).                                       *)
(***************************************************************************)
EXTENDS HLSListener, TLAPS, SequenceTheorems, FiniteSetTheorems, WellFoundedInduction

-----------------------------------------------------------------------------
(* Arithmetic of segments.                                                 *)

(* The constants, one fact each. *)
LEMMA Constants ==
    /\ MaxSlots \in Nat /\ MaxCues \in Nat /\ MaxSession \in Nat /\ MaxTroubles \in Nat
    /\ SegLen \in Nat /\ SegLen >= 1 /\ Voice \in Nat /\ Voice >= 1
    /\ MinGap \in Nat /\ MinGap >= 1 /\ Guard \in Nat /\ Guard >= 1
    /\ Bootstrap \in Nat /\ Window \in Nat /\ Lead \in Nat /\ Trail \in Nat /\ Preroll \in Nat
    /\ Bootstrap >= SegLen /\ Lead + Trail <= SegLen
BY HLSListenerAssumption

(* Segments are laid end to end (Segment and First). *)
LEMMA SegmentsInOrder ==
    ASSUME NEW a \in Int, NEW b \in Int, a < b
    PROVE  First(a) + SegLen <= First(b)
<1> DEFINE d == b - a - 1
<1>1. d \in Nat /\ SegLen \in Nat
    BY Constants
<1>2. d * SegLen >= 0
    BY <1>1, SMT
<1>3. b * SegLen = a * SegLen + SegLen + d * SegLen
    BY Constants, SMT
<1> QED
    BY <1>2, <1>3, Constants DEF First

\* First slots are slots, SegLen apart.
LEMMA FirstTyped ==
    /\ \A a \in Int : First(a) \in Int /\ First(a + 1) = First(a) + SegLen
    /\ \A a \in Nat : First(a) \in Nat
    /\ First(0) = 0
BY Constants, SMT DEF First

\* A segment encloses its slots.
LEMMA SegmentHolds ==
    ASSUME NEW s \in Nat
    PROVE  /\ Segment(s) \in Nat
           /\ First(Segment(s)) <= s
           /\ s < First(Segment(s)) + SegLen
BY Constants, SMT DEF Segment, First

(* A slot lies in the segment whose bounds enclose it, and in no other. *)
LEMMA SegmentIs ==
    ASSUME NEW s \in Nat, NEW a \in Int, First(a) <= s, s < First(a) + SegLen
    PROVE  Segment(s) = a
<1>1. Segment(s) \in Nat /\ First(Segment(s)) <= s /\ s < First(Segment(s)) + SegLen
    BY SegmentHolds
<1>2. ~(Segment(s) < a)
    <2> SUFFICES ASSUME Segment(s) < a PROVE FALSE
        OBVIOUS
    <2>1. First(Segment(s)) + SegLen <= First(a)
        BY <1>1, SegmentsInOrder
    <2> QED
        BY <2>1, <1>1, FirstTyped, Constants
<1>3. ~(a < Segment(s))
    <2> SUFFICES ASSUME a < Segment(s) PROVE FALSE
        OBVIOUS
    <2>1. First(a) + SegLen <= First(Segment(s))
        BY <1>1, SegmentsInOrder
    <2> QED
        BY <2>1, <1>1, FirstTyped, Constants
<1> QED
    BY <1>1, <1>2, <1>3

(* The first slot of a segment lies in it. *)
LEMMA SegmentOfFirst ==
    ASSUME NEW a \in Nat
    PROVE  Segment(First(a)) = a
<1>1. First(a) \in Nat /\ First(a) <= First(a) /\ First(a) < First(a) + SegLen
    BY FirstTyped, Constants
<1> QED
    BY <1>1, SegmentIs

\* Later slots lie in later segments.
LEMMA SegmentMonotone ==
    ASSUME NEW s \in Nat, NEW t \in Nat, s <= t
    PROVE  Segment(s) <= Segment(t)
<1>1. /\ Segment(s) \in Nat /\ First(Segment(s)) <= s /\ s < First(Segment(s)) + SegLen
      /\ Segment(t) \in Nat /\ First(Segment(t)) <= t /\ t < First(Segment(t)) + SegLen
    BY SegmentHolds
<1>2. ~(Segment(t) < Segment(s))
    <2> SUFFICES ASSUME Segment(t) < Segment(s) PROVE FALSE
        OBVIOUS
    <2>1. First(Segment(t)) + SegLen <= First(Segment(s))
        BY <1>1, SegmentsInOrder
    <2> QED
        BY <2>1, <1>1, FirstTyped, Constants
<1> QED
    BY <1>1, <1>2

(* The complete segments are those that end at the timeline's edge. *)
LEMMA CompleteSegments ==
    ASSUME Edge \in Nat
    PROVE  /\ Complete \in Nat
           /\ \A s \in Nat : s < Complete => First(s) + SegLen <= Edge
           /\ \A n \in Nat : Segment(n) < Complete => n < Edge
           /\ Complete = Segment(Edge)
<1>1. Complete = Segment(Edge)
    BY DEF Complete, Segment
<1>2. Complete \in Nat /\ First(Complete) <= Edge
    BY <1>1, SegmentHolds
<1>3. ASSUME NEW s \in Nat, s < Complete PROVE First(s) + SegLen <= Edge
    <2>1. First(s) + SegLen <= First(Complete)
        BY <1>2, <1>3, SegmentsInOrder
    <2> QED
        BY <2>1, <1>2, FirstTyped, Constants
<1>4. ASSUME NEW n \in Nat, Segment(n) < Complete PROVE n < Edge
    <2>1. Segment(n) \in Nat /\ First(Segment(n)) <= n /\ n < First(Segment(n)) + SegLen
        BY SegmentHolds
    <2>2. First(Segment(n)) + SegLen <= Edge
        BY <2>1, <1>3, <1>4
    <2> QED
        BY <2>1, <2>2, FirstTyped, Constants
<1> QED
    BY <1>1, <1>2, <1>3, <1>4

(* Smallest and Largest are what they say. *)
LEMMA SmallestIs ==
    ASSUME NEW S, S \subseteq Nat, S # {}
    PROVE  Smallest(S) \in S /\ \A y \in S : Smallest(S) <= y
<1> DEFINE R == {p \in Nat \X Nat : p[1] < p[2]}
<1>1. IsWellFoundedOn(R, Nat)
    BY NatLessThanWellFounded DEF OpToRel
<1> HIDE DEF R
<1>2. PICK x \in S : \A y \in S : ~(<<y, x>> \in R)
    BY <1>1, WFMin
<1>3. ASSUME NEW y \in S PROVE x <= y
    <2>1. ~(<<y, x>> \in R) /\ x \in Nat /\ y \in Nat
        BY <1>2
    <2>2. ~(y < x)
        BY <2>1 DEF R
    <2> QED
        BY <2>1, <2>2
<1> QED
    BY <1>3 DEF Smallest

\* Of a bounded set.
LEMMA LargestIs ==
    ASSUME NEW S, NEW n \in Nat, S \subseteq 0..n, S # {}
    PROVE  Largest(S) \in S /\ \A y \in S : y <= Largest(S)
<1> DEFINE T == {n - y : y \in S}
<1>0. \A y \in S : y \in 0..n /\ n - y \in Nat
    OBVIOUS
<1>1. T \subseteq Nat /\ T # {}
    BY <1>0
<1>2. Smallest(T) \in T /\ \A y \in T : Smallest(T) <= y
    BY <1>1, SmallestIs
<1>3. PICK x \in S : Smallest(T) = n - x
    BY <1>2
<1>4. ASSUME NEW y \in S PROVE y <= x
    <2>1. n - y \in T
        OBVIOUS
    <2>2. n - x <= n - y
        BY <2>1, <1>2, <1>3
    <2> QED
        BY <2>2
<1>5. \E z \in S : \A y \in S : y <= z
    BY <1>4
<1> QED
    BY <1>5 DEF Largest

\* AtLeast and AtMost are maximum and minimum.
LEMMA Maxima ==
    ASSUME NEW a \in Int, NEW b \in Int
    PROVE  /\ AtLeast(a, b) \in Int /\ AtLeast(a, b) >= a /\ AtLeast(a, b) >= b
           /\ AtLeast(a, b) = a \/ AtLeast(a, b) = b
           /\ AtMost(a, b) \in Int /\ AtMost(a, b) <= a /\ AtMost(a, b) <= b
           /\ AtMost(a, b) = a \/ AtMost(a, b) = b
BY DEF AtLeast, AtMost

-----------------------------------------------------------------------------
(* The timeline and its cues.                                              *)

Natural == Lead + Trail

\* The timeline as far as it is decided: written, then the rest of the
\* bootstrap, then what is queued.
Decided == AtLeast(Edge, Bootstrap)
End == Decided + Len(queue)
At(s) == IF s < Edge THEN written[s + 1]
         ELSE IF s < Bootstrap THEN 0
         ELSE queue[s - Decided + 1]

CueSet == [start: Nat, end: Nat, gap: Nat, resume: Int]

StreamTyped ==
    /\ written \in Seq(Int)
    /\ queue \in Seq(Int)
    /\ scheduled \in Nat
    /\ cues \in Seq(CueSet)

\* The cues lie one behind the other, the natural pause and the carrier between.
CuesOrdered ==
    /\ \A k \in DOMAIN cues :
           /\ cues[k].end = cues[k].start + Voice
           /\ cues[k].start >= Bootstrap + Lead
           /\ cues[k].end + Trail <= scheduled
    /\ \A k \in 2..Len(cues) :
           /\ cues[k].start = cues[k - 1].end + Natural + cues[k].gap
           /\ (cues[k].gap > 0 => cues[k].resume = cues[k].start - Natural)
    /\ \A j, k \in DOMAIN cues : j < k => cues[j].end <= cues[k].start

\* The end of the audio that the receipts count is where it is.
ScheduleFits ==
    /\ scheduled >= Bootstrap
    /\ scheduled <= End
    /\ (queue # <<>> => scheduled = End)
    /\ (cues = <<>> => scheduled = Bootstrap)
    /\ (cues # <<>> => scheduled = cues[Len(cues)].end + Trail)

\* Every sentence is in its cue and nowhere else; behind the last clip, and
\* between the edges of two, there is only carrier.
SlotIsRight(s) ==
    /\ \A k \in DOMAIN cues : cues[k].start <= s /\ s < cues[k].end => At(s) = k
    /\ (At(s) > 0 => At(s) \in DOMAIN cues /\ cues[At(s)].start <= s /\ s < cues[At(s)].end)
    /\ (scheduled <= s => At(s) = 0)
    /\ \A k \in 2..Len(cues) :
           cues[k - 1].end + Trail <= s /\ s < cues[k].start - Lead => At(s) = 0
Content == \A s \in Nat : s < End => SlotIsRight(s)

StreamSound == StreamTyped /\ CuesOrdered /\ ScheduleFits /\ Content

\* A step that keeps what is written and the cues there are.
Grows ==
    /\ Edge <= Edge'
    /\ \A s \in 0..Edge - 1 : Slot(s)' = Slot(s)
    /\ Len(cues) <= Len(cues')
    /\ \A k \in DOMAIN cues : cues'[k] = cues[k]

\* The lengths of the timeline are numbers, and in order.
LEMMA Sizes ==
    ASSUME StreamTyped
    PROVE  /\ Edge \in Nat /\ Len(queue) \in Nat /\ Len(cues) \in Nat
           /\ Decided \in Nat /\ Decided >= Edge /\ Decided >= Bootstrap
           /\ (Edge >= Bootstrap => Decided = Edge) /\ (Edge < Bootstrap => Decided = Bootstrap)
           /\ End \in Nat /\ End >= Edge /\ End = Decided + Len(queue)
           /\ DOMAIN cues = 1..Len(cues)
<1>1. Edge \in Nat /\ Len(queue) \in Nat /\ Len(cues) \in Nat /\ DOMAIN cues = 1..Len(cues)
    BY DEF StreamTyped, Edge
<1>2. /\ Decided \in Nat /\ Decided >= Edge /\ Decided >= Bootstrap
      /\ (Edge >= Bootstrap => Decided = Edge) /\ (Edge < Bootstrap => Decided = Bootstrap)
    BY <1>1, Constants DEF Decided, AtLeast
<1> QED
    BY <1>1, <1>2 DEF End

\* The fields of a cue are numbers.
LEMMA CueTyped ==
    ASSUME StreamTyped, NEW k \in DOMAIN cues
    PROVE  /\ cues[k] \in CueSet
           /\ cues[k].start \in Nat /\ cues[k].end \in Nat /\ cues[k].gap \in Nat
           /\ cues[k].resume \in Int
<1>1. cues[k] \in CueSet
    BY DEF StreamTyped
<1> QED
    BY <1>1 DEF CueSet

\* A timeline without anything is sound.
LEMMA IdleIsSound == Idle => StreamSound
<1> SUFFICES ASSUME Idle PROVE StreamSound
    OBVIOUS
<1>1. StreamTyped
    BY Constants DEF Idle, StreamTyped
<1>2. Edge = 0 /\ Len(queue) = 0 /\ Len(cues) = 0 /\ DOMAIN cues = {}
    BY DEF Idle, Edge
<1>3. Decided = Bootstrap /\ End = Bootstrap
    BY <1>2, Constants DEF Decided, End, AtLeast
<1>4. CuesOrdered
    BY <1>2 DEF CuesOrdered
<1>5. ScheduleFits
    BY <1>3, Constants DEF ScheduleFits, Idle
<1>6. ASSUME NEW s \in Nat, s < End PROVE SlotIsRight(s)
    <2>1. At(s) = 0
        BY <1>2, <1>3, <1>6, Constants DEF At
    <2> QED
        BY <2>1, <1>2 DEF SlotIsRight
<1> QED
    BY <1>1, <1>4, <1>5, <1>6 DEF StreamSound, Content

\* The writer moves the queue's head to the timeline, or adds carrier.
LEMMA WriteGrows ==
    ASSUME StreamTyped, Write
    PROVE  /\ StreamTyped' /\ Grows
           /\ cues' = cues /\ scheduled' = scheduled
           /\ \A s \in 0..End - 1 : At(s)' = At(s)
           /\ \/ End' = End /\ (queue' # <<>> => queue # <<>>)
              \/ End' = End + 1 /\ queue = <<>> /\ queue' = <<>>
                 /\ \A e \in Nat : e = End => At(e)' = 0
<1>0. /\ Edge \in Nat /\ Len(queue) \in Nat /\ Decided \in Nat /\ Decided >= Edge
      /\ (Edge >= Bootstrap => Decided = Edge) /\ (Edge < Bootstrap => Decided = Bootstrap)
      /\ End \in Nat /\ End = Decided + Len(queue) /\ Bootstrap \in Nat /\ Len(cues) \in Nat
      /\ DOMAIN cues = 1..Len(cues)
    BY Sizes, Constants
<1>1. cues' = cues /\ scheduled' = scheduled
    BY DEF Write
<1>2. PICK v \in Int : written' = Append(written, v) /\ UNCHANGED cues
    <2>1. CASE Edge < Bootstrap \/ queue = <<>>
        BY <2>1 DEF Write
    <2>2. CASE ~(Edge < Bootstrap \/ queue = <<>>)
        <3>1. written' = Append(written, Head(queue))
            BY <2>2 DEF Write
        <3>2. Head(queue) \in Int
            BY <2>2 DEF StreamTyped
        <3> QED
            BY <3>1, <3>2, <1>1
    <2> QED
        BY <2>1, <2>2
<1>3. written' \in Seq(Int) /\ Edge' = Edge + 1
    BY <1>2 DEF StreamTyped, Edge
<1>4. \A s \in 0..Edge - 1 : written'[s + 1] = written[s + 1]
    BY <1>2, <1>0 DEF StreamTyped, Edge
<1>5. written'[Edge + 1] = v
    BY <1>2, <1>0 DEF StreamTyped, Edge
<1>6. queue' \in Seq(Int)
    <2>1. CASE Edge < Bootstrap \/ queue = <<>>
        BY <2>1 DEF Write, StreamTyped
    <2>2. CASE ~(Edge < Bootstrap \/ queue = <<>>)
        <3>1. queue' = Tail(queue) /\ queue # <<>> /\ queue \in Seq(Int)
            BY <2>2 DEF Write, StreamTyped
        <3> QED
            BY <3>1
    <2> QED
        BY <2>1, <2>2
<1>7. StreamTyped'
    BY <1>1, <1>3, <1>6 DEF StreamTyped
<1>8. Grows
    BY <1>0, <1>1, <1>3, <1>4 DEF Grows, Slot
<1>9. /\ Decided' \in Nat /\ (Edge' >= Bootstrap => Decided' = Edge')
      /\ (Edge' < Bootstrap => Decided' = Bootstrap) /\ End' = Decided' + Len(queue')
      /\ Len(queue') \in Nat
    <2> USE <1>3, <1>6, <1>0
    <2>1. Edge' \in Nat /\ Len(queue') \in Nat
        OBVIOUS
    <2>2. Decided' \in Nat /\ (Edge' >= Bootstrap => Decided' = Edge') /\ (Edge' < Bootstrap => Decided' = Bootstrap)
        BY <2>1 DEF Decided, AtLeast
    <2> QED
        BY <2>1, <2>2 DEF End
<1>10. CASE Edge < Bootstrap
    <2>1. v = 0 /\ queue' = queue
        <3>1. written' = Append(written, 0) /\ queue' = queue
            BY <1>10 DEF Write
        <3>2. written'[Edge + 1] = 0
            BY <3>1 DEF StreamTyped, Edge
        <3> QED
            BY <3>1, <3>2, <1>5
    <2>2. Decided' = Decided /\ End' = End
        BY <2>1, <1>0, <1>3, <1>9, <1>10
    <2>3. ASSUME NEW s \in 0..End - 1 PROVE At(s)' = At(s)
        <3>1. At(s)' = IF s < Edge' THEN written'[s + 1]
                       ELSE IF s < Bootstrap THEN 0 ELSE queue'[s - Decided' + 1]
            BY DEF At
        <3>2. CASE s < Edge
            BY <3>1, <3>2, <1>3, <1>4, <1>0 DEF At
        <3>3. CASE s = Edge
            BY <3>1, <3>3, <1>3, <1>5, <1>0, <2>1, <1>10 DEF At
        <3>4. CASE s > Edge
            BY <3>1, <3>4, <1>3, <1>0, <2>1, <2>2 DEF At
        <3> QED
            BY <3>2, <3>3, <3>4, <1>0
    <2> QED
        BY <1>1, <1>7, <1>8, <2>1, <2>2, <2>3
<1>11. CASE Edge >= Bootstrap /\ queue = <<>>
    <2>1. v = 0 /\ queue' = queue
        <3>1. written' = Append(written, 0) /\ queue' = queue
            BY <1>11 DEF Write
        <3>2. written'[Edge + 1] = 0
            BY <3>1 DEF StreamTyped, Edge
        <3> QED
            BY <3>1, <3>2, <1>5
    <2>2. Len(queue) = 0 /\ End = Edge /\ End' = Edge + 1
        <3>1. Len(queue) = 0 /\ Len(queue') = 0
            BY <2>1, <1>11
        <3>2. Edge' >= Bootstrap /\ Decided' = Edge + 1
            BY <1>0, <1>3, <1>9, <1>11
        <3>3. Decided = Edge
            BY <1>0, <1>11
        <3>4. End = Decided + Len(queue) /\ End' = Decided' + Len(queue')
            BY <1>0, <1>9
        <3> QED
            BY <3>1, <3>2, <3>3, <3>4, <1>0
    <2>3. ASSUME NEW s \in 0..End - 1 PROVE At(s)' = At(s)
        <3>1. At(s)' = IF s < Edge' THEN written'[s + 1]
                       ELSE IF s < Bootstrap THEN 0 ELSE queue'[s - Decided' + 1]
            BY DEF At
        <3> QED
            BY <3>1, <1>3, <1>4, <1>0, <2>2 DEF At
    <2>4. ASSUME NEW e \in Nat, e = End PROVE At(e)' = 0
        <3>1. written'[e + 1] = 0
            BY <2>1, <2>2, <2>4, <1>5
        <3>2. At(e)' = IF e < Edge' THEN written'[e + 1]
                       ELSE IF e < Bootstrap THEN 0 ELSE queue'[e - Decided' + 1]
            BY DEF At
        <3> QED
            BY <3>1, <3>2, <2>2, <2>4, <1>3, <1>0
    <2> QED
        BY <1>1, <1>7, <1>8, <2>1, <2>2, <2>3, <2>4, <1>11
<1>12. CASE Edge >= Bootstrap /\ queue # <<>>
    <2>1. v = Head(queue) /\ queue' = Tail(queue)
        <3>1. written' = Append(written, Head(queue)) /\ queue' = Tail(queue)
            BY <1>12, <1>0 DEF Write
        <3>2. written'[Edge + 1] = Head(queue)
            BY <3>1 DEF StreamTyped, Edge
        <3> QED
            BY <3>1, <3>2, <1>5
    <2>2. /\ Len(queue') = Len(queue) - 1 /\ Head(queue) = queue[1]
          /\ \A i \in 1..Len(queue) - 1 : queue'[i] = queue[i + 1]
        BY <2>1, <1>12 DEF StreamTyped
    <2>3. Decided = Edge /\ Decided' = Edge + 1 /\ End' = End
        BY <2>2, <1>0, <1>3, <1>9, <1>12
    <2>4. ASSUME NEW s \in 0..End - 1 PROVE At(s)' = At(s)
        <3>1. At(s)' = IF s < Edge' THEN written'[s + 1]
                       ELSE IF s < Bootstrap THEN 0 ELSE queue'[s - Decided' + 1]
            BY DEF At
        <3>2. CASE s < Edge
            BY <3>1, <3>2, <1>3, <1>4, <1>0 DEF At
        <3>3. CASE s = Edge
            <4>1. At(s) = queue[1]
                BY <3>3, <2>3, <1>0, <1>12 DEF At
            <4> QED
                BY <4>1, <3>1, <3>3, <1>3, <1>5, <1>0, <2>1, <2>2
        <3>4. CASE s > Edge
            <4>1. At(s) = queue[s - Edge + 1]
                BY <3>4, <2>3, <1>0, <1>12 DEF At
            <4>2. At(s)' = queue'[s - Edge]
                BY <3>1, <3>4, <2>3, <1>3, <1>0, <1>12
            <4>3. s - Edge \in 1..Len(queue) - 1
                BY <3>4, <2>3, <1>0
            <4> QED
                BY <4>1, <4>2, <4>3, <2>2
        <3> QED
            BY <3>2, <3>3, <3>4, <1>0
    <2> QED
        BY <1>1, <1>7, <1>8, <2>3, <2>4, <1>12
<1> QED
    BY <1>10, <1>11, <1>12, <1>0

\* Writing moves the border between written and queued, and no content.
LEMMA WriteIsSound ==
    ASSUME StreamSound, Write
    PROVE  StreamSound'
<1>0. StreamTyped /\ CuesOrdered /\ ScheduleFits /\ Content
    BY DEF StreamSound
<1>1. /\ StreamTyped' /\ cues' = cues /\ scheduled' = scheduled
      /\ \A s \in 0..End - 1 : At(s)' = At(s)
      /\ \/ End' = End /\ (queue' # <<>> => queue # <<>>)
         \/ End' = End + 1 /\ queue = <<>> /\ queue' = <<>>
            /\ \A e \in Nat : e = End => At(e)' = 0
    BY <1>0, WriteGrows
<1>2. End \in Nat /\ End' \in Nat /\ DOMAIN cues = 1..Len(cues)
    <2>1. End \in Nat /\ DOMAIN cues = 1..Len(cues)
        BY <1>0, Sizes
    <2> QED
        BY <2>1, <1>1
<1>20. /\ End <= End' /\ End' <= End + 1 /\ (queue' # <<>> => queue # <<>> /\ End' = End)
       /\ (End' = End + 1 => queue = <<>> /\ \A e \in Nat : e = End => At(e)' = 0)
    BY <1>1, <1>2
<1>3. CuesOrdered'
    BY <1>0, <1>1 DEF CuesOrdered
<1>4. ScheduleFits'
    <2>1. scheduled' \in Nat /\ scheduled' >= Bootstrap /\ scheduled' <= End'
        BY <1>0, <1>1, <1>2, <1>20 DEF ScheduleFits, StreamTyped
    <2>2. queue' # <<>> => scheduled' = End'
        BY <1>0, <1>1, <1>20 DEF ScheduleFits
    <2>3. /\ (cues' = <<>> => scheduled' = Bootstrap)
          /\ (cues' # <<>> => scheduled' = cues'[Len(cues')].end + Trail)
        BY <1>0, <1>1 DEF ScheduleFits
    <2> QED
        BY <2>1, <2>2, <2>3 DEF ScheduleFits
<1>5. ASSUME NEW s \in Nat, s < End' PROVE SlotIsRight(s)'
    <2>1. CASE s < End
        <3>1. At(s)' = At(s)
            BY <2>1, <1>1, <1>2
        <3>2. SlotIsRight(s)
            BY <2>1, <1>0 DEF Content
        <3> QED
            BY <3>1, <3>2, <1>1 DEF SlotIsRight
    <2>2. CASE ~(s < End)
        <3>1. s = End /\ End' = End + 1
            BY <2>2, <1>5, <1>20, <1>2
        <3>2. At(s)' = 0 /\ queue = <<>>
            BY <3>1, <1>20
        <3>3. scheduled <= s /\ scheduled \in Nat
            BY <3>1, <1>0 DEF ScheduleFits, StreamTyped
        <3>4. ASSUME NEW k \in DOMAIN cues PROVE ~(s < cues[k].end)
            <4>1. cues[k].end + Trail <= scheduled
                BY <1>0 DEF CuesOrdered
            <4> QED
                BY <4>1, <3>3, <1>0, CueTyped, Constants, <3>1
        <3> QED
            BY <3>2, <3>4, <1>1 DEF SlotIsRight
    <2> QED
        BY <2>1, <2>2
<1>6. Content'
    BY <1>5 DEF Content
<1> QED
    BY <1>1, <1>3, <1>4, <1>6 DEF StreamSound

\* Where a clip is placed: at the end of what is decided.
LEMMA ClipPlaced ==
    ASSUME StreamTyped, ScheduleFits
    PROVE  /\ Placed.start = End
           /\ Placed.gap \in Nat
           /\ End = scheduled + Placed.gap
<1>0. /\ Edge \in Nat /\ Len(queue) \in Nat /\ Decided \in Nat /\ Decided >= Edge /\ scheduled \in Nat
      /\ (Edge >= Bootstrap => Decided = Edge) /\ (Edge < Bootstrap => Decided = Bootstrap)
      /\ End \in Nat /\ End >= Edge /\ End = Decided + Len(queue) /\ Bootstrap \in Nat
    BY Sizes, Constants DEF StreamTyped
<1>1. /\ Placed.start = AtLeast(Edge, scheduled)
      /\ Placed.gap = AtLeast(0, Edge - scheduled)
    BY DEF Placed
<1>2. scheduled >= Bootstrap /\ scheduled <= End /\ (queue # <<>> => scheduled = End)
    BY DEF ScheduleFits
<1>3. CASE queue # <<>>
    BY <1>0, <1>1, <1>2, <1>3 DEF AtLeast
<1>4. CASE queue = <<>>
    <2>1. Len(queue) = 0
        BY <1>4
    <2>2. End = Decided
        BY <2>1, <1>0
    <2> QED
        BY <2>2, <1>0, <1>1, <1>2 DEF AtLeast
<1> QED
    BY <1>3, <1>4

\* The cue of the clip.
LEMMA CuePlaced ==
    ASSUME StreamTyped, CuesOrdered, ScheduleFits
    PROVE  /\ Cue(Placed) \in CueSet
           /\ Cue(Placed).start = End + Lead
           /\ Cue(Placed).end = End + Lead + Voice
           /\ cues # <<>> =>
                 /\ Cue(Placed).start = cues[Len(cues)].end + Natural + Cue(Placed).gap
                 /\ (Cue(Placed).gap > 0 => Cue(Placed).resume = Cue(Placed).start - Natural)
<1> DEFINE c == Cue(Placed)
           e == cues[Len(cues)].end
           start == End + Lead
<1>0. /\ End \in Nat /\ scheduled \in Nat /\ Placed.start = End /\ Placed.gap \in Nat
      /\ End = scheduled + Placed.gap /\ Lead \in Nat /\ Voice \in Nat /\ Trail \in Nat
    BY ClipPlaced, Sizes, Constants DEF StreamTyped
<1>1. CASE cues = <<>>
    <2>1. c = [start |-> start, end |-> start + Voice,
               gap |-> AtMost(0, Placed.gap),
               resume |-> IF AtMost(0, Placed.gap) > 0 THEN start - (0 - AtMost(0, Placed.gap)) ELSE -1]
        BY <1>1, <1>0 DEF Cue
    <2>2. AtMost(0, Placed.gap) = 0
        BY <1>0 DEF AtMost
    <2>3. c = [start |-> start, end |-> start + Voice, gap |-> 0, resume |-> -1]
        BY <2>1, <2>2
    <2>4. start \in Nat /\ start + Voice \in Nat
        BY <1>0
    <2> HIDE DEF start
    <2>5. c \in CueSet /\ c.start = start /\ c.end = start + Voice
        BY <2>3, <2>4 DEF CueSet
    <2> QED
        BY <2>5, <1>1 DEF start
<1>2. CASE cues # <<>>
    <2>1. e \in Nat /\ scheduled = e + Trail
        <3>1. Len(cues) \in DOMAIN cues
            BY <1>2 DEF StreamTyped
        <3>2. e \in Nat
            BY <3>1, CueTyped
        <3>3. scheduled = e + Trail
            BY <1>2 DEF ScheduleFits
        <3> QED
            BY <3>2, <3>3
    <2> HIDE DEF e, c
    <2>2. start - e = Placed.gap + Trail + Lead
        BY <2>1, <1>0
    <2>3. AtMost(start - e, Placed.gap) = Placed.gap
        BY <2>2, <1>0 DEF AtMost
    <2>4. c = [start |-> start, end |-> start + Voice,
               gap |-> AtMost(start - e, Placed.gap),
               resume |-> IF AtMost(start - e, Placed.gap) > 0
                          THEN start - ((start - e) - AtMost(start - e, Placed.gap)) ELSE -1]
        BY <1>2, <1>0 DEF Cue, c, e
    <2>5. c = [start |-> start, end |-> start + Voice, gap |-> Placed.gap,
               resume |-> IF Placed.gap > 0 THEN start - ((start - e) - Placed.gap) ELSE -1]
        BY <2>4, <2>3
    <2>6. (start - e) - Placed.gap = Natural
        BY <2>2, <1>0 DEF Natural
    <2>7. Natural \in Nat /\ start \in Nat
        BY <1>0 DEF Natural
    <2>8. /\ c.start = start /\ c.end = start + Voice /\ c.gap = Placed.gap
          /\ c.resume = IF Placed.gap > 0 THEN start - Natural ELSE -1
        BY <2>5, <2>6
    <2>9. c \in CueSet
        <3>1. (IF Placed.gap > 0 THEN start - ((start - e) - Placed.gap) ELSE -1) \in Int
            BY <2>6, <2>7
        <3>2. start + Voice \in Nat
            BY <2>7, <1>0
        <3> HIDE DEF start
        <3> QED
            BY <3>1, <3>2, <2>5, <1>0, <2>7 DEF CueSet
    <2>10. start = e + Natural + Placed.gap
        BY <2>1, <1>0 DEF Natural
    <2> HIDE DEF c, e, start
    <2>11. c.start = e + Natural + c.gap /\ (c.gap > 0 => c.resume = c.start - Natural)
        BY <2>8, <2>10
    <2> QED
        BY <2>8, <2>9, <2>11, <1>0 DEF c, e, start
<1> QED
    BY <1>1, <1>2

\* A clip is appended behind everything that is decided.
LEMMA AppendGrows ==
    ASSUME StreamTyped, CuesOrdered, ScheduleFits, AppendClip
    PROVE  /\ StreamTyped' /\ Grows
           /\ written' = written
           /\ Len(cues') = Len(cues) + 1
           /\ cues'[Len(cues) + 1] = Cue(Placed)
           /\ scheduled' = End' /\ End' = End + Lead + Voice + Trail
           /\ queue' # <<>> /\ cues' # <<>>
           /\ \A s \in Nat : s < End => At(s)' = At(s)
           /\ \A s \in Nat : End <= s /\ s < End' =>
                  At(s)' = IF s - End + 1 \in Lead + 1..Lead + Voice
                           THEN Len(cues) + 1 ELSE -(Len(cues) + 1)
<1> DEFINE k == Len(cues) + 1
           n == Lead + Voice + Trail
           C == Clip(k)
<1>0. /\ Edge \in Nat /\ Len(queue) \in Nat /\ Decided \in Nat /\ Decided >= Edge
      /\ Decided >= Bootstrap /\ (Edge >= Bootstrap => Decided = Edge)
      /\ End \in Nat /\ End >= Edge /\ End = Decided + Len(queue) /\ Bootstrap \in Nat
      /\ Len(cues) \in Nat /\ DOMAIN cues = 1..Len(cues)
      /\ Lead \in Nat /\ Voice \in Nat /\ Trail \in Nat /\ Voice >= 1
    BY Sizes, Constants
<1>1. /\ written' = written /\ queue' = queue \o Clip(Len(cues) + 1)
      /\ scheduled' = Placed.start + Len(Clip(1)) /\ cues' = Append(cues, Cue(Placed))
    BY DEF AppendClip
<1>2. k \in Nat /\ n \in Nat /\ n >= 1
    BY <1>0
<1>3. ASSUME NEW j \in Nat
      PROVE  /\ Clip(j) \in Seq(Int) /\ Len(Clip(j)) = n
             /\ \A i \in 1..n : Clip(j)[i] = IF i \in Lead + 1..Lead + Voice THEN j ELSE -j
    <2> HIDE DEF n
    <2>1. Clip(j) = [i \in 1..n |-> IF i \in Lead + 1..Lead + Voice THEN j ELSE -j]
        BY DEF Clip, n
    <2>2. \A i \in 1..n : (IF i \in Lead + 1..Lead + Voice THEN j ELSE -j) \in Int
        OBVIOUS
    <2> QED
        BY <2>1, <2>2, <1>2
<1>4. C \in Seq(Int) /\ Len(C) = n /\ Len(Clip(1)) = n
    BY <1>2, <1>3
<1>5. /\ queue' \in Seq(Int) /\ Len(queue') = Len(queue) + n /\ queue' # <<>>
      /\ \A i \in 1..Len(queue) : queue'[i] = queue[i]
      /\ \A i \in 1..n : queue'[Len(queue) + i] = C[i]
    <2> HIDE DEF C, n
    <2>1. queue \in Seq(Int) /\ queue' = queue \o C
        BY <1>1 DEF StreamTyped, C
    <2>2. queue' \in Seq(Int) /\ Len(queue') = Len(queue) + n
        BY <2>1, <1>4
    <2>3. \A i \in 1..Len(queue) : queue'[i] = queue[i]
        BY <2>1, <1>4
    <2>4. \A i \in 1..n : queue'[Len(queue) + i] = C[i]
        BY <2>1, <1>4, <1>2
    <2>5. queue' # <<>>
        BY <2>2, <1>2, <1>0
    <2> QED
        BY <2>2, <2>3, <2>4, <2>5
<1> HIDE DEF C
<1>6. /\ Edge' = Edge /\ Decided' = Decided /\ End' = End + n
    <2>1. Edge' = Edge /\ Decided' = Decided
        BY <1>1 DEF Edge, Decided
    <2>2. End' = Decided' + Len(queue')
        BY DEF End
    <2> QED
        BY <2>1, <2>2, <1>5, <1>0, <1>2
<1>7. scheduled' = End' /\ scheduled' \in Nat
    <2>1. scheduled' = Placed.start + Len(Clip(1)) /\ Placed.start = End
        BY <1>1, ClipPlaced
    <2>2. scheduled' = End + n
        BY <2>1, <1>4
    <2>3. End + n \in Nat
        BY <1>0, <1>2
    <2> QED
        BY <2>2, <2>3, <1>6
<1>8. /\ cues' \in Seq(CueSet) /\ Len(cues') = k /\ cues'[k] = Cue(Placed) /\ cues' # <<>>
      /\ \A j \in DOMAIN cues : cues'[j] = cues[j]
    BY <1>1, CuePlaced DEF StreamTyped
<1>9. StreamTyped'
    BY <1>1, <1>5, <1>7, <1>8 DEF StreamTyped
<1>10. Grows
    BY <1>0, <1>1, <1>6, <1>8 DEF Grows, Slot
<1>11. ASSUME NEW s \in Nat, s < End PROVE At(s)' = At(s)
    <2>1. At(s)' = IF s < Edge' THEN written'[s + 1]
                   ELSE IF s < Bootstrap THEN 0 ELSE queue'[s - Decided' + 1]
        BY DEF At
    <2>2. CASE s < Edge
        BY <2>1, <2>2, <1>1, <1>6 DEF At
    <2>3. CASE ~(s < Edge) /\ s < Bootstrap
        BY <2>1, <2>3, <1>6 DEF At
    <2>4. CASE ~(s < Edge) /\ ~(s < Bootstrap)
        <3>1. s >= Decided
            BY <2>4, <1>0 DEF Decided, AtLeast
        <3>2. s - Decided + 1 \in 1..Len(queue)
            BY <3>1, <1>11, <1>0
        <3> QED
            BY <3>2, <2>1, <2>4, <1>5, <1>6 DEF At
    <2> QED
        BY <2>2, <2>3, <2>4
<1>12. ASSUME NEW s \in Nat, End <= s, s < End'
       PROVE  At(s)' = IF s - End + 1 \in Lead + 1..Lead + Voice THEN k ELSE -k
    <2>1. At(s)' = IF s < Edge' THEN written'[s + 1]
                   ELSE IF s < Bootstrap THEN 0 ELSE queue'[s - Decided' + 1]
        BY DEF At
    <2>2. At(s)' = queue'[s - Decided + 1]
        BY <2>1, <1>12, <1>6, <1>0
    <2>3. s - End + 1 \in 1..n
        BY <1>12, <1>6, <1>0, <1>2
    <2>4. s - Decided + 1 = Len(queue) + (s - End + 1)
        BY <1>0
    <2>5. At(s)' = C[s - End + 1]
        BY <2>2, <2>3, <2>4, <1>5
    <2> QED
        BY <2>5, <2>3, <1>2, <1>3 DEF C
<1>13. End' = End + Lead + Voice + Trail
    BY <1>6, <1>0, <1>2
<1>14. \A s \in Nat : End <= s /\ s < End' =>
           At(s)' = IF s - End + 1 \in Lead + 1..Lead + Voice THEN k ELSE -k
    BY <1>12
<1>15. written' = written /\ Len(cues') = k /\ cues'[k] = Cue(Placed) /\ queue' # <<>> /\ cues' # <<>>
    BY <1>1, <1>5, <1>8
<1> HIDE DEF n
<1> QED
    BY <1>7, <1>9, <1>10, <1>11, <1>13, <1>14, <1>15

\* The new cue lies on the new clip, and the carrier before it is its gap.
LEMMA AppendIsSound ==
    ASSUME StreamSound, AppendClip
    PROVE  StreamSound'
<1> DEFINE k == Len(cues) + 1
           c == Cue(Placed)
<1>0. StreamTyped /\ CuesOrdered /\ ScheduleFits /\ Content
    BY DEF StreamSound
<1>1. /\ StreamTyped' /\ Grows /\ Len(cues') = k /\ cues'[k] = c
      /\ scheduled' = End' /\ End' = End + Lead + Voice + Trail
      /\ queue' # <<>> /\ cues' # <<>>
      /\ \A s \in Nat : s < End => At(s)' = At(s)
      /\ \A s \in Nat : End <= s /\ s < End' =>
             At(s)' = IF s - End + 1 \in Lead + 1..Lead + Voice THEN k ELSE -k
    BY <1>0, AppendGrows
<1>2. /\ c \in CueSet /\ c.start = End + Lead /\ c.end = End + Lead + Voice
      /\ cues # <<>> => /\ c.start = cues[Len(cues)].end + Natural + c.gap
                        /\ (c.gap > 0 => c.resume = c.start - Natural)
    BY <1>0, CuePlaced
<1>3. /\ End \in Nat /\ Len(cues) \in Nat /\ DOMAIN cues = 1..Len(cues) /\ scheduled \in Nat
      /\ scheduled <= End /\ scheduled >= Bootstrap
      /\ Lead \in Nat /\ Voice \in Nat /\ Trail \in Nat /\ Bootstrap \in Nat /\ Voice >= 1
    BY <1>0, Sizes, Constants DEF ScheduleFits, StreamTyped
<1>4. DOMAIN cues' = 1..k /\ k \in Nat /\ \A j \in 1..Len(cues) : cues'[j] = cues[j]
    <2>1. cues' \in Seq(CueSet)
        BY <1>1 DEF StreamTyped
    <2>2. DOMAIN cues' = 1..Len(cues')
        BY <2>1
    <2>3. \A j \in 1..Len(cues) : cues'[j] = cues[j]
        BY <1>1, <1>3 DEF Grows
    <2> QED
        BY <2>2, <2>3, <1>1, <1>3
<1>5. \A j \in 1..k : j \in 1..Len(cues) \/ j = k
    BY <1>3
<1>6. ASSUME NEW j \in 1..Len(cues)
      PROVE  /\ cues[j].start \in Nat /\ cues[j].end \in Nat /\ cues[j].gap \in Nat
             /\ cues[j].end = cues[j].start + Voice /\ cues[j].start >= Bootstrap + Lead
             /\ cues[j].end + Trail <= scheduled
    BY <1>0, <1>3, CueTyped DEF CuesOrdered
<1> HIDE DEF c
<1>7. CuesOrdered'
    <2>1. ASSUME NEW j \in 1..k
          PROVE  /\ cues'[j].end = cues'[j].start + Voice /\ cues'[j].start >= Bootstrap + Lead
                 /\ cues'[j].end + Trail <= scheduled'
        <3>1. CASE j \in 1..Len(cues)
            BY <3>1, <1>6, <1>4, <1>1, <1>3
        <3>2. CASE j = k
            BY <3>2, <1>1, <1>2, <1>3
        <3> QED
            BY <3>1, <3>2, <1>5
    <2>2. ASSUME NEW j \in 2..k
          PROVE  /\ cues'[j].start = cues'[j - 1].end + Natural + cues'[j].gap
                 /\ (cues'[j].gap > 0 => cues'[j].resume = cues'[j].start - Natural)
        <3>1. CASE j \in 2..Len(cues)
            <4>1. j \in 1..Len(cues) /\ j - 1 \in 1..Len(cues)
                BY <3>1, <1>3
            <4> QED
                BY <4>1, <3>1, <1>4, <1>0 DEF CuesOrdered
        <3>2. CASE j = k
            <4>1. cues # <<>> /\ j - 1 = Len(cues) /\ j - 1 \in 1..Len(cues)
                BY <3>2, <1>3
            <4>2. cues'[j - 1] = cues[Len(cues)] /\ cues'[j] = c
                BY <4>1, <1>4, <1>1, <3>2
            <4> QED
                BY <4>1, <4>2, <1>2
        <3> QED
            BY <3>1, <3>2, <1>3
    <2>3. ASSUME NEW i \in 1..k, NEW j \in 1..k, i < j PROVE cues'[i].end <= cues'[j].start
        <3>1. i \in 1..Len(cues)
            BY <2>3, <1>3
        <3>2. CASE j \in 1..Len(cues)
            BY <3>1, <3>2, <2>3, <1>4, <1>0, <1>3 DEF CuesOrdered
        <3>3. CASE j = k
            BY <3>1, <3>3, <1>4, <1>1, <1>2, <1>6, <1>3
        <3> QED
            BY <3>2, <3>3, <1>5
    <2> QED
        BY <2>1, <2>2, <2>3, <1>4, <1>1 DEF CuesOrdered
<1>8. ScheduleFits'
    <2>1. cues'[Len(cues')].end + Trail = scheduled' /\ scheduled' >= Bootstrap /\ scheduled' <= End'
        BY <1>1, <1>2, <1>3
    <2> QED
        BY <2>1, <1>1 DEF ScheduleFits
<1>9. ASSUME NEW s \in Nat, s < End' PROVE SlotIsRight(s)'
    <2>1. CASE s < End
        <3>1. At(s)' = At(s) /\ SlotIsRight(s)
            BY <2>1, <1>1, <1>0 DEF Content
        <3>2. ASSUME NEW j \in 1..k, cues'[j].start <= s, s < cues'[j].end PROVE At(s)' = j
            <4>1. j # k
                BY <3>2, <1>1, <1>2, <1>3, <2>1
            <4>2. j \in 1..Len(cues)
                BY <4>1, <1>5
            <4> QED
                BY <4>2, <3>1, <3>2, <1>3, <1>4 DEF SlotIsRight
        <3>3. ASSUME At(s)' > 0
              PROVE  At(s)' \in 1..k /\ cues'[At(s)'].start <= s /\ s < cues'[At(s)'].end
            <4>1. At(s) \in 1..Len(cues) /\ cues[At(s)].start <= s /\ s < cues[At(s)].end
                BY <3>1, <3>3, <1>3 DEF SlotIsRight
            <4>2. PICK a \in 1..Len(cues) : a = At(s)
                BY <4>1
            <4>3. At(s)' = a /\ cues[a].start <= s /\ s < cues[a].end /\ cues'[a] = cues[a] /\ a \in 1..k
                BY <4>1, <4>2, <3>1, <1>4, <1>3
            <4> QED
                BY <4>3
        <3>4. ~(scheduled' <= s)
            BY <1>1, <1>3, <2>1
        <3>5. ASSUME NEW j \in 2..k, cues'[j - 1].end + Trail <= s, s < cues'[j].start - Lead
              PROVE  At(s)' = 0
            <4>1. CASE j \in 2..Len(cues)
                <5>1. j \in 1..Len(cues) /\ j - 1 \in 1..Len(cues)
                    BY <4>1, <1>3
                <5> QED
                    BY <5>1, <4>1, <3>1, <3>5, <1>4 DEF SlotIsRight
            <4>2. CASE j = k
                <5>1. j - 1 = Len(cues) /\ j - 1 \in 1..Len(cues) /\ cues # <<>>
                    BY <4>2, <1>3
                <5>2. scheduled <= s
                    BY <5>1, <3>5, <1>4, <1>0 DEF ScheduleFits
                <5> QED
                    BY <5>2, <3>1 DEF SlotIsRight
            <4> QED
                BY <4>1, <4>2, <1>3
        <3> QED
            BY <3>2, <3>3, <3>4, <3>5, <1>4, <1>1 DEF SlotIsRight
    <2>2. CASE ~(s < End)
        <3>1. At(s)' = IF s - End + 1 \in Lead + 1..Lead + Voice THEN k ELSE -k
            BY <2>2, <1>9, <1>1, <1>3
        <3>2. s - End + 1 \in Lead + 1..Lead + Voice <=> (c.start <= s /\ s < c.end)
            BY <2>2, <1>2, <1>3
        <3>3. ASSUME NEW j \in 1..k, cues'[j].start <= s, s < cues'[j].end PROVE j = k
            <4>1. CASE j \in 1..Len(cues)
                <5>1. cues[j].end + Trail <= scheduled /\ cues[j].end \in Nat
                    BY <4>1, <1>6
                <5>2. s < cues[j].end
                    BY <4>1, <1>4, <3>3
                <5>3. cues[j].end <= End
                    BY <5>1, <1>3
                <5> QED
                    BY <5>1, <5>2, <5>3, <2>2, <1>3
            <4> QED
                BY <4>1, <1>5
        <3>4. ASSUME NEW j \in 1..k, cues'[j].start <= s, s < cues'[j].end PROVE At(s)' = j
            <4>1. j = k
                BY <3>3, <3>4
            <4> QED
                BY <4>1, <3>1, <3>2, <3>4, <1>1
        <3>5. ASSUME At(s)' > 0
              PROVE  At(s)' \in 1..k /\ cues'[At(s)'].start <= s /\ s < cues'[At(s)'].end
            <4>1. At(s)' = k /\ c.start <= s /\ s < c.end
                BY <3>1, <3>2, <3>5, <1>4, <1>3
            <4> QED
                BY <4>1, <1>1, <1>4, <1>3
        <3>6. ~(scheduled' <= s)
            BY <1>1, <1>9, <1>3
        <3>7. ASSUME NEW j \in 2..k PROVE ~(s < cues'[j].start - Lead)
            <4>1. j \in 1..k
                BY <1>3
            <4>2. CASE j \in 1..Len(cues)
                <5>1. /\ cues[j].end + Trail <= scheduled /\ cues[j].end \in Nat /\ cues[j].start \in Nat
                      /\ cues[j].end = cues[j].start + Voice
                    BY <4>2, <1>6
                <5>2. cues'[j].start = cues[j].start
                    BY <4>2, <1>4
                <5>3. PICK x \in Nat, y \in Nat : /\ x = cues[j].start /\ y = cues[j].end
                                                /\ y = x + Voice /\ y + Trail <= scheduled
                    BY <5>1
                <5>4. PICK e \in Nat : e = End /\ scheduled <= e /\ scheduled \in Nat
                    BY <1>3
                <5>5. x <= e
                    <6>1. y <= scheduled
                        <7>1. y + Trail <= scheduled /\ Trail \in Nat /\ scheduled \in Nat
                            BY <5>3, <5>4, Constants
                        <7> QED
                            BY <7>1
                    <6>2. x <= y
                        BY <5>3, Constants
                    <6> QED
                        BY <6>1, <6>2, <5>4
                <5>6. ~(s < x - Lead)
                    <6>1. ~(s < e)
                        BY <5>4, <2>2
                    <6> QED
                        BY <6>1, <5>5, Constants
                <5> QED
                    BY <5>2, <5>3, <5>6
            <4>3. CASE j = k
                BY <4>3, <1>1, <1>2, <1>3, <2>2
            <4> QED
                BY <4>1, <4>2, <4>3, <1>5
        <3> QED
            BY <3>4, <3>5, <3>6, <3>7, <1>4, <1>1 DEF SlotIsRight
    <2> QED
        BY <2>1, <2>2
<1> QED
    BY <1>1, <1>7, <1>8, <1>9 DEF StreamSound, Content

\* Sound is a matter of the stream's variables alone.
LEMMA StreamUnchanged ==
    ASSUME StreamSound, UNCHANGED stream
    PROVE  StreamSound'
<1>1. written' = written /\ queue' = queue /\ scheduled' = scheduled /\ cues' = cues
    BY DEF stream
<1>2. Edge' = Edge /\ Decided' = Decided /\ End' = End
    BY <1>1 DEF Edge, Decided, End
<1>3. StreamTyped' /\ CuesOrdered' /\ ScheduleFits'
    BY <1>1, <1>2 DEF StreamSound, StreamTyped, CuesOrdered, ScheduleFits
<1>4. ASSUME NEW s \in Nat, s < End' PROVE SlotIsRight(s)'
    <2>1. SlotIsRight(s)
        BY <1>4, <1>2 DEF StreamSound, Content
    <2>2. At(s)' = At(s)
        BY <1>1, <1>2 DEF At
    <2> QED
        BY <2>1, <2>2, <1>1 DEF SlotIsRight
<1> QED
    BY <1>3, <1>4 DEF StreamSound, Content

\* A lease that is given up ends the stream or leaves it alone.
LEMMA ReleasedIsSound ==
    ASSUME StreamSound, NEW ls, Released(ls)
    PROVE  StreamSound'
<1>1. CASE ls = {}
    <2>1. Idle'
        BY <1>1 DEF Released, Idle
    <2> QED
        BY <2>1, IdleIsSound, PTL
<1>2. CASE ls # {}
    BY <1>2, StreamUnchanged DEF Released
<1> QED
    BY <1>1, <1>2

(* Every step keeps the timeline sound, and keeps what it has as long as the *)
(* running session holds its lease.                                          *)
LEMMA StreamStep ==
    ASSUME StreamSound, [Next]_vars
    PROVE  StreamSound'
<1>1. CASE Write
    BY <1>1, WriteIsSound
<1>2. CASE AppendClip
    BY <1>2, AppendIsSound
<1>3. CASE Prune
    BY <1>3, ReleasedIsSound DEF Prune
<1>4. ASSUME NEW i \in 1..MaxSession, RemoveListener(i) PROVE StreamSound'
    BY <1>4, ReleasedIsSound DEF RemoveListener
<1>5. CASE UNCHANGED stream
    BY <1>5, StreamUnchanged
<1>6. CASE UNCHANGED vars
    BY <1>6, <1>5 DEF vars
<1>7. CASE Playlist \/ Join \/ Load \/ Play \/ Skip
    BY <1>7, <1>5 DEF Playlist, Join, Load, LoadSegment, Play, Skip
<1>8. CASE Start \/ Stop \/ MarkPlaying \/ MarkBlocked \/ Stalled \/ Pause \/ Resume
    BY <1>8, <1>5 DEF Start, Stop, MarkPlaying, MarkBlocked, Stalled, Pause, Resume, Trouble
<1>9. ASSUME NEW i \in 1..MaxSession, LateRequest(i) PROVE StreamSound'
    BY <1>9, <1>5 DEF LateRequest
<1>10. ASSUME NEW r \in arriving, LoseRequest(r) PROVE StreamSound'
    BY <1>10, <1>5 DEF LoseRequest
<1>11. ASSUME NEW native \in BOOLEAN, Refresh(native) PROVE StreamSound'
    BY <1>11, <1>5 DEF Refresh
<1>12. ASSUME NEW native \in BOOLEAN, NEW n \in 1..Len(cues), TakeCaptions(n, native)
       PROVE StreamSound'
    BY <1>12, <1>5 DEF TakeCaptions
<1> QED
    BY <1>1, <1>2, <1>3, <1>4, <1>6, <1>7, <1>8, <1>9, <1>10, <1>11, <1>12 DEF Next

\* What a concatenation holds, index by index.
LEMMA Concatenation ==
    ASSUME NEW p \in Seq(Int), NEW q \in Seq(Int)
    PROVE  /\ p \o q \in Seq(Int) /\ Len(p \o q) = Len(p) + Len(q)
           /\ \A i \in 1..Len(p) : (p \o q)[i] = p[i]
           /\ \A i \in 1..Len(q) : (p \o q)[Len(p) + i] = q[i]
<1>1. p \o q \in Seq(Int) /\ Len(p \o q) = Len(p) + Len(q)
    OBVIOUS
<1>2. \A i \in 1..Len(p) : (p \o q)[i] = p[i]
    OBVIOUS
<1>3. \A i \in 1..Len(q) : (p \o q)[Len(p) + i] = q[i]
    OBVIOUS
<1> QED
    BY <1>1, <1>2, <1>3

\* Carrier of a given length.
LEMMA CarrierOf ==
    ASSUME NEW n \in Nat
    PROVE  \E b \in Seq(Int) : /\ b = [i \in 1..n |-> 0] /\ Len(b) = n
                              /\ \A i \in 1..n : b[i] = 0
<1> DEFINE b == [i \in 1..n |-> 0]
<1>1. b \in Seq(Int) /\ Len(b) = n /\ \A i \in 1..n : b[i] = 0
    OBVIOUS
<1> QED
    BY <1>1

(* The timeline that CuesMatchAudio speaks of, slot by slot. *)
LEMMA TimelineIs ==
    ASSUME StreamTyped
    PROVE  Len(Timeline) = End /\ \A s \in Nat : s < End => Timeline[s + 1] = At(s)
<1>0. /\ Edge \in Nat /\ Len(queue) \in Nat /\ Decided \in Nat /\ Decided >= Edge
      /\ (Edge >= Bootstrap => Decided = Edge) /\ (Edge < Bootstrap => Decided = Bootstrap)
      /\ End \in Nat /\ End = Decided + Len(queue) /\ Bootstrap \in Nat
      /\ written \in Seq(Int) /\ queue \in Seq(Int) /\ Len(written) = Edge
    BY Sizes, Constants DEF StreamTyped, Edge
<1>1. PICK b \in Seq(Int) :
         /\ b = IF Edge < Bootstrap THEN [i \in 1..Bootstrap - Edge |-> 0] ELSE <<>>
         /\ Len(b) = Decided - Edge /\ \A i \in 1..Decided - Edge : b[i] = 0
    <2>1. CASE Edge < Bootstrap
        <3>1. Bootstrap - Edge \in Nat /\ Decided - Edge = Bootstrap - Edge
            BY <2>1, <1>0
        <3> QED
            BY <3>1, <2>1, CarrierOf
    <2>2. CASE Edge >= Bootstrap
        <3>1. Decided - Edge = 0 /\ ~(Edge < Bootstrap)
            BY <2>2, <1>0
        <3>2. <<>> \in Seq(Int) /\ Len(<<>>) = 0 /\ 1..0 = {}
            OBVIOUS
        <3> QED
            BY <3>1, <3>2
    <2> QED
        BY <2>1, <2>2, <1>0
<1>2. PICK W : W = written \o b
    OBVIOUS
<1>20. Timeline = W \o queue
    BY <1>1, <1>2 DEF Timeline
<1>3. /\ W \in Seq(Int) /\ Len(W) = Decided
      /\ \A i \in 1..Edge : W[i] = written[i]
      /\ \A i \in 1..Decided - Edge : W[Edge + i] = 0
    <2>1. /\ W \in Seq(Int) /\ Len(W) = Edge + Len(b)
          /\ \A i \in 1..Edge : W[i] = written[i]
          /\ \A i \in 1..Len(b) : W[Edge + i] = b[i]
        <3>1. /\ written \o b \in Seq(Int) /\ Len(written \o b) = Len(written) + Len(b)
              /\ \A i \in 1..Len(written) : (written \o b)[i] = written[i]
              /\ \A i \in 1..Len(b) : (written \o b)[Len(written) + i] = b[i]
            BY <1>0, Concatenation
        <3> QED
            BY <3>1, <1>0, <1>2
    <2>2. Len(b) = Decided - Edge /\ Edge + Len(b) = Decided
        BY <1>0, <1>1
    <2>3. \A i \in 1..Decided - Edge : b[i] = 0
        BY <1>1
    <2>4. \A i \in 1..Decided - Edge : W[Edge + i] = 0
        BY <2>1, <2>2, <2>3
    <2> QED
        BY <2>1, <2>2, <2>4
<1>4. /\ Len(W \o queue) = Decided + Len(queue)
      /\ \A i \in 1..Decided : (W \o queue)[i] = W[i]
      /\ \A i \in 1..Len(queue) : (W \o queue)[Decided + i] = queue[i]
    <2>1. /\ Len(W \o queue) = Len(W) + Len(queue)
          /\ \A i \in 1..Len(W) : (W \o queue)[i] = W[i]
          /\ \A i \in 1..Len(queue) : (W \o queue)[Len(W) + i] = queue[i]
        BY <1>0, <1>3, Concatenation
    <2> QED
        BY <2>1, <1>3
<1>5. ASSUME NEW s \in Nat, s < End PROVE Timeline[s + 1] = At(s)
    <2>1. CASE s < Edge
        BY <2>1, <1>20, <1>3, <1>4, <1>0 DEF At
    <2>2. CASE Edge <= s /\ s < Bootstrap
        <3>1. Decided = Bootstrap /\ s + 1 \in 1..Decided
            BY <2>2, <1>0
        <3>2. s + 1 - Edge \in 1..Decided - Edge /\ Edge + (s + 1 - Edge) = s + 1
            BY <3>1, <2>2, <1>0
        <3>3. W[s + 1] = 0
            BY <3>2, <1>3
        <3>4. Timeline[s + 1] = 0
            BY <3>1, <3>3, <1>20, <1>4
        <3> QED
            BY <3>4, <2>2, <1>0 DEF At
    <2>3. CASE Edge <= s /\ Bootstrap <= s
        <3>1. s - Decided + 1 \in 1..Len(queue) /\ Decided + (s - Decided + 1) = s + 1
            BY <2>3, <1>5, <1>0
        <3>2. Timeline[s + 1] = queue[s - Decided + 1]
            BY <3>1, <1>20, <1>4
        <3>3. ~(s < Edge) /\ ~(s < Bootstrap)
            BY <2>3, <1>0
        <3> QED
            BY <3>2, <3>3 DEF At
    <2> QED
        BY <2>1, <2>2, <2>3, <1>0
<1> QED
    BY <1>20, <1>4, <1>5, <1>0

\* On a sound timeline the cues are right in the words of CuesMatchAudio.
LEMMA SoundCuesMatch == StreamSound => CuesMatchAudio
<1> SUFFICES ASSUME StreamSound, NEW k \in DOMAIN cues
             PROVE  /\ {s \in 0..Len(Timeline) - 1 : Timeline[s + 1] = k}
                           = cues[k].start..cues[k].end - 1
                    /\ k > 1 => cues[k].gap
                           <= Cardinality({s \in PauseBefore(k) : Timeline[s + 1] = 0})
    BY DEF CuesMatchAudio
<1>0. StreamTyped /\ CuesOrdered /\ ScheduleFits /\ Content
    BY DEF StreamSound
<1>1. /\ Len(Timeline) = End /\ End \in Nat /\ Len(cues) \in Nat /\ k \in 1..Len(cues)
      /\ \A s \in Nat : s < End => Timeline[s + 1] = At(s)
    BY <1>0, TimelineIs, Sizes
<1>2. /\ cues[k].start \in Nat /\ cues[k].end \in Nat /\ cues[k].gap \in Nat
      /\ cues[k].end + Trail <= scheduled /\ scheduled <= End /\ scheduled \in Nat
      /\ cues[k].end = cues[k].start + Voice
      /\ Lead \in Nat /\ Trail \in Nat /\ Natural = Lead + Trail /\ Voice \in Nat
    BY <1>0, CueTyped, Constants DEF CuesOrdered, ScheduleFits, StreamTyped, Natural
<1>20. PICK a \in Nat, b \in Nat, g \in Nat : a = cues[k].start /\ b = cues[k].end /\ g = cues[k].gap
    BY <1>2
<1>21. a <= b /\ b <= End /\ b + Trail <= End
    <2>1. b = a + Voice /\ b + Trail <= scheduled
        BY <1>2, <1>20
    <2> QED
        BY <2>1, <1>1, <1>2
<1>3. ASSUME NEW s \in Nat, s < End PROVE At(s) = k <=> (cues[k].start <= s /\ s < cues[k].end)
    <2>1. SlotIsRight(s)
        BY <1>3, <1>0 DEF Content
    <2>2. At(s) = k => At(s) > 0
        BY <1>1
    <2> QED
        BY <2>1, <2>2 DEF SlotIsRight
<1>4. {s \in 0..Len(Timeline) - 1 : Timeline[s + 1] = k} = cues[k].start..cues[k].end - 1
    <2>1. ASSUME NEW s \in 0..Len(Timeline) - 1, Timeline[s + 1] = k
          PROVE  s \in cues[k].start..cues[k].end - 1
        <3>1. s \in Nat /\ s < End
            BY <1>1
        <3> QED
            BY <3>1, <2>1, <1>1, <1>20, <1>3
    <2>2. ASSUME NEW s \in cues[k].start..cues[k].end - 1
          PROVE  s \in 0..Len(Timeline) - 1 /\ Timeline[s + 1] = k
        <3>1. s \in Nat /\ s < End /\ cues[k].start <= s /\ s < cues[k].end
            <4>1. s \in a..b - 1
                BY <1>20
            <4>2. s \in Nat /\ s < End /\ a <= s /\ s < b
                BY <4>1, <1>21, <1>1
            <4> QED
                BY <4>2, <1>20
        <3> QED
            BY <3>1, <1>1, <1>3
    <2> QED
        BY <2>1, <2>2
<1>5. ASSUME k > 1
      PROVE  cues[k].gap <= Cardinality({s \in PauseBefore(k) : Timeline[s + 1] = 0})
    <2> DEFINE Z == {s \in PauseBefore(k) : Timeline[s + 1] = 0}
    <2>1. PICK e \in Nat : e = cues[k - 1].end /\ k \in 2..Len(cues)
        <3>1. k \in 2..Len(cues) /\ k - 1 \in DOMAIN cues
            BY <1>5, <1>1, <1>0, Sizes
        <3> QED
            BY <3>1, <1>0, CueTyped
    <2>2. a = e + Natural + g
        BY <2>1, <1>0, <1>20 DEF CuesOrdered
    <2> DEFINE G == e + Trail..a - Lead - 1
    <2>3. ASSUME NEW s \in G PROVE s \in Z
        <3>1. s \in Nat /\ s < End /\ e <= s /\ s <= a - 1 /\ e + Trail <= s /\ s < a - Lead
            BY <2>2, <1>2, <1>21, <1>1
        <3>2. At(s) = 0
            BY <3>1, <2>1, <1>0, <1>20 DEF Content, SlotIsRight
        <3>3. s \in PauseBefore(k)
            BY <3>1, <2>1, <1>20 DEF PauseBefore
        <3> QED
            BY <3>1, <3>2, <3>3, <1>1
    <2>4. IsFiniteSet(PauseBefore(k))
        <3>1. PauseBefore(k) = e..a - 1 /\ a - 1 \in Int
            BY <2>1, <1>20 DEF PauseBefore
        <3> QED
            BY <3>1, FS_Interval
    <2>5. IsFiniteSet(Z)
        BY <2>4, FS_Subset
    <2> HIDE DEF Z
    <2>6. Cardinality(G) = g
        <3>1. e + Trail \in Int /\ a - Lead - 1 \in Int
            BY <1>2
        <3>2. Cardinality(G) = IF e + Trail > a - Lead - 1 THEN 0
                               ELSE (a - Lead - 1) - (e + Trail) + 1
            BY <3>1, FS_Interval
        <3> QED
            BY <3>2, <2>2, <1>2
    <2> HIDE DEF G
    <2>7. Cardinality(G) <= Cardinality(Z)
        BY <2>3, <2>5, FS_Subset
    <2> QED
        BY <2>6, <2>7, <1>20 DEF Z
<1> QED
    BY <1>4, <1>5

-----------------------------------------------------------------------------
(* The listener.                                                           *)

PageTyped ==
    /\ leases \subseteq 1..MaxSession
    /\ arriving \subseteq (1..MaxSession) \X {"get", "delete"}
    /\ session \in 0..MaxSession
    /\ count \in 0..MaxSession
    /\ media \in {"none", "pending", "playing", "paused", "failed"}
    /\ started \in BOOLEAN
    /\ troubles \in Nat
    /\ tried \subseteq Nat

ListenerTyped ==
    /\ last \in Int /\ floor \in Int
    /\ list \in [lo: Nat, hi: Int]
    /\ buf \subseteq Nat
    /\ pos \in Nat
    /\ joined \in Int
    /\ heard \subseteq Nat
    /\ snap \in Nat

\* Nothing has been loaded or read yet.
Fresh ==
    /\ joined = -1 /\ pos = 0 /\ buf = {} /\ last = -1 /\ floor = -1 /\ heard = {}
    /\ list = [lo |-> 0, hi |-> -1]
    /\ snap = 0

\* Sessions are numbered, those that are over never come back, and without a
\* lease the page has nothing.
Sessions ==
    /\ (session # 0 => session = count)
    /\ leases \subseteq 1..count
    /\ \A r \in arriving : r[1] <= count /\ r[1] # session
    /\ (session \notin leases => Fresh)

\* What the element has: it has joined with a segment, is behind none it has
\* asked for, and its playlist begins with what the server's floor allows.
Loaded ==
    /\ joined >= -1 /\ last >= -1 /\ floor >= -1
    /\ (joined = -1 => pos = 0 /\ buf = {} /\ last = -1 /\ floor = -1 /\ heard = {} /\ list.lo = 0)
    /\ (joined >= 0 => joined <= pos /\ last \in buf /\ \A s \in buf : s <= last)
    /\ \A s \in heard : joined <= s /\ s < pos
    /\ list.lo <= AtLeast(0, floor)
    /\ (joined >= 0 => last <= list.hi /\ list.lo <= list.hi + 1 /\ pos <= First(list.hi + 1))

\* All of it is of the timeline, and the playhead behind the edge.
Bounded ==
    /\ last < Complete /\ floor < Complete /\ list.hi < Complete
    /\ pos <= Edge
    /\ snap <= Len(cues)

\* A segment of disposable carrier, behind a loaded one of the same pause.
Spare(s) ==
    \E k \in 2..Len(cues), l \in buf :
        /\ cues[k].gap > 0
        /\ First(l) >= cues[k - 1].end /\ l < s
        /\ First(s + 1) <= cues[k].resume

\* What lies ahead of the playhead is loaded, or spare.
LoadedOrSpare ==
    joined >= 0 =>
        \A s \in Nat : Segment(pos) <= s /\ (s <= last \/ s < floor) => s \in buf \/ Spare(s)

\* Of the pause before cue k the listener has heard all so far, or a segment.
Whole(k) ==
    \/ \A s \in Nat : cues[k - 1].end <= s /\ s < pos => s \in heard
    \/ \E l \in Nat : /\ First(l) >= cues[k - 1].end /\ First(l) + SegLen <= pos
                      /\ \A s \in Nat : First(l) <= s /\ s < First(l) + SegLen => s \in heard

\* A pause that has begun is heard for its natural length, or will be; the page
\* may count on what it has passed, until it has sought over the pause.
Served(k) ==
    joined >= 0 /\ joined <= cues[k - 1].end /\ pos >= cues[k - 1].end =>
        /\ Cardinality(heard \cap PauseBefore(k)) + AtLeast(0, cues[k].start - pos) >= Natural
        /\ (pos < cues[k].start /\ k \notin tried => Whole(k))
PauseServed == \A k \in 2..Len(cues) : Served(k)

\* Behind the newest sentence nothing has been passed over.
TailHeard ==
    cues # <<>> /\ joined >= 0 /\ joined <= cues[Len(cues)].end =>
        \A s \in Nat : cues[Len(cues)].end <= s /\ s < pos => s \in heard

ListenerSound ==
    /\ ListenerTyped /\ Loaded /\ Bounded
    /\ LoadedOrSpare /\ SpeechIsHeard /\ PauseServed /\ TailHeard

Inv == StreamSound /\ PageTyped /\ Sessions /\ ListenerSound

-----------------------------------------------------------------------------
(* Where the pauses are.                                                   *)

\* A pause is its natural part and the carrier; what may be left out of it
\* leaves the natural part.
LEMMA PauseIs ==
    ASSUME StreamSound, NEW k \in 2..Len(cues)
    PROVE  /\ k \in DOMAIN cues /\ k - 1 \in DOMAIN cues
           /\ cues[k - 1].end \in Nat /\ cues[k].start \in Nat /\ cues[k].gap \in Nat
           /\ cues[k].resume \in Int
           /\ Natural \in Nat /\ Natural <= SegLen
           /\ cues[k].start = cues[k - 1].end + Natural + cues[k].gap
           /\ (cues[k].gap > 0 => cues[k].resume = cues[k].start - Natural)
           /\ cues[k].end = cues[k].start + Voice /\ cues[k].end \in Nat
<1>0. StreamTyped /\ CuesOrdered
    BY DEF StreamSound
<1>1. Len(cues) \in Nat /\ DOMAIN cues = 1..Len(cues)
    BY <1>0, Sizes
<1>2. k \in DOMAIN cues /\ k - 1 \in DOMAIN cues
    BY <1>1
<1>3. /\ cues[k - 1].end \in Nat /\ cues[k].start \in Nat /\ cues[k].gap \in Nat
      /\ cues[k].resume \in Int /\ cues[k].end \in Nat
    BY <1>0, <1>2, CueTyped
<1>4. Natural \in Nat /\ Natural <= SegLen
    BY Constants DEF Natural
<1> QED
    BY <1>0, <1>2, <1>3, <1>4 DEF CuesOrdered

\* The end of an earlier sentence is not behind that of a later one.
LEMMA EndsInOrder ==
    ASSUME StreamSound, NEW j \in DOMAIN cues, NEW k \in DOMAIN cues, j <= k
    PROVE  /\ cues[j].end <= cues[k].end /\ cues[j].start < cues[k].end
           /\ cues[j].start <= cues[k].start
           /\ cues[j].end \in Nat /\ cues[j].start \in Nat
           /\ cues[k].end \in Nat /\ cues[k].start \in Nat
<1>0. StreamTyped /\ CuesOrdered
    BY DEF StreamSound
<1>1. /\ cues[j].end \in Nat /\ cues[j].start \in Nat
      /\ cues[k].end \in Nat /\ cues[k].start \in Nat
    BY <1>0, CueTyped
<1>2. cues[j].end = cues[j].start + Voice /\ cues[k].end = cues[k].start + Voice
    BY <1>0 DEF CuesOrdered
<1>3. CASE j = k
    BY <1>1, <1>2, <1>3, Constants
<1>4. CASE j # k
    <2>1. j < k
        BY <1>4, <1>0, Sizes
    <2>2. cues[j].end <= cues[k].start
        BY <2>1, <1>0 DEF CuesOrdered
    <2> QED
        BY <2>2, <1>1, <1>2, Constants
<1> QED
    BY <1>3, <1>4

\* Between two pauses lies a sentence.
LEMMA PausesApart ==
    ASSUME StreamSound, NEW j \in 2..Len(cues), NEW k \in 2..Len(cues), j < k
    PROVE  cues[j].start < cues[k - 1].end /\ cues[j - 1].end <= cues[j].start
<1>1. j \in DOMAIN cues /\ k - 1 \in DOMAIN cues /\ j <= k - 1
    BY PauseIs
<1>2. cues[j].start < cues[k - 1].end
    BY <1>1, EndsInOrder
<1>3. cues[j - 1].end <= cues[j].start
    <2>1. /\ cues[j].start = cues[j - 1].end + Natural + cues[j].gap
          /\ cues[j - 1].end \in Nat /\ Natural \in Nat /\ cues[j].gap \in Nat
        BY PauseIs
    <2> QED
        BY <2>1
<1> QED
    BY <1>2, <1>3

\* Nobody speaks in a pause.
LEMMA PauseIsSilent ==
    ASSUME StreamSound, NEW k \in 2..Len(cues), NEW s \in Nat, s < Edge,
           cues[k - 1].end <= s, s < cues[k].start
    PROVE  ~(Slot(s) > 0)
<1>0. StreamTyped /\ Content
    BY DEF StreamSound
<1>1. /\ Edge \in Nat /\ End \in Nat /\ s < End /\ DOMAIN cues = 1..Len(cues) /\ Len(cues) \in Nat
    BY <1>0, Sizes
<1>2. SlotIsRight(s) /\ At(s) = Slot(s)
    BY <1>0, <1>1 DEF Content, At, Slot
<1> SUFFICES ASSUME Slot(s) > 0 PROVE FALSE
    OBVIOUS
<1>3. PICK j \in DOMAIN cues : cues[j].start <= s /\ s < cues[j].end
    BY <1>2 DEF SlotIsRight
<1>4. k \in DOMAIN cues /\ k - 1 \in DOMAIN cues
    BY PauseIs
<1>5. CASE j <= k - 1
    <2>1. cues[j].end <= cues[k - 1].end /\ cues[j].end \in Nat /\ cues[k - 1].end \in Nat
        BY <1>4, <1>5, EndsInOrder
    <2> QED
        BY <2>1, <1>3
<1>6. CASE k <= j
    <2>1. cues[k].start <= cues[j].start /\ cues[k].start \in Nat /\ cues[j].start \in Nat
        BY <1>4, <1>6, EndsInOrder
    <2> QED
        BY <2>1, <1>3
<1> QED
    BY <1>1, <1>5, <1>6

\* A spare segment lies in one pause, behind a whole loaded segment of it, and
\* the natural part of the pause comes after it.
LEMMA SpareIs ==
    ASSUME StreamSound, ListenerTyped, NEW s \in Nat, Spare(s)
    PROVE  \E k \in 2..Len(cues), l \in buf :
               /\ l \in Nat /\ First(l) \in Nat /\ First(s) \in Nat
               /\ First(l) >= cues[k - 1].end
               /\ First(l) + SegLen <= First(s)
               /\ First(s) + SegLen <= cues[k].resume
               /\ cues[k].resume = cues[k].start - Natural
<1>1. PICK k \in 2..Len(cues), l \in buf :
          /\ cues[k].gap > 0
          /\ First(l) >= cues[k - 1].end /\ l < s
          /\ First(s + 1) <= cues[k].resume
    BY DEF Spare
<1>2. l \in Nat /\ First(l) \in Nat /\ First(s) \in Nat /\ First(s + 1) = First(s) + SegLen
    BY FirstTyped DEF ListenerTyped
<1>3. First(l) + SegLen <= First(s)
    BY <1>1, <1>2, SegmentsInOrder
<1>4. cues[k].resume = cues[k].start - Natural
    BY <1>1, PauseIs
<1> QED
    BY <1>1, <1>2, <1>3, <1>4

-----------------------------------------------------------------------------
(* Steps that leave the listener where it is.                              *)

\* A set has at least the members of an interval in it.
LEMMA IntervalCounts ==
    ASSUME NEW a \in Int, NEW b \in Int, NEW H, NEW P, IsFiniteSet(P),
           \A s \in Int : a <= s /\ s < b => s \in H /\ s \in P
    PROVE  /\ Cardinality(H \cap P) \in Nat
           /\ Cardinality(H \cap P) >= b - a
<1>1. IsFiniteSet(H \cap P)
    <2>1. H \cap P \subseteq P
        OBVIOUS
    <2> QED
        BY <2>1, FS_Subset
<1>2. a..(b - 1) \subseteq H \cap P
    OBVIOUS
<1>3. Cardinality(a..(b - 1)) = IF a > b - 1 THEN 0 ELSE (b - 1) - a + 1
    <2>1. b - 1 \in Int
        OBVIOUS
    <2> QED
        BY <2>1, FS_Interval
<1>4. Cardinality(a..(b - 1)) <= Cardinality(H \cap P)
    BY <1>1, <1>2, FS_Subset
<1>5. Cardinality(H \cap P) \in Nat
    BY <1>1, FS_CardinalityType
<1> QED
    BY <1>3, <1>4, <1>5

\* A pause is a finite interval.
LEMMA PauseIsFinite ==
    ASSUME StreamSound, NEW k \in 2..Len(cues)
    PROVE  /\ PauseBefore(k) = cues[k - 1].end..cues[k].start - 1
           /\ IsFiniteSet(PauseBefore(k))
           /\ Cardinality(PauseBefore(k)) = Natural + cues[k].gap
           /\ \A s \in Int : s \in PauseBefore(k) <=> cues[k - 1].end <= s /\ s < cues[k].start
<1>1. PICK e \in Nat, a \in Nat : e = cues[k - 1].end /\ a = cues[k].start
    BY PauseIs
<1>2. PICK g \in Nat : g = cues[k].gap
    BY PauseIs
<1>3. a = e + Natural + g /\ Natural \in Nat
    BY <1>1, <1>2, PauseIs
<1>4. PauseBefore(k) = e..(a - 1)
    BY <1>1 DEF PauseBefore
<1>5. a - 1 \in Int
    OBVIOUS
<1>6. /\ IsFiniteSet(e..(a - 1))
      /\ Cardinality(e..(a - 1)) = (IF e > a - 1 THEN 0 ELSE (a - 1) - e + 1)
    <2> e \in Int
        OBVIOUS
    <2> QED
        BY <1>5, FS_Interval
<1>7. IsFiniteSet(PauseBefore(k)) /\ Cardinality(PauseBefore(k)) = Natural + g
    BY <1>3, <1>4, <1>6
<1> QED
    BY <1>1, <1>2, <1>4, <1>7

\* Where the pauses are, as a fact of the state.
PausesAre ==
    \A k \in 2..Len(cues) :
        /\ IsFiniteSet(PauseBefore(k))
        /\ \A s \in Int : s \in PauseBefore(k) <=> cues[k - 1].end <= s /\ s < cues[k].start
        /\ cues[k].start >= cues[k - 1].end + Natural

\* It holds of every sound timeline, also of the next one.
LEMMA SoundPausesAre == StreamSound => PausesAre
<1> SUFFICES ASSUME StreamSound, NEW k \in 2..Len(cues)
             PROVE  /\ IsFiniteSet(PauseBefore(k))
                    /\ \A s \in Int : s \in PauseBefore(k) <=> cues[k - 1].end <= s /\ s < cues[k].start
                    /\ cues[k].start >= cues[k - 1].end + Natural
    BY DEF PausesAre
<1>1. PICK b \in Nat, a \in Nat, g \in Nat : b = cues[k - 1].end /\ a = cues[k].start /\ g = cues[k].gap
    BY PauseIs
<1>2. a = b + Natural + g /\ Natural \in Nat
    BY <1>1, PauseIs
<1>3. a >= b + Natural
    BY <1>2
<1> QED
    BY <1>1, <1>3, PauseIsFinite

\* A page that has nothing has missed nothing.
LEMMA FreshIsSound == StreamSound /\ Fresh => ListenerSound
<1> SUFFICES ASSUME StreamSound, Fresh PROVE ListenerSound
    OBVIOUS
<1>1. /\ joined = -1 /\ pos = 0 /\ buf = {} /\ last = -1 /\ floor = -1 /\ heard = {}
      /\ list = [lo |-> 0, hi |-> -1] /\ snap = 0
    BY DEF Fresh
<1>2. Edge \in Nat /\ Len(cues) \in Nat /\ Complete \in Nat
    BY Sizes, CompleteSegments DEF StreamSound
<1>3. ListenerTyped
    BY <1>1 DEF ListenerTyped
<1>40. Loaded
    BY <1>1, <1>2 DEF Loaded, AtLeast
<1>4. Bounded
    BY <1>1, <1>2 DEF Bounded
<1>5. LoadedOrSpare /\ SpeechIsHeard /\ PauseServed /\ TailHeard
    <2>1. ~(joined >= 0)
        BY <1>1
    <2> QED
        BY <2>1 DEF LoadedOrSpare, SpeechIsHeard, PauseServed, Served, TailHeard
<1> QED
    BY <1>3, <1>40, <1>4, <1>5 DEF ListenerSound

\* What the timeline gains is ahead of the listener.
LEMMA GrowsKeepsListener ==
    ASSUME StreamSound, StreamSound', ListenerSound, Grows,
           UNCHANGED <<last, floor, list, buf, pos, joined, heard, tried, snap>>,
           \/ Len(cues') = Len(cues)
           \/ Len(cues') = Len(cues) + 1 /\ cues'[Len(cues) + 1].start >= Edge
    PROVE  ListenerSound'
<1>0. /\ ListenerTyped /\ Loaded /\ Bounded /\ LoadedOrSpare /\ SpeechIsHeard /\ PauseServed
      /\ TailHeard /\ StreamTyped /\ StreamTyped'
    BY DEF ListenerSound, StreamSound
<1>1. /\ last' = last /\ floor' = floor /\ list' = list /\ buf' = buf /\ pos' = pos
      /\ joined' = joined /\ heard' = heard /\ tried' = tried /\ snap' = snap
    OBVIOUS
<1>2. /\ Edge \in Nat /\ Len(cues) \in Nat /\ DOMAIN cues = 1..Len(cues) /\ Complete \in Nat
    BY <1>0, Sizes, CompleteSegments
<1>3. PICK e \in Nat, n \in Nat : e = Edge' /\ n = Len(cues') /\ DOMAIN cues' = 1..n
    BY <1>0 DEF StreamTyped, Edge
<1>4. Edge <= e /\ Len(cues) <= n /\ \A k \in 1..Len(cues) : cues'[k] = cues[k]
    BY <1>2, <1>3 DEF Grows
<1>5. Complete' \in Nat /\ Complete <= Complete'
    <2>2. Segment(Edge) <= Segment(e) /\ Segment(e) \in Nat
        BY <1>2, <1>4, SegmentMonotone, SegmentHolds
    <2>3. Complete' = Segment(e)
        BY <1>3 DEF Complete, Segment
    <2>4. Complete = Segment(Edge)
        BY <1>2, CompleteSegments
    <2> QED
        BY <2>2, <2>3, <2>4
<1>6. ListenerTyped'
    BY <1>0, <1>1 DEF ListenerTyped
<1>7. Loaded'
    <2>1. AtLeast(0, floor') = AtLeast(0, floor) /\ list'.lo = list.lo
        BY <1>1
    <2>2. list'.lo <= AtLeast(0, floor')
        BY <2>1, <1>0 DEF Loaded
    <2>3. /\ joined >= -1 /\ last >= -1 /\ floor >= -1
          /\ (joined = -1 => pos = 0 /\ buf = {} /\ last = -1 /\ floor = -1 /\ heard = {} /\ list'.lo = 0)
          /\ (joined >= 0 => joined <= pos /\ last \in buf /\ \A s \in buf : s <= last)
          /\ \A s \in heard : joined <= s /\ s < pos
        BY <2>1, <1>0 DEF Loaded
    <2>4. joined >= 0 => last <= list'.hi /\ list'.lo <= list'.hi + 1 /\ pos <= First(list'.hi + 1)
        BY <1>0, <1>1 DEF Loaded
    <2> QED
        BY <2>2, <2>3, <2>4, <1>1 DEF Loaded, First
<1>8. Bounded'
    <2>1. /\ last \in Int /\ floor \in Int /\ list.hi \in Int /\ pos \in Nat /\ snap \in Nat
          /\ last < Complete /\ floor < Complete /\ list.hi < Complete
          /\ pos <= Edge /\ snap <= Len(cues)
        BY <1>0 DEF ListenerTyped, Bounded
    <2>2. pos <= e /\ snap <= n
        BY <2>1, <1>2, <1>4
    <2>3. last < Complete' /\ floor < Complete' /\ list.hi < Complete'
        BY <2>1, <1>2, <1>5
    <2> QED
        BY <2>2, <2>3, <1>1, <1>3 DEF Bounded
<1>9. LoadedOrSpare'
    <2>1. ASSUME NEW s \in Nat, Spare(s) PROVE Spare(s)'
        <3>1. PICK k \in 2..Len(cues), l \in buf :
                  /\ cues[k].gap > 0
                  /\ First(l) >= cues[k - 1].end /\ l < s
                  /\ First(s + 1) <= cues[k].resume
            BY <2>1 DEF Spare
        <3>2. k \in 2..n /\ cues'[k] = cues[k] /\ cues'[k - 1] = cues[k - 1]
            <4>1. k \in 1..Len(cues) /\ k - 1 \in 1..Len(cues) /\ k \in 2..n
                BY <1>2, <1>4
            <4> QED
                BY <4>1, <1>4
        <3>3. First(s + 1)' = First(s + 1) /\ First(l)' = First(l)
            BY DEF First
        <3> QED
            BY <3>1, <3>2, <1>1, <1>3 DEF Spare, First
    <2>2. Segment(pos)' = Segment(pos)
        BY <1>1 DEF Segment
    <2> QED
        BY <2>1, <2>2, <1>0, <1>1 DEF LoadedOrSpare
<1>10. SpeechIsHeard'
    <2>1. ASSUME joined >= 0, NEW s \in joined..pos - 1, Slot(s)' > 0 PROVE s \in heard
        <3>1. joined \in Int /\ pos \in Nat /\ pos <= Edge
            BY <1>0 DEF ListenerTyped, Bounded
        <3>2. s \in 0..Edge - 1
            BY <3>1, <2>1, <1>2
        <3>3. Slot(s)' = Slot(s)
            BY <3>2 DEF Grows
        <3> QED
            BY <3>3, <2>1, <1>0 DEF SpeechIsHeard
    <2> QED
        BY <2>1, <1>1 DEF SpeechIsHeard
<1>11. ASSUME n = Len(cues) + 1, NEW a \in Nat, a = cues'[n].start, a >= Edge,
              joined >= 0, cues # <<>>, joined <= cues[Len(cues)].end, pos >= cues[Len(cues)].end
       PROVE  Served(n)'
    <2>1. n \in 2..n /\ n - 1 = Len(cues) /\ Len(cues) \in DOMAIN cues
        BY <1>11, <1>2
    <2>2. PICK b \in Nat : b = cues[Len(cues)].end /\ cues'[n - 1].end = b
        BY <2>1, <1>0, <1>2, <1>4, CueTyped
    <2>3. /\ IsFiniteSet(PauseBefore(n)')
          /\ \A s \in Int : s \in PauseBefore(n)' <=> b <= s /\ s < a
          /\ a >= b + Natural /\ Natural \in Nat
        <3>1. PausesAre'
            BY SoundPausesAre, PTL
        <3>2. n \in 2..Len(cues')
            BY <2>1, <1>3
        <3>3. /\ IsFiniteSet(PauseBefore(n)')
              /\ \A s \in Int : s \in PauseBefore(n)' <=> cues'[n - 1].end <= s /\ s < cues'[n].start
              /\ cues'[n].start >= cues'[n - 1].end + Natural
            BY <3>1, <3>2 DEF PausesAre
        <3>4. Natural \in Nat
            BY Constants DEF Natural
        <3> QED
            BY <3>3, <3>4, <2>2, <1>11
    <2>4. PICK p \in Nat : p = pos /\ p <= Edge /\ pos' = p
        BY <1>0, <1>1 DEF ListenerTyped, Bounded
    <2>5. \A s \in Int : b <= s /\ s < p => s \in heard
        BY <1>0, <1>11, <2>2, <2>4 DEF TailHeard
    <2>6. PICK P : P = PauseBefore(n)'
        OBVIOUS
    <2>7. Cardinality(heard \cap P) \in Nat /\ Cardinality(heard \cap P) >= p - b
        <3>1. \A s \in Int : b <= s /\ s < p => s \in heard /\ s \in P
            BY <2>3, <2>4, <2>5, <2>6, <1>2, <1>11
        <3>2. IsFiniteSet(P) /\ b \in Int /\ p \in Int
            BY <2>3, <2>6
        <3> QED
            BY <3>1, <3>2, IntervalCounts
    <2>8. Cardinality(heard \cap P) + AtLeast(0, a - p) >= Natural
        <3>1. PICK c \in Nat : c = Cardinality(heard \cap P) /\ c >= p - b
            BY <2>7
        <3>2. a >= b + Natural /\ Natural \in Nat /\ p <= a
            BY <2>3, <2>4, <1>2, <1>11
        <3>3. c + AtLeast(0, a - p) >= Natural
            BY <3>1, <3>2 DEF AtLeast
        <3> QED
            BY <3>1, <3>3
    <2> QED
        BY <2>2, <2>4, <2>5, <2>6, <2>8, <1>1, <1>11 DEF Served, Whole, AtLeast
<1>14. ASSUME n = Len(cues) + 1
       PROVE  /\ cues'[n].start \in Nat /\ cues'[n].start >= Edge
              /\ cues'[n].end = cues'[n].start + Voice
    <2>0. n \in 1..n /\ n # Len(cues)
        <3>1. PICK m \in Nat : m = Len(cues)
            BY <1>2
        <3>2. n = m + 1
            BY <1>14, <3>1
        <3>3. n \in 1..n /\ n # m
            BY <3>2
        <3> QED
            BY <3>1, <3>3
    <2>1. n \in DOMAIN cues'
        BY <2>0, <1>3
    <2>2. cues'[n] \in CueSet
        BY <2>1, <1>0 DEF StreamTyped
    <2>3. cues'[n].start \in Nat
        BY <2>2 DEF CueSet
    <2>4. cues'[n].end = cues'[n].start + Voice
        BY <2>1 DEF StreamSound, CuesOrdered
    <2>5. cues'[n].start >= Edge
        BY <1>14, <2>0, <1>3
    <2> QED
        BY <2>3, <2>4, <2>5
<1>12. PauseServed'
    <2> SUFFICES ASSUME NEW k \in 2..n PROVE Served(k)'
        BY <1>3 DEF PauseServed
    <2>1. CASE k \in 2..Len(cues)
        <3>1. k \in 1..Len(cues) /\ k - 1 \in 1..Len(cues)
            BY <2>1, <1>2
        <3>2. cues'[k] = cues[k] /\ cues'[k - 1] = cues[k - 1]
            BY <3>1, <1>4
        <3>3. Served(k)
            BY <2>1, <1>0 DEF PauseServed
        <3>4. PauseBefore(k)' = PauseBefore(k)
            BY <3>2 DEF PauseBefore
        <3>5. First(0) = First(0) /\ Whole(k)' = Whole(k)
            BY <3>2, <1>1 DEF Whole, First
        <3> QED
            BY <3>2, <3>3, <3>4, <3>5, <1>1 DEF Served, AtLeast
    <2>2. CASE ~(k \in 2..Len(cues))
        <3>1. n = Len(cues) + 1 /\ k = n
            BY <2>2, <1>2, <1>3
        <3>2. cues # <<>> /\ cues'[k - 1] = cues[Len(cues)]
            BY <3>1, <2>2, <1>2, <1>4
        <3>3. PICK a \in Nat : a = cues'[n].start /\ a >= Edge
            BY <3>1, <1>3, <1>14
        <3> QED
            BY <3>1, <3>2, <3>3, <1>1, <1>11 DEF Served
    <2> QED
        BY <2>1, <2>2
<1>13. TailHeard'
    <2>1. CASE n = Len(cues)
        <3>1. cues' # <<>> => cues # <<>> /\ cues'[n] = cues[Len(cues)]
            BY <2>1, <1>0, <1>2, <1>3, <1>4 DEF StreamTyped
        <3> QED
            BY <3>1, <1>0, <1>1, <1>3 DEF TailHeard
    <2>2. CASE n = Len(cues) + 1
        <3>1. PICK a \in Nat : a = cues'[n].start /\ a >= Edge /\ cues'[n].end = a + Voice
            BY <2>2, <1>14
        <3>2. pos \in Nat /\ pos <= Edge /\ Voice \in Nat /\ Voice >= 1
            BY <1>0, Constants DEF ListenerTyped, Bounded
        <3>3. ~\E s \in Nat : cues'[n].end <= s /\ s < pos
            BY <3>1, <3>2, <1>2
        <3> QED
            BY <3>3, <1>1, <1>3 DEF TailHeard
    <2> QED
        BY <2>1, <2>2, <1>3
<1> QED
    BY <1>6, <1>7, <1>8, <1>9, <1>10, <1>12, <1>13 DEF ListenerSound

-----------------------------------------------------------------------------
(* Playlists and segments.                                                 *)

\* What a step of the listener leaves of the timeline: everything.
LEMMA StreamStays ==
    ASSUME UNCHANGED stream
    PROVE  /\ written' = written /\ cues' = cues
           /\ Edge' = Edge /\ Complete' = Complete
           /\ \A s \in Int : Slot(s)' = Slot(s)
BY DEF stream, Edge, Complete, Slot

\* What was heard, and of what, does not depend on what is loaded.
LEMMA HeardStays ==
    ASSUME SpeechIsHeard, PauseServed, TailHeard,
           UNCHANGED <<stream, joined, pos, heard, tried>>
    PROVE  SpeechIsHeard' /\ PauseServed' /\ TailHeard'
<1>1. cues' = cues /\ joined' = joined /\ pos' = pos /\ heard' = heard /\ tried' = tried
    BY DEF stream
<1>2. \A s \in Int : Slot(s)' = Slot(s)
    BY StreamStays
<1>3. SpeechIsHeard'
    BY <1>1 DEF SpeechIsHeard, Slot, stream
<1>4. PauseServed'
    BY <1>1 DEF PauseServed, Served, Whole, PauseBefore, AtLeast, First
<1>5. TailHeard'
    BY <1>1 DEF TailHeard
<1> QED
    BY <1>3, <1>4, <1>5

\* A spare segment stays spare while the listener loads more.
LEMMA SpareStays ==
    ASSUME NEW s \in Nat, Spare(s), cues' = cues, buf \subseteq buf'
    PROVE  Spare(s)'
BY DEF Spare, First

\* A playhead within the playlist is behind the edge.
LEMMA WithinTimeline ==
    ASSUME StreamSound, NEW h \in Int, h < Complete, h >= -1, NEW p \in Nat, p <= First(h + 1)
    PROVE  p <= Edge
<1>1. Edge \in Nat /\ Complete \in Nat /\ Complete = Segment(Edge)
    BY Sizes, CompleteSegments DEF StreamSound
<1>2. First(Complete) <= Edge /\ First(Complete) \in Int /\ First(h + 1) \in Int
    <2>1. First(Complete) <= Edge
        BY <1>1, SegmentHolds
    <2>2. h + 1 \in Int /\ Complete \in Int
        BY <1>1
    <2> QED
        BY <2>1, <2>2, FirstTyped
<1>3. First(h + 1) <= First(Complete)
    <2>1. CASE h + 1 < Complete
        <3>1. h + 1 \in Int /\ Complete \in Int
            BY <1>1
        <3>2. First(h + 1) + SegLen <= First(Complete)
            BY <2>1, <3>1, SegmentsInOrder
        <3> QED
            BY <3>2, <1>2, Constants
    <2>2. CASE h + 1 = Complete
        BY <2>2, <1>2
    <2> QED
        BY <2>1, <2>2, <1>1
<1> QED
    BY <1>1, <1>2, <1>3

\* Where the server lets a playlist begin: behind the last segment asked for
\* there is only carrier of the same pause (_select_hls_gap_floor_sequence).
LEMMA CandidateIs ==
    ASSUME StreamSound, ListenerTyped, Loaded, Bounded
    PROVE  /\ Candidate \in Int /\ Candidate >= -1 /\ Candidate < Complete
           /\ (last = -1 => Candidate = -1)
           /\ \A s \in Nat : last < s /\ s < Candidate => Spare(s)
<1>0. last \in Int /\ Complete \in Nat /\ Len(cues) \in Nat
    BY Sizes, CompleteSegments DEF StreamSound, ListenerTyped
<1> DEFINE gaps == {k \in 2..Len(cues) : InGap(k) /\ ResumeSegment(k) # {}}
           none == last < 0 \/ LatestFloor = {} \/ gaps = {}
           f == AtMost(Smallest(ResumeSegment(Smallest(gaps))), Largest(LatestFloor))
<1>1. Candidate = IF none THEN -1 ELSE IF f <= last THEN -1 ELSE f
    BY DEF Candidate
<1>2. CASE none \/ f <= last
    <2>1. Candidate = -1
        BY <1>1, <1>2
    <2> QED
        BY <2>1, <1>0
<1>3. CASE ~none /\ ~(f <= last)
    <2>1. Candidate = f
        BY <1>1, <1>3
    <2>2. gaps \subseteq Nat /\ gaps # {}
        BY <1>0, <1>3
    <2>3. PICK k \in gaps : k = Smallest(gaps)
        BY <2>2, SmallestIs
    <2>4. k \in 2..Len(cues) /\ InGap(k) /\ ResumeSegment(k) # {}
        OBVIOUS
    <2>5. ResumeSegment(k) \subseteq 0..Complete - 1 /\ ResumeSegment(k) \subseteq Nat
        BY <1>0 DEF ResumeSegment
    <2>6. PICK r \in ResumeSegment(k) : r = Smallest(ResumeSegment(k)) /\ \A y \in ResumeSegment(k) : r <= y
        BY <2>4, <2>5, SmallestIs
    <2>7. PICK g \in LatestFloor : g = Largest(LatestFloor)
        <3>1. LatestFloor \subseteq 0..Complete /\ LatestFloor # {}
            BY <1>0, <1>3 DEF LatestFloor
        <3> QED
            BY <3>1, <1>0, LargestIs
    <2>8. r \in Nat /\ r < Complete /\ g \in Nat
        BY <2>5, <2>6, <1>0 DEF LatestFloor
    <2>9. f = AtMost(r, g)
        BY <2>3, <2>6, <2>7
    <2>10. f \in Int /\ f <= r
        BY <2>8, <2>9, Maxima
    <2> HIDE DEF f, gaps
    <2>11. last \in buf /\ last \in Nat
        BY <1>0, <1>3 DEF Loaded, ListenerTyped
    <2>12. ASSUME NEW s \in Nat, last < s, s < f PROVE Spare(s)
        <3>1. s < r /\ s \in 0..Complete - 1
            BY <2>8, <2>10, <2>12, <1>0
        <3>2. ~(s \in ResumeSegment(k))
            BY <3>1, <2>6, <2>8
        <3>3. ~(First(s + 1) > cues[k].resume)
            BY <3>1, <3>2 DEF ResumeSegment
        <3>4. First(s + 1) \in Int /\ cues[k].resume \in Int
            BY <2>4, FirstTyped, PauseIs
        <3>5. cues[k].gap > 0 /\ First(last) >= cues[k - 1].end
            BY <2>4 DEF InGap
        <3> QED
            BY <3>3, <3>4, <3>5, <2>4, <2>11, <2>12 DEF Spare
    <2>13. f > last /\ f < Complete
        BY <1>3, <1>0, <2>8, <2>10
    <2> QED
        BY <2>1, <2>10, <2>11, <2>12, <2>13
<1> QED
    BY <1>2, <1>3

\* A new playlist.
LEMMA PlaylistKeepsListener ==
    ASSUME StreamSound, ListenerSound, Playlist
    PROVE  ListenerSound'
<1>0. /\ ListenerTyped /\ Loaded /\ Bounded /\ LoadedOrSpare /\ SpeechIsHeard /\ PauseServed /\ TailHeard
    BY DEF ListenerSound
<1>1. /\ last' = last /\ buf' = buf /\ pos' = pos /\ joined' = joined /\ heard' = heard
      /\ snap' = snap /\ tried' = tried /\ UNCHANGED stream
      /\ floor' = AtLeast(floor, Candidate)
      /\ list' = [lo |-> AtLeast(0, floor'), hi |-> Complete - 1]
    BY DEF Playlist, Trimmed, page
<1>2. /\ Candidate \in Int /\ Candidate >= -1 /\ Candidate < Complete
      /\ (last = -1 => Candidate = -1)
      /\ \A s \in Nat : last < s /\ s < Candidate => Spare(s)
    BY <1>0, CandidateIs
<1>3. Complete \in Nat /\ Complete' = Complete /\ Edge' = Edge /\ cues' = cues
    BY <1>1, StreamStays, Sizes, CompleteSegments DEF StreamSound
<1>4. /\ floor \in Int /\ floor' \in Int /\ floor' >= floor /\ floor' >= Candidate
      /\ (floor' = floor \/ floor' = Candidate)
    BY <1>0, <1>1, <1>2, Maxima DEF ListenerTyped
<1>5. floor' < Complete /\ floor' >= -1 /\ floor >= -1
    BY <1>0, <1>2, <1>4 DEF Bounded, Loaded
<1>6. list'.lo = AtLeast(0, floor') /\ list'.hi = Complete - 1
    BY <1>1
<1>7. list'.lo \in Nat /\ list'.lo <= Complete
    BY <1>3, <1>4, <1>5, <1>6 DEF AtLeast
<1>8. ListenerTyped'
    <2>1. list' \in [lo: Nat, hi: Int]
        BY <1>1, <1>3, <1>6, <1>7
    <2> QED
        BY <2>1, <1>0, <1>1, <1>4 DEF ListenerTyped
<1>9. Loaded'
    <2>1. joined = -1 => floor' = -1 /\ list'.lo = 0
        <3>1. joined = -1 => floor = -1 /\ last = -1
            BY <1>0 DEF Loaded
        <3>2. joined = -1 => floor' = -1
            BY <3>1, <1>2, <1>4
        <3> QED
            BY <3>2, <1>6 DEF AtLeast
    <2>2. joined >= 0 => last <= list'.hi /\ list'.lo <= list'.hi + 1 /\ pos <= First(list'.hi + 1)
        <3> SUFFICES ASSUME joined >= 0 PROVE last <= Complete - 1 /\ pos <= First(Complete)
            BY <1>3, <1>6, <1>7
        <3>1. /\ last \in Int /\ last < Complete /\ list.hi \in Int /\ list.hi < Complete /\ pos \in Nat
              /\ pos <= First(list.hi + 1)
            BY <1>0 DEF ListenerTyped, Bounded, Loaded
        <3>2. First(list.hi + 1) <= First(Complete)
            <4>1. list.hi + 1 \in Int /\ Complete \in Int
                BY <3>1, <1>3
            <4>2. CASE list.hi + 1 < Complete
                <5>1. First(list.hi + 1) + SegLen <= First(Complete)
                    BY <4>1, <4>2, SegmentsInOrder
                <5> QED
                    BY <5>1, <4>1, FirstTyped, Constants
            <4>3. CASE list.hi + 1 = Complete
                <5>1. First(Complete) \in Int
                    BY <4>1, FirstTyped
                <5> QED
                    BY <5>1, <4>3
            <4> QED
                BY <4>2, <4>3, <3>1, <1>3
        <3>3. First(list.hi + 1) \in Int /\ First(Complete) \in Int
            <4>1. list.hi + 1 \in Int /\ Complete \in Int
                BY <3>1, <1>3
            <4> QED
                BY <4>1, FirstTyped
        <3> QED
            BY <3>1, <3>2, <3>3, <1>3
    <2>3. /\ joined >= -1 /\ last >= -1
          /\ (joined = -1 => pos = 0 /\ buf = {} /\ last = -1 /\ heard = {})
          /\ (joined >= 0 => joined <= pos /\ last \in buf /\ \A s \in buf : s <= last)
          /\ \A s \in heard : joined <= s /\ s < pos
        BY <1>0 DEF Loaded
    <2>4. list'.lo <= AtLeast(0, floor')
        BY <1>6, <1>7
    <2> QED
        BY <2>1, <2>2, <2>3, <2>4, <1>1, <1>5 DEF Loaded, First
<1>10. Bounded'
    <2>1. last < Complete /\ pos <= Edge /\ snap <= Len(cues)
        BY <1>0 DEF Bounded
    <2>2. list'.hi < Complete
        BY <1>3, <1>6
    <2> QED
        BY <2>1, <2>2, <1>1, <1>3, <1>5 DEF Bounded
<1>11. LoadedOrSpare'
    <2>1. ASSUME joined >= 0, NEW s \in Nat, Segment(pos) <= s, s <= last \/ s < floor'
          PROVE  s \in buf' \/ Spare(s)'
        <3>1. s \in buf \/ Spare(s)
            <4>1. CASE s <= last \/ s < floor
                BY <4>1, <2>1, <1>0 DEF LoadedOrSpare
            <4>2. CASE ~(s <= last \/ s < floor)
                <5>1. s < Candidate /\ last < s
                    BY <4>2, <2>1, <1>4, <1>0 DEF ListenerTyped
                <5> QED
                    BY <5>1, <1>2
            <4> QED
                BY <4>1, <4>2
        <3> QED
            BY <3>1, <1>1, <1>3, SpareStays
    <2> QED
        BY <2>1, <1>1 DEF LoadedOrSpare, Segment
<1>12. SpeechIsHeard' /\ PauseServed' /\ TailHeard'
    BY <1>0, <1>1, HeardStays
<1> QED
    BY <1>8, <1>9, <1>10, <1>11, <1>12 DEF ListenerSound

\* The first segment of a session: the listener joins where it begins.
LEMMA JoiningKeepsListener ==
    ASSUME StreamSound, ListenerSound, NEW s \in 0..Complete - 1, LoadSegment(s), joined < 0
    PROVE  ListenerSound'
<1>0. /\ ListenerTyped /\ Loaded /\ Bounded
    BY DEF ListenerSound
<1>00. Complete \in Nat /\ Edge \in Nat /\ s \in Nat /\ s < Complete
    BY Sizes, CompleteSegments DEF StreamSound
<1>1. /\ joined = -1 /\ pos = 0 /\ buf = {} /\ last = -1 /\ floor = -1 /\ heard = {} /\ list.lo = 0
      /\ list.hi \in Int /\ list.hi < Complete /\ snap <= Len(cues)
    BY <1>0 DEF Loaded, ListenerTyped, Bounded
<1>2. /\ UNCHANGED stream /\ floor' = floor /\ list' = list /\ heard' = heard
      /\ snap' = snap /\ tried' = tried
      /\ joined' = First(s) /\ pos' = First(s) /\ buf' = buf \cup {s} /\ last' = AtLeast(last, s)
      /\ s <= list.hi
    BY DEF LoadSegment, page
<1>3. buf' = {s} /\ last' = s /\ floor' = -1 /\ heard' = {}
    BY <1>1, <1>2, <1>00 DEF AtLeast
<1>4. First(s) \in Nat /\ First(s) + SegLen <= Edge /\ First(s) <= Edge
    <2>1. First(s) \in Nat /\ First(s) + SegLen <= Edge
        BY <1>00, FirstTyped, CompleteSegments
    <2> QED
        BY <2>1, <1>00, Constants
<1>5. cues' = cues /\ Edge' = Edge /\ Complete' = Complete
    BY <1>2, StreamStays
<1>6. ListenerTyped'
    BY <1>0, <1>00, <1>2, <1>3, <1>4 DEF ListenerTyped
<1>7. Loaded'
    <2>1. First(s) <= First(list.hi + 1) /\ First(list.hi + 1) \in Int
        <3>1. s < list.hi + 1 /\ list.hi + 1 \in Int /\ s \in Int
            BY <1>00, <1>1, <1>2
        <3>2. First(s) + SegLen <= First(list.hi + 1) /\ First(list.hi + 1) \in Int
            BY <3>1, SegmentsInOrder, FirstTyped
        <3> QED
            BY <3>2, <1>4, Constants
    <2>2. list.lo <= list.hi + 1 /\ list.lo <= AtLeast(0, floor')
        BY <1>1, <1>2, <1>3, <1>00 DEF AtLeast
    <2>3. First(s) # -1 /\ First(s) >= -1 /\ First(s) <= First(s)
        BY <1>4
    <2> QED
        BY <2>1, <2>2, <2>3, <1>2, <1>3, <1>00 DEF Loaded, First
<1>8. Bounded'
    BY <1>00, <1>1, <1>2, <1>3, <1>4, <1>5 DEF Bounded
<1>9. LoadedOrSpare'
    <2>1. Segment(First(s)) = s
        BY <1>00, SegmentOfFirst
    <2>2. \A t \in Nat : s <= t /\ (t <= s \/ t < -1) => t = s
        BY <1>00
    <2> QED
        BY <2>1, <2>2, <1>2, <1>3 DEF LoadedOrSpare, Segment
<1>10. SpeechIsHeard'
    <2>1. ~\E t \in First(s)..First(s) - 1 : TRUE
        BY <1>4
    <2> QED
        BY <2>1, <1>2 DEF SpeechIsHeard
<1>11. PauseServed'
    <2> SUFFICES ASSUME NEW k \in 2..Len(cues), First(s) <= cues[k - 1].end, First(s) >= cues[k - 1].end
                 PROVE  /\ Cardinality({} \cap PauseBefore(k)') + AtLeast(0, cues[k].start - First(s)) >= Natural
                        /\ (First(s) < cues[k].start /\ k \notin tried => Whole(k)')
        BY <1>2, <1>3, <1>5 DEF PauseServed, Served, AtLeast
    <2>1. PICK a \in Nat, b \in Nat, g \in Nat : a = cues[k].start /\ b = cues[k - 1].end /\ g = cues[k].gap
        BY PauseIs
    <2>2. First(s) = b /\ a = b + Natural + g /\ Natural \in Nat
        BY <2>1, <1>4, PauseIs
    <2>3. {} \cap PauseBefore(k)' = {} /\ Cardinality({}) = 0
        BY FS_EmptySet
    <2>4. AtLeast(0, a - b) >= Natural /\ AtLeast(0, a - b) \in Nat
        BY <2>2 DEF AtLeast
    <2>5. ~\E t \in Nat : b <= t /\ t < b
        OBVIOUS
    <2>6. Whole(k)'
        BY <2>1, <2>2, <2>5, <1>2, <1>5 DEF Whole
    <2>7. 0 + AtLeast(0, a - b) >= Natural
        BY <2>4
    <2> QED
        BY <2>1, <2>2, <2>3, <2>6, <2>7
<1>12. TailHeard'
    <2> SUFFICES ASSUME cues # <<>>, First(s) <= cues[Len(cues)].end, NEW t \in Nat,
                        cues[Len(cues)].end <= t, t < First(s)
                 PROVE  FALSE
        BY <1>2, <1>5 DEF TailHeard
    <2>1. Len(cues) \in DOMAIN cues
        BY DEF StreamSound, StreamTyped
    <2>2. cues[Len(cues)].end \in Nat
        BY <2>1, CueTyped DEF StreamSound
    <2> QED
        BY <2>2, <1>4
<1> QED
    BY <1>6, <1>7, <1>8, <1>9, <1>10, <1>11, <1>12 DEF ListenerSound

\* The next segment: what it leaves out before it is not in the playlist.
LEMMA LoadingKeepsListener ==
    ASSUME StreamSound, ListenerSound, NEW s \in 0..Complete - 1, LoadSegment(s), ~(joined < 0)
    PROVE  ListenerSound'
<1>0. /\ ListenerTyped /\ Loaded /\ Bounded /\ LoadedOrSpare /\ SpeechIsHeard /\ PauseServed /\ TailHeard
    BY DEF ListenerSound
<1>00. Complete \in Nat /\ s \in Nat /\ s < Complete
    BY Sizes, CompleteSegments DEF StreamSound
<1>1. /\ joined >= 0 /\ joined \in Int /\ pos \in Nat /\ last \in buf /\ last \in Nat /\ buf \subseteq Nat
      /\ list.lo \in Nat /\ list.hi \in Int /\ floor \in Int
      /\ \A t \in buf : t <= last
      /\ last <= list.hi /\ list.lo <= list.hi + 1 /\ pos <= First(list.hi + 1)
      /\ list.lo <= AtLeast(0, floor)
    BY <1>0 DEF Loaded, ListenerTyped
<1>2. /\ UNCHANGED <<stream, joined, pos, heard, tried>> /\ floor' = floor /\ list' = list
      /\ snap' = snap /\ s = Wanted /\ s <= list.hi
      /\ buf' = buf \cup {s} /\ last' = AtLeast(last, s)
    BY DEF LoadSegment, page
<1>3. cues' = cues /\ Edge' = Edge /\ Complete' = Complete /\ buf \subseteq buf'
    BY <1>2, StreamStays
<1>4. /\ last' \in Nat /\ last' >= last /\ last' >= s /\ (last' = last \/ last' = s)
    <2>1. CASE last >= s
        BY <2>1, <1>1, <1>2, <1>00 DEF AtLeast
    <2>2. CASE ~(last >= s)
        BY <2>2, <1>1, <1>2, <1>00 DEF AtLeast
    <2> QED
        BY <2>1, <2>2
<1> DEFINE from == AtLeast(Segment(pos), list.lo)
           missing == {t \in from..list.hi + 1 : t \notin buf}
<1>5. Segment(pos) \in Nat /\ First(Segment(pos)) <= pos /\ from \in Nat /\ from >= Segment(pos)
      /\ (from = Segment(pos) \/ from = list.lo)
    BY <1>1, SegmentHolds DEF AtLeast
<1>6. from <= list.hi + 1
    <2>1. ~(list.hi + 1 < Segment(pos))
        <3> SUFFICES ASSUME list.hi + 1 < Segment(pos) PROVE FALSE
            OBVIOUS
        <3>1. list.hi + 1 \in Int /\ Segment(pos) \in Int
            BY <1>1, <1>5
        <3>2. First(list.hi + 1) + SegLen <= First(Segment(pos))
            BY <3>1, SegmentsInOrder
        <3>3. First(list.hi + 1) \in Int /\ First(Segment(pos)) \in Int
            BY <3>1, FirstTyped
        <3> QED
            BY <3>2, <3>3, <1>1, <1>5, Constants
    <2> QED
        BY <2>1, <1>1, <1>5
<1> HIDE DEF from
<1>7. list.hi + 1 \in missing
    BY <1>1, <1>5, <1>6
<1>8. s \in missing /\ \A t \in missing : s <= t
    <2>1. missing \subseteq Nat /\ missing # {}
        BY <1>5, <1>7, <1>1
    <2>2. Wanted = Smallest(missing)
        BY DEF Wanted, from
    <2> QED
        BY <2>1, <2>2, <1>2, SmallestIs
<1>9. ListenerTyped'
    BY <1>0, <1>00, <1>2, <1>4 DEF ListenerTyped
<1>10. Loaded'
    <2>1. last' \in buf' /\ \A t \in buf' : t <= last'
        BY <1>00, <1>1, <1>2, <1>4
    <2>2. last' <= list.hi /\ last' >= -1
        BY <1>1, <1>2, <1>4
    <2>3. joined # -1
        BY <1>1
    <2>4. /\ joined >= -1 /\ floor >= -1 /\ joined <= pos
          /\ \A t \in heard : joined <= t /\ t < pos
        BY <1>0, <1>1 DEF Loaded
    <2> QED
        BY <2>1, <2>2, <2>3, <2>4, <1>1, <1>2 DEF Loaded, First, AtLeast
<1>11. Bounded'
    <2>1. last' < Complete
        BY <1>0, <1>00, <1>4 DEF Bounded
    <2> QED
        BY <2>1, <1>0, <1>2, <1>3 DEF Bounded
<1>12. LoadedOrSpare'
    <2>1. ASSUME NEW t \in Nat, Segment(pos) <= t, t <= last' \/ t < floor
          PROVE  t \in buf' \/ Spare(t)'
        <3>1. CASE t <= last \/ t < floor
            <4>1. t \in buf \/ Spare(t)
                BY <3>1, <2>1, <1>0, <1>1 DEF LoadedOrSpare
            <4> QED
                BY <4>1, <1>3, SpareStays
        <3>2. CASE ~(t <= last \/ t < floor) /\ t = s
            BY <3>2, <1>2
        <3>3. CASE ~(t <= last \/ t < floor) /\ t # s
            <4>1. t < s /\ t <= list.hi
                BY <3>3, <2>1, <1>00, <1>1, <1>2, <1>4
            <4>2. CASE from <= t
                <5>1. ~(t \in missing)
                    BY <4>1, <1>8, <1>00
                <5>2. t \in from..list.hi + 1
                    BY <4>1, <4>2, <1>1, <1>5
                <5> QED
                    BY <5>1, <5>2, <1>3
            <4>3. CASE ~(from <= t)
                <5>1. t < list.lo
                    BY <4>3, <2>1, <1>1, <1>5
                <5>2. t < floor
                    BY <5>1, <1>1 DEF AtLeast
                <5> QED
                    BY <5>2, <3>3
            <4> QED
                BY <4>2, <4>3
        <3> QED
            BY <3>1, <3>2, <3>3
    <2> QED
        BY <2>1, <1>2 DEF LoadedOrSpare, Segment
<1>13. SpeechIsHeard' /\ PauseServed' /\ TailHeard'
    BY <1>0, <1>2, HeardStays
<1> QED
    BY <1>9, <1>10, <1>11, <1>12, <1>13 DEF ListenerSound

-----------------------------------------------------------------------------
(* The playhead.                                                           *)

\* A slot is played: it is heard, and the playhead is behind it.
LEMMA PlayKeepsListener ==
    ASSUME StreamSound, ListenerSound, Play
    PROVE  ListenerSound'
<1>0. /\ ListenerTyped /\ Loaded /\ Bounded /\ LoadedOrSpare /\ SpeechIsHeard /\ PauseServed /\ TailHeard
    BY DEF ListenerSound
<1>1. /\ joined >= 0 /\ joined \in Int /\ pos \in Nat /\ joined <= pos /\ buf \subseteq Nat /\ last \in buf
      /\ list.hi \in Int /\ floor \in Int /\ last \in Nat
      /\ \A t \in buf : t <= last
      /\ \A t \in heard : joined <= t /\ t < pos
      /\ last <= list.hi /\ list.hi < Complete /\ pos <= First(list.hi + 1)
      /\ Segment(pos) \in buf
    BY <1>0 DEF Loaded, ListenerTyped, Bounded, Play
<1>2. /\ UNCHANGED stream /\ last' = last /\ floor' = floor /\ list' = list /\ buf' = buf
      /\ joined' = joined /\ snap' = snap /\ tried' = tried
      /\ heard' = heard \cup {pos} /\ pos' = pos + 1
    BY DEF Play, access, page
<1>3. cues' = cues /\ Edge' = Edge /\ Complete' = Complete
    BY <1>2, StreamStays
<1>4. pos + 1 <= First(list.hi + 1) /\ First(list.hi + 1) \in Int /\ list.hi + 1 \in Int
    <2>0. Segment(pos) \in Nat /\ Segment(pos) <= last
        BY <1>1
    <2>1. Segment(pos) \in Nat /\ Segment(pos) < list.hi + 1 /\ list.hi + 1 \in Int
        BY <2>0, <1>1
    <2>2. First(Segment(pos)) + SegLen <= First(list.hi + 1)
        BY <2>1, SegmentsInOrder
    <2>3. pos < First(Segment(pos)) + SegLen
        BY <1>1, SegmentHolds
    <2>4. First(Segment(pos)) \in Int /\ First(list.hi + 1) \in Int
        BY <2>1, FirstTyped
    <2> QED
        BY <2>1, <2>2, <2>3, <2>4, <1>1, Constants
<1>5. pos + 1 <= Edge /\ Edge \in Nat
    <2>1. pos + 1 \in Nat /\ list.hi >= -1
        BY <1>1
    <2>2. pos + 1 <= Edge
        BY <2>1, <1>1, <1>4, WithinTimeline
    <2> QED
        BY <2>2, Sizes DEF StreamSound
<1>6. pos \notin heard
    BY <1>1
<1>7. ListenerTyped'
    BY <1>0, <1>1, <1>2 DEF ListenerTyped
<1>8. Loaded'
    <2>1. joined <= pos + 1 /\ \A t \in heard \cup {pos} : joined <= t /\ t < pos + 1
        <3>1. \A t \in heard : t \in Nat
            BY <1>0 DEF ListenerTyped
        <3> QED
            BY <3>1, <1>1
    <2>2. joined # -1
        BY <1>1
    <2>3. /\ joined >= -1 /\ last >= -1 /\ floor >= -1 /\ list.lo <= AtLeast(0, floor)
          /\ list.lo <= list.hi + 1
        BY <1>0, <1>1 DEF Loaded
    <2> QED
        BY <2>1, <2>2, <2>3, <1>1, <1>2, <1>4 DEF Loaded, First, AtLeast
<1>9. Bounded'
    BY <1>0, <1>2, <1>3, <1>5 DEF Bounded
<1>10. LoadedOrSpare'
    <2>1. Segment(pos) \in Nat /\ Segment(pos + 1) \in Nat /\ Segment(pos) <= Segment(pos + 1)
        <3>1. pos + 1 \in Nat /\ pos <= pos + 1
            BY <1>1
        <3> QED
            BY <3>1, <1>1, SegmentHolds, SegmentMonotone
    <2>2. ASSUME NEW t \in Nat, Segment(pos + 1) <= t, t <= last \/ t < floor
          PROVE  t \in buf' \/ Spare(t)'
        <3>1. Segment(pos) <= t
            BY <2>1, <2>2
        <3>2. t \in buf \/ Spare(t)
            BY <3>1, <2>2, <1>0, <1>1 DEF LoadedOrSpare
        <3> QED
            BY <3>2, <1>2, <1>3, SpareStays
    <2> QED
        BY <2>2, <1>2 DEF LoadedOrSpare, Segment
<1>11. SpeechIsHeard'
    <2>1. ASSUME NEW t \in joined..(pos + 1) - 1, Slot(t)' > 0 PROVE t \in heard \cup {pos}
        <3>1. Slot(t)' = Slot(t)
            BY <1>2, StreamStays
        <3>2. t = pos \/ t \in joined..pos - 1
            BY <1>1
        <3> QED
            BY <3>1, <3>2, <2>1, <1>0, <1>1 DEF SpeechIsHeard
    <2> QED
        BY <2>1, <1>2 DEF SpeechIsHeard
<1>12. TailHeard'
    <2> SUFFICES ASSUME cues # <<>>, joined <= cues[Len(cues)].end, NEW t \in Nat,
                        cues[Len(cues)].end <= t, t < pos + 1
                 PROVE  t \in heard \cup {pos}
        BY <1>2, <1>3 DEF TailHeard
    <2>1. t = pos \/ t < pos
        BY <1>1
    <2> QED
        BY <2>1, <1>0, <1>1 DEF TailHeard
<1>13. PauseServed'
    <2> SUFFICES ASSUME NEW k \in 2..Len(cues) PROVE Served(k)'
        BY <1>3 DEF PauseServed
    <2>1. PICK a \in Nat, b \in Nat, g \in Nat : a = cues[k].start /\ b = cues[k - 1].end /\ g = cues[k].gap
        BY PauseIs
    <2>2. a = b + Natural + g /\ Natural \in Nat
        BY <2>1, PauseIs
    <2>3. PICK P : P = PauseBefore(k) /\ P = PauseBefore(k)'
        BY <1>3 DEF PauseBefore
    <2>4. IsFiniteSet(P) /\ \A t \in Int : t \in P <=> b <= t /\ t < a
        BY <2>1, <2>3, PauseIsFinite
    <2>5. /\ IsFiniteSet(heard \cap P) /\ IsFiniteSet((heard \cup {pos}) \cap P)
        <3>1. heard \cap P \subseteq P /\ (heard \cup {pos}) \cap P \subseteq P
            OBVIOUS
        <3> QED
            BY <3>1, <2>4, FS_Subset
    <2>6. PICK c \in Nat, d \in Nat : c = Cardinality(heard \cap P) /\ d = Cardinality((heard \cup {pos}) \cap P)
        BY <2>5, FS_CardinalityType
    <2> SUFFICES ASSUME joined <= b, pos + 1 >= b
                 PROVE  /\ d + AtLeast(0, a - (pos + 1)) >= Natural
                        /\ (pos + 1 < a /\ k \notin tried => Whole(k)')
        BY <1>2, <1>3, <2>1, <2>3, <2>6 DEF Served, AtLeast
    <2>7. ASSUME pos >= b
          PROVE  /\ c + AtLeast(0, a - pos) >= Natural
                 /\ (pos < a /\ k \notin tried => Whole(k))
        BY <2>7, <2>1, <2>3, <2>6, <1>0, <1>1 DEF PauseServed, Served
    <2>8. CASE pos >= b /\ pos < a
        <3>1. pos \in P /\ (heard \cup {pos}) \cap P = (heard \cap P) \cup {pos} /\ pos \notin heard \cap P
            BY <2>4, <2>8, <1>1, <1>6
        <3>2. d = c + 1
            BY <3>1, <2>5, <2>6, FS_AddElement
        <3>3. d + AtLeast(0, a - (pos + 1)) >= Natural
            BY <3>2, <2>7, <2>8, <2>2, <1>1 DEF AtLeast
        <3>4. ASSUME k \notin tried PROVE Whole(k)'
            <4>1. Whole(k)
                BY <3>4, <2>7, <2>8
            <4>2. CASE \A t \in Nat : b <= t /\ t < pos => t \in heard
                <5>1. \A t \in Nat : b <= t /\ t < pos + 1 => t \in heard \cup {pos}
                    <6>1. \A t \in Nat : t < pos + 1 => t = pos \/ t < pos
                        BY <1>1
                    <6> QED
                        BY <6>1, <4>2
                <5> QED
                    BY <5>1, <2>1, <1>2, <1>3 DEF Whole
            <4>3. CASE \E l \in Nat : /\ First(l) >= b /\ First(l) + SegLen <= pos
                                      /\ \A t \in Nat : First(l) <= t /\ t < First(l) + SegLen => t \in heard
                <5>1. PICK l \in Nat : /\ First(l) >= b /\ First(l) + SegLen <= pos
                                       /\ \A t \in Nat : First(l) <= t /\ t < First(l) + SegLen => t \in heard
                    BY <4>3
                <5>2. First(l) + SegLen <= pos + 1
                    <6>1. First(l) \in Nat /\ SegLen \in Nat
                        BY FirstTyped, Constants
                    <6> QED
                        BY <6>1, <5>1, <1>1
                <5> QED
                    BY <5>1, <5>2, <2>1, <1>2, <1>3 DEF Whole, First
            <4> QED
                BY <4>1, <4>2, <4>3, <2>1 DEF Whole
        <3> QED
            BY <3>3, <3>4
    <2>9. CASE pos >= b /\ ~(pos < a)
        <3>1. (heard \cup {pos}) \cap P = heard \cap P
            BY <2>4, <2>9, <1>1
        <3>2. c = d
            BY <3>1, <2>6
        <3> QED
            BY <3>2, <2>7, <2>9, <2>2, <1>1 DEF AtLeast
    <2>10. CASE ~(pos >= b)
        <3>1. pos + 1 = b
            BY <2>10, <1>1
        <3>2. d + AtLeast(0, a - (pos + 1)) >= Natural
            BY <3>1, <2>2, <1>1 DEF AtLeast
        <3>3. ~\E t \in Nat : b <= t /\ t < pos + 1
            BY <3>1
        <3> QED
            BY <3>2, <3>3, <2>1, <1>2, <1>3 DEF Whole
    <2> QED
        BY <2>8, <2>9, <2>10
<1> QED
    BY <1>7, <1>8, <1>9, <1>10, <1>11, <1>12, <1>13 DEF ListenerSound

\* A move of the playhead within one pause, which leaves that pause served.
LEMMA MoveKeepsListener ==
    ASSUME StreamSound, ListenerSound, joined >= 0,
           NEW k \in 2..Len(cues), NEW T \in Nat,
           cues[k - 1].end <= pos, pos < T, T <= cues[k].start, T <= First(list.hi + 1),
           UNCHANGED <<stream, last, floor, list, buf, joined, heard>>, pos' = T,
           snap' \in Nat, snap' <= Len(cues), tried \subseteq tried', Served(k)'
    PROVE  ListenerSound'
<1>0. /\ ListenerTyped /\ Loaded /\ Bounded /\ LoadedOrSpare /\ SpeechIsHeard /\ PauseServed /\ TailHeard
    BY DEF ListenerSound
<1>1. /\ joined \in Int /\ pos \in Nat /\ joined <= pos /\ buf \subseteq Nat
      /\ list.hi \in Int /\ last \in buf /\ last \in Nat /\ last <= list.hi /\ list.hi < Complete
      /\ \A t \in heard : joined <= t /\ t < pos
    BY <1>0 DEF Loaded, ListenerTyped, Bounded
<1>2. /\ UNCHANGED stream /\ last' = last /\ floor' = floor /\ list' = list /\ buf' = buf
      /\ joined' = joined /\ heard' = heard
    OBVIOUS
<1>3. cues' = cues /\ Edge' = Edge /\ Complete' = Complete
    BY <1>2, StreamStays
<1>4. PICK a \in Nat, b \in Nat : a = cues[k].start /\ b = cues[k - 1].end
    BY PauseIs
<1>5. b <= pos /\ pos < T /\ T <= a
    BY <1>4
<1>6. T <= Edge /\ Edge \in Nat
    <2>1. list.hi >= -1
        BY <1>1
    <2>2. T <= Edge
        BY <2>1, <1>1, WithinTimeline
    <2> QED
        BY <2>2, Sizes DEF StreamSound
<1>7. ListenerTyped'
    BY <1>0, <1>2 DEF ListenerTyped
<1>8. Loaded'
    <2>1. joined <= T /\ joined # -1 /\ \A t \in heard : joined <= t /\ t < T
        <3>1. \A t \in heard : t \in Nat
            BY <1>0 DEF ListenerTyped
        <3> QED
            BY <3>1, <1>1, <1>5
    <2>2. /\ joined >= -1 /\ last >= -1 /\ floor >= -1 /\ list.lo <= AtLeast(0, floor)
          /\ last \in buf /\ (\A t \in buf : t <= last)
          /\ last <= list.hi /\ list.lo <= list.hi + 1
        BY <1>0 DEF Loaded
    <2> QED
        BY <2>1, <2>2, <1>2 DEF Loaded, First, AtLeast
<1>9. Bounded'
    BY <1>0, <1>2, <1>3, <1>6 DEF Bounded
<1>10. LoadedOrSpare'
    <2>1. Segment(pos) \in Nat /\ Segment(T) \in Nat /\ Segment(pos) <= Segment(T)
        <3>1. pos \in Nat /\ T \in Nat /\ pos <= T
            BY <1>1, <1>5
        <3> QED
            BY <3>1, SegmentHolds, SegmentMonotone
    <2>2. ASSUME NEW t \in Nat, Segment(T) <= t, t <= last \/ t < floor
          PROVE  t \in buf' \/ Spare(t)'
        <3>1. Segment(pos) <= t
            BY <2>1, <2>2
        <3>2. t \in buf \/ Spare(t)
            BY <3>1, <2>2, <1>0, <1>1 DEF LoadedOrSpare
        <3> QED
            BY <3>2, <1>2, <1>3, SpareStays
    <2> QED
        BY <2>2, <1>2 DEF LoadedOrSpare, Segment
<1>11. SpeechIsHeard'
    <2>1. ASSUME NEW t \in joined..T - 1, Slot(t)' > 0 PROVE t \in heard
        <3>1. Slot(t)' = Slot(t)
            BY <1>2, StreamStays
        <3>2. CASE t < pos
            BY <3>1, <3>2, <2>1, <1>0, <1>1 DEF SpeechIsHeard
        <3>3. CASE ~(t < pos)
            <4>1. t \in Nat /\ t < Edge /\ b <= t /\ t < a
                BY <3>3, <1>1, <1>5, <1>6
            <4>2. ~(Slot(t) > 0)
                BY <4>1, <1>4, PauseIsSilent
            <4> QED
                BY <4>2, <3>1, <2>1
        <3> QED
            BY <3>2, <3>3
    <2> QED
        BY <2>1, <1>2 DEF SpeechIsHeard
<1>12. TailHeard'
    <2> SUFFICES ASSUME cues # <<>>, NEW t \in Nat, cues[Len(cues)].end <= t, t < T
                 PROVE  FALSE
        BY <1>2, <1>3 DEF TailHeard
    <2>1. Len(cues) \in DOMAIN cues /\ k \in DOMAIN cues /\ k <= Len(cues)
        BY PauseIs, Sizes DEF StreamSound, StreamTyped
    <2>2. cues[k].start < cues[Len(cues)].end /\ cues[Len(cues)].end \in Nat
        BY <2>1, EndsInOrder
    <2> QED
        BY <2>2, <1>4, <1>5
<1>13. PauseServed'
    <2> SUFFICES ASSUME NEW j \in 2..Len(cues) PROVE Served(j)'
        BY <1>3 DEF PauseServed
    <2>1. PICK c \in Nat, e \in Nat : c = cues[j].start /\ e = cues[j - 1].end
        BY PauseIs
    <2>2. CASE j = k
        BY <2>2
    <2>3. CASE j < k
        <3>1. c < b /\ e <= c
            BY <2>1, <2>3, <1>4, PausesApart
        <3>2. Served(j) /\ PauseBefore(j)' = PauseBefore(j)
            BY <1>0, <1>3 DEF PauseServed, PauseBefore
        <3>3. pos >= e /\ ~(T < c) /\ AtLeast(0, c - pos) = 0 /\ AtLeast(0, c - T) = 0
            BY <3>1, <1>1, <1>5 DEF AtLeast
        <3> QED
            BY <3>2, <3>3, <2>1, <1>2, <1>3 DEF Served, AtLeast
    <2>4. CASE k < j
        <3>1. a < e
            BY <2>1, <2>4, <1>4, PausesApart
        <3>2. ~(T >= e)
            BY <3>1, <1>5
        <3> QED
            BY <3>2, <2>1, <1>3 DEF Served
    <2> QED
        BY <2>2, <2>3, <2>4
<1> QED
    BY <1>7, <1>8, <1>9, <1>10, <1>11, <1>12, <1>13 DEF ListenerSound

\* The element jumps over what is not in its playlist: within a pause, and not
\* into its natural part.
LEMMA SkipKeepsListener ==
    ASSUME StreamSound, ListenerSound, Skip
    PROVE  ListenerSound'
<1>0. /\ ListenerTyped /\ Loaded /\ Bounded /\ LoadedOrSpare /\ PauseServed
    BY DEF ListenerSound
<1> DEFINE s == Segment(pos)
           ahead == {t \in buf : t > s}
           m == Smallest(ahead)
<1>1. /\ joined >= 0 /\ pos \in Nat /\ buf \subseteq Nat /\ floor \in Int /\ list.lo \in Nat
      /\ list.hi \in Int /\ last \in buf /\ last \in Nat /\ last <= list.hi
      /\ \A t \in buf : t <= last
      /\ list.lo <= AtLeast(0, floor)
      /\ snap \in Nat /\ snap <= Len(cues)
    BY <1>0 DEF Skip, Loaded, ListenerTyped, Bounded
<1>2. /\ UNCHANGED <<stream, last, floor, list, buf, joined, heard>>
      /\ snap' = snap /\ tried' = tried /\ pos' = First(m)
      /\ s \notin buf /\ s < list.lo /\ ahead # {}
    BY DEF Skip, access, page
<1>3. s \in Nat /\ First(s) <= pos /\ pos < First(s) + SegLen /\ First(s) \in Nat
    BY <1>1, SegmentHolds, FirstTyped
<1> HIDE DEF s
<1>4. m \in ahead /\ \A t \in ahead : m <= t
    <2>1. ahead \subseteq Nat
        BY <1>1
    <2> QED
        BY <2>1, <1>2, SmallestIs
<1> HIDE DEF m
<1>5. m \in buf /\ m \in Nat /\ s < m /\ m <= last /\ First(m) \in Nat
    BY <1>1, <1>4, FirstTyped
<1>6. First(s) + SegLen <= First(m) /\ pos < First(m)
    <2>1. First(s) + SegLen <= First(m)
        BY <1>3, <1>5, SegmentsInOrder
    <2> QED
        BY <2>1, <1>1, <1>3, <1>5, Constants
<1>7. ASSUME NEW t \in Nat, s <= t, t < m PROVE Spare(t)
    <2>1. t \notin buf
        <3>1. CASE t = s
            BY <3>1, <1>2
        <3>2. CASE t # s
            <4>1. t > s /\ ~(m <= t)
                BY <3>2, <1>3, <1>5, <1>7
            <4> QED
                BY <4>1, <1>4
        <3> QED
            BY <3>1, <3>2
    <2>2. t <= last
        BY <1>1, <1>5, <1>7
    <2>3. Segment(pos) <= t
        BY <1>7 DEF s
    <2> QED
        BY <2>1, <2>2, <2>3, <1>0, <1>1 DEF LoadedOrSpare
<1>8. PICK k \in 2..Len(cues), l \in buf :
          /\ l \in Nat /\ First(l) \in Nat
          /\ First(l) >= cues[k - 1].end
          /\ First(l) + SegLen <= First(s)
          /\ First(s) + SegLen <= cues[k].resume
          /\ cues[k].resume = cues[k].start - Natural
    <2>1. Spare(s)
        BY <1>3, <1>5, <1>7
    <2> QED
        BY <2>1, <1>0, <1>3, SpareIs
<1>9. PICK a \in Nat, b \in Nat : a = cues[k].start /\ b = cues[k - 1].end
    BY PauseIs
<1>90. Natural \in Nat /\ Natural <= SegLen /\ SegLen \in Nat /\ SegLen >= 1
    BY PauseIs, Constants
<1>91. PICK r \in Int : r = cues[k].resume /\ r = a - Natural
    BY <1>8, <1>9, <1>90
<1>92. /\ First(l) >= b /\ First(l) + SegLen <= First(s) /\ First(s) + SegLen <= r /\ r \in Nat
       /\ r <= a
    <2>1. PICK x \in Nat, y \in Nat : x = First(l) /\ y = First(s)
        BY <1>3, <1>8
    <2>2. x >= b /\ x + SegLen <= y /\ y + SegLen <= r
        BY <2>1, <1>8, <1>9, <1>91
    <2>3. r \in Nat /\ r <= a
        BY <2>2, <1>90, <1>91
    <2> QED
        BY <2>1, <2>2, <2>3
<1>10. First(m) <= r
    <2> SUFFICES ASSUME ~(First(m) <= r) PROVE FALSE
        OBVIOUS
    <2> DEFINE t == Segment(r)
    <2>1. t \in Nat /\ First(t) <= r /\ r < First(t) + SegLen /\ First(t) \in Nat
        BY <1>92, SegmentHolds, FirstTyped
    <2> HIDE DEF t
    <2>2. ~(t <= s)
        <3>1. CASE t < s
            <4>1. First(t) + SegLen <= First(s)
                BY <3>1, <2>1, <1>3, SegmentsInOrder
            <4> QED
                BY <4>1, <2>1, <1>3, <1>90, <1>92
        <3>2. CASE t = s
            BY <3>2, <2>1, <1>3, <1>90, <1>92
        <3> QED
            BY <3>1, <3>2, <2>1, <1>3
    <2>3. t < m
        <3>1. CASE m < t
            <4>1. First(m) + SegLen <= First(t)
                BY <3>1, <2>1, <1>5, SegmentsInOrder
            <4> QED
                BY <4>1, <2>1, <1>5, <1>90, <1>92
        <3>2. CASE m = t
            BY <3>2, <2>1, <1>92, <1>5
        <3> QED
            BY <3>1, <3>2, <2>1, <1>5
    <2>4. Spare(t)
        BY <2>1, <2>2, <2>3, <1>3, <1>7
    <2>5. PICK j \in 2..Len(cues), i \in buf :
              /\ i \in Nat /\ First(i) \in Nat
              /\ First(i) >= cues[j - 1].end
              /\ First(i) + SegLen <= First(t)
              /\ First(t) + SegLen <= cues[j].resume
              /\ cues[j].resume = cues[j].start - Natural
        BY <2>1, <2>4, <1>0, SpareIs
    <2>6. PICK c \in Nat, e \in Nat : c = cues[j].start /\ e = cues[j - 1].end
        BY PauseIs
    <2>7. First(i) >= e /\ First(i) + SegLen <= First(t) /\ First(t) + SegLen <= c - Natural
        BY <2>5, <2>6
    <2>8. CASE j = k
        BY <2>6, <2>7, <2>8, <2>1, <1>9, <1>90, <1>91
    <2>9. CASE j < k
        <3>1. c < b
            BY <2>6, <2>9, <1>9, PausesApart
        <3>2. PICK u \in Nat, x \in Nat : u = First(t) /\ x = First(l) /\ x >= b /\ x <= u
            <4>1. First(l) <= r
                BY <1>8, <1>90, <1>92, <1>3
            <4>2. First(s) < First(t)
                BY <2>1, <2>2, <1>3, <1>90, SegmentsInOrder
            <4> QED
                BY SMTT(30), <4>2, <2>1, <1>3, <1>8, <1>90, <1>92
        <3>3. u + SegLen <= c - Natural
            BY <3>2, <2>7
        <3> QED
            BY <3>1, <3>2, <3>3, <1>90
    <2>10. CASE k < j
        <3>1. a < e
            BY <2>6, <2>10, <1>9, PausesApart
        <3>2. PICK u \in Nat, v \in Nat : u = First(t) /\ v = First(i) /\ v >= e /\ v + SegLen <= u
            BY <2>1, <2>5, <2>7
        <3>3. u <= r /\ r <= a
            BY <3>2, <2>1, <1>92
        <3> QED
            BY <3>1, <3>2, <3>3, <1>90
    <2> QED
        BY <2>8, <2>9, <2>10
<1>11. /\ b <= pos /\ pos < a /\ First(l) + SegLen <= pos /\ First(m) <= a
       /\ a - First(m) >= Natural
    <2>1. PICK x \in Nat, y \in Nat, z \in Nat : x = First(l) /\ y = First(s) /\ z = First(m)
        BY <1>3, <1>5, <1>8
    <2>2. x >= b /\ x + SegLen <= y /\ y + SegLen <= r /\ y <= pos /\ pos < z /\ z <= r
        BY <2>1, <1>3, <1>6, <1>10, <1>92
    <2>3. b <= pos /\ pos < a /\ x + SegLen <= pos /\ z <= a /\ a - z >= Natural
        BY <2>2, <1>1, <1>90, <1>91
    <2> QED
        BY <2>1, <2>3
<1>12. First(m) <= First(list.hi + 1)
    <2>1. m < list.hi + 1 /\ list.hi + 1 \in Int /\ m \in Int
        BY <1>1, <1>5
    <2>2. First(m) + SegLen <= First(list.hi + 1)
        BY <2>1, SegmentsInOrder
    <2>3. First(list.hi + 1) \in Int
        BY <2>1, FirstTyped
    <2> QED
        BY <2>2, <2>3, <1>5, <1>90
<1>13. Served(k)'
    <2>1. cues' = cues /\ heard' = heard /\ joined' = joined
        BY <1>2 DEF stream
    <2>2. PICK P : P = PauseBefore(k) /\ P = PauseBefore(k)'
        BY <2>1 DEF PauseBefore
    <2>3. Cardinality(heard \cap P) \in Nat
        <3>1. IsFiniteSet(P)
            BY <2>2, PauseIsFinite
        <3>2. heard \cap P \subseteq P
            OBVIOUS
        <3> QED
            BY <3>1, <3>2, FS_Subset, FS_CardinalityType
    <2>4. Cardinality(heard \cap P) + AtLeast(0, a - First(m)) >= Natural
        BY <2>3, <1>11, <1>5, <1>90 DEF AtLeast
    <2>5. ASSUME joined <= b, k \notin tried PROVE Whole(k)'
        <3>1. Whole(k)
            BY <2>5, <1>0, <1>1, <1>9, <1>11 DEF PauseServed, Served
        <3>2. CASE \A t \in Nat : b <= t /\ t < pos => t \in heard
            <4>1. ASSUME NEW t \in Nat, First(l) <= t, t < First(l) + SegLen PROVE t \in heard
                <5>1. b <= t /\ t < pos
                    <6>1. PICK x \in Nat : x = First(l) /\ x >= b /\ x + SegLen <= pos
                        BY <1>8, <1>11, <1>92
                    <6>2. x <= t /\ t < x + SegLen
                        BY <6>1, <4>1
                    <6> QED
                        BY <6>1, <6>2, <1>1, <1>90
                <5> QED
                    BY <5>1, <3>2
            <4>2. First(l) + SegLen <= First(m)
                BY <1>1, <1>5, <1>6, <1>8, <1>11, <1>90
            <4>3. pos' = First(m) /\ First(l) >= b /\ l \in Nat
                BY <1>2, <1>8, <1>92
            <4>4. \E l0 \in Nat : /\ First(l0) >= cues[k - 1].end /\ First(l0) + SegLen <= pos'
                                  /\ \A t \in Nat : First(l0) <= t /\ t < First(l0) + SegLen => t \in heard
                BY <4>1, <4>2, <4>3, <1>9
            <4> QED
                BY <4>4, <2>1 DEF Whole, First
        <3>3. CASE \E l0 \in Nat : /\ First(l0) >= b /\ First(l0) + SegLen <= pos
                                   /\ \A t \in Nat : First(l0) <= t /\ t < First(l0) + SegLen => t \in heard
            <4>1. PICK l0 \in Nat : /\ First(l0) >= b /\ First(l0) + SegLen <= pos
                                    /\ \A t \in Nat : First(l0) <= t /\ t < First(l0) + SegLen => t \in heard
                BY <3>3
            <4>2. First(l0) + SegLen <= First(m)
                <5>1. First(l0) \in Nat
                    BY FirstTyped
                <5> QED
                    BY <5>1, <4>1, <1>1, <1>5, <1>6, <1>90
            <4>3. \E l1 \in Nat : /\ First(l1) >= cues[k - 1].end /\ First(l1) + SegLen <= pos'
                                  /\ \A t \in Nat : First(l1) <= t /\ t < First(l1) + SegLen => t \in heard
                BY <4>1, <4>2, <1>2, <1>9
            <4> QED
                BY <4>3, <2>1 DEF Whole, First
        <3> QED
            BY <3>1, <3>2, <3>3, <1>9 DEF Whole
    <2> QED
        BY <2>1, <2>2, <2>4, <2>5, <1>2, <1>9 DEF Served, AtLeast
<1> QED
    BY <1>1, <1>2, <1>5, <1>6, <1>9, <1>11, <1>12, <1>13, MoveKeepsListener

\* What the listener has heard of a pause is all of it so far, or enough.
LEMMA WholeCounts ==
    ASSUME StreamSound, ListenerTyped, NEW k \in 2..Len(cues), Whole(k),
           cues[k - 1].end <= pos, pos <= cues[k].start
    PROVE  /\ Cardinality(heard \cap PauseBefore(k)) \in Nat
           /\ \/ Cardinality(heard \cap PauseBefore(k)) >= pos - cues[k - 1].end
              \/ Cardinality(heard \cap PauseBefore(k)) >= Natural
<1>1. PICK a \in Nat, b \in Nat : a = cues[k].start /\ b = cues[k - 1].end
    BY PauseIs
<1>2. PICK P : P = PauseBefore(k)
    OBVIOUS
<1>3. IsFiniteSet(P) /\ \A t \in Int : t \in P <=> b <= t /\ t < a
    BY <1>1, <1>2, PauseIsFinite
<1>4. Natural \in Nat /\ Natural <= SegLen /\ SegLen \in Nat /\ pos \in Nat /\ b <= pos /\ pos <= a
    BY <1>1, PauseIs, Constants DEF ListenerTyped
<1>5. CASE \A t \in Nat : b <= t /\ t < pos => t \in heard
    <2>1. \A t \in Int : b <= t /\ t < pos => t \in heard /\ t \in P
        BY <1>3, <1>4, <1>5
    <2>2. b \in Int /\ pos \in Int
        BY <1>4
    <2>3. Cardinality(heard \cap P) \in Nat /\ Cardinality(heard \cap P) >= pos - b
        BY <2>1, <2>2, <1>3, IntervalCounts
    <2> QED
        BY <2>3, <1>1, <1>2
<1>6. CASE \E l \in Nat : /\ First(l) >= b /\ First(l) + SegLen <= pos
                          /\ \A t \in Nat : First(l) <= t /\ t < First(l) + SegLen => t \in heard
    <2>1. PICK l \in Nat : /\ First(l) >= b /\ First(l) + SegLen <= pos
                           /\ \A t \in Nat : First(l) <= t /\ t < First(l) + SegLen => t \in heard
        BY <1>6
    <2>2. PICK x \in Nat : x = First(l) /\ x >= b /\ x + SegLen <= pos
        BY <2>1, FirstTyped
    <2>3. \A t \in Int : x <= t /\ t < x + SegLen => t \in heard /\ t \in P
        BY <2>1, <2>2, <1>3, <1>4
    <2>4. x \in Int /\ x + SegLen \in Int
        BY <1>4
    <2>5. Cardinality(heard \cap P) \in Nat /\ Cardinality(heard \cap P) >= (x + SegLen) - x
        BY <2>3, <2>4, <1>3, IntervalCounts
    <2>6. Cardinality(heard \cap P) >= Natural
        BY <2>5, <1>4
    <2> QED
        BY <2>5, <2>6, <1>2
<1> QED
    BY <1>1, <1>5, <1>6 DEF Whole

\* The page seeks over the rest of a wait and leaves what is left of the pause.
LEMMA SeekKeepsListener ==
    ASSUME StreamSound, ListenerSound, NEW n \in Nat, n <= Len(cues), NEW native \in BOOLEAN,
           Apply(n, native), pos' # pos,
           UNCHANGED <<stream, last, floor, list, buf, joined, heard>>,
           snap' \in Nat, snap' <= Len(cues)
    PROVE  ListenerSound'
<1>0. /\ ListenerTyped /\ Loaded /\ Bounded /\ PauseServed /\ StreamTyped
    BY DEF ListenerSound, StreamSound
<1>a. PICK k : k = Smallest(Ahead(n))
    OBVIOUS
<1>b. PICK T : T = Target(k, native)
    OBVIOUS
<1>1. /\ Begun(n) # {} /\ Ahead(n) # {} /\ MayCompact(k) /\ T > pos /\ Reachable(k, native)
      /\ pos' = T /\ tried' = tried \cup {k}
    BY <1>a, <1>b DEF Apply
<1>2. Len(cues) \in Nat /\ DOMAIN cues = 1..Len(cues)
    BY <1>0, Sizes
<1>3. k \in Ahead(n)
    <2>1. Ahead(n) \subseteq Nat
        BY DEF Ahead
    <2> QED
        BY <2>1, <1>1, <1>a, SmallestIs
<1>4. k \in 1..Len(cues) /\ cues[k].start > pos
    BY <1>2, <1>3 DEF Ahead
<1>5. pos \in Nat /\ list.hi \in Int /\ list.lo \in Nat /\ buf \subseteq Nat /\ heard \subseteq Nat
    BY <1>0 DEF ListenerTyped
<1>6. k \in 2..Len(cues)
    <2>1. PICK j \in 1..n : cues[j].start <= pos
        BY <1>1 DEF Begun
    <2>2. j \in DOMAIN cues /\ k \in DOMAIN cues
        BY <1>2, <1>4, <2>1
    <2>3. ~(k <= j)
        <3> SUFFICES ASSUME k <= j PROVE FALSE
            OBVIOUS
        <3>1. cues[k].start <= cues[j].start /\ cues[j].start \in Nat /\ cues[k].start \in Nat
            BY <2>2, EndsInOrder
        <3> QED
            BY <3>1, <2>1, <1>4, <1>5
    <2> QED
        BY <2>1, <2>3, <1>4
<1>7. PICK a \in Nat, b \in Nat, g \in Nat, r \in Int :
          a = cues[k].start /\ b = cues[k - 1].end /\ g = cues[k].gap /\ r = cues[k].resume
    BY <1>6, PauseIs
<1>8. /\ g >= MinGap /\ k \notin tried /\ b <= pos /\ pos < a
    BY <1>1, <1>4, <1>7 DEF MayCompact
<1>9. /\ Natural \in Nat /\ a = b + Natural + g /\ r = a - Natural /\ Preroll \in Nat
    <2>1. g > 0
        BY <1>8, Constants
    <2> QED
        BY <2>1, <1>6, <1>7, PauseIs, Constants
<1> DEFINE left == AtLeast(0, (a - r) - AtLeast(0, pos - b))
           lead == IF native THEN Preroll ELSE 0
<1>10. T = AtLeast(b, AtMost(a - left, a - lead))
    BY <1>7, <1>b DEF Target
<1>11. left \in Nat /\ left >= Natural - (pos - b) /\ lead \in Nat
    BY <1>5, <1>8, <1>9 DEF AtLeast
<1> HIDE DEF left, lead
<1>12. T \in Nat /\ T <= a - left /\ T <= a /\ T > pos
    <2>1. T > pos
        BY <1>1
    <2>2. PICK x \in Int : x = AtMost(a - left, a - lead) /\ x <= a - left
        <3>1. a - left \in Int /\ a - lead \in Int
            BY <1>11
        <3> QED
            BY <3>1, Maxima
    <2>3. T = AtLeast(b, x)
        BY <2>2, <1>10
    <2> QED
        BY <2>1, <2>2, <2>3, <1>5, <1>8, <1>11 DEF AtLeast
<1>13. joined >= 0
    <2> SUFFICES ASSUME ~(joined >= 0) PROVE FALSE
        OBVIOUS
    <2>1. pos = 0
        BY <1>0 DEF Loaded, ListenerTyped
    <2>2. PICK j \in 1..n : cues[j].start <= pos
        BY <1>1 DEF Begun
    <2>3. j \in DOMAIN cues
        BY <1>2, <2>2
    <2>4. cues[j].start \in Nat /\ cues[j].start >= Bootstrap + Lead
        BY <2>3, <1>0, CueTyped DEF StreamSound, CuesOrdered
    <2> QED
        BY <2>1, <2>2, <2>4, Constants
<1>14. T <= First(list.hi + 1)
    <2>0. /\ last \in Nat /\ last <= list.hi /\ list.hi + 1 \in Int /\ First(list.hi + 1) \in Int
          /\ \A t \in buf : t <= last
        <3>1. last \in Nat /\ last <= list.hi /\ \A t \in buf : t <= last
            BY <1>0, <1>5, <1>13 DEF Loaded
        <3>2. list.hi + 1 \in Int
            BY <1>5
        <3> QED
            BY <3>1, <3>2, FirstTyped
    <2>1. a < First(list.hi + 1)
        <3>1. CASE Seekable(k, native)
            BY <3>1, <1>7 DEF Seekable
        <3>2. CASE ~native /\ Buffered(k)
            <4>1. a \in Target(k, FALSE)..a + Guard - 1
                <5>1. native = FALSE
                    BY <3>2
                <5>2. Target(k, FALSE) = T
                    BY <5>1, <1>b
                <5>3. a \in T..a + Guard - 1
                    BY <1>12, Constants
                <5> QED
                    BY <5>2, <5>3
            <4>2. Segment(a) \in buf
                BY <4>1, <3>2, <1>7 DEF Buffered
            <4>3. Segment(a) < list.hi + 1 /\ Segment(a) \in Int /\ First(Segment(a)) \in Int
                <5>1. Segment(a) \in Nat /\ Segment(a) <= last
                    BY <4>2, <1>5, <2>0
                <5>2. First(Segment(a)) \in Int
                    BY <5>1, FirstTyped
                <5>3. Segment(a) < list.hi + 1
                    BY <5>1, <1>5, <2>0
                <5> QED
                    BY <5>1, <5>2, <5>3
            <4>4. First(Segment(a)) + SegLen <= First(list.hi + 1)
                BY <4>3, <2>0, SegmentsInOrder
            <4>5. a < First(Segment(a)) + SegLen
                BY SegmentHolds
            <4> QED
                BY <4>3, <4>4, <4>5, <2>0, Constants
        <3> QED
            BY <3>1, <3>2, <1>1 DEF Reachable
    <2> QED
        BY <2>0, <2>1, <1>12
<1>15. Served(k)'
    <2>1. cues' = cues /\ heard' = heard /\ joined' = joined /\ pos' = T
        BY <1>1 DEF stream
    <2>2. PICK P : P = PauseBefore(k) /\ P = PauseBefore(k)'
        BY <2>1 DEF PauseBefore
    <2>3. ASSUME joined <= b PROVE Cardinality(heard \cap P) + AtLeast(0, a - T) >= Natural
        <3>1. Whole(k)
            BY <2>3, <1>0, <1>6, <1>7, <1>8, <1>13 DEF PauseServed, Served
        <3>2. PICK c \in Nat : c = Cardinality(heard \cap P) /\ (c >= pos - b \/ c >= Natural)
            <4>1. cues[k - 1].end <= pos /\ pos <= cues[k].start
                BY <1>5, <1>7, <1>8
            <4> QED
                BY <4>1, <3>1, <2>2, <1>0, <1>6, <1>7, WholeCounts
        <3>3. AtLeast(0, a - T) \in Int /\ AtLeast(0, a - T) >= left
            BY <1>11, <1>12 DEF AtLeast
        <3>4. c + AtLeast(0, a - T) >= Natural
            BY <3>2, <3>3, <1>5, <1>9, <1>11
        <3> QED
            BY <3>2, <3>4
    <2>4. k \in tried'
        BY <1>1
    <2> QED
        BY <2>1, <2>2, <2>3, <2>4, <1>7 DEF Served, AtLeast
<1>16. tried \subseteq tried' /\ cues[k - 1].end <= pos /\ pos < T /\ T <= cues[k].start
    BY <1>1, <1>7, <1>8, <1>12, <1>5
<1> QED
    BY <1>1, <1>6, <1>12, <1>13, <1>14, <1>15, <1>16, MoveKeepsListener

-----------------------------------------------------------------------------
(* Sessions.                                                               *)

\* A step within a session keeps the numbering; without a lease it does nothing.
LEMMA SessionsStay ==
    ASSUME Sessions, UNCHANGED <<session, count>>, arriving' \subseteq arriving,
           leases' \subseteq 1..count,
           session \in leases => session \in leases',
           session \notin leases' => UNCHANGED <<joined, pos, buf, last, floor, heard, list, snap>>
    PROVE  Sessions'
<1>1. session' = session /\ count' = count
    OBVIOUS
<1>2. /\ (session # 0 => session = count)
      /\ \A r \in arriving : r[1] <= count /\ r[1] # session
    BY DEF Sessions
<1>3. ASSUME session \notin leases' PROVE Fresh'
    <2>1. Fresh
        BY <1>3 DEF Sessions
    <2> QED
        BY <2>1, <1>3 DEF Fresh
<1> QED
    BY <1>1, <1>2, <1>3 DEF Sessions

\* Nothing the listener's state depends on changes.
LEMMA ListenerStays ==
    ASSUME StreamSound, StreamSound', ListenerSound,
           UNCHANGED <<stream, last, floor, list, buf, pos, joined, heard, tried, snap>>
    PROVE  ListenerSound'
<1>1. cues' = cues /\ Edge' = Edge /\ \A s \in Int : Slot(s)' = Slot(s)
    BY StreamStays
<1>2. Edge \in Nat /\ Len(cues) \in Nat
    BY Sizes DEF StreamSound
<1>3. Grows
    BY <1>1, <1>2 DEF Grows
<1> QED
    BY <1>1, <1>3, GrowsKeepsListener

\* A lease that ends is not the running session's, unless that has nothing yet.
LEMMA ReleaseKeeps ==
    ASSUME Inv, StreamSound', NEW ls \in SUBSET leases, Released(ls),
           session \in leases => session \in ls,
           arriving' \subseteq arriving, UNCHANGED <<last, floor, page, player>>
    PROVE  PageTyped' /\ Sessions' /\ ListenerSound'
<1>0. PageTyped /\ Sessions /\ ListenerSound /\ StreamSound
    BY DEF Inv
<1>1. /\ session' = session /\ count' = count /\ started' = started /\ troubles' = troubles
      /\ snap' = snap /\ tried' = tried /\ media' = media /\ list' = list /\ buf' = buf
      /\ pos' = pos /\ joined' = joined /\ heard' = heard /\ last' = last /\ floor' = floor
      /\ leases' = ls
    BY DEF page, player, Released
<1>2. PageTyped'
    BY <1>0, <1>1 DEF PageTyped
<1>3. Sessions'
    <2>1. leases' \subseteq 1..count
        BY <1>0, <1>1 DEF Sessions
    <2> QED
        BY <2>1, <1>0, <1>1, SessionsStay
<1>4. CASE session \in leases
    <2>1. UNCHANGED stream
        BY <1>4 DEF Released
    <2> QED
        BY <2>1, <1>0, <1>1, <1>2, <1>3, ListenerStays
<1>5. CASE session \notin leases
    <2>1. Fresh
        BY <1>0, <1>5 DEF Sessions
    <2>2. Fresh'
        BY <2>1, <1>1 DEF Fresh
    <2>3. ListenerSound'
        BY <2>2, FreshIsSound, PTL
    <2> QED
        BY <2>3, <1>2, <1>3
<1> QED
    BY <1>4, <1>5

\* The steps of the stream.
LEMMA StreamStepKeeps ==
    ASSUME Inv, StreamSound', Write \/ AppendClip
    PROVE  PageTyped' /\ Sessions' /\ ListenerSound'
<1>0. PageTyped /\ Sessions /\ ListenerSound /\ StreamSound
    BY DEF Inv
<1>1. UNCHANGED <<access, page, player>>
    BY DEF Write, AppendClip
<1>2. /\ session' = session /\ count' = count /\ started' = started /\ troubles' = troubles
      /\ snap' = snap /\ tried' = tried /\ media' = media /\ list' = list /\ buf' = buf
      /\ pos' = pos /\ joined' = joined /\ heard' = heard /\ last' = last /\ floor' = floor
      /\ leases' = leases /\ arriving' = arriving
    BY <1>1 DEF access, page, player
<1>3. PageTyped'
    BY <1>0, <1>2 DEF PageTyped
<1>4. Sessions'
    BY <1>0, <1>2 DEF Sessions, Fresh
<1>5. CASE Write
    <2>1. Grows /\ cues' = cues
        BY <1>0, <1>5, WriteGrows DEF StreamSound
    <2>2. ListenerSound'
        BY <2>1, <1>0, <1>2, GrowsKeepsListener
    <2> QED
        BY <2>2, <1>3, <1>4
<1>6. CASE AppendClip
    <2>1. /\ Grows /\ Len(cues') = Len(cues) + 1
          /\ cues'[Len(cues) + 1] = Cue(Placed)
        BY <1>0, <1>6, AppendGrows DEF StreamSound
    <2>2. Cue(Placed).start = End + Lead
        BY <1>0, CuePlaced DEF StreamSound
    <2>3. cues'[Len(cues) + 1].start >= Edge
        <3>1. Edge \in Nat /\ End \in Nat /\ End >= Edge /\ Lead \in Nat
            BY <1>0, Sizes, Constants DEF StreamSound
        <3>2. End + Lead >= Edge
            BY <3>1
        <3> QED
            BY <3>2, <2>1, <2>2
    <2>4. ListenerSound'
        BY <2>1, <2>3, <1>0, <1>2, GrowsKeepsListener
    <2> QED
        BY <2>4, <1>3, <1>4
<1> QED
    BY <1>5, <1>6

\* Requests: leases, and what comes late.
LEMMA RequestStepKeeps ==
    ASSUME Inv, StreamSound',
           \/ Prune \/ Join
           \/ \E i \in 1..MaxSession : LateRequest(i) \/ RemoveListener(i)
           \/ \E r \in arriving : LoseRequest(r)
    PROVE  PageTyped' /\ Sessions' /\ ListenerSound'
<1>0. PageTyped /\ Sessions /\ ListenerSound /\ StreamSound
    BY DEF Inv
<1>1. CASE Prune
    <2>1. /\ Released(leases \ Expired) /\ arriving' = arriving
          /\ UNCHANGED <<last, floor, page, player>>
        BY <1>1 DEF Prune
    <2>2. leases \ Expired \in SUBSET leases /\ (session \in leases => session \in leases \ Expired)
        BY DEF Expired
    <2> QED
        BY <2>1, <2>2, ReleaseKeeps
<1>2. ASSUME NEW i \in 1..MaxSession, RemoveListener(i)
      PROVE  PageTyped' /\ Sessions' /\ ListenerSound'
    <2>1. /\ Released(leases \ {i}) /\ arriving' \subseteq arriving /\ <<i, "delete">> \in arriving
          /\ UNCHANGED <<last, floor, page, player>>
        BY <1>2 DEF RemoveListener
    <2>2. i # session
        <3>1. <<i, "delete">>[1] # session
            BY <2>1, <1>0 DEF Sessions
        <3> QED
            BY <3>1
    <2>3. leases \ {i} \in SUBSET leases /\ (session \in leases => session \in leases \ {i})
        BY <2>2
    <2> QED
        BY <2>1, <2>3, ReleaseKeeps
<1>3. ASSUME leases \subseteq leases', leases' \subseteq 1..count, arriving' \subseteq arriving,
             UNCHANGED <<stream, last, floor, page, player>>
      PROVE  PageTyped' /\ Sessions' /\ ListenerSound'
    <2>1. /\ session' = session /\ count' = count /\ started' = started /\ troubles' = troubles
          /\ snap' = snap /\ tried' = tried /\ media' = media /\ list' = list /\ buf' = buf
          /\ pos' = pos /\ joined' = joined /\ heard' = heard /\ last' = last /\ floor' = floor
        BY <1>3 DEF page, player
    <2>2. leases' \subseteq 1..MaxSession
        BY <1>3, <1>0, Constants DEF PageTyped
    <2>3. PageTyped'
        BY <2>1, <2>2, <1>0, <1>3 DEF PageTyped
    <2>4. Sessions'
        BY <2>1, <1>0, <1>3, SessionsStay
    <2>5. ListenerSound'
        BY <2>1, <1>0, <1>3, ListenerStays
    <2> QED
        BY <2>3, <2>4, <2>5
<1>4. CASE Join
    <2>1. /\ leases' = leases \cup {session} /\ session # 0 /\ arriving' = arriving
          /\ UNCHANGED <<stream, last, floor, page, player>>
        BY <1>4 DEF Join, Touch
    <2>2. session \in 1..count
        BY <2>1, <1>0 DEF Sessions, PageTyped
    <2>3. leases' \subseteq 1..count
        BY <2>1, <2>2, <1>0 DEF Sessions
    <2> QED
        BY <2>1, <2>3, <1>3
<1>5. ASSUME NEW i \in 1..MaxSession, LateRequest(i)
      PROVE  PageTyped' /\ Sessions' /\ ListenerSound'
    <2>1. /\ leases' = leases \cup {i} /\ <<i, "get">> \in arriving /\ arriving' \subseteq arriving
          /\ UNCHANGED <<stream, last, floor, page, player>>
        BY <1>5 DEF LateRequest, Touch
    <2>2. i <= count /\ count \in Nat
        <3>1. <<i, "get">>[1] <= count
            BY <2>1, <1>0 DEF Sessions
        <3> QED
            BY <3>1, <1>0 DEF PageTyped
    <2>3. leases' \subseteq 1..count
        BY <2>1, <2>2, <1>0 DEF Sessions
    <2> QED
        BY <2>1, <2>3, <1>3
<1>6. ASSUME NEW r \in arriving, LoseRequest(r)
      PROVE  PageTyped' /\ Sessions' /\ ListenerSound'
    <2>1. /\ leases' = leases /\ arriving' \subseteq arriving
          /\ UNCHANGED <<stream, last, floor, page, player>>
        BY <1>6 DEF LoseRequest
    <2>2. leases' \subseteq 1..count
        BY <2>1, <1>0 DEF Sessions
    <2> QED
        BY <2>1, <2>2, <1>3
<1> QED
    BY <1>1, <1>2, <1>4, <1>5, <1>6

\* The page starts and stops, and what the element tells it.
LEMMA PageStepKeeps ==
    ASSUME Inv, StreamSound',
           Start \/ Stop \/ MarkPlaying \/ MarkBlocked \/ Stalled \/ Pause \/ Resume
    PROVE  PageTyped' /\ Sessions' /\ ListenerSound'
<1>0. PageTyped /\ Sessions /\ ListenerSound /\ StreamSound
    BY DEF Inv
<1>1. CASE Start
    <2>1. /\ session = 0 /\ count < MaxSession /\ session' = count + 1 /\ count' = count + 1
          /\ started' = FALSE /\ tried' = {} /\ media' = "pending"
          /\ leases' = leases /\ arriving' = arriving /\ last' = last /\ floor' = floor
          /\ snap' = snap /\ list' = list /\ buf' = buf /\ pos' = pos /\ joined' = joined /\ heard' = heard
        BY <1>1 DEF Start, access
    <2>2. count \in Nat /\ leases \subseteq 1..count
        BY <1>0 DEF PageTyped, Sessions
    <2>3. Fresh
        BY <2>1, <2>2, <1>0 DEF Sessions
    <2>4. Fresh'
        BY <2>1, <2>3 DEF Fresh
    <2>5. ListenerSound'
        BY <2>4, FreshIsSound, PTL
    <2>6. troubles' \in Nat
        <3>1. troubles' = (IF count > 0 THEN troubles + 1 ELSE troubles)
            BY <1>1 DEF Start
        <3> QED
            BY <3>1, <1>0 DEF PageTyped
    <2>7. session' \in 0..MaxSession /\ count' \in 0..MaxSession
        BY <2>1, <2>2, Constants
    <2>8. PageTyped'
        <3>1. /\ leases' = leases /\ arriving' = arriving /\ media' = "pending" /\ started' = FALSE
              /\ tried' = {}
            BY <2>1
        <3>2. leases' \subseteq 1..MaxSession /\ arriving' \subseteq (1..MaxSession) \X {"get", "delete"}
            BY <3>1, <1>0 DEF PageTyped
        <3>3. started' \in BOOLEAN
            BY <3>1
        <3>4. media' \in {"none", "pending", "playing", "paused", "failed"}
            BY <3>1
        <3>5. tried' \subseteq Nat
            BY <3>1
        <3> QED
            BY <3>2, <3>3, <3>4, <3>5, <2>6, <2>7 DEF PageTyped
    <2>9. leases' \subseteq 1..count'
        BY <2>1, <2>2
    <2>10. ASSUME NEW r \in arriving PROVE r[1] <= count + 1 /\ r[1] # count + 1
        <3>1. r[1] <= count /\ r[1] \in Nat
            BY <2>10, <1>0 DEF Sessions, PageTyped
        <3> QED
            BY <3>1, <2>2
    <2>11. Sessions'
        BY <2>1, <2>4, <2>9, <2>10 DEF Sessions
    <2> QED
        BY <2>5, <2>8, <2>11
<1>2. CASE Stop
    <2>1. PICK late \in SUBSET {<<session, "get">>} :
              arriving' = arriving \cup late \cup {<<session, "delete">>}
        BY <1>2 DEF Stop
    <2>2. /\ session # 0 /\ session' = 0 /\ started' = FALSE /\ snap' = 0 /\ tried' = {}
          /\ last' = -1 /\ floor' = -1 /\ leases' = leases /\ count' = count /\ troubles' = troubles
          /\ media' = "none" /\ list' = [lo |-> 0, hi |-> -1] /\ buf' = {} /\ pos' = 0
          /\ joined' = -1 /\ heard' = {}
        BY <1>2 DEF Stop, Silent
    <2>3. Fresh'
        BY <2>2 DEF Fresh
    <2>4. ListenerSound'
        BY <2>3, FreshIsSound, PTL
    <2>5. session = count /\ session \in 1..MaxSession
        BY <2>2, <1>0 DEF Sessions, PageTyped
    <2>6. arriving' \subseteq (1..MaxSession) \X {"get", "delete"}
        <3>1. <<session, "get">> \in (1..MaxSession) \X {"get", "delete"}
            BY <2>5
        <3>2. <<session, "delete">> \in (1..MaxSession) \X {"get", "delete"}
            BY <2>5
        <3> QED
            BY <2>1, <3>1, <3>2, <1>0 DEF PageTyped
    <2>7. PageTyped'
        <3>1. leases' \subseteq 1..MaxSession /\ count' \in 0..MaxSession /\ troubles' \in Nat
            BY <2>2, <1>0 DEF PageTyped
        <3>2. session' \in 0..MaxSession /\ tried' \subseteq Nat
            BY <2>2, Constants
        <3>3. started' \in BOOLEAN
            BY <2>2
        <3>4. media' \in {"none", "pending", "playing", "paused", "failed"}
            BY <2>2
        <3> QED
            BY <3>1, <3>2, <3>3, <3>4, <2>6 DEF PageTyped
    <2>8. ASSUME NEW r \in arriving' PROVE r[1] <= count /\ r[1] # 0
        <3>1. CASE r \in arriving
            <4>1. r[1] <= count /\ r[1] \in 1..MaxSession
                BY <3>1, <1>0 DEF Sessions, PageTyped
            <4> QED
                BY <4>1
        <3>2. CASE r = <<session, "get">> \/ r = <<session, "delete">>
            BY <3>2, <2>5
        <3> QED
            BY <3>1, <3>2, <2>1, <2>8
    <2>9. Sessions'
        BY <2>2, <2>3, <2>8, <1>0 DEF Sessions
    <2> QED
        BY <2>4, <2>7, <2>9
<1>3. ASSUME UNCHANGED <<stream, access, session, count, snap, tried, list, buf, pos, joined, heard>>,
             media' \in {"none", "pending", "playing", "paused", "failed"},
             started' \in BOOLEAN, troubles' \in Nat
      PROVE  PageTyped' /\ Sessions' /\ ListenerSound'
    <2>1. leases' = leases /\ arriving' = arriving /\ last' = last /\ floor' = floor
        BY <1>3 DEF access
    <2>2. PageTyped'
        BY <2>1, <1>0, <1>3 DEF PageTyped
    <2>3. Sessions'
        BY <2>1, <1>0, <1>3 DEF Sessions, Fresh
    <2>4. ListenerSound'
        BY <2>1, <1>0, <1>3, ListenerStays
    <2> QED
        BY <2>2, <2>3, <2>4
<1>30. started \in BOOLEAN /\ troubles \in Nat
    BY <1>0 DEF PageTyped
<1>4. CASE MarkPlaying
    <2>1. /\ UNCHANGED <<stream, access, session, count, snap, tried, list, buf, pos, joined, heard>>
          /\ media' = "playing" /\ started' = TRUE /\ troubles' = troubles
        BY <1>4 DEF MarkPlaying
    <2> QED
        BY <2>1, <1>3, <1>30
<1>5. ASSUME NEW m \in {"none", "pending", "playing", "paused", "failed"}, Trouble(m), started' \in BOOLEAN
      PROVE  PageTyped' /\ Sessions' /\ ListenerSound'
    <2>1. /\ UNCHANGED <<stream, access, session, count, snap, tried, list, buf, pos, joined, heard>>
          /\ media' = m /\ troubles' = troubles + 1
        BY <1>5 DEF Trouble
    <2>2. troubles' \in Nat
        BY <2>1, <1>30
    <2> QED
        BY <2>1, <2>2, <1>3, <1>5
<1>6. CASE MarkBlocked
    BY <1>5, <1>6 DEF MarkBlocked
<1>7. CASE Stalled
    BY <1>5, <1>7 DEF Stalled
<1>8. CASE Pause
    BY <1>5, <1>8, <1>30 DEF Pause
<1>9. CASE Resume
    <2>1. /\ UNCHANGED <<stream, access, session, count, snap, tried, list, buf, pos, joined, heard>>
          /\ media' = "pending" /\ started' = FALSE /\ troubles' = troubles
        BY <1>9 DEF Resume
    <2> QED
        BY <2>1, <1>3, <1>30
<1> QED
    BY <1>1, <1>2, <1>4, <1>6, <1>7, <1>8, <1>9

\* The listener: playlists, segments, the playhead.
LEMMA ListenerStepKeeps ==
    ASSUME Inv, StreamSound', Playlist \/ Load \/ Play \/ Skip
    PROVE  PageTyped' /\ Sessions' /\ ListenerSound'
<1>0. PageTyped /\ Sessions /\ ListenerSound /\ StreamSound /\ ListenerTyped
    BY DEF Inv, ListenerSound
<1>1. UNCHANGED <<page, media, leases, arriving>>
    BY DEF Playlist, Load, LoadSegment, Play, Skip, access
<1>2. /\ session' = session /\ count' = count /\ started' = started /\ troubles' = troubles
      /\ snap' = snap /\ tried' = tried /\ media' = media /\ leases' = leases /\ arriving' = arriving
    BY <1>1 DEF page
<1>3. PageTyped'
    BY <1>0, <1>2 DEF PageTyped
<1>4. session \in leases
    <2> SUFFICES ASSUME session \notin leases PROVE FALSE
        OBVIOUS
    <2>1. joined = -1 /\ list = [lo |-> 0, hi |-> -1]
        BY <1>0 DEF Sessions, Fresh
    <2>2. ~(joined >= 0) /\ ~(list.hi >= 0)
        BY <2>1
    <2> QED
        BY <2>2 DEF Playlist, Load, LoadSegment, Play, Skip
<1>5. Sessions'
    BY <1>0, <1>2, <1>4 DEF Sessions
<1>6. ListenerSound'
    <2>1. CASE Playlist
        BY <2>1, <1>0, PlaylistKeepsListener
    <2>2. CASE Load
        <3>1. PICK s \in 0..Complete - 1 : LoadSegment(s)
            BY <2>2 DEF Load
        <3> QED
            BY <3>1, <1>0, JoiningKeepsListener, LoadingKeepsListener
    <2>3. CASE Play
        BY <2>3, <1>0, PlayKeepsListener
    <2>4. CASE Skip
        BY <2>4, <1>0, SkipKeepsListener
    <2> QED
        BY <2>1, <2>2, <2>3, <2>4
<1> QED
    BY <1>3, <1>5, <1>6

\* The page applies its captions.
LEMMA CaptionStepKeeps ==
    ASSUME Inv, StreamSound', NEW native \in BOOLEAN,
           Refresh(native) \/ \E n \in 1..Len(cues) : TakeCaptions(n, native)
    PROVE  PageTyped' /\ Sessions' /\ ListenerSound'
<1>0. /\ PageTyped /\ Sessions /\ ListenerSound /\ StreamSound /\ ListenerTyped /\ Bounded
      /\ SpeechIsHeard /\ PauseServed /\ TailHeard /\ snap \in Nat /\ Len(cues) \in Nat /\ snap <= Len(cues)
    <2>1. PageTyped /\ Sessions /\ ListenerSound /\ StreamSound
        BY DEF Inv
    <2>2. Len(cues) \in Nat
        BY <2>1, Sizes DEF StreamSound
    <2> QED
        BY <2>1, <2>2 DEF ListenerSound, ListenerTyped, Bounded
<1>1. PICK n \in Nat :
          /\ n <= Len(cues) /\ Apply(n, native)
          /\ ((n # 0 /\ session \in leases) \/ (n = snap /\ pos' # pos))
          /\ snap' \in Nat /\ snap' <= Len(cues)
          /\ UNCHANGED <<stream, access, session, count, started, troubles, media, list, buf, joined, heard>>
    <2>1. CASE Refresh(native)
        <3>1. /\ Apply(snap, native) /\ pos' # pos /\ snap' = snap
              /\ UNCHANGED <<stream, access, session, count, started, troubles, media, list, buf, joined, heard>>
            BY <2>1 DEF Refresh
        <3> QED
            BY <3>1, <1>0
    <2>2. CASE \E m \in 1..Len(cues) : TakeCaptions(m, native)
        <3>1. PICK m \in 1..Len(cues) : TakeCaptions(m, native)
            BY <2>2
        <3>2. /\ Apply(m, native) /\ session \in leases /\ snap' = m
              /\ UNCHANGED <<stream, access, session, count, started, troubles, media, list, buf, joined, heard>>
            BY <3>1 DEF TakeCaptions
        <3>3. m \in Nat /\ m <= Len(cues) /\ m # 0
            BY <1>0
        <3> QED
            BY <3>2, <3>3
    <2> QED
        BY <2>1, <2>2
<1>2. /\ session' = session /\ count' = count /\ started' = started /\ troubles' = troubles
      /\ media' = media /\ leases' = leases /\ arriving' = arriving /\ last' = last /\ floor' = floor
      /\ list' = list /\ buf' = buf /\ joined' = joined /\ heard' = heard
    BY <1>1 DEF access
<1>3. tried' \subseteq Nat
    <2>1. CASE tried' = tried
        BY <2>1, <1>0 DEF PageTyped
    <2>2. CASE tried' # tried
        <3>1. Ahead(n) # {} /\ tried' = tried \cup {Smallest(Ahead(n))}
            BY <2>2, <1>1 DEF Apply
        <3>2. Ahead(n) \subseteq Nat
            BY DEF Ahead
        <3>3. Smallest(Ahead(n)) \in Nat
            BY <3>1, <3>2, SmallestIs
        <3> QED
            BY <3>1, <3>3, <1>0 DEF PageTyped
    <2> QED
        BY <2>1, <2>2
<1>4. PageTyped'
    BY <1>0, <1>2, <1>3 DEF PageTyped
<1>5. session \in leases
    <2> SUFFICES ASSUME session \notin leases PROVE FALSE
        OBVIOUS
    <2>1. snap = 0 /\ n = snap /\ pos' # pos
        BY <1>0, <1>1 DEF Sessions, Fresh
    <2>2. Begun(n) = {}
        BY <2>1 DEF Begun
    <2> QED
        BY <2>1, <2>2, <1>1 DEF Apply
<1>6. Sessions'
    BY <1>0, <1>2, <1>5 DEF Sessions
<1>7. CASE pos' # pos
    <2>1. UNCHANGED <<stream, last, floor, list, buf, joined, heard>>
        BY <1>1, <1>2
    <2>2. ListenerSound'
        BY <2>1, <1>0, <1>1, <1>7, SeekKeepsListener
    <2> QED
        BY <2>2, <1>4, <1>6
<1>8. CASE pos' = pos
    <2>1. tried' = tried
        <3>1. pos \in Nat
            BY <1>0 DEF ListenerTyped
        <3>2. ~(Target(Smallest(Ahead(n)), native) > pos /\ pos' = Target(Smallest(Ahead(n)), native))
            BY <3>1, <1>8
        <3> QED
            BY <3>2, <1>1 DEF Apply
    <2>2. cues' = cues /\ Edge' = Edge /\ Complete' = Complete
        BY <1>1, StreamStays
    <2>3. SpeechIsHeard' /\ PauseServed' /\ TailHeard'
        BY <2>1, <1>0, <1>1, <1>2, <1>8, HeardStays
    <2>4. ListenerTyped'
        BY <1>0, <1>1, <1>2, <1>8 DEF ListenerTyped
    <2>5. Loaded'
        <3>1. Loaded
            BY <1>0 DEF ListenerSound
        <3> QED
            BY <3>1, <1>2, <1>8 DEF Loaded, First, AtLeast
    <2>6. Bounded'
        BY <2>2, <1>0, <1>1, <1>2, <1>8 DEF Bounded
    <2>7. LoadedOrSpare'
        <3>1. LoadedOrSpare
            BY <1>0 DEF ListenerSound
        <3>2. \A t \in Nat : Spare(t) => Spare(t)'
            BY <2>2, <1>2, SpareStays
        <3> QED
            BY <3>1, <3>2, <1>2, <1>8 DEF LoadedOrSpare, Segment
    <2> QED
        BY <2>3, <2>4, <2>5, <2>6, <2>7, <1>4, <1>6 DEF ListenerSound
<1> QED
    BY <1>7, <1>8

-----------------------------------------------------------------------------
(* The theorems.                                                           *)

\* In the beginning there is nothing to be wrong.
LEMMA InitIsSound == Init => Inv
<1> SUFFICES ASSUME Init PROVE Inv
    OBVIOUS
<1>1. StreamSound
    BY IdleIsSound DEF Init
<1>2. Fresh
    BY DEF Init, Fresh
<1>3. ListenerSound
    BY <1>1, <1>2, FreshIsSound
<1>4. PageTyped
    <2>1. session \in 0..MaxSession /\ count \in 0..MaxSession
        BY Constants DEF Init
    <2>2. /\ leases \subseteq 1..MaxSession /\ tried \subseteq Nat /\ troubles \in Nat
          /\ arriving \subseteq (1..MaxSession) \X {"get", "delete"}
        BY DEF Init
    <2>3. started \in BOOLEAN
        BY DEF Init
    <2>4. media \in {"none", "pending", "playing", "paused", "failed"}
        BY DEF Init
    <2> QED
        BY <2>1, <2>2, <2>3, <2>4 DEF PageTyped
<1>5. Sessions
    BY <1>2 DEF Init, Sessions
<1> QED
    BY <1>1, <1>3, <1>4, <1>5 DEF Inv

\* No step breaks the invariant.
LEMMA StepIsSound == Inv /\ [Next]_vars => Inv'
<1> SUFFICES ASSUME Inv, [Next]_vars PROVE Inv'
    OBVIOUS
<1>1. StreamSound'
    BY StreamStep DEF Inv
<1> SUFFICES PageTyped' /\ Sessions' /\ ListenerSound'
    BY <1>1 DEF Inv
<1>2. CASE UNCHANGED vars
    <2>1. /\ UNCHANGED <<stream, access, session, count, snap, tried, list, buf, pos, joined, heard>>
          /\ UNCHANGED <<media, started, troubles>>
        BY <1>2 DEF vars, page, player
    <2>2. leases' = leases /\ arriving' = arriving /\ last' = last /\ floor' = floor
        BY <2>1 DEF access
    <2>3. PageTyped' /\ Sessions'
        BY <2>1, <2>2 DEF Inv, PageTyped, Sessions, Fresh
    <2>4. ListenerSound'
        BY <2>1, <2>2, <1>1, ListenerStays DEF Inv
    <2> QED
        BY <2>3, <2>4
<1>3. CASE Write \/ AppendClip
    BY <1>1, <1>3, StreamStepKeeps
<1>4. CASE \/ Prune \/ Join
           \/ \E i \in 1..MaxSession : LateRequest(i) \/ RemoveListener(i)
           \/ \E r \in arriving : LoseRequest(r)
    BY <1>1, <1>4, RequestStepKeeps
<1>5. CASE Playlist \/ Load \/ Play \/ Skip
    BY <1>1, <1>5, ListenerStepKeeps
<1>6. CASE Start \/ Stop \/ MarkPlaying \/ MarkBlocked \/ Stalled \/ Pause \/ Resume
    BY <1>1, <1>6, PageStepKeeps
<1>7. CASE \E native \in BOOLEAN :
               Refresh(native) \/ \E n \in 1..Len(cues) : TakeCaptions(n, native)
    BY <1>1, <1>7, CaptionStepKeeps
<1> QED
    BY <1>2, <1>3, <1>4, <1>5, <1>6, <1>7 DEF Next

\* What Served says of a pause that is over is what PauseIsKept asks.
LEMMA SoundPauseIsKept == StreamSound /\ ListenerSound => PauseIsKept
<1> SUFFICES ASSUME StreamSound, ListenerSound, NEW k \in 2..Len(cues),
                    joined >= 0, joined <= cues[k - 1].end, pos >= cues[k].start
             PROVE  Cardinality(heard \cap PauseBefore(k)) >= Cardinality(PauseBefore(k)) - cues[k].gap
    BY DEF PauseIsKept
<1>1. PICK a \in Nat, b \in Nat, g \in Nat : a = cues[k].start /\ b = cues[k - 1].end /\ g = cues[k].gap
    BY PauseIs
<1>2. a = b + Natural + g /\ Natural \in Nat /\ pos \in Nat /\ pos >= a
    BY <1>1, PauseIs DEF ListenerSound, ListenerTyped
<1>3. /\ Cardinality(PauseBefore(k)) = Natural + g
      /\ IsFiniteSet(PauseBefore(k))
    BY <1>1, PauseIsFinite
<1>4. heard \cap PauseBefore(k) \subseteq PauseBefore(k)
    OBVIOUS
<1>5. PICK c \in Nat : c = Cardinality(heard \cap PauseBefore(k))
    BY <1>3, <1>4, FS_Subset, FS_CardinalityType
<1>6. c + AtLeast(0, a - pos) >= Natural
    <2>1. Served(k)
        BY DEF ListenerSound, PauseServed
    <2>2. pos >= b
        BY <1>2
    <2> QED
        BY <2>1, <2>2, <1>1, <1>5 DEF Served
<1>7. c >= Natural
    BY <1>2, <1>6 DEF AtLeast
<1> QED
    BY <1>1, <1>2, <1>3, <1>5, <1>7

(* The inductive invariant holds of every state the stream, its leases and  *)
(* one page can come to.                                                    *)
THEOREM ListenerIsSound == Spec => []Inv
<1> QED
    BY InitIsSound, StepIsSound, PTL DEF Spec

(* Every variable keeps its type: the timeline, the leases and late requests, *)
(* the page, the media element.                                               *)
THEOREM StreamAndListenerTyped == Spec => [](StreamTyped /\ PageTyped /\ ListenerTyped)
<1>1. Inv => StreamTyped /\ PageTyped /\ ListenerTyped
    BY DEF Inv, StreamSound, ListenerSound
<1> QED
    BY <1>1, ListenerIsSound, PTL

(* A cue published before its audio is written says where the audio will be, *)
(* and how much carrier lies before it (append_pcm_committed and the writer). *)
THEOREM CuesMatch == Spec => []CuesMatchAudio
<1>1. Inv => CuesMatchAudio
    BY SoundCuesMatch DEF Inv
<1> QED
    BY <1>1, ListenerIsSound, PTL

(* Neither the server's playlist floor nor a seek of the page passes over a  *)
(* slot of speech.                                                           *)
THEOREM AllSpeechIsHeard == Spec => []SpeechIsHeard
<1>1. Inv => SpeechIsHeard
    BY DEF Inv, ListenerSound
<1> QED
    BY <1>1, ListenerIsSound, PTL

(* Between two sentences a listener hears at least the natural pause, however *)
(* the floor and the seek combine, whatever the sizes of segments and clips.  *)
THEOREM PausesAreKept == Spec => []PauseIsKept
<1>1. Inv => PauseIsKept
    BY SoundPauseIsKept DEF Inv
<1> QED
    BY <1>1, ListenerIsSound, PTL

==============================================================================
