------------------------- MODULE SpeechPublisherProofs -------------------------
(* What the chunked publisher guarantees for every number of sentences,     *)
(* revisions and chunks, and every limit of its queue, cache, budget and    *)
(* encoder: the two loops, the session and the listeners may interleave     *)
(* anyhow, and fail anywhere.                                               *)
EXTENDS SpeechPublisher, FiniteSetTheorems, SequenceTheorems, TLAPS

-------------------------------------------------------------------------------
(* The types, and what the two loops work on. *)

Synthesizing == [at : {"infer", "room"}, key : Keys, gen : Nat, index : Nat, bytes : Nat]
Audios       == [text : Nat, bytes : Nat]
Publishing   == [at : {"append", "wait"}, key : Keys, gen : Nat]

Kinds ==
    /\ TypeOK
    /\ gen = generation + resets /\ generation <= MaxGen
    /\ synth = None \/ synth \in Synthesizing
    /\ speaker = None \/ speaker \in Publishing
    /\ speaker # None => /\ listening /\ speaker.gen <= generation
                         /\ speaker.key.gen <= speaker.gen + resets
    /\ ~listening => pcm = << >>

(* The session: a released revision is the last one, and stands before the  *)
(* head; what is on offer has a translation.                                *)
Numbered ==
    /\ \A o \in Orders : released[o] # 0 => o < head /\ released[o] = rev[o]
    /\ \A o \in translated : rev[o] > 0
    /\ offered => head \in translated

-------------------------------------------------------------------------------
(* Where items are. *)

Spoken == IF speaker = None THEN {} ELSE {speaker.key}
Given  == Range(outbox) \cup Range(queue) \cup Spoken

(* Whether the publish loop is on an item of the current source generation. *)
Speaking(k) == speaker # None /\ speaker.gen = generation /\ speaker.key = k

Past == \A k \in Given \cup guards \cup completed \cup Range(line) : k.gen <= gen

(* Nothing is ahead of the head, no item is newer than its sentence, and an *)
(* item of the head's revision is the offer.                                *)
Below(k) ==
    k.gen = gen =>
        /\ k.order <= head /\ k.rev <= rev[k.order]
        /\ k.rev = rev[k.order] => k.order \in translated
        /\ k.order = head /\ k.rev = rev[k.order] => offered

UpToHead == \A k \in Given \cup guards : Below(k)

(* What drain() handed out is current and new to the publisher. *)
Fresh == \A k \in Range(outbox) : k.gen = gen /\ k.rev = rev[k.order] /\ k \notin guards

(* The order in which items were given: by capture, source order, revision. *)
Earlier(j, k) ==
    \/ j.gen < k.gen
    \/ j.gen = k.gen /\ j.order < k.order
    \/ SameSentence(j, k) /\ j.rev < k.rev

Ascending(q) == \A a, b \in DOMAIN q : a < b => Earlier(q[a], q[b])

InOrder ==
    /\ Ascending(queue) /\ Ascending(outbox)
    /\ \A j \in Range(queue), k \in Range(outbox) : Earlier(j, k)
    /\ \A j \in Spoken, k \in Range(queue) \cup Range(outbox) : Earlier(j, k)

(* The line of released states: the item that is being spoken comes first.  *)
Lined ==
    /\ Ascending(line)
    /\ \A k \in Range(line) : k \in Range(queue) \/ Speaking(k)
    /\ \A k \in DOMAIN states : Speaking(k) => k \in Range(line)

-------------------------------------------------------------------------------
(* Callbacks and guards. *)

(* Audio that can be shared has a guard: no item of the queue, nor the one  *)
(* that is being spoken, has a state without it.                            *)
Guarded ==
    /\ hooks \subseteq guards
    /\ \A k \in DOMAIN states : k \in Range(queue) \/ Speaking(k) => k \in guards

(* A guard without callbacks belongs to a sentence that was heard, and so   *)
(* does a completed item.                                                   *)
Heard ==
    \A k \in (guards \ hooks) \cup completed :
        k.gen = gen => released[k.order] = k.rev

(* The stream's chunks have the generations in order. *)
Voiced ==
    \A i \in DOMAIN pcm :
        /\ pcm[i].gen <= gen
        /\ pcm[i].gen = gen => released[pcm[i].order] = pcm[i].rev
        /\ i > 1 => pcm[i - 1].gen <= pcm[i].gen

-------------------------------------------------------------------------------
(* Prepared audio. *)

(* A preparation: its chunks are the ones after those published, the count  *)
(* is given back with the chunks, and only a failure ends it early.         *)
Sane(k, s, clean) ==
    /\ s \in State
    /\ s.next = s.published + Len(s.chunks)
    /\ \A i \in DOMAIN s.chunks : s.chunks[i].text = s.published + i - 1
    /\ s.next <= Count(k) /\ (~s.done => s.next < Count(k))
    /\ s.busy => ~s.done
    /\ clean /\ s.done => s.next = Count(k)

Stocked == \A k \in DOMAIN states : Sane(k, states[k], faults = 0)

(* The chunk the publish loop is about to append cannot be evicted. *)
Loaded ==
    speaker.at = "append" =>
        \A k \in DOMAIN states : Speaking(k) => states[k].chunks # << >>

-------------------------------------------------------------------------------
(* The stream so far. *)

Last == pcm[Len(pcm)]
Says(c, k) == c.gen = k.gen /\ c.order = k.order /\ c.rev = k.rev

(* Only the item that is being spoken has published chunks, and the last    *)
(* chunk of the stream is its.                                              *)
Continued ==
    \A k \in DOMAIN states : states[k].published > 0 =>
        /\ Speaking(k) /\ pcm # << >>
        /\ Says(Last, k) /\ states[k].published = Last.index + 1

(* What was heard stands before everything that may still be heard. *)
BehindStream ==
    pcm # << >> /\ Last.gen = gen =>
        /\ \A k \in Range(queue) \cup Range(outbox) : Earlier(Last, k)
        /\ \A k \in Spoken :
              \/ Earlier(Last, k)
              \/ /\ Says(Last, k)
                 /\ k \in DOMAIN states => states[k].published = Last.index + 1

Items == /\ Numbered /\ Past /\ UpToHead /\ Fresh /\ InOrder /\ Lined
         /\ Guarded /\ Heard

Sound == Kinds /\ Items /\ Voiced /\ Stocked /\ Loaded /\ Continued /\ BehindStream

(* A sentence that was begun in this capture is finished. *)
Unbroken ==
    faults = 0 /\ pcm # << >> /\ Last.gen = gen /\ Last.index + 1 < Count(Last) =>
        \E k \in DOMAIN states \cap latest : Speaking(k) /\ Says(Last, k)

Ahead == resets = 0 => consumed < head

-------------------------------------------------------------------------------
(* Sequences of keys. *)

LEMMA KeyFacts ==
    /\ N \in Nat \ {0} /\ Orders \subseteq Nat /\ \A o \in Nat : o \in Orders <=> o < N
    /\ \A k \in Keys : /\ k.gen \in Gens /\ k.gen \in Nat
                       /\ k.order \in Orders /\ k.order \in Nat
                       /\ k.rev \in Nat /\ k.rev > 0 /\ k.rev <= MaxRevision
    /\ \A j, k \in Keys : j.gen = k.gen /\ j.order = k.order /\ j.rev = k.rev => j = k
<1>1. N \in Nat \ {0} /\ MaxRevision \in Nat /\ MaxGen \in Nat /\ MaxResets \in Nat
  BY PublisherAssumption
<1> QED BY <1>1 DEF Keys, Orders, Gens

LEMMA EarlierIsStrict ==
    /\ \A k \in Keys : ~Earlier(k, k)
    /\ \A i, j, k \in Keys : Earlier(i, j) /\ Earlier(j, k) => Earlier(i, k)
BY KeyFacts DEF Earlier, SameSentence

LEMMA RangeFacts ==
    ASSUME NEW q \in Seq(Keys)
    PROVE  /\ Range(q) \subseteq Keys /\ Len(q) \in Nat /\ DOMAIN q = 1..Len(q)
           /\ q = << >> <=> Range(q) = {}
           /\ q # << >> =>
                /\ Head(q) = q[1] /\ 1 \in DOMAIN q /\ Len(q) \in DOMAIN q
                /\ Tail(q) \in Seq(Keys) /\ Range(q) = {Head(q)} \cup Range(Tail(q))
                /\ << q[Len(q)] >> \in Seq(Keys)
                /\ Range(<< q[Len(q)] >>) = {q[Len(q)]} /\ q[Len(q)] \in Range(q)
           /\ Range(<< >>) = {}
<1>1. Range(q) \subseteq Keys /\ Len(q) \in Nat /\ DOMAIN q = 1..Len(q)
  BY DEF Range
<1>2. q = << >> <=> Range(q) = {}
  <2>1. q = << >> <=> Len(q) = 0
    BY EmptySeq
  <2>2. CASE Len(q) = 0
    <3>1. DOMAIN q = {}
      BY <1>1, <2>2
    <3> QED BY <2>1, <2>2, <3>1 DEF Range
  <2>3. CASE Len(q) # 0
    <3>1. 1 \in DOMAIN q
      BY <1>1, <2>3
    <3> QED BY <2>1, <2>3, <3>1 DEF Range
  <2> QED BY <2>2, <2>3
<1>3. Range(<< >>) = {}
  BY DEF Range
<1>4. ASSUME q # << >>
      PROVE  /\ Head(q) = q[1] /\ 1 \in DOMAIN q /\ Len(q) \in DOMAIN q
             /\ Tail(q) \in Seq(Keys) /\ Range(q) = {Head(q)} \cup Range(Tail(q))
             /\ << q[Len(q)] >> \in Seq(Keys)
             /\ Range(<< q[Len(q)] >>) = {q[Len(q)]} /\ q[Len(q)] \in Range(q)
  <2>1. Len(q) > 0 /\ 1 \in DOMAIN q /\ Len(q) \in DOMAIN q
    BY <1>1, <1>4, EmptySeq
  <2>2. Head(q) = q[1]
    OBVIOUS
  <2>3. /\ Tail(q) \in Seq(Keys) /\ Len(Tail(q)) = Len(q) - 1
        /\ \A i \in 1..Len(Tail(q)) : Tail(q)[i] = q[i + 1]
    BY <1>4, HeadTailProperties
  <2>4. DOMAIN Tail(q) = 1..(Len(q) - 1)
    BY <2>3
  <2> DEFINE t == Tail(q)
  <2> HIDE DEF t
  <2>5. Range(q) = {q[1]} \cup Range(t)
    <3>1. ASSUME NEW i \in DOMAIN q, i # 1 PROVE q[i] \in Range(t)
      <4>1. i - 1 \in 1..(Len(q) - 1) /\ (i - 1) + 1 = i
        BY <1>1, <3>1
      <4>2. i - 1 \in DOMAIN t /\ t[i - 1] = q[i]
        BY <2>3, <2>4, <4>1 DEF t
      <4> QED BY <4>2 DEF Range
    <3>2. ASSUME NEW i \in DOMAIN t PROVE t[i] \in Range(q)
      <4>1. t[i] = q[i + 1] /\ i + 1 \in DOMAIN q
        BY <1>1, <2>1, <2>3, <2>4 DEF t
      <4> QED BY <4>1 DEF Range
    <3> QED BY <2>1, <3>1, <3>2 DEF Range
  <2>6. q[Len(q)] \in Range(q) /\ q[Len(q)] \in Keys
    BY <1>1, <2>1 DEF Range
  <2> DEFINE e == q[Len(q)]
  <2> HIDE DEF e
  <2>7. << e >> \in Seq(Keys) /\ Range(<< e >>) = {e}
    BY <2>6 DEF Range, e
  <2> QED BY <2>1, <2>2, <2>3, <2>5, <2>6, <2>7 DEF t, e
<1> QED BY <1>1, <1>2, <1>3, <1>4

LEMMA EmptyRange == Range(<< >>) = {}
BY DEF Range

LEMMA AppendFacts ==
    ASSUME NEW q \in Seq(Keys), NEW k \in Keys
    PROVE  /\ Append(q, k) \in Seq(Keys) /\ Range(Append(q, k)) = Range(q) \cup {k}
           /\ Ascending(q) /\ (\A j \in Range(q) : Earlier(j, k)) => Ascending(Append(q, k))
<1> DEFINE r == Append(q, k)
<1>1. /\ r \in Seq(Keys) /\ Len(r) = Len(q) + 1 /\ r[Len(q) + 1] = k
      /\ \A i \in 1..Len(q) : r[i] = q[i]
  BY AppendProperties
<1>2. Len(q) \in Nat /\ DOMAIN q = 1..Len(q) /\ DOMAIN r = 1..(Len(q) + 1)
  BY <1>1
<1> HIDE DEF r
<1>3. Range(r) = Range(q) \cup {k}
  BY <1>1, <1>2 DEF Range
<1>4. ASSUME Ascending(q), \A j \in Range(q) : Earlier(j, k) PROVE Ascending(r)
  <2> SUFFICES ASSUME NEW a \in DOMAIN r, NEW b \in DOMAIN r, a < b
               PROVE  Earlier(r[a], r[b])
    BY DEF Ascending
  <2>1. a \in DOMAIN q /\ r[a] = q[a] /\ q[a] \in Range(q)
    BY <1>1, <1>2 DEF Range
  <2>2. CASE b = Len(q) + 1
    BY <1>1, <1>4, <2>1, <2>2
  <2>3. CASE b # Len(q) + 1
    <3>1. b \in DOMAIN q /\ r[b] = q[b]
      BY <1>1, <1>2, <2>3
    <3> QED BY <1>4, <2>1, <3>1 DEF Ascending
  <2> QED BY <2>2, <2>3
<1> QED BY <1>1, <1>3, <1>4 DEF r

LEMMA PrependFacts ==
    ASSUME NEW q \in Seq(Keys), NEW k \in Keys
    PROVE  /\ << k >> \o q \in Seq(Keys) /\ Range(<< k >> \o q) = Range(q) \cup {k}
           /\ Ascending(q) /\ (\A j \in Range(q) : Earlier(k, j)) => Ascending(<< k >> \o q)
<1> DEFINE h == << k >>
           r == h \o q
<1>1. h \in Seq(Keys) /\ Len(h) = 1 /\ h[1] = k
  <2>1. h \in Seq(Keys)
    OBVIOUS
  <2>2. Len(h) = 1 /\ h[1] = k
    OBVIOUS
  <2> QED BY <2>1, <2>2
<1> HIDE DEF h
<1>2. /\ r \in Seq(Keys) /\ Len(r) = 1 + Len(q)
      /\ \A i \in 1..(1 + Len(q)) : r[i] = IF i <= 1 THEN h[i] ELSE q[i - 1]
  <2>1. /\ h \o q \in Seq(Keys) /\ Len(h \o q) = Len(h) + Len(q)
        /\ \A i \in 1..(Len(h) + Len(q)) :
              (h \o q)[i] = IF i <= Len(h) THEN h[i] ELSE q[i - Len(h)]
    BY <1>1, ConcatProperties
  <2> HIDE DEF r
  <2>2. /\ r \in Seq(Keys) /\ Len(r) = Len(h) + Len(q)
        /\ \A i \in 1..(Len(h) + Len(q)) :
              r[i] = IF i <= Len(h) THEN h[i] ELSE q[i - Len(h)]
    BY <2>1 DEF r
  <2> QED BY <1>1, <2>2
<1>3. Len(q) \in Nat /\ DOMAIN q = 1..Len(q) /\ DOMAIN r = 1..(1 + Len(q))
  BY <1>2
<1> HIDE DEF r
<1>4. r[1] = k /\ 1 \in DOMAIN r
  BY <1>1, <1>2, <1>3
<1>5. \A i \in DOMAIN r : i # 1 => i - 1 \in DOMAIN q /\ r[i] = q[i - 1]
  BY <1>2, <1>3
<1>6. \A i \in DOMAIN q : i + 1 \in DOMAIN r /\ r[i + 1] = q[i]
  BY <1>2, <1>3
<1>7. Range(r) = Range(q) \cup {k}
  BY <1>4, <1>5, <1>6 DEF Range
<1>8. ASSUME Ascending(q), \A j \in Range(q) : Earlier(k, j) PROVE Ascending(r)
  <2> SUFFICES ASSUME NEW a \in DOMAIN r, NEW b \in DOMAIN r, a < b
               PROVE  Earlier(r[a], r[b])
    BY DEF Ascending
  <2>1. b # 1 /\ b - 1 \in DOMAIN q /\ r[b] = q[b - 1]
    BY <1>3, <1>5
  <2>2. CASE a = 1
    BY <1>4, <1>8, <2>1, <2>2 DEF Range
  <2>3. CASE a # 1
    <3>1. a - 1 \in DOMAIN q /\ r[a] = q[a - 1] /\ a - 1 < b - 1
      BY <1>3, <1>5, <2>3
    <3> QED BY <1>8, <2>1, <3>1 DEF Ascending
  <2> QED BY <2>2, <2>3
<1> QED BY <1>2, <1>7, <1>8 DEF r, h

LEMMA TailFacts ==
    ASSUME NEW q \in Seq(Keys), q # << >>, Ascending(q)
    PROVE  /\ Ascending(Tail(q))
           /\ \A k \in Range(Tail(q)) : Earlier(Head(q), k)
           /\ Head(q) \notin Range(Tail(q))
           /\ \A k \in Range(q) : k = q[Len(q)] \/ Earlier(k, q[Len(q)])
<1> DEFINE t == Tail(q)
<1>1. /\ t \in Seq(Keys) /\ Len(t) = Len(q) - 1
      /\ \A i \in 1..Len(t) : t[i] = q[i + 1]
  BY HeadTailProperties
<1>2. Head(q) = q[1] /\ Len(q) \in Nat /\ DOMAIN q = 1..Len(q) /\ Len(q) > 0
  BY EmptySeq
<1>3. DOMAIN t = 1..(Len(q) - 1)
  BY <1>1
<1> HIDE DEF t
<1>4. \A i \in DOMAIN t : i + 1 \in DOMAIN q /\ t[i] = q[i + 1] /\ 1 < i + 1 /\ 1 \in DOMAIN q
  BY <1>1, <1>2, <1>3
<1>5. Ascending(t)
  <2>1. ASSUME NEW a \in DOMAIN t, NEW b \in DOMAIN t, a < b
        PROVE  Earlier(t[a], t[b])
    <3>1. a + 1 < b + 1
      BY <1>2, <1>3, <2>1
    <3> QED BY <1>4, <3>1 DEF Ascending
  <2> QED BY <2>1 DEF Ascending
<1>6. \A k \in Range(t) : Earlier(q[1], k)
  BY <1>4 DEF Ascending, Range
<1>7. q[1] \notin Range(t)
  <2>1. q[1] \in Keys
    BY <1>2
  <2> QED BY <1>6, <2>1, EarlierIsStrict
<1>8. \A k \in Range(q) : k = q[Len(q)] \/ Earlier(k, q[Len(q)])
  BY <1>2 DEF Ascending, Range
<1> QED BY <1>2, <1>5, <1>6, <1>7, <1>8 DEF t

LEMMA WithoutFacts ==
    ASSUME NEW q \in Seq(Keys), NEW K
    PROVE  /\ Without(q, K) \in Seq(Keys)
           /\ Range(Without(q, K)) = Range(q) \ K
           /\ Ascending(q) => Ascending(Without(q, K))
<1> DEFINE stays == {i \in DOMAIN q : q[i] \notin K}
           UpTo(i) == {j \in stays : j <= i}
           Place(i) == Cardinality(UpTo(i))
           c == Cardinality(stays)
           At(n) == CHOOSE i \in stays : Place(i) = n
           w == [n \in 1..c |-> q[At(n)]]
<1>1. Without(q, K) = w
  BY DEF Without
<1>2. Len(q) \in Nat /\ DOMAIN q = 1..Len(q) /\ \A i \in DOMAIN q : i \in Nat /\ q[i] \in Keys
  OBVIOUS
<1>3. stays \subseteq DOMAIN q /\ stays \subseteq Nat
  BY <1>2
<1>4. IsFiniteSet(stays) /\ c \in Nat
  <2>1. IsFiniteSet(1..Len(q))
    BY <1>2, FS_Interval
  <2>2. stays \in SUBSET (1..Len(q))
    BY <1>2
  <2> HIDE DEF stays
  <2>3. IsFiniteSet(stays)
    BY <2>1, <2>2, FS_Subset
  <2> QED BY <2>3, FS_CardinalityType
<1>5. \A i \in stays : q[i] \notin K /\ \A j \in DOMAIN q : q[j] \notin K => j \in stays
  OBVIOUS
<1> HIDE DEF stays
<1>6. ASSUME NEW i \in stays
      PROVE  IsFiniteSet(UpTo(i)) /\ Place(i) \in 1..c /\ Place(i) \in Nat
  <2>1. UpTo(i) \in SUBSET stays /\ i \in UpTo(i)
    BY <1>3
  <2> HIDE DEF UpTo
  <2>2. IsFiniteSet(UpTo(i)) /\ Cardinality(UpTo(i)) <= c
    BY <1>4, <2>1, FS_Subset
  <2>3. Cardinality(UpTo(i)) \in Nat /\ Cardinality(UpTo(i)) # 0
    BY <2>1, <2>2, FS_CardinalityType, FS_EmptySet
  <2> QED BY <1>4, <2>2, <2>3
<1>7. ASSUME NEW i \in stays, NEW j \in stays, i < j
      PROVE  Place(i) < Place(j)
  <2>1. UpTo(i) \in SUBSET UpTo(j) /\ j \in UpTo(j) /\ j \notin UpTo(i)
    BY <1>3, <1>7
  <2>2. IsFiniteSet(UpTo(j)) /\ Place(i) \in Nat /\ Place(j) \in Nat
    BY <1>6
  <2> HIDE DEF UpTo
  <2>3. Cardinality(UpTo(i)) <= Cardinality(UpTo(j))
        /\ (Cardinality(UpTo(j)) = Cardinality(UpTo(i)) => UpTo(j) = UpTo(i))
    BY <2>1, <2>2, FS_Subset
  <2>4. UpTo(j) # UpTo(i)
    BY <2>1
  <2> QED BY <2>2, <2>3, <2>4
<1> HIDE DEF Place
<1>8. \A n \in 1..c : \E i \in stays : Place(i) = n
  <2> DEFINE f == [i \in stays |-> Place(i)]
  <2>1. f \in [stays -> 1..c]
    BY <1>6
  <2>2. ASSUME NEW i \in stays, NEW j \in stays, f[i] = f[j] PROVE i = j
    <3>1. i \in Nat /\ j \in Nat /\ f[i] = Place(i) /\ f[j] = Place(j)
      BY <1>3
    <3>2. Place(i) \in Nat /\ Place(j) \in Nat
      BY <1>6
    <3> QED BY <1>7, <2>2, <3>1, <3>2
  <2> HIDE DEF f
  <2>3. f \in Injection(stays, 1..c)
    <3>1. \A i, j \in stays : f[i] = f[j] => i = j
      BY <2>2
    <3> QED BY <2>1, <3>1 DEF Injection, IsInjective
  <2>4. IsFiniteSet(1..c) /\ Cardinality(1..c) = c
    BY <1>4, FS_Interval
  <2>5. f \in Surjection(stays, 1..c)
    BY <2>3, <2>4, FS_Injection
  <2>6. \A n \in 1..c : \E i \in stays : f[i] = n
    BY <2>5 DEF Surjection
  <2> QED BY <2>6 DEF f
<1>9. \A n \in 1..c : At(n) \in stays /\ Place(At(n)) = n
  BY <1>8
<1>10. ASSUME NEW i \in stays PROVE \E n \in 1..c : At(n) = i
  <2>1. Place(i) \in 1..c
    BY <1>6
  <2>2. At(Place(i)) \in stays /\ Place(At(Place(i))) = Place(i)
    BY <1>9, <2>1
  <2> DEFINE j == At(Place(i))
  <2> HIDE DEF j
  <2>3. j \in stays /\ Place(j) = Place(i) /\ i \in Nat /\ j \in Nat
    BY <1>3, <2>2 DEF j
  <2>4. Place(i) \in Nat
    BY <1>4, <2>1
  <2>5. j = i
    BY <1>7, <2>3, <2>4
  <2> QED BY <2>1, <2>5 DEF j
<1> HIDE DEF At
<1>11. w \in Seq(Keys) /\ DOMAIN w = 1..c
  <2>1. \A n \in 1..c : q[At(n)] \in Keys
    BY <1>2, <1>3, <1>9
  <2> QED BY <1>4, <2>1
<1>12. Range(w) = Range(q) \ K
  <2>1. ASSUME NEW n \in 1..c PROVE w[n] \in Range(q) \ K
    BY <1>3, <1>5, <1>9, <2>1 DEF Range
  <2>2. ASSUME NEW i \in DOMAIN q, q[i] \notin K PROVE \E n \in 1..c : w[n] = q[i]
    <3>1. i \in stays
      BY <1>5, <2>2, <1>4 DEF stays
    <3>2. PICK n \in 1..c : At(n) = i
      BY <1>10, <3>1
    <3> QED BY <3>2
  <2> HIDE DEF w
  <2>3. Range(w) = {w[n] : n \in 1..c} /\ Range(q) = {q[i] : i \in DOMAIN q}
    BY <1>11 DEF Range
  <2> QED BY <2>1, <2>2, <2>3
<1>13. ASSUME Ascending(q) PROVE Ascending(w)
  <2> SUFFICES ASSUME NEW a \in 1..c, NEW b \in 1..c, a < b
               PROVE  Earlier(w[a], w[b])
    BY <1>11 DEF Ascending
  <2>1. /\ At(a) \in stays /\ At(b) \in stays /\ Place(At(a)) = a /\ Place(At(b)) = b
        /\ At(a) \in Nat /\ At(b) \in Nat /\ a \in Nat /\ b \in Nat
    BY <1>3, <1>4, <1>9
  <2>2. At(a) < At(b)
    BY <1>7, <2>1
  <2>3. Earlier(q[At(a)], q[At(b)])
    BY <1>3, <1>13, <2>1, <2>2 DEF Ascending
  <2> QED BY <2>3
<1> QED BY <1>1, <1>11, <1>12, <1>13

-------------------------------------------------------------------------------
(* What the types say. *)

LEMMA Basics ==
    ASSUME Kinds
    PROVE  /\ gen \in Nat /\ generation \in Nat /\ resets \in Nat /\ gen = generation + resets
           /\ head \in Nat /\ head <= N
           /\ rev \in [Orders -> Nat] /\ released \in [Orders -> Nat]
           /\ \A o \in Orders : rev[o] <= MaxRevision
           /\ translated \subseteq Orders /\ offered \in BOOLEAN
           /\ queue \in Seq(Keys) /\ outbox \in Seq(Keys) /\ line \in Seq(Keys)
           /\ Range(queue) \subseteq Keys /\ Range(outbox) \subseteq Keys
           /\ Range(line) \subseteq Keys /\ Spoken \subseteq Keys
           /\ latest \subseteq Keys /\ hooks \subseteq Keys /\ guards \subseteq Keys
           /\ completed \subseteq Keys /\ DOMAIN states \subseteq Keys
           /\ pcm \in Seq(Chunk)
<1>1. TypeOK /\ MaxGen \in Nat /\ MaxResets \in Nat /\ MaxRevision \in Nat /\ N \in Nat
  BY PublisherAssumption DEF Kinds
<1>2. gen \in Nat /\ generation \in Nat /\ resets \in Nat /\ gen = generation + resets
      /\ head \in Nat /\ head <= N
  BY <1>1 DEF TypeOK, Gens, Kinds
<1>3. rev \in [Orders -> Nat] /\ released \in [Orders -> Nat]
      /\ \A o \in Orders : rev[o] <= MaxRevision
  BY SMTT(30), <1>1 DEF TypeOK
<1>4. queue \in Seq(Keys) /\ outbox \in Seq(Keys) /\ line \in Seq(Keys)
  BY <1>1 DEF TypeOK
<1>5. Range(queue) \subseteq Keys /\ Range(outbox) \subseteq Keys /\ Range(line) \subseteq Keys
  BY <1>4, RangeFacts
<1>6. Spoken \subseteq Keys
  BY DEF Kinds, Spoken, Publishing
<1> QED BY <1>1, <1>2, <1>3, <1>4, <1>5, <1>6 DEF TypeOK

LEMMA KeyOf ==
    ASSUME Kinds
    PROVE  /\ \A o \in Orders : /\ Key(o).gen = gen /\ Key(o).order = o /\ Key(o).rev = rev[o]
                                /\ rev[o] > 0 => Key(o) \in Keys
           /\ \A k \in Keys : k.gen = gen /\ k.rev = rev[k.order] => k = Key(k.order)
<1>1. gen \in Gens /\ \A o \in Orders : rev[o] \in Nat /\ rev[o] <= MaxRevision
  BY Basics DEF Kinds, TypeOK
<1>2. MaxRevision \in Nat
  BY PublisherAssumption
<1>3. \A o \in Orders : rev[o] > 0 => Key(o) \in Keys
  BY <1>1, <1>2 DEF Key, Keys
<1>4. \A o \in Orders : Key(o).gen = gen /\ Key(o).order = o /\ Key(o).rev = rev[o]
  BY DEF Key
<1>5. ASSUME NEW k \in Keys, k.gen = gen, k.rev = rev[k.order]
      PROVE  k = Key(k.order)
  <2>1. k = [gen |-> k.gen, order |-> k.order, rev |-> k.rev]
    BY DEF Keys
  <2> QED BY <1>5, <2>1 DEF Key
<1> QED BY <1>3, <1>4, <1>5

LEMMA SpeakerFacts ==
    ASSUME Kinds
    PROVE  /\ speaker = None => Spoken = {} /\ \A k : ~Speaking(k)
           /\ speaker # None => /\ Spoken = {speaker.key} /\ speaker.key \in Keys
                                /\ speaker.gen \in Nat /\ speaker.gen <= generation
                                /\ speaker.key.gen <= speaker.gen + resets
                                /\ listening
                                /\ speaker.at \in {"append", "wait"}
           /\ speaker.at \in {"append", "wait"} => speaker # None
           /\ \A k : Speaking(k) => k \in Spoken
           /\ \A k \in Spoken : k.gen = gen => Speaking(k)
<1>1. speaker # None => /\ Spoken = {speaker.key} /\ speaker.key \in Keys
                        /\ speaker.gen \in Nat /\ speaker.gen <= generation
                        /\ speaker.key.gen <= speaker.gen + resets
                        /\ listening
                        /\ speaker.at \in {"append", "wait"}
  BY DEF Kinds, Spoken, Publishing
<1>2. speaker = None => Spoken = {} /\ \A k : ~Speaking(k)
  BY DEF Spoken, Speaking
<1>3. speaker.at \in {"append", "wait"} => speaker # None
  BY DEF None
<1>4. ASSUME NEW k \in Spoken, k.gen = gen PROVE Speaking(k)
  <2>1. speaker # None /\ k = speaker.key
    BY <1>1, <1>2, <1>4
  <2>2. speaker.gen = generation
    BY <1>1, <1>4, <2>1, Basics
  <2> QED BY <2>1, <2>2 DEF Speaking
<1>5. \A k : Speaking(k) => k \in Spoken
  BY DEF Speaking, Spoken
<1> QED BY <1>1, <1>2, <1>3, <1>4, <1>5

(* The state of the item that is being spoken stands first in the line.     *)
LEMMA SpeakerFirst ==
    ASSUME Kinds, InOrder, Lined, NEW k \in DOMAIN states, Speaking(k)
    PROVE  line # << >> /\ Head(line) = k
<1>1. line \in Seq(Keys) /\ Ascending(line) /\ k \in Range(line) /\ k \in Spoken
      /\ k \in Keys /\ Range(line) \subseteq Keys
  BY Basics, SpeakerFacts DEF Lined
<1>2. line # << >> /\ Range(line) = {Head(line)} \cup Range(Tail(line))
  BY <1>1, RangeFacts
<1>3. \A j \in Range(Tail(line)) : Earlier(Head(line), j)
  BY <1>1, <1>2, TailFacts
<1>4. Head(line) = k \/ Head(line) \in Range(queue)
  BY <1>2 DEF Lined, Speaking
<1>5. ASSUME Head(line) # k PROVE FALSE
  <2>1. Earlier(k, Head(line)) /\ Earlier(Head(line), k)
    BY <1>1, <1>2, <1>3, <1>4, <1>5 DEF InOrder
  <2> QED BY <1>1, <1>2, <2>1, EarlierIsStrict
<1> QED BY <1>2, <1>5

-------------------------------------------------------------------------------
(* One preparation. *)

LEMMA CountFacts == \A k \in Keys : Count(k) \in Nat /\ Count(k) > 0
BY KeyFacts, PublisherAssumption DEF Count, Orders

LEMMA SaneStates ==
    ASSUME NEW k \in Keys, NEW c \in BOOLEAN
    PROVE  /\ Sane(k, NewState, c) /\ Sane(k, [NewState EXCEPT !.changed = TRUE], c)
           /\ \A s : Sane(k, s, c) =>
                /\ Sane(k, s, FALSE)
                /\ \A b \in BOOLEAN : Sane(k, [s EXCEPT !.changed = b], c)
                /\ \A b \in BOOLEAN : Sane(k, [s EXCEPT !.changed = b, !.busy = FALSE], c)
                /\ ~s.done => Sane(k, [s EXCEPT !.busy = TRUE], c)
                /\ s.published = 0 =>
                     Sane(k, [s EXCEPT !.chunks = << >>, !.next = 0, !.done = FALSE], c)
                /\ Sane(k, [s EXCEPT !.done = TRUE, !.changed = TRUE, !.busy = FALSE], FALSE)
<1>1. Count(k) \in Nat /\ Count(k) > 0
  BY CountFacts
<1>2. << >> \in Seq(Audios) /\ Len(<< >>) = 0 /\ DOMAIN << >> = {}
  BY EmptySeq
<1>3. NewState \in State /\ [NewState EXCEPT !.changed = TRUE] \in State
  BY <1>2 DEF NewState, State, Audios
<1>4. Sane(k, NewState, c) /\ Sane(k, [NewState EXCEPT !.changed = TRUE], c)
  BY <1>1, <1>2, <1>3 DEF Sane, NewState
<1> SUFFICES ASSUME NEW s, Sane(k, s, c)
             PROVE  /\ Sane(k, s, FALSE)
                    /\ \A b \in BOOLEAN : Sane(k, [s EXCEPT !.changed = b], c)
                    /\ \A b \in BOOLEAN :
                          Sane(k, [s EXCEPT !.changed = b, !.busy = FALSE], c)
                    /\ ~s.done => Sane(k, [s EXCEPT !.busy = TRUE], c)
                    /\ s.published = 0 =>
                         Sane(k, [s EXCEPT !.chunks = << >>, !.next = 0, !.done = FALSE], c)
                    /\ Sane(k, [s EXCEPT !.done = TRUE, !.changed = TRUE,
                                         !.busy = FALSE], FALSE)
  BY <1>4
<1>5. s \in State
  BY DEF Sane
<1>6. Sane(k, s, FALSE)
  BY DEF Sane
<1>7. ASSUME NEW b \in BOOLEAN
      PROVE  /\ Sane(k, [s EXCEPT !.changed = b], c)
             /\ Sane(k, [s EXCEPT !.changed = b, !.busy = FALSE], c)
  BY <1>5 DEF Sane, State
<1>8. ~s.done => Sane(k, [s EXCEPT !.busy = TRUE], c)
  BY <1>5 DEF Sane, State
<1>9. ASSUME s.published = 0
      PROVE  Sane(k, [s EXCEPT !.chunks = << >>, !.next = 0, !.done = FALSE], c)
  <2> DEFINE t == [s EXCEPT !.chunks = << >>, !.next = 0, !.done = FALSE]
  <2>1. t \in State /\ t.chunks = << >> /\ t.next = 0 /\ ~t.done /\ t.published = 0
    BY <1>2, <1>5, <1>9 DEF State, Audios
  <2> HIDE DEF t
  <2>2. Sane(k, t, c)
    BY <1>1, <1>2, <2>1 DEF Sane
  <2> QED BY <2>2 DEF t
<1>10. Sane(k, [s EXCEPT !.done = TRUE, !.changed = TRUE, !.busy = FALSE], FALSE)
  BY <1>5 DEF Sane, State
<1> QED BY <1>6, <1>7, <1>8, <1>9, <1>10

LEMMA TailCounts ==
    ASSUME NEW q \in Seq(Audios), q # << >>, NEW p \in Nat,
           \A i \in DOMAIN q : q[i].text = p + i - 1
    PROVE  /\ Tail(q) \in Seq(Audios) /\ Len(q) \in Nat \ {0} /\ Len(Tail(q)) = Len(q) - 1
           /\ \A i \in DOMAIN Tail(q) : Tail(q)[i].text = p + 1 + i - 1
           /\ q[1].text = p
<1> DEFINE r == Tail(q)
<1>1. /\ r \in Seq(Audios) /\ Len(r) = Len(q) - 1 /\ Len(q) \in Nat \ {0}
      /\ \A i \in 1..Len(r) : r[i] = q[i + 1]
  BY HeadTailProperties, EmptySeq
<1>2. DOMAIN q = 1..Len(q) /\ DOMAIN r = 1..Len(r)
  BY <1>1
<1> HIDE DEF r
<1>3. \A i \in DOMAIN r : r[i].text = p + 1 + i - 1
  <2> SUFFICES ASSUME NEW i \in DOMAIN r PROVE r[i].text = p + 1 + i - 1
    OBVIOUS
  <2>1. i \in 1..Len(r) /\ i \in Nat
    BY <1>1, <1>2
  <2>2. i + 1 \in DOMAIN q
    BY SMTT(30), <1>1, <1>2, <2>1
  <2>3. r[i] = q[i + 1] /\ q[i + 1].text = p + (i + 1) - 1
    BY <1>1, <2>1, <2>2
  <2>4. p + (i + 1) - 1 = p + 1 + i - 1
    BY <2>1
  <2> QED BY <2>3, <2>4
<1>4. q[1].text = p
  <2>1. 1 \in DOMAIN q
    BY <1>1, <1>2
  <2> QED BY <2>1
<1> QED BY <1>1, <1>3, <1>4 DEF r

LEMMA AppendCounts ==
    ASSUME NEW q \in Seq(Audios), NEW p \in Nat, NEW n, n = p + Len(q),
           NEW a \in Audios, a.text = n,
           \A i \in DOMAIN q : q[i].text = p + i - 1
    PROVE  /\ n \in Nat /\ Append(q, a) \in Seq(Audios) /\ Append(q, a) # << >>
           /\ Len(q) \in Nat /\ Len(Append(q, a)) = Len(q) + 1
           /\ \A i \in DOMAIN Append(q, a) : Append(q, a)[i].text = p + i - 1
<1> DEFINE r == Append(q, a)
<1>1. Len(q) \in Nat /\ n \in Nat /\ DOMAIN q = 1..Len(q)
  OBVIOUS
<1>2. /\ r \in Seq(Audios) /\ Len(r) = Len(q) + 1 /\ r[Len(q) + 1] = a /\ r # << >>
      /\ \A i \in 1..Len(q) : r[i] = q[i]
  BY <1>1, AppendProperties
<1>3. DOMAIN r = 1..(Len(q) + 1)
  BY <1>2
<1> HIDE DEF r
<1>4. ASSUME NEW i \in DOMAIN r PROVE r[i].text = p + i - 1
  <2>1. CASE i = Len(q) + 1
    BY <1>1, <1>2, <2>1
  <2>2. CASE i # Len(q) + 1
    <3>1. i \in DOMAIN q /\ r[i] = q[i]
      BY <1>1, <1>2, <1>3, <2>2
    <3> QED BY <3>1
  <2> QED BY <2>1, <2>2
<1> QED BY <1>1, <1>2, <1>4 DEF r

(* A chunk is synthesized. *)
LEMMA SaneGrown ==
    ASSUME NEW k \in Keys, NEW c \in BOOLEAN, NEW s, Sane(k, s, c), s.busy,
           NEW n, n = s.next, NEW a \in Audios, a.text = n
    PROVE  /\ Sane(k, [s EXCEPT !.chunks = Append(s.chunks, a), !.next = n + 1,
                                !.done = n + 1 = Count(k), !.changed = TRUE,
                                !.busy = FALSE], c)
           /\ Append(s.chunks, a) # << >>
<1> DEFINE r == Append(s.chunks, a)
           last == n + 1 = Count(k)
           t == [s EXCEPT !.chunks = r, !.next = n + 1, !.done = last,
                          !.changed = TRUE, !.busy = FALSE]
<1>1. s \in State
  BY DEF Sane
<1>2. s.chunks \in Seq(Audios) /\ s.published \in Nat
  BY <1>1 DEF State, Audios
<1>3. /\ n = s.published + Len(s.chunks) /\ n < Count(k) /\ Count(k) \in Nat
      /\ \A i \in DOMAIN s.chunks : s.chunks[i].text = s.published + i - 1
  BY CountFacts DEF Sane
<1>4. /\ n \in Nat /\ r \in Seq(Audios) /\ r # << >>
      /\ Len(s.chunks) \in Nat /\ Len(r) = Len(s.chunks) + 1
      /\ \A i \in DOMAIN r : r[i].text = s.published + i - 1
  <2> DEFINE q == s.chunks
             p == s.published
  <2>1. /\ q \in Seq(Audios) /\ p \in Nat /\ n = p + Len(q)
        /\ \A i \in DOMAIN q : q[i].text = p + i - 1
    BY <1>2, <1>3
  <2> HIDE DEF q, p
  <2>2. /\ n \in Nat /\ Append(q, a) \in Seq(Audios) /\ Append(q, a) # << >>
        /\ Len(q) \in Nat /\ Len(Append(q, a)) = Len(q) + 1
        /\ \A i \in DOMAIN Append(q, a) : Append(q, a)[i].text = p + i - 1
    BY ONLY SMTT(30), <2>1, a \in Audios, a.text = n, AppendCounts
  <2> QED BY <2>2 DEF q, p
<1> HIDE DEF r
<1>5. last \in BOOLEAN /\ n + 1 \in Nat
  BY <1>4
<1>6. (last => n + 1 = Count(k)) /\ (~last => n + 1 < Count(k)) /\ n + 1 <= Count(k)
  BY <1>3, <1>4
<1> HIDE DEF last
<1>7. /\ t.chunks = r /\ t.next = n + 1 /\ t.published = s.published
      /\ t.done = last /\ ~t.busy
  BY <1>1 DEF State
<1>8. t \in State
  BY <1>1, <1>4, <1>5 DEF State, Audios
<1>9. n + 1 = s.published + Len(r)
  BY SMTT(30), <1>2, <1>3, <1>4
<1> HIDE DEF t
<1>10. Sane(k, t, c)
  BY <1>4, <1>6, <1>7, <1>8, <1>9 DEF Sane
<1> QED BY <1>4, <1>10 DEF t, r, last

(* A chunk is shared. *)
LEMMA SaneShared ==
    ASSUME NEW k \in Keys, NEW c \in BOOLEAN, NEW s, Sane(k, s, c), s.chunks # << >>
    PROVE  /\ Sane(k, [s EXCEPT !.published = @ + 1, !.chunks = Tail(@)], c)
           /\ s.chunks[1].text = s.published /\ s.published \in Nat
           /\ s.published < Count(k)
<1> DEFINE r == Tail(s.chunks)
           t == [s EXCEPT !.published = @ + 1, !.chunks = r]
<1>1. s \in State
  BY DEF Sane
<1>2. s.chunks \in Seq(Audios) /\ s.published \in Nat /\ s.published + 1 \in Nat
  BY <1>1 DEF State, Audios
<1>3. /\ s.next = s.published + Len(s.chunks) /\ s.next <= Count(k) /\ Count(k) \in Nat
      /\ \A i \in DOMAIN s.chunks : s.chunks[i].text = s.published + i - 1
  BY CountFacts DEF Sane
<1>4. /\ r \in Seq(Audios) /\ Len(s.chunks) \in Nat \ {0} /\ Len(r) = Len(s.chunks) - 1
      /\ \A i \in DOMAIN r : r[i].text = s.published + 1 + i - 1
      /\ s.chunks[1].text = s.published
  BY <1>2, <1>3, TailCounts
<1> HIDE DEF r
<1>5. /\ t.chunks = r /\ t.next = s.next /\ t.published = s.published + 1
      /\ t.done = s.done /\ t.busy = s.busy
  BY <1>1 DEF State
<1>6. t \in State
  BY <1>1, <1>2, <1>4 DEF State, Audios
<1>7. s.next = s.published + 1 + Len(r) /\ s.published < Count(k)
  <2> DEFINE l == Len(s.chunks)
             p == s.published
             m == Len(r)
  <2>1. /\ l \in Nat \ {0} /\ p \in Nat /\ m = l - 1
        /\ s.next = p + l /\ s.next <= Count(k) /\ Count(k) \in Nat
    BY <1>2, <1>3, <1>4
  <2> HIDE DEF l, p, m
  <2>2. s.next = p + 1 + m /\ p < Count(k)
    BY <2>1
  <2> QED BY <2>2 DEF p, m
<1> HIDE DEF t
<1>8. Sane(k, t, c)
  <2>1. (~s.done => s.next < Count(k)) /\ (s.busy => ~s.done)
        /\ (c /\ s.done => s.next = Count(k))
    BY DEF Sane
  <2> QED BY <1>3, <1>4, <1>5, <1>6, <1>7, <2>1 DEF Sane
<1> QED BY <1>2, <1>4, <1>7, <1>8 DEF t, r

-------------------------------------------------------------------------------
(* What the steps do to states and line. *)

(* States go, and their keys leave the line. *)
Sheds(D) ==
    /\ DOMAIN states' = DOMAIN states \ D
    /\ line' \in Seq(Keys) /\ Range(line') = Range(line) \ D
    /\ Ascending(line) => Ascending(line')

(* The audio that stays is in order, and what was shared of it is too. *)
StaysSane ==
    \A k \in DOMAIN states' :
        /\ k \in DOMAIN states /\ Sane(k, states'[k], faults' = 0)
        /\ states'[k].published = states[k].published

LEMMA ShedNothing ==
    ASSUME Kinds, DOMAIN states' = DOMAIN states, line' = line
    PROVE  Sheds({})
BY Basics DEF Sheds

LEMMA DropSheds ==
    ASSUME Kinds, NEW K, DropStates(K)
    PROVE  Sheds(K) /\ \A k \in DOMAIN states' : states'[k] = states[k]
<1>1. line \in Seq(Keys)
  BY Basics
<1>2. line' \in Seq(Keys) /\ Range(line') = Range(line) \ K
      /\ (Ascending(line) => Ascending(line'))
  BY <1>1, WithoutFacts DEF DropStates
<1>3. /\ DOMAIN states' = DOMAIN states \ K
      /\ \A k \in DOMAIN states' : states'[k] = states[k]
  BY DEF DropStates, Restrict
<1> QED BY <1>2, <1>3 DEF Sheds

LEMMA Evicted ==
    ASSUME Sound, NEW r, NEW E \in Evictions(r)
    PROVE  /\ DOMAIN Evict(E) = DOMAIN states
           /\ \A k \in DOMAIN states :
                 /\ Sane(k, Evict(E)[k], faults = 0)
                 /\ Evict(E)[k].published = states[k].published
                 /\ Evict(E)[k].done => states[k].done
                 /\ Speaking(k) => Evict(E)[k] = states[k]
<1>1. /\ DOMAIN Evict(E) = DOMAIN states
      /\ \A k \in DOMAIN states :
            Evict(E)[k] = IF k \in E
                          THEN [states[k] EXCEPT !.chunks = << >>, !.next = 0, !.done = FALSE]
                          ELSE states[k]
  BY DEF Evict
<1>2. \A k \in E : k \in DOMAIN states /\ k # Head(line) /\ states[k].published = 0
  BY DEF Evictions, Evictable
<1>3. Kinds /\ InOrder /\ Lined /\ DOMAIN states \subseteq Keys
      /\ \A k \in DOMAIN states : Sane(k, states[k], faults = 0) /\ states[k] \in State
  BY Basics DEF Sound, Items, Stocked, Sane
<1> SUFFICES ASSUME NEW k \in DOMAIN states
             PROVE  /\ Sane(k, Evict(E)[k], faults = 0)
                    /\ Evict(E)[k].published = states[k].published
                    /\ Evict(E)[k].done => states[k].done
                    /\ Speaking(k) => Evict(E)[k] = states[k]
  BY <1>1
<1>4. CASE k \notin E
  BY <1>1, <1>3, <1>4
<1>5. CASE k \in E
  <2> DEFINE s == states[k]
             t == [s EXCEPT !.chunks = << >>, !.next = 0, !.done = FALSE]
  <2>1. Evict(E)[k] = t
    BY <1>1, <1>5
  <2>2. t.published = s.published /\ ~t.done
    BY <1>3 DEF State
  <2>3. Sane(k, t, faults = 0)
    <3>1. Sane(k, s, faults = 0) /\ s.published = 0 /\ k \in Keys
      BY <1>2, <1>3, <1>5
    <3> HIDE DEF s
    <3> QED BY <3>1, SaneStates
  <2>4. ~Speaking(k)
    BY <1>2, <1>3, <1>5, SpeakerFirst
  <2> HIDE DEF t
  <2> QED BY <2>1, <2>2, <2>3, <2>4
<1> QED BY <1>4, <1>5

(* The steps of the synthesis loop, for the rest of the publisher. *)
Synthesized ==
    /\ SynthesisFrame /\ resets' = resets /\ latest' = latest
    /\ \E D \in SUBSET (DOMAIN states \ latest) : Sheds(D)
    /\ StaysSane
    /\ \A k \in DOMAIN states' :
          Speaking(k) /\ states[k].chunks # << >> => states'[k].chunks # << >>
    /\ synth' = None \/ synth' \in Synthesizing
    /\ work' \in BOOLEAN /\ faults' \in 0..MaxFaults /\ (faults' = 0 => faults = 0)

LEMMA StateFacts ==
    ASSUME Sound
    PROVE  /\ DOMAIN states \subseteq Keys
           /\ \A k \in DOMAIN states : Sane(k, states[k], faults = 0) /\ states[k] \in State
           /\ faults \in 0..MaxFaults /\ work \in BOOLEAN
           /\ faults \in Nat /\ MaxFaults \in Nat
           /\ synth = None \/ synth \in Synthesizing
           /\ Kinds
<1>1. Kinds /\ Stocked
  BY DEF Sound
<1>2. DOMAIN states \subseteq Keys
  BY <1>1, Basics
<1>3. \A k \in DOMAIN states : Sane(k, states[k], faults = 0) /\ states[k] \in State
  BY <1>1 DEF Stocked, Sane
<1>4. faults \in 0..MaxFaults /\ work \in BOOLEAN /\ (synth = None \/ synth \in Synthesizing)
  BY <1>1 DEF Kinds, TypeOK
<1>5. faults \in Nat /\ MaxFaults \in Nat
  BY <1>4, PublisherAssumption
<1> QED BY <1>1, <1>2, <1>3, <1>4, <1>5

LEMMA PickEffect ==
    ASSUME Sound, SynthesisPick
    PROVE  Synthesized
<1>1. SynthesisFrame /\ faults' = faults /\ resets' = resets
  BY DEF SynthesisPick, counters
<1>2. Kinds /\ faults' \in 0..MaxFaults /\ (faults' = 0 => faults = 0)
  BY <1>1, StateFacts
<1>3. CASE Unfinished = {}
  <2>1. work' = FALSE /\ states' = states /\ line' = line /\ latest' = latest /\ synth' = synth
    BY <1>3 DEF SynthesisPick
  <2>2. Sheds({})
    BY <1>2, <2>1, ShedNothing
  <2> QED BY <1>1, <1>2, <2>1, <2>2, StateFacts DEF Synthesized, StaysSane
<1>4. CASE Unfinished # {}
  <2>1. PICK E \in Evictions(0) :
           IF ~Fits(Evict(E), 0)
           THEN /\ states' = Evict(E) /\ work' = FALSE
                /\ UNCHANGED << line, latest, synth >>
           ELSE \E k \in Candidates :
                   IF Valid(k, generation)
                   THEN /\ states' = [Evict(E) EXCEPT ![k].busy = TRUE]
                        /\ synth' = [at |-> "infer", key |-> k,
                                     gen |-> generation,
                                     index |-> Evict(E)[k].next,
                                     bytes |-> 0]
                        /\ UNCHANGED << line, latest, work >>
                   ELSE /\ DropStates({k}) /\ latest' = latest \ {k}
                        /\ UNCHANGED << work, synth >>
    BY <1>4 DEF SynthesisPick
  <2> DEFINE st == Evict(E)
  <2>2. /\ DOMAIN st = DOMAIN states
        /\ \A k \in DOMAIN states :
              /\ Sane(k, st[k], faults = 0)
              /\ st[k].published = states[k].published
              /\ st[k].done => states[k].done
              /\ Speaking(k) => st[k] = states[k]
    BY Evicted
  <2> HIDE DEF st
  <2>3. CASE ~Fits(st, 0)
    <3>1. states' = st /\ work' = FALSE /\ line' = line /\ latest' = latest /\ synth' = synth
      BY <2>1, <2>3 DEF st
    <3>2. Sheds({})
      BY <1>2, <2>2, <3>1, ShedNothing
    <3>3. StaysSane
      BY <1>1, <2>2, <3>1 DEF StaysSane
    <3>4. \A k \in DOMAIN states' :
             Speaking(k) /\ states[k].chunks # << >> => states'[k].chunks # << >>
      BY <2>2, <3>1
    <3> QED BY <1>1, <1>2, <3>1, <3>2, <3>3, <3>4, StateFacts DEF Synthesized
  <2>4. CASE Fits(st, 0)
    <3>1. PICK k \in Candidates :
             IF Valid(k, generation)
             THEN /\ states' = [st EXCEPT ![k].busy = TRUE]
                  /\ synth' = [at |-> "infer", key |-> k, gen |-> generation,
                               index |-> st[k].next,
                               bytes |-> 0]
                  /\ UNCHANGED << line, latest, work >>
             ELSE /\ DropStates({k}) /\ latest' = latest \ {k}
                  /\ UNCHANGED << work, synth >>
      BY <2>1, <2>4 DEF st
    <3>2. k \in DOMAIN states /\ ~states[k].done
      <4>1. k \in Unfinished
        BY DEF Candidates
      <4> QED BY <4>1 DEF Unfinished
    <3>3. CASE Valid(k, generation)
      <4>1. /\ states' = [st EXCEPT ![k] = [st[k] EXCEPT !.busy = TRUE]]
            /\ synth' = [at |-> "infer", key |-> k, gen |-> generation, index |-> st[k].next,
                       bytes |-> 0]
            /\ line' = line /\ latest' = latest /\ work' = work
        BY <3>1, <3>3
      <4>2. Sane(k, st[k], faults = 0) /\ st[k] \in State /\ ~st[k].done /\ k \in Keys
        BY <2>2, <3>2, StateFacts DEF Sane
      <4> DEFINE t == [st[k] EXCEPT !.busy = TRUE]
      <4>3. Sane(k, t, faults = 0)
        BY <4>2, SaneStates
      <4>4. t.published = st[k].published /\ t.chunks = st[k].chunks
        BY <4>2 DEF State
      <4> HIDE DEF t
      <4>5. /\ DOMAIN states' = DOMAIN states
            /\ \A j \in DOMAIN states : states'[j] = IF j = k THEN t ELSE st[j]
        BY <2>2, <3>2, <4>1 DEF t
      <4>6. Sheds({})
        BY <1>2, <4>1, <4>5, ShedNothing
      <4>7. StaysSane
        BY <1>1, <2>2, <4>3, <4>4, <4>5 DEF StaysSane
      <4>8. \A j \in DOMAIN states' :
               Speaking(j) /\ states[j].chunks # << >> => states'[j].chunks # << >>
        BY <2>2, <4>4, <4>5
      <4>9. synth' \in Synthesizing
        <5>1. st[k].next \in Nat /\ generation \in Nat
          BY <1>2, <4>2, Basics DEF State
        <5> QED BY <4>1, <4>2, <5>1 DEF Synthesizing
      <4> QED BY <1>1, <1>2, <4>1, <4>6, <4>7, <4>8, <4>9, StateFacts DEF Synthesized
    <3>4. CASE ~Valid(k, generation)
      <4>1. DropStates({k}) /\ latest' = latest \ {k} /\ work' = work /\ synth' = synth
        BY <3>1, <3>4
      <4>2. k \notin latest
        BY <3>2, <3>4 DEF Valid
      <4>3. Sheds({k}) /\ \A j \in DOMAIN states' : states'[j] = states[j]
        BY <1>2, <4>1, DropSheds
      <4>4. StaysSane
        BY <1>1, <4>3, StateFacts DEF StaysSane, Sheds
      <4>5. latest' = latest /\ {k} \in SUBSET (DOMAIN states \ latest)
        BY <3>2, <4>1, <4>2
      <4> QED BY <1>1, <1>2, <4>1, <4>3, <4>4, <4>5, StateFacts DEF Synthesized
    <3> QED BY <3>3, <3>4
  <2> QED BY <2>3, <2>4
<1> QED BY <1>3, <1>4

LEMMA IdleSane ==
    ASSUME Sound, faults' = faults, states' = Idle
    PROVE  /\ StaysSane /\ DOMAIN states' = DOMAIN states
           /\ \A k \in DOMAIN states' : states'[k].chunks = states[k].chunks
<1>1. DOMAIN states' = DOMAIN states
  BY DEF Idle
<1>2. ASSUME NEW k \in DOMAIN states
      PROVE  /\ Sane(k, states'[k], faults' = 0)
             /\ states'[k].published = states[k].published
             /\ states'[k].chunks = states[k].chunks
  <2> DEFINE s == states[k]
             t == [s EXCEPT !.changed = TRUE, !.busy = FALSE]
  <2>1. Sane(k, s, faults = 0) /\ s \in State /\ k \in Keys
    BY StateFacts
  <2>2. states'[k] = IF s.busy THEN t ELSE s
    BY DEF Idle
  <2>3. t.published = s.published /\ t.chunks = s.chunks
    BY <2>1 DEF State
  <2> HIDE DEF s
  <2>4. Sane(k, t, faults = 0)
    BY <2>1, SaneStates
  <2> HIDE DEF t
  <2> QED BY <2>1, <2>2, <2>3, <2>4 DEF s
<1> QED BY <1>1, <1>2 DEF StaysSane

LEMMA SizeFacts ==
    ASSUME synth \in Synthesizing, NEW b \in Sizes
    PROVE  b \in Nat
<1>1. CASE synth.at = "infer"
  <2>1. synth.key.order \in 0..(N - 1)
    BY DEF Synthesizing, Keys, Orders
  <2>2. b \in 1..MaxBytes
    BY <1>1, <2>1, PublisherAssumption DEF Sizes
  <2> QED BY <2>2, PublisherAssumption
<1>2. CASE synth.at # "infer"
  BY <1>2 DEF Sizes, Synthesizing
<1> QED BY <1>1, <1>2

(* Synthesis returned b bytes, and the states of E gave theirs back. *)
Stores(E, b) ==
    LET k == synth.key
        s == Evict(E)[k]
    IN  IF ~Fits(Evict(E), b)
        THEN /\ states' = Evict(E) /\ work' = FALSE
             /\ synth' = [synth EXCEPT !.at = "room", !.bytes = b]
        ELSE /\ states' =
                   [Evict(E) EXCEPT ![k] =
                       IF s.busy /\ s.next = synth.index
                       THEN [s EXCEPT !.chunks = Append(s.chunks, Audio(synth.index, b)),
                                      !.next = synth.index + 1,
                                      !.done = synth.index + 1 = Count(k),
                                      !.changed = TRUE, !.busy = FALSE]
                       ELSE [s EXCEPT !.changed = s.changed \/ s.busy, !.busy = FALSE]]
             /\ synth' = None /\ UNCHANGED work

LEMMA DoneEffect ==
    ASSUME Sound, SynthesisDone
    PROVE  Synthesized
<1>1. /\ SynthesisFrame /\ faults' = faults /\ resets' = resets
      /\ line' = line /\ latest' = latest
  BY DEF SynthesisDone, counters
<1>2. /\ Kinds /\ faults' \in 0..MaxFaults /\ (faults' = 0 => faults = 0)
      /\ synth \in Synthesizing
  <2>1. synth.at = "infer" \/ synth.at = "room"
    BY DEF SynthesisDone
  <2>2. synth # None
    BY <2>1 DEF None
  <2> QED BY <1>1, <2>2, StateFacts
<1>3. CASE ~Valid(synth.key, synth.gen)
  <2>1. synth' = None /\ states' = Idle /\ work' = work
    BY <1>3 DEF SynthesisDone
  <2>2. /\ StaysSane /\ DOMAIN states' = DOMAIN states
        /\ \A k \in DOMAIN states' : states'[k].chunks = states[k].chunks
    BY <1>1, <2>1, IdleSane
  <2>3. Sheds({})
    BY <1>1, <1>2, <2>2, ShedNothing
  <2> QED BY <1>1, <1>2, <2>1, <2>2, <2>3, StateFacts DEF Synthesized
<1>4. CASE Valid(synth.key, synth.gen)
  <2> DEFINE k == synth.key
  <2>1. PICK b \in Sizes : \E E \in Evictions(b) : Stores(E, b)
    BY <1>4 DEF SynthesisDone, Stores
  <2>2. PICK E \in Evictions(b) : Stores(E, b)
    BY <2>1
  <2>3. b \in Nat
    BY <1>2, SizeFacts
  <2> DEFINE st == Evict(E)
  <2>4. /\ DOMAIN st = DOMAIN states
        /\ \A j \in DOMAIN states :
              /\ Sane(j, st[j], faults = 0)
              /\ st[j].published = states[j].published
              /\ Speaking(j) => st[j] = states[j]
    BY Evicted
  <2> HIDE DEF st
  <2>5. CASE ~Fits(st, b)
    <3>1. states' = st /\ work' = FALSE /\ synth' = [synth EXCEPT !.at = "room", !.bytes = b]
      BY <2>2, <2>5 DEF st, Stores
    <3>2. Sheds({})
      BY <1>1, <1>2, <2>4, <3>1, ShedNothing
    <3>3. StaysSane
      BY <1>1, <2>4, <3>1 DEF StaysSane
    <3>4. \A j \in DOMAIN states' :
             Speaking(j) /\ states[j].chunks # << >> => states'[j].chunks # << >>
      BY <2>4, <3>1
    <3>5. synth' \in Synthesizing
      BY <1>2, <2>3, <3>1 DEF Synthesizing
    <3> QED BY <1>1, <1>2, <3>1, <3>2, <3>3, <3>4, <3>5, StateFacts DEF Synthesized
  <2>6. CASE Fits(st, b)
    <3> DEFINE s == st[k]
               n == synth.index
               a == Audio(n, b)
               grown == [s EXCEPT !.chunks = Append(s.chunks, a), !.next = n + 1,
                                  !.done = n + 1 = Count(k), !.changed = TRUE,
                                  !.busy = FALSE]
               kept == [s EXCEPT !.changed = s.changed \/ s.busy, !.busy = FALSE]
               t == IF s.busy /\ s.next = n THEN grown ELSE kept
    <3>1. synth' = None /\ work' = work
      BY <2>2, <2>6 DEF st, Stores
    <3>2. k \in DOMAIN states /\ k \in Keys /\ Sane(k, s, faults = 0) /\ s \in State
      BY <1>4, <2>4, StateFacts DEF Valid, Sane
    <3>3. states' = [st EXCEPT ![k] = t]
      BY <2>2, <2>6 DEF st, Stores
    <3>4. /\ Sane(k, t, faults = 0) /\ t.published = s.published
          /\ s.chunks # << >> => t.chunks # << >>
      <4>1. CASE s.busy /\ s.next = n
        <5>1. t = grown
          BY <4>1
        <5>2. grown.published = s.published /\ grown.chunks = Append(s.chunks, a)
          BY <3>2 DEF State
        <5>3. s.busy /\ n = s.next
          BY <4>1
        <5> DEFINE c == faults = 0
        <5>4. c \in BOOLEAN
          OBVIOUS
        <5>a. a \in Audios /\ a.text = n
          BY <1>2, <2>3 DEF Audio, Audios, Synthesizing
        <5> HIDE DEF s, n, k, c, a
        <5>5. Sane(k, s, c)
          BY <3>2 DEF c
        <5>6. Sane(k, grown, c) /\ Append(s.chunks, a) # << >>
          <6>1. k \in Keys /\ s.busy /\ n = s.next
            BY <3>2, <5>3
          <6> QED BY ONLY <6>1, <5>4, <5>5, <5>a, SaneGrown
        <5> HIDE DEF t, grown
        <5> QED BY <5>1, <5>2, <5>6 DEF c
      <4>2. CASE ~(s.busy /\ s.next = n)
        <5>1. t = kept
          BY <4>2
        <5> DEFINE z == s.changed \/ s.busy
        <5>2. kept.published = s.published /\ kept.chunks = s.chunks /\ z \in BOOLEAN
          BY <3>2 DEF State
        <5>3. kept = [s EXCEPT !.changed = z, !.busy = FALSE]
          OBVIOUS
        <5> HIDE DEF s, n, z
        <5>4. Sane(k, kept, faults = 0)
          BY <3>2, <5>2, <5>3, SaneStates
        <5> HIDE DEF t, kept
        <5> QED BY <5>1, <5>2, <5>4
      <4> QED BY <4>1, <4>2
    <3> HIDE DEF t
    <3>5. /\ DOMAIN states' = DOMAIN states
          /\ \A j \in DOMAIN states : states'[j] = IF j = k THEN t ELSE st[j]
      BY <2>4, <3>2, <3>3
    <3>6. Sheds({})
      BY <1>1, <1>2, <3>5, ShedNothing
    <3>7. StaysSane
      BY <1>1, <2>4, <3>4, <3>5 DEF StaysSane
    <3>8. \A j \in DOMAIN states' :
             Speaking(j) /\ states[j].chunks # << >> => states'[j].chunks # << >>
      BY <2>4, <3>4, <3>5
    <3> QED BY <1>1, <1>2, <3>1, <3>6, <3>7, <3>8, StateFacts DEF Synthesized
  <2> QED BY <2>5, <2>6
<1> QED BY <1>3, <1>4

LEMMA FailsEffect ==
    ASSUME Sound, SynthesisFails
    PROVE  Synthesized
<1>1. /\ SynthesisFrame /\ faults' = faults + 1 /\ faults < MaxFaults /\ resets' = resets
      /\ line' = line /\ latest' = latest /\ work' = work /\ synth' = None
  BY DEF SynthesisFails
<1>2. Kinds /\ faults' \in 0..MaxFaults /\ faults' # 0
  BY <1>1, StateFacts
<1>3. DOMAIN states' = DOMAIN states
  BY DEF SynthesisFails
<1>4. ASSUME NEW k \in DOMAIN states
      PROVE  /\ Sane(k, states'[k], FALSE)
             /\ states'[k].published = states[k].published
             /\ states'[k].chunks = states[k].chunks
  <2> DEFINE s == states[k]
             t == [s EXCEPT !.done = TRUE, !.changed = TRUE, !.busy = FALSE]
  <2>1. Sane(k, s, faults = 0) /\ s \in State /\ k \in Keys
    BY StateFacts
  <2>2. states'[k] = IF s.busy THEN t ELSE s
    BY DEF SynthesisFails
  <2>3. t.published = s.published /\ t.chunks = s.chunks
    BY <2>1 DEF State
  <2> HIDE DEF s
  <2>4. Sane(k, t, FALSE) /\ Sane(k, s, FALSE)
    BY <2>1, SaneStates
  <2> HIDE DEF t
  <2> QED BY <2>1, <2>2, <2>3, <2>4 DEF s
<1>5. Sheds({})
  BY <1>1, <1>2, <1>3, ShedNothing
<1>6. StaysSane
  BY <1>2, <1>3, <1>4 DEF StaysSane
<1> QED BY <1>1, <1>2, <1>3, <1>4, <1>5, <1>6, StateFacts DEF Synthesized

LEMMA SynthesisEffect ==
    ASSUME Sound, Synthesis
    PROVE  Synthesized
BY PickEffect, DoneEffect, FailsEffect DEF Synthesis

-------------------------------------------------------------------------------
(* The types again, in parts. *)

SessionTyped ==
    /\ gen \in Gens /\ rev \in [Orders -> 0..MaxRevision]
    /\ translated \in SUBSET Orders /\ approved \in SUBSET Orders
    /\ head \in 0..N /\ offered \in BOOLEAN
    /\ released \in [Orders -> 0..MaxRevision] /\ outbox \in Seq(Keys)

StoresTyped ==
    /\ queue \in Seq(Keys) /\ line \in Seq(Keys) /\ DOMAIN states \in SUBSET Keys
    /\ known \in [Gens -> [Orders -> 0..MaxRevision]]
    /\ latest \in SUBSET Keys /\ hooks \in SUBSET Keys
    /\ guards \in SUBSET Keys /\ completed \in SUBSET Keys
    /\ consumed \in -1..(N - 1)

LoopsTyped ==
    /\ epochs \in 0..MaxEpochs /\ listening \in BOOLEAN /\ generation \in Nat
    /\ encoder \in 0..EncoderSlots /\ work \in BOOLEAN /\ pcm \in Seq(Chunk)
    /\ faults \in 0..MaxFaults /\ resets \in 0..MaxResets
    /\ gen = generation + resets /\ generation <= MaxGen
    /\ synth = None \/ synth \in Synthesizing
    /\ speaker = None \/ speaker \in Publishing
    /\ speaker # None => /\ listening /\ speaker.gen <= generation
                         /\ speaker.key.gen <= speaker.gen + resets
    /\ ~listening => pcm = << >>

LEMMA KindsParts ==
    ASSUME Kinds
    PROVE  SessionTyped /\ StoresTyped /\ LoopsTyped
BY DEF Kinds, TypeOK, SessionTyped, StoresTyped, LoopsTyped

LEMMA PartsKinds ==
    ASSUME SessionTyped, StoresTyped, LoopsTyped, Stocked
    PROVE  Kinds
<1>1. \A k \in DOMAIN states : states[k] \in State
  BY DEF Stocked, Sane
<1>2. synth = None \/ (synth.at \in {"infer", "room"} /\ synth.key \in Keys)
  BY DEF LoopsTyped, Synthesizing
<1>3. speaker = None \/ (speaker.at \in {"append", "wait"} /\ speaker.key \in Keys)
  BY DEF LoopsTyped, Publishing
<1>4. TypeOK
  BY <1>1, <1>2, <1>3 DEF TypeOK, SessionTyped, StoresTyped, LoopsTyped
<1> QED BY <1>4 DEF Kinds, LoopsTyped

LEMMA PartsKindsNext ==
    ASSUME SessionTyped', StoresTyped', LoopsTyped', Stocked'
    PROVE  Kinds'
<1>1. \A k \in DOMAIN states' : states'[k] \in State
  BY DEF Stocked, Sane
<1>2. synth' = None \/ (synth'.at \in {"infer", "room"} /\ synth'.key \in Keys)
  BY DEF LoopsTyped, Synthesizing
<1>3. speaker' = None \/ (speaker'.at \in {"append", "wait"} /\ speaker'.key \in Keys)
  BY DEF LoopsTyped, Publishing
<1>4. TypeOK'
  BY <1>1, <1>2, <1>3 DEF TypeOK, SessionTyped, StoresTyped, LoopsTyped
<1> QED BY <1>4 DEF Kinds, LoopsTyped

LEMMA FaultlessIsBoolean == (faults = 0) \in BOOLEAN /\ (faults' = 0) \in BOOLEAN
OBVIOUS

-------------------------------------------------------------------------------
(* Steps that leave the queue and the publish loop alone. *)

(* The keys of D lose their states, those of P get new ones, and those of G *)
(* lose their callbacks.                                                    *)
Steady(D, P, G) ==
    /\ queue' = queue /\ speaker' = speaker /\ pcm' = pcm /\ completed' = completed
    /\ generation' = generation
    /\ gen' \in Nat /\ gen' >= gen
    /\ gen' = gen => \A o \in Orders : released[o] # 0 => released'[o] = released[o]
    /\ DOMAIN states' = (DOMAIN states \ D) \cup P
    /\ P \subseteq Keys /\ P \cap (Range(queue) \cup Spoken) = {}
    /\ line' \in Seq(Keys) /\ Range(line') = Range(line) \ D
    /\ Ascending(line) => Ascending(line')
    /\ \A k \in DOMAIN states' :
          /\ Sane(k, states'[k], faults' = 0)
          /\ states'[k].published = IF k \in P THEN 0 ELSE states[k].published
          /\ Speaking(k) /\ states[k].chunks # << >> => states'[k].chunks # << >>
    /\ hooks' = hooks \ G /\ guards' = guards \ G /\ G \cap DOMAIN states' = {}
    /\ outbox' \in Seq(Keys) /\ Ascending(outbox')
    /\ \A j \in Range(queue) \cup Spoken, k \in Range(outbox') : Earlier(j, k)
    /\ \A k \in Range(outbox') : pcm # << >> /\ Last.gen = gen' => Earlier(Last, k)

LEMMA LastFacts ==
    ASSUME Kinds, pcm # << >>
    PROVE  Len(pcm) \in DOMAIN pcm /\ Len(pcm) \in Nat /\ Last \in Chunk /\ Last = pcm[Len(pcm)]
<1>1. pcm \in Seq(Chunk)
  BY Basics
<1>2. Len(pcm) \in Nat /\ DOMAIN pcm = 1..Len(pcm) /\ Len(pcm) # 0
  BY <1>1, EmptySeq
<1> QED BY <1>1, <1>2 DEF Last

LEMMA ChunkFacts ==
    \A c \in Chunk : /\ c.gen \in Nat /\ c.order \in Orders /\ c.order \in Nat
                     /\ c.rev \in Nat /\ c.rev > 0 /\ c.index \in Nat
<1>1. Gens \subseteq Nat /\ 1..MaxRevision \subseteq Nat /\ \A r \in 1..MaxRevision : r > 0
  BY PublisherAssumption DEF Gens
<1> QED BY <1>1, KeyFacts DEF Chunk

LEMMA SteadyKeeps ==
    ASSUME Sound, NEW D, NEW P, NEW G, Steady(D, P, G)
    PROVE  /\ InOrder' /\ Lined' /\ Guarded' /\ Heard' /\ Voiced' /\ Stocked'
           /\ Loaded' /\ Continued' /\ BehindStream'
<1> USE DEF Sound, Items
<1>1. Spoken' = Spoken /\ Last' = Last /\ \A k : Speaking(k)' <=> Speaking(k)
  BY DEF Steady, Spoken, Last, Speaking
<1>2. Range(queue)' = Range(queue) /\ Range(line)' = Range(line) \ D
  BY DEF Steady
<1>3. \A k : Speaking(k) => k \in Spoken
  BY SpeakerFacts
<1>4. ASSUME NEW k \in DOMAIN states', k \in Range(queue) \/ Speaking(k)
      PROVE  /\ k \notin P /\ k \in DOMAIN states /\ k \notin D
             /\ states'[k].published = states[k].published
  BY <1>3, <1>4 DEF Steady
<1>5. InOrder'
  <2>1. Ascending(queue)' /\ Ascending(outbox)'
    BY DEF Steady, InOrder, Ascending
  <2> QED BY <1>1, <1>2, <2>1 DEF Steady, InOrder
<1>6. Lined'
  <2>1. Ascending(line)'
    BY DEF Steady, Lined, Ascending
  <2>2. \A k \in Range(line)' : k \in Range(queue)' \/ Speaking(k)'
    BY <1>1, <1>2 DEF Lined
  <2>3. \A k \in DOMAIN states' : Speaking(k)' => k \in Range(line)'
    BY <1>1, <1>2, <1>4 DEF Lined
  <2> QED BY <2>1, <2>2, <2>3 DEF Lined
<1>7. Guarded'
  <2>1. hooks' \subseteq guards'
    BY DEF Steady, Guarded
  <2>2. ASSUME NEW k \in DOMAIN states', k \in Range(queue) \/ Speaking(k)
        PROVE  k \in guards'
    BY <1>4, <2>2 DEF Steady, Guarded
  <2> QED BY <1>1, <1>2, <2>1, <2>2 DEF Guarded
<1>8. gen \in Nat /\ gen' \in Nat /\ gen <= gen' /\ guards \subseteq Keys /\ completed \subseteq Keys
  BY Basics DEF Steady
<1>9. Heard'
  <2> SUFFICES ASSUME NEW k \in (guards' \ hooks') \cup completed', k.gen = gen'
               PROVE  released'[k.order] = k.rev
    BY DEF Heard
  <2>1. k \in (guards \ hooks) \cup completed /\ k \in Keys
    BY <1>8 DEF Steady
  <2>2. k.gen <= gen /\ k.gen \in Nat
    BY <1>8, <2>1, KeyFacts DEF Past
  <2>3. gen' = gen
    BY <1>8, <2>2
  <2>4. released[k.order] = k.rev /\ k.rev # 0 /\ k.order \in Orders
    BY <2>1, <2>3, KeyFacts DEF Heard
  <2> QED BY <2>3, <2>4 DEF Steady
<1>10. Voiced'
  <2>1. pcm' = pcm
    BY DEF Steady
  <2> SUFFICES ASSUME NEW i \in DOMAIN pcm
               PROVE  /\ pcm[i].gen <= gen'
                      /\ pcm[i].gen = gen' => released'[pcm[i].order] = pcm[i].rev
                      /\ i > 1 => pcm[i - 1].gen <= pcm[i].gen
    BY <2>1 DEF Voiced
  <2>2. pcm[i] \in Chunk
    BY Basics
  <2>3. pcm[i].gen <= gen /\ pcm[i].gen \in Nat /\ (i > 1 => pcm[i - 1].gen <= pcm[i].gen)
    BY <2>2, ChunkFacts DEF Voiced
  <2>4. pcm[i].gen <= gen'
    BY <1>8, <2>3
  <2>5. ASSUME pcm[i].gen = gen' PROVE released'[pcm[i].order] = pcm[i].rev
    <3>1. gen' = gen
      BY <1>8, <2>3, <2>5
    <3>2. released[pcm[i].order] = pcm[i].rev /\ pcm[i].rev # 0 /\ pcm[i].order \in Orders
      BY <2>2, <2>5, <3>1, ChunkFacts DEF Voiced
    <3> QED BY <3>1, <3>2 DEF Steady
  <2> QED BY <2>3, <2>4, <2>5
<1>11. Stocked'
  BY DEF Steady, Stocked
<1>12. Loaded'
  <2>1. speaker' = speaker
    BY DEF Steady
  <2> SUFFICES ASSUME speaker.at = "append", NEW k \in DOMAIN states', Speaking(k)
               PROVE  states'[k].chunks # << >>
    BY <1>1, <2>1 DEF Loaded
  <2>2. states[k].chunks # << >>
    BY <1>4 DEF Loaded
  <2> QED BY <2>2 DEF Steady
<1>13. Continued'
  <2> SUFFICES ASSUME NEW k \in DOMAIN states', states'[k].published > 0
               PROVE  /\ Speaking(k) /\ pcm # << >>
                      /\ Says(Last, k) /\ states'[k].published = Last.index + 1
    BY <1>1 DEF Continued, Steady, Says
  <2>1. k \notin P
    BY DEF Steady
  <2>2. k \in DOMAIN states /\ states'[k].published = states[k].published
    BY <2>1 DEF Steady
  <2> QED BY <2>2 DEF Continued
<1>14. BehindStream'
  <2> SUFFICES ASSUME pcm # << >>, Last.gen = gen'
               PROVE  /\ \A k \in Range(queue) \cup Range(outbox') : Earlier(Last, k)
                      /\ \A k \in Spoken :
                            \/ Earlier(Last, k)
                            \/ /\ Says(Last, k)
                               /\ k \in DOMAIN states' => states'[k].published = Last.index + 1
    BY <1>1, <1>2 DEF BehindStream, Steady, Earlier, SameSentence, Says
  <2>1. gen' = gen
    <3>1. Len(pcm) \in DOMAIN pcm /\ Last \in Chunk /\ Last = pcm[Len(pcm)]
      BY LastFacts
    <3>2. Last.gen <= gen /\ Last.gen \in Nat
      BY <3>1, ChunkFacts DEF Voiced
    <3> QED BY <1>8, <3>2
  <2>2. \A k \in Range(queue) \cup Range(outbox') : Earlier(Last, k)
    BY <2>1 DEF Steady, BehindStream
  <2>3. ASSUME NEW k \in Spoken, ~Earlier(Last, k)
        PROVE  /\ Says(Last, k)
               /\ k \in DOMAIN states' => states'[k].published = Last.index + 1
    <3>1. k \notin P
      BY DEF Steady
    <3>2. k \in DOMAIN states' => k \in DOMAIN states
                                  /\ states'[k].published = states[k].published
      BY <3>1 DEF Steady
    <3> QED BY <2>1, <2>3, <3>2 DEF BehindStream
  <2> QED BY <2>2, <2>3
<1> QED BY <1>5, <1>6, <1>7, <1>9, <1>10, <1>11, <1>12, <1>13, <1>14

-------------------------------------------------------------------------------
(* What remains to be shown of a steady step. *)

LEMMA SteadySound ==
    ASSUME Sound, NEW D, NEW P, NEW G, Steady(D, P, G),
           SessionTyped', StoresTyped', LoopsTyped',
           Numbered', UpToHead', Fresh'
    PROVE  Sound'
<1>1. /\ InOrder' /\ Lined' /\ Guarded' /\ Heard' /\ Voiced' /\ Stocked'
      /\ Loaded' /\ Continued' /\ BehindStream'
  BY SteadyKeeps
<1>2. Kinds'
  BY <1>1, PartsKindsNext
<1>3. Past'
  <2>1. gen \in Nat /\ gen' \in Nat /\ gen <= gen' /\ Kinds
    BY Basics DEF Steady, Sound
  <2>2. \A k \in Range(queue) \cup Spoken \cup guards \cup completed \cup Range(line) :
           k.gen <= gen /\ k.gen \in Nat
    BY <2>1, Basics, KeyFacts DEF Sound, Items, Past, Given
  <2>3. \A k \in Range(outbox)' : k.gen <= gen'
    BY <2>1 DEF Fresh
  <2>4. /\ Range(queue)' = Range(queue) /\ Spoken' = Spoken
        /\ Range(line)' \subseteq Range(line)
        /\ guards' \subseteq guards /\ completed' = completed
    BY DEF Steady, Spoken
  <2>5. \A k \in Range(queue) \cup Spoken \cup guards \cup completed \cup Range(line) :
           k.gen <= gen'
    BY <2>1, <2>2
  <2> QED BY <2>3, <2>4, <2>5 DEF Past, Given
<1> QED BY <1>1, <1>2, <1>3 DEF Sound, Items

LEMMA OutboxShrinks ==
    ASSUME Sound, gen' = gen, outbox' = outbox \/ (outbox # << >> /\ outbox' = Tail(outbox))
    PROVE  /\ outbox' \in Seq(Keys) /\ Ascending(outbox')
           /\ Range(outbox') \subseteq Range(outbox)
           /\ outbox' # outbox => outbox # << >> /\ Range(outbox') \subseteq Range(Tail(outbox))
           /\ \A j \in Range(queue) \cup Spoken, k \in Range(outbox') : Earlier(j, k)
           /\ \A k \in Range(outbox') : pcm # << >> /\ Last.gen = gen' => Earlier(Last, k)
<1>1. outbox \in Seq(Keys) /\ Ascending(outbox)
  BY Basics DEF Sound, Items, InOrder
<1>2. outbox' \in Seq(Keys) /\ Ascending(outbox') /\ Range(outbox') \subseteq Range(outbox)
      /\ (outbox' # outbox => outbox # << >> /\ Range(outbox') \subseteq Range(Tail(outbox)))
  <2>1. CASE outbox' = outbox
    BY <1>1, <2>1
  <2>2. CASE outbox # << >> /\ outbox' = Tail(outbox)
    <3>1. Tail(outbox) \in Seq(Keys) /\ Range(outbox) = {Head(outbox)} \cup Range(Tail(outbox))
      BY <1>1, <2>2, RangeFacts
    <3>2. Ascending(Tail(outbox))
      BY <1>1, <2>2, TailFacts
    <3> QED BY <2>2, <3>1, <3>2
  <2> QED BY <2>1, <2>2
<1>3. \A j \in Range(queue) \cup Spoken, k \in Range(outbox') : Earlier(j, k)
  BY <1>2 DEF Sound, Items, InOrder
<1>4. \A k \in Range(outbox') : pcm # << >> /\ Last.gen = gen' => Earlier(Last, k)
  BY <1>2 DEF Sound, BehindStream
<1> QED BY <1>2, <1>3, <1>4

(* The session stands still, the publisher gives states up. *)
LEMMA QuietSteady ==
    ASSUME Sound, NEW D, Sheds(D), StaysSane,
           gen' = gen, generation' = generation, released' = released, outbox' = outbox,
           queue' = queue, speaker' = speaker, pcm' = pcm, completed' = completed,
           hooks' = hooks, guards' = guards,
           \A k \in DOMAIN states' :
               Speaking(k) /\ states[k].chunks # << >> => states'[k].chunks # << >>
    PROVE  Steady(D, {}, {})
<1>1. gen \in Nat
  BY Basics DEF Sound
<1>2. /\ outbox' \in Seq(Keys) /\ Ascending(outbox')
      /\ \A j \in Range(queue) \cup Spoken, k \in Range(outbox') : Earlier(j, k)
      /\ \A k \in Range(outbox') : pcm # << >> /\ Last.gen = gen' => Earlier(Last, k)
  BY OutboxShrinks
<1>3. \A k \in DOMAIN states' :
          /\ Sane(k, states'[k], faults' = 0)
          /\ states'[k].published = states[k].published
  BY DEF StaysSane
<1> QED BY <1>1, <1>2, <1>3 DEF Steady, Sheds

LEMMA SteadyItems ==
    ASSUME Sound, gen' = gen, rev' = rev, translated' = translated, head' = head,
           offered' = offered, released' = released,
           outbox' = outbox \/ (outbox # << >> /\ outbox' = Tail(outbox)),
           queue' = queue, speaker' = speaker, guards' \subseteq guards
    PROVE  Numbered' /\ UpToHead' /\ Fresh'
<1>1. Range(outbox') \subseteq Range(outbox)
  BY OutboxShrinks
<1>2. Numbered'
  BY DEF Sound, Items, Numbered
<1>3. Fresh'
  BY <1>1 DEF Sound, Items, Fresh
<1>4. UpToHead'
  <2>1. Given' \subseteq Given
    BY <1>1 DEF Given, Spoken
  <2>2. \A k : Below(k)' <=> Below(k)
    BY DEF Below
  <2> QED BY <2>1, <2>2 DEF Sound, Items, UpToHead
<1> QED BY <1>2, <1>3, <1>4

LEMMA SoundParts ==
    ASSUME Sound
    PROVE  SessionTyped /\ StoresTyped /\ LoopsTyped
BY KindsParts DEF Sound

(* Nothing that the invariant is about changes but states and line. *)
LEMMA SynthesisSound ==
    ASSUME Sound, Synthesis
    PROVE  Sound'
<1>1. Synthesized
  BY SynthesisEffect
<1>2. PICK D \in SUBSET (DOMAIN states \ latest) : Sheds(D)
  BY <1>1 DEF Synthesized
<1>3. /\ UNCHANGED << session, epochs, listening, queue, known, completed, consumed,
                      generation, hooks, guards, speaker, encoder, pcm, resets, latest >>
      /\ StaysSane /\ (synth' = None \/ synth' \in Synthesizing)
      /\ work' \in BOOLEAN /\ faults' \in 0..MaxFaults
  BY <1>1 DEF Synthesized, SynthesisFrame, lease, callbacks
<1>4. UNCHANGED << gen, rev, translated, approved, head, offered, released, outbox >>
  BY <1>3 DEF session
<1>5. Steady(D, {}, {})
  BY <1>1, <1>2, <1>3, <1>4, QuietSteady DEF Synthesized
<1>6. Numbered' /\ UpToHead' /\ Fresh'
  BY <1>3, <1>4, SteadyItems
<1>7. SessionTyped'
  BY <1>4, SoundParts DEF SessionTyped
<1>8. StoresTyped'
  BY <1>2, <1>3, SoundParts DEF StoresTyped, Sheds
<1>9. LoopsTyped'
  BY <1>3, <1>4, SoundParts DEF LoopsTyped
<1> QED BY <1>5, <1>6, <1>7, <1>8, <1>9, SteadySound

LEMMA StillSteady ==
    ASSUME Sound, states' = states, line' = line, faults' = faults,
           gen' = gen, generation' = generation, released' = released, outbox' = outbox,
           queue' = queue, speaker' = speaker, pcm' = pcm, completed' = completed,
           hooks' = hooks, guards' = guards
    PROVE  Steady({}, {}, {})
<1>1. Sheds({})
  BY StateFacts, ShedNothing
<1>2. StaysSane
  BY StateFacts DEF StaysSane
<1> QED BY <1>1, <1>2, QuietSteady

(* The encoder, the release policy and steps of nobody. *)
LEMMA StillSound ==
    ASSUME Sound,
           \/ WriterStep
           \/ \E o \in Orders : Approve(o) \/ Withdraw(o)
           \/ UNCHANGED vars
    PROVE  Sound'
<1>1. /\ UNCHANGED << gen, rev, translated, head, offered, released, outbox, epochs,
                      listening, queue, states, line, latest, known, completed, consumed,
                      generation, hooks, guards, work, synth, speaker, pcm, faults, resets >>
      /\ approved' \in SUBSET Orders /\ encoder' \in 0..EncoderSlots
  <2>1. approved \in SUBSET Orders /\ encoder \in 0..EncoderSlots /\ EncoderSlots \in Nat
    BY SoundParts, PublisherAssumption DEF SessionTyped, LoopsTyped
  <2>2. CASE WriterStep
    BY <2>1, <2>2 DEF WriterStep, session, lease, fences, callbacks, counters
  <2>3. CASE \E o \in Orders : Approve(o) \/ Withdraw(o)
    BY <2>1, <2>3 DEF Approve, Withdraw, lease, fences, callbacks, counters
  <2>4. CASE UNCHANGED vars
    BY <2>1, <2>4 DEF vars, session, lease, fences, callbacks, counters
  <2> QED BY <2>2, <2>3, <2>4
<1>2. Steady({}, {}, {})
  BY <1>1, StillSteady
<1>3. Numbered' /\ UpToHead' /\ Fresh'
  BY <1>1, SteadyItems
<1>4. SessionTyped' /\ StoresTyped' /\ LoopsTyped'
  BY <1>1, SoundParts DEF SessionTyped, StoresTyped, LoopsTyped
<1> QED BY <1>2, <1>3, <1>4, SteadySound

-------------------------------------------------------------------------------
(* Calls of the session that leave the queue alone. *)

LEMMA RegisterSound ==
    ASSUME Sound, NEW o \in Orders, Register(o)
    PROVE  Sound'
<1> USE DEF Sound, Items
<1>1. /\ outbox = << >> /\ head <= o /\ rev' = [rev EXCEPT ![o] = @ + 1]
      /\ rev[o] < MaxRevision
      /\ translated' = translated \ {o} /\ approved' = approved \ {o}
      /\ offered' = (offered /\ o # head)
      /\ UNCHANGED << gen, head, released, outbox, epochs, listening, queue, completed,
                      consumed, generation, synth, speaker, encoder, pcm, faults, resets >>
  <2>1. rev[o] < (IF gen > 0 THEN MaxRevisionReset ELSE MaxRevision)
    BY DEF Register
  <2>2. MaxRevisionReset <= MaxRevision /\ MaxRevisionReset \in Nat /\ MaxRevision \in Nat
    BY PublisherAssumption
  <2>3. rev[o] < MaxRevision
    <3>1. rev[o] \in Nat
      BY Basics
    <3> QED BY <2>1, <2>2, <3>1
  <2> QED BY <2>3 DEF Register, LockFree, lease, counters
<1> DEFINE old == {j \in DOMAIN states : j.gen = gen /\ j.order = o /\ j.rev < rev[o] + 1}
<1>2. /\ rev[o] \in Nat /\ MaxRevision \in Nat /\ o \in Nat /\ head \in Nat /\ gen \in Gens
      /\ gen \in Nat /\ line \in Seq(Keys) /\ rev \in [Orders -> Nat]
  BY Basics, SoundParts, PublisherAssumption, KeyFacts DEF SessionTyped
<1>3. PICK D \in SUBSET DOMAIN states :
          /\ Sheds(D) /\ \A k \in DOMAIN states' : states'[k] = states[k]
          /\ hooks' = hooks \ D /\ guards' = guards \ D
          /\ latest' = latest \ D /\ work' \in BOOLEAN
          /\ known' \in [Gens -> [Orders -> 0..MaxRevision]]
  <2>1. known \in [Gens -> [Orders -> 0..MaxRevision]] /\ work \in BOOLEAN
    BY SoundParts DEF StoresTyped, LoopsTyped
  <2>2. CASE UNCHANGED << known, states, line, latest, callbacks, work >>
    <3>1. Sheds({})
      BY <2>2, ShedNothing
    <3> QED BY <2>1, <2>2, <3>1 DEF callbacks
  <2>3. CASE ~(UNCHANGED << known, states, line, latest, callbacks, work >>)
    <3>1. /\ known' = [known EXCEPT ![gen][o] = rev[o] + 1]
          /\ DropStates(old) /\ latest' = latest \ old
          /\ hooks' = hooks \ old /\ guards' = guards \ old
          /\ work' = (work \/ old # {})
      BY <2>3 DEF Register
    <3>2. rev[o] + 1 \in 0..MaxRevision
      BY <1>1, <1>2
    <3>3. known' \in [Gens -> [Orders -> 0..MaxRevision]]
      BY <1>2, <2>1, <3>1, <3>2
    <3>4. old \in SUBSET DOMAIN states
      OBVIOUS
    <3> HIDE DEF old
    <3>5. Sheds(old) /\ \A k \in DOMAIN states' : states'[k] = states[k]
      BY <3>1, DropSheds
    <3> QED BY <2>1, <3>1, <3>3, <3>4, <3>5
  <2> QED BY <2>2, <2>3
<1>4. Steady(D, {}, D)
  <2>1. /\ outbox' \in Seq(Keys) /\ Ascending(outbox')
        /\ \A j \in Range(queue) \cup Spoken, k \in Range(outbox') : Earlier(j, k)
        /\ \A k \in Range(outbox') : pcm # << >> /\ Last.gen = gen' => Earlier(Last, k)
    BY <1>1, OutboxShrinks
  <2>2. \A k \in DOMAIN states' : k \in DOMAIN states /\ Sane(k, states'[k], faults' = 0)
    BY <1>1, <1>3, StateFacts DEF Sheds
  <2>3. D \cap DOMAIN states' = {}
    BY <1>3 DEF Sheds
  <2> QED BY <1>1, <1>2, <1>3, <2>1, <2>2, <2>3 DEF Steady, Sheds
<1>5. rev'[o] = rev[o] + 1 /\ \A p \in Orders : rev[p] \in Nat /\ (p # o => rev'[p] = rev[p])
  BY <1>1, <1>2
<1>6. Numbered'
  <2>1. ASSUME NEW p \in Orders, released[p] # 0 PROVE p < head /\ released[p] = rev'[p]
    <3>1. p < head /\ released[p] = rev[p] /\ p \in Nat
      BY <2>1, KeyFacts DEF Numbered
    <3>2. p # o
      BY <1>1, <1>2, <3>1
    <3> QED BY <1>5, <3>1, <3>2
  <2>2. \A p \in translated' : rev'[p] > 0
    BY <1>1, <1>5, Basics DEF Numbered
  <2>3. offered' => head \in translated'
    BY <1>1 DEF Numbered
  <2> QED BY <1>1, <2>1, <2>2, <2>3 DEF Numbered
<1>7. UpToHead'
  <2>1. Given' = Given /\ guards' \subseteq guards /\ Given \subseteq Keys /\ guards \subseteq Keys
    BY <1>1, <1>3, Basics DEF Given, Spoken
  <2> SUFFICES ASSUME NEW k \in Given \cup guards, k.gen = gen
               PROVE  /\ k.order <= head /\ k.rev <= rev'[k.order]
                      /\ k.rev = rev'[k.order] => k.order \in translated'
                      /\ k.order = head /\ k.rev = rev'[k.order] => offered'
    BY <1>1, <2>1 DEF UpToHead, Below
  <2>2. k \in Keys /\ k.order \in Orders /\ k.rev \in Nat
    BY <2>1, KeyFacts
  <2>3. /\ k.order <= head /\ k.rev <= rev[k.order]
        /\ k.rev = rev[k.order] => k.order \in translated
        /\ k.order = head /\ k.rev = rev[k.order] => offered
    BY DEF UpToHead, Below
  <2>4. CASE k.order = o
    BY <1>2, <1>5, <2>2, <2>3, <2>4
  <2>5. CASE k.order # o
    BY <1>1, <1>5, <2>2, <2>3, <2>5
  <2> QED BY <2>4, <2>5
<1>8. Fresh'
  BY <1>1, EmptyRange DEF Fresh
<1>9. SessionTyped'
  <2>1. rev' \in [Orders -> 0..MaxRevision]
    <3>1. rev \in [Orders -> 0..MaxRevision] /\ rev[o] + 1 \in 0..MaxRevision
      BY <1>1, <1>2, SoundParts DEF SessionTyped
    <3> QED BY <1>1, <3>1
  <2>2. offered' \in BOOLEAN
    BY <1>1
  <2> QED BY <1>1, <2>1, <2>2, SoundParts DEF SessionTyped
<1>10. StoresTyped'
  BY <1>1, <1>3, SoundParts DEF StoresTyped, Sheds
<1>11. LoopsTyped'
  BY <1>1, <1>3, SoundParts DEF LoopsTyped
<1> HIDE DEF Sound, Items
<1> QED BY <1>4, <1>6, <1>7, <1>8, <1>9, <1>10, <1>11, SteadySound

LEMMA OtherKeys ==
    ASSUME NEW k
    PROVE  k \notin Others(k)
BY DEF Others

LEMMA TranslateSound ==
    ASSUME Sound, NEW o \in Orders, Translate(o)
    PROVE  Sound'
<1> USE DEF Sound, Items
<1>1. /\ outbox = << >> /\ head <= o /\ rev[o] > 0 /\ o \notin translated
      /\ translated' = translated \cup {o}
      /\ UNCHANGED << gen, rev, approved, head, offered, released, outbox, epochs,
                      listening, queue, completed, consumed, generation, synth, speaker,
                      encoder, pcm, faults, resets >>
  BY DEF Translate, LockFree, lease, counters
<1> DEFINE k == Key(o)
           old == Others(k)
           kept == Restrict(states, DOMAIN states \ old)
           add == (k \in DOMAIN states \/ Cardinality(DOMAIN states \ old) < CacheSize)
                     /\ k \notin DOMAIN states
           fresh == [j \in DOMAIN kept \cup {k} |-> IF j = k THEN NewState ELSE kept[j]]
<1>2. k \in Keys /\ k.gen = gen /\ k.order = o /\ k.rev = rev[o] /\ gen \in Gens
      /\ gen \in Nat /\ line \in Seq(Keys) /\ k \notin old
  BY <1>1, KeyOf, Basics, SoundParts, OtherKeys DEF SessionTyped
<1>3. k \notin Given \cup guards
  BY <1>1, <1>2 DEF UpToHead, Below
<1> HIDE DEF k, old
<1>4. PICK D, P, G :
          /\ DOMAIN states' = (DOMAIN states \ D) \cup P /\ P \subseteq {k}
          /\ \A j \in DOMAIN states' : states'[j] = IF j \in P THEN NewState ELSE states[j]
          /\ line' = Without(line, D) \/ (D = {} /\ line' = line)
          /\ hooks' = hooks \ G /\ guards' = guards \ G /\ G \cap DOMAIN states' = {}
          /\ latest' \in SUBSET Keys /\ work' \in BOOLEAN
          /\ known' \in [Gens -> [Orders -> 0..MaxRevision]]
  <2>1. known \in [Gens -> [Orders -> 0..MaxRevision]] /\ work \in BOOLEAN
        /\ latest \in SUBSET Keys /\ rev[o] \in 0..MaxRevision
    BY SoundParts DEF StoresTyped, LoopsTyped, SessionTyped
  <2>2. CASE UNCHANGED << states, line, latest, known, callbacks, work >>
    <3> WITNESS {}, {}, {}
    <3> QED BY <2>1, <2>2 DEF callbacks
  <2>3. CASE ~(UNCHANGED << states, line, latest, known, callbacks, work >>)
    <3>1. /\ known' = [known EXCEPT ![gen][o] = k.rev]
          /\ latest' = (latest \ old) \cup {k}
          /\ hooks' = hooks \ (old \cap DOMAIN states)
          /\ guards' = guards \ (old \cap DOMAIN states)
          /\ line' = Without(line, old)
          /\ states' = IF add THEN fresh ELSE kept
          /\ work' = (work \/ k \in DOMAIN states \/ Cardinality(DOMAIN states \ old) < CacheSize)
      BY <2>3 DEF Translate, k, old
    <3>2. /\ known' \in [Gens -> [Orders -> 0..MaxRevision]]
          /\ latest' \in SUBSET Keys /\ work' \in BOOLEAN
      BY <1>2, <2>1, <3>1
    <3>3. /\ DOMAIN kept = DOMAIN states \ old
          /\ \A j \in DOMAIN kept : kept[j] = states[j]
      BY DEF Restrict
    <3> HIDE DEF kept
    <3> DEFINE A == IF add THEN {k} ELSE {}
    <3>4. DOMAIN states' = (DOMAIN states \ old) \cup A
      BY <3>1, <3>3
    <3>5. \A j \in DOMAIN states' : states'[j] = IF j \in A THEN NewState ELSE states[j]
      BY <3>1, <3>3
    <3>6. (old \cap DOMAIN states) \cap DOMAIN states' = {}
      BY <1>2, <3>4
    <3>7. A \subseteq {k}
      OBVIOUS
    <3> HIDE DEF A
    <3> WITNESS old, A, old \cap DOMAIN states
    <3> QED BY <3>1, <3>2, <3>4, <3>5, <3>6, <3>7
  <2> QED BY <2>2, <2>3
<1>5. line' \in Seq(Keys) /\ Range(line') = Range(line) \ D
      /\ (Ascending(line) => Ascending(line'))
  BY <1>2, <1>4, WithoutFacts
<1>6. Steady(D, P, G)
  <2>1. /\ outbox' \in Seq(Keys) /\ Ascending(outbox')
        /\ \A j \in Range(queue) \cup Spoken, i \in Range(outbox') : Earlier(j, i)
        /\ \A i \in Range(outbox') : pcm # << >> /\ Last.gen = gen' => Earlier(Last, i)
    BY <1>1, OutboxShrinks
  <2>2. P \subseteq Keys /\ P \cap (Range(queue) \cup Spoken) = {}
    BY <1>2, <1>3, <1>4 DEF Given
  <2>3. NewState.published = 0
    BY DEF NewState
  <2>4. ASSUME NEW j \in DOMAIN states'
        PROVE  /\ Sane(j, states'[j], faults' = 0)
               /\ states'[j].published = IF j \in P THEN 0 ELSE states[j].published
               /\ Speaking(j) /\ states[j].chunks # << >> => states'[j].chunks # << >>
    <3>1. CASE j \in P
      <4>1. j = k /\ states'[j] = NewState /\ ~Speaking(j)
        BY <1>3, <1>4, <3>1, SpeakerFacts DEF Given
      <4>2. Sane(k, NewState, faults' = 0)
        BY <1>2, SaneStates, FaultlessIsBoolean
      <4> QED BY <2>3, <3>1, <4>1, <4>2
    <3>2. CASE j \notin P
      <4>1. j \in DOMAIN states /\ states'[j] = states[j]
        BY <1>4, <3>2
      <4> QED BY <1>1, <3>2, <4>1, StateFacts
    <3> QED BY <3>1, <3>2
  <2> HIDE DEF Sound, Items
  <2> QED BY <1>1, <1>2, <1>4, <1>5, <2>1, <2>2, <2>4 DEF Steady
<1>7. Numbered'
  BY <1>1 DEF Numbered
<1>8. UpToHead'
  <2>1. Given' = Given /\ guards' \subseteq guards
    BY <1>1, <1>4 DEF Given, Spoken
  <2> QED BY <1>1, <2>1 DEF UpToHead, Below
<1>9. Fresh'
  BY <1>1, EmptyRange DEF Fresh
<1>10. SessionTyped'
  BY <1>1, SoundParts DEF SessionTyped
<1>11. StoresTyped'
  <2>1. DOMAIN states' \subseteq Keys
    BY <1>2, <1>4, StateFacts
  <2> QED BY <1>1, <1>4, <1>5, <2>1, SoundParts DEF StoresTyped
<1>12. LoopsTyped'
  BY <1>1, <1>4, SoundParts DEF LoopsTyped
<1> HIDE DEF Sound, Items
<1> QED BY <1>6, <1>7, <1>8, <1>9, <1>10, <1>11, <1>12, SteadySound

(* What is offered next comes after all that was given and heard.           *)
LEMMA NextIsLater ==
    ASSUME Sound, NEW o \in Orders, head <= o, o = head => ~offered, rev[o] > 0
    PROVE  /\ Key(o) \in Keys /\ Key(o).gen = gen /\ Key(o).order = o /\ Key(o).rev = rev[o]
           /\ \A j \in Given \cup guards : Earlier(j, Key(o))
           /\ Key(o) \notin guards
           /\ pcm # << >> /\ Last.gen = gen => Earlier(Last, Key(o))
<1> USE DEF Sound, Items
<1> DEFINE k == Key(o)
<1>1. k \in Keys /\ k.gen = gen /\ k.order = o /\ k.rev = rev[o]
  BY KeyOf
<1> HIDE DEF k
<1>2. /\ gen \in Nat /\ head \in Nat /\ o \in Nat /\ \A p \in Orders : rev[p] \in Nat
      /\ Given \subseteq Keys /\ guards \subseteq Keys
  BY Basics, KeyFacts DEF Given
<1>3. ASSUME NEW j \in Given \cup guards PROVE Earlier(j, k)
  <2>1. j \in Keys /\ j.gen \in Nat /\ j.order \in Nat /\ j.rev \in Nat /\ j.order \in Orders
    BY <1>2, KeyFacts
  <2>2. j.gen <= gen /\ Below(j)
    BY DEF Past, UpToHead
  <2>3. CASE j.gen # gen
    BY <1>1, <1>2, <2>1, <2>2, <2>3 DEF Earlier
  <2>4. CASE j.gen = gen
    <3>1. j.order <= head /\ j.rev <= rev[j.order]
          /\ (j.order = head /\ j.rev = rev[j.order] => offered)
      BY <2>2, <2>4 DEF Below
    <3>2. CASE j.order < o
      BY <1>1, <2>4, <3>2 DEF Earlier
    <3>3. CASE ~(j.order < o)
      <4>1. j.order = o /\ o = head
        BY <1>2, <2>1, <3>1, <3>3
      <4>2. j.rev < rev[o]
        BY <1>2, <2>1, <3>1, <4>1
      <4> QED BY <1>1, <2>4, <4>1, <4>2 DEF Earlier, SameSentence
    <3> QED BY <3>2, <3>3
  <2> QED BY <2>3, <2>4
<1>4. k \notin guards
  BY <1>1, <1>3, EarlierIsStrict
<1>5. ASSUME pcm # << >>, Last.gen = gen PROVE Earlier(Last, k)
  <2>1. Len(pcm) \in DOMAIN pcm /\ Last \in Chunk /\ Last = pcm[Len(pcm)]
    BY <1>5, LastFacts
  <2>2. released[Last.order] = Last.rev /\ Last.rev # 0 /\ Last.order \in Orders
        /\ Last.order \in Nat
    BY <1>5, <2>1, ChunkFacts DEF Voiced
  <2>3. Last.order < head
    BY <2>2 DEF Numbered
  <2>4. Last.order < o
    BY <1>2, <2>2, <2>3
  <2> QED BY <1>1, <1>5, <2>4 DEF Earlier
<1> QED BY <1>1, <1>3, <1>4, <1>5 DEF k

(* A step of the session alone. *)
LEMMA SessionSteady ==
    ASSUME Sound, states' = states, line' = line, faults' = faults,
           generation' = generation, queue' = queue, speaker' = speaker, pcm' = pcm,
           completed' = completed, hooks' = hooks, guards' = guards,
           gen' \in Nat, gen' >= gen,
           gen' = gen => \A o \in Orders : released[o] # 0 => released'[o] = released[o],
           outbox' \in Seq(Keys), Ascending(outbox'),
           \A j \in Range(queue) \cup Spoken, k \in Range(outbox') : Earlier(j, k),
           \A k \in Range(outbox') : pcm # << >> /\ Last.gen = gen' => Earlier(Last, k)
    PROVE  Steady({}, {}, {})
<1>1. line \in Seq(Keys)
  BY Basics, StateFacts
<1>2. \A k \in DOMAIN states : Sane(k, states[k], faults = 0)
  BY StateFacts
<1> QED BY <1>1, <1>2 DEF Steady

LEMMA OfferSound ==
    ASSUME Sound, Offer
    PROVE  Sound'
<1> USE DEF Sound, Items
<1>1. /\ head < N /\ ~offered /\ head \in translated /\ offered' = TRUE
      /\ outbox' = << Key(head) >> /\ outbox = << >>
      /\ UNCHANGED << gen, rev, translated, approved, head, released, epochs, listening,
                      queue, states, line, latest, known, completed, consumed,
                      generation, hooks, guards, work, synth, speaker, encoder, pcm,
                      faults, resets >>
  BY DEF Offer, LockFree, lease, fences, callbacks, counters
<1>2. head \in Orders /\ head \in Nat /\ rev[head] > 0 /\ gen \in Nat /\ rev[head] \in Nat
  BY <1>1, Basics DEF Numbered
<1> PICK k : k = Key(head)
  OBVIOUS
<1>3. /\ k \in Keys /\ k.gen = gen /\ k.order = head /\ k.rev = rev[head]
      /\ \A j \in Given \cup guards : Earlier(j, k)
      /\ k \notin guards
      /\ pcm # << >> /\ Last.gen = gen => Earlier(Last, k)
  BY <1>1, <1>2, NextIsLater
<1>4. outbox' \in Seq(Keys) /\ Range(outbox') = {k} /\ Ascending(outbox')
  <2>1. outbox' = << k >>
    BY <1>1
  <2>2. << k >> \in Seq(Keys) /\ DOMAIN << k >> = {1} /\ << k >>[1] = k
    BY <1>3
  <2> DEFINE q == << k >>
  <2> HIDE DEF q
  <2>3. Range(q) = {k} /\ Ascending(q)
    BY <2>2 DEF q, Range, Ascending
  <2> QED BY <2>1, <2>2, <2>3 DEF q
<1>5. Steady({}, {}, {})
  <2>1. \A j \in Range(queue) \cup Spoken, i \in Range(outbox') : Earlier(j, i)
    BY <1>3, <1>4 DEF Given
  <2>2. \A i \in Range(outbox') : pcm # << >> /\ Last.gen = gen' => Earlier(Last, i)
    BY <1>1, <1>3, <1>4
  <2> HIDE DEF Sound, Items
  <2> QED BY <1>1, <1>2, <1>4, <2>1, <2>2, SessionSteady
<1>6. Numbered'
  BY <1>1 DEF Numbered
<1>7. UpToHead'
  <2>1. Given' \subseteq Given \cup {k}
    BY <1>1, <1>4 DEF Given, Spoken
  <2>2. ASSUME NEW j \in Given \cup guards PROVE Below(j)'
    BY <1>1 DEF UpToHead, Below
  <2>3. Below(k)'
    BY <1>1, <1>2, <1>3 DEF Below
  <2> QED BY <1>1, <2>1, <2>2, <2>3 DEF UpToHead
<1>8. Fresh'
  BY <1>1, <1>3, <1>4 DEF Fresh
<1>9. SessionTyped' /\ StoresTyped' /\ LoopsTyped'
  BY <1>1, <1>4, SoundParts DEF SessionTyped, StoresTyped, LoopsTyped
<1> HIDE DEF Sound, Items
<1> QED BY <1>5, <1>6, <1>7, <1>8, <1>9, SteadySound

LEMMA ForceDrainSound ==
    ASSUME Sound, ForceDrain
    PROVE  Sound'
<1> USE DEF Sound, Items
<1>1. /\ offered' = FALSE /\ outbox = << >>
      /\ UNCHANGED << gen, rev, translated, approved, epochs, listening,
                      queue, states, line, latest, known, completed, consumed,
                      generation, hooks, guards, work, synth, speaker, encoder, pcm,
                      faults, resets >>
  BY DEF ForceDrain, LockFree, lease, fences, callbacks, counters
<1> DEFINE first == IF offered THEN head + 1 ELSE head
<1>2. PICK n \in (head + 1)..N :
          /\ \A o \in head..(n - 1) : o \in translated
          /\ head' = n
          /\ released' = [o \in Orders |->
                             IF o \in head..(n - 1) THEN rev[o] ELSE released[o]]
          /\ outbox' = [i \in 1..(n - first) |-> Key(first + i - 1)]
  BY DEF ForceDrain
<1>3. /\ head \in Nat /\ n \in Nat /\ head < n /\ n <= N /\ N \in Nat
      /\ first \in Nat /\ head <= first /\ first <= n /\ gen \in Nat
      /\ (offered => head < first)
      /\ \A o \in Orders : rev[o] \in Nat /\ rev[o] <= MaxRevision
  BY SMTT(30), Basics, KeyFacts
<1> HIDE DEF first
<1>4. ASSUME NEW o \in Nat, first <= o, o < n
      PROVE  /\ o \in Orders /\ o \in translated
             /\ Key(o) \in Keys /\ Key(o).gen = gen /\ Key(o).order = o /\ Key(o).rev = rev[o]
             /\ \A j \in Given \cup guards : Earlier(j, Key(o))
             /\ Key(o) \notin guards
             /\ pcm # << >> /\ Last.gen = gen => Earlier(Last, Key(o))
  <2>1. o \in Orders /\ o \in translated /\ rev[o] > 0 /\ head <= o /\ (o = head => ~offered)
    <3>1. o \in head..(n - 1) /\ o < N /\ head <= o /\ (o = head => ~offered)
      BY <1>3, <1>4
    <3> QED BY <1>2, <3>1, KeyFacts DEF Numbered
  <2> HIDE DEF Sound, Items
  <2> QED BY <2>1, NextIsLater
<1>5. /\ DOMAIN outbox' = 1..(n - first)
      /\ \A i \in DOMAIN outbox' : /\ first + i - 1 \in Nat /\ first <= first + i - 1
                                   /\ first + i - 1 < n /\ i \in Nat
                                   /\ outbox'[i] = Key(first + i - 1)
  BY <1>2, <1>3
<1>6. \A k \in Range(outbox') : /\ k \in Keys /\ k.gen = gen /\ k.order \in Orders
                                /\ k.order < n /\ k.order \in translated
                                /\ k.rev = rev[k.order]
                                /\ \A j \in Given \cup guards : Earlier(j, k)
                                /\ k \notin guards
                                /\ pcm # << >> /\ Last.gen = gen => Earlier(Last, k)
  BY <1>4, <1>5 DEF Range
<1>7. outbox' \in Seq(Keys)
  <2>1. n - first \in Nat
    BY <1>3
  <2>2. \A i \in 1..(n - first) : Key(first + i - 1) \in Keys
    BY <1>4, <1>5
  <2> QED BY <1>2, <2>1, <2>2
<1>8. Ascending(outbox')
  <2> SUFFICES ASSUME NEW a \in DOMAIN outbox', NEW b \in DOMAIN outbox', a < b
               PROVE  Earlier(outbox'[a], outbox'[b])
    BY DEF Ascending
  <2> DEFINE x == first + a - 1
             y == first + b - 1
  <2>1. x \in Nat /\ y \in Nat /\ x < y /\ first <= x /\ first <= y /\ x < n /\ y < n
        /\ outbox'[a] = Key(x) /\ outbox'[b] = Key(y)
    BY <1>3, <1>5
  <2> HIDE DEF x, y
  <2>2. Key(x).gen = gen /\ Key(x).order = x /\ Key(y).gen = gen /\ Key(y).order = y
    BY <1>4, <2>1
  <2> QED BY <2>1, <2>2 DEF Earlier
<1>9. \A o \in Orders : released[o] # 0 => released'[o] = released[o]
  <2> SUFFICES ASSUME NEW o \in Orders, released[o] # 0 PROVE released'[o] = released[o]
    OBVIOUS
  <2>1. o < head /\ o \in Nat
    BY KeyFacts DEF Numbered
  <2>2. o \notin head..(n - 1)
    BY <1>3, <2>1
  <2> QED BY <1>2, <2>2
<1>10. Steady({}, {}, {})
  <2>1. \A j \in Range(queue) \cup Spoken, k \in Range(outbox') : Earlier(j, k)
    BY <1>6 DEF Given
  <2>2. \A k \in Range(outbox') : pcm # << >> /\ Last.gen = gen' => Earlier(Last, k)
    BY <1>1, <1>6
  <2>3. gen' \in Nat /\ gen' >= gen
    BY <1>1, <1>3
  <2> HIDE DEF Sound, Items
  <2> QED BY <1>1, <1>7, <1>8, <1>9, <2>1, <2>2, <2>3, SessionSteady
<1>11. Numbered'
  <2>1. ASSUME NEW o \in Orders, released'[o] # 0 PROVE o < n /\ released'[o] = rev[o]
    <3>1. CASE o \in head..(n - 1)
      BY <1>2, <1>3, <3>1
    <3>2. CASE o \notin head..(n - 1)
      <4>1. released'[o] = released[o]
        BY <1>2, <3>2
      <4>2. o < head /\ released[o] = rev[o] /\ o \in Nat
        BY <2>1, <4>1, KeyFacts DEF Numbered
      <4> QED BY <1>3, <4>1, <4>2
    <3> QED BY <3>1, <3>2
  <2> QED BY <1>1, <1>2, <2>1 DEF Numbered
<1>12. UpToHead'
  <2>1. Given' \subseteq Given \cup Range(outbox')
    BY <1>1 DEF Given, Spoken
  <2>2. ASSUME NEW j \in Given \cup guards PROVE Below(j)'
    <3>1. Below(j) /\ j \in Keys
      BY Basics DEF UpToHead, Given
    <3>2. j.order \in Nat
      BY <3>1, KeyFacts
    <3>3. ASSUME j.gen = gen
          PROVE  /\ j.order <= n /\ j.order # n /\ j.rev <= rev[j.order]
                 /\ j.rev = rev[j.order] => j.order \in translated
      BY <1>3, <3>1, <3>2, <3>3 DEF Below
    <3> QED BY <1>1, <1>2, <3>3 DEF Below
  <2>3. ASSUME NEW j \in Range(outbox') PROVE Below(j)'
    <3>1. /\ j.order \in Nat /\ j.order < n /\ j.order \in translated /\ j.rev = rev[j.order]
          /\ j.rev \in Nat
      BY <1>3, <1>6, KeyFacts
    <3>2. j.order <= n /\ j.order # n /\ j.rev <= rev[j.order]
      BY <1>3, <3>1
    <3> QED BY <1>1, <1>2, <3>1, <3>2 DEF Below
  <2> QED BY <1>1, <2>1, <2>2, <2>3 DEF UpToHead
<1>13. Fresh'
  BY <1>1, <1>6 DEF Fresh
<1>14. SessionTyped'
  <2>1. released' \in [Orders -> 0..MaxRevision] /\ head' \in 0..N
    BY <1>2, <1>3, SoundParts DEF SessionTyped
  <2> QED BY <1>1, <1>7, <2>1, SoundParts DEF SessionTyped
<1>15. StoresTyped' /\ LoopsTyped'
  BY <1>1, SoundParts DEF StoresTyped, LoopsTyped
<1> HIDE DEF Sound, Items
<1> QED BY <1>10, <1>11, <1>12, <1>13, <1>14, <1>15, SteadySound

LEMMA ResetOrderingSound ==
    ASSUME Sound, ResetOrdering
    PROVE  Sound'
<1> USE DEF Sound, Items
<1>1. /\ gen' = gen + 1 /\ rev' = [o \in Orders |-> 0] /\ translated' = {} /\ approved' = {}
      /\ head' = 0 /\ offered' = FALSE /\ released' = [o \in Orders |-> 0]
      /\ outbox' = << >> /\ resets' = resets + 1 /\ resets < MaxResets
      /\ UNCHANGED << epochs, listening, generation, queue, states, line, latest, known,
                      completed, consumed, hooks, guards, work, synth, speaker, encoder,
                      pcm, faults >>
  BY DEF ResetOrdering, RestartOrdering, lease, fences, callbacks
<1>2. /\ gen \in Nat /\ generation \in Nat /\ resets \in Nat /\ gen = generation + resets
      /\ generation <= MaxGen /\ MaxGen \in Nat /\ MaxResets \in Nat /\ N \in Nat
      /\ MaxRevision \in Nat
  BY Basics, PublisherAssumption DEF Kinds
<1>3. /\ outbox' \in Seq(Keys) /\ Ascending(outbox') /\ Range(outbox') = {}
  BY <1>1, EmptyRange DEF Ascending
<1>4. Steady({}, {}, {})
  BY <1>1, <1>2, <1>3, SessionSteady
<1>5. Numbered'
  BY <1>1 DEF Numbered
<1>6. UpToHead'
  <2>1. Given' \subseteq Given
    BY <1>1, <1>3 DEF Given, Spoken
  <2>2. \A k \in Given \cup guards : k.gen <= gen /\ k.gen \in Nat
    BY Basics, KeyFacts DEF Past, Given
  <2>3. \A k \in Given \cup guards : k.gen # gen'
    BY <1>1, <1>2, <2>2
  <2> QED BY <1>1, <2>1, <2>3 DEF UpToHead, Below
<1>7. Fresh'
  BY <1>3 DEF Fresh
<1>8. SessionTyped'
  <2>1. gen' \in Gens
    BY <1>1, <1>2 DEF Gens
  <2>2. [o \in Orders |-> 0] \in [Orders -> 0..MaxRevision] /\ 0 \in 0..N
    BY <1>2
  <2>3. rev' \in [Orders -> 0..MaxRevision] /\ released' \in [Orders -> 0..MaxRevision]
        /\ head' \in 0..N /\ offered' \in BOOLEAN
    BY <1>1, <2>2
  <2> QED BY <1>1, <1>3, <2>1, <2>3 DEF SessionTyped
<1>9. StoresTyped'
  BY <1>1, SoundParts DEF StoresTyped
<1>10. LoopsTyped'
  <2>1. speaker # None => speaker.gen \in Nat /\ speaker.key.gen <= speaker.gen + resets
                          /\ speaker.key.gen \in Nat
    BY SpeakerFacts, KeyFacts
  <2>2. speaker # None => speaker.key.gen <= speaker.gen + resets'
    BY SMTT(30), <1>1, <1>2, <2>1
  <2>3. resets' \in 0..MaxResets /\ gen' = generation + resets'
    BY <1>1, <1>2
  <2> QED BY <1>1, <2>2, <2>3, SoundParts DEF LoopsTyped
<1> HIDE DEF Sound, Items
<1> QED BY <1>4, <1>5, <1>6, <1>7, <1>8, <1>9, <1>10, SteadySound

LEMMA SwallowedSound ==
    ASSUME Sound, PublishSwallowed
    PROVE  Sound'
<1>1. /\ outbox # << >> /\ outbox' = Tail(outbox)
      /\ UNCHANGED << gen, rev, translated, approved, head, offered, released, epochs,
                      listening, generation, queue, states, line, latest, known,
                      completed, consumed, hooks, guards, work, synth, speaker, encoder,
                      pcm, faults, resets >>
  BY DEF PublishSwallowed, lease, fences, callbacks, counters
<1>2. /\ outbox' \in Seq(Keys) /\ Ascending(outbox')
      /\ \A j \in Range(queue) \cup Spoken, k \in Range(outbox') : Earlier(j, k)
      /\ \A k \in Range(outbox') : pcm # << >> /\ Last.gen = gen' => Earlier(Last, k)
  BY <1>1, OutboxShrinks
<1>3. gen' \in Nat /\ gen' >= gen
  BY <1>1, Basics DEF Sound
<1>4. Steady({}, {}, {})
  BY <1>1, <1>2, <1>3, SessionSteady
<1>5. Numbered' /\ UpToHead' /\ Fresh'
  BY <1>1, SteadyItems
<1>6. SessionTyped' /\ StoresTyped' /\ LoopsTyped'
  BY <1>1, <1>2, SoundParts DEF SessionTyped, StoresTyped, LoopsTyped
<1> QED BY <1>4, <1>5, <1>6, SteadySound

-------------------------------------------------------------------------------
(* The session hears that the items of K will not be spoken.                *)
Dismissed(K) ==
    /\ gen' = gen /\ rev' = rev /\ translated' = translated /\ approved' = approved
    /\ released' = released
    /\ IF head < N /\ offered /\ Key(head) \in K
       THEN head' = (IF CanCommit(Key(head)) THEN head + 1 ELSE head) /\ offered' = FALSE
       ELSE head' = head /\ offered' = offered

LEMMA DiscardedDismisses ==
    ASSUME NEW K, Discarded(K)
    PROVE  Dismissed(K) /\ outbox' = outbox
BY DEF Discarded, Dismissed, session

LEMMA DismissedFacts ==
    ASSUME Sound, NEW K, Dismissed(K)
    PROVE  /\ Numbered' /\ head' \in 0..N /\ offered' \in BOOLEAN
           /\ \A k \in Keys \ K : Below(k) => Below(k)'
           /\ gen' = gen /\ rev' = rev /\ translated' = translated /\ approved' = approved
           /\ released' = released
<1> USE DEF Sound, Items
<1>1. /\ head \in Nat /\ head <= N /\ N \in Nat /\ offered \in BOOLEAN
      /\ gen' = gen /\ rev' = rev /\ translated' = translated /\ approved' = approved
      /\ released' = released
  BY Basics, KeyFacts DEF Dismissed
<1>2. CASE head' = head /\ offered' = offered
  BY <1>1, <1>2 DEF Numbered, Below
<1>3. CASE ~(head' = head /\ offered' = offered)
  <2>1. /\ head < N /\ offered /\ Key(head) \in K /\ offered' = FALSE
        /\ head' = head \/ head' = head + 1
    BY <1>3 DEF Dismissed
  <2>2. Numbered'
    <3>1. ASSUME NEW o \in Orders, released[o] # 0 PROVE o < head' /\ released[o] = rev[o]
      <4>1. o < head /\ released[o] = rev[o] /\ o \in Nat
        BY <3>1, KeyFacts DEF Numbered
      <4> QED BY <1>1, <2>1, <4>1
    <3> QED BY <1>1, <2>1, <3>1 DEF Numbered
  <2>3. ASSUME NEW k \in Keys \ K, Below(k) PROVE Below(k)'
    <3>1. k.order \in Nat /\ k.order \in Orders
      BY KeyFacts
    <3>2. SUFFICES ASSUME k.gen = gen
                   PROVE  /\ k.order <= head' /\ k.rev <= rev[k.order]
                          /\ k.rev = rev[k.order] => k.order \in translated
                          /\ ~(k.order = head' /\ k.rev = rev[k.order])
      BY <1>1 DEF Below
    <3>3. /\ k.order <= head /\ k.rev <= rev[k.order]
          /\ k.rev = rev[k.order] => k.order \in translated
      BY <2>3, <3>2 DEF Below
    <3>4. k.order <= head'
      BY <1>1, <2>1, <3>1, <3>3
    <3>5. ~(k.order = head' /\ k.rev = rev[k.order])
      <4>1. CASE head' = head + 1
        BY <1>1, <3>1, <3>3, <4>1
      <4>2. CASE head' = head
        <5>1. k.order = head /\ k.rev = rev[k.order] => k = Key(head)
          BY <3>2, KeyOf
        <5> QED BY <2>1, <4>2, <5>1
      <4> QED BY <2>1, <4>1, <4>2
    <3> QED BY <3>3, <3>4, <3>5
  <2>4. head' \in 0..N
    BY <1>1, <2>1
  <2>5. offered' \in BOOLEAN
    BY <2>1
  <2> HIDE DEF Sound, Items
  <2> QED BY <1>1, <2>2, <2>3, <2>4, <2>5
<1> QED BY <1>2, <1>3

LEMMA RefusedSound ==
    ASSUME Sound, PublishRefused
    PROVE  Sound'
<1> USE DEF Sound, Items
<1> DEFINE k == Head(outbox)
           old == IF Stale(k) THEN {} ELSE Others(k)
<1>1. /\ outbox # << >> /\ outbox' = Tail(outbox)
      /\ known' = IF Stale(k) THEN known ELSE [known EXCEPT ![k.gen][k.order] = k.rev]
      /\ latest' = IF Stale(k) THEN latest ELSE (latest \ old) \cup {k}
      /\ DropStates(old)
      /\ hooks' = hooks \ (old \cap DOMAIN states)
      /\ guards' = guards \ (old \cap DOMAIN states)
      /\ UNCHANGED << gen, rev, translated, approved, released, epochs, listening,
                      generation, queue, completed, consumed, work, synth, speaker,
                      encoder, pcm, faults, resets >>
  BY DEF PublishRefused, lease, counters
<1>2. Dismissed({k})
  BY DEF PublishRefused, Dismissed
<1>3. /\ outbox \in Seq(Keys) /\ k \in Keys /\ k \in Range(outbox) /\ Ascending(outbox)
      /\ Range(Tail(outbox)) \subseteq Range(outbox)
  <2>1. outbox \in Seq(Keys) /\ Range(outbox) \subseteq Keys /\ Ascending(outbox)
    BY Basics DEF InOrder
  <2>2. Range(outbox) = {k} \cup Range(Tail(outbox))
    BY <1>1, <2>1, RangeFacts
  <2> QED BY <2>1, <2>2
<1>4. k \notin Range(Tail(outbox)) /\ k \notin Range(queue) \cup Spoken /\ k \notin guards
  <2>1. k \notin Range(Tail(outbox))
    BY <1>1, <1>3, TailFacts
  <2>2. k \notin Range(queue) \cup Spoken
    BY <1>3, EarlierIsStrict DEF InOrder
  <2> QED BY <1>3, <2>1, <2>2 DEF Fresh
<1> HIDE DEF k, old
<1>5. Sheds(old) /\ \A j \in DOMAIN states' : states'[j] = states[j]
  BY <1>1, DropSheds
<1>6. /\ Numbered' /\ head' \in 0..N /\ offered' \in BOOLEAN
      /\ \A j \in Keys \ {k} : Below(j) => Below(j)'
  BY <1>2, DismissedFacts
<1>7. Steady(old, {}, old \cap DOMAIN states)
  <2>1. /\ outbox' \in Seq(Keys) /\ Ascending(outbox')
        /\ \A j \in Range(queue) \cup Spoken, i \in Range(outbox') : Earlier(j, i)
        /\ \A i \in Range(outbox') : pcm # << >> /\ Last.gen = gen' => Earlier(Last, i)
    BY <1>1, OutboxShrinks
  <2>2. \A j \in DOMAIN states' : j \in DOMAIN states /\ Sane(j, states'[j], faults' = 0)
    BY <1>1, <1>5, StateFacts DEF Sheds
  <2>3. (old \cap DOMAIN states) \cap DOMAIN states' = {}
    BY <1>5 DEF Sheds
  <2>4. gen' \in Nat /\ gen' >= gen
    BY <1>1, Basics
  <2> HIDE DEF Sound, Items
  <2> QED BY <1>1, <1>5, <2>1, <2>2, <2>3, <2>4 DEF Steady, Sheds
<1>8. UpToHead'
  <2>1. Given' \cup guards' \subseteq (Given \cup guards) \ {k}
    <3>1. Given' \subseteq Given \ {k}
      BY <1>1, <1>3, <1>4 DEF Given, Spoken
    <3> QED BY <1>1, <1>4, <3>1
  <2>2. Given \cup guards \subseteq Keys
    BY Basics DEF Given
  <2> QED BY <1>6, <2>1, <2>2 DEF UpToHead
<1>9. Fresh'
  BY <1>1, OutboxShrinks DEF Fresh
<1>10. SessionTyped'
  BY <1>1, <1>6, OutboxShrinks, SoundParts DEF SessionTyped
<1>11. StoresTyped'
  <2>1. known' \in [Gens -> [Orders -> 0..MaxRevision]]
    <3>1. known \in [Gens -> [Orders -> 0..MaxRevision]]
      BY SoundParts DEF StoresTyped
    <3>2. k.gen \in Gens /\ k.order \in Orders /\ k.rev \in 0..MaxRevision
      <4>1. k.rev \in Nat /\ k.rev <= MaxRevision /\ MaxRevision \in Nat
        BY <1>3, KeyFacts, PublisherAssumption
      <4> QED BY <1>3, <4>1, KeyFacts
    <3> QED BY <1>1, <3>1, <3>2
  <2> QED BY <1>1, <1>3, <1>5, <2>1, SoundParts DEF StoresTyped, Sheds
<1>12. LoopsTyped'
  BY <1>1, SoundParts DEF LoopsTyped
<1> HIDE DEF Sound, Items
<1> QED BY <1>6, <1>7, <1>8, <1>9, <1>10, <1>11, <1>12, SteadySound

-------------------------------------------------------------------------------
(* Captures and listeners. *)

LEMMA SoundNext ==
    ASSUME SessionTyped', StoresTyped', LoopsTyped', Numbered', Past', UpToHead', Fresh',
           InOrder', Lined', Guarded', Heard', Voiced', Stocked', Loaded', Continued',
           BehindStream'
    PROVE  Sound'
BY PartsKindsNext DEF Sound, Items

(* A publisher that holds nothing, whatever its stream was. *)
LEMMA EmptyPublisher ==
    ASSUME Sound, queue' = << >>, states' = << >>, line' = << >>,
           hooks' = {}, guards' = {}, completed' = {}
    PROVE  /\ Lined' /\ Guarded' /\ Heard' /\ Stocked' /\ Loaded' /\ Continued'
           /\ Range(queue') = {} /\ Range(line') = {} /\ Ascending(queue')
<1>1. DOMAIN queue' = {} /\ DOMAIN line' = {} /\ DOMAIN states' = {}
  BY EmptySeq
<1>2. Range(queue') = {} /\ Range(line') = {} /\ Ascending(queue') /\ Ascending(line')
  BY <1>1 DEF Range, Ascending
<1>3. Lined'
  BY <1>1, <1>2 DEF Lined
<1>4. Guarded' /\ Heard'
  BY <1>1 DEF Guarded, Heard
<1>5. Stocked' /\ Loaded' /\ Continued'
  BY <1>1 DEF Stocked, Loaded, Continued
<1> QED BY <1>2, <1>3, <1>4, <1>5

LEMMA BeginSound ==
    ASSUME Sound, BeginSourceGeneration
    PROVE  Sound'
<1> USE DEF Sound, Items
<1>1. /\ gen' = gen + 1 /\ rev' = [o \in Orders |-> 0] /\ translated' = {} /\ approved' = {}
      /\ head' = 0 /\ offered' = FALSE /\ released' = [o \in Orders |-> 0]
      /\ outbox' = << >> /\ generation' = generation + 1 /\ generation < MaxGen
      /\ hooks' = {} /\ guards' = {} /\ completed' = {} /\ consumed' = -1
      /\ known' = [g \in Gens |-> [o \in Orders |-> 0]]
      /\ latest' = {} /\ states' = << >> /\ line' = << >> /\ queue' = << >> /\ work' = TRUE
      /\ UNCHANGED << epochs, listening, synth, speaker, encoder, pcm, faults, resets >>
  BY DEF BeginSourceGeneration, RestartOrdering, lease, counters
<1>2. /\ gen \in Nat /\ generation \in Nat /\ resets \in Nat /\ gen = generation + resets
      /\ MaxGen \in Nat /\ MaxResets \in Nat /\ N \in Nat /\ resets <= MaxResets
      /\ MaxRevision \in Nat
  BY Basics, PublisherAssumption DEF Kinds, TypeOK
<1>3. /\ Lined' /\ Guarded' /\ Heard' /\ Stocked' /\ Loaded' /\ Continued'
      /\ Range(queue') = {} /\ Range(line') = {} /\ Ascending(queue')
  BY <1>1, EmptyPublisher
<1>4. Range(outbox') = {} /\ Ascending(outbox') /\ Spoken' = Spoken
  BY <1>1, EmptyRange DEF Ascending, Spoken
<1>5. Given' = Spoken
  BY <1>3, <1>4 DEF Given
<1>6. \A k \in Spoken : k.gen <= gen /\ k.gen \in Nat
  BY Basics, KeyFacts DEF Past, Given
<1>7. gen' \in Gens /\ gen' \in Nat /\ gen < gen'
  BY <1>1, <1>2 DEF Gens, Kinds
<1>8. Past'
  <2>1. \A k \in Spoken : k.gen <= gen'
    BY <1>2, <1>6, <1>7
  <2> QED BY <1>1, <1>3, <1>5, <2>1 DEF Past
<1>9. Numbered' /\ Fresh'
  BY <1>1, <1>4 DEF Numbered, Fresh
<1>10. UpToHead'
  <2>1. \A k \in Spoken : k.gen # gen'
    BY <1>2, <1>6, <1>7
  <2> QED BY <1>1, <1>5, <2>1 DEF UpToHead, Below
<1>11. InOrder'
  BY <1>3, <1>4 DEF InOrder
<1>12. \A i \in DOMAIN pcm : /\ pcm[i].gen \in Nat /\ pcm[i].gen <= gen
                             /\ i > 1 => pcm[i - 1].gen <= pcm[i].gen
  BY Basics, ChunkFacts DEF Voiced
<1>13. \A i \in DOMAIN pcm : pcm[i].gen <= gen' /\ pcm[i].gen # gen'
  BY <1>2, <1>7, <1>12
<1>14. Voiced'
  BY <1>1, <1>12, <1>13 DEF Voiced
<1>15. BehindStream'
  <2>1. pcm # << >> => Last.gen # gen' /\ Last' = Last
    BY <1>1, <1>13, LastFacts DEF Last
  <2> QED BY <1>1, <2>1 DEF BehindStream
<1>16. SessionTyped'
  <2>1. [o \in Orders |-> 0] \in [Orders -> 0..MaxRevision] /\ 0 \in 0..N
    BY <1>2
  <2>2. rev' \in [Orders -> 0..MaxRevision] /\ released' \in [Orders -> 0..MaxRevision]
        /\ head' \in 0..N /\ offered' \in BOOLEAN
    BY <1>1, <2>1
  <2>3. outbox' \in Seq(Keys)
    BY <1>1
  <2> QED BY <1>1, <1>7, <2>2, <2>3 DEF SessionTyped
<1>17. StoresTyped'
  <2>1. [g \in Gens |-> [o \in Orders |-> 0]] \in [Gens -> [Orders -> 0..MaxRevision]]
    BY <1>2
  <2>2. queue' \in Seq(Keys) /\ line' \in Seq(Keys) /\ DOMAIN states' = {}
    BY <1>1, EmptySeq
  <2>3. consumed' \in -1..(N - 1)
    BY <1>1, KeyFacts
  <2> QED BY <1>1, <2>1, <2>2, <2>3 DEF StoresTyped
<1>18. LoopsTyped'
  <2>1. speaker # None => speaker.gen \in Nat /\ speaker.gen <= generation
    BY SpeakerFacts
  <2>2. speaker # None => speaker.gen <= generation'
    BY <1>1, <1>2, <2>1
  <2>3. generation' \in Nat /\ generation' <= MaxGen /\ gen' = generation' + resets
    BY <1>1, <1>2
  <2> QED BY <1>1, <2>2, <2>3, SoundParts DEF LoopsTyped
<1> HIDE DEF Sound, Items
<1> QED BY <1>3, <1>8, <1>9, <1>10, <1>11, <1>14, <1>15, <1>16, <1>17, <1>18, SoundNext

LEMMA LeaveSound ==
    ASSUME Sound, Leave
    PROVE  Sound'
<1> USE DEF Sound, Items
<1>1. /\ listening' = FALSE /\ Discarded(hooks)
      /\ hooks' = {} /\ guards' = {} /\ completed' = {} /\ consumed' = -1
      /\ known' = [g \in Gens |-> [o \in Orders |-> 0]]
      /\ latest' = {} /\ states' = << >> /\ line' = << >> /\ queue' = << >> /\ work' = FALSE
      /\ synth' = None /\ speaker' = None /\ encoder' = 0 /\ pcm' = << >>
      /\ UNCHANGED << epochs, generation, faults, resets >>
  BY DEF Leave, counters
<1>2. outbox' = outbox /\ Dismissed(hooks)
  BY <1>1, DiscardedDismisses
<1>3. /\ Numbered' /\ head' \in 0..N /\ offered' \in BOOLEAN
      /\ \A k \in Keys \ hooks : Below(k) => Below(k)'
      /\ gen' = gen /\ rev' = rev /\ translated' = translated /\ approved' = approved
      /\ released' = released
  BY <1>2, DismissedFacts
<1>4. /\ Lined' /\ Guarded' /\ Heard' /\ Stocked' /\ Loaded' /\ Continued'
      /\ Range(queue') = {} /\ Range(line') = {} /\ Ascending(queue')
  BY <1>1, EmptyPublisher
<1>5. Spoken' = {} /\ Given' = Range(outbox)
  BY <1>1, <1>2, <1>4 DEF Spoken, Given
<1>6. Past'
  BY <1>1, <1>3, <1>4, <1>5 DEF Past, Given
<1>7. UpToHead'
  <2>1. Range(outbox) \subseteq Keys \ hooks
    BY Basics DEF Fresh, Guarded
  <2> QED BY <1>1, <1>3, <1>5, <2>1 DEF UpToHead, Given
<1>8. Fresh'
  BY <1>1, <1>2, <1>3 DEF Fresh
<1>9. InOrder'
  BY <1>1, <1>2, <1>4, <1>5 DEF InOrder, Ascending
<1>10. Voiced' /\ BehindStream'
  <2>1. DOMAIN pcm' = {}
    BY <1>1, EmptySeq
  <2> QED BY <1>1, <2>1 DEF Voiced, BehindStream
<1>11. SessionTyped'
  BY <1>2, <1>3, SoundParts DEF SessionTyped
<1>12. StoresTyped'
  <2>1. MaxRevision \in Nat
    BY PublisherAssumption
  <2>2. [g \in Gens |-> [o \in Orders |-> 0]] \in [Gens -> [Orders -> 0..MaxRevision]]
    BY <2>1
  <2>3. queue' \in Seq(Keys) /\ line' \in Seq(Keys) /\ DOMAIN states' = {}
    BY <1>1, EmptySeq
  <2>4. consumed' \in -1..(N - 1)
    BY <1>1, KeyFacts
  <2> QED BY <1>1, <2>2, <2>3, <2>4 DEF StoresTyped
<1>13. LoopsTyped'
  <2>1. encoder' \in 0..EncoderSlots /\ pcm' \in Seq(Chunk)
    BY <1>1, PublisherAssumption
  <2> QED BY <1>1, <1>3, <2>1, SoundParts DEF LoopsTyped
<1> HIDE DEF Sound, Items
<1> QED BY <1>3, <1>4, <1>6, <1>7, <1>8, <1>9, <1>10, <1>11, <1>12, <1>13, SoundNext

LEMMA JoinSound ==
    ASSUME Sound, Join
    PROVE  Sound'
<1> USE DEF Sound, Items
<1> DEFINE keep  == IF queue = << >> THEN << >> ELSE << queue[Len(queue)] >>
           stale == Range(queue) \ Range(keep)
<1>1. /\ ~listening /\ listening' = TRUE /\ epochs < MaxEpochs /\ epochs' = epochs + 1
      /\ queue' = keep /\ latest' = latest \ stale /\ DropStates(stale)
      /\ work' = (work \/ queue # << >>) /\ pcm' = << >>
      /\ UNCHANGED << gen, rev, translated, approved, head, offered, released, outbox,
                      known, completed, consumed, generation, hooks, guards, synth,
                      speaker, encoder, faults, resets >>
  BY DEF Join, session, callbacks, counters
<1>2. speaker = None
  BY <1>1, SpeakerFacts
<1>3. Spoken = {} /\ Spoken' = {} /\ (\A k : ~Speaking(k)) /\ (\A k : ~Speaking(k)')
  BY <1>1, <1>2 DEF Spoken, Speaking
<1>4. queue' \in Seq(Keys) /\ Range(queue') \subseteq Range(queue) /\ Ascending(queue')
  <2>1. queue \in Seq(Keys)
    BY Basics
  <2>2. CASE queue = << >>
    BY <1>1, <2>1, <2>2, EmptyRange DEF Ascending
  <2>3. CASE queue # << >>
    <3>1. queue' = << queue[Len(queue)] >>
      BY <1>1, <2>3
    <3>2. << queue[Len(queue)] >> \in Seq(Keys)
          /\ Range(<< queue[Len(queue)] >>) = {queue[Len(queue)]}
          /\ queue[Len(queue)] \in Range(queue)
      BY <2>1, <2>3, RangeFacts
    <3>3. DOMAIN << queue[Len(queue)] >> = {1}
      OBVIOUS
    <3>4. Ascending(<< queue[Len(queue)] >>)
      BY <3>3 DEF Ascending
    <3> QED BY <3>1, <3>2, <3>4
  <2> QED BY <2>2, <2>3
<1>5. stale = Range(queue) \ Range(queue')
  BY <1>1
<1> HIDE DEF keep, stale
<1>6. Sheds(stale) /\ \A k \in DOMAIN states' : states'[k] = states[k]
  BY <1>1, DropSheds
<1>7. Given' \subseteq Given
  BY <1>1, <1>3, <1>4 DEF Given
<1>8. Numbered' /\ Fresh'
  BY <1>1 DEF Numbered, Fresh
<1>9. Past'
  BY <1>1, <1>6, <1>7 DEF Past, Sheds
<1>10. UpToHead'
  BY <1>1, <1>7 DEF UpToHead, Below
<1>11. InOrder'
  BY <1>1, <1>3, <1>4 DEF InOrder, Ascending
<1>12. Lined'
  <2>1. \A k \in Range(line') : k \in Range(queue')
    BY <1>3, <1>5, <1>6 DEF Lined, Sheds
  <2> QED BY <1>3, <1>6, <2>1 DEF Lined, Sheds, Ascending
<1>13. Guarded'
  <2>1. \A k \in DOMAIN states' : k \in DOMAIN states
    BY <1>6 DEF Sheds
  <2> QED BY <1>1, <1>3, <1>4, <2>1 DEF Guarded
<1>14. Heard'
  BY <1>1 DEF Heard
<1>15. Voiced' /\ BehindStream'
  <2>1. DOMAIN pcm' = {}
    BY <1>1, EmptySeq
  <2> QED BY <1>1, <2>1 DEF Voiced, BehindStream
<1>16. Stocked' /\ Loaded' /\ Continued'
  <2>1. \A k \in DOMAIN states' : k \in DOMAIN states /\ states'[k] = states[k]
    BY <1>6 DEF Sheds
  <2> QED BY <1>1, <1>3, <2>1 DEF Stocked, Loaded, Continued
<1>17. SessionTyped'
  BY <1>1, SoundParts DEF SessionTyped
<1>18. StoresTyped'
  BY <1>1, <1>4, <1>6, SoundParts DEF StoresTyped, Sheds
<1>19. LoopsTyped'
  <2>1. epochs' \in 0..MaxEpochs /\ pcm' \in Seq(Chunk)
    <3>1. epochs \in 0..MaxEpochs /\ MaxEpochs \in Nat
      BY SoundParts, PublisherAssumption DEF LoopsTyped
    <3> QED BY <1>1, <3>1
  <2>2. work' \in BOOLEAN
    BY <1>1, StateFacts
  <2> QED BY <1>1, <1>2, <2>1, <2>2, SoundParts DEF LoopsTyped
<1> HIDE DEF Sound, Items
<1> QED BY <1>8, <1>9, <1>10, <1>11, <1>12, <1>13, <1>14, <1>15, <1>16, <1>17,
           <1>18, <1>19, SoundNext

-------------------------------------------------------------------------------
(* The publish loop. *)

(* The loop is done with item k: the queue may have lost it just before.    *)
LEMMA GivesUpSound ==
    ASSUME Sound, NEW k \in Keys, NEW g,
           GiveUp(k, g), UNCHANGED << lease, latest, known, consumed, generation, synth,
                                      encoder, pcm, resets >>,
           faults' \in 0..MaxFaults, faults' = 0 => faults = 0,
           queue' \in Seq(Keys), Ascending(queue'), Range(queue') \subseteq Range(queue),
           \A j \in Range(queue') \cup Range(outbox) : Earlier(k, j),
           \A j \in Range(queue) : j \in Range(queue') \/ (j = k /\ g = generation),
           \A j : Speaking(j) => j = k /\ g = generation
    PROVE  Sound'
<1> USE DEF Sound, Items
<1>1. /\ speaker' = None /\ work' = TRUE
      /\ UNCHANGED << epochs, listening, latest, known, consumed, generation, synth,
                      encoder, pcm, resets >>
  BY DEF GiveUp, Finish, lease
<1>2. PICK D, G, C :
          /\ Sheds(D) /\ \A j \in DOMAIN states' : states'[j] = states[j]
          /\ hooks' = hooks \ G /\ guards' = guards \ G
          /\ completed' = completed \cup C
          /\ D = G /\ (D = IF g = generation THEN {k} ELSE {})
          /\ \A j \in C : j = k /\ k \in DOMAIN states /\ states[k].published > 0
          /\ Dismissed(D \cap hooks) /\ outbox' = outbox
  <2>1. CASE g = generation
    <3> DEFINE spoken == k \in DOMAIN states /\ states[k].published > 0
    <3>1. /\ DropStates({k}) /\ hooks' = hooks \ {k} /\ guards' = guards \ {k}
          /\ completed' = IF spoken THEN completed \cup {k} ELSE completed
          /\ Discarded({k} \cap hooks)
      BY <2>1 DEF GiveUp, Finish
    <3>2. Sheds({k}) /\ \A j \in DOMAIN states' : states'[j] = states[j]
      BY <3>1, DropSheds
    <3>3. Dismissed({k} \cap hooks) /\ outbox' = outbox
      BY <3>1, DiscardedDismisses
    <3> DEFINE A == IF spoken THEN {k} ELSE {}
    <3>4. completed' = completed \cup A /\ \A j \in A : j = k /\ spoken
      BY <3>1
    <3> HIDE DEF A
    <3> WITNESS {k}, {k}, A
    <3> QED BY <2>1, <3>1, <3>2, <3>3, <3>4
  <2>2. CASE g # generation
    <3>1. UNCHANGED << states, line, callbacks, completed, session >>
      BY <2>2 DEF GiveUp, Finish
    <3>2. Sheds({})
      BY <3>1, ShedNothing
    <3>3. Dismissed({} \cap hooks) /\ outbox' = outbox
      BY <3>1 DEF Dismissed, session
    <3> WITNESS {}, {}, {}
    <3> QED BY <2>2, <3>1, <3>2, <3>3 DEF callbacks
  <2> QED BY <2>1, <2>2
<1>3. /\ Numbered' /\ head' \in 0..N /\ offered' \in BOOLEAN
      /\ \A j \in Keys \ (D \cap hooks) : Below(j) => Below(j)'
      /\ gen' = gen /\ rev' = rev /\ translated' = translated /\ approved' = approved
      /\ released' = released
  BY <1>2, DismissedFacts
<1>4. Spoken' = {} /\ (\A j : ~Speaking(j)') /\ Given' \subseteq Given
  BY <1>1, <1>2 DEF Spoken, Speaking, Given
<1>5. k \notin Range(queue') \cup Range(outbox)
  BY EarlierIsStrict
<1>6. Past'
  <2>1. \A j \in Given' \cup guards' \cup Range(line') :
           j \in Given \cup guards \cup Range(line)
    BY <1>2, <1>4 DEF Sheds
  <2>2. \A j \in C : j.gen <= gen
    <3>1. ASSUME NEW j \in C PROVE j.gen <= gen
      <4>1. j = k /\ k \in DOMAIN states /\ states[k].published > 0
        BY <1>2
      <4>2. Speaking(k)
        BY <4>1 DEF Continued
      <4> QED BY <4>1, <4>2, SpeakerFacts DEF Past, Given
    <3> QED BY <3>1
  <2> QED BY <1>2, <1>3, <2>1, <2>2 DEF Past
<1>7. UpToHead'
  <2>1. ASSUME NEW j \in Given' \cup guards' PROVE Below(j)'
    <3>1. j \in Given \cup guards /\ j \in Keys /\ Below(j)
      BY <1>2, <1>4, Basics DEF Given, UpToHead
    <3>2. j \notin D
      <4>1. CASE j \in Given'
        BY <1>2, <1>4, <1>5, <4>1 DEF Given
      <4>2. CASE j \in guards'
        BY <1>2, <4>2
      <4> QED BY <2>1, <4>1, <4>2
    <3> QED BY <1>3, <3>1, <3>2
  <2> QED BY <2>1 DEF UpToHead
<1>8. Fresh'
  BY <1>2, <1>3 DEF Fresh
<1>9. InOrder'
  BY <1>2, <1>4 DEF InOrder, Ascending
<1>10. Lined'
  <2>1. Ascending(line')
    BY <1>2 DEF Lined, Sheds
  <2>2. ASSUME NEW j \in Range(line') PROVE j \in Range(queue')
    <3>1. j \in Range(line) /\ j \notin D
      BY <1>2 DEF Sheds
    <3>2. j \in Range(queue) \/ Speaking(j)
      BY <3>1 DEF Lined
    <3> QED BY <1>2, <3>1, <3>2
  <2> QED BY <1>4, <2>1, <2>2 DEF Lined, Ascending
<1>11. Guarded'
  <2>1. ASSUME NEW j \in DOMAIN states', j \in Range(queue') PROVE j \in guards'
    BY <1>2, <2>1 DEF Guarded, Sheds
  <2> QED BY <1>2, <1>4, <2>1 DEF Guarded
<1>12. Heard'
  <2> SUFFICES ASSUME NEW j \in (guards' \ hooks') \cup completed', j.gen = gen
               PROVE  released[j.order] = j.rev
    BY <1>3 DEF Heard
  <2>1. CASE j \in (guards \ hooks) \cup completed
    BY <2>1 DEF Heard
  <2>2. CASE j \notin (guards \ hooks) \cup completed
    <3>1. j \in C
      BY <1>2, <2>2
    <3>2. j \in DOMAIN states /\ states[j].published > 0
      BY <1>2, <3>1
    <3>3. pcm # << >> /\ Says(Last, j)
      BY <3>2 DEF Continued
    <3>4. Len(pcm) \in DOMAIN pcm /\ Last = pcm[Len(pcm)]
      BY <3>3, LastFacts
    <3> QED BY <3>3, <3>4 DEF Voiced, Says
  <2> QED BY <2>1, <2>2
<1>13. Voiced'
  BY <1>1, <1>3 DEF Voiced
<1>14. \A j \in DOMAIN states' : j \in DOMAIN states /\ j \notin D /\ states'[j] = states[j]
  BY <1>2 DEF Sheds
<1>15. Stocked'
  <2>1. ASSUME NEW j \in DOMAIN states' PROVE Sane(j, states'[j], faults' = 0)
    <3>1. Sane(j, states[j], faults = 0) /\ states'[j] = states[j]
      BY <1>14 DEF Stocked
    <3> QED BY <3>1 DEF Sane
  <2> QED BY <2>1 DEF Stocked
<1>16. Loaded' /\ Continued'
  <2>1. ASSUME NEW j \in DOMAIN states' PROVE ~(states'[j].published > 0)
    <3>1. states[j].published > 0 => Speaking(j)
      BY <1>14 DEF Continued
    <3> QED BY <1>2, <1>14, <3>1
  <2> QED BY <1>4, <2>1 DEF Loaded, Continued
<1>17. BehindStream'
  <2>1. Last' = Last
    BY <1>1 DEF Last
  <2>2. Range(queue') \subseteq Range(queue) /\ Range(outbox') = Range(outbox)
    BY <1>2
  <2> QED BY <1>1, <1>3, <1>4, <2>1, <2>2 DEF BehindStream
<1>18. SessionTyped'
  BY <1>2, <1>3, SoundParts DEF SessionTyped
<1>19. StoresTyped'
  <2>1. C \subseteq Keys
    BY <1>2
  <2> QED BY <1>1, <1>2, <1>14, <2>1, SoundParts DEF StoresTyped, Sheds
<1>20. LoopsTyped'
  BY <1>1, <1>3, SoundParts DEF LoopsTyped
<1> HIDE DEF Sound, Items
<1> QED BY <1>3, <1>6, <1>7, <1>8, <1>9, <1>10, <1>11, <1>12, <1>13, <1>15, <1>16,
           <1>17, <1>18, <1>19, <1>20, SoundNext

LEMMA SpeakerGivesUp ==
    ASSUME Sound, speaker # None, GiveUp(speaker.key, speaker.gen),
           UNCHANGED << lease, queue, latest, known, consumed, generation, synth,
                        encoder, pcm, resets >>,
           faults' \in 0..MaxFaults, faults' = 0 => faults = 0
    PROVE  Sound'
<1>1. speaker.key \in Keys /\ Spoken = {speaker.key}
  BY SpeakerFacts DEF Sound
<1>2. queue' \in Seq(Keys) /\ Ascending(queue') /\ queue' = queue
  BY Basics DEF Sound, Items, InOrder
<1>3. \A j \in Range(queue') \cup Range(outbox) : Earlier(speaker.key, j)
  BY <1>1, <1>2 DEF Sound, Items, InOrder
<1>4. \A j : Speaking(j) => j = speaker.key /\ speaker.gen = generation
  BY DEF Speaking
<1> QED BY <1>1, <1>2, <1>3, <1>4, GivesUpSound

LEMMA RefuseSound ==
    ASSUME Sound, RefuseChunk
    PROVE  Sound'
<1>1. speaker.at = "append"
  BY DEF RefuseChunk, Speak
<1>2. speaker # None
  BY <1>1, SpeakerFacts DEF Sound
<1>3. GiveUp(speaker.key, speaker.gen) /\ faults' = faults /\ resets' = resets
      /\ UNCHANGED << lease, queue, latest, known, consumed, generation, synth, encoder, pcm >>
  BY DEF RefuseChunk, counters
<1> QED BY <1>2, <1>3, StateFacts, SpeakerGivesUp

LEMMA AppendFailsSound ==
    ASSUME Sound, AppendFails
    PROVE  Sound'
<1>1. speaker.at = "append"
  BY DEF AppendFails
<1>2. speaker # None
  BY <1>1, SpeakerFacts DEF Sound
<1>3. GiveUp(speaker.key, speaker.gen) /\ faults' = faults + 1 /\ faults < MaxFaults
      /\ UNCHANGED << lease, queue, latest, known, consumed, generation, synth,
                      encoder, pcm, resets >>
  BY DEF AppendFails
<1>4. faults' \in 0..MaxFaults /\ faults' # 0
  BY <1>3, StateFacts
<1> QED BY <1>2, <1>3, <1>4, SpeakerGivesUp

(* The state of k forgets that it changed. *)
LEMMA ChangedCleared ==
    ASSUME Sound, NEW k \in DOMAIN states, states' = [states EXCEPT ![k].changed = FALSE]
    PROVE  /\ DOMAIN states' = DOMAIN states
           /\ \A j \in DOMAIN states :
                 /\ Sane(j, states'[j], faults = 0)
                 /\ states'[j].published = states[j].published
                 /\ states'[j].chunks = states[j].chunks
<1>1. /\ DOMAIN states' = DOMAIN states
      /\ \A j \in DOMAIN states :
            states'[j] = IF j = k THEN [states[k] EXCEPT !.changed = FALSE] ELSE states[j]
  OBVIOUS
<1> PICK s : s = states[k]
  OBVIOUS
<1>2. Sane(k, s, faults = 0) /\ s \in State /\ k \in Keys
  BY StateFacts
<1>3. Sane(k, [s EXCEPT !.changed = FALSE], faults = 0)
  BY <1>2, SaneStates, FaultlessIsBoolean
<1>4. [s EXCEPT !.changed = FALSE].published = s.published
      /\ [s EXCEPT !.changed = FALSE].chunks = s.chunks
  BY <1>2 DEF State
<1> QED BY <1>1, <1>3, <1>4, StateFacts

LEMMA TakeSound ==
    ASSUME Sound, TakeItem
    PROVE  Sound'
<1> USE DEF Sound, Items
<1>1. PICK k : k = Head(queue)
  OBVIOUS
<1>2. /\ listening /\ speaker = None /\ queue # << >> /\ queue' = Tail(queue)
      /\ UNCHANGED << epochs, listening, latest, known, consumed, generation, synth,
                      encoder, pcm, faults, resets >>
  BY DEF TakeItem, lease, counters
<1>3. queue \in Seq(Keys) /\ Ascending(queue) /\ Range(queue) \subseteq Keys
  BY Basics DEF InOrder
<1>4. Tail(queue) \in Seq(Keys) /\ Range(queue) = {k} \cup Range(Tail(queue))
  BY <1>1, <1>2, <1>3, RangeFacts
<1>5. /\ Ascending(Tail(queue)) /\ k \notin Range(Tail(queue))
      /\ \A j \in Range(Tail(queue)) : Earlier(k, j)
  BY <1>1, <1>2, <1>3, TailFacts
<1>6. k \in Keys /\ k \in Range(queue) /\ \A j \in Range(outbox) : Earlier(k, j)
  BY <1>3, <1>4 DEF InOrder
<1>7. \A j : ~Speaking(j)
  BY <1>2 DEF Speaking
<1>8. CASE ~Valid(k, generation) \/ k \in completed \/ Exhausted(states[k])
  <2>1. GiveUp(k, generation)
    BY <1>1, <1>8 DEF TakeItem
  <2>2. UNCHANGED << lease, latest, known, consumed, generation, synth, encoder, pcm, resets >>
    BY <1>2 DEF lease
  <2>3. /\ queue' \in Seq(Keys) /\ Ascending(queue') /\ Range(queue') \subseteq Range(queue)
        /\ \A j \in Range(queue') \cup Range(outbox) : Earlier(k, j)
        /\ \A j \in Range(queue) : j \in Range(queue') \/ (j = k /\ generation = generation)
    BY <1>2, <1>4, <1>5, <1>6
  <2>4. faults' \in 0..MaxFaults /\ (faults' = 0 => faults = 0)
    BY <1>2, StateFacts
  <2> HIDE DEF Sound, Items
  <2> QED BY <1>6, <1>7, <2>1, <2>2, <2>3, <2>4, GivesUpSound
<1>9. CASE ~(~Valid(k, generation) \/ k \in completed \/ Exhausted(states[k]))
  <2>1. /\ states' = [states EXCEPT ![k].changed = FALSE]
        /\ line' = IF k \in Range(line) THEN line ELSE << k >> \o line
        /\ work' = TRUE
        /\ Working(k, generation, states[k])
        /\ UNCHANGED << session, callbacks, completed >>
    BY <1>1, <1>9 DEF TakeItem
  <2>2. k \in DOMAIN states /\ k \in latest
    BY <1>9 DEF Valid
  <2>3. UNCHANGED << gen, rev, translated, approved, head, offered, released, outbox,
                     hooks, guards, completed >>
    BY <2>1 DEF session, callbacks
  <2>4. /\ speaker'.at = IF states[k].chunks = << >> THEN "wait" ELSE "append"
        /\ speaker'.key = k /\ speaker'.gen = generation
        /\ speaker' \in Publishing /\ speaker' # None
    <3>1. speaker' = [at |-> IF states[k].chunks = << >> THEN "wait" ELSE "append",
                      key |-> k, gen |-> generation]
      BY <2>1 DEF Working
    <3>2. generation \in Nat
      BY Basics
    <3> QED BY <1>6, <3>1, <3>2 DEF Publishing, None
  <2>5. Spoken' = {k} /\ \A j : Speaking(j)' <=> j = k
    BY <1>2, <2>4 DEF Spoken, Speaking
  <2>6. /\ DOMAIN states' = DOMAIN states
        /\ \A j \in DOMAIN states :
              /\ Sane(j, states'[j], faults = 0)
              /\ states'[j].published = states[j].published
              /\ states'[j].chunks = states[j].chunks
    <3> HIDE DEF Sound, Items
    <3> QED BY <2>1, <2>2, ChangedCleared
  <2>7. Given' = Given
    BY <1>2, <1>4, <2>3, <2>5, SpeakerFacts DEF Given
  <2>8. line' \in Seq(Keys) /\ Range(line') = Range(line) \cup {k} /\ Ascending(line')
    <3>1. line \in Seq(Keys) /\ Ascending(line)
      BY Basics DEF Lined
    <3>2. CASE k \in Range(line)
      BY <2>1, <3>1, <3>2
    <3>3. CASE k \notin Range(line)
      <4>1. line' = << k >> \o line
        BY <2>1, <3>3
      <4>2. \A j \in Range(line) : Earlier(k, j)
        BY <1>4, <1>5, <1>7, <3>3 DEF Lined
      <4> HIDE DEF Sound, Items
      <4>3. /\ << k >> \o line \in Seq(Keys)
            /\ Range(<< k >> \o line) = Range(line) \cup {k}
            /\ Ascending(<< k >> \o line)
        BY <1>6, <3>1, <4>2, PrependFacts
      <4> QED BY <4>1, <4>3
    <3> QED BY <3>2, <3>3
  <2>9. Numbered' /\ Fresh'
    BY <2>3 DEF Numbered, Fresh
  <2>10. Past'
    BY <1>6, <2>3, <2>7, <2>8 DEF Past, Given
  <2>11. UpToHead'
    BY <2>3, <2>7 DEF UpToHead, Below
  <2>12. InOrder'
    <3>1. \A i \in Range(Tail(queue)), j \in Range(outbox) : Earlier(i, j)
      BY <1>4 DEF InOrder
    <3> QED BY <1>2, <1>5, <1>6, <2>3, <2>5, <3>1 DEF InOrder
  <2>13. Lined'
    <3>1. \A j \in Range(line') : j \in Range(queue') \/ j = k
      BY <1>2, <1>4, <1>7, <2>8 DEF Lined
    <3> QED BY <2>5, <2>8, <3>1 DEF Lined
  <2>14. Guarded'
    <3>1. \A j \in DOMAIN states' : j \in Range(queue') \/ j = k => j \in guards
      BY <1>2, <1>4, <2>6 DEF Guarded
    <3> QED BY <2>3, <2>5, <3>1 DEF Guarded
  <2>15. Heard' /\ Voiced'
    BY <1>2, <2>3 DEF Heard, Voiced
  <2>16. Stocked'
    BY <1>2, <2>6 DEF Stocked
  <2>17. Loaded'
    BY <2>4, <2>5, <2>6 DEF Loaded
  <2>18. Continued'
    <3>1. \A j \in DOMAIN states' : ~(states'[j].published > 0)
      BY <1>7, <2>6 DEF Continued
    <3> QED BY <3>1 DEF Continued
  <2>19. BehindStream'
    <3>1. Last' = Last /\ pcm' = pcm /\ gen' = gen
      BY <1>2, <2>3 DEF Last
    <3>2. ASSUME pcm # << >>, Last.gen = gen
          PROVE  /\ \A j \in Range(queue') \cup Range(outbox') : Earlier(Last, j)
                 /\ Earlier(Last, k)
      BY <1>2, <1>4, <2>3, <3>2 DEF BehindStream
    <3> QED BY <2>5, <3>1, <3>2 DEF BehindStream
  <2>20. SessionTyped'
    BY <2>3, SoundParts DEF SessionTyped
  <2>21. StoresTyped'
    BY <1>2, <1>4, <2>3, <2>6, <2>8, SoundParts DEF StoresTyped
  <2>22. LoopsTyped'
    <3>1. k.gen <= gen /\ gen = generation + resets /\ generation \in Nat
      BY <1>6, Basics DEF Past, Given
    <3>2. speaker'.gen <= generation' /\ speaker'.key.gen <= speaker'.gen + resets'
      BY <1>2, <2>4, <3>1
    <3> QED BY <1>2, <2>1, <2>3, <2>4, <3>2, SoundParts DEF LoopsTyped
  <2> HIDE DEF Sound, Items
  <2> QED BY <2>9, <2>10, <2>11, <2>12, <2>13, <2>14, <2>15, <2>16, <2>17, <2>18, <2>19,
             <2>20, <2>21, <2>22, SoundNext
<1> QED BY <1>8, <1>9

LEMMA WakeSound ==
    ASSUME Sound, Wake
    PROVE  Sound'
<1> USE DEF Sound, Items
<1>1. PICK k : k = speaker.key
  OBVIOUS
<1>2. /\ speaker.at = "wait"
      /\ UNCHANGED << epochs, listening, queue, latest, known, consumed, generation,
                      synth, encoder, pcm, faults, resets >>
  BY DEF Wake, lease, counters
<1>3. speaker # None /\ k \in Keys /\ speaker.gen \in Nat /\ Spoken = {k}
  BY <1>1, <1>2, SpeakerFacts
<1>4. CASE ~Valid(k, speaker.gen) \/ Exhausted(states[k])
  <2>1. GiveUp(speaker.key, speaker.gen)
    BY <1>1, <1>4 DEF Wake
  <2>2. UNCHANGED << lease, queue, latest, known, consumed, generation, synth, encoder,
                     pcm, resets >>
    BY <1>2 DEF lease
  <2>3. faults' \in 0..MaxFaults /\ (faults' = 0 => faults = 0)
    BY <1>2, StateFacts
  <2> HIDE DEF Sound, Items
  <2> QED BY <1>3, <2>1, <2>2, <2>3, SpeakerGivesUp
<1>5. CASE ~(~Valid(k, speaker.gen) \/ Exhausted(states[k]))
  <2>1. /\ states' = [states EXCEPT ![k].changed = FALSE]
        /\ Working(k, speaker.gen, states[k])
        /\ UNCHANGED << session, line, callbacks, completed, work >>
    BY <1>1, <1>5 DEF Wake
  <2>2. k \in DOMAIN states
    BY <1>5 DEF Valid
  <2>3. UNCHANGED << gen, rev, translated, approved, head, offered, released, outbox,
                     line, hooks, guards, completed, work >>
    BY <2>1 DEF session, callbacks
  <2>4. /\ speaker'.at = IF states[k].chunks = << >> THEN "wait" ELSE "append"
        /\ speaker'.key = k /\ speaker'.gen = speaker.gen
        /\ speaker' \in Publishing /\ speaker' # None
    <3>1. speaker' = [at |-> IF states[k].chunks = << >> THEN "wait" ELSE "append",
                      key |-> k, gen |-> speaker.gen]
      BY <2>1 DEF Working
    <3> QED BY <1>3, <3>1 DEF Publishing, None
  <2>5. Spoken' = Spoken /\ \A j : Speaking(j)' <=> Speaking(j)
    BY <1>1, <1>2, <1>3, <2>4 DEF Spoken, Speaking
  <2>6. /\ DOMAIN states' = DOMAIN states
        /\ \A j \in DOMAIN states :
              /\ Sane(j, states'[j], faults = 0)
              /\ states'[j].published = states[j].published
              /\ states'[j].chunks = states[j].chunks
    <3> HIDE DEF Sound, Items
    <3> QED BY <2>1, <2>2, ChangedCleared
  <2>7. Given' = Given
    BY <1>2, <2>3, <2>5 DEF Given
  <2>8. Numbered' /\ Fresh' /\ Past' /\ UpToHead'
    BY <2>3, <2>7 DEF Numbered, Fresh, Past, UpToHead, Below
  <2>9. InOrder'
    BY <1>2, <2>3, <2>5 DEF InOrder
  <2>10. Lined' /\ Guarded'
    BY <1>2, <2>3, <2>5, <2>6 DEF Lined, Guarded
  <2>11. Heard' /\ Voiced'
    BY <1>2, <2>3 DEF Heard, Voiced
  <2>12. Stocked'
    BY <1>2, <2>6 DEF Stocked
  <2>13. Loaded'
    <3>1. \A j \in DOMAIN states' : Speaking(j)' => j = k
      BY <2>4 DEF Speaking
    <3> QED BY <2>4, <2>6, <3>1 DEF Loaded
  <2>14. Last' = Last /\ pcm' = pcm /\ gen' = gen
    BY <1>2, <2>3 DEF Last
  <2>15. Continued'
    BY <2>5, <2>6, <2>14 DEF Continued, Says
  <2>16. BehindStream'
    BY <1>2, <2>3, <2>5, <2>6, <2>14 DEF BehindStream, Says
  <2>17. SessionTyped'
    BY <2>3, SoundParts DEF SessionTyped
  <2>18. StoresTyped'
    BY <1>2, <2>3, <2>6, SoundParts DEF StoresTyped
  <2>19. LoopsTyped'
    BY <1>1, <1>2, <1>3, <2>3, <2>4, SoundParts DEF LoopsTyped
  <2> HIDE DEF Sound, Items
  <2> QED BY <2>8, <2>9, <2>10, <2>11, <2>12, <2>13, <2>15, <2>16, <2>17, <2>18, <2>19,
             SoundNext
<1> QED BY <1>4, <1>5

(* What is committed is the head, or what was committed before.             *)
LEMMA CommitFacts ==
    ASSUME Sound, NEW k \in guards, CanCommit(k),
           IF k \in hooks THEN Committed(k) ELSE UNCHANGED session
    PROVE  /\ UNCHANGED << gen, rev, translated, approved, outbox >>
           /\ SessionTyped' /\ Numbered' /\ head <= head'
           /\ k.gen = gen /\ released'[k.order] = k.rev
           /\ \A o \in Orders : released[o] # 0 => released'[o] = released[o]
           /\ \A j \in Keys : Below(j) => Below(j)'
<1> USE DEF Sound, Items
<1>1. /\ k \in Keys /\ k.gen = gen /\ k.order \in Orders /\ k.rev \in Nat /\ k.rev > 0
      /\ k.rev <= MaxRevision
  BY Basics, KeyFacts DEF CanCommit
<1>2. /\ head \in Nat /\ head <= N /\ N \in Nat /\ MaxRevision \in Nat
      /\ released \in [Orders -> Nat]
  BY Basics, KeyFacts, PublisherAssumption
<1>3. CASE k \in hooks /\ released[k.order] = 0
  <2>1. /\ released' = [released EXCEPT ![k.order] = k.rev]
        /\ head' = head + 1 /\ offered' = FALSE
        /\ UNCHANGED << gen, rev, translated, approved, outbox >>
    BY <1>1, <1>3 DEF Committed
  <2>2. k.order = head /\ k.rev = rev[head]
    BY <1>3 DEF CanCommit
  <2>3. released'[k.order] = k.rev /\ \A o \in Orders : o # k.order => released'[o] = released[o]
    BY <1>1, <1>2, <2>1
  <2>4. \A o \in Orders : released[o] # 0 => released'[o] = released[o]
    BY <1>3, <2>3
  <2>5. ASSUME NEW o \in Orders, released'[o] # 0 PROVE o < head' /\ released'[o] = rev[o]
    <3>1. CASE o = k.order
      BY <1>2, <2>1, <2>2, <2>3, <3>1
    <3>2. CASE o # k.order
      <4>1. o < head /\ released'[o] = rev[o] /\ o \in Nat
        BY <2>3, <2>5, <3>2, KeyFacts DEF Numbered
      <4> QED BY <1>2, <2>1, <4>1
    <3> QED BY <3>1, <3>2
  <2>6. Numbered'
    BY <2>1, <2>5 DEF Numbered
  <2>7. ASSUME NEW j \in Keys, Below(j) PROVE Below(j)'
    <3>1. j.order \in Nat
      BY KeyFacts
    <3>2. j.gen = gen => /\ j.order <= head' /\ j.order # head' /\ j.rev <= rev[j.order]
                         /\ j.rev = rev[j.order] => j.order \in translated
      BY <1>2, <2>1, <2>7, <3>1 DEF Below
    <3> QED BY <2>1, <3>2 DEF Below
  <2>8. SessionTyped'
    <3>1. head < N
      BY <1>1, <2>2, KeyFacts
    <3>2. head' \in 0..N
      BY <1>2, <2>1, <3>1
    <3>3. released' \in [Orders -> 0..MaxRevision]
      <4>1. k.rev \in 0..MaxRevision
        BY <1>1, <1>2
      <4> QED BY <1>1, <2>1, <4>1, SoundParts DEF SessionTyped
    <3> QED BY <2>1, <3>2, <3>3, SoundParts DEF SessionTyped
  <2>9. head <= head'
    BY <1>2, <2>1
  <2> HIDE DEF Sound, Items
  <2> QED BY <1>1, <2>1, <2>3, <2>4, <2>6, <2>7, <2>8, <2>9
<1>4. CASE ~(k \in hooks /\ released[k.order] = 0)
  <2>1. UNCHANGED << gen, rev, translated, approved, head, offered, released, outbox >>
    BY <1>4 DEF Committed, session
  <2>2. released[k.order] = k.rev
    <3>1. CASE k \in hooks
      BY <1>4, <3>1 DEF CanCommit
    <3>2. CASE k \notin hooks
      BY <1>1, <3>2 DEF Heard
    <3> QED BY <3>1, <3>2
  <2>3. SessionTyped' /\ Numbered' /\ \A j \in Keys : Below(j) => Below(j)'
    BY <2>1, SoundParts DEF SessionTyped, Numbered, Below
  <2> HIDE DEF Sound, Items
  <2> QED BY <1>1, <1>2, <2>1, <2>2, <2>3
<1> QED BY <1>3, <1>4

(* A chunk of k joins the stream. *)
LEMMA StreamGrows ==
    ASSUME Kinds, NEW c \in Chunk, pcm' = Append(pcm, c)
    PROVE  /\ pcm' \in Seq(Chunk) /\ pcm' # << >> /\ Last' = c /\ Len(pcm) \in Nat
           /\ DOMAIN pcm = 1..Len(pcm) /\ DOMAIN pcm' = 1..(Len(pcm) + 1)
           /\ pcm'[Len(pcm) + 1] = c
           /\ \A i \in DOMAIN pcm : pcm'[i] = pcm[i]
<1>1. pcm \in Seq(Chunk)
  BY Basics
<1>2. /\ pcm' \in Seq(Chunk) /\ Len(pcm') = Len(pcm) + 1 /\ pcm'[Len(pcm) + 1] = c
      /\ \A i \in 1..Len(pcm) : pcm'[i] = pcm[i]
  BY <1>1, AppendProperties
<1>3. Len(pcm) \in Nat /\ DOMAIN pcm = 1..Len(pcm) /\ DOMAIN pcm' = 1..(Len(pcm) + 1)
  BY <1>1, <1>2
<1>4. pcm' # << >>
  BY <1>2, <1>3, EmptySeq
<1>5. Last' = c
  BY <1>2 DEF Last
<1> QED BY <1>2, <1>3, <1>4, <1>5

(* What the publish loop holds when it appends a chunk of k.                *)
LEMMA AppendFinds ==
    ASSUME Sound, NEW k \in DOMAIN states, Speak(k), IsCurrent(k)
    PROVE  /\ Speaking(k) /\ k \in Keys /\ k \in guards /\ k \in latest /\ CanCommit(k)
           /\ states[k].chunks # << >> /\ states[k] \in State
           /\ Sane(k, states[k], faults = 0)
           /\ states[k].chunks[1].text = states[k].published
           /\ states[k].published \in Nat /\ states[k].published < Count(k)
           /\ speaker # None /\ speaker.key = k /\ speaker.gen = generation
           /\ k.gen = gen
<1> USE DEF Sound, Items
<1>1. speaker.at = "append" /\ k = speaker.key /\ Valid(k, speaker.gen)
  BY DEF Speak, IsCurrent
<1>2. speaker.gen = generation /\ k \in latest
  BY <1>1 DEF Valid
<1>3. speaker # None
  BY <1>1, SpeakerFacts
<1>4. Speaking(k)
  BY <1>1, <1>2, <1>3 DEF Speaking
<1>5. k \in guards
  BY <1>4 DEF Guarded
<1>6. CanCommit(k)
  BY <1>5 DEF IsCurrent
<1>7. states[k].chunks # << >>
  BY <1>1, <1>4 DEF Loaded
<1>8. k \in Keys /\ Sane(k, states[k], faults = 0) /\ states[k] \in State
  BY StateFacts
<1>9. /\ states[k].chunks[1].text = states[k].published
      /\ states[k].published \in Nat /\ states[k].published < Count(k)
  <2> PICK s : s = states[k]
    OBVIOUS
  <2>1. Sane(k, s, faults = 0) /\ s.chunks # << >>
    BY <1>7, <1>8
  <2> HIDE DEF Sound, Items
  <2>2. s.chunks[1].text = s.published /\ s.published \in Nat /\ s.published < Count(k)
    BY <1>8, <2>1, SaneShared, FaultlessIsBoolean
  <2> QED BY <2>2
<1> QED BY <1>1, <1>2, <1>3, <1>4, <1>5, <1>6, <1>7, <1>8, <1>9 DEF CanCommit

LEMMA CommitSound ==
    ASSUME Sound, CommitChunk
    PROVE  Sound'
<1> USE DEF Sound, Items
<1>1. PICK k \in DOMAIN states :
       /\ Speak(k) /\ IsCurrent(k)
       /\ pcm' = Append(pcm, [capture |-> generation,
                              gen |-> k.gen, order |-> k.order, rev |-> k.rev,
                              index |-> states[k].published,
                              text |-> states[k].chunks[1].text])
       /\ consumed' = IF k.order > consumed THEN k.order ELSE consumed
       /\ encoder' = encoder + 1
       /\ work' = TRUE
       /\ IF k \in hooks THEN Committed(k) ELSE UNCHANGED session
       /\ LET s == [states[k] EXCEPT !.published = @ + 1, !.chunks = Tail(@)]
          IN  IF Exhausted(s) THEN Finish(k, speaker.gen, TRUE)
              ELSE /\ states' = [states EXCEPT ![k] = s]
                   /\ Working(k, speaker.gen, s)
                   /\ hooks' = hooks \ {k}
                   /\ UNCHANGED << line, guards, completed >>
       /\ UNCHANGED << lease, queue, latest, known, generation, synth, counters >>
  BY DEF CommitChunk
<1>2. /\ Speaking(k) /\ k \in Keys /\ k \in guards /\ k \in latest /\ CanCommit(k)
      /\ states[k].chunks # << >> /\ states[k] \in State
      /\ Sane(k, states[k], faults = 0)
      /\ states[k].chunks[1].text = states[k].published
      /\ states[k].published \in Nat /\ states[k].published < Count(k)
      /\ speaker # None /\ speaker.key = k /\ speaker.gen = generation
      /\ k.gen = gen
  <2>1. Speak(k) /\ IsCurrent(k)
    BY <1>1
  <2> HIDE DEF Sound, Items
  <2> QED BY <2>1, AppendFinds
<1>3. UNCHANGED << epochs, listening, queue, latest, known, generation, synth, faults, resets >>
  BY <1>1 DEF lease, counters
<1>4. /\ UNCHANGED << gen, rev, translated, approved, outbox >>
      /\ SessionTyped' /\ Numbered' /\ head <= head'
      /\ released'[k.order] = k.rev
      /\ \A o \in Orders : released[o] # 0 => released'[o] = released[o]
      /\ \A j \in Keys : Below(j) => Below(j)'
  <2>1. IF k \in hooks THEN Committed(k) ELSE UNCHANGED session
    BY <1>1
  <2> HIDE DEF Sound, Items
  <2> QED BY <1>2, <2>1, CommitFacts
<1> PICK c : c = [capture |-> generation,
                  gen |-> k.gen, order |-> k.order, rev |-> k.rev,
                  index |-> states[k].published, text |-> states[k].chunks[1].text]
  OBVIOUS
<1>5. c \in Chunk /\ Says(c, k) /\ c.index = states[k].published
  <2>1. /\ k.gen \in Gens /\ k.order \in Orders /\ k.rev \in Nat /\ k.rev > 0
        /\ k.rev <= MaxRevision /\ MaxRevision \in Nat
    BY <1>2, KeyFacts, PublisherAssumption
  <2>2. k.rev \in 1..MaxRevision /\ states[k].chunks[1].text \in Nat
    BY <1>2, <2>1
  <2>3. generation \in Nat
    BY Basics
  <2> QED BY <1>2, <2>1, <2>2, <2>3 DEF Chunk, Says
<1>6. /\ pcm' \in Seq(Chunk) /\ pcm' # << >> /\ Last' = c /\ Len(pcm) \in Nat
      /\ DOMAIN pcm = 1..Len(pcm) /\ DOMAIN pcm' = 1..(Len(pcm) + 1)
      /\ pcm'[Len(pcm) + 1] = c
      /\ \A i \in DOMAIN pcm : pcm'[i] = pcm[i]
  BY <1>1, <1>5, StreamGrows
<1>7. Voiced'
  <2> SUFFICES ASSUME NEW i \in DOMAIN pcm'
               PROVE  /\ pcm'[i].gen <= gen
                      /\ pcm'[i].gen = gen => released'[pcm'[i].order] = pcm'[i].rev
                      /\ i > 1 => pcm'[i - 1].gen <= pcm'[i].gen
    BY <1>4 DEF Voiced
  <2>0. gen \in Nat
    BY Basics
  <2>1. CASE i = Len(pcm) + 1
    <3>1. pcm'[i].gen = gen /\ released'[pcm'[i].order] = pcm'[i].rev
      BY <1>2, <1>4, <1>5, <1>6, <2>1 DEF Says
    <3>2. ASSUME i > 1 PROVE pcm'[i - 1].gen <= gen
      <4>1. i - 1 \in DOMAIN pcm
        BY <1>6, <2>1, <3>2
      <4> QED BY <1>6, <4>1 DEF Voiced
    <3> QED BY <2>0, <3>1, <3>2
  <2>2. CASE i # Len(pcm) + 1
    <3>1. i \in DOMAIN pcm /\ pcm'[i] = pcm[i] /\ pcm[i] \in Chunk
      BY <1>6, <2>2, Basics
    <3>2. i > 1 => pcm'[i - 1] = pcm[i - 1]
      <4>1. i > 1 => i - 1 \in DOMAIN pcm
        BY <1>6, <3>1
      <4> QED BY <1>6, <4>1
    <3>3. pcm[i].gen = gen => released'[pcm[i].order] = pcm[i].rev
      <4>1. pcm[i].rev # 0 /\ pcm[i].order \in Orders
        BY <3>1, ChunkFacts
      <4> QED BY <1>4, <3>1, <4>1 DEF Voiced
    <3> QED BY <3>1, <3>2, <3>3 DEF Voiced
  <2> QED BY <2>1, <2>2
<1>8. consumed' \in -1..(N - 1) /\ encoder' \in 0..EncoderSlots
  <2>1. consumed \in -1..(N - 1) /\ encoder \in 0..EncoderSlots /\ encoder < EncoderSlots
        /\ EncoderSlots \in Nat
    BY <1>1, SoundParts, PublisherAssumption DEF StoresTyped, LoopsTyped, Speak
  <2>2. k.order \in Nat /\ k.order < N /\ N \in Nat
    BY <1>2, KeyFacts
  <2> QED BY <1>1, <2>1, <2>2
<1>9. Spoken = {k} /\ \A j : Speaking(j) <=> j = k
  BY <1>2 DEF Spoken, Speaking
<1>10. \A j \in Range(queue) \cup Range(outbox) : Earlier(k, j) /\ Earlier(c, j)
  <2>1. \A j \in Range(queue) \cup Range(outbox) : Earlier(k, j)
    BY <1>9 DEF InOrder
  <2> QED BY <1>5, <2>1 DEF Earlier, Says, SameSentence
<1>11. \A j \in (guards \ hooks) \cup completed \cup {k} : j.gen = gen => released'[j.order] = j.rev
  <2>1. ASSUME NEW j \in (guards \ hooks) \cup completed, j.gen = gen
        PROVE  released'[j.order] = j.rev
    <3>1. released[j.order] = j.rev /\ j \in Keys
      BY <2>1, Basics DEF Heard
    <3>2. j.rev # 0 /\ j.order \in Orders
      BY <3>1, KeyFacts
    <3> QED BY <1>4, <3>1, <3>2
  <2> QED BY <1>4, <2>1
<1>12. \A j \in Range(line) : j = k \/ j \in Range(queue)
  BY <1>2, <1>9 DEF Lined
<1>13. \A j \in DOMAIN states : j = k \/ states[j].published = 0
  <2>1. \A j \in DOMAIN states : states[j].published \in Nat
    BY StateFacts DEF State
  <2> QED BY <1>9, <2>1 DEF Continued
<1> PICK s : s = [states[k] EXCEPT !.published = @ + 1, !.chunks = Tail(@)]
  OBVIOUS
<1>14. Sane(k, s, faults = 0) /\ s.published = states[k].published + 1
  <2> PICK z : z = states[k]
    OBVIOUS
  <2>1. z.published \in Nat /\ z \in State /\ Sane(k, z, faults = 0) /\ z.chunks # << >>
    BY <1>2
  <2>2. s = [z EXCEPT !.published = @ + 1, !.chunks = Tail(@)]
    OBVIOUS
  <2>3. s.published = z.published + 1
    BY <2>1, <2>2 DEF State
  <2> HIDE DEF Sound, Items
  <2>4. Sane(k, [z EXCEPT !.published = @ + 1, !.chunks = Tail(@)], faults = 0)
    BY <1>2, <2>1, SaneShared, FaultlessIsBoolean
  <2> QED BY <2>2, <2>3, <2>4
<1>15. Fresh' \/ ~(guards' \subseteq guards)
  BY <1>4 DEF Fresh
<1>16. CASE Exhausted(s)
  <2>1. /\ speaker' = None /\ DropStates({k})
        /\ hooks' = hooks \ {k} /\ guards' = guards \ {k} /\ completed' = completed \cup {k}
    BY <1>1, <1>2, <1>16 DEF Finish
  <2>2. Sheds({k}) /\ \A j \in DOMAIN states' : states'[j] = states[j]
    BY <2>1, DropSheds
  <2>3. Spoken' = {} /\ (\A j : ~Speaking(j)') /\ Given' \subseteq Given
    BY <1>3, <1>4, <2>1 DEF Spoken, Speaking, Given
  <2>4. Past'
    <3>1. k \in Given
      BY <1>9 DEF Given
    <3> QED BY <1>4, <2>1, <2>2, <2>3, <3>1 DEF Past, Sheds
  <2>5. UpToHead'
    <3>1. Given \cup guards \subseteq Keys
      BY Basics DEF Given
    <3> QED BY <1>4, <2>1, <2>3, <3>1 DEF UpToHead
  <2>6. Fresh'
    BY <1>15, <2>1
  <2>7. InOrder'
    BY <1>3, <1>4, <2>3 DEF InOrder
  <2>8. Lined'
    <3>1. \A j \in Range(line') : j \in Range(queue')
      BY <1>3, <1>12, <2>2 DEF Sheds
    <3> QED BY <2>2, <2>3, <3>1 DEF Lined, Sheds, Ascending
  <2>9. Guarded'
    BY <1>3, <2>1, <2>2, <2>3 DEF Guarded, Sheds
  <2>10. Heard'
    BY <1>4, <1>11, <2>1 DEF Heard
  <2>11. \A j \in DOMAIN states' : j \in DOMAIN states /\ j # k /\ states'[j] = states[j]
    BY <2>2 DEF Sheds
  <2>12. Stocked'
    BY <1>3, <2>11 DEF Stocked
  <2>13. Loaded' /\ Continued'
    BY <1>13, <2>3, <2>11 DEF Loaded, Continued
  <2>14. BehindStream'
    BY <1>3, <1>4, <1>6, <1>10, <2>3 DEF BehindStream
  <2>15. StoresTyped'
    BY <1>2, <1>3, <1>8, <2>1, <2>2, <2>11, SoundParts DEF StoresTyped, Sheds
  <2>16. LoopsTyped'
    <3>1. listening
      BY <1>2, SpeakerFacts
    <3> QED BY <1>1, <1>3, <1>4, <1>6, <1>8, <2>1, <3>1, SoundParts DEF LoopsTyped
  <2> HIDE DEF Sound, Items
  <2> QED BY <1>4, <1>7, <2>4, <2>5, <2>6, <2>7, <2>8, <2>9, <2>10, <2>12, <2>13, <2>14,
             <2>15, <2>16, SoundNext
<1>17. CASE ~Exhausted(s)
  <2>1. /\ states' = [states EXCEPT ![k] = s] /\ Working(k, speaker.gen, s)
        /\ hooks' = hooks \ {k} /\ UNCHANGED << line, guards, completed >>
    BY <1>1, <1>17
  <2>2. /\ DOMAIN states' = DOMAIN states
        /\ \A j \in DOMAIN states : states'[j] = IF j = k THEN s ELSE states[j]
    BY <2>1
  <2>3. /\ speaker'.at = IF s.chunks = << >> THEN "wait" ELSE "append"
        /\ speaker'.key = k /\ speaker'.gen = generation
        /\ speaker' \in Publishing /\ speaker' # None
    <3>1. speaker' = [at |-> IF s.chunks = << >> THEN "wait" ELSE "append",
                      key |-> k, gen |-> generation]
      BY <1>2, <2>1 DEF Working
    <3>2. generation \in Nat
      BY Basics
    <3> QED BY <1>2, <3>1, <3>2 DEF Publishing, None
  <2>4. Spoken' = {k} /\ \A j : Speaking(j)' <=> j = k
    BY <1>3, <2>3 DEF Spoken, Speaking
  <2>5. Given' = Given
    BY <1>3, <1>4, <1>9, <2>4 DEF Given
  <2>6. Past'
    BY <1>4, <2>1, <2>5 DEF Past
  <2>7. UpToHead'
    <3>1. Given \cup guards \subseteq Keys
      BY Basics DEF Given
    <3> QED BY <1>4, <2>1, <2>5, <3>1 DEF UpToHead
  <2>8. Fresh'
    BY <1>15, <2>1
  <2>9. InOrder'
    BY <1>3, <1>4, <1>9, <2>4 DEF InOrder
  <2>10. Lined'
    BY <1>3, <1>9, <2>1, <2>2, <2>4 DEF Lined
  <2>11. Guarded'
    BY <1>3, <1>9, <2>1, <2>2, <2>4 DEF Guarded
  <2>12. Heard'
    BY <1>4, <1>11, <2>1 DEF Heard
  <2>13. Stocked'
    BY <1>3, <1>14, <2>2 DEF Stocked
  <2>14. Loaded'
    BY <2>2, <2>3, <2>4 DEF Loaded
  <2>15. Continued'
    <3>1. ASSUME NEW j \in DOMAIN states', states'[j].published > 0 PROVE j = k
      <4>1. j # k => states'[j].published = 0
        BY <1>13, <2>2
      <4> QED BY <3>1, <4>1
    <3>2. Says(c, k) /\ states'[k].published = c.index + 1
      BY <1>5, <1>14, <2>2
    <3> QED BY <1>6, <2>4, <3>1, <3>2 DEF Continued, Says
  <2>16. BehindStream'
    <3>1. Says(c, k) /\ states'[k].published = c.index + 1
      BY <1>5, <1>14, <2>2
    <3> QED BY <1>3, <1>4, <1>6, <1>10, <2>4, <3>1 DEF BehindStream, Says
  <2>17. StoresTyped'
    BY <1>2, <1>3, <1>8, <2>1, <2>2, SoundParts DEF StoresTyped
  <2>18. LoopsTyped'
    <3>1. listening /\ k.gen <= gen /\ gen = generation + resets /\ generation \in Nat
      BY <1>2, Basics, SpeakerFacts
    <3>2. speaker'.gen <= generation' /\ speaker'.key.gen <= speaker'.gen + resets'
      BY <1>3, <2>3, <3>1
    <3> QED BY <1>1, <1>3, <1>4, <1>6, <1>8, <2>3, <3>1, <3>2, SoundParts DEF LoopsTyped
  <2> HIDE DEF Sound, Items
  <2> QED BY <1>4, <1>7, <2>6, <2>7, <2>8, <2>9, <2>10, <2>11, <2>12, <2>13, <2>14, <2>15,
             <2>16, <2>17, <2>18, SoundNext
<1> QED BY <1>16, <1>17

-------------------------------------------------------------------------------
(* publish() queues an item. *)

LEMMA QueuedSound ==
    ASSUME Sound, PublishQueued
    PROVE  Sound'
<1> USE DEF Sound, Items
<1> PICK k : k = Head(outbox)
  OBVIOUS
<1> PICK full \in BOOLEAN : full <=> Len(queue) >= QueueSize
  OBVIOUS
<1> PICK rest : rest = IF full THEN Tail(queue) ELSE queue
  OBVIOUS
<1> PICK old : old = Others(k) \cup (IF full THEN {Head(queue)} ELSE {})
  OBVIOUS
<1> DEFINE kept == Restrict(states, DOMAIN states \ old)
<1>1. /\ outbox # << >> /\ outbox' = Tail(outbox)
      /\ full => ~listening
      /\ known' = [known EXCEPT ![k.gen][k.order] = k.rev]
      /\ latest' = (latest \ old) \cup (IF full /\ Head(queue) = k THEN {} ELSE {k})
      /\ queue' = Append(rest, k)
      /\ states' = [j \in DOMAIN kept \cup {k} |->
                       [(IF j \in DOMAIN kept THEN kept[j] ELSE NewState)
                           EXCEPT !.changed = (j = k) \/ @]]
      /\ line' = Append(Without(line, old), k)
      /\ hooks' = (hooks \ (Others(k) \cap DOMAIN states)) \cup {k}
      /\ guards' = (guards \ (Others(k) \cap DOMAIN states)) \cup {k}
      /\ work' = TRUE
  BY DEF PublishQueued
<1>2. UNCHANGED << gen, rev, translated, approved, head, offered, released, epochs, listening,
                   completed, consumed, generation, synth, speaker, encoder, pcm,
                   faults, resets >>
  BY DEF PublishQueued, lease, counters
<1>3. /\ outbox \in Seq(Keys) /\ k \in Keys /\ k \in Range(outbox)
      /\ Range(outbox') \subseteq Range(outbox) /\ Ascending(outbox') /\ outbox' \in Seq(Keys)
      /\ k \notin Range(outbox') /\ \A j \in Range(outbox') : Earlier(k, j)
  <2>1. outbox \in Seq(Keys) /\ Ascending(outbox) /\ Range(outbox) \subseteq Keys
    BY Basics DEF InOrder
  <2>2. Range(outbox) = {k} \cup Range(Tail(outbox)) /\ Tail(outbox) \in Seq(Keys)
    BY <1>1, <2>1, RangeFacts
  <2>3. /\ Ascending(Tail(outbox)) /\ k \notin Range(Tail(outbox))
        /\ \A j \in Range(Tail(outbox)) : Earlier(k, j)
    BY <1>1, <2>1, TailFacts
  <2> QED BY <1>1, <2>1, <2>2, <2>3
<1>4. k.gen = gen /\ k.rev = rev[k.order] /\ k \notin guards /\ Below(k)
  BY <1>3 DEF Fresh, UpToHead, Given
<1>5. /\ rest \in Seq(Keys) /\ Ascending(rest) /\ Range(rest) \subseteq Range(queue)
      /\ full => queue # << >> /\ Range(queue) = {Head(queue)} \cup Range(rest)
                 /\ Head(queue) \notin Range(rest) /\ Head(queue) # k
      /\ ~full => rest = queue
  <2>1. queue \in Seq(Keys) /\ Ascending(queue)
    BY Basics DEF InOrder
  <2>2. ASSUME full
        PROVE  /\ Tail(queue) \in Seq(Keys) /\ Ascending(Tail(queue)) /\ queue # << >>
               /\ Range(queue) = {Head(queue)} \cup Range(Tail(queue))
               /\ Head(queue) \notin Range(Tail(queue)) /\ Head(queue) # k
    <3>1. queue # << >>
      <4>1. Len(queue) >= QueueSize /\ QueueSize > 0 /\ Len(queue) \in Nat /\ QueueSize \in Nat
        BY <2>1, <2>2, PublisherAssumption
      <4>2. Len(queue) # 0
        BY <4>1
      <4> QED BY <4>2, EmptySeq
    <3>2. Tail(queue) \in Seq(Keys) /\ Range(queue) = {Head(queue)} \cup Range(Tail(queue))
      BY <2>1, <3>1, RangeFacts
    <3>3. Ascending(Tail(queue)) /\ Head(queue) \notin Range(Tail(queue))
      BY <2>1, <3>1, TailFacts
    <3>4. Earlier(Head(queue), k)
      BY <1>3, <3>2 DEF InOrder
    <3> QED BY <1>3, <3>1, <3>2, <3>3, <3>4, EarlierIsStrict
  <2> QED BY <2>1, <2>2
<1>6. \A j \in Range(queue) \cup Spoken : Earlier(j, k) /\ j # k
  BY <1>3, EarlierIsStrict DEF InOrder
<1>7. queue' \in Seq(Keys) /\ Range(queue') = Range(rest) \cup {k} /\ Ascending(queue')
  BY <1>1, <1>3, <1>5, <1>6, AppendFacts
<1>8. k \notin old
  BY <1>5, OtherKeys
<1>9. \A j \in Range(queue) : j \in old \/ j \in Range(rest)
  BY <1>5
<1>10. full => speaker = None
  BY <1>1, SpeakerFacts
<1>11. Spoken' = Spoken /\ (\A j : Speaking(j)' <=> Speaking(j)) /\ Last' = Last
       /\ (full => \A j : ~Speaking(j)) /\ (\A j : Speaking(j) => j \in Spoken)
  BY <1>2, <1>10, SpeakerFacts DEF Spoken, Speaking, Last
<1>12. /\ DOMAIN states' = (DOMAIN states \ old) \cup {k}
       /\ \A j \in DOMAIN states' :
             states'[j] = IF j \in DOMAIN states
                          THEN [states[j] EXCEPT !.changed = (j = k) \/ states[j].changed]
                          ELSE [NewState EXCEPT !.changed = TRUE]
  <2>1. /\ DOMAIN kept = DOMAIN states \ old
        /\ \A j \in DOMAIN kept : kept[j] = states[j]
    BY DEF Restrict
  <2> HIDE DEF kept
  <2>2. DOMAIN states' = (DOMAIN states \ old) \cup {k}
    BY <1>1, <2>1
  <2>3. ASSUME NEW j \in DOMAIN states, j \notin old
        PROVE  states'[j] = [states[j] EXCEPT !.changed = (j = k) \/ states[j].changed]
    BY <1>1, <2>1, <2>3
  <2>4. k \notin DOMAIN states => states'[k] = [NewState EXCEPT !.changed = TRUE]
    <3>1. k \notin DOMAIN states =>
             states'[k] = [NewState EXCEPT !.changed = (k = k) \/ NewState.changed]
      BY <1>1, <2>1
    <3>2. ((k = k) \/ NewState.changed) = TRUE
      OBVIOUS
    <3> QED BY <3>1, <3>2
  <2> QED BY <1>8, <2>2, <2>3, <2>4
<1>13. ASSUME NEW j \in DOMAIN states'
       PROVE  /\ Sane(j, states'[j], faults = 0)
              /\ j \in DOMAIN states => states'[j].published = states[j].published
                                        /\ states'[j].chunks = states[j].chunks
              /\ j \notin DOMAIN states => j = k /\ states'[j].published = 0
  <2>1. CASE j \in DOMAIN states
    <3> PICK s : s = states[j]
      OBVIOUS
    <3> PICK b : b = ((j = k) \/ s.changed)
      OBVIOUS
    <3>1. Sane(j, s, faults = 0) /\ s \in State /\ j \in Keys
      BY <2>1, StateFacts
    <3>2. b \in BOOLEAN
      BY <3>1 DEF State
    <3>3. states'[j] = [s EXCEPT !.changed = b]
      BY <1>12, <2>1
    <3>4. [s EXCEPT !.changed = b].published = s.published
          /\ [s EXCEPT !.changed = b].chunks = s.chunks
      BY <3>1 DEF State
    <3> HIDE DEF Sound, Items
    <3>5. Sane(j, [s EXCEPT !.changed = b], faults = 0)
      BY <3>1, <3>2, SaneStates, FaultlessIsBoolean
    <3> QED BY <2>1, <3>3, <3>4, <3>5
  <2>2. CASE j \notin DOMAIN states
    <3>1. j = k /\ states'[j] = [NewState EXCEPT !.changed = TRUE]
      BY <1>12, <2>2
    <3>2. [NewState EXCEPT !.changed = TRUE].published = 0
      BY DEF NewState
    <3> HIDE DEF Sound, Items
    <3>3. Sane(k, [NewState EXCEPT !.changed = TRUE], faults = 0)
      BY <1>3, SaneStates, FaultlessIsBoolean
    <3> QED BY <2>2, <3>1, <3>2, <3>3
  <2> QED BY <2>1, <2>2
<1>14. line' \in Seq(Keys) /\ Range(line') = (Range(line) \ old) \cup {k} /\ Ascending(line')
  <2> PICK w : w = Without(line, old)
    OBVIOUS
  <2>1. line \in Seq(Keys) /\ Ascending(line)
    BY Basics DEF Lined
  <2>2. w \in Seq(Keys) /\ Range(w) = Range(line) \ old /\ Ascending(w)
    BY <2>1, WithoutFacts
  <2>3. \A j \in Range(w) : Earlier(j, k)
    BY <1>6, <1>11, <2>2 DEF Lined
  <2>4. line' = Append(w, k)
    BY <1>1
  <2> HIDE DEF Sound, Items
  <2> QED BY <1>3, <2>2, <2>3, <2>4, AppendFacts
<1>15. Given' \subseteq Given /\ k \in Given
  BY <1>3, <1>5, <1>7, <1>11 DEF Given
<1>16. Numbered'
  BY <1>2 DEF Numbered
<1>17. Past'
  <2>1. \A j \in Given' \cup guards' \cup completed' \cup Range(line') :
           j \in Given \cup guards \cup completed \cup Range(line)
    BY <1>1, <1>2, <1>14, <1>15
  <2> QED BY <1>2, <2>1 DEF Past
<1>18. UpToHead'
  <2>1. Given' \cup guards' \subseteq Given \cup guards
    BY <1>1, <1>15
  <2> QED BY <1>2, <2>1 DEF UpToHead, Below
<1>19. Fresh'
  BY <1>1, <1>2, <1>3 DEF Fresh
<1>20. InOrder'
  <2>1. \A i \in Range(queue'), j \in Range(outbox') : Earlier(i, j)
    BY <1>3, <1>5, <1>7 DEF InOrder
  <2>2. \A i \in Spoken', j \in Range(queue') \cup Range(outbox') : Earlier(i, j)
    BY <1>3, <1>5, <1>7, <1>11 DEF InOrder
  <2> QED BY <1>3, <1>7, <2>1, <2>2 DEF InOrder
<1>21. Lined'
  <2>1. \A j \in Range(line') : j \in Range(queue') \/ Speaking(j)
    BY <1>7, <1>9, <1>14 DEF Lined
  <2>2. \A j \in DOMAIN states' : Speaking(j) => j \in Range(line')
    BY <1>12, <1>14 DEF Lined
  <2> QED BY <1>11, <1>14, <2>1, <2>2 DEF Lined
<1>22. Guarded'
  <2>1. ASSUME NEW j \in DOMAIN states', j \in Range(queue') \/ Speaking(j) PROVE j \in guards'
    <3>1. CASE j = k
      BY <1>1, <3>1
    <3>2. CASE j # k
      <4>1. j \in DOMAIN states /\ j \notin old /\ (j \in Range(queue) \/ Speaking(j))
        BY <1>5, <1>7, <1>12, <2>1, <3>2
      <4>2. j \in guards /\ j \notin Others(k)
        BY <1>12, <3>2, <4>1 DEF Guarded
      <4> QED BY <1>1, <4>2
    <3> QED BY <3>1, <3>2
  <2>2. hooks' \subseteq guards'
    BY <1>1 DEF Guarded
  <2> QED BY <1>11, <2>1, <2>2 DEF Guarded
<1>23. Heard'
  <2>1. (guards' \ hooks') \subseteq (guards \ hooks)
    BY <1>1
  <2> QED BY <1>2, <2>1 DEF Heard
<1>24. Voiced'
  BY <1>2 DEF Voiced
<1>25. Stocked'
  BY <1>2, <1>13 DEF Stocked
<1>26. \A j : Speaking(j) => j # k
  BY <1>6, <1>11
<1>27. Loaded'
  <2>1. \A j \in DOMAIN states' : Speaking(j) => j \in DOMAIN states
    BY <1>12, <1>26
  <2> QED BY <1>2, <1>11, <1>13, <2>1 DEF Loaded
<1>28. Continued'
  <2> SUFFICES ASSUME NEW j \in DOMAIN states', states'[j].published > 0
               PROVE  /\ Speaking(j) /\ pcm # << >>
                      /\ Says(Last, j) /\ states'[j].published = Last.index + 1
    BY <1>2, <1>11 DEF Continued, Says
  <2>1. j \in DOMAIN states /\ states'[j].published = states[j].published
    BY <1>13
  <2> QED BY <2>1 DEF Continued
<1>29. BehindStream'
  <2> SUFFICES ASSUME pcm # << >>, Last.gen = gen
               PROVE  /\ \A j \in Range(queue') \cup Range(outbox') : Earlier(Last, j)
                      /\ \A j \in Spoken :
                            \/ Earlier(Last, j)
                            \/ /\ Says(Last, j)
                               /\ j \in DOMAIN states' => states'[j].published = Last.index + 1
    BY <1>2, <1>11 DEF BehindStream, Earlier, SameSentence, Says
  <2>1. \A j \in Range(queue') \cup Range(outbox') : Earlier(Last, j)
    BY <1>3, <1>5, <1>7 DEF BehindStream
  <2>2. ASSUME NEW j \in Spoken, ~Earlier(Last, j)
        PROVE  /\ Says(Last, j)
               /\ j \in DOMAIN states' => states'[j].published = Last.index + 1
    <3>1. j # k
      BY <1>6
    <3>2. j \in DOMAIN states' => j \in DOMAIN states
                                  /\ states'[j].published = states[j].published
      BY <1>12, <1>13, <3>1
    <3> QED BY <2>2, <3>2 DEF BehindStream
  <2> QED BY <2>1, <2>2
<1>30. SessionTyped'
  BY <1>2, <1>3, SoundParts DEF SessionTyped
<1>31. StoresTyped'
  <2>1. known' \in [Gens -> [Orders -> 0..MaxRevision]]
    <3>1. known \in [Gens -> [Orders -> 0..MaxRevision]]
      BY SoundParts DEF StoresTyped
    <3>2. k.gen \in Gens /\ k.order \in Orders /\ k.rev \in 0..MaxRevision
      <4>1. k.rev \in Nat /\ k.rev <= MaxRevision /\ MaxRevision \in Nat
        BY <1>3, KeyFacts, PublisherAssumption
      <4> QED BY <1>3, <4>1, KeyFacts
    <3> QED BY <1>1, <3>1, <3>2
  <2>2. DOMAIN states' \subseteq Keys
    BY <1>3, <1>12, StateFacts
  <2> QED BY <1>1, <1>2, <1>3, <1>7, <1>14, <2>1, <2>2, SoundParts DEF StoresTyped
<1>32. LoopsTyped'
  BY <1>1, <1>2, SoundParts DEF LoopsTyped
<1> HIDE DEF Sound, Items
<1> QED BY <1>16, <1>17, <1>18, <1>19, <1>20, <1>21, <1>22, <1>23, <1>24, <1>25, <1>27,
           <1>28, <1>29, <1>30, <1>31, <1>32, SoundNext

-------------------------------------------------------------------------------
(* The inductive invariant. *)

LEMMA InitSound == Init => Sound
<1> SUFFICES ASSUME Init PROVE Sound
  OBVIOUS
<1>1. /\ gen = 0 /\ rev = [o \in Orders |-> 0] /\ translated = {} /\ approved = {}
      /\ head = 0 /\ offered = FALSE /\ released = [o \in Orders |-> 0] /\ outbox = << >>
      /\ epochs = 0 /\ listening = FALSE /\ generation = 0
      /\ queue = << >> /\ states = << >> /\ line = << >>
      /\ latest = {} /\ known = [g \in Gens |-> [o \in Orders |-> 0]]
      /\ hooks = {} /\ guards = {} /\ completed = {} /\ consumed = -1
      /\ work = FALSE /\ synth = None /\ speaker = None
      /\ encoder = 0 /\ pcm = << >> /\ faults = 0 /\ resets = 0
  BY DEF Init
<1>2. /\ MaxGen \in Nat /\ MaxResets \in Nat /\ N \in Nat /\ MaxRevision \in Nat
      /\ MaxEpochs \in Nat /\ EncoderSlots \in Nat /\ MaxFaults \in Nat
  BY PublisherAssumption
<1>3. << >> \in Seq(Keys) /\ << >> \in Seq(Chunk) /\ DOMAIN << >> = {}
  BY EmptySeq
<1>4. Ascending(<< >>) /\ Range(<< >>) = {} /\ Spoken = {} /\ \A k : ~Speaking(k)
  BY <1>1, <1>3, EmptyRange DEF Ascending, Spoken, Speaking
<1>5. SessionTyped
  <2>1. [o \in Orders |-> 0] \in [Orders -> 0..MaxRevision] /\ 0 \in 0..N /\ 0 \in Gens
    BY <1>2 DEF Gens
  <2>2. rev \in [Orders -> 0..MaxRevision] /\ released \in [Orders -> 0..MaxRevision]
    BY <1>1, <2>1
  <2> QED BY <1>1, <1>3, <2>1, <2>2 DEF SessionTyped
<1>6. StoresTyped
  <2>1. [g \in Gens |-> [o \in Orders |-> 0]] \in [Gens -> [Orders -> 0..MaxRevision]]
    BY <1>2
  <2>2. consumed \in -1..(N - 1)
    BY <1>1, KeyFacts
  <2> QED BY <1>1, <1>3, <2>1, <2>2 DEF StoresTyped
<1>7. LoopsTyped
  <2>1. /\ 0 \in 0..MaxEpochs /\ 0 \in 0..EncoderSlots /\ 0 \in 0..MaxFaults
        /\ 0 \in 0..MaxResets /\ 0 <= MaxGen
    BY <1>2
  <2>2. /\ epochs \in 0..MaxEpochs /\ encoder \in 0..EncoderSlots
        /\ faults \in 0..MaxFaults /\ resets \in 0..MaxResets
        /\ gen = generation + resets /\ generation \in Nat /\ generation <= MaxGen
    BY <1>1, <2>1
  <2>3. pcm \in Seq(Chunk) /\ listening \in BOOLEAN /\ work \in BOOLEAN
    BY <1>1, <1>3
  <2> QED BY <1>1, <2>2, <2>3 DEF LoopsTyped
<1>8. Stocked
  BY <1>1, <1>3 DEF Stocked
<1>9. Kinds
  BY <1>5, <1>6, <1>7, <1>8, PartsKinds
<1>10. Given = {}
  BY <1>1, <1>4 DEF Given
<1>11. Numbered /\ Past /\ UpToHead /\ Fresh
  BY <1>1, <1>4, <1>10 DEF Numbered, Past, UpToHead, Fresh
<1>12. InOrder /\ Lined /\ Guarded /\ Heard
  BY <1>1, <1>3, <1>4 DEF InOrder, Lined, Guarded, Heard
<1>13. Voiced /\ Loaded /\ Continued /\ BehindStream
  BY <1>1, <1>3, <1>4 DEF Voiced, Loaded, Continued, BehindStream
<1> QED BY <1>8, <1>9, <1>11, <1>12, <1>13 DEF Sound, Items

LEMMA NextSound == Sound /\ [Next]_vars => Sound'
<1> SUFFICES ASSUME Sound, [Next]_vars PROVE Sound'
  OBVIOUS
<1>1. CASE \E o \in Orders : Register(o)
  BY <1>1, RegisterSound
<1>2. CASE \E o \in Orders : Translate(o)
  BY <1>2, TranslateSound
<1>3. CASE \E o \in Orders : Approve(o) \/ Withdraw(o)
  BY <1>3, StillSound
<1>4. CASE Offer \/ ForceDrain
  BY <1>4, OfferSound, ForceDrainSound
<1>5. CASE ResetOrdering \/ BeginSourceGeneration
  BY <1>5, ResetOrderingSound, BeginSound
<1>6. CASE PublishItem
  BY <1>6, SwallowedSound, QueuedSound, RefusedSound DEF PublishItem
<1>7. CASE Join \/ Leave
  BY <1>7, JoinSound, LeaveSound
<1>8. CASE Synthesis
  BY <1>8, SynthesisSound
<1>9. CASE Publication
  BY <1>9, TakeSound, CommitSound, RefuseSound, AppendFailsSound, WakeSound DEF Publication
<1>10. CASE WriterStep \/ UNCHANGED vars
  BY <1>10, StillSound
<1> QED BY <1>1, <1>2, <1>3, <1>4, <1>5, <1>6, <1>7, <1>8, <1>9, <1>10 DEF Next

(* The publisher keeps its items in the order of the session, with callbacks *)
(* and guards, and prepares and shares the chunks of an item in their order.  *)
THEOREM PublisherIsSound == Spec => []Sound
<1> QED BY InitSound, NextSound, PTL DEF Spec

(* Every variable of session, publisher and loops keeps its type. *)
THEOREM PublisherTyped == Spec => []TypeOK
<1>1. Sound => TypeOK
  BY DEF Sound, Kinds
<1> QED BY <1>1, PublisherIsSound, PTL

(* Shared speech is a revision the session released and no other.           *)
THEOREM OnlyReleasedIsShared == Spec => []SharedIsReleased
<1>1. Sound => SharedIsReleased
  BY DEF Sound, Voiced, SharedIsReleased
<1> QED BY <1>1, PublisherIsSound, PTL

-------------------------------------------------------------------------------
(* The stream: what a chunk continues. *)

(* Only committing a chunk adds to the stream, and failures and resets are  *)
(* counted.                                                                 *)
LEMMA StreamStep ==
    ASSUME Sound, [Next]_vars
    PROVE  /\ pcm' = pcm \/ pcm' = << >> \/ CommitChunk
           /\ faults' = 0 => faults = 0
           /\ resets' = 0 => resets = 0
<1>0. faults \in Nat /\ resets \in Nat
  BY StateFacts, Basics
<1>1. CASE \E o \in Orders : Register(o) \/ Translate(o) \/ Approve(o) \/ Withdraw(o)
  BY <1>1 DEF Register, Translate, Approve, Withdraw, counters
<1>2. CASE Offer \/ ForceDrain
  BY <1>2 DEF Offer, ForceDrain, counters
<1>3. CASE ResetOrdering \/ BeginSourceGeneration
  <2>1. CASE ResetOrdering
    <3>1. pcm' = pcm /\ faults' = faults /\ resets' = resets + 1
      BY <2>1 DEF ResetOrdering
    <3> QED BY <1>0, <3>1
  <2>2. CASE BeginSourceGeneration
    BY <2>2 DEF BeginSourceGeneration, counters
  <2> QED BY <1>3, <2>1, <2>2
<1>4. CASE PublishItem
  BY <1>4 DEF PublishItem, PublishSwallowed, PublishQueued, PublishRefused, counters
<1>5. CASE Join \/ Leave
  BY <1>5 DEF Join, Leave, counters
<1>6. CASE Synthesis
  BY <1>6, SynthesisEffect DEF Synthesized, SynthesisFrame
<1>7. CASE TakeItem
  BY <1>7 DEF TakeItem, counters
<1>8. CASE CommitChunk
  BY <1>8 DEF CommitChunk, counters
<1>9. CASE RefuseChunk \/ Wake
  BY <1>9 DEF RefuseChunk, Wake, counters
<1>10. CASE AppendFails
  <2>1. faults' = faults + 1 /\ pcm' = pcm /\ resets' = resets
    BY <1>10 DEF AppendFails
  <2> QED BY <1>0, <2>1
<1>11. CASE WriterStep
  BY <1>11 DEF WriterStep, counters
<1>12. CASE UNCHANGED vars
  BY <1>12 DEF vars, counters
<1> QED BY <1>1, <1>2, <1>3, <1>4, <1>5, <1>6, <1>7, <1>8, <1>9, <1>10, <1>11, <1>12
        DEF Next, Publication

(* The chunk that is committed. *)
LEMMA ChunkJoins ==
    ASSUME Sound, CommitChunk
    PROVE  \E k \in DOMAIN states, c \in Chunk :
              /\ Speak(k) /\ IsCurrent(k)
              /\ pcm' = Append(pcm, c) /\ Says(c, k)
              /\ c.index = states[k].published /\ c.text = states[k].published
              /\ c.capture = generation
              /\ IF k \in hooks THEN Committed(k) ELSE UNCHANGED session
              /\ LET s == [states[k] EXCEPT !.published = @ + 1, !.chunks = Tail(@)]
                 IN  IF Exhausted(s) THEN Finish(k, speaker.gen, TRUE)
                     ELSE /\ states' = [states EXCEPT ![k] = s]
                          /\ Working(k, speaker.gen, s)
                          /\ hooks' = hooks \ {k}
                          /\ UNCHANGED << line, guards, completed >>
              /\ UNCHANGED << lease, queue, latest, known, generation, synth, counters >>
              /\ consumed' = IF k.order > consumed THEN k.order ELSE consumed
<1>1. PICK k \in DOMAIN states :
       /\ Speak(k) /\ IsCurrent(k)
       /\ pcm' = Append(pcm, [capture |-> generation,
                              gen |-> k.gen, order |-> k.order, rev |-> k.rev,
                              index |-> states[k].published,
                              text |-> states[k].chunks[1].text])
       /\ consumed' = IF k.order > consumed THEN k.order ELSE consumed
       /\ encoder' = encoder + 1
       /\ work' = TRUE
       /\ IF k \in hooks THEN Committed(k) ELSE UNCHANGED session
       /\ LET s == [states[k] EXCEPT !.published = @ + 1, !.chunks = Tail(@)]
          IN  IF Exhausted(s) THEN Finish(k, speaker.gen, TRUE)
              ELSE /\ states' = [states EXCEPT ![k] = s]
                   /\ Working(k, speaker.gen, s)
                   /\ hooks' = hooks \ {k}
                   /\ UNCHANGED << line, guards, completed >>
       /\ UNCHANGED << lease, queue, latest, known, generation, synth, counters >>
  BY DEF CommitChunk
<1> DEFINE c == [capture |-> generation,
                 gen |-> k.gen, order |-> k.order, rev |-> k.rev,
                 index |-> states[k].published, text |-> states[k].chunks[1].text]
<1>2. /\ k \in Keys /\ states[k].chunks[1].text = states[k].published
      /\ states[k].published \in Nat
  BY <1>1, AppendFinds
<1>3. c \in Chunk
  <2>1. generation \in Nat
    BY Basics DEF Sound
  <2> QED BY <1>2, <2>1 DEF Chunk, Keys
<1>4. /\ Says(c, k) /\ c.index = states[k].published /\ c.text = states[k].published
      /\ c.capture = generation
  BY <1>2 DEF Says
<1> QED BY <1>1, <1>3, <1>4

(* A chunk carries the audio of the piece it is labelled with.              *)
THEOREM LabelsAreRight == Spec => []LabelsMatchAudio
<1>1. Init => LabelsMatchAudio
  BY EmptySeq DEF Init, LabelsMatchAudio
<1>2. ASSUME Sound, LabelsMatchAudio, [Next]_vars PROVE LabelsMatchAudio'
  <2>1. CASE pcm' = pcm
    BY <1>2, <2>1 DEF LabelsMatchAudio
  <2>2. CASE pcm' = << >>
    BY <2>2, EmptySeq DEF LabelsMatchAudio
  <2>3. CASE CommitChunk
    <3>1. PICK k \in DOMAIN states, c \in Chunk :
             pcm' = Append(pcm, c) /\ c.index = c.text
      BY <1>2, <2>3, ChunkJoins
    <3>2. /\ DOMAIN pcm' = DOMAIN pcm \cup {Len(pcm) + 1} /\ pcm'[Len(pcm) + 1] = c
          /\ \A i \in DOMAIN pcm : pcm'[i] = pcm[i]
      BY <1>2, <3>1, StreamGrows DEF Sound
    <3> QED BY <1>2, <3>1, <3>2 DEF LabelsMatchAudio
  <2> QED BY <1>2, <2>1, <2>2, <2>3, StreamStep
<1> QED BY <1>1, <1>2, PublisherIsSound, PTL DEF Spec

-------------------------------------------------------------------------------
(* A sentence that was begun is finished, unless a failure intervenes.      *)

(* The item whose sentence the stream is in.                                *)
Begun(k) ==
    /\ pcm # << >> /\ Last.gen = gen /\ Last.index + 1 < Count(Last)
    /\ k \in DOMAIN states \cap latest /\ Speaking(k) /\ Says(Last, k)

LEMMA BegunFacts ==
    ASSUME Sound, NEW k, Begun(k)
    PROVE  /\ k \in Keys /\ k.gen = gen /\ k.order \in Orders /\ k.order < head
           /\ released[k.order] = k.rev /\ rev[k.order] = k.rev
           /\ speaker # None /\ speaker.key = k /\ speaker.gen = generation
           /\ CanCommit(k) /\ Valid(k, generation)
           /\ states[k].published = Last.index + 1 /\ listening
           /\ Count(k) = Count(Last)
<1> USE DEF Sound
<1>1. k \in Keys /\ k.order \in Orders /\ k.rev > 0 /\ Says(Last, k) /\ Speaking(k)
      /\ k \in DOMAIN states /\ k \in latest
  BY Basics, KeyFacts DEF Begun
<1>2. k.gen = gen /\ Last.order = k.order /\ Last.rev = k.rev /\ pcm # << >>
      /\ Last.gen = gen
  BY <1>1 DEF Begun, Says
<1>3. released[k.order] = k.rev
  BY <1>2, LastFacts DEF Voiced
<1>4. released[k.order] # 0
  BY <1>1, <1>3, KeyFacts
<1>5. k.order < head /\ rev[k.order] = k.rev
  BY <1>1, <1>3, <1>4 DEF Items, Numbered
<1>6. CanCommit(k)
  BY <1>2, <1>3, <1>4 DEF CanCommit
<1>7. speaker # None /\ speaker.key = k /\ speaker.gen = generation
  BY <1>1 DEF Speaking
<1>8. k \in Spoken /\ listening
  BY <1>7, SpeakerFacts
<1>9. ~Earlier(Last, k)
  <2>1. Last.rev \in Nat
    BY <1>1, <1>2, KeyFacts
  <2> QED BY <1>2, <2>1, ChunkFacts, LastFacts DEF Earlier, SameSentence
<1>10. states[k].published = Last.index + 1
  BY <1>1, <1>2, <1>8, <1>9 DEF BehindStream
<1>11. Count(k) = Count(Last) /\ Valid(k, generation)
  BY <1>1, <1>2 DEF Count, Valid
<1> QED BY <1>1, <1>2, <1>3, <1>5, <1>6, <1>7, <1>8, <1>10, <1>11

LEMMA UnbrokenBegins ==
    ASSUME Unbroken, faults = 0, pcm # << >>, Last.gen = gen,
           Last.index + 1 < Count(Last)
    PROVE  \E k : Begun(k)
BY DEF Unbroken, Begun

(* Steps that add nothing to the stream and leave the publish loop and the  *)
(* item it is on alone.                                                     *)
LEMMA UnbrokenStays ==
    ASSUME Sound, Unbroken, gen' = gen, pcm' = pcm, speaker' = speaker,
           generation' = generation, faults' = 0 => faults = 0,
           \A k : Begun(k) => k \in DOMAIN states' \cap latest'
    PROVE  Unbroken'
<1>1. Last' = Last
  BY DEF Last
<1>2. ASSUME faults' = 0, pcm' # << >>, Last'.gen = gen', Last'.index + 1 < Count(Last')
      PROVE  \E k \in DOMAIN states' \cap latest' : Speaking(k)' /\ Says(Last', k)
  <2>1. PICK k : Begun(k)
    BY <1>1, <1>2, UnbrokenBegins DEF Count
  <2> QED BY <1>1, <2>1 DEF Begun, Speaking
<1> QED BY <1>2 DEF Unbroken, Says

LEMMA UnbrokenEmpty ==
    ASSUME pcm' = << >> \/ faults' # 0
    PROVE  Unbroken'
BY DEF Unbroken

LEMMA UnbrokenSession ==
    ASSUME Sound, Unbroken, \E o \in Orders : Register(o) \/ Translate(o)
    PROVE  Unbroken'
<1>1. PICK o \in Orders : Register(o) \/ Translate(o)
  OBVIOUS
<1>2. /\ gen' = gen /\ pcm' = pcm /\ speaker' = speaker /\ generation' = generation
      /\ faults' = faults /\ head <= o
  BY <1>1 DEF Register, Translate, counters
<1>3. ASSUME NEW k, Begun(k) PROVE k \in DOMAIN states' \cap latest'
  <2>1. k.order < head /\ k.order \in Nat /\ head \in Nat /\ o \in Nat
    BY <1>3, BegunFacts, Basics, KeyFacts DEF Sound
  <2>2. k.order # o /\ k \in DOMAIN states /\ k \in latest
    BY <1>2, <1>3, <2>1 DEF Begun
  <2>3. CASE Register(o)
    <3> DEFINE old == {j \in DOMAIN states :
                          j.gen = gen /\ j.order = o /\ j.rev < rev[o] + 1}
    <3>1. k \notin old
      BY <2>2
    <3>2. \/ states' = states /\ latest' = latest
          \/ DropStates(old) /\ latest' = latest \ old
      BY <2>3 DEF Register, fences
    <3> HIDE DEF old
    <3> QED BY <2>2, <3>1, <3>2 DEF DropStates, Restrict
  <2>4. CASE Translate(o)
    <3>1. k \notin Others(Key(o))
      BY <2>2 DEF Others, SameSentence, Key
    <3>2. PICK old : old = Others(Key(o))
      OBVIOUS
    <3>3. \/ states' = states /\ latest' = latest
          \/ /\ latest' = (latest \ old) \cup {Key(o)}
             /\ \/ states' = Restrict(states, DOMAIN states \ old)
                \/ DOMAIN states' = DOMAIN Restrict(states, DOMAIN states \ old)
                                       \cup {Key(o)}
      BY <2>4, <3>2 DEF Translate
    <3>4. DOMAIN Restrict(states, DOMAIN states \ old) = DOMAIN states \ old
      BY DEF Restrict
    <3> QED BY <2>2, <3>1, <3>2, <3>3, <3>4
  <2> QED BY <1>1, <2>3, <2>4
<1> QED BY <1>2, <1>3, UnbrokenStays

LEMMA UnbrokenPublish ==
    ASSUME Sound, Unbroken, PublishQueued \/ PublishRefused
    PROVE  Unbroken'
<1>1. PICK h : h = Head(outbox)
  OBVIOUS
<1>2. /\ gen' = gen /\ pcm' = pcm /\ speaker' = speaker /\ generation' = generation
      /\ faults' = faults /\ outbox # << >>
  BY DEF PublishQueued, PublishRefused, counters
<1>3. h \in Range(outbox) /\ h \in Keys /\ h.gen = gen /\ h.rev = rev[h.order]
  <2>1. h \in Range(outbox) /\ Range(outbox) \subseteq Keys
    BY <1>1, <1>2, Basics, RangeFacts DEF Sound
  <2> QED BY <2>1 DEF Sound, Items, Fresh
<1>4. ASSUME NEW k, Begun(k) PROVE k \in DOMAIN states' \cap latest'
  <2>1. /\ k \in Keys /\ rev[k.order] = k.rev /\ k \in DOMAIN states /\ k \in latest
        /\ listening
    BY <1>4, BegunFacts DEF Begun
  <2>2. k \notin Others(h)
    BY <1>3, <2>1, KeyFacts DEF Others, SameSentence
  <2>3. CASE PublishQueued
    <3>1. Len(queue) >= QueueSize => ~listening
      BY <2>3 DEF PublishQueued
    <3>2. PICK old : old = Others(h) \cup
                             (IF Len(queue) >= QueueSize THEN {Head(queue)} ELSE {})
      OBVIOUS
    <3>3. k \notin old
      BY <2>1, <2>2, <3>1, <3>2
    <3>4. /\ latest \ old \subseteq latest'
          /\ DOMAIN states' = DOMAIN Restrict(states, DOMAIN states \ old) \cup {h}
      BY <1>1, <2>3, <3>2 DEF PublishQueued
    <3>5. DOMAIN Restrict(states, DOMAIN states \ old) = DOMAIN states \ old
      BY DEF Restrict
    <3> QED BY <2>1, <3>3, <3>4, <3>5
  <2>4. CASE PublishRefused
    <3>1. PICK old : old = IF Stale(h) THEN {} ELSE Others(h)
      OBVIOUS
    <3>2. k \notin old
      BY <2>2, <3>1
    <3>3. latest \ old \subseteq latest' /\ DropStates(old)
      BY <1>1, <2>4, <3>1 DEF PublishRefused
    <3> QED BY <2>1, <3>2, <3>3 DEF DropStates, Restrict
  <2> QED BY <2>3, <2>4
<1> QED BY <1>2, <1>4, UnbrokenStays

LEMMA UnbrokenSynthesis ==
    ASSUME Sound, Unbroken, Synthesis
    PROVE  Unbroken'
<1>1. Synthesized
  BY SynthesisEffect
<1>2. /\ gen' = gen /\ pcm' = pcm /\ speaker' = speaker /\ generation' = generation
      /\ faults' = 0 => faults = 0
  BY <1>1 DEF Synthesized, SynthesisFrame, session
<1>3. PICK D \in SUBSET (DOMAIN states \ latest) : Sheds(D) /\ latest' = latest
  BY <1>1 DEF Synthesized
<1>4. \A k : Begun(k) => k \in DOMAIN states' \cap latest'
  BY <1>3 DEF Begun, Sheds
<1> QED BY <1>2, <1>4, UnbrokenStays

(* The publish loop takes no item up while one is begun. *)
LEMMA UnbrokenTake ==
    ASSUME Sound, Unbroken, TakeItem
    PROVE  Unbroken'
<1>1. pcm' = pcm /\ faults' = faults /\ speaker = None
  BY DEF TakeItem, counters
<1>2. gen' = gen
  <2>1. (\E K : Discarded(K)) \/ UNCHANGED session
    BY DEF TakeItem, GiveUp
  <2> QED BY <2>1 DEF Discarded, session
<1>3. ASSUME faults' = 0, pcm' # << >>, Last'.gen = gen', Last'.index + 1 < Count(Last')
      PROVE  FALSE
  <2>1. PICK k : Begun(k)
    BY <1>1, <1>2, <1>3, UnbrokenBegins DEF Count, Last
  <2> QED BY <1>1, <2>1 DEF Begun, Speaking
<1> QED BY <1>3 DEF Unbroken

LEMMA UnbrokenRefuse ==
    ASSUME Sound, Unbroken, RefuseChunk
    PROVE  Unbroken'
<1>1. pcm' = pcm /\ faults' = faults /\ ~IsCurrent(speaker.key)
  BY DEF RefuseChunk, counters
<1>2. gen' = gen
  <2>1. (\E K : Discarded(K)) \/ UNCHANGED session
    BY DEF RefuseChunk, GiveUp
  <2> QED BY <2>1 DEF Discarded, session
<1>3. ASSUME faults' = 0, pcm' # << >>, Last'.gen = gen', Last'.index + 1 < Count(Last')
      PROVE  FALSE
  <2>1. PICK k : Begun(k)
    BY <1>1, <1>2, <1>3, UnbrokenBegins DEF Count, Last
  <2>2. k = speaker.key /\ Valid(k, speaker.gen) /\ CanCommit(k)
    BY <2>1, BegunFacts
  <2> QED BY <1>1, <2>2 DEF IsCurrent
<1> QED BY <1>3 DEF Unbroken

(* The loop does not give up a begun item: it is valid and has chunks left. *)
LEMMA UnbrokenWake ==
    ASSUME Sound, Unbroken, Wake
    PROVE  Unbroken'
<1>1. PICK w : w = speaker.key
  OBVIOUS
<1>2. /\ pcm' = pcm /\ faults' = faults /\ generation' = generation /\ latest' = latest
  BY DEF Wake, counters
<1>3. CASE ~Valid(w, speaker.gen) \/ Exhausted(states[w])
  <2>1. gen' = gen
    <3>1. (\E K : Discarded(K)) \/ UNCHANGED session
      BY <1>1, <1>3 DEF Wake, GiveUp
    <3> QED BY <3>1 DEF Discarded, session
  <2>2. ASSUME faults' = 0, pcm' # << >>, Last'.gen = gen',
               Last'.index + 1 < Count(Last')
        PROVE  FALSE
    <3>1. PICK k : Begun(k)
      BY <1>2, <2>1, <2>2, UnbrokenBegins DEF Count, Last
    <3>2. /\ k = w /\ Valid(k, speaker.gen) /\ k \in DOMAIN states /\ k \in Keys
          /\ states[k].published = Last.index + 1 /\ Count(k) = Count(Last)
      BY <1>1, <3>1, BegunFacts DEF Begun
    <3>3. Exhausted(states[k])
      BY <1>3, <3>2
    <3>4. Sane(k, states[k], faults = 0) /\ states[k] \in State
      BY <3>2, StateFacts
    <3> PICK s : s = states[k]
      OBVIOUS
    <3>5. s.chunks = << >> /\ s.done /\ s.published \in Nat
      BY <3>3, <3>4 DEF Exhausted, State
    <3>6. s.next = Count(k) /\ s.next = s.published + Len(s.chunks)
      BY <1>2, <2>2, <3>4, <3>5 DEF Sane
    <3>7. s.published = Count(k)
      BY <3>5, <3>6
    <3>8. Last.index + 1 = Count(Last) /\ Last.index + 1 < Count(Last)
      BY <3>1, <3>2, <3>7 DEF Begun
    <3>9. Count(Last) \in Nat
      BY <3>2, CountFacts
    <3> QED BY <3>8, <3>9
  <2> QED BY <2>2 DEF Unbroken
<1>4. CASE ~(~Valid(w, speaker.gen) \/ Exhausted(states[w]))
  <2>1. /\ states' = [states EXCEPT ![w].changed = FALSE]
        /\ Working(w, speaker.gen, states[w]) /\ UNCHANGED session
    BY <1>1, <1>4 DEF Wake
  <2>2. gen' = gen /\ DOMAIN states' = DOMAIN states
    BY <2>1 DEF session
  <2>3. speaker'.key = w /\ speaker'.gen = speaker.gen /\ speaker' # None
    BY <2>1 DEF Working, None
  <2>4. Last' = Last
    BY <1>2 DEF Last
  <2>5. ASSUME faults' = 0, pcm' # << >>, Last'.gen = gen',
               Last'.index + 1 < Count(Last')
        PROVE  \E k \in DOMAIN states' \cap latest' : Speaking(k)' /\ Says(Last', k)
    <3>1. PICK k : Begun(k)
      BY <1>2, <2>2, <2>4, <2>5, UnbrokenBegins DEF Count
    <3> QED BY <1>1, <1>2, <2>2, <2>3, <2>4, <3>1 DEF Begun, Speaking
  <2> QED BY <2>5 DEF Unbroken, Says
<1> QED BY <1>3, <1>4

(* After a chunk the loop stays on the item, unless it was the last one. *)
LEMMA UnbrokenCommit ==
    ASSUME Sound, Unbroken, CommitChunk
    PROVE  Unbroken'
<1>1. PICK k \in DOMAIN states, c \in Chunk :
              /\ Speak(k) /\ IsCurrent(k)
              /\ pcm' = Append(pcm, c) /\ Says(c, k)
              /\ c.index = states[k].published
              /\ LET s == [states[k] EXCEPT !.published = @ + 1, !.chunks = Tail(@)]
                 IN  IF Exhausted(s) THEN Finish(k, speaker.gen, TRUE)
                     ELSE /\ states' = [states EXCEPT ![k] = s]
                          /\ Working(k, speaker.gen, s)
                          /\ hooks' = hooks \ {k}
                          /\ UNCHANGED << line, guards, completed >>
              /\ UNCHANGED << lease, queue, latest, known, generation, synth, counters >>
  BY ChunkJoins
<1>2. /\ Speaking(k) /\ k \in Keys /\ k \in latest
      /\ Sane(k, states[k], faults = 0) /\ states[k].chunks # << >>
      /\ states[k].published \in Nat
  BY <1>1, AppendFinds
<1> PICK p : p = states[k]
  OBVIOUS
<1> PICK s : s = [p EXCEPT !.published = p.published + 1, !.chunks = Tail(p.chunks)]
  OBVIOUS
<1>3. Sane(k, s, faults = 0) /\ s.published = p.published + 1
  <2>1. Sane(k, p, faults = 0) /\ p.chunks # << >>
    BY <1>2
  <2>2. Sane(k, [p EXCEPT !.published = @ + 1, !.chunks = Tail(@)], faults = 0)
    BY <1>2, <2>1, SaneShared, FaultlessIsBoolean
  <2>3. s.published = p.published + 1
    BY <2>1 DEF Sane, State
  <2> QED BY <2>2, <2>3
<1>4. IF Exhausted(s) THEN Finish(k, speaker.gen, TRUE)
      ELSE states' = [states EXCEPT ![k] = s] /\ Working(k, speaker.gen, s)
  BY <1>1
<1>5. pcm' # << >> /\ Last' = c
  BY <1>1, StreamGrows DEF Sound
<1>6. latest' = latest /\ generation' = generation /\ faults' = faults
  BY <1>1 DEF counters
<1>7. CASE Exhausted(s)
  <2>1. ASSUME faults' = 0 PROVE ~(c.index + 1 < Count(c))
    <3>1. s.chunks = << >> /\ s.done /\ s.published \in Nat
      BY <1>3, <1>7 DEF Exhausted, Sane, State
    <3>2. s.next = Count(k) /\ s.next = s.published + Len(s.chunks)
      BY <1>3, <1>6, <2>1, <3>1 DEF Sane
    <3>3. s.published = Count(k) /\ Count(k) \in Nat
      BY <1>2, <3>1, <3>2, CountFacts
    <3>4. c.index + 1 = s.published /\ Count(c) = Count(k)
      BY <1>1, <1>3 DEF Says, Count
    <3> QED BY <3>3, <3>4
  <2> QED BY <1>5, <2>1 DEF Unbroken
<1>8. CASE ~Exhausted(s)
  <2>1. states' = [states EXCEPT ![k] = s] /\ Working(k, speaker.gen, s)
    BY <1>4, <1>8
  <2>2. DOMAIN states' = DOMAIN states
    BY <2>1
  <2>3. speaker'.key = k /\ speaker'.gen = speaker.gen /\ speaker' # None
    BY <2>1 DEF Working, None
  <2>4. Speaking(k)'
    BY <1>2, <1>6, <2>3 DEF Speaking
  <2> QED BY <1>1, <1>2, <1>5, <1>6, <2>2, <2>4 DEF Unbroken, Says
<1> QED BY <1>7, <1>8

LEMMA UnbrokenNext == Sound /\ Unbroken /\ [Next]_vars => Unbroken'
<1> SUFFICES ASSUME Sound, Unbroken, [Next]_vars PROVE Unbroken'
  OBVIOUS
<1>1. CASE \E o \in Orders : Register(o) \/ Translate(o)
  BY <1>1, UnbrokenSession
<1>2. CASE \/ \E o \in Orders : Approve(o) \/ Withdraw(o)
           \/ Offer \/ ForceDrain \/ PublishSwallowed \/ WriterStep \/ UNCHANGED vars
  <2>1. UNCHANGED << gen, pcm, speaker, generation, faults, states, latest >>
    BY <1>2 DEF Approve, Withdraw, Offer, ForceDrain, PublishSwallowed, WriterStep, vars,
                session, fences, counters
  <2> QED BY <2>1, UnbrokenStays DEF Begun
<1>3. CASE ResetOrdering \/ BeginSourceGeneration
  <2>1. gen' = gen + 1 /\ pcm' = pcm
    BY <1>3 DEF ResetOrdering, BeginSourceGeneration, RestartOrdering
  <2>2. ASSUME pcm # << >> PROVE Last.gen # gen'
    <3>1. Last.gen <= gen /\ Last.gen \in Nat /\ gen \in Nat
      BY <2>2, LastFacts, ChunkFacts, Basics DEF Sound, Voiced
    <3> QED BY <2>1, <3>1
  <2> QED BY <2>1, <2>2 DEF Unbroken, Last
<1>4. CASE PublishQueued \/ PublishRefused
  BY <1>4, UnbrokenPublish
<1>5. CASE Join \/ Leave
  BY <1>5, UnbrokenEmpty DEF Join, Leave
<1>6. CASE Synthesis
  BY <1>6, UnbrokenSynthesis
<1>7. CASE AppendFails
  <2>1. faults' # 0
    BY <1>7, StateFacts DEF AppendFails
  <2> QED BY <2>1, UnbrokenEmpty
<1>8. CASE TakeItem \/ RefuseChunk \/ Wake \/ CommitChunk
  BY <1>8, UnbrokenTake, UnbrokenRefuse, UnbrokenWake, UnbrokenCommit
<1> QED BY <1>1, <1>2, <1>3, <1>4, <1>5, <1>6, <1>7, <1>8
        DEF Next, PublishItem, Publication

LEMMA BegunIsFinished == Spec => []Unbroken
<1>1. Init => Unbroken
  BY DEF Init, Unbroken
<1> QED BY <1>1, UnbrokenNext, PublisherIsSound, PTL DEF Spec

-------------------------------------------------------------------------------
(* The order of the chunks, for a player that checks it.                    *)

LEMMA ChunkContinues ==
    ASSUME Sound, Unbroken, faults = 0, NEW k \in DOMAIN states, NEW c \in Chunk,
           Speak(k), IsCurrent(k), Says(c, k), c.index = states[k].published
    PROVE  IF pcm # << >> /\ Last.gen = c.gen THEN Continues(Last, c) ELSE c.index = 0
<1> USE DEF Sound
<1>1. /\ Speaking(k) /\ k \in Keys /\ k.gen = gen /\ CanCommit(k)
      /\ states[k].published \in Nat /\ states[k].published < Count(k)
      /\ k \in Spoken
  BY AppendFinds, SpeakerFacts
<1>2. c.gen = k.gen /\ c.order = k.order /\ c.rev = k.rev
  BY DEF Says
<1>3. CASE ~(pcm # << >> /\ Last.gen = c.gen)
  <2>1. ~(states[k].published > 0)
    BY <1>2, <1>3 DEF Continued, Says
  <2> QED BY <1>1, <1>3, <2>1
<1>4. CASE pcm # << >> /\ Last.gen = c.gen
  <2>1. /\ Last.gen = gen /\ Last \in Chunk /\ Last.index \in Nat /\ Last.order \in Nat
        /\ Last.rev \in Nat /\ Last.rev > 0 /\ c.order \in Nat /\ Last.order \in Orders
    BY <1>1, <1>2, <1>4, LastFacts, ChunkFacts
  <2>2. CASE Last.index + 1 < Count(Last)
    <3>1. PICK j : Begun(j)
      BY <1>4, <2>1, <2>2, UnbrokenBegins
    <3>2. j = k
      BY <1>1, <3>1 DEF Begun, Speaking
    <3>3. Says(Last, k) /\ c.index = Last.index + 1
      BY <3>1, <3>2, BegunFacts DEF Begun
    <3> QED BY <1>2, <1>4, <2>2, <3>3 DEF Continues, Says, SameSentence
  <2>3. CASE ~(Last.index + 1 < Count(Last))
    <3>1. ~Says(Last, k) \/ states[k].published # Last.index + 1
      <4>1. Says(Last, k) => Count(Last) = Count(k)
        BY DEF Says, Count
      <4> QED BY <1>1, <2>1, <2>3, <4>1
    <3>2. Earlier(Last, k)
      BY <1>1, <1>4, <2>1, <3>1 DEF BehindStream
    <3>3. ~SameSentence(Last, k)
      <4>1. released[Last.order] = Last.rev
        BY <1>4, <2>1, LastFacts DEF Voiced
      <4>2. ASSUME SameSentence(Last, k) PROVE FALSE
        <5>1. k.order = Last.order /\ released[k.order] = Last.rev
          BY <4>1, <4>2 DEF SameSentence
        <5>2. k.rev = Last.rev
          BY <1>1, <2>1, <5>1 DEF CanCommit
        <5> QED BY <1>1, <2>1, <3>2, <4>2, <5>2, KeyFacts DEF Earlier, SameSentence
      <4> QED BY <4>2
    <3>4. Last.order < k.order
      BY <1>1, <2>1, <3>2, <3>3, KeyFacts DEF Earlier
    <3>5. ~(states[k].published > 0)
      <4>1. ~Says(Last, k)
        BY <1>1, <2>1, <3>4, KeyFacts DEF Says
      <4> QED BY <4>1 DEF Continued
    <3> QED BY <1>1, <1>2, <1>4, <2>1, <2>3, <3>4, <3>5 DEF Continues
  <2> QED BY <2>2, <2>3
<1> QED BY <1>3, <1>4

(* As long as nothing restarts the order inside a capture, the captures of  *)
(* the player are the generations of the session.                           *)
Aligned == \A i \in DOMAIN pcm : pcm[i].capture = pcm[i].gen

(* Whoever plays the stream of a capture from its start accepts every       *)
(* chunk, if nothing has failed and no order was reset inside a capture: a  *)
(* sentence is complete before the next one starts, whatever is edited,     *)
(* withdrawn, dropped or given back meanwhile.                              *)
THEOREM PlayerIsServed == Spec => []PlayerAcceptsUnbroken
<1> DEFINE Served == faults = 0 /\ resets = 0 => Aligned /\ PlayerAccepts
<1>1. Init => Served
  BY EmptySeq DEF Init, PlayerAccepts, Aligned
<1>2. ASSUME Sound, Unbroken, Served, [Next]_vars
      PROVE  Served'
  <2>1. SUFFICES ASSUME faults = 0, resets = 0, Aligned, PlayerAccepts
                 PROVE  Aligned' /\ PlayerAccepts'
    BY <1>2, StreamStep
  <2> HIDE DEF Served
  <2>2. CASE pcm' = pcm
    BY <2>1, <2>2 DEF Aligned, PlayerAccepts, Continues, SameSentence, Count
  <2>3. CASE pcm' = << >>
    BY <2>3, EmptySeq DEF Aligned, PlayerAccepts
  <2>4. CASE CommitChunk
    <3>1. PICK k \in DOMAIN states, c \in Chunk :
             /\ Speak(k) /\ IsCurrent(k) /\ pcm' = Append(pcm, c) /\ Says(c, k)
             /\ c.index = states[k].published /\ c.capture = generation
      BY <1>2, <2>4, ChunkJoins
    <3> PICK l : l = Len(pcm)
      OBVIOUS
    <3>2. /\ l \in Nat /\ DOMAIN pcm = 1..l /\ DOMAIN pcm' = 1..(l + 1)
          /\ pcm'[l + 1] = c /\ \A i \in DOMAIN pcm : pcm'[i] = pcm[i]
      BY <1>2, <3>1, StreamGrows DEF Sound
    <3>3. IF pcm # << >> /\ Last.gen = c.gen THEN Continues(Last, c) ELSE c.index = 0
      BY <1>2, <2>1, <3>1, ChunkContinues
    <3>4. l > 0 => pcm # << >> /\ Last = pcm[l]
      BY <3>2, EmptySeq DEF Last
    <3>5. c.capture = c.gen
      <4>1. k.gen = gen
        BY <1>2, <3>1, AppendFinds
      <4>2. gen = generation + resets /\ generation \in Nat
        BY <1>2, Basics DEF Sound
      <4> QED BY <2>1, <3>1, <4>1, <4>2 DEF Says
    <3>6. ASSUME NEW i \in DOMAIN pcm' PROVE pcm'[i].capture = pcm'[i].gen
      <4>1. i \in DOMAIN pcm \/ i = l + 1
        BY <3>2
      <4> QED BY <2>1, <3>2, <3>5, <4>1 DEF Aligned
    <3>7. ASSUME NEW i \in 1..(l + 1)
          PROVE  IF i > 1 /\ pcm'[i - 1].capture = pcm'[i].capture
                 THEN Continues(pcm'[i - 1], pcm'[i]) ELSE pcm'[i].index = 0
      <4>1. CASE i \in 1..l
        <5>1. pcm'[i] = pcm[i] /\ (i > 1 => pcm'[i - 1] = pcm[i - 1])
          <6>1. i > 1 => i - 1 \in 1..l
            BY <3>2, <4>1
          <6> QED BY <3>2, <4>1, <6>1
        <5> QED BY <2>1, <3>2, <4>1, <5>1 DEF PlayerAccepts
      <4>2. CASE i = l + 1
        <5>1. i > 1 <=> l > 0
          BY <3>2, <4>2
        <5>2. i - 1 = l
          BY <3>2, <4>2
        <5>3. l > 0 => pcm'[i - 1] = Last /\ pcm # << >> /\ Last.capture = Last.gen
          <6>1. l > 0 => l \in 1..l
            BY <3>2
          <6> QED BY <2>1, <3>2, <3>4, <5>2, <6>1 DEF Aligned
        <5>4. pcm # << >> => l > 0
          BY <3>2, <3>1, EmptySeq, LastFacts, <1>2 DEF Sound
        <5>5. CASE l > 0
          BY <3>2, <3>3, <3>5, <4>2, <5>1, <5>3, <5>5
        <5>6. CASE ~(l > 0)
          BY <3>2, <3>3, <4>2, <5>1, <5>4, <5>6
        <5> QED BY <5>5, <5>6
      <4> QED BY <3>2, <4>1, <4>2
    <3> QED BY <3>2, <3>6, <3>7 DEF Aligned, PlayerAccepts, Continues, SameSentence, Count
  <2> QED BY <1>2, <2>2, <2>3, <2>4, StreamStep
<1>3. Served => PlayerAcceptsUnbroken
  BY DEF PlayerAcceptsUnbroken
<1> HIDE DEF Served
<1> QED BY <1>1, <1>2, <1>3, PublisherIsSound, BegunIsFinished, PTL DEF Spec

-------------------------------------------------------------------------------
(* The head on offer. *)

LEMMA AheadNext ==
    ASSUME Sound, Sound', Ahead, [Next]_vars
    PROVE  Ahead'
<1>1. /\ head \in Nat /\ head' \in Nat /\ consumed \in Int /\ resets \in Nat
      /\ consumed' \in Int /\ resets' \in Nat
  <2>1. consumed \in -1..(N - 1) /\ consumed' \in -1..(N - 1) /\ N \in Nat
        /\ head \in 0..N /\ head' \in 0..N /\ resets \in 0..MaxResets
        /\ resets' \in 0..MaxResets
    BY PublisherAssumption DEF Sound, Kinds, TypeOK
  <2> QED BY <2>1, PublisherAssumption
<1>2. CASE consumed' = consumed /\ resets' = resets /\ head' >= head
  BY <1>1, <1>2 DEF Ahead
<1>3. CASE consumed' = -1
  BY <1>1, <1>3 DEF Ahead
<1>4. CASE resets' # 0
  BY <1>4 DEF Ahead
<1>5. \A K : Discarded(K) \/ UNCHANGED session => head' >= head
  BY <1>1 DEF Discarded, session
<1>6. CASE \E o \in Orders : Register(o) \/ Translate(o) \/ Approve(o) \/ Withdraw(o)
  <2>1. consumed' = consumed /\ resets' = resets /\ head' = head
    BY <1>6 DEF Register, Translate, Approve, Withdraw, fences, counters
  <2> QED BY <1>1, <1>2, <2>1
<1>7. CASE Offer \/ PublishSwallowed \/ PublishQueued \/ Join \/ WriterStep
  <2>1. consumed' = consumed /\ resets' = resets /\ head' = head
    BY <1>7 DEF Offer, PublishSwallowed, PublishQueued, Join, WriterStep, fences,
                counters, session
  <2> QED BY <1>1, <1>2, <2>1
<1>8. CASE Synthesis \/ UNCHANGED vars
  <2>1. consumed' = consumed /\ resets' = resets /\ head' = head
    BY <1>8, SynthesisEffect DEF Synthesized, SynthesisFrame, session, vars, fences, counters
  <2> QED BY <1>1, <1>2, <2>1
<1>9. CASE ForceDrain
  <2>1. consumed' = consumed /\ resets' = resets
    BY <1>9 DEF ForceDrain, fences, counters
  <2>2. PICK n \in (head + 1)..N : head' = n
    BY <1>9 DEF ForceDrain
  <2>3. head' >= head
    BY <1>1, <2>2
  <2> QED BY <1>2, <2>1, <2>3
<1>10. CASE ResetOrdering
  <2>1. resets' # 0
    BY <1>1, <1>10 DEF ResetOrdering
  <2> QED BY <1>4, <2>1
<1>11. CASE BeginSourceGeneration \/ Leave
  BY <1>3, <1>11 DEF BeginSourceGeneration, Leave
<1>12. CASE PublishRefused
  <2>1. consumed' = consumed /\ resets' = resets /\ (head' = head \/ head' = head + 1)
    BY <1>12 DEF PublishRefused, counters
  <2> QED BY <1>1, <1>2, <2>1
<1>13. CASE TakeItem \/ RefuseChunk \/ AppendFails \/ Wake
  <2>1. consumed' = consumed /\ resets' = resets
    BY <1>13 DEF TakeItem, RefuseChunk, AppendFails, Wake, counters
  <2>2. (\E K : Discarded(K)) \/ UNCHANGED session
    BY <1>13 DEF TakeItem, RefuseChunk, AppendFails, Wake, GiveUp
  <2> QED BY <1>2, <1>5, <2>1, <2>2
<1>14. CASE CommitChunk
  <2>1. PICK k \in DOMAIN states :
            /\ Speak(k) /\ IsCurrent(k)
            /\ IF k \in hooks THEN Committed(k) ELSE UNCHANGED session
            /\ consumed' = IF k.order > consumed THEN k.order ELSE consumed
            /\ UNCHANGED counters
    BY <1>14, ChunkJoins
  <2>2. k \in guards /\ CanCommit(k) /\ k \in Keys
    BY <2>1, AppendFinds
  <2>3. head <= head' /\ released'[k.order] = k.rev
    BY <2>1, <2>2, CommitFacts
  <2>4. k.order < head' /\ k.order \in Nat
    BY <2>2, <2>3, KeyFacts DEF Sound, Items, Numbered
  <2>5. resets' = resets
    BY <2>1 DEF counters
  <2> QED BY <1>1, <2>1, <2>3, <2>4, <2>5 DEF Ahead
<1> QED BY <1>6, <1>7, <1>8, <1>9, <1>10, <1>11, <1>12, <1>13, <1>14
        DEF Next, PublishItem, Publication

(* Somebody will answer for k. *)
Held(k) == \/ k \in Range(outbox)
           \/ k \in hooks /\ k \in Range(queue) \cup Spoken

LEMMA HeldHead == HeadIsHeld <=> (offered /\ head < N => Held(Key(head)))
BY DEF HeadIsHeld, Held, Spoken

(* Nothing was given after the offer, and no other item is its sentence's.  *)
LEMMA OnOffer ==
    ASSUME Sound, offered, head < N, NEW k, k = Key(head)
    PROVE  /\ head \in Orders /\ k \in Keys /\ k.gen = gen /\ k.order = head
           /\ k.rev = rev[head] /\ k.rev > 0 /\ released[head] = 0
           /\ \A j \in Given : ~Earlier(k, j)
           /\ k \in Range(queue) \cup Spoken => outbox = << >>
           /\ k \in Spoken => Speaking(k)
<1> USE DEF Sound, Items
<1>1. /\ head \in Nat /\ head \in Orders /\ head \in translated /\ rev[head] > 0
      /\ rev \in [Orders -> Nat] /\ released \in [Orders -> Nat]
  BY Basics, KeyFacts DEF Numbered
<1>2. k \in Keys /\ k.gen = gen /\ k.order = head /\ k.rev = rev[head]
  BY <1>1, KeyOf
<1>3. released[head] = 0
  <2>1. released[head] # 0 => head < head
    BY <1>1 DEF Numbered
  <2> QED BY <1>1, <2>1
<1>4. ASSUME NEW j \in Given PROVE ~Earlier(k, j)
  <2>1. j \in Keys /\ j.gen <= gen
    BY Basics DEF Past, Given
  <2>2. j.gen = gen => j.order <= head /\ j.rev <= rev[j.order]
    BY DEF UpToHead, Below
  <2>3. /\ j.gen \in Nat /\ j.order \in Nat /\ j.rev \in Nat /\ gen \in Nat
        /\ j.order = head => rev[j.order] = k.rev
    BY <1>2, <2>1, KeyFacts, Basics
  <2>4. k.gen = gen /\ k.order = head /\ k.rev \in Nat
    BY <1>1, <1>2
  <2> HIDE DEF Sound, Items
  <2>5. ~(k.gen < j.gen) /\ ~(k.gen = j.gen /\ k.order < j.order)
    BY <1>1, <2>1, <2>2, <2>3, <2>4
  <2>6. ~(SameSentence(k, j) /\ k.rev < j.rev)
    BY <1>1, <2>1, <2>2, <2>3, <2>4 DEF SameSentence
  <2> QED BY <2>5, <2>6 DEF Earlier
<1>5. ASSUME k \in Range(queue) \cup Spoken, outbox # << >> PROVE FALSE
  <2>1. Head(outbox) \in Range(outbox)
    BY <1>5, RangeFacts, Basics
  <2>2. Earlier(k, Head(outbox))
    BY <1>5, <2>1 DEF InOrder
  <2> QED BY <1>4, <2>1, <2>2 DEF Given
<1>6. k \in Spoken => Speaking(k)
  BY <1>2, SpeakerFacts
<1> HIDE DEF Sound, Items
<1> QED BY <1>1, <1>2, <1>3, <1>4, <1>5, <1>6

LEMMA HeldStays ==
    ASSUME HeadIsHeld,
           offered' /\ head' < N =>
               offered /\ head' = head /\ gen' = gen /\ rev'[head] = rev[head],
           \A k : offered' /\ offered /\ head < N /\ k = Key(head) /\ Held(k) => Held(k)'
    PROVE  HeadIsHeld'
<1> SUFFICES ASSUME offered', head' < N
             PROVE  \/ Key(head)' \in Range(outbox')
                    \/ /\ Key(head)' \in hooks'
                       /\ \/ Key(head)' \in Range(queue')
                          \/ speaker' # None /\ speaker'.key = Key(head)'
  BY DEF HeadIsHeld
<1>1. offered /\ head' = head /\ head < N /\ gen' = gen /\ rev'[head] = rev[head]
  OBVIOUS
<1> PICK k : k = Key(head)
  OBVIOUS
<1>2. Key(head)' = k
  BY <1>1 DEF Key
<1>3. Held(k)'
  BY <1>1, HeldHead
<1> QED BY <1>2, <1>3 DEF Held, Spoken

LEMMA HeldSession ==
    ASSUME Sound, HeadIsHeld, \E o \in Orders : Register(o) \/ Translate(o)
    PROVE  HeadIsHeld'
<1>1. PICK o \in Orders : Register(o) \/ Translate(o)
  OBVIOUS
<1>2. /\ head' = head /\ gen' = gen /\ outbox' = outbox /\ queue' = queue
      /\ speaker' = speaker /\ (offered' => offered)
  <2>1. /\ head' = head /\ gen' = gen /\ outbox' = outbox /\ queue' = queue
        /\ speaker' = speaker
    BY <1>1 DEF Register, Translate
  <2>2. offered' = (offered /\ o # head) \/ offered' = offered
    BY <1>1, Zenon DEF Register, Translate
  <2>3. offered' => offered
    BY <2>2
  <2> QED BY <2>1, <2>3
<1>3. Spoken' = Spoken
  BY <1>2 DEF Spoken
<1>4. offered' => o # head
  <2>1. CASE Register(o)
    BY <2>1 DEF Register
  <2>2. CASE Translate(o)
    BY <1>2, <2>2 DEF Translate, Sound, Items, Numbered
  <2> QED BY <1>1, <2>1, <2>2
<1>5. offered' /\ head < N => rev'[head] = rev[head]
  <2>1. head < N => head \in Orders
    BY Basics, KeyFacts DEF Sound
  <2>2. rev' = rev \/ rev' = [rev EXCEPT ![o] = rev[o] + 1]
    BY <1>1 DEF Register, Translate
  <2> QED BY <1>4, <2>1, <2>2, Basics DEF Sound
<1>6. ASSUME NEW k, offered', offered, head < N, k = Key(head), k \in hooks
      PROVE  k \in hooks'
  <2>1. k.order = head
    BY <1>6, OnOffer
  <2>2. CASE Register(o)
    <3> DEFINE old == {j \in DOMAIN states :
                          j.gen = gen /\ j.order = o /\ j.rev < rev[o] + 1}
    <3>1. k \notin old
      BY <1>4, <1>6, <2>1
    <3>2. hooks' = hooks \/ hooks' = hooks \ old
      BY <2>2 DEF Register, callbacks
    <3> HIDE DEF old
    <3> QED BY <1>6, <3>1, <3>2
  <2>3. CASE Translate(o)
    <3>1. k \notin Others(Key(o))
      BY <1>4, <1>6, <2>1 DEF Others, SameSentence, Key
    <3>2. hooks' = hooks \/ hooks' = hooks \ (Others(Key(o)) \cap DOMAIN states)
      BY <2>3 DEF Translate, callbacks
    <3> QED BY <1>6, <3>1, <3>2
  <2> QED BY <1>1, <2>2, <2>3
<1>7. \A k : offered' /\ offered /\ head < N /\ k = Key(head) /\ Held(k) => Held(k)'
  BY <1>2, <1>3, <1>6 DEF Held
<1>8. offered' /\ head' < N =>
        offered /\ head' = head /\ gen' = gen /\ rev'[head] = rev[head]
  BY <1>2, <1>5
<1> QED BY <1>7, <1>8, HeldStays

LEMMA HeldStill ==
    ASSUME Sound, HeadIsHeld,
           UNCHANGED << gen, rev, head, offered, outbox, queue, speaker, hooks >>
    PROVE  HeadIsHeld'
BY DEF HeadIsHeld, Key

LEMMA HeldOffer ==
    ASSUME Sound, HeadIsHeld, Offer
    PROVE  HeadIsHeld'
<1>1. /\ head' = head /\ gen' = gen /\ rev' = rev /\ outbox' = << Key(head) >>
      /\ head \in translated
  BY DEF Offer
<1> PICK k : k = Key(head)
  OBVIOUS
<1>2. Key(head)' = k
  BY <1>1 DEF Key
<1>3. k \in Range(outbox')
  <2>1. outbox' = << k >> /\ 1 \in DOMAIN << k >> /\ << k >>[1] = k
    BY <1>1
  <2> QED BY <2>1 DEF Range
<1> QED BY <1>2, <1>3 DEF HeadIsHeld

(* What publish() is given is the offer, or behind it in the outbox.        *)
LEMMA HeldPublish ==
    ASSUME Sound, HeadIsHeld, consumed < head, PublishItem
    PROVE  HeadIsHeld'
<1> USE DEF Sound
<1>1. PICK h : h = Head(outbox)
  OBVIOUS
<1>2. /\ outbox # << >> /\ outbox' = Tail(outbox)
      /\ gen' = gen /\ rev' = rev
  BY DEF PublishItem, PublishSwallowed, PublishQueued, PublishRefused
<1>3. /\ Range(outbox) = {h} \cup Range(outbox')
      /\ h \in Keys
  BY <1>1, <1>2, Basics, RangeFacts
<1>4. ASSUME offered', head' < N PROVE offered /\ head' = head
  <2>1. CASE PublishRefused
    BY <1>4, <2>1 DEF PublishRefused
  <2>2. CASE PublishQueued \/ PublishSwallowed
    BY <1>4, <2>2 DEF PublishQueued, PublishSwallowed
  <2> QED BY <2>1, <2>2 DEF PublishItem
<1>5. ASSUME NEW k, offered', offered, head < N, k = Key(head), Held(k) PROVE Held(k)'
  <2>1. /\ k \in Keys /\ k.gen = gen /\ k.order = head /\ k.rev = rev[head] /\ k.rev > 0
        /\ released[head] = 0 /\ head \in Orders /\ k.order \in Nat
        /\ k \notin Range(queue) \cup Spoken
    BY <1>2, <1>5, OnOffer, KeyFacts
  <2>2. k \in Range(outbox)
    BY <1>5, <2>1 DEF Held
  <2>3. CASE k # h
    BY <1>3, <2>2, <2>3 DEF Held
  <2>4. CASE k = h
    <3>1. CASE PublishSwallowed
      <4>1. k \in completed \/ k.order <= consumed \/ \E i \in DOMAIN line : line[i] = k
        BY <1>1, <2>4, <3>1 DEF PublishSwallowed, Swallowed
      <4>2. k \notin completed
        <5>1. k \in completed => released[k.order] = k.rev
          BY <2>1 DEF Items, Heard
        <5> QED BY <2>1, <5>1, KeyFacts
      <4>3. ~(k.order <= consumed)
        <5>1. consumed \in -1..(N - 1) /\ N \in Nat
          BY PublisherAssumption DEF Kinds, TypeOK
        <5> QED BY <2>1, <5>1
      <4>4. k \in Range(line) => k \in Range(queue) \cup Spoken
        BY SpeakerFacts DEF Items, Lined
      <4>5. (\E i \in DOMAIN line : line[i] = k) => k \in Range(line)
        BY DEF Range
      <4> QED BY <2>1, <4>1, <4>2, <4>3, <4>4, <4>5
    <3>2. CASE PublishRefused
      BY <1>1, <1>5, <2>4, <3>2 DEF PublishRefused
    <3>3. CASE PublishQueued
      <4>1. PICK q : q = IF Len(queue) >= QueueSize THEN Tail(queue) ELSE queue
        OBVIOUS
      <4>2. queue' = Append(q, k)
        BY <1>1, <2>4, <3>3, <4>1 DEF PublishQueued
      <4>3. k \in hooks'
        BY <1>1, <2>4, <3>3 DEF PublishQueued
      <4>4. q \in Seq(Keys)
        <5>1. queue \in Seq(Keys) /\ QueueSize \in Nat \ {0}
          BY Basics, PublisherAssumption
        <5>2. Len(queue) >= QueueSize => queue # << >>
          BY <5>1, EmptySeq
        <5> QED BY <4>1, <5>1, <5>2, RangeFacts
      <4>5. k \in Range(queue')
        <5> HIDE DEF Sound
        <5>1. Range(Append(q, k)) = Range(q) \cup {k}
          BY <2>1, <4>4, AppendFacts
        <5> QED BY <4>2, <5>1
      <4> QED BY <4>3, <4>5 DEF Held
    <3> QED BY <3>1, <3>2, <3>3 DEF PublishItem
  <2> QED BY <2>3, <2>4
<1>6. offered' /\ head' < N =>
        offered /\ head' = head /\ gen' = gen /\ rev'[head] = rev[head]
  BY <1>2, <1>4
<1> HIDE DEF Sound
<1> QED BY <1>5, <1>6, HeldStays

(* The last item of the queue survives the start of an epoch: an offer is   *)
(* never older than another item.                                           *)
LEMMA HeldJoin ==
    ASSUME Sound, HeadIsHeld, Join
    PROVE  HeadIsHeld'
<1>1. /\ UNCHANGED << gen, rev, head, offered, outbox, speaker, hooks >>
      /\ queue' = IF queue = << >> THEN << >> ELSE << queue[Len(queue)] >>
  BY DEF Join, session, callbacks
<1>2. Spoken' = Spoken
  BY <1>1 DEF Spoken
<1>3. ASSUME NEW k, offered, head < N, k = Key(head), k \in Range(queue)
      PROVE  k \in Range(queue')
  <2>1. queue \in Seq(Keys) /\ Ascending(queue)
    BY Basics DEF Sound, Items, InOrder
  <2>2. queue # << >>
    BY <1>3, <2>1, RangeFacts
  <2>3. k = queue[Len(queue)] \/ Earlier(k, queue[Len(queue)])
    BY <1>3, <2>1, <2>2, TailFacts
  <2>4. queue[Len(queue)] \in Range(queue)
        /\ Range(<< queue[Len(queue)] >>) = {queue[Len(queue)]}
    BY <2>1, <2>2, RangeFacts
  <2>5. ~Earlier(k, queue[Len(queue)])
    BY <1>3, <2>4, OnOffer DEF Given
  <2> QED BY <1>1, <2>2, <2>3, <2>4, <2>5
<1>4. \A k : offered' /\ offered /\ head < N /\ k = Key(head) /\ Held(k) => Held(k)'
  BY <1>1, <1>2, <1>3 DEF Held
<1>5. offered' /\ head' < N =>
        offered /\ head' = head /\ gen' = gen /\ rev'[head] = rev[head]
  BY <1>1
<1> QED BY <1>4, <1>5, HeldStays

(* Callbacks that are dropped with an answer. *)
LEMMA HeldDismissed ==
    ASSUME Sound, HeadIsHeld, NEW D, Discarded(D),
           \A k : offered' /\ offered /\ head < N /\ k = Key(head) /\ k \notin D
                     /\ k \in hooks /\ k \in Range(queue) \cup Spoken =>
                  k \in hooks' /\ k \in Range(queue') \cup Spoken'
    PROVE  HeadIsHeld'
<1>1. gen' = gen /\ rev' = rev /\ outbox' = outbox
  BY DEF Discarded, session
<1>2. ASSUME offered' PROVE offered /\ head' = head /\ ~(head < N /\ Key(head) \in D)
  BY <1>2 DEF Discarded, session
<1>3. \A k : offered' /\ offered /\ head < N /\ k = Key(head) /\ Held(k) => Held(k)'
  BY <1>1, <1>2 DEF Held
<1>4. offered' /\ head' < N =>
        offered /\ head' = head /\ gen' = gen /\ rev'[head] = rev[head]
  BY <1>1, <1>2
<1> QED BY <1>3, <1>4, HeldStays

LEMMA HeldLeave ==
    ASSUME Sound, HeadIsHeld, Leave
    PROVE  HeadIsHeld'
BY HeldDismissed DEF Leave

(* The publish loop gives up an item it has, or takes it up to give it up.  *)
LEMMA HeldGivesUp ==
    ASSUME Sound, HeadIsHeld, NEW k \in Keys, NEW g, GiveUp(k, g),
           \A j \in Range(queue) \cup Spoken : j \in Range(queue') \/ j = k,
           g # generation => Spoken = {k} /\ ~Speaking(k) /\ queue' = queue
    PROVE  HeadIsHeld'
<1>1. CASE g = generation
  <2>1. Discarded({k} \cap hooks) /\ hooks' = hooks \ {k}
    BY <1>1 DEF GiveUp, Finish
  <2> PICK D : D = {k} \cap hooks
    OBVIOUS
  <2>2. Discarded(D)
    BY <2>1
  <2>3. \A j : j \notin D /\ j \in hooks /\ j \in Range(queue) \cup Spoken =>
                 j \in hooks' /\ j \in Range(queue') \cup Spoken'
    BY <2>1
  <2> QED BY <2>2, <2>3, HeldDismissed
<1>2. CASE g # generation
  <2>1. UNCHANGED << gen, rev, head, offered, outbox, hooks, queue >>
    BY <1>2 DEF GiveUp, Finish, session, callbacks
  <2>2. ASSUME NEW j, offered, head < N, j = Key(head), j \in Spoken PROVE FALSE
    <3>1. Speaking(j)
      BY <2>2, OnOffer
    <3> QED BY <1>2, <2>2, <3>1
  <2>3. \A j : offered' /\ offered /\ head < N /\ j = Key(head) /\ Held(j) => Held(j)'
    BY <2>1, <2>2 DEF Held
  <2>4. offered' /\ head' < N =>
          offered /\ head' = head /\ gen' = gen /\ rev'[head] = rev[head]
    BY <2>1
  <2> QED BY <2>3, <2>4, HeldStays
<1> QED BY <1>1, <1>2

LEMMA HeldTake ==
    ASSUME Sound, HeadIsHeld, TakeItem
    PROVE  HeadIsHeld'
<1>1. PICK k : k = Head(queue)
  OBVIOUS
<1>2. queue # << >> /\ queue' = Tail(queue) /\ speaker = None
  BY DEF TakeItem
<1>3. Range(queue) = {k} \cup Range(queue') /\ k \in Keys /\ Spoken = {}
  BY <1>1, <1>2, Basics, RangeFacts, SpeakerFacts DEF Sound
<1>4. CASE GiveUp(k, generation)
  BY <1>3, <1>4, HeldGivesUp
<1>5. CASE ~GiveUp(k, generation)
  <2>1. /\ Working(k, generation, states[k]) /\ UNCHANGED << session, callbacks >>
    BY <1>1, <1>5 DEF TakeItem
  <2>2. UNCHANGED << gen, rev, head, offered, outbox, hooks >>
    BY <2>1 DEF session, callbacks
  <2>3. Spoken' = {k}
    BY <2>1 DEF Working, Spoken, None
  <2>4. \A j : offered' /\ offered /\ head < N /\ j = Key(head) /\ Held(j) => Held(j)'
    BY <1>3, <2>2, <2>3 DEF Held
  <2>5. offered' /\ head' < N =>
          offered /\ head' = head /\ gen' = gen /\ rev'[head] = rev[head]
    BY <2>2
  <2> QED BY <2>4, <2>5, HeldStays
<1> QED BY <1>4, <1>5

LEMMA HeldSpeaker ==
    ASSUME Sound, HeadIsHeld, RefuseChunk \/ AppendFails \/ Wake
    PROVE  HeadIsHeld'
<1>1. PICK k : k = speaker.key
  OBVIOUS
<1>2. queue' = queue /\ speaker.at \in {"append", "wait"}
  BY DEF RefuseChunk, AppendFails, Wake, Speak
<1>3. speaker # None /\ Spoken = {k} /\ k \in Keys
  BY <1>1, <1>2, SpeakerFacts DEF Sound
<1>4. CASE GiveUp(k, speaker.gen)
  <2>1. speaker.gen # generation => ~Speaking(k)
    BY DEF Speaking
  <2> QED BY <1>2, <1>3, <1>4, <2>1, HeldGivesUp
<1>5. CASE ~GiveUp(k, speaker.gen)
  <2>1. Working(k, speaker.gen, states[k]) /\ UNCHANGED << session, callbacks >>
    BY <1>1, <1>5 DEF RefuseChunk, AppendFails, Wake
  <2>2. UNCHANGED << gen, rev, head, offered, outbox, hooks >>
    BY <2>1 DEF session, callbacks
  <2>3. Spoken' = {k}
    BY <2>1 DEF Working, Spoken, None
  <2>4. \A j : offered' /\ offered /\ head < N /\ j = Key(head) /\ Held(j) => Held(j)'
    BY <1>2, <1>3, <2>2, <2>3 DEF Held
  <2>5. offered' /\ head' < N =>
          offered /\ head' = head /\ gen' = gen /\ rev'[head] = rev[head]
    BY <2>2
  <2> QED BY <2>4, <2>5, HeldStays
<1> QED BY <1>4, <1>5

(* The first chunk of the offer commits it. *)
LEMMA HeldCommit ==
    ASSUME Sound, HeadIsHeld, CommitChunk
    PROVE  HeadIsHeld'
<1>1. PICK k \in DOMAIN states :
          /\ Speak(k) /\ IsCurrent(k)
          /\ IF k \in hooks THEN Committed(k) ELSE UNCHANGED session
          /\ hooks' = hooks \ {k} /\ queue' = queue
  <2>1. PICK k \in DOMAIN states :
            /\ Speak(k) /\ IsCurrent(k)
            /\ IF k \in hooks THEN Committed(k) ELSE UNCHANGED session
            /\ LET s == [states[k] EXCEPT !.published = @ + 1, !.chunks = Tail(@)]
               IN  IF Exhausted(s) THEN Finish(k, speaker.gen, TRUE)
                   ELSE /\ states' = [states EXCEPT ![k] = s]
                        /\ Working(k, speaker.gen, s)
                        /\ hooks' = hooks \ {k}
                        /\ UNCHANGED << line, guards, completed >>
            /\ queue' = queue
    BY ChunkJoins
  <2>2. speaker.gen = generation
    BY <2>1, AppendFinds
  <2>3. Finish(k, speaker.gen, TRUE) => hooks' = hooks \ {k}
    BY <2>2 DEF Finish
  <2> PICK s : s = [states[k] EXCEPT !.published = @ + 1, !.chunks = Tail(@)]
    OBVIOUS
  <2>4. IF Exhausted(s) THEN Finish(k, speaker.gen, TRUE) ELSE hooks' = hooks \ {k}
    BY <2>1
  <2>5. hooks' = hooks \ {k}
    BY <2>3, <2>4
  <2> QED BY <2>1, <2>5
<1>2. k \in guards /\ CanCommit(k) /\ k \in Keys /\ speaker # None /\ speaker.key = k
      /\ k.gen = gen
  BY <1>1, AppendFinds
<1>3. Spoken = {k}
  BY <1>2 DEF Spoken
<1>4. gen' = gen /\ rev' = rev /\ outbox' = outbox
  BY <1>1, <1>2, CommitFacts
<1>5. ASSUME offered' PROVE UNCHANGED session
  BY <1>1, <1>5 DEF Committed
<1>6. ASSUME NEW j, offered', offered, head < N, j = Key(head), Held(j) PROVE Held(j)'
  <2>1. CASE j \in Range(outbox)
    BY <1>4, <2>1 DEF Held
  <2>2. CASE j # k /\ j \notin Range(outbox)
    BY <1>1, <1>3, <1>6, <2>2 DEF Held
  <2>3. CASE j = k /\ j \notin Range(outbox)
    <3>1. k.order = head /\ released[head] = 0 /\ k \in hooks
      BY <1>6, <2>3, OnOffer DEF Held
    <3>2. offered' = FALSE
      BY <1>1, <1>2, <3>1 DEF Committed
    <3> QED BY <1>6, <3>2
  <2> QED BY <2>1, <2>2, <2>3
<1>7. offered' /\ head' < N =>
        offered /\ head' = head /\ gen' = gen /\ rev'[head] = rev[head]
  BY <1>4, <1>5 DEF session
<1> QED BY <1>6, <1>7, HeldStays

(* An offer is held until it is answered, as long as nobody restarts the    *)
(* order in a capture: the outbox has it, or the publisher, which still has *)
(* the callback that answers it.                                            *)
THEOREM OffersAreAnswered == Spec => []HeadIsHeldInOrder
<1>1. Init => Ahead /\ HeadIsHeldInOrder
  BY DEF Init, Ahead, HeadIsHeldInOrder, HeadIsHeld
<1>2. ASSUME Sound, Sound', Ahead, HeadIsHeldInOrder, [Next]_vars
      PROVE  Ahead' /\ HeadIsHeldInOrder'
  <2>1. Ahead'
    BY <1>2, AheadNext
  <2>2. ASSUME resets' = 0 PROVE resets = 0
    <3>1. resets \in Nat
      BY <1>2, Basics DEF Sound
    <3>2. resets' = resets \/ resets' = resets + 1
      <4>1. CASE \E o \in Orders : Register(o) \/ Translate(o) \/ Approve(o) \/ Withdraw(o)
        BY <4>1 DEF Register, Translate, Approve, Withdraw, counters
      <4>2. CASE Offer \/ ForceDrain \/ ResetOrdering \/ BeginSourceGeneration
        BY <4>2 DEF Offer, ForceDrain, ResetOrdering, BeginSourceGeneration, counters
      <4>3. CASE PublishItem \/ Join \/ Leave \/ WriterStep
        BY <4>3 DEF PublishItem, PublishSwallowed, PublishQueued, PublishRefused, Join,
                    Leave, WriterStep, counters
      <4>4. CASE Synthesis \/ UNCHANGED vars
        BY <1>2, <4>4, SynthesisEffect DEF Synthesized, vars, counters
      <4>5. CASE TakeItem \/ RefuseChunk \/ AppendFails \/ Wake \/ CommitChunk
        BY <4>5 DEF TakeItem, RefuseChunk, AppendFails, Wake, CommitChunk, counters
      <4> QED BY <1>2, <4>1, <4>2, <4>3, <4>4, <4>5 DEF Next, Publication
    <3> QED BY <2>2, <3>1, <3>2
  <2>3. ASSUME resets' = 0 PROVE HeadIsHeld'
    <3>1. HeadIsHeld /\ consumed < head
      BY <1>2, <2>2, <2>3 DEF HeadIsHeldInOrder, Ahead
    <3>2. CASE \E o \in Orders : Register(o) \/ Translate(o)
      BY <1>2, <3>1, <3>2, HeldSession
    <3>3. CASE \/ \E o \in Orders : Approve(o) \/ Withdraw(o)
               \/ WriterStep \/ UNCHANGED vars
      BY <1>2, <3>1, <3>3, HeldStill
         DEF Approve, Withdraw, WriterStep, vars, session, callbacks
    <3>4. CASE Synthesis
      BY <1>2, <3>1, <3>4, HeldStill, SynthesisEffect
         DEF Synthesized, SynthesisFrame, session, callbacks
    <3>5. CASE ForceDrain \/ ResetOrdering \/ BeginSourceGeneration
      BY <3>5 DEF ForceDrain, ResetOrdering, BeginSourceGeneration, RestartOrdering,
                  HeadIsHeld
    <3>6. CASE Offer
      BY <1>2, <3>1, <3>6, HeldOffer
    <3>7. CASE PublishItem
      BY <1>2, <3>1, <3>7, HeldPublish
    <3>8. CASE Join \/ Leave
      BY <1>2, <3>1, <3>8, HeldJoin, HeldLeave
    <3>9. CASE Publication
      BY <1>2, <3>1, <3>9, HeldTake, HeldSpeaker, HeldCommit DEF Publication
    <3> QED BY <1>2, <3>2, <3>3, <3>4, <3>5, <3>6, <3>7, <3>8, <3>9 DEF Next
  <2> QED BY <2>1, <2>3 DEF HeadIsHeldInOrder
<1> QED BY <1>1, <1>2, PublisherIsSound, PTL DEF Spec

-------------------------------------------------------------------------------
(* The budget of prepared audio. *)

(* Audio only goes: a state keeps its chunks, loses the first or all of     *)
(* them, or is new and has none.                                            *)
Dwindles(s, t) ==
    \A k \in DOMAIN t :
        \/ t[k].chunks = << >>
        \/ k \in DOMAIN s /\ t[k].chunks = s[k].chunks
        \/ k \in DOMAIN s /\ s[k].chunks # << >> /\ t[k].chunks = Tail(s[k].chunks)

(* The bytes of these chunks. *)
Bytes(s) == UNION {{p} \X (1..s[p[1]].chunks[p[2]].bytes) : p \in Prepared(s)}

Budgeted(s) ==
    /\ \A k \in DOMAIN s : s[k].chunks \in Seq(Audios)
    /\ IsFiniteSet(Prepared(s)) /\ Cardinality(Prepared(s)) <= MaxPrepared
    /\ IsFiniteSet(Bytes(s)) /\ Cardinality(Bytes(s)) <= MaxBytes

LEMMA ByteFacts ==
    ASSUME NEW s
    PROVE  /\ \A k \in DOMAIN s : \A i \in DOMAIN s[k].chunks :
                 \A b \in 1..s[k].chunks[i].bytes : << << k, i >>, b >> \in Bytes(s)
           /\ \A x \in Bytes(s) :
                 \E k \in DOMAIN s : \E i \in DOMAIN s[k].chunks :
                    \E b \in 1..s[k].chunks[i].bytes : x = << << k, i >>, b >>
<1>1. ASSUME NEW k \in DOMAIN s, NEW i \in DOMAIN s[k].chunks,
             NEW b \in 1..s[k].chunks[i].bytes
      PROVE  << << k, i >>, b >> \in Bytes(s)
  <2> PICK p : p = << k, i >>
    OBVIOUS
  <2>1. p \in Prepared(s) /\ p[1] = k /\ p[2] = i
    BY DEF Prepared
  <2>2. << p, b >> \in {p} \X (1..s[p[1]].chunks[p[2]].bytes)
    BY <2>1
  <2> QED BY <2>1, <2>2 DEF Bytes
<1>2. ASSUME NEW x \in Bytes(s)
      PROVE  \E k \in DOMAIN s : \E i \in DOMAIN s[k].chunks :
                \E b \in 1..s[k].chunks[i].bytes : x = << << k, i >>, b >>
  <2>1. PICK p \in Prepared(s) : x \in {p} \X (1..s[p[1]].chunks[p[2]].bytes)
    BY DEF Bytes
  <2>2. PICK k \in DOMAIN s : \E i \in DOMAIN s[k].chunks : p = << k, i >>
    BY DEF Prepared
  <2>3. PICK i \in DOMAIN s[k].chunks : p = << k, i >>
    BY <2>2
  <2>4. p[1] = k /\ p[2] = i
    BY <2>3
  <2>5. PICK b \in 1..s[k].chunks[i].bytes : x = << p, b >>
    BY <2>1, <2>4
  <2> QED BY <2>3, <2>5
<1> QED BY <1>1, <1>2

LEMMA TailShrinks ==
    ASSUME NEW q \in Seq(Audios), q # << >>
    PROVE  /\ Tail(q) \in Seq(Audios) /\ DOMAIN Tail(q) \subseteq DOMAIN q
           /\ \A i \in DOMAIN Tail(q) : i + 1 \in DOMAIN q /\ Tail(q)[i] = q[i + 1]
<1>1. /\ Tail(q) \in Seq(Audios) /\ Len(Tail(q)) = Len(q) - 1 /\ Len(q) \in Nat
      /\ \A i \in 1..Len(Tail(q)) : Tail(q)[i] = q[i + 1]
  BY HeadTailProperties
<1>2. DOMAIN Tail(q) = 1..(Len(q) - 1) /\ DOMAIN q = 1..Len(q)
  BY <1>1
<1> PICK l : l = Len(q)
  OBVIOUS
<1>3. \A i \in 1..(l - 1) : i \in 1..l /\ i + 1 \in 1..l
  BY <1>1
<1> QED BY <1>1, <1>2, <1>3

(* The bytes that stay, each where it was before. *)
LEMMA BytesStay ==
    ASSUME NEW s, NEW t, \A k \in DOMAIN s : s[k].chunks \in Seq(Audios),
           Dwindles(s, t), IsFiniteSet(Bytes(s))
    PROVE  IsFiniteSet(Bytes(t)) /\ Cardinality(Bytes(t)) <= Cardinality(Bytes(s))
<1> DEFINE same(k) == k \in DOMAIN s /\ t[k].chunks = s[k].chunks
           place(k, i) == IF same(k) THEN i ELSE i + 1
           f == [x \in Bytes(t) |-> << << x[1][1], place(x[1][1], x[1][2]) >>, x[2] >>]
<1>1. ASSUME NEW k \in DOMAIN t, NEW i \in DOMAIN t[k].chunks
      PROVE  /\ k \in DOMAIN s /\ i \in Int /\ place(k, i) \in DOMAIN s[k].chunks
             /\ t[k].chunks[i] = s[k].chunks[place(k, i)]
  <2>1. t[k].chunks # << >>
    BY <1>1, EmptySeq
  <2>2. CASE same(k)
    <3>1. s[k].chunks \in Seq(Audios)
      BY <2>2
    <3> QED BY <2>2, <3>1
  <2>3. CASE ~same(k)
    <3>1. k \in DOMAIN s /\ s[k].chunks # << >> /\ t[k].chunks = Tail(s[k].chunks)
      BY <2>1, <2>3 DEF Dwindles
    <3> PICK q : q = s[k].chunks
      OBVIOUS
    <3>2. q \in Seq(Audios) /\ q # << >> /\ i \in DOMAIN Tail(q)
      BY <3>1
    <3>3. Tail(q) \in Seq(Audios) /\ i + 1 \in DOMAIN q /\ Tail(q)[i] = q[i + 1]
      BY <3>2, TailShrinks
    <3>4. i \in Int
      BY <3>2, <3>3
    <3>5. place(k, i) = i + 1
      BY <2>3
    <3> HIDE DEF place
    <3> QED BY <3>1, <3>3, <3>4, <3>5
  <2> QED BY <2>2, <2>3
<1> HIDE DEF same, place
<1>2. ASSUME NEW x \in Bytes(t)
      PROVE  \E k \in DOMAIN t : \E i \in DOMAIN t[k].chunks :
                \E b \in 1..t[k].chunks[i].bytes :
                   x = << << k, i >>, b >> /\ f[x] = << << k, place(k, i) >>, b >>
  <2>1. PICK k \in DOMAIN t : \E i \in DOMAIN t[k].chunks :
                \E b \in 1..t[k].chunks[i].bytes : x = << << k, i >>, b >>
    BY ByteFacts
  <2>2. PICK i \in DOMAIN t[k].chunks :
                \E b \in 1..t[k].chunks[i].bytes : x = << << k, i >>, b >>
    BY <2>1
  <2>3. PICK b \in 1..t[k].chunks[i].bytes : x = << << k, i >>, b >>
    BY <2>2
  <2>4. x[1] = << k, i >> /\ x[2] = b
    BY <2>3
  <2>5. x[1][1] = k /\ x[1][2] = i
    BY <2>4
  <2> QED BY <2>3, <2>4, <2>5
<1>3. ASSUME NEW x \in Bytes(t) PROVE f[x] \in Bytes(s)
  <2>1. PICK k \in DOMAIN t : \E i \in DOMAIN t[k].chunks :
                \E b \in 1..t[k].chunks[i].bytes : f[x] = << << k, place(k, i) >>, b >>
    BY <1>2
  <2>2. PICK i \in DOMAIN t[k].chunks :
                \E b \in 1..t[k].chunks[i].bytes : f[x] = << << k, place(k, i) >>, b >>
    BY <2>1
  <2>3. PICK b \in 1..t[k].chunks[i].bytes : f[x] = << << k, place(k, i) >>, b >>
    BY <2>2
  <2>4. k \in DOMAIN s /\ place(k, i) \in DOMAIN s[k].chunks
        /\ b \in 1..s[k].chunks[place(k, i)].bytes
    BY <1>1
  <2>5. << << k, place(k, i) >>, b >> \in Bytes(s)
    BY <2>4, ByteFacts
  <2> HIDE DEF f
  <2> QED BY <2>3, <2>5
<1>4. ASSUME NEW x \in Bytes(t), NEW y \in Bytes(t), f[x] = f[y] PROVE x = y
  <2> HIDE DEF f
  <2>1. PICK k \in DOMAIN t : \E i \in DOMAIN t[k].chunks : \E b \in 1..t[k].chunks[i].bytes :
           x = << << k, i >>, b >> /\ f[x] = << << k, place(k, i) >>, b >>
    BY <1>2
  <2>2. PICK i \in DOMAIN t[k].chunks : \E b \in 1..t[k].chunks[i].bytes :
           x = << << k, i >>, b >> /\ f[x] = << << k, place(k, i) >>, b >>
    BY <2>1
  <2>3. PICK b \in 1..t[k].chunks[i].bytes :
           x = << << k, i >>, b >> /\ f[x] = << << k, place(k, i) >>, b >>
    BY <2>2
  <2>4. PICK l \in DOMAIN t : \E j \in DOMAIN t[l].chunks : \E c \in 1..t[l].chunks[j].bytes :
           y = << << l, j >>, c >> /\ f[y] = << << l, place(l, j) >>, c >>
    BY <1>2
  <2>5. PICK j \in DOMAIN t[l].chunks : \E c \in 1..t[l].chunks[j].bytes :
           y = << << l, j >>, c >> /\ f[y] = << << l, place(l, j) >>, c >>
    BY <2>4
  <2>6. PICK c \in 1..t[l].chunks[j].bytes :
           y = << << l, j >>, c >> /\ f[y] = << << l, place(l, j) >>, c >>
    BY <2>5
  <2>7. k = l /\ place(k, i) = place(k, j) /\ b = c
    BY <1>4, <2>3, <2>6
  <2>8. i \in Int /\ j \in Int
    BY <1>1, <2>7
  <2>9. i = j
    BY <2>7, <2>8 DEF place
  <2> QED BY <2>3, <2>6, <2>7, <2>9
<1> PICK S : S = Bytes(t)
  OBVIOUS
<1> PICK T : T = Bytes(s)
  OBVIOUS
<1> PICK g : g = f
  OBVIOUS
<1>5. g \in [S -> T]
  BY <1>3
<1>6. \A x, y \in S : g[x] = g[y] => x = y
  BY <1>4
<1> HIDE DEF f
<1>7. g \in Injection(S, T)
  BY <1>5, <1>6 DEF Injection, IsInjective
<1>8. IsFiniteSet(S) /\ Cardinality(S) <= Cardinality(T)
  <2>1. IsFiniteSet(T)
    OBVIOUS
  <2> QED BY ONLY <1>7, <2>1, FS_Injection
<1> QED BY <1>8

LEMMA DwindlingIsBudgeted ==
    ASSUME NEW s, NEW t, Budgeted(s), Dwindles(s, t)
    PROVE  Budgeted(t)
<1>0. MaxPrepared \in Nat /\ MaxBytes \in Nat
  BY PublisherAssumption
<1>1. \A k \in DOMAIN s : s[k].chunks \in Seq(Audios)
  BY DEF Budgeted
<1>2. ASSUME NEW k \in DOMAIN t
      PROVE  /\ t[k].chunks \in Seq(Audios)
             /\ \A i \in DOMAIN t[k].chunks : k \in DOMAIN s /\ i \in DOMAIN s[k].chunks
  <2>1. CASE t[k].chunks = << >>
    BY <2>1, EmptySeq
  <2>2. CASE k \in DOMAIN s /\ t[k].chunks = s[k].chunks
    BY <1>1, <2>2
  <2>3. CASE k \in DOMAIN s /\ s[k].chunks # << >> /\ t[k].chunks = Tail(s[k].chunks)
    BY <1>1, <2>3, TailShrinks
  <2> QED BY <2>1, <2>2, <2>3 DEF Dwindles
<1>3. Prepared(t) \subseteq Prepared(s)
  BY <1>2 DEF Prepared
<1> PICK S : S = Prepared(s)
  OBVIOUS
<1> PICK T : T = Prepared(t)
  OBVIOUS
<1>4. IsFiniteSet(S) /\ Cardinality(S) <= MaxPrepared /\ T \in SUBSET S
  BY <1>3 DEF Budgeted
<1>5. IsFiniteSet(T) /\ Cardinality(T) <= Cardinality(S)
  BY <1>4, FS_Subset
<1>6. Cardinality(T) \in Nat /\ Cardinality(S) \in Nat
  BY <1>4, <1>5, FS_CardinalityType
<1>7. IsFiniteSet(Bytes(s)) /\ Cardinality(Bytes(s)) <= MaxBytes
  BY DEF Budgeted
<1>8. IsFiniteSet(Bytes(t)) /\ Cardinality(Bytes(t)) <= Cardinality(Bytes(s))
  BY <1>1, <1>7, BytesStay
<1>9. Cardinality(Bytes(t)) \in Nat /\ Cardinality(Bytes(s)) \in Nat
  BY <1>7, <1>8, FS_CardinalityType
<1>10. Cardinality(T) <= MaxPrepared
  BY <1>0, <1>4, <1>5, <1>6
<1>11. Cardinality(Bytes(t)) <= MaxBytes
  BY <1>0, <1>7, <1>8, <1>9
<1> QED BY <1>2, <1>5, <1>8, <1>10, <1>11 DEF Budgeted

LEMMA EmptyChunks == NewState.chunks = << >>
BY DEF NewState

LEMMA DropDwindles ==
    ASSUME NEW K, DropStates(K)
    PROVE  Dwindles(states, states')
BY DEF DropStates, Restrict, Dwindles

LEMMA EvictDwindles ==
    ASSUME Sound, NEW E
    PROVE  /\ Dwindles(states, Evict(E)) /\ DOMAIN Evict(E) = DOMAIN states
           /\ \A k \in DOMAIN states : Evict(E)[k] \in State
<1>1. DOMAIN Evict(E) = DOMAIN states
  BY DEF Evict
<1>2. ASSUME NEW k \in DOMAIN states
      PROVE  /\ Evict(E)[k].chunks = << >> \/ Evict(E)[k] = states[k]
             /\ Evict(E)[k] \in State
  <2> PICK s : s = states[k]
    OBVIOUS
  <2>1. s \in State
    BY StateFacts
  <2>2. << >> \in Seq(Audios)
    BY EmptySeq
  <2> DEFINE t == [s EXCEPT !.chunks = << >>, !.next = 0, !.done = FALSE]
  <2>3. t.chunks = << >> /\ t \in State
    BY <2>1, <2>2 DEF State, Audios
  <2>4. Evict(E)[k] = IF k \in E THEN t ELSE s
    BY DEF Evict
  <2> HIDE DEF t
  <2> QED BY <2>1, <2>3, <2>4
<1> QED BY <1>1, <1>2 DEF Dwindles

LEMMA SessionDwindles ==
    ASSUME \E o \in Orders : Register(o) \/ Translate(o)
    PROVE  Dwindles(states, states')
<1>1. PICK o \in Orders : Register(o) \/ Translate(o)
  OBVIOUS
<1>2. CASE Register(o)
  <2> DEFINE old == {j \in DOMAIN states :
                        j.gen = gen /\ j.order = o /\ j.rev < rev[o] + 1}
  <2>1. states' = states \/ DropStates(old)
    BY <1>2 DEF Register
  <2> HIDE DEF old
  <2> QED BY <2>1, DropDwindles DEF Dwindles
<1>3. CASE Translate(o)
  <2> PICK k : k = Key(o)
    OBVIOUS
  <2> PICK kept : kept = Restrict(states, DOMAIN states \ Others(k))
    OBVIOUS
  <2>1. \/ states' = states
        \/ states' = kept
        \/ states' = [j \in DOMAIN kept \cup {k} |-> IF j = k THEN NewState ELSE kept[j]]
    BY <1>3 DEF Translate
  <2>2. DOMAIN kept \subseteq DOMAIN states /\ \A j \in DOMAIN kept : kept[j] = states[j]
    BY DEF Restrict
  <2> QED BY ZenonT(30), <2>1, <2>2, EmptyChunks DEF Dwindles
<1> QED BY <1>1, <1>2, <1>3

LEMMA PublishDwindles ==
    ASSUME Sound, PublishItem
    PROVE  Dwindles(states, states')
<1>1. CASE PublishSwallowed
  BY <1>1 DEF PublishSwallowed, Dwindles
<1>2. CASE PublishRefused
  BY <1>2, DropDwindles DEF PublishRefused
<1>3. CASE PublishQueued
  <2> PICK k : k = Head(outbox)
    OBVIOUS
  <2> PICK old : old = Others(k) \cup
                         (IF Len(queue) >= QueueSize THEN {Head(queue)} ELSE {})
    OBVIOUS
  <2> PICK kept : kept = Restrict(states, DOMAIN states \ old)
    OBVIOUS
  <2>1. states' = [j \in DOMAIN kept \cup {k} |->
                      [(IF j \in DOMAIN kept THEN kept[j] ELSE NewState)
                          EXCEPT !.changed = (j = k) \/ @]]
    BY <1>3 DEF PublishQueued
  <2>2. DOMAIN kept \subseteq DOMAIN states /\ \A j \in DOMAIN kept : kept[j] = states[j]
    BY DEF Restrict
  <2>3. ASSUME NEW j \in DOMAIN states'
        PROVE  states'[j].chunks = IF j \in DOMAIN kept THEN states[j].chunks ELSE << >>
    <3> PICK s : s = IF j \in DOMAIN kept THEN kept[j] ELSE NewState
      OBVIOUS
    <3>1. s \in State
      <4>1. NewState \in State
        BY EmptySeq DEF NewState, State
      <4>2. j \in DOMAIN kept => kept[j] \in State
        BY <2>2, StateFacts
      <4> QED BY <4>1, <4>2
    <3>2. states'[j] = [s EXCEPT !.changed = (j = k) \/ @]
      BY <2>1
    <3>3. states'[j].chunks = s.chunks
      BY <3>1, <3>2 DEF State
    <3> QED BY <2>2, <3>3, EmptyChunks
  <2> QED BY <2>2, <2>3, EmptyChunks DEF Dwindles
<1> QED BY <1>1, <1>2, <1>3 DEF PublishItem

LEMMA GiveUpDwindles ==
    ASSUME NEW k, NEW g, GiveUp(k, g)
    PROVE  Dwindles(states, states')
<1>1. DropStates({k}) \/ states' = states
  BY DEF GiveUp, Finish
<1> QED BY <1>1, DropDwindles DEF Dwindles

LEMMA PublicationDwindles ==
    ASSUME Sound, Publication
    PROVE  Dwindles(states, states')
<1>1. CASE \E k, g : GiveUp(k, g)
  BY <1>1, GiveUpDwindles
<1>2. CASE \E k \in DOMAIN states : states' = [states EXCEPT ![k].changed = FALSE]
  <2>1. PICK k \in DOMAIN states : states' = [states EXCEPT ![k].changed = FALSE]
    BY <1>2
  <2>2. /\ DOMAIN states' = DOMAIN states
        /\ \A j \in DOMAIN states : states'[j].chunks = states[j].chunks
    BY <2>1, ChangedCleared
  <2> QED BY <2>2 DEF Dwindles
<1>3. CASE TakeItem
  BY <1>1, <1>2, <1>3 DEF TakeItem, Valid
<1>4. CASE RefuseChunk \/ AppendFails
  BY <1>1, <1>4 DEF RefuseChunk, AppendFails
<1>5. CASE Wake
  BY <1>1, <1>2, <1>5 DEF Wake, Valid
<1>6. CASE CommitChunk
  <2>1. PICK k \in DOMAIN states :
            /\ Speak(k) /\ IsCurrent(k)
            /\ LET s == [states[k] EXCEPT !.published = @ + 1, !.chunks = Tail(@)]
               IN  IF Exhausted(s) THEN Finish(k, speaker.gen, TRUE)
                   ELSE /\ states' = [states EXCEPT ![k] = s]
                        /\ Working(k, speaker.gen, s)
                        /\ hooks' = hooks \ {k}
                        /\ UNCHANGED << line, guards, completed >>
    BY <1>6, ChunkJoins
  <2>2. states[k] \in State /\ states[k].chunks # << >>
    BY <2>1, AppendFinds
  <2> PICK p : p = states[k]
    OBVIOUS
  <2> PICK s : s = [p EXCEPT !.published = p.published + 1, !.chunks = Tail(p.chunks)]
    OBVIOUS
  <2>3. Finish(k, speaker.gen, TRUE) \/ states' = [states EXCEPT ![k] = s]
    BY <2>1
  <2>4. s.chunks = Tail(p.chunks) /\ p.chunks \in Seq(Audios) /\ p.chunks # << >>
    BY <2>2 DEF State, Audios
  <2>5. CASE Finish(k, speaker.gen, TRUE)
    <3>1. DropStates({k}) \/ states' = states
      BY <2>5 DEF Finish
    <3> QED BY <3>1, DropDwindles DEF Dwindles
  <2>6. CASE states' = [states EXCEPT ![k] = s]
    BY <2>4, <2>6 DEF Dwindles
  <2> QED BY <2>3, <2>5, <2>6
<1> QED BY <1>3, <1>4, <1>5, <1>6 DEF Publication

LEMMA PickDwindles ==
    ASSUME Sound, SynthesisPick
    PROVE  Dwindles(states, states')
<1>1. CASE states' = states
  BY <1>1 DEF Dwindles
<1>2. CASE states' # states
  <2>1. PICK E \in Evictions(0) :
           \/ states' = Evict(E)
           \/ \E k \in Candidates :
                 states' = [Evict(E) EXCEPT ![k].busy = TRUE] \/ DropStates({k})
    BY <1>2 DEF SynthesisPick
  <2> PICK st : st = Evict(E)
    OBVIOUS
  <2>2. /\ Dwindles(states, st) /\ DOMAIN st = DOMAIN states
        /\ \A k \in DOMAIN states : st[k] \in State
    BY EvictDwindles
  <2>3. CASE states' = st
    BY <2>2, <2>3
  <2>4. ASSUME NEW k, states' = [st EXCEPT ![k].busy = TRUE]
        PROVE  Dwindles(states, states')
    <3>1. DOMAIN states' = DOMAIN st
      BY <2>4
    <3>2. ASSUME NEW j \in DOMAIN st PROVE states'[j].chunks = st[j].chunks
      <4> PICK s : s = st[j]
        OBVIOUS
      <4>1. states'[j] = s \/ states'[j] = [s EXCEPT !.busy = TRUE]
        BY <2>4
      <4>2. s \in State
        BY <2>2
      <4>3. [s EXCEPT !.busy = TRUE].chunks = s.chunks
        BY <4>2 DEF State
      <4> QED BY <4>1, <4>3
    <3> QED BY <2>2, <3>1, <3>2 DEF Dwindles
  <2>5. ASSUME NEW k, DropStates({k}) PROVE Dwindles(states, states')
    BY <2>5, DropDwindles
  <2> QED BY <2>1, <2>3, <2>4, <2>5
<1> QED BY <1>1, <1>2

LEMMA FailsDwindles ==
    ASSUME Sound, SynthesisFails
    PROVE  Dwindles(states, states')
<1>1. ASSUME NEW k \in DOMAIN states PROVE states'[k].chunks = states[k].chunks
  <2> PICK s : s = states[k]
    OBVIOUS
  <2>1. s \in State
    BY StateFacts
  <2>2. states'[k] = s
           \/ states'[k] = [s EXCEPT !.done = TRUE, !.changed = TRUE, !.busy = FALSE]
    BY DEF SynthesisFails
  <2>3. [s EXCEPT !.done = TRUE, !.changed = TRUE, !.busy = FALSE].chunks = s.chunks
    BY <2>1 DEF State
  <2> QED BY <2>2, <2>3
<1>2. DOMAIN states' = DOMAIN states
  BY DEF SynthesisFails
<1> QED BY <1>1, <1>2 DEF Dwindles

(* A chunk of b bytes that fits. *)
LEMMA GrowthIsBudgeted ==
    ASSUME NEW s, NEW t, Budgeted(s), NEW b \in Nat, Fits(s, b),
           NEW a \in Audios, a.bytes = b, NEW k \in DOMAIN s,
           DOMAIN t = DOMAIN s, \A j \in DOMAIN s : j # k => t[j] = s[j],
           t[k].chunks = Append(s[k].chunks, a)
    PROVE  Budgeted(t)
<1>0. MaxPrepared \in Nat /\ MaxBytes \in Nat
  BY PublisherAssumption
<1> PICK q : q = s[k].chunks
  OBVIOUS
<1> PICK l : l = Len(q)
  OBVIOUS
<1>1. \A j \in DOMAIN s : s[j].chunks \in Seq(Audios)
  BY DEF Budgeted
<1>2. q \in Seq(Audios) /\ l \in Nat /\ DOMAIN q = 1..l
  BY <1>1
<1> PICK r : r = Append(q, a)
  OBVIOUS
<1>3. /\ r \in Seq(Audios) /\ DOMAIN r = 1..(l + 1) /\ r[l + 1] = a
      /\ \A i \in 1..l : r[i] = q[i]
  BY <1>2, AppendProperties
<1>4. t[k].chunks = r /\ \A j \in DOMAIN t : j # k => t[j].chunks = s[j].chunks
  OBVIOUS
<1>5. \A j \in DOMAIN t : t[j].chunks \in Seq(Audios)
  BY <1>1, <1>3, <1>4
<1> PICK p : p = << k, l + 1 >>
  OBVIOUS
<1>6. \A j \in DOMAIN t : \A i \in DOMAIN t[j].chunks :
         \/ << j, i >> = p /\ t[j].chunks[i] = a
         \/ i \in DOMAIN s[j].chunks /\ t[j].chunks[i] = s[j].chunks[i]
  <2> SUFFICES ASSUME NEW j \in DOMAIN t, NEW i \in DOMAIN t[j].chunks
               PROVE  \/ << j, i >> = p /\ t[j].chunks[i] = a
                      \/ i \in DOMAIN s[j].chunks /\ t[j].chunks[i] = s[j].chunks[i]
    OBVIOUS
  <2>1. CASE j # k
    BY <1>4, <2>1
  <2>2. CASE j = k
    <3>1. i \in 1..l \/ i = l + 1
      BY <1>2, <1>3, <1>4, <2>2
    <3> QED BY <1>2, <1>3, <1>4, <2>2, <3>1
  <2> QED BY <2>1, <2>2
<1>7. IsFiniteSet(Prepared(t)) /\ Cardinality(Prepared(t)) <= MaxPrepared
  <2> PICK P : P = Prepared(s)
    OBVIOUS
  <2> PICK Q : Q = Prepared(t)
    OBVIOUS
  <2> PICK R : R = P \cup {p}
    OBVIOUS
  <2>1. Q \subseteq R
    BY <1>6 DEF Prepared
  <2>2. IsFiniteSet(P) /\ Cardinality(P) < MaxPrepared
    BY DEF Budgeted, Fits, PreparedChunks
  <2>3. /\ IsFiniteSet(R) /\ Cardinality(P) \in Nat
        /\ Cardinality(R) = Cardinality(P) \/ Cardinality(R) = Cardinality(P) + 1
    BY <2>2, FS_AddElement, FS_CardinalityType
  <2>4. IsFiniteSet(Q) /\ Cardinality(Q) <= Cardinality(R)
    BY <2>1, <2>3, FS_Subset
  <2>5. Cardinality(Q) \in Nat
    BY <2>4, FS_CardinalityType
  <2>6. Cardinality(Q) <= MaxPrepared
    BY <1>0, <2>2, <2>3, <2>4, <2>5
  <2> QED BY <2>4, <2>6
<1>8. IsFiniteSet(Bytes(t)) /\ Cardinality(Bytes(t)) <= MaxBytes
  <2> PICK P : P = Bytes(s)
    OBVIOUS
  <2> PICK Q : Q = Bytes(t)
    OBVIOUS
  <2> PICK I : I = {p} \X (1..b)
    OBVIOUS
  <2> PICK R : R = P \cup I
    OBVIOUS
  <2>1. Q \subseteq R
    <3> SUFFICES ASSUME NEW x \in Q PROVE x \in R
      OBVIOUS
    <3>1. PICK j \in DOMAIN t : \E i \in DOMAIN t[j].chunks :
             \E c \in 1..t[j].chunks[i].bytes : x = << << j, i >>, c >>
      BY ByteFacts
    <3>2. PICK i \in DOMAIN t[j].chunks :
             \E c \in 1..t[j].chunks[i].bytes : x = << << j, i >>, c >>
      BY <3>1
    <3>3. PICK c \in 1..t[j].chunks[i].bytes : x = << << j, i >>, c >>
      BY <3>2
    <3>4. CASE << j, i >> = p /\ t[j].chunks[i] = a
      BY <3>3, <3>4
    <3>5. CASE i \in DOMAIN s[j].chunks /\ t[j].chunks[i] = s[j].chunks[i]
      <4>1. << << j, i >>, c >> \in Bytes(s)
        BY <3>3, <3>5, ByteFacts
      <4> QED BY <3>3, <4>1
    <3> QED BY <1>6, <3>4, <3>5
  <2>2. IsFiniteSet(P) /\ Cardinality(P) + b <= MaxBytes
    BY DEF Budgeted, Fits, PreparedBytes, Bytes
  <2>3. IsFiniteSet(I) /\ Cardinality(I) <= b
    <3> PICK J : J = 1..b
      OBVIOUS
    <3>1. IsFiniteSet(J) /\ Cardinality(J) = b
      BY FS_Interval
    <3> PICK g : g = [x \in I |-> x[2]]
      OBVIOUS
    <3>2. ASSUME NEW x \in I PROVE x = << p, x[2] >> /\ x[2] \in J
      BY <3>2
    <3>3. g \in [I -> J] /\ \A x \in I : g[x] = x[2]
      BY <3>2
    <3>4. \A x, y \in I : g[x] = g[y] => x = y
      <4> SUFFICES ASSUME NEW x \in I, NEW y \in I, g[x] = g[y] PROVE x = y
        OBVIOUS
      <4>1. x[2] = y[2]
        BY <3>3
      <4>2. x = << p, x[2] >> /\ y = << p, y[2] >>
        BY <3>2
      <4> QED BY <4>1, <4>2
    <3>5. g \in Injection(I, J)
      BY ONLY <3>3, <3>4 DEF Injection, IsInjective
    <3>6. IsFiniteSet(I) /\ Cardinality(I) <= Cardinality(J)
      BY ONLY <3>1, <3>5, FS_Injection
    <3> QED BY <3>1, <3>6
  <2>4. IsFiniteSet(R) /\ Cardinality(R) = Cardinality(P) + Cardinality(I) - Cardinality(P \cap I)
    <3>1. IsFiniteSet(P) /\ IsFiniteSet(I)
      BY <2>2, <2>3
    <3>2. /\ IsFiniteSet(P \cup I)
          /\ Cardinality(P \cup I) = Cardinality(P) + Cardinality(I) - Cardinality(P \cap I)
      BY ONLY <3>1, FS_Union
    <3> QED BY <3>2
  <2>5. Cardinality(P \cap I) \in Nat
    BY <2>2, FS_Intersection, FS_CardinalityType
  <2>6. IsFiniteSet(Q) /\ Cardinality(Q) <= Cardinality(R)
    BY <2>1, <2>4, FS_Subset
  <2>7. /\ Cardinality(Q) \in Nat /\ Cardinality(P) \in Nat /\ Cardinality(I) \in Nat
        /\ Cardinality(R) \in Nat
    BY <2>2, <2>3, <2>4, <2>6, FS_CardinalityType
  <2>8. Cardinality(Q) <= MaxBytes
    BY <1>0, <2>2, <2>3, <2>4, <2>5, <2>6, <2>7
  <2> QED BY <2>6, <2>8
<1> QED BY <1>5, <1>7, <1>8 DEF Budgeted

(* One chunk is added only where it fits. *)
LEMMA DoneIsBudgeted ==
    ASSUME Sound, Budgeted(states), SynthesisDone
    PROVE  Budgeted(states')
<1>1. CASE ~Valid(synth.key, synth.gen)
  <2>1. states' = Idle /\ faults' = faults
    BY <1>1 DEF SynthesisDone, counters
  <2>2. /\ DOMAIN states' = DOMAIN states
        /\ \A k \in DOMAIN states' : states'[k].chunks = states[k].chunks
    BY <2>1, IdleSane
  <2>3. Dwindles(states, states')
    BY <2>2 DEF Dwindles
  <2> QED BY <2>3, DwindlingIsBudgeted
<1>2. CASE Valid(synth.key, synth.gen)
  <2>1. PICK b \in Sizes : \E E \in Evictions(b) : Stores(E, b)
    BY <1>2 DEF SynthesisDone, Stores
  <2>2. PICK E \in Evictions(b) : Stores(E, b)
    BY <2>1
  <2>3. b \in Nat /\ synth.index \in Nat
    <3>1. synth.at # None.at
      BY DEF SynthesisDone, None
    <3>2. synth \in Synthesizing
      BY <3>1, StateFacts
    <3> QED BY <3>2, SizeFacts DEF Synthesizing
  <2> PICK st : st = Evict(E)
    OBVIOUS
  <2>4. /\ Dwindles(states, st) /\ DOMAIN st = DOMAIN states
        /\ \A j \in DOMAIN states : st[j] \in State
    BY EvictDwindles
  <2>5. Budgeted(st)
    BY <2>4, DwindlingIsBudgeted
  <2>6. CASE ~Fits(st, b)
    BY <2>2, <2>5, <2>6 DEF Stores
  <2>7. CASE Fits(st, b)
    <3> PICK k : k = synth.key
      OBVIOUS
    <3> PICK n : n = synth.index
      OBVIOUS
    <3> PICK a : a = Audio(n, b)
      OBVIOUS
    <3> PICK s : s = st[k]
      OBVIOUS
    <3> PICK grown : grown = [s EXCEPT !.chunks = Append(s.chunks, a), !.next = n + 1,
                                       !.done = n + 1 = Count(k), !.changed = TRUE,
                                       !.busy = FALSE]
      OBVIOUS
    <3> PICK kept : kept = [s EXCEPT !.changed = s.changed \/ s.busy, !.busy = FALSE]
      OBVIOUS
    <3>1. states' = [st EXCEPT ![k] = IF s.busy /\ s.next = n THEN grown ELSE kept]
      BY <2>2, <2>7 DEF Stores
    <3>2. k \in DOMAIN st /\ s \in State
      BY <1>2, <2>4 DEF Valid
    <3>3. grown.chunks = Append(s.chunks, a) /\ kept.chunks = s.chunks
          /\ s.chunks \in Seq(Audios)
      BY <3>2 DEF State, Audios
    <3>4. /\ DOMAIN states' = DOMAIN st /\ \A j \in DOMAIN st : j # k => states'[j] = st[j]
          /\ states'[k].chunks = Append(s.chunks, a) \/ states'[k].chunks = s.chunks
      BY <3>1, <3>2, <3>3
    <3>5. CASE states'[k].chunks = s.chunks
      <4>1. Dwindles(st, states')
        BY <3>4, <3>5 DEF Dwindles
      <4> QED BY <2>5, <4>1, DwindlingIsBudgeted
    <3>6. CASE states'[k].chunks = Append(s.chunks, a)
      <4>1. a \in Audios /\ a.bytes = b
        BY <2>3 DEF Audio, Audios
      <4> PICK t : t = states'
        OBVIOUS
      <4>2. /\ DOMAIN t = DOMAIN st /\ \A j \in DOMAIN st : j # k => t[j] = st[j]
            /\ k \in DOMAIN st /\ t[k].chunks = Append(st[k].chunks, a)
        BY <3>2, <3>4, <3>6
      <4>3. Budgeted(t)
        BY <2>3, <2>5, <2>7, <4>1, <4>2, GrowthIsBudgeted
      <4> QED BY <4>3
    <3> QED BY <3>4, <3>5, <3>6
  <2> QED BY <2>6, <2>7
<1> QED BY <1>1, <1>2

(* Audio that waits for its release never exceeds the budget,     *)
(* neither in chunks nor in bytes.                                          *)
THEOREM BudgetIsKept == Spec => []PreparedWithinBudget
<1>1. Init => Budgeted(states)
  <2> SUFFICES ASSUME Init PROVE Budgeted(states)
    OBVIOUS
  <2>1. DOMAIN states = {}
    BY EmptySeq DEF Init
  <2>2. Prepared(states) = {}
    BY <2>1 DEF Prepared
  <2>3. Bytes(states) = {}
    BY <2>2 DEF Bytes
  <2> QED BY <2>1, <2>2, <2>3, FS_EmptySet, PublisherAssumption DEF Budgeted
<1>2. ASSUME Sound, Budgeted(states), [Next]_vars PROVE Budgeted(states')
  <2>1. CASE SynthesisDone
    BY <1>2, <2>1, DoneIsBudgeted
  <2>2. CASE ~SynthesisDone
    <3>1. CASE \E o \in Orders : Register(o) \/ Translate(o)
      BY <3>1, SessionDwindles, DwindlingIsBudgeted, <1>2
    <3>2. CASE \/ \E o \in Orders : Approve(o) \/ Withdraw(o)
               \/ Offer \/ ForceDrain \/ ResetOrdering \/ WriterStep \/ UNCHANGED vars
      <4>1. states' = states
        BY <3>2 DEF Approve, Withdraw, Offer, ForceDrain, ResetOrdering, WriterStep, vars
      <4> QED BY <1>2, <4>1
    <3>3. CASE BeginSourceGeneration \/ Leave
      <4>1. states' = << >>
        BY <3>3 DEF BeginSourceGeneration, Leave
      <4>2. Dwindles(states, states')
        BY <4>1, EmptySeq DEF Dwindles
      <4> QED BY <1>2, <4>2, DwindlingIsBudgeted
    <3>4. CASE PublishItem
      BY <1>2, <3>4, PublishDwindles, DwindlingIsBudgeted
    <3>5. CASE Join
      BY <1>2, <3>5, DropDwindles, DwindlingIsBudgeted DEF Join
    <3>6. CASE SynthesisPick \/ SynthesisFails
      BY <1>2, <3>6, PickDwindles, FailsDwindles, DwindlingIsBudgeted
    <3>7. CASE Publication
      BY <1>2, <3>7, PublicationDwindles, DwindlingIsBudgeted
    <3> QED BY <1>2, <2>2, <3>1, <3>2, <3>3, <3>4, <3>5, <3>6, <3>7 DEF Next, Synthesis
  <2> QED BY <2>1, <2>2
<1>3. Sound /\ Budgeted(states) /\ [Next]_vars => Budgeted(states)'
  BY <1>2
<1>4. Budgeted(states) => PreparedWithinBudget
  BY DEF Budgeted, PreparedWithinBudget, PreparedChunks, PreparedBytes, Bytes
<1> QED BY <1>1, <1>3, <1>4, PublisherIsSound, PTL DEF Spec
===============================================================================
