--------------------------- MODULE SentenceCommit ---------------------------
(***************************************************************************)
(* From decoder hypotheses to committed sentence rows: the function        *)
(* _update_sentence_commits of demo_streaming_ws.py with the source ledger *)
(* (streaming/source_ledger.py), the coordinator of coverage and speech    *)
(* evidence (interpretation/source_commit.py, tts/confirmation.py), the    *)
(* carry of an unfinished tail over a segment cut and the callers that run *)
(* it: a partial, the idle commit, a segment end, a carried endpoint, the  *)
(* finish.  English source, shared native speech, the default streaming    *)
(* engine.                                                                 *)
(*                                                                         *)
(* The speaker says the words 1, 2, 3, ...; no two are spelled alike and   *)
(* the decoder spells each of them the same way every time it hears it.    *)
(* What it changes is how far it hears and where it puts the sentence      *)
(* ends.  A text is then an interval of words with the set of words that   *)
(* end a unit, a committed unit is an interval, and the tests on spelling  *)
(* (prefix, containment, length) are tests on intervals.                   *)
(***************************************************************************)
EXTENDS Integers, Sequences, FiniteSets

CONSTANTS
    MaxWord,      \* words of the utterance
    MaxSegment,   \* bound: decoder segments
    MaxBirth,     \* bound: identities the ledger gives one word
    MaxDecode,    \* bound: partial decodes
    Overlap,      \* whether a segment hears the last word again (segment_overlap_sec)
    BigGrowth,    \* words by which a row must grow to be taken at once
    StableHits,   \* decodes that must agree on a growing newest unit
    SmallHits,    \* decodes that must agree on a small growth (_SMALL_UPGRADE_REQUIRED_HITS)
    Lookahead,    \* words that must follow a unit (unfixed_token_num)
    MinWords,     \* words of a unit that is not a short fragment
    Clauses,      \* words after which only a clause may end
    Sensitive     \* negations, numbers and names

Word == 1..MaxWord

ASSUME SentenceCommitAssumption ==
    /\ {MaxWord, MaxSegment, MaxBirth, MaxDecode, BigGrowth, StableHits, SmallHits} \subseteq Nat \ {0}
    /\ {Lookahead, MinWords} \subseteq Nat
    /\ Overlap \in BOOLEAN
    /\ Clauses \subseteq Word /\ Sensitive \subseteq Word

VARIABLES
    decodes,   \* partial decodes so far
    heard,     \* the decoder's own text: [lo, hi, ends]; empty when hi < lo
    shown,     \* the text the partials are computed from (accepted_text)
    segment,   \* segment_runtime.id
    pend,      \* the pending prefix: [lo, hi, ends, reason, terminal, retain]
    anchor,    \* the boundary anchor: the last word of the previous segment and its period
    ledger,    \* the ledger's text: [lo, hi, seg]
    born,      \* the identity the ledger gives each word
    units,     \* the completed units the coordinator saw last
    evidence,  \* unit -> decodes that agree on it
    rows,      \* the committed rows, in order
    base,      \* commit_base: rows of earlier segments
    cand,      \* the candidate cursor: [lo, hi, row] per consumed position
    previous,  \* prev_completed_sentences
    growing,   \* the early holdback: [unit, hits]
    deferred,  \* row -> [unit, hits], the small growths under observation
    done,      \* the final result has been processed
    clipped,   \* history: words of the carry were left out of the text
    moved      \* history: a decode has cut consumed words differently, or hears them again

vars == <<decodes, heard, shown, segment, pend, anchor, ledger, born, units, evidence, rows,
          base, cand, previous, growing, deferred, done, clipped, moved>>

-----------------------------------------------------------------------------
(* Texts and units.                                                        *)

Unit(a, b) == [lo |-> a, hi |-> b]
Blank == Unit(1, 0)
Empty(t) == t.hi < t.lo
WordsOf(u) == u.lo..u.hi
Within(u, v) == v.lo <= u.lo /\ u.hi <= v.hi
Size(u) == Cardinality(WordsOf(u))
Nth(S, k) == CHOOSE x \in S : Cardinality({y \in S : y <= x}) = k
AtMost(a, b) == IF a <= b THEN a ELSE b
AtLeast(a, b) == IF a >= b THEN a ELSE b

\* The completed units of a text lie between one end and the next, the
\* words after the last end are its tail (_split_subtitle_units).
EndsOf(t) == t.ends \cap WordsOf(t)
UnitsOf(t) ==
    LET E == EndsOf(t)
    IN  [k \in 1..Cardinality(E) |->
            Unit(IF k = 1 THEN t.lo ELSE Nth(E, k - 1) + 1, Nth(E, k))]
TailOf(t) ==
    LET E == EndsOf(t)
    IN  IF E = {} THEN Unit(t.lo, t.hi) ELSE Unit(Nth(E, Cardinality(E)) + 1, t.hi)

Short(u) == Size(u) < MinWords
Need(u) == IF u.hi \in Clauses \/ WordsOf(u) \cap Sensitive # {} THEN 3 ELSE 2

-----------------------------------------------------------------------------
(* The carry over a segment cut (_compose_effective_text_for_commit).      *)

NoPend == [lo |-> 1, hi |-> 0, ends |-> {}, reason |-> "none", terminal |-> FALSE,
           retain |-> FALSE]
NoAnchor == [hi |-> 0, stop |-> FALSE]

\* A period in the carry is compared like a letter, a comma is not.
Stop(t) == t.hi \in t.ends \ Clauses

\* The pending prefix and the new segment's text, put together.  A text that
\* repeats the prefix's last word replaces that word; a prefix held at a
\* sentence end keeps the end if the new text completes a sentence of its own;
\* a prefix that still ends a sentence is not glued to a text after a hard cut.
Joined(g, anc) ==
    LET whole(E) == [lo |-> pend.lo, hi |-> g.hi, ends |-> E \cup {w \in g.ends : w >= g.lo}]
        inner == {w \in pend.ends : w < pend.hi}
        as(t, p, a) == [text |-> t, pend |-> p, anchor |-> a]
    IN  IF Empty(pend) THEN as(g, pend, anc)
        ELSE IF Empty(g)
             THEN as([lo |-> pend.lo, hi |-> pend.hi, ends |-> pend.ends], pend, anc)
        ELSE IF g.lo = pend.hi /\ (Stop(pend) => pend.hi \in g.ends)
             THEN as(whole(inner),
                     [pend EXCEPT !.terminal = FALSE,
                                  !.retain = pend.reason = "hard" /\ pend.lo < g.lo],
                     anc)
        ELSE IF g.lo = pend.lo THEN as(g, NoPend, anc)
        ELSE IF pend.reason = "vad"
             THEN as(whole(pend.ends), [pend EXCEPT !.retain = TRUE], NoAnchor)
        ELSE IF pend.terminal /\ UnitsOf(g) # <<>>
             THEN as(whole(pend.ends \cup {pend.hi}), [pend EXCEPT !.retain = TRUE], NoAnchor)
        ELSE IF Stop(pend) THEN as(g, NoPend, anc)
        ELSE as(whole(pend.ends), [pend EXCEPT !.retain = TRUE], anc)

\* The anchor is the end of the previous segment's text.  What the joined text
\* repeats of it at its beginning is cut off if it is short: one word is, two
\* are not.
Cuts(j) == j.text.lo = j.anchor.hi /\ ~Empty(j.text)
           /\ (j.anchor.stop => j.text.lo \in j.text.ends)
Compose(g, anc) == LET j == Joined(g, anc)
                   IN  IF Cuts(j) THEN [j EXCEPT !.text.lo = @ + 1] ELSE j

-----------------------------------------------------------------------------
(* The ledger: identities of the words, what a row is bound to.            *)

\* Words that are in the ledger's text and in the next text of the same
\* segment keep their identity, and so does a carry that is the end of the old
\* text and the beginning of the new one (SourceLedger.observe).
Remembered(t) ==
    IF ledger.seg = segment THEN WordsOf(ledger) \cap WordsOf(t)
    ELSE IF /\ ~Empty(pend) /\ Within(pend, ledger) /\ ledger.hi = pend.hi
            /\ t.lo = pend.lo /\ t.hi >= pend.hi
         THEN WordsOf(pend) ELSE {}
Born(t) == [w \in Word |-> IF w \in WordsOf(t) \ Remembered(t) THEN born[w] + 1 ELSE born[w]]

\* The first word of the text that the decoder's own text shows as well: all
\* of the decode must be the end of the text, else no word counts as observed.
RawStart(t, raw) == IF ~Empty(raw) /\ t.lo <= raw.lo /\ t.hi = raw.hi THEN raw.lo ELSE t.hi + 1

Span(u, t, b) == IF Empty(u) \/ ~Within(u, t) THEN {} ELSE {<<w, b[w]>> : w \in WordsOf(u)}

\* Whether a row's words, or those it was published with, contain these.
Covers(row, span) == span \subseteq row.ids \/ span \subseteq row.pids
Overlapping(S, rs) == {i \in DOMAIN rs : rs[i].ids \cap S # {}}

\* Agreement of distinct decodes on a unit: a unit that the new text does not
\* complete, or that the decode itself does not show, loses its evidence; a
\* repeated reading of one decode adds none (SpeechConfirmation.observe).
Observed(us, t, b, raw, fresh) ==
    LET seen == {Span(us[k], t, b) : k \in {k \in DOMAIN us : us[k].hi >= RawStart(t, raw)}}
    IN  [s \in seen |-> IF s \in DOMAIN evidence
                        THEN AtMost(3, evidence[s] + (IF fresh THEN 1 ELSE 0))
                        ELSE 1]

(* Mutant: a withdrawn unit keeps its confirmation. *)
RevokesNothing(us, t, b) == rows

\* A row whose words are not a unit of the current text loses its confirmation.
IsCurrent(row, us, t, b) == row.ids # {} /\ \E k \in DOMAIN us : Span(us[k], t, b) = row.ids
Revoked(us, t, b) ==
    [i \in DOMAIN rows |->
        IF i > base /\ ~rows[i].pub /\ ~IsCurrent(rows[i], us, t, b)
        THEN [rows[i] EXCEPT !.conf = FALSE] ELSE rows[i]]

\* The evidence that confirms a row for speech (SourceCommitCoordinator.decision).
Ready(row, t, b, ev) ==
    /\ row.ids # {} /\ row.ids = Span(row, t, b)
    /\ row.ids \in DOMAIN ev /\ ev[row.ids] >= Need(row)
    /\ t.hi - row.hi >= Lookahead

-----------------------------------------------------------------------------
(* Rows that the decoder now hears as one unit are merged, if the merge    *)
(* keeps every word and none of them is published                          *)
(* (SourceCommitCoordinator.reconciliation_plan,                           *)
(* _reconcile_unpublished_source_rows).                                    *)

(* Mutants: the unit need not have every word of the rows it replaces; a     *)
(* published row is merged like any other.                                  *)
MergesPart(u, span, rs) ==
    LET over == Overlapping(span, rs)
    IN  /\ span # {} /\ Cardinality(over) > 1
        /\ \A i \in over : i > base /\ ~rs[i].pub
MergesPublished(u, span, rs) ==
    LET over == Overlapping(span, rs)
    IN  /\ span # {} /\ Cardinality(over) > 1
        /\ \A i \in over : i > base
        /\ UNION {rs[i].ids : i \in over} = span

Merge(u, span, rs) ==
    LET over == Overlapping(span, rs)
    IN  /\ span # {} /\ Cardinality(over) > 1
        /\ \A r \in DOMAIN rs : rs[r].pids \cap span = {}
        /\ \A i \in over : i > base /\ ~rs[i].pub
        /\ \A i, j \in over : \A k \in i..j : k \in over
        /\ \A i, j \in over : i < j => rs[i].hi < rs[j].lo
        /\ UNION {rs[i].ids : i \in over} = span

Merges(us, t, b, rs) == {k \in DOMAIN us : Merge(us[k], Span(us[k], t, b), rs)}
Owner(span, rs) == Nth(Overlapping(span, rs), 1)
Absorbed(ks, us, t, b, rs) ==
    UNION {LET S == Span(us[k], t, b) IN Overlapping(S, rs) \ {Owner(S, rs)} : k \in ks}

Keep(s, S) == LET left == DOMAIN s \ S
              IN  [k \in 1..Cardinality(left) |-> s[Nth(left, k)]]

\* Every consumed position that stays must be, in order, a unit of the text.
PrefixHolds(ks, us, t, b, rs) ==
    LET gone == Absorbed(ks, us, t, b, rs)
        kept == Keep(cand, {c \in DOMAIN cand : cand[c].row \in gone})
        span(c) == LET mine == {k \in ks : Owner(Span(us[k], t, b), rs) = c.row}
                   IN  IF c.row = 0 THEN {}
                       ELSE IF mine = {} THEN rs[c.row].ids
                       ELSE Span(us[CHOOSE k \in mine : TRUE], t, b)
    IN  /\ Len(us) >= Len(kept)
        /\ \A c \in DOMAIN kept : span(kept[c]) # {} /\ span(kept[c]) = Span(us[c], t, b)
        /\ \A k \in ks : \A i \in Overlapping(Span(us[k], t, b), rs) :
               \E c \in DOMAIN cand : cand[c].row = i

Ends(u, b) == <<<<u.lo, b[u.lo]>>, <<u.hi, b[u.hi]>>>>
Merged(ks, us, t, b, rs) ==
    LET gone == Absorbed(ks, us, t, b, rs)
        after(i) == i - Cardinality({a \in gone : a < i})
        owns(i) == {k \in ks : Owner(Span(us[k], t, b), rs) = i}
        taken(i, k) == Overlapping(Span(us[k], t, b), rs) \ {i}
        row(i) == IF owns(i) = {} THEN rs[i]
                  ELSE LET k == CHOOSE k \in owns(i) : TRUE
                       IN  [rs[i] EXCEPT !.lo = us[k].lo, !.hi = us[k].hi,
                                         !.ids = Span(us[k], t, b), !.conf = FALSE,
                                         !.req = @ \cup {Ends(rs[j], b) : j \in taken(i, k)}]
        kept == Keep([i \in DOMAIN rs |-> row(i)], gone)
        left == Keep(cand, {c \in DOMAIN cand : cand[c].row \in gone})
    IN  [rows |-> kept,
         cand |-> [c \in DOMAIN left |->
                      LET i == after(left[c].row)
                      IN  [lo |-> kept[i].lo, hi |-> kept[i].hi, row |-> i]],
         previous |-> [c \in DOMAIN left |->
                          LET i == after(left[c].row) IN Unit(kept[i].lo, kept[i].hi)],
         deferred |-> [i \in {after(d) : d \in DOMAIN deferred \ gone} |->
                          deferred[CHOOSE d \in DOMAIN deferred \ gone : after(d) = i]]]

Reconcile(us, t, b, rs) ==
    LET ks == Merges(us, t, b, rs)
    IN  IF ks # {} /\ PrefixHolds(ks, us, t, b, rs)
        THEN Merged(ks, us, t, b, rs)
        ELSE [rows |-> rs, cand |-> cand, previous |-> previous, deferred |-> deferred]

-----------------------------------------------------------------------------
(* Which units are new and ready.                                          *)

\* The newest units, after the tail was taken for a unit where the caller
\* forces it, and after the consumed positions that the text no longer fills
\* were filled up with what was consumed there
\* (_stabilize_completed_prefix_with_cursor).
Completed(t, m, cs) ==
    LET us == UnitsOf(t)
        all == IF (m.force \/ m.tail) /\ ~Empty(TailOf(t)) THEN Append(us, TailOf(t)) ELSE us
    IN  [k \in 1..AtLeast(Len(all), Len(cs)) |->
            IF k <= Len(all) THEN all[k] ELSE Unit(cs[k].lo, cs[k].hi)]
Rest(t, m) == IF m.force \/ m.tail THEN Blank ELSE TailOf(t)

\* A validated correction that only moves boundaries moves the cursor to where
\* the consumed words end now (_remap_completed_cursor_after_resegmentation).
Remapped(us, m, cs) ==
    LET same == {k \in Len(cs) + 1..Len(us) : us[1].lo = cs[1].lo /\ us[k].hi = cs[Len(cs)].hi}
    IN  IF m.canonical /\ Len(cs) > 0 /\ same # {} THEN Nth(same, 1) ELSE Len(cs)

\* Units that were the same in the decode before.
AgreedEnd(us, from, prev) ==
    LET differ == {k \in from + 1..Len(us) : k > Len(prev) \/ us[k] # prev[k]}
    IN  IF differ = {} THEN Len(us) ELSE Nth(differ, 1) - 1

\* The newest unit is held back while it may still grow.
HeldEnd(us, from, m, prev) ==
    LET end == IF m.force \/ m.all THEN Len(us) ELSE AgreedEnd(us, from, prev)
    IN  IF ~m.force /\ m.holdback THEN AtLeast(from, AtMost(end, Len(us) - 1)) ELSE end

HardCutWait(us, t, m) ==
    ~m.force /\ pend.reason = "hard" /\ ~Empty(pend) /\ Len(us) = 1 /\ Empty(Rest(t, m))

\* The newest unit is watched for an early commit only when it alone is held.
Watched(us, from, m, prev) ==
    ~m.force /\ m.promote /\ m.holdback /\ HeldEnd(us, from, m, prev) = Len(us) - 1
Hits(u) == IF growing.unit = u THEN AtMost(StableHits, growing.hits + 1) ELSE 1
Promotes(us, from, t, m, prev, aged) ==
    /\ Watched(us, from, m, prev)
    /\ Hits(us[Len(us)]) >= StableHits /\ aged
    /\ Size(Rest(t, m)) >= Lookahead
    /\ ~HardCutWait(us, t, m)

\* A short fragment at a slice and a clause without enough text behind it stop
\* the commits in front of them.
Stops(us, t, m, k) ==
    \/ m.slice /\ ~m.force /\ Short(us[k])
    \/ ~m.force /\ us[k].hi \in Clauses /\ t.hi - us[k].hi < Lookahead
ReadyEnd(us, from, t, m, prev, aged) ==
    LET end == HeldEnd(us, from, m, prev)
               + (IF Promotes(us, from, t, m, prev, aged) THEN 1 ELSE 0)
        stops == {k \in from + 1..end : Stops(us, t, m, k)}
    IN  IF stops = {} THEN end ELSE Nth(stops, 1) - 1

-----------------------------------------------------------------------------
(* A row follows the unit at its position, when that unit is more than the *)
(* row; a small growth must be seen several times or be final.             *)

Extends(u, row) == u.lo = row.lo /\ u.hi > row.hi
Big(u, row) ==
    \/ Extends(u, row) /\ Size(u) >= Size(row) + BigGrowth
    \/ Within(row, u) /\ Size(u) > Size(row) + BigGrowth

\* What the row took over from merged rows must stay in it, in order, until it
\* is published; a correction may not reach into the unit before.
Contracts(span, row) ==
    ~row.pub /\ \E r \in row.req : ~({r[1], r[2]} \subseteq span)
Replays(u, row, k, m) == m.canonical /\ k > 1 /\ u.lo < row.lo

Small(u, row, span, k, m) ==
    /\ ~Contracts(span, row) /\ ~Replays(u, row, k, m)
    /\ ~Big(u, row) /\ Extends(u, row) /\ ~m.final
Seen(i, u, def) ==
    IF i \in DOMAIN def /\ def[i].unit = u THEN AtMost(SmallHits, def[i].hits + 1) ELSE 1
Accepts(i, u, row, span, k, m, def, aged) ==
    /\ ~Contracts(span, row) /\ ~Replays(u, row, k, m)
    /\ \/ Big(u, row)
       \/ Extends(u, row) /\ m.final
       \/ Small(u, row, span, k, m) /\ Seen(i, u, def) >= SmallHits /\ aged

\* The tentative tail: the units that are not consumed and the rest.  A short
\* fragment that was stopped loses its period.
Open(us, t, m, end) ==
    LET from == IF end < Len(us) THEN us[end + 1].lo ELSE Rest(t, m).lo
        hi == IF end < Len(us) \/ ~Empty(Rest(t, m)) THEN t.hi ELSE from - 1
        stripped == IF end < Len(us) /\ m.slice /\ ~m.force /\ Short(us[end + 1])
                    THEN {us[end + 1].hi} ELSE {}
    IN  [lo |-> from, hi |-> hi, ends |-> {w \in t.ends : from <= w /\ w <= hi} \ stripped]

-----------------------------------------------------------------------------
(* One run of _update_sentence_commits on a text, and what it leaves.      *)

NoRow == [lo |-> 1, hi |-> 0, ids |-> {}, pids |-> {}, pub |-> FALSE, conf |-> FALSE,
          req |-> {}]
Row(u, span) == [NoRow EXCEPT !.lo = u.lo, !.hi = u.hi, !.ids = span]

\* A row that follows its unit has a new revision: it is bound to the unit's
\* words and what confirmed it counts no more.
Upgraded(row, u, span) ==
    [row EXCEPT !.lo = u.lo, !.hi = u.hi, !.ids = span, !.conf = FALSE]

\* A correction commits no unit whose words the segment's rows already hold; and
\* no unit is committed whose words one row holds, or held when it was published.
AlreadyHeld(u, m, rs) == m.canonical /\ \E i \in base + 1..Len(rs) : Within(u, rs[i])
Held(u, span, m, rs) ==
    AlreadyHeld(u, m, rows) \/ (span # {} /\ \E i \in DOMAIN rs : Covers(rs[i], span))

\* The other units become rows, in their order.
WithNew(rs, us, new, t, b) ==
    rs \o [n \in 1..Cardinality(new) |-> LET u == us[Nth(new, n)] IN Row(u, Span(u, t, b))]

\* The consumed positions: new units with their rows, units that were held back
\* without one, and rows that follow their unit (_record_completed_candidate).
Recorded(cs, us, from, end, new, grown, old) ==
    [k \in 1..(IF end > from THEN AtLeast(end, Len(cs)) ELSE Len(cs)) |->
        IF k \in from + 1..end
        THEN [lo |-> us[k].lo, hi |-> us[k].hi,
              row |-> IF k \in new THEN old + Cardinality({n \in new : n <= k}) ELSE 0]
        ELSE IF k \in grown THEN [cs[k] EXCEPT !.lo = us[k].lo, !.hi = us[k].hi]
        ELSE IF k \in DOMAIN cs THEN cs[k]
        ELSE [lo |-> 1, hi |-> 0, row |-> 0]]

\* Every row that is not published is asked for again after each decode.
Confirmed(rs, t, b, ev) ==
    [i \in DOMAIN rs |-> IF ~rs[i].pub /\ Ready(rs[i], t, b, ev)
                         THEN [rs[i] EXCEPT !.conf = TRUE] ELSE rs[i]]

\* What the run leaves when rows have been merged (R), us are the units with
\* the consumed positions filled up, the units from + 1 to end are ready, and
\* the rows at the positions grown follow their unit.
Outcome(x, R, us, from, end, grown) ==
    LET t == x.text
        span(k) == Span(us[k], t, x.born)
        others == {k \in 1..AtMost(Len(us), Len(R.cand)) : R.cand[k].row # 0} \ grown
        small == {k \in others : Small(us[k], R.rows[R.cand[k].row], span(k), k, x.mode)}
        kept == {k \in others : Contracts(span(k), R.rows[R.cand[k].row])
                                 /\ R.cand[k].row \in DOMAIN R.deferred}
        upgraded == [i \in DOMAIN R.rows |->
                        IF \E k \in grown : R.cand[k].row = i
                        THEN LET k == CHOOSE k \in grown : R.cand[k].row = i
                             IN  Upgraded(R.rows[i], us[k], span(k))
                        ELSE R.rows[i]]
        new == {k \in from + 1..end : ~Held(us[k], span(k), x.mode, upgraded)}
        ends == new # {} \/ x.mode.force
        watch == Watched(us, from, x.mode, R.previous)
                 /\ ~Promotes(us, from, t, x.mode, R.previous, x.early)
    IN  [text |-> t, born |-> x.born, units |-> x.seen, evidence |-> x.evidence,
         rows |-> Confirmed(WithNew(upgraded, us, new, t, x.born), t, x.born, x.evidence),
         cand |-> Recorded(R.cand, us, from, end, new, grown, Len(upgraded)),
         previous |-> us,
         open |-> Open(us, t, x.mode, end),
         growing |-> IF watch THEN [unit |-> us[Len(us)], hits |-> Hits(us[Len(us)])]
                     ELSE [unit |-> Blank, hits |-> 0],
         deferred |-> [i \in {R.cand[k].row : k \in small \cup kept} |->
                          LET k == CHOOSE k \in small \cup kept : R.cand[k].row = i
                          IN  IF k \in kept THEN R.deferred[i]
                              ELSE [unit |-> us[k], hits |-> Seen(i, us[k], R.deferred)]],
         pend |-> IF ~Empty(pend) /\ ends /\ (x.mode.force \/ ~x.pend.retain)
                  THEN NoPend ELSE x.pend,
         anchor |-> IF x.old # NoAnchor /\ ends THEN NoAnchor ELSE x.anchor,
         clipped |-> ~Empty(pend) /\ t.lo > pend.lo,
         moved |-> \E k \in DOMAIN cand :
                       k > Len(x.seen) \/ x.seen[k] # Unit(cand[k].lo, cand[k].hi)]

\* Rows follow their units, then the units behind the consumed ones become rows.
Follow(x, R, us) ==
    LET from == Remapped(us, x.mode, R.cand)
        grown == {k \in 1..AtMost(Len(us), Len(R.cand)) :
                     LET i == R.cand[k].row
                     IN  i # 0 /\ Accepts(i, us[k], R.rows[i], Span(us[k], x.text, x.born),
                                         k, x.mode, R.deferred, x.aged)}
    IN  Outcome(x, R, us, from,
                AtLeast(from, ReadyEnd(us, from, x.text, x.mode, R.previous, x.early)), grown)

Merging(x) ==
    LET R == Reconcile(x.seen, x.text, x.born, Revoked(x.seen, x.text, x.born))
    IN  Follow(x, R, Completed(x.text, x.mode, R.cand))

\* The text as it is composed and read, before anything is done with it.
Reading(j, b, in, m, early, aged) ==
    [text |-> j.text, pend |-> j.pend, anchor |-> j.anchor, old |-> in.anchor, born |-> b,
     seen |-> UnitsOf(j.text), evidence |-> Observed(UnitsOf(j.text), j.text, b, in.raw, in.fresh),
     mode |-> m, early |-> early, aged |-> aged]

Update(in, m, early, aged) ==
    LET j == Compose(in.text, in.anchor)
    IN  Merging(Reading(j, Born(j.text), in, m, early, aged))

Mode == [force |-> FALSE, holdback |-> FALSE, all |-> FALSE, slice |-> FALSE, tail |-> FALSE,
         final |-> FALSE, promote |-> TRUE, canonical |-> FALSE]
Input(t, raw, fresh) == [text |-> t, raw |-> raw, fresh |-> fresh, anchor |-> anchor]

\* What every caller takes over from the run; the carry, the base and the
\* cursor are its own business.
Commits(u) ==
    /\ ledger' = [lo |-> u.text.lo, hi |-> u.text.hi, seg |-> segment]
    /\ born' = u.born /\ \A w \in Word : u.born[w] <= MaxBirth
    /\ units' = u.units
    /\ evidence' = u.evidence
    /\ rows' = u.rows
    /\ clipped' = (clipped \/ u.clipped)
    /\ moved' = (moved \/ u.moved)
Stays(u) ==
    /\ Commits(u)
    /\ cand' = u.cand /\ previous' = u.previous /\ growing' = u.growing
    /\ deferred' = u.deferred /\ pend' = u.pend /\ anchor' = u.anchor
    /\ UNCHANGED <<segment, base, done>>

Fresh ==
    /\ base' = Len(rows') /\ cand' = <<>> /\ previous' = <<>>
    /\ growing' = [unit |-> Blank, hits |-> 0] /\ deferred' = <<>>

(* Mutant: the committed carry is put in front of the next text again. *)
NoCarryAnchor == pend' = pend /\ anchor' = NoAnchor

NoCarry == pend' = NoPend /\ anchor' = NoAnchor

\* A decode of the segment's audio hears about one word more or less than the
\* one before and may put the ends anywhere.
Nothing(a) == [lo |-> a, hi |-> a - 1, ends |-> {}]
Decodes == {[lo |-> heard.lo, hi |-> h, ends |-> E] :
               h \in {h \in heard.lo..MaxWord : h - heard.hi \in -1..1},
               E \in SUBSET (heard.lo..MaxWord)}
Proper(g) == g.ends \subseteq WordsOf(g)

Init ==
    /\ decodes = 0 /\ heard = Nothing(1) /\ shown = Nothing(1) /\ segment = 1
    /\ pend = NoPend /\ anchor = NoAnchor
    /\ ledger = [lo |-> 1, hi |-> 0, seg |-> 0]
    /\ born = [w \in Word |-> 0]
    /\ units = <<>> /\ evidence = <<>> /\ rows = <<>> /\ base = 0
    /\ cand = <<>> /\ previous = <<>> /\ growing = [unit |-> Blank, hits |-> 0]
    /\ deferred = <<>>
    /\ done = FALSE /\ clipped = FALSE /\ moved = FALSE

\* A new decode; the text that the partials are computed from stays when the
\* decode is much shorter (_stabilize_partial_text).
Partial(g, hold, early, aged) ==
    /\ ~done /\ Proper(g) /\ decodes < MaxDecode
    /\ decodes' = decodes + 1
    /\ hold => g.hi < shown.hi
    /\ LET t == IF hold THEN shown ELSE g
       IN  /\ Stays(Update(Input(t, g, TRUE), [Mode EXCEPT !.holdback = TRUE], early, aged))
           /\ shown' = t
    /\ heard' = g

\* No new text for a while: the units are committed, the tail only if it looks
\* complete enough (_maybe_idle_tail_commit).
Idle(tail, aged) ==
    /\ ~done /\ ~Empty(shown)
    /\ Stays(Update(Input(shown, heard, FALSE),
                    [Mode EXCEPT !.all = TRUE, !.slice = TRUE, !.tail = tail], FALSE, aged))
    /\ UNCHANGED <<decodes, heard, shown>>

-----------------------------------------------------------------------------
(* The end of a segment (_finalize_current_segment).                       *)

(* Mutant: only the unfinished tail is carried, not the units held back. *)
CarriesTail(g, u, reason, mid) ==
    IF Empty(TailOf(g)) THEN NoPend
    ELSE [NoPend EXCEPT !.lo = TailOf(g).lo, !.hi = TailOf(g).hi, !.reason = reason]

\* The pending prefix the next segment starts with: what was not consumed, or
\* the text's own tail.  A sentence that may continue loses its period.
Carry(g, u, reason, mid) ==
    LET own == [lo |-> TailOf(g).lo, hi |-> TailOf(g).hi, ends |-> {}]
        p == IF Empty(u.open) THEN own ELSE u.open
        last == UnitsOf(g)[Len(UnitsOf(g))]
        short == UnitsOf(g) # <<>> /\ Unit(p.lo, p.hi) = last /\ Short(last)
                 /\ last.hi \notin Clauses
        cutOff == short \/ (mid /\ Stop(p))
    IN  IF Empty(p) THEN NoPend
        ELSE [lo |-> p.lo, hi |-> p.hi,
              ends |-> IF cutOff THEN p.ends \ {p.hi} ELSE p.ends,
              reason |-> reason,
              terminal |-> short \/ (cutOff /\ ~(UnitsOf(g) # <<>> /\ Unit(p.lo, p.hi) = last)),
              retain |-> FALSE]

Rotate(g, reason, mid, forced, canonical, fresh) ==
    LET us == UnitsOf(g)
        short == Len(us) = 1 /\ Empty(TailOf(g)) /\ Short(us[1]) /\ ~forced
        u == Update(Input(g, g, fresh),
                    [Mode EXCEPT !.force = forced, !.tail = forced, !.all = TRUE,
                                 !.slice = TRUE, !.final = TRUE,
                                 !.holdback = short \/ mid, !.promote = ~mid,
                                 !.canonical = canonical], FALSE, TRUE)
    IN  /\ ~done /\ ~Empty(g) /\ Proper(g) /\ segment < MaxSegment
        /\ (fresh \/ g = heard)
        /\ mid => reason = "hard"
        /\ forced => reason = "vad"
        /\ canonical => reason = "vad"
        \* an unforced silence waits while the text has a tail or a short unit
        /\ reason = "vad" /\ ~forced => Empty(TailOf(g)) /\ \A k \in DOMAIN us : ~Short(us[k])
        /\ Commits(u) /\ Fresh
        /\ pend' = IF forced THEN NoPend ELSE Carry(g, u, reason, mid)
        /\ anchor' = [hi |-> g.hi, stop |-> Stop(g)]
        /\ segment' = segment + 1
        /\ \E start \in {g.hi + 1} \cup (IF Overlap /\ reason = "hard" THEN {g.hi} ELSE {}) :
               heard' = Nothing(start) /\ shown' = Nothing(start)
        /\ UNCHANGED <<decodes, done>>

\* Silence after a cut: the carry is committed as it is, before the new segment
\* has any text (_maybe_commit_carried_endpoint).
CarriedEndpoint ==
    LET t == [lo |-> pend.lo, hi |-> pend.hi,
              ends |-> IF pend.terminal THEN pend.ends \cup {pend.hi} ELSE pend.ends]
        u == Update([text |-> t, raw |-> heard, fresh |-> FALSE, anchor |-> NoAnchor],
                    [Mode EXCEPT !.force = TRUE, !.all = TRUE, !.slice = TRUE, !.final = TRUE],
                    FALSE, TRUE)
    IN  /\ ~done /\ ~Empty(pend) /\ Empty(heard)
        /\ Commits([u EXCEPT !.moved = @ \/ heard.lo <= pend.hi]) /\ Fresh
        /\ NoCarry
        /\ UNCHANGED <<decodes, heard, shown, segment, done>>

-----------------------------------------------------------------------------
(* The finish (finish_stream): the last decode is committed to the end, or *)
(* the whole utterance is read again and replaces every row, unless        *)
(* something was published; so it does when there is no row at all         *)
(* (final_commit_reconcile).                                               *)

Recommitted(t) ==
    LET us == Completed(t, [Mode EXCEPT !.force = TRUE], <<>>)
    IN  [k \in DOMAIN us |-> Row(us[k], Span(us[k], t, born))]

Finish(g, canonical) ==
    LET u == Update(Input(g, g, TRUE),
                    [Mode EXCEPT !.force = TRUE, !.final = TRUE, !.canonical = canonical],
                    FALSE, TRUE)
    IN  /\ ~done /\ Proper(g)
        /\ Commits([u EXCEPT !.rows = IF @ = <<>> THEN Recommitted(g) ELSE @])
        /\ Fresh /\ NoCarry
        /\ heard' = g /\ shown' = g /\ done' = TRUE
        /\ UNCHANGED <<decodes, segment>>

ReadAgain(E) ==
    /\ ~done /\ \A i \in DOMAIN rows : ~rows[i].pub
    /\ E \subseteq 1..heard.hi
    /\ LET t == [lo |-> 1, hi |-> heard.hi, ends |-> E]
       IN  /\ rows' = Recommitted(t) /\ heard' = t /\ shown' = t
           /\ ledger' = [lo |-> 1, hi |-> heard.hi, seg |-> segment]
    /\ Fresh /\ NoCarry /\ done' = TRUE
    /\ UNCHANGED <<decodes, segment, born, units, evidence, clipped, moved>>

\* A row is published in its turn once it is confirmed, its segment is over or
\* the stream is; its words stay reserved for it.
Publish(i) ==
    /\ i \in DOMAIN rows /\ ~rows[i].pub
    /\ \A j \in 1..i - 1 : rows[j].pub
    /\ rows[i].conf \/ i <= base \/ done
    /\ rows' = [rows EXCEPT ![i].pub = TRUE, ![i].pids = rows[i].ids]
    /\ UNCHANGED <<decodes, heard, shown, segment, pend, anchor, ledger, born, units, evidence, base,
                   cand, previous, growing, deferred, done, clipped, moved>>

Next ==
    \/ \E g \in Decodes, hold, early, aged \in BOOLEAN : Partial(g, hold, early, aged)
    \/ \E tail, aged \in BOOLEAN : Idle(tail, aged)
    \/ \E g \in Decodes, mid, forced, canonical, fresh \in BOOLEAN, reason \in {"hard", "vad"} :
           Rotate(g, reason, mid, forced, canonical, fresh)
    \/ CarriedEndpoint
    \/ \E g \in Decodes, canonical \in BOOLEAN : Finish(g, canonical)
    \/ \E E \in SUBSET Word : ReadAgain(E)
    \/ \E i \in DOMAIN rows : Publish(i)

Spec == Init /\ [][Next]_vars

-----------------------------------------------------------------------------

Committed == UNION {WordsOf(rows[i]) : i \in DOMAIN rows}
Published == {i \in DOMAIN rows : rows[i].pub}

(* A row of the open segment that may be spoken before its end is, as it     *)
(* stands and by the identity of every word, a complete unit of the text     *)
(* that was processed last: growing it, merging it or a text that withdraws  *)
(* it takes the confirmation back.                                           *)
ConfirmedIsCurrent ==
    \A i \in DOMAIN rows : i > base /\ rows[i].conf /\ ~rows[i].pub =>
        \E k \in DOMAIN units : Span(units[k], ledger, born) = rows[i].ids

(* As long as no decode changes the boundaries of units that were consumed,  *)
(* no occurrence of a word is in two rows: nothing is spoken twice, whatever *)
(* is carried, merged, grown or committed early.                             *)
StableBoundariesOwnOnce ==
    ~moved => \A i, j \in DOMAIN rows : i # j => rows[i].ids \cap rows[j].ids = {}

(* Every word of the final text, from the first on, is in a row.             *)
(* Documented: the comments of _maybe_commit_carried_endpoint ("Its own      *)
(* boundary anchor must not erase it") and rule 5 of SPEECH-CONSISTENCY.md   *)
(* ("Capture finish reconciles source text").                                *)
NothingLost == done => 1..heard.hi \subseteq Committed

(* So it is if no decode changed consumed boundaries and the carry was always *)
(* part of the text: the holdbacks, stops and waits only delay words, they    *)
(* never skip one over a cut, an idle commit or the finish.                   *)
StableBoundariesLoseNothing == ~moved /\ ~clipped => NothingLost

(* A committed word stays committed, except when the finish reads the whole   *)
(* utterance again, which it does only if nothing was published: neither a    *)
(* merge nor a correction takes words away.                                   *)
CommittedStays ==
    [][~done' \/ Published # {} => Committed \subseteq Committed']_vars

(* A published row keeps its place and the words that were spoken.            *)
PublishedStays ==
    [][\A i \in Published : /\ i \in Published' /\ rows'[i].pids = rows[i].pids
                            /\ WordsOf(rows[i]) \subseteq WordsOf(rows'[i])]_vars

=============================================================================
