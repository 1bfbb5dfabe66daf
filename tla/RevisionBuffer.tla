---------------------------- MODULE RevisionBuffer ----------------------------
(***************************************************************************)
(* The ordering boundary of spoken translations: RevisionStableTTSBuffer   *)
(* (voxbridge/tts/jobs.py) with the session's transitions around it        *)
(* (voxbridge/cli/demo_streaming_ws.py).                                   *)
(*                                                                         *)
(* A committed source sentence is registered under a source order.  Each   *)
(* edit registers a new revision and throws away the old one.  When the    *)
(* translation of the current revision is ready and the release policy     *)
(* (quiet window, confirmation, final seal) allows it, drain() hands the   *)
(* head of the order to the shared publisher.  With a deferred commit (the *)
(* native PCM path) the head stays replaceable until the publisher reports *)
(* its first shared PCM chunk; otherwise it is released at once.           *)
(*                                                                         *)
(* Every action is one transition the session runs without suspension,     *)
(* most of them under tts_transition_lock: the buffer call and the drain   *)
(* that follows it in the same critical section.  The lock is still held   *)
(* while _publish_tts_ready awaits the publisher, so a transition that     *)
(* needs it waits until "ready" is empty.  The publisher is abstract here: *)
(* a FIFO of handed-over items, each of which ends in its first shared     *)
(* commit or in its discard callback.                                      *)
(***************************************************************************)
EXTENDS Integers, Sequences, FiniteSets

CONSTANTS
    Sentences,          \* source occurrences (sentence ids) of one session
    MaxRevision,        \* bound on the revisions of one sentence
    MaxClock,           \* bound on the monotonic clock
    MaxEvidenceAge,     \* oldest confirmation evidence, in clock units
    Stable,             \* stable_sec
    Grace,              \* latest_revision_grace_sec
    Urgent,             \* confirmed_urgent_stable_sec (Stable when not set)
    HoldLatest,         \* hold_latest_until_sealed
    DeferCommit,        \* defer_commit: the native PCM path
    RequireConfirmation \* require_confirmation

ASSUME BoundsAssumption ==
    /\ MaxRevision \in Nat \ {0}
    /\ MaxClock \in Nat /\ MaxEvidenceAge \in Nat
    /\ Stable \in Nat /\ Grace \in Nat
    /\ Urgent \in 0..Stable

ASSUME ModesAssumption ==
    /\ HoldLatest \in BOOLEAN
    /\ DeferCommit \in BOOLEAN
    /\ RequireConfirmation \in BOOLEAN

VARIABLES
    entries,        \* _entries: source order |-> the entry waiting there
    sentenceOrders, \* _sentence_orders: the order of a sentence, or NoOrder
    released,       \* _released: the immutable revision, or NoRevision
    superseded,     \* _superseded: sentences absorbed by an earlier owner
    nextOrder,      \* _next_order: the head of the order
    highest,        \* _highest_source_order
    nextSource,     \* tts_runtime.next_source_order: the next fresh order
    urgent,         \* what the playback_pressure callback answers
    clock,          \* time.monotonic()
    ready,          \* items drain() returned, not yet given to the publisher
    queued,         \* the publisher's queue, oldest first
    live,           \* queued items whose callbacks have not been dropped
    stream,         \* history: items that crossed the shared boundary
    failed          \* history: sentences dropped from the head as failed

vars == << entries, sentenceOrders, released, superseded, nextOrder, highest,
           nextSource, urgent, clock, ready, queued, live, stream, failed >>

NoOrder    == -1
NoRevision == -1
Revisions  == 1..MaxRevision
Statuses   == {"waiting", "ready", "failed", "superseded"}

(* One _RevisionStableEntry.  "since" is _stable_since: confirmed_since,   *)
(* or changed_at when there is no older evidence.                          *)
Entry == [ sid       : Sentences,
           rev       : Revisions,
           since     : Int,
           status    : Statuses,
           confirmed : BOOLEAN,
           sealed    : BOOLEAN,
           urgentOk  : BOOLEAN,
           offered   : BOOLEAN ]

Item == [ sid : Sentences, rev : Revisions, order : Nat ]

Fresh(s, r) ==
    [ sid |-> s, rev |-> r, since |-> clock, status |-> "waiting",
      confirmed |-> FALSE, sealed |-> FALSE, urgentOk |-> TRUE, offered |-> FALSE ]

Init ==
    /\ entries = [o \in {} |-> {}]
    /\ sentenceOrders = [s \in Sentences |-> NoOrder]
    /\ released = [s \in Sentences |-> NoRevision]
    /\ superseded = {}
    /\ nextOrder = 0
    /\ highest = -1
    /\ nextSource = 0
    /\ urgent = FALSE
    /\ clock = 0
    /\ ready = {}
    /\ queued = << >>
    /\ live = {}
    /\ stream = << >>
    /\ failed = {}

-------------------------------------------------------------------------------
(* Lookups and the release policy.                                          *)

Pending == nextOrder..(nextSource - 1)

(* _current_entry: the revision is the one waiting, and not absorbed. *)
Current(s, r) ==
    /\ sentenceOrders[s] \in DOMAIN entries
    /\ entries[sentenceOrders[s]].rev = r
    /\ entries[sentenceOrders[s]].status # "superseded"

(* _release_policy and the quiet-window comparison that follows it. *)
Allowed(e, o) ==
    \/ e.sealed
    \/ /\ e.confirmed
       /\ clock >= e.since + (IF urgent /\ e.urgentOk THEN Urgent ELSE Stable)
    \/ /\ ~e.confirmed /\ ~RequireConfirmation
       /\ ~(o = highest /\ HoldLatest)
       /\ clock >= e.since + Stable + (IF o = highest THEN Grace ELSE 0)

(* Mutants: the guard forgets that only an offered entry may be committed,  *)
(* or does not ask the release policy again.                                *)
CanCommitUnoffered(s, r) ==
    IF released[s] # NoRevision
    THEN released[s] = r
    ELSE /\ Current(s, r)
         /\ LET e == entries[sentenceOrders[s]]
            IN  e.status = "ready" /\ Allowed(e, sentenceOrders[s])

CanCommitUnasked(s, r) ==
    IF released[s] # NoRevision
    THEN released[s] = r
    ELSE /\ Current(s, r)
         /\ LET e == entries[sentenceOrders[s]]
            IN  e.offered /\ e.status = "ready"

(* can_commit: the publication guard, evaluated at the shared boundary.     *)
(* It does not look at the head of the order.                               *)
CanCommit(s, r) ==
    IF released[s] # NoRevision
    THEN released[s] = r
    ELSE /\ Current(s, r)
         /\ LET e == entries[sentenceOrders[s]]
            IN  e.offered /\ e.status = "ready" /\ Allowed(e, sentenceOrders[s])

-------------------------------------------------------------------------------
(* The entries after one buffer call. *)

WithStatus(s, r, st) ==
    IF Current(s, r)
    THEN [entries EXCEPT ![sentenceOrders[s]].status = st]
    ELSE entries

(* confirm_revision.  age = NoAge: no evidence age was given. *)
NoAge == -1
Confirmed(s, age, allowUrgent) ==
    LET e == entries[sentenceOrders[s]]
    IN  [entries EXCEPT ![sentenceOrders[s]] =
            [e EXCEPT !.confirmed = TRUE, !.urgentOk = allowUrgent,
                      !.since = IF age # NoAge /\ clock - age < e.since
                                THEN clock - age ELSE e.since]]

(* seal_through of the last registered source order. *)
Sealed ==
    [o \in DOMAIN entries |->
        IF entries[o].status = "superseded" THEN entries[o]
        ELSE [entries[o] EXCEPT !.sealed = TRUE]]

(* Mutants: a discarded entry is forgotten although the head is still       *)
(* before it, or a withdrawn offer is not taken back.                       *)
DiscardedForgets(s, r) ==
    [o \in DOMAIN entries \ {sentenceOrders[s]} |-> entries[o]]

DiscardedKeepsOffer(s, r) ==
    IF CanCommit(s, r) THEN WithStatus(s, r, "failed") ELSE entries

(* The publisher's discard callback: a withdrawn item may be offered again, *)
(* an item that failed although it was still allowed is given up.           *)
Discarded(s, r) ==
    IF CanCommit(s, r) THEN WithStatus(s, r, "failed")
    ELSE IF Current(s, r) /\ entries[sentenceOrders[s]].status = "ready"
         THEN [entries EXCEPT ![sentenceOrders[s]].offered = FALSE]
         ELSE entries

(* Mutant: a forced drain passes over everything. *)
PassesAnything(e, o, force) ==
    \/ e.status \in {"superseded", "failed"}
    \/ force
    \/ e.status = "ready" /\ ~DeferCommit /\ ~e.offered /\ Allowed(e, o)

(* drain(force): what it passes over, what it hands out, where it stops. *)
Passes(e, o, force) ==
    \/ e.status \in {"superseded", "failed"}
    \/ e.status = "ready" /\ force
    \/ e.status = "ready" /\ ~DeferCommit /\ ~e.offered /\ Allowed(e, o)

Offers(e, o, force) ==
    /\ DeferCommit /\ ~force
    /\ e.status = "ready" /\ ~e.offered /\ Allowed(e, o)

Drain(es, force) ==
    \E n \in nextOrder..nextSource :
        LET passed == nextOrder..(n - 1)
            offer  == n < nextSource /\ Offers(es[n], n, force)
            given  == {o \in passed : es[o].status = "ready" /\ ~es[o].offered}
                        \cup {o \in {n} : offer}
        IN  /\ \A o \in passed : Passes(es[o], o, force)
            /\ n < nextSource => ~Passes(es[n], n, force)
            /\ nextOrder' = n
            /\ entries' = [o \in n..(nextSource - 1) |->
                              IF o = n /\ offer
                              THEN [es[o] EXCEPT !.offered = TRUE] ELSE es[o]]
            /\ released' = [s \in Sentences |->
                              IF /\ sentenceOrders[s] \in passed
                                 /\ es[sentenceOrders[s]].status = "ready"
                              THEN es[sentenceOrders[s]].rev ELSE released[s]]
            /\ failed' = failed \cup
                    {es[o].sid : o \in {p \in passed : es[p].status = "failed"}}
            /\ ready' = {[sid |-> es[o].sid, rev |-> es[o].rev, order |-> o] :
                            o \in given}

-------------------------------------------------------------------------------
(* The session's transitions. *)

LockFree == ready = {}

(* _register_tts_source of a new row: it takes the next source order. *)
RegisterNew(s) ==
    /\ LockFree
    /\ sentenceOrders[s] = NoOrder
    /\ sentenceOrders' = [sentenceOrders EXCEPT ![s] = nextSource]
    /\ nextSource' = nextSource + 1
    /\ highest' = nextSource
    /\ entries' = [o \in nextOrder..nextSource |->
                      IF o = nextSource THEN Fresh(s, 1) ELSE entries[o]]
    /\ UNCHANGED << released, superseded, nextOrder, urgent, clock, ready,
                    queued, live, stream, failed >>

(* _register_tts_source of an edit.  revise_source drops the callbacks of   *)
(* the old revision's audio before a new translation exists.                *)
RegisterRevision(s) ==
    /\ LockFree
    /\ sentenceOrders[s] \in DOMAIN entries
    /\ LET o == sentenceOrders[s] IN
       /\ entries[o].status # "superseded"
       /\ entries[o].rev < MaxRevision
       /\ entries' = [entries EXCEPT ![o] = Fresh(s, entries[o].rev + 1)]
    /\ live' = {i \in live : i.sid # s}
    /\ UNCHANGED << sentenceOrders, released, superseded, nextOrder, highest,
                    nextSource, urgent, clock, ready, queued, stream, failed >>

(* supersede_many: a live owner may absorb rows that wait behind it; nothing *)
(* that was released or absorbed before can go.                             *)
CanSupersede(owner, rows) ==
    /\ sentenceOrders[owner] \in DOMAIN entries
    /\ rows # {} /\ owner \notin rows
    /\ \A s \in rows : /\ sentenceOrders[s] \in DOMAIN entries
                       /\ sentenceOrders[s] > sentenceOrders[owner]
                       /\ entries[sentenceOrders[s]].status # "superseded"
    /\ entries[sentenceOrders[owner]].status \in {"waiting", "ready"}

(* The entries then: the owner's new revision, the rows without a claim.    *)
Superseding(owner, rows) ==
    [p \in DOMAIN entries |->
        IF p = sentenceOrders[owner] THEN Fresh(owner, entries[p].rev + 1)
        ELSE IF entries[p].sid \in rows
        THEN [entries[p] EXCEPT !.status = "superseded", !.offered = FALSE]
        ELSE entries[p]]

(* _reconcile_unpublished_source_rows: a revised owner absorbs the rows     *)
(* behind it (register, supersede_many, revise_source of every row).        *)
Reconcile(owner, rows) ==
    /\ LockFree
    /\ CanSupersede(owner, rows)
    /\ entries[sentenceOrders[owner]].rev < MaxRevision
    /\ LET es == Superseding(owner, rows)
       IN  /\ entries' = es
           /\ \E h \in DOMAIN es :
                 /\ es[h].status # "superseded"
                 /\ \A p \in DOMAIN es : p > h => es[p].status = "superseded"
                 /\ highest' = h
    /\ superseded' = superseded \cup rows
    /\ live' = {i \in live : i.sid \notin rows \cup {owner}}
    /\ UNCHANGED << sentenceOrders, released, nextOrder, nextSource, urgent,
                    clock, ready, queued, stream, failed >>

(* What a locked transition that ends in drain() leaves alone. *)
DrainFrame == UNCHANGED << sentenceOrders, superseded, highest, nextSource,
                           urgent, clock, queued, live, stream >>

(* _mark_tts_translation_ready and _mark_tts_translation_failed: the answer *)
(* to the one request of this revision, or its eviction from the queue.     *)
MarkReady(s) ==
    /\ LockFree
    /\ sentenceOrders[s] \in DOMAIN entries
    /\ entries[sentenceOrders[s]].status = "waiting"
    /\ Drain(WithStatus(s, entries[sentenceOrders[s]].rev, "ready"), FALSE)
    /\ DrainFrame

MarkFailed(s) ==
    /\ LockFree
    /\ sentenceOrders[s] \in DOMAIN entries
    /\ entries[sentenceOrders[s]].status \in {"waiting", "ready"}
    /\ Drain(WithStatus(s, entries[sentenceOrders[s]].rev, "failed"), FALSE)
    /\ DrainFrame

(* _confirm_tts_source: the current revision, with its decoder evidence.    *)
(* A confirmation that changes nothing returns before the drain.            *)
Confirm(s, age, allowUrgent) ==
    /\ LockFree
    /\ sentenceOrders[s] \in DOMAIN entries
    /\ entries[sentenceOrders[s]].status # "superseded"
    /\ Confirmed(s, age, allowUrgent) # entries
    /\ Drain(Confirmed(s, age, allowUrgent), FALSE)
    /\ DrainFrame

(* _seal_tts_sources_through_current_segment: likewise. *)
SealSegment ==
    /\ LockFree
    /\ Sealed # entries
    /\ Drain(Sealed, FALSE)
    /\ DrainFrame

(* One turn of _tts_stability_scheduler. *)
SchedulerDrain == LockFree /\ Drain(entries, FALSE) /\ DrainFrame

(* The end of a capture: the forced drain of the remaining tail. *)
FinishDrain == LockFree /\ Drain(entries, TRUE) /\ DrainFrame

(* revoke_confirmation, on a decoder withdrawal: it takes no lock. *)
Revoke(s) ==
    /\ sentenceOrders[s] \in DOMAIN entries
    /\ LET o == sentenceOrders[s] IN
       /\ entries[o].status # "superseded"
       /\ entries[o].confirmed /\ ~entries[o].sealed
       /\ entries' = [entries EXCEPT ![o].confirmed = FALSE, ![o].since = clock]
    /\ UNCHANGED << sentenceOrders, released, superseded, nextOrder, highest,
                    nextSource, urgent, clock, ready, queued, live, stream,
                    failed >>

-------------------------------------------------------------------------------
(* The publisher, as the session sees it. *)

NextReady(i) == i \in ready /\ \A j \in ready : j.order >= i.order

(* _publish_tts_ready: the publisher accepts the next item ... *)
PublishAccepted(i) ==
    /\ NextReady(i)
    /\ ready' = ready \ {i}
    /\ queued' = Append(queued, i)
    /\ live' = live \cup {i}
    /\ UNCHANGED << entries, sentenceOrders, released, superseded, nextOrder,
                    highest, nextSource, urgent, clock, stream, failed >>

(* ... or is full or closed, and the session calls discarded() itself. *)
PublishRefused(i) ==
    /\ NextReady(i)
    /\ ready' = ready \ {i}
    /\ entries' = Discarded(i.sid, i.rev)
    /\ UNCHANGED << sentenceOrders, released, superseded, nextOrder, highest,
                    nextSource, urgent, clock, queued, live, stream, failed >>

(* Mutants: committed() does not reach commit(), or commit() releases the   *)
(* revision and leaves its entry at the head.                               *)
CommitNothing(s, r) == UNCHANGED << entries, released, nextOrder >>

CommitKeepsEntry(s, r) ==
    /\ released' = [released EXCEPT ![s] = r]
    /\ UNCHANGED << entries, nextOrder >>

(* commit(): the offered head is released, and the head moves on over what  *)
(* was absorbed behind it.  A forced drain released the item before; then   *)
(* commit() is without effect.                                              *)
Commit(s, r) ==
    IF /\ Current(s, r)
       /\ sentenceOrders[s] = nextOrder /\ entries[nextOrder].offered
    THEN \E n \in (nextOrder + 1)..nextSource :
            /\ \A o \in (nextOrder + 1)..(n - 1) : entries[o].status = "superseded"
            /\ n < nextSource => entries[n].status # "superseded"
            /\ nextOrder' = n
            /\ entries' = [o \in n..(nextSource - 1) |-> entries[o]]
            /\ released' = [released EXCEPT ![s] = r]
    ELSE UNCHANGED << entries, released, nextOrder >>

(* committed(): the first shared chunk of the head item, guard included. *)
SharedCommit ==
    /\ queued # << >>
    /\ LET i == Head(queued) IN
       /\ i \in live /\ CanCommit(i.sid, i.rev)
       /\ stream' = Append(stream, i)
       /\ live' = live \ {i}
       /\ Commit(i.sid, i.rev)
    /\ queued' = Tail(queued)
    /\ UNCHANGED << sentenceOrders, superseded, highest, nextSource, urgent,
                    clock, ready, failed >>

(* The publisher gives the head item up: its guard answered no, or its      *)
(* synthesis or encoder failed before the first chunk.                      *)
Discard ==
    /\ queued # << >>
    /\ LET i == Head(queued) IN
       /\ i \in live
       /\ entries' = Discarded(i.sid, i.rev)
       /\ live' = live \ {i}
    /\ queued' = Tail(queued)
    /\ UNCHANGED << sentenceOrders, released, superseded, nextOrder, highest,
                    nextSource, urgent, clock, ready, stream, failed >>

(* A revised item reaches the head of the queue and is skipped. *)
SkipRevised ==
    /\ queued # << >> /\ Head(queued) \notin live
    /\ queued' = Tail(queued)
    /\ UNCHANGED << entries, sentenceOrders, released, superseded, nextOrder,
                    highest, nextSource, urgent, clock, ready, live, stream,
                    failed >>

-------------------------------------------------------------------------------
Tick ==
    /\ clock < MaxClock
    /\ clock' = clock + 1
    /\ UNCHANGED << entries, sentenceOrders, released, superseded, nextOrder,
                    highest, nextSource, urgent, ready, queued, live, stream,
                    failed >>

(* The native player's feedback changes what playback_pressure answers. *)
PlaybackPressure ==
    /\ urgent' = ~urgent
    /\ UNCHANGED << entries, sentenceOrders, released, superseded, nextOrder,
                    highest, nextSource, clock, ready, queued, live, stream,
                    failed >>

Publish ==
    \/ \E i \in ready : PublishAccepted(i) \/ PublishRefused(i)
    \/ SharedCommit
    \/ Discard
    \/ SkipRevised

Next ==
    \/ \E s \in Sentences :
          \/ RegisterNew(s) \/ RegisterRevision(s)
          \/ MarkReady(s) \/ MarkFailed(s) \/ Revoke(s)
          \/ \E age \in NoAge..MaxEvidenceAge, allow \in BOOLEAN :
                Confirm(s, age, allow)
          \/ \E rows \in SUBSET Sentences : Reconcile(s, rows)
    \/ SealSegment \/ SchedulerDrain \/ FinishDrain
    \/ Publish
    \/ Tick \/ PlaybackPressure

(* The event loop runs the scheduler, which every change wakes, and the     *)
(* publisher's tasks; nothing makes a speaker talk or a segment end.        *)
Fairness ==
    /\ WF_vars(Publish)
    /\ WF_vars(SchedulerDrain)

Spec == Init /\ [][Next]_vars

FairSpec == Spec /\ Fairness

-------------------------------------------------------------------------------
(* What makes the boundary correct. *)

(* Every source order from the head on has an entry: no order is left out,  *)
(* so the strict order can always be continued.                             *)
TypeOK ==
    /\ nextOrder \in Nat /\ nextSource \in Nat /\ nextOrder <= nextSource
    /\ entries \in [Pending -> Entry]
    /\ sentenceOrders \in [Sentences -> Nat \cup {NoOrder}]
    /\ released \in [Sentences -> Revisions \cup {NoRevision}]
    /\ superseded \in SUBSET Sentences /\ failed \in SUBSET Sentences
    /\ highest \in Int /\ urgent \in BOOLEAN /\ clock \in Nat
    /\ ready \in SUBSET Item /\ live \in SUBSET Item
    /\ queued \in Seq(Item) /\ stream \in Seq(Item)

(* can_commit never looks at _next_order, yet the commit that follows its   *)
(* yes must not be refused: the callback ignores commit()'s answer.         *)
GuardImpliesCommit ==
    \A s \in Sentences, r \in Revisions :
        CanCommit(s, r) =>
            \/ released[s] = r
            \/ /\ sentenceOrders[s] = nextOrder
               /\ Current(s, r) /\ entries[nextOrder].offered

(* An offered head is in the hands of the publisher, which will commit it   *)
(* or call discarded(): an offer nobody holds would block the order for ever.*)
OfferedHeadIsHeld ==
    \A o \in DOMAIN entries :
        entries[o].offered /\ entries[o].status = "ready" =>
            \E i \in ready \cup live :
                i.sid = entries[o].sid /\ i.rev = entries[o].rev

(* Every order the head passed was released, absorbed or failed, and only   *)
(* one of the three: nothing is skipped silently.                           *)
PassedIsSettled ==
    \A s \in Sentences :
        /\ sentenceOrders[s] \in 0..(nextOrder - 1) =>
              released[s] # NoRevision \/ s \in superseded \/ s \in failed
        /\ released[s] # NoRevision => s \notin superseded \cup failed
        /\ s \in superseded => s \notin failed

(* A released revision is immutable, whatever is registered, confirmed,     *)
(* withdrawn or absorbed later.                                             *)
ReleasedIsFinal ==
    [][\A s \in Sentences :
          released[s] # NoRevision => released'[s] = released[s]]_vars

(* Where a confirmation is required, an unsealed sentence enters the shared *)
(* stream only while it is confirmed: a withdrawal between the offer and    *)
(* the first chunk takes the permission away again.                         *)
NoUnconfirmedSpeech ==
    [][\A s \in Sentences :
          /\ RequireConfirmation /\ stream' # stream
          /\ s = stream'[Len(stream')].sid
          /\ released[s] = NoRevision
          => \/ entries[sentenceOrders[s]].sealed
             \/ entries[sentenceOrders[s]].confirmed]_vars

(* A sealed head with a translation leaves the head: it is spoken, absorbed *)
(* or given up, and what follows it is not blocked.                         *)
SealedHeadLeaves ==
    \A o \in 0..(Cardinality(Sentences) - 1), r \in Revisions :
        /\ nextOrder = o /\ o \in DOMAIN entries
        /\ entries[o].rev = r /\ entries[o].sealed /\ entries[o].status = "ready"
        ~> \/ nextOrder > o
           \/ o \in DOMAIN entries /\ entries[o].rev > r

-------------------------------------------------------------------------------
(* The buffer implements what the speech path promises (SpeechStream).      *)

fate ==
    [s \in Sentences |->
        IF released[s] # NoRevision THEN "released"
        ELSE IF s \in superseded THEN "absorbed"
        ELSE IF sentenceOrders[s] \in DOMAIN entries THEN "open"
        ELSE IF sentenceOrders[s] = NoOrder THEN "none"
        ELSE "failed"]

text ==
    [s \in Sentences |->
        IF released[s] # NoRevision THEN released[s]
        ELSE IF fate[s] = "open" THEN entries[sentenceOrders[s]].rev
        ELSE 0]

heard == [k \in 1..Len(stream) |-> [sid |-> stream[k].sid, rev |-> stream[k].rev]]

Speech == INSTANCE SpeechStream WITH row <- sentenceOrders

(* Every behaviour of the buffer, the drains, discards and withdrawals      *)
(* included, is one the listener was promised: the shared timeline follows  *)
(* the source order, speaks a sentence at most once, and speaks it in the   *)
(* revision that was released.                                              *)
ImplementsSpeechStream == Speech!Spec
===============================================================================
