---------------------------- MODULE SpeechPublisher ----------------------------
(***************************************************************************)
(* The shared speech publisher in chunked mode (SharedHLSTTSPublisher,     *)
(* voxbridge/tts/hls.py): how released translations become one ordered     *)
(* stream of PCM chunks.                                                   *)
(*                                                                         *)
(* Two tasks share the event loop.  The synthesis loop prepares chunks     *)
(* within a budget, also for sentences that are not released yet.  The     *)
(* publish loop takes released sentences in FIFO order and appends their   *)
(* chunks to the encoder.  The encoder checks the publication guard after  *)
(* it has waited for space and then, without suspending, makes the chunk   *)
(* shared and calls committed(): a sentence whose first chunk is shared    *)
(* can no longer change.                                                   *)
(*                                                                         *)
(* The session is modelled as far as the publisher sees it: sentences of   *)
(* one capture ("gen") are numbered from 0, may be edited until they are   *)
(* released, and only the head of the order is offered (RevisionBuffer is  *)
(* the detailed account).  An action is a stretch of one task between two  *)
(* points where it may suspend.                                            *)
(***************************************************************************)
EXTENDS Integers, Sequences, FiniteSets, Functions

CONSTANTS
    N,              \* sentences of one capture
    MaxRevision,    \* bound on the revisions of a sentence
    MaxRevisionReset, \* the same where a capture follows or its order is reset
    Pieces,         \* split_speech_chunks: chunks of the n-th sentence
    ChunkBytes,     \* sizes a chunk of the n-th sentence may have
    MaxPrepared,    \* preparation_max_chunks
    MaxBytes,       \* preparation_max_bytes
    CacheSize,      \* preparation_cache_size
    QueueSize,      \* queue_size
    EncoderSlots,   \* pcm_queue_size
    MaxGen,         \* bound on the captures after the first
    MaxResets,      \* bound on the ordering resets inside a capture
    MaxEpochs,      \* bound on the listener epochs
    MaxFaults,      \* bound on the failures of synthesis and encoder
    MaxDisturbances \* bound on all of these together

ASSUME PublisherAssumption ==
    /\ N \in Nat \ {0} /\ MaxRevision \in Nat \ {0}
    /\ MaxRevisionReset \in 1..MaxRevision
    /\ Pieces \in [0..(N - 1) -> Nat \ {0}]
    /\ MaxPrepared \in Nat \ {0} /\ MaxBytes \in Nat
    /\ ChunkBytes \in [0..(N - 1) -> SUBSET (1..MaxBytes)]
    /\ CacheSize \in Nat \ {0}
    /\ QueueSize \in Nat \ {0} /\ EncoderSlots \in Nat \ {0}
    /\ MaxGen \in Nat /\ MaxResets \in Nat /\ MaxEpochs \in Nat /\ MaxFaults \in Nat
    /\ MaxDisturbances \in Nat

VARIABLES
    (* the session *)
    gen,        \* tts_runtime.generation: names the sentences of a capture
    rev,        \* revision of each sentence, 0 before it is registered
    translated, \* sentences whose current revision has a translation
    approved,   \* sentences the release policy lets go
    head,       \* RevisionStableTTSBuffer._next_order
    offered,    \* whether the entry at the head is offered
    released,   \* immutable revisions, 0 when there is none
    outbox,     \* items drain() returned, under tts_transition_lock
    (* the publisher *)
    epochs,     \* listener epochs started so far
    listening,  \* there is a lease, an encoder and both loops
    generation, \* _source_generation
    queue,      \* _queue
    states,     \* _chunk_states
    line,       \* the released keys of _chunk_states, by release_order
    latest,     \* the values of _latest_key_by_sentence
    known,      \* _source_revisions
    hooks,      \* keys of _commit_callbacks and _discard_callbacks
    guards,     \* keys of _publication_guards
    completed,  \* _chunk_completed
    consumed,   \* _chunk_consumed_source_order
    work,       \* _work_available
    synth,      \* what the synthesis loop works on
    speaker,    \* what the publish loop works on
    encoder,    \* chunks in the encoder's PCM queue
    pcm,        \* history: the chunks of this epoch's native stream
    faults,     \* failures so far
    resets      \* ordering resets so far

session   == << gen, rev, translated, approved, head, offered, released, outbox >>
fences    == << latest, known, completed, consumed, generation >>
callbacks == << hooks, guards >>
lease     == << epochs, listening >>
counters  == << faults, resets >>
vars == << session, lease, queue, states, line, fences, callbacks, work, synth,
           speaker, encoder, pcm, counters >>

Orders == 0..(N - 1)
Gens   == 0..(MaxGen + MaxResets)
Keys   == [gen : Gens, order : Orders, rev : 1..MaxRevision]
None   == [at |-> "none"]

Key(o)            == [gen |-> gen, order |-> o, rev |-> rev[o]]
SameSentence(j,k) == j.gen = k.gen /\ j.order = k.order
Count(k)          == Pieces[k.order]

(* A _ChunkPreparation and its _PreparedAudio.  "busy" marks the object the *)
(* synthesis loop works on: a key that is dropped and comes back has        *)
(* another one.                                                             *)
Audio(text, bytes) == [text |-> text, bytes |-> bytes]

NewState == [chunks |-> << >>, next |-> 0, published |-> 0, done |-> FALSE,
             changed |-> FALSE, busy |-> FALSE]

Init ==
    /\ gen = 0 /\ rev = [o \in Orders |-> 0]
    /\ translated = {} /\ approved = {}
    /\ head = 0 /\ offered = FALSE
    /\ released = [o \in Orders |-> 0] /\ outbox = << >>
    /\ epochs = 0 /\ listening = FALSE /\ generation = 0
    /\ queue = << >> /\ states = << >> /\ line = << >>
    /\ latest = {} /\ known = [g \in Gens |-> [o \in Orders |-> 0]]
    /\ hooks = {} /\ guards = {} /\ completed = {} /\ consumed = -1
    /\ work = FALSE /\ synth = None /\ speaker = None
    /\ encoder = 0 /\ pcm = << >> /\ faults = 0 /\ resets = 0

-------------------------------------------------------------------------------
(* The session's answers to the publisher. *)

(* can_commit, under the generation check of the session's lambda. *)
CanCommit(k) ==
    /\ k.gen = gen
    /\ IF released[k.order] # 0 THEN released[k.order] = k.rev
       ELSE /\ k.order = head /\ offered /\ k.rev = rev[head]
            /\ head \in translated \cap approved

(* Mutant: the callback of the first shared chunk is lost. *)
CommittedNothing(k) == k.gen \in Gens /\ UNCHANGED session

(* committed(): commit() releases the revision and advances the head. *)
Committed(k) ==
    IF k.gen = gen /\ released[k.order] = 0
    THEN /\ released' = [released EXCEPT ![k.order] = k.rev]
         /\ head' = head + 1 /\ offered' = FALSE
         /\ UNCHANGED << gen, rev, translated, approved, outbox >>
    ELSE UNCHANGED session

(* discarded() of a set of keys: only the head on offer is concerned.  It   *)
(* is given up when it was still allowed, else it may be offered again.     *)
Discarded(K) ==
    IF head < N /\ offered /\ Key(head) \in K
    THEN /\ head' = IF CanCommit(Key(head)) THEN head + 1 ELSE head
         /\ offered' = FALSE
         /\ UNCHANGED << gen, rev, translated, approved, released, outbox >>
    ELSE UNCHANGED session

-------------------------------------------------------------------------------
(* Bookkeeping. *)

Valid(k, g) == g = generation /\ k \in DOMAIN states /\ k \in latest

(* What remains of a line when the keys of K leave it (SelectSeq, in a form *)
(* that the proofs can use).                                                *)
Without(q, K) ==
    LET stays == {i \in DOMAIN q : q[i] \notin K}
        Place(i) == Cardinality({j \in stays : j <= i})
    IN  [n \in 1..Cardinality(stays) |-> q[CHOOSE i \in stays : Place(i) = n]]

DropStates(K) ==
    /\ states' = Restrict(states, DOMAIN states \ K)
    /\ line' = Without(line, K)

(* _select_latest_item_locked: other revisions lose state and callbacks. *)
Others(k) == {j \in Keys : SameSentence(j, k) /\ j # k}

Prepared(st) == UNION {{k} \X DOMAIN st[k].chunks : k \in DOMAIN st}

PreparedChunks(st) == Cardinality(Prepared(st))

(* The bytes of these chunks, each by its place. *)
PreparedBytes(st) ==
    Cardinality(UNION {{p} \X (1..st[p[1]].chunks[p[2]].bytes) : p \in Prepared(st)})

(* Mutant: the chunk that is about to be stored is not counted. *)
FitsAlready(st, required) ==
    /\ PreparedChunks(st) < MaxPrepared
    /\ PreparedBytes(st) <= MaxBytes

Fits(st, required) ==
    /\ PreparedChunks(st) < MaxPrepared
    /\ PreparedBytes(st) + required <= MaxBytes

(* Mutant: the chunks are given back, their count is not. *)
EvictKeepsNext(E) ==
    [k \in DOMAIN states |->
        IF k \in E THEN [states[k] EXCEPT !.chunks = << >>, !.done = FALSE] ELSE states[k]]

Evict(E) ==
    [k \in DOMAIN states |->
        IF k \in E THEN [states[k] EXCEPT !.chunks = << >>, !.next = 0, !.done = FALSE]
        ELSE states[k]]

(* Mutant: speculative work keeps its room, whoever waits. *)
EvictableNever(required) == {}

(* _make_preparation_room: work that is not the head's gives its chunks     *)
(* back, one state after the other (in dictionary order, any order here)    *)
(* until one more chunk of the required bytes fits.                         *)
Evictable(required) ==
    IF Fits(states, required) \/ line = << >> \/ states[Head(line)].done THEN {}
    ELSE {k \in DOMAIN states :
             k # Head(line) /\ states[k].published = 0 /\ states[k].chunks # << >>}

Evictions(required) ==
    {E \in SUBSET Evictable(required) :
        IF Fits(Evict(E), required)
        THEN E = {} \/ \E e \in E : ~Fits(Evict(E \ {e}), required)
        ELSE E = Evictable(required)}

-------------------------------------------------------------------------------
(* Calls of the session. *)

LockFree == outbox = << >>

(* _register_tts_source of a row or of its edit, with revise_source.        *)
Register(o) ==
    /\ LockFree
    /\ head <= o /\ rev[o] < (IF gen > 0 THEN MaxRevisionReset ELSE MaxRevision)
    /\ o > 0 => rev[o - 1] > 0
    /\ rev' = [rev EXCEPT ![o] = @ + 1]
    /\ translated' = translated \ {o} /\ approved' = approved \ {o}
    /\ offered' = (offered /\ o # head)
    /\ LET old == {j \in DOMAIN states :
                      j.gen = gen /\ j.order = o /\ j.rev < rev[o] + 1}
       IN  IF o <= consumed \/ rev[o] + 1 < known[gen][o]
           THEN UNCHANGED << known, states, line, latest, callbacks, work >>
           ELSE /\ known' = [known EXCEPT ![gen][o] = rev[o] + 1]
                /\ DropStates(old)
                /\ latest' = latest \ old
                /\ hooks' = hooks \ old /\ guards' = guards \ old
                /\ work' = (work \/ old # {})
    /\ UNCHANGED << gen, head, released, outbox, lease, queue, completed, consumed,
                    generation, synth, speaker, encoder, pcm, counters >>

(* _mark_tts_translation_ready and its prepare(): audio may be synthesized  *)
(* before it is released, if somebody listens and the cache has room.       *)
Translate(o) ==
    /\ LockFree
    /\ head <= o /\ rev[o] > 0 /\ o \notin translated
    /\ translated' = translated \cup {o}
    /\ LET k == Key(o)
           old == Others(k)
           room == k \in DOMAIN states \/ Cardinality(DOMAIN states \ old) < CacheSize
           kept == Restrict(states, DOMAIN states \ old)
       IN  IF \/ ~listening \/ k.rev < known[gen][o]
              \/ \E j \in latest : SameSentence(j, k) /\ j.rev > k.rev
              \/ k \in completed \/ o <= consumed
           THEN UNCHANGED << states, line, latest, known, callbacks, work >>
           ELSE /\ known' = [known EXCEPT ![gen][o] = k.rev]
                /\ latest' = (latest \ old) \cup {k}
                /\ hooks' = hooks \ (old \cap DOMAIN states)
                /\ guards' = guards \ (old \cap DOMAIN states)
                /\ line' = Without(line, old)
                /\ states' = IF room /\ k \notin DOMAIN states
                             THEN [j \in DOMAIN kept \cup {k} |->
                                      IF j = k THEN NewState ELSE kept[j]]
                             ELSE kept
                /\ work' = (work \/ room)
    /\ UNCHANGED << gen, rev, approved, head, offered, released, outbox, lease,
                    queue, completed, consumed, generation, synth, speaker,
                    encoder, pcm, counters >>

(* The release policy lets a sentence go, or withdraws the permission.      *)
Approve(o) ==
    /\ LockFree /\ head <= o /\ rev[o] > 0 /\ o \notin approved
    /\ approved' = approved \cup {o}
    /\ UNCHANGED << gen, rev, translated, head, offered, released, outbox, lease,
                    queue, states, line, fences, callbacks, work, synth, speaker,
                    encoder, pcm, counters >>

Withdraw(o) ==
    /\ head <= o /\ o \in approved
    /\ approved' = approved \ {o}
    /\ UNCHANGED << gen, rev, translated, head, offered, released, outbox, lease,
                    queue, states, line, fences, callbacks, work, synth, speaker,
                    encoder, pcm, counters >>

(* drain(): the head is offered. *)
Offer ==
    /\ LockFree /\ head < N /\ ~offered
    /\ head \in translated \cap approved
    /\ offered' = TRUE /\ outbox' = << Key(head) >>
    /\ UNCHANGED << gen, rev, translated, approved, head, released, lease, queue,
                    states, line, fences, callbacks, work, synth, speaker,
                    encoder, pcm, counters >>

(* drain(force=True) at the end of a capture: what has a translation is     *)
(* released at once; what is on offer already is not handed out again.      *)
ForceDrain ==
    /\ LockFree /\ head \in translated
    /\ \E n \in (head + 1)..N :
          /\ \A o \in head..(n - 1) : o \in translated
          /\ n < N => n \notin translated
          /\ head' = n
          /\ released' = [o \in Orders |->
                             IF o \in head..(n - 1) THEN rev[o] ELSE released[o]]
          /\ outbox' = LET first == IF offered THEN head + 1 ELSE head
                       IN  [i \in 1..(n - first) |-> Key(first + i - 1)]
    /\ offered' = FALSE
    /\ UNCHANGED << gen, rev, translated, approved, lease, queue, states, line,
                    fences, callbacks, work, synth, speaker, encoder, pcm,
                    counters >>

(* _reset_tts_ordering in the middle of a capture: sentences are numbered   *)
(* from 0 again; the publisher is not told.                                 *)
RestartOrdering ==
    /\ gen' = gen + 1 /\ rev' = [o \in Orders |-> 0]
    /\ translated' = {} /\ approved' = {}
    /\ head' = 0 /\ offered' = FALSE
    /\ released' = [o \in Orders |-> 0] /\ outbox' = << >>

(* A reset, a capture, a failure or a second listener epoch may still come. *)
MoreDisturbances ==
    generation + resets + faults + (IF epochs > 1 THEN epochs - 1 ELSE 0) < MaxDisturbances

ResetOrdering ==
    /\ LockFree /\ resets < MaxResets /\ MoreDisturbances
    /\ \A o \in Orders : rev[o] <= MaxRevisionReset
    /\ resets' = resets + 1
    /\ RestartOrdering
    /\ UNCHANGED << lease, queue, states, line, fences, callbacks, work, synth,
                    speaker, encoder, pcm, faults >>

(* A new capture: begin_source_generation fences the old one. *)
BeginSourceGeneration ==
    /\ LockFree /\ generation < MaxGen /\ MoreDisturbances
    /\ RestartOrdering
    /\ generation' = generation + 1
    /\ hooks' = {} /\ guards' = {} /\ completed' = {} /\ consumed' = -1
    /\ known' = [g \in Gens |-> [o \in Orders |-> 0]]
    /\ latest' = {} /\ states' = << >> /\ line' = << >> /\ queue' = << >>
    /\ work' = TRUE
    /\ UNCHANGED << lease, synth, speaker, encoder, pcm, counters >>

-------------------------------------------------------------------------------
(* publish() of the next item of the outbox. *)

Stale(k) == \/ k.rev < known[k.gen][k.order]
            \/ \E j \in latest : SameSentence(j, k) /\ j.rev > k.rev

Swallowed(k) == \/ k \in completed \/ k.order <= consumed
                \/ \E i \in DOMAIN line : line[i] = k

(* True is returned at once for what was published or queued before. *)
PublishSwallowed ==
    /\ outbox # << >> /\ ~Stale(Head(outbox)) /\ Swallowed(Head(outbox))
    /\ outbox' = Tail(outbox)
    /\ UNCHANGED << gen, rev, translated, approved, head, offered, released, lease,
                    queue, states, line, fences, callbacks, work, synth, speaker,
                    encoder, pcm, counters >>

(* Otherwise the item is the latest of its sentence and is queued.  A full  *)
(* queue is an error for listeners; without them the oldest item goes.      *)
PublishQueued ==
    /\ outbox # << >>
    /\ LET k    == Head(outbox)
           full == Len(queue) >= QueueSize
           old  == Others(k) \cup (IF full THEN {Head(queue)} ELSE {})
           kept == Restrict(states, DOMAIN states \ old)
       IN  /\ ~Stale(k) /\ ~Swallowed(k)
           /\ full => ~listening
           /\ known' = [known EXCEPT ![k.gen][k.order] = k.rev]
           /\ latest' = (latest \ old) \cup
                           (IF full /\ Head(queue) = k THEN {} ELSE {k})
           /\ queue' = Append(IF full THEN Tail(queue) ELSE queue, k)
           /\ states' = [j \in DOMAIN kept \cup {k} |->
                            [(IF j \in DOMAIN kept THEN kept[j] ELSE NewState)
                                EXCEPT !.changed = (j = k) \/ @]]
           /\ line' = Append(Without(line, old), k)
           /\ hooks' = (hooks \ (Others(k) \cap DOMAIN states)) \cup {k}
           /\ guards' = (guards \ (Others(k) \cap DOMAIN states)) \cup {k}
    /\ work' = TRUE
    /\ outbox' = Tail(outbox)
    /\ UNCHANGED << gen, rev, translated, approved, head, offered, released, lease,
                    completed, consumed, generation, synth, speaker, encoder, pcm,
                    counters >>

(* A full queue, or an item that was revised meanwhile: the session calls   *)
(* discarded() itself.                                                      *)
PublishRefused ==
    /\ outbox # << >>
    /\ LET k   == Head(outbox)
           old == IF Stale(k) THEN {} ELSE Others(k)
       IN  /\ \/ Stale(k)
              \/ ~Swallowed(k) /\ Len(queue) >= QueueSize /\ listening
           /\ known' = IF Stale(k) THEN known
                       ELSE [known EXCEPT ![k.gen][k.order] = k.rev]
           /\ latest' = IF Stale(k) THEN latest ELSE (latest \ old) \cup {k}
           /\ DropStates(old)
           /\ hooks' = hooks \ (old \cap DOMAIN states)
           /\ guards' = guards \ (old \cap DOMAIN states)
           /\ IF offered /\ head < N /\ Key(head) = k
              THEN /\ head' = IF CanCommit(k) THEN head + 1 ELSE head
                   /\ offered' = FALSE
              ELSE UNCHANGED << head, offered >>
    /\ outbox' = Tail(outbox)
    /\ UNCHANGED << gen, rev, translated, approved, released, lease, queue,
                    completed, consumed, generation, work, synth, speaker, encoder,
                    pcm, counters >>

-------------------------------------------------------------------------------
(* Listeners. *)

(* touch_listener without an encoder: a new epoch starts, and of the speech *)
(* that was queued before only the last item is kept.  The callbacks of the *)
(* others stay behind.                                                      *)
Join ==
    /\ ~listening /\ epochs < MaxEpochs /\ (epochs > 0 => MoreDisturbances)
    /\ listening' = TRUE /\ epochs' = epochs + 1
    /\ LET keep  == IF queue = << >> THEN << >> ELSE << queue[Len(queue)] >>
           stale == Range(queue) \ Range(keep)
       IN  /\ queue' = keep
           /\ latest' = latest \ stale
           /\ DropStates(stale)
    /\ work' = (work \/ queue # << >>)
    /\ pcm' = << >>
    /\ UNCHANGED << session, known, completed, consumed, generation, callbacks,
                    synth, speaker, encoder, counters >>

(* _stop_stream, when the last lease is removed or expires: every pending   *)
(* offer is discarded and both loops are cancelled.                         *)
Leave ==
    /\ listening
    /\ listening' = FALSE
    /\ Discarded(hooks)
    /\ hooks' = {} /\ guards' = {}
    /\ known' = [g \in Gens |-> [o \in Orders |-> 0]]
    /\ states' = << >> /\ line' = << >> /\ queue' = << >>
    /\ latest' = {} /\ completed' = {} /\ consumed' = -1
    /\ work' = FALSE /\ synth' = None /\ speaker' = None
    /\ encoder' = 0 /\ pcm' = << >>
    /\ UNCHANGED << epochs, generation, counters >>

-------------------------------------------------------------------------------
(* The synthesis loop. *)

Unfinished == {k \in DOMAIN states : ~states[k].done}

(* The oldest release goes first, then the speculative item of the lowest   *)
(* source order.                                                            *)
Candidates ==
    LET waiting == {i \in DOMAIN line : line[i] \in Unfinished}
    IN  IF waiting # {} THEN {line[i] : i \in {j \in waiting : \A h \in waiting : j <= h}}
        ELSE {k \in Unfinished : \A j \in Unfinished : k.order <= j.order}

SynthesisFrame == UNCHANGED << session, lease, queue, known, completed, consumed,
                               generation, callbacks, speaker, encoder, pcm >>

(* The loop lets go of the state it worked on and sets its "changed". *)
Idle ==
    [k \in DOMAIN states |->
        IF states[k].busy THEN [states[k] EXCEPT !.changed = TRUE, !.busy = FALSE]
        ELSE states[k]]

SynthesisPick ==
    /\ listening /\ synth = None /\ work
    /\ IF Unfinished = {}
       THEN work' = FALSE /\ UNCHANGED << states, line, latest, synth >>
       ELSE \E E \in Evictions(0) :
               IF ~Fits(Evict(E), 0)
               THEN /\ states' = Evict(E) /\ work' = FALSE
                    /\ UNCHANGED << line, latest, synth >>
               ELSE \E k \in Candidates :
                       IF Valid(k, generation)
                       THEN /\ states' = [Evict(E) EXCEPT ![k].busy = TRUE]
                            /\ synth' = [at |-> "infer", key |-> k,
                                         gen |-> generation,
                                         index |-> Evict(E)[k].next,
                                         bytes |-> 0]
                            /\ UNCHANGED << line, latest, work >>
                       ELSE /\ DropStates({k}) /\ latest' = latest \ {k}
                            /\ UNCHANGED << work, synth >>
    /\ SynthesisFrame /\ UNCHANGED counters

(* The bytes of the synthesized audio: its speed may differ each time. *)
Sizes == IF synth.at = "infer" THEN ChunkBytes[synth.key.order] ELSE {synth.bytes}

(* Synthesis returned.  The audio of a revision that was dropped meanwhile  *)
(* is thrown away.  Without room for its bytes the loop waits with the      *)
(* audio in hand and looks again whenever work becomes available; the head  *)
(* may then take the room of the very state it waits for, and a chunk whose *)
(* state was evicted or replaced is thrown away too.                        *)
SynthesisDone ==
    /\ synth.at = "infer" \/ (synth.at = "room" /\ work)
    /\ IF ~Valid(synth.key, synth.gen)
       THEN synth' = None /\ states' = Idle /\ UNCHANGED work
       ELSE \E b \in Sizes :
            \E E \in Evictions(b) :
               LET st == Evict(E)
                   k  == synth.key
                   s  == st[k]
               IN  IF ~Fits(st, b)
                   THEN /\ states' = st /\ work' = FALSE
                        /\ synth' = [synth EXCEPT !.at = "room", !.bytes = b]
                   ELSE /\ states' =
                              [st EXCEPT ![k] =
                                  IF s.busy /\ s.next = synth.index
                                  THEN [s EXCEPT !.chunks = Append(s.chunks, Audio(synth.index, b)),
                                                 !.next = synth.index + 1,
                                                 !.done = synth.index + 1 = Count(k),
                                                 !.changed = TRUE, !.busy = FALSE]
                                  ELSE [s EXCEPT !.changed = s.changed \/ s.busy,
                                                 !.busy = FALSE]]
                        /\ synth' = None /\ UNCHANGED work
    /\ SynthesisFrame /\ UNCHANGED << line, latest, counters >>

(* The synthesizer fails, or its chunk is larger than the whole budget: no  *)
(* more chunks of this sentence will come.                                  *)
SynthesisFails ==
    /\ synth.at = "infer" /\ faults < MaxFaults /\ MoreDisturbances
    /\ faults' = faults + 1
    /\ states' = [k \in DOMAIN states |->
                     IF states[k].busy
                     THEN [states[k] EXCEPT !.done = TRUE, !.changed = TRUE, !.busy = FALSE]
                     ELSE states[k]]
    /\ synth' = None
    /\ SynthesisFrame /\ UNCHANGED << line, latest, work, resets >>

-------------------------------------------------------------------------------
(* The publish loop.  The encoder may suspend it before a chunk ("append"), *)
(* and it waits for state.changed between chunks ("wait").                  *)

(* What it does next with state s of key k, when it has not finished. *)
Working(k, g, s) ==
    speaker' = [at |-> IF s.chunks = << >> THEN "wait" ELSE "append",
                key |-> k, gen |-> g]

(* Mutant: an item without a prepared chunk counts as complete. *)
ExhaustedEarly(s) == s.chunks = << >>

Exhausted(s) == s.chunks = << >> /\ s.done

(* The finally clause: within its source generation the item is forgotten,  *)
(* and its discard callback answers an offer that was not committed.        *)
Finish(k, g, spoken) ==
    /\ speaker' = None
    /\ IF g = generation
       THEN /\ DropStates({k})
            /\ hooks' = hooks \ {k} /\ guards' = guards \ {k}
            /\ completed' = IF spoken THEN completed \cup {k} ELSE completed
       ELSE UNCHANGED << states, line, callbacks, completed >>

(* Mutant: the item is forgotten without its discard callback. *)
GiveUpSilently(k, g) ==
    /\ Finish(k, g, k \in DOMAIN states /\ states[k].published > 0)
    /\ UNCHANGED session
    /\ work' = TRUE

GiveUp(k, g) ==
    /\ Finish(k, g, k \in DOMAIN states /\ states[k].published > 0)
    /\ IF g = generation THEN Discarded({k} \cap hooks) ELSE UNCHANGED session
    /\ work' = TRUE

TakeItem ==
    /\ listening /\ speaker = None /\ queue # << >>
    /\ queue' = Tail(queue)
    /\ LET k == Head(queue) IN
       IF ~Valid(k, generation) \/ k \in completed \/ Exhausted(states[k])
       THEN GiveUp(k, generation)
       ELSE /\ states' = [states EXCEPT ![k].changed = FALSE]
            /\ line' = IF k \in Range(line) THEN line ELSE << k >> \o line
            /\ work' = TRUE
            /\ Working(k, generation, states[k])
            /\ UNCHANGED << session, callbacks, completed >>
    /\ UNCHANGED << lease, latest, known, consumed, generation, synth, encoder, pcm,
                    counters >>

Speak(k) == speaker.at = "append" /\ k = speaker.key /\ encoder < EncoderSlots

IsCurrent(k) == Valid(k, speaker.gen) /\ (k \in guards => CanCommit(k))

(* The encoder has space, the guard agrees and on_commit runs: the chunk is *)
(* shared, and with the first one the sentence is committed.                *)
CommitChunk ==
    \E k \in DOMAIN states :
       /\ Speak(k) /\ IsCurrent(k)
       /\ pcm' = Append(pcm, [capture |-> generation,
                              gen |-> k.gen, order |-> k.order, rev |-> k.rev,
                              index |-> states[k].published,
                              text |-> states[k].chunks[1].text])
       /\ consumed' = IF k.order > consumed THEN k.order ELSE consumed
       /\ encoder' = encoder + 1
       /\ work' = TRUE
       /\ IF k \in hooks THEN Committed(k) ELSE UNCHANGED session
       /\ LET s == [states[k] EXCEPT !.published = @ + 1, !.chunks = Tail(@)]
          IN  IF Exhausted(s) THEN Finish(k, speaker.gen, TRUE)
              ELSE /\ states' = [states EXCEPT ![k] = s]
                   /\ Working(k, speaker.gen, s)
                   /\ hooks' = hooks \ {k}
                   /\ UNCHANGED << line, guards, completed >>
       /\ UNCHANGED << lease, queue, latest, known, generation, synth, counters >>

(* The guard refuses: the revision was replaced or its release withdrawn. *)
RefuseChunk ==
    /\ Speak(speaker.key) /\ ~IsCurrent(speaker.key)
    /\ GiveUp(speaker.key, speaker.gen)
    /\ UNCHANGED << lease, queue, latest, known, consumed, generation, synth, encoder,
                    pcm, counters >>

(* The encoder is not ready in time: only before its first chunk. *)
AppendFails ==
    /\ speaker.at = "append" /\ pcm = << >> /\ faults < MaxFaults /\ MoreDisturbances
    /\ faults' = faults + 1
    /\ GiveUp(speaker.key, speaker.gen)
    /\ UNCHANGED << lease, queue, latest, known, consumed, generation, synth, encoder,
                    pcm, resets >>

(* state.changed is set: by the synthesis loop, publish() or a drop. *)
Wake ==
    /\ speaker.at = "wait"
    /\ LET k == speaker.key IN
       /\ k \in DOMAIN states => states[k].changed
       /\ IF ~Valid(k, speaker.gen) \/ Exhausted(states[k])
          THEN GiveUp(k, speaker.gen)
          ELSE /\ states' = [states EXCEPT ![k].changed = FALSE]
               /\ Working(k, speaker.gen, states[k])
               /\ UNCHANGED << session, line, callbacks, completed, work >>
    /\ UNCHANGED << lease, queue, latest, known, consumed, generation, synth, encoder,
                    pcm, counters >>

(* _writer_loop takes a chunk out of the PCM queue. *)
WriterStep ==
    /\ encoder > 0
    /\ encoder' = encoder - 1
    /\ UNCHANGED << session, lease, queue, states, line, fences, callbacks, work,
                    synth, speaker, pcm, counters >>

-------------------------------------------------------------------------------
PublishItem == PublishSwallowed \/ PublishQueued \/ PublishRefused

Synthesis == SynthesisPick \/ SynthesisDone \/ SynthesisFails

Publication == TakeItem \/ CommitChunk \/ RefuseChunk \/ AppendFails \/ Wake

Next ==
    \/ \E o \in Orders : Register(o) \/ Translate(o) \/ Approve(o) \/ Withdraw(o)
    \/ Offer \/ ForceDrain \/ ResetOrdering \/ BeginSourceGeneration
    \/ PublishItem
    \/ Join \/ Leave
    \/ Synthesis \/ Publication \/ WriterStep

Spec == Init /\ [][Next]_vars

(* The event loop runs both tasks and the call in progress, the encoder     *)
(* plays in real time, and the scheduler drains whenever it is woken.       *)
Fairness ==
    /\ WF_vars(PublishItem) /\ WF_vars(Offer)
    /\ WF_vars(SynthesisPick \/ SynthesisDone)
    /\ WF_vars(TakeItem \/ CommitChunk \/ RefuseChunk \/ Wake)
    /\ WF_vars(WriterStep)

FairSpec == Spec /\ Fairness

-------------------------------------------------------------------------------
(* What makes the publisher correct. *)

Chunk == [capture : Nat, gen : Gens, order : Orders, rev : 1..MaxRevision,
          index : Nat, text : Nat]

State == [chunks : Seq([text : Nat, bytes : Nat]), next : Nat, published : Nat, done : BOOLEAN,
          changed : BOOLEAN, busy : BOOLEAN]

TypeOK ==
    /\ gen \in Gens /\ rev \in [Orders -> 0..MaxRevision]
    /\ translated \in SUBSET Orders /\ approved \in SUBSET Orders
    /\ head \in 0..N /\ offered \in BOOLEAN
    /\ released \in [Orders -> 0..MaxRevision]
    /\ outbox \in Seq(Keys) /\ queue \in Seq(Keys) /\ line \in Seq(Keys)
    /\ epochs \in 0..MaxEpochs /\ listening \in BOOLEAN /\ generation \in Nat
    /\ DOMAIN states \in SUBSET Keys /\ \A k \in DOMAIN states : states[k] \in State
    /\ known \in [Gens -> [Orders -> 0..MaxRevision]]
    /\ \A K \in {latest, hooks, guards, completed} : K \in SUBSET Keys
    /\ consumed \in -1..(N - 1) /\ encoder \in 0..EncoderSlots
    /\ work \in BOOLEAN /\ pcm \in Seq(Chunk)
    /\ synth = None \/ (synth.at \in {"infer", "room"} /\ synth.key \in Keys)
    /\ speaker = None \/ (speaker.at \in {"append", "wait"} /\ speaker.key \in Keys)
    /\ faults \in 0..MaxFaults /\ resets \in 0..MaxResets

(* What the native player demands of consecutive chunks                    *)
(* (NativeSpeechCursor.accept): a sentence is complete before the next one  *)
(* starts, and the next one has a higher source order.  Each capture gets a *)
(* new cursor (NativeSession.swift:294-305); a reset of the ordering inside *)
(* a capture does not.                                                      *)
Continues(c, d) ==
    IF c.index + 1 < Count(c)
    THEN SameSentence(c, d) /\ d.rev = c.rev /\ d.index = c.index + 1
    ELSE d.order > c.order /\ d.index = 0

PlayerAccepts ==
    \A i \in DOMAIN pcm :
        IF i > 1 /\ pcm[i - 1].capture = pcm[i].capture THEN Continues(pcm[i - 1], pcm[i])
        ELSE pcm[i].index = 0

(* Whoever listens to the native player hears all of it, whatever is edited *)
(* or withdrawn, across captures and listener epochs.  Two things break the *)
(* stream and are excluded here: a failure, and a reset of the ordering     *)
(* inside a capture, after which the guard refuses the rest of a sentence   *)
(* that is half shared.                                                     *)
PlayerAcceptsUnbroken == faults = 0 /\ resets = 0 => PlayerAccepts

(* A chunk carries the audio of the piece it is labelled with, although the *)
(* cache gives synthesized chunks back and counts again from 0.             *)
LabelsMatchAudio == \A i \in DOMAIN pcm : pcm[i].text = pcm[i].index

(* Shared speech is a revision the session released and no other, whatever  *)
(* was edited, withdrawn or failed meanwhile; and no chunk of an earlier    *)
(* capture is shared after one of a later capture.                          *)
SharedIsReleased ==
    \A i \in DOMAIN pcm :
        /\ pcm[i].gen = gen => released[pcm[i].order] = pcm[i].rev
        /\ i > 1 => pcm[i - 1].gen <= pcm[i].gen

(* The head on offer is on its way: it will be committed or discarded.  An  *)
(* offer nobody holds would block all later speech.                         *)
HeadIsHeld ==
    offered /\ head < N =>
        \/ Key(head) \in Range(outbox)
        \/ /\ Key(head) \in hooks
           /\ \/ Key(head) \in Range(queue)
              \/ speaker # None /\ speaker.key = Key(head)

(* An offer is held as long as nobody restarts the order in a capture.      *)
HeadIsHeldInOrder == resets = 0 => HeadIsHeld

(* Audio that waits for its release never exceeds the budget, neither in    *)
(* chunks nor in bytes.                                                     *)
PreparedWithinBudget ==
    PreparedChunks(states) <= MaxPrepared /\ PreparedBytes(states) <= MaxBytes

(* An offer is answered as long as somebody listens: the budget, the cache  *)
(* and the encoder never leave both loops waiting for each other.           *)
OfferedHeadResolves == []<>~(offered /\ listening /\ resets = 0)
===============================================================================
