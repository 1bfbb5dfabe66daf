# A TLA+ model of VoxHalo

VoxHalo interprets live speech: it recognises a speaker, commits sentences of
source text, translates them, synthesizes the translation and plays it to
listeners and to the macOS app. Source text is *revised* all the time. A shown
subtitle can be rewritten; speech that was heard cannot. The core logic of the
program is therefore the path on which a revisable sentence becomes irrevocable
audio, in order, without blocking what comes after it. This project models that
path from the microphone of the page to the playhead of a listener, and the
installer that puts the models in place; it checks the model with TLC and proves
part of it with TLAPS.

Paths below are relative to `src/VoxBridge/` unless they start with `scripts/` or
`docs/en/`, which are relative to `src/`; `demo` is
`voxbridge/cli/demo_streaming_ws.py`.

## 1. Inventory

### Components

| Component | State it keeps | Operations | What makes it correct |
|---|---|---|---|
| Operator page (`web/pages.py`) | capture gate, pre-roll, send queue, socket, controls | start, stop, capture, send, heartbeat, final answer, errors | speech arrives from its onset and once; the server's clock is the page's; Stop ends |
| Capture session (`demo`, `ws_stream`) | audio queue, spill, deferred items, generation, decoder, text, pending prefix | receive loop, consumer, cut, rotate, redecode, finish | frames heard in order and none again but an overlap or the tail of a failed call; the final answer is complete; a finish is answered |
| Sentence commit (`demo`, `_update_sentence_commits`; `streaming/source_ledger.py`, `interpretation/source_commit.py`, `tts/confirmation.py`) | rows, cursor, holdbacks, carry, ledger, evidence | partial, idle commit, cut, carried endpoint, finish, reread | no word lost or in two rows; what is committed stays; a confirmed row is current |
| Translation queue and worker (`interpretation/translation_queue.py`, `demo`) | bounded queue, wanted revision per row, tasks | request, direct request, worker, answers under the lock, clear | every current revision gets an answer; no old text on a new revision |
| Ordering boundary `RevisionStableTTSBuffer` (`tts/jobs.py`) and the session's TTS transitions (`demo`) | entries by source order, released revisions, absorbed rows, head | register, confirm, revoke, seal, supersede, mark ready/failed, drain, commit, retry | strict order, one immutable revision per sentence, nothing skipped silently, no offer lost |
| Shared publisher, chunked mode (`tts/hls.py`) | FIFO queue, prepared chunks, callbacks, guards, leases, source generation | publish, prepare, revise, new generation, two loops, append, join, leave | only released revisions are shared; every offer is answered; no deadlock on the budget |
| Compatibility HLS stream (`tts/hls.py`, `tts/listener_page.py`) | PCM timeline, cues, playlist, leases; the page's snapshot, playhead | write, append, prune, playlist, join, captions, seek, pause | captions lie on their audio; shortening a wait never skips speech; the stream ends |
| Broadcast hub (`tts/broadcast.py`) and job registry (`TTSJobRegistry`) | jobs, subscriptions, claims, cached audio | publish, claim, cache, acknowledge, cancel, expire | a claimed job survives expiry; a slow listener harms only itself; audio is made once |
| Installer, model manager (`scripts/install_desktop.py`, `scripts/model_manager.py`) | files, partial files, backups, marker, lock | install, repair, recover, download, unpack, publish, cancel, crash | only verified files published; the marker means complete, also after a power loss, as far as files are synced; changed files kept; a retry succeeds |
| Native PCM delivery (`tts/pcm.py`, `tts/native_routes.py`, `NativeSpeechPlayer.swift`) | ring of chunks, epoch, cursor, feedback | append, snapshot, accept, feedback | the player plays a gap-free prefix or stops |
| Speculative translation, context schedule, voice activity, ASR, translation and TTS backends, app windows, tools, release builder | - | - | off by default, inference, heuristics or I/O: not modelled |

### How they interact

* The **page** holds silence back and sends audio, silence spans and control
  messages in one queue. The session's **receive loop** puts them into the audio
  queue, and into a spill list when that is full or the decoder is behind.
* The **consumer** coalesces frames, decodes them in a thread, and after each
  await commits rows of the current text. A cut closes the segment, carries the
  unfinished tail as a prefix into the next one, may decode the segment again
  and rotates the decoder.
* A **commit** compares the text with the rows already committed. Each new row or
  edit is registered with the ordering boundary; its translation is requested.
* A **translation task** returns, checks that its revision is still wanted and
  marks the entry ready under `tts_transition_lock`. At the same moment the
  publisher may prepare audio speculatively.
* Every locked transition ends in `drain()`. What it returns is published, still
  under the lock. On the native path the commit is *deferred*: the head is only
  *offered*, and stays replaceable.
* The publisher's loops run as tasks. The encoder asks the **guard**
  (`can_commit`) after it has waited for space; with the first chunk it calls
  `committed()`, which releases the revision and moves the head. An item that
  ends otherwise calls `discarded()`.
* A **withdrawal** by the decoder revokes a confirmation without the lock.
* Listeners take and lose leases; the first starts the encoder and the loops, the
  last stops them. In the compatibility mode a listener loads the playlist,
  polls captions and shortens long waits; listeners of the hub fetch audio.

### What is hard here

One event loop interleaves the receive loop, the consumer, several translation
tasks, the stability scheduler, two publisher loops and the encoder's writer;
every `await` is a point where an edit, a withdrawal, a departure, a new capture
or a failure may come in. Decodes grow, shrink and move sentence ends. Results
return out of order; queues, caches and budgets overflow. Requests of a page
that has stopped arrive late or never. An installer can be killed, or the
machine lose its power, between two steps on the file system. `PROJECT.json` lists the hazards with their lines and
the properties that would catch them, and, for those without one, why.

## 2. Modules

| Module | What it is |
|---|---|
| `SpeechStream` | abstract specification: each sentence is opened, edited, settled once (spoken, absorbed, failed) in order, and heard at most once |
| `RevisionBuffer` | the ordering boundary and the session's transitions, the publisher abstracted to a FIFO with callbacks |
| `RevisionBufferProofs`, `SpeechPublisherProofs`, `TranslationQueueProofs`, `PullDeliveryProofs`, `InstallerProofs`, `HLSListenerProofs`, `CaptureSessionProofs`, `SentenceCommitProofs` | theorems about the module of the name; the first also that `RevisionBuffer` implements `SpeechStream` |
| `SpeechPublisher` | the chunked publisher in detail, the session abstracted to what the publisher sees |
| `TranslationQueue` | requests, worker, results, answers |
| `SentenceCommit` | from decoded text to committed rows and their confirmation |
| `CaptureSession` | receive loop, audio queue, spill, consumer, segments, finish |
| `WebClient` | the operator page against the reading side of the server |
| `HLSListener` | the compatibility stream, its captions and one listening page |
| `PullDelivery` | broadcast hub and job registry with the audio routes |
| `Installer` | installer and model manager over one folder |
| `MC...` | symmetry sets and parameter functions for TLC |

The modules overlap at interfaces, and one's guarantee is the other's assumption:

* `WebClient` ends at the server's reader; `CaptureSession` begins there: frames
  and spans arrive in order, anything may follow anything.
* `CaptureSession` takes the text as a free choice and checks *which* audio and
  *which generation* of text is used; `SentenceCommit` takes the decodes as a
  free choice and checks *what* becomes a row.
* `SentenceCommit`'s rows are the sentences of `RevisionBuffer` and
  `TranslationQueue`; a row that loses its confirmation is `Revoke`.
* `RevisionBuffer` has every operation of the buffer and takes the publisher as
  "each queued item ends in its first shared commit or in its discard callback".
  `SpeechPublisher` has every step of the publisher and takes the buffer as "a
  head that may be offered, a guard, and what commit and discard do to it".
  `HeadIsHeldInOrder` is the obligation of the publisher that `SealedHeadLeaves`
  assumes of it, and `GuardImpliesCommit` is the obligation of the buffer that
  `SharedIsReleased` relies on.

### SpeechStream and RevisionBuffer

`entries` is `_entries`, a function from the orders not yet passed; an entry
record has `_stable_since` as one field `since`. `released`, `superseded`,
`nextOrder`, `highest` have the names of the source. An action is one transition
of the session up to the point where it releases the event loop: e.g. `MarkReady`
is `_mark_tts_translation_ready`, the buffer call *and* the drain that follows,
with `ready` the list it is about to publish. While `ready` is not empty the lock
is held; `LockFree` guards every locked transition, and `Revoke`, which takes no
lock, has no such guard. `queued` and `live` are the publisher's queue and the
items whose callbacks still exist. `stream` and `failed` are history variables.
`Allowed` is `_release_policy` with the comparison of the quiet window; the
constants select the native configuration (`DeferCommit`, `RequireConfirmation`,
`HoldLatest`) or the compatibility one. `Reconcile` chooses the rows freely among
those behind the owner; in the code they are the rows whose text the owner's new
text covers.

`RevisionBuffer` defines `fate`, `text` and `heard` over its variables and
instantiates `SpeechStream` with them: a drain, a discard, a withdrawal or a
forced release is a settling step or a stutter of the abstract stream, in which a
settled sentence never changes and what is heard is a settled revision, heard
once, in order.

### SpeechPublisher

Sentences of a capture are numbered; a key names generation, order and revision.
The audio of a chunk is the piece it was made from and its size, so that
`LabelsMatchAudio` can compare the label with the audio, and `capture` of a shared
chunk is the source generation it was shared in, which is what the native cursor
starts afresh with (an ordering reset inside a capture does not change it). `states` is `_chunk_states`; `line` lists the released keys by
`release_order`. The field `busy` tells a state object from one that replaced it
under the same key while inference was running. An action is a stretch of one
task between two awaits: `SynthesisPick`, `SynthesisDone` / `SynthesisFails` for
the synthesis loop, `TakeItem`, `CommitChunk`, `RefuseChunk`, `AppendFails`,
`Wake` for the publish loop. `CommitChunk` contains the fence of
`append_pcm_committed`, the guard, the shared append and `committed()`, between
which the code does not suspend. `Join` and `Leave` are the first and the last
listener. `Fits` is the budget of `_make_preparation_room`, of chunks *and* of bytes: the
synthesis loop asks it before an inference without the size of the chunk, and after
it with it. Audio for which there is no room stays in its hand (`at = "room"`) until
work becomes available and it asks again; each time it may evict, also the very
state the audio is for, and then throws the audio away (`next # index`). `Evictions`
allows every order in which the code may meet the states.

`BeginSourceGeneration` is the reset of the ordering and of the publisher in one
step. In the code a start has awaits between them (`CaptureSession` has them for
audio and text); a publication in between is not modelled here.

### TranslationQueue

The consumer edits one row at a time (`asking`), the worker holds at most one
request (`held`) and runs up to `Parallel` translations (`active`). A finished
translation waits for the lock in `answers`; a request that was pushed out of the
full queue is answered by a task of its own (`via = "drop"`). `SetSameDirection`
is the message that clears pending work.

### SentenceCommit

The speaker says the words 1, 2, 3, ...; a hypothesis is how far the decoder
hears and where it puts sentence ends, so a text is an interval with a set of
ends and the code's tests on spelling are tests on intervals. `Partial` is one
decode through `_update_sentence_commits`: anchor and carry, completed units,
holdback of the newest unit (`growing`), short fragments, candidate cursor,
growth of a row with its observation (`deferred`), contraction, commit, evidence
and the withdrawal of confirmations. `Idle`, `Rotate` (a cut with its carried
tail), `CarriedEndpoint`, `Finish` and `ReadAgain` are its other callers. `born`
gives a word a new identity when the ledger sees it again: two rows with the same
identity would speak an occurrence twice, two rows with the same word may not. One call is one step: it has awaits
inside (translations are requested), which the model does not split.

### CaptureSession

Audio is its arrival number. `queue`, `deferred` and `spill` are the three places
an item can wait; `samples` is the count that drives backpressure, which is why
it is a variable beside the queues. `handler` and `consumer` are the two program
counters; a step runs from one await to the next and a model call has a step for
its return (`Return`, `CommitMore`). `gen` is `state_generation`, `mine` what the
consumer read of it before the await, so that stale work after a restart can be
told. What the decoder makes of the audio - a text, an endpoint, a tail - is
free.

`heard` is the audio of the calls that returned, `window` the `audio_accum` of the
current decoder. They differ in two ways, as in the code: a call that fails may
have put its batch into the window before it raised (`mlx_backend.py:232-241`), and
`CloseFails` puts the same tail back into the pre-roll (`demo` 5985), so that it is
fed again; and a rotation begins the new window with the last `Overlap` samples of
the old one (`demo` 6385). `retained` remembers what failed calls have left in a
window.

### WebClient

A captured frame is loud or quiet; `gate` is `audioActivityGate` with its pre-roll
and tail. `start` and `stop` say at which await the handlers of the two buttons
wait; both run interleaved with the audio callback, the socket's events and the
timeout. `wire` is the connection, and `server` the phase, clock and audio that
the reading side keeps. `ClickStart` requires that no start is
under way. The page does not test this (`pages.py:2665` tests `running` and
`awaitingFinal`) and relies on the disabled button. An error of the server while
the capture graph is built enables the button before the first handler has ended
(`start = "torn"`); a second handler that starts in that moment, beside the first,
is not modelled.

### HLSListener

`written` is the timeline submitted to FFmpeg in slots, `queue` the audio appended
and not yet written. `Write` is one turn of the writer in real time; `AppendClip`
computes the receipt (`scheduled`) and publishes the cue. The server's side of a
listener is its lease and `last` / `floor`; the page's side is the snapshot of
cues, the gaps it has tried to seek over, and what the media element has loaded.
Captions are only given to a session that holds a lease (`TakeCaptions`).
The two shorten the same wait from positions taken at other moments. Requests of
a stopped page are `arriving` and may come late or not at all.

### PullDelivery

Jobs are numbered and may expire at any moment. `conn` and `queue` are a listener
socket and its bounded event queue; `requests` are audio requests in the routes,
which claim a job of the hub or get one of the registry and share one synthesis
lock. A listener that overflows is removed by `Publish`, and its socket finds out
later (`Send`, `Disconnect`).

### Installer

A file is a number of chunks that match its checksum or not; `alias` says whether
a second name of the same inode exists and where. Each program counter value of
`at` is one step on the file system, after which the program may be killed
(`Killed`), cancelled, or the machine lose its power (`PowerLoss`). `Damage` is
somebody else changing or deleting a file.

What is on the disk is kept apart from what the programs see: `dirty` has the items
whose content may not be there (a partial until it is synced, the files of a wheel
for ever), `loose` those whose name may not be there (until `sync_directory`, which
is `Settle`, the end of a quarantine or of a wheel, or a recovery), `lingers` says
that `installed.json` was unlinked without a sync (`install_desktop.py:546`). A power
loss keeps or takes each of them: content becomes garbage, a name is gone, the
record is back. `torn` remembers what it took of the files of a wheel, and of names
whose publication was broken off between link and `sync_directory`: a later run
finds them complete and keeps them without a sync. A wheel is verified again before
it is unpacked (`Unpack`), and its directories are compared, set aside and renamed
one after the other (`Place`), with one sync behind the last of them.

Three things are coarser than the code: the recoveries of one preflight are one
step; the record is written, renamed and synced in one step (`Finish`: a power loss
inside it leaves no record, which is safe); and a partial that was never synced is
garbage after a power loss rather than gone altogether, which is where an
installation begins anyway.

A repair works through the chosen names in the order they were asked for, so
`RepairPlans` has every order of them; an install keeps the manifest's order of
downloads.

## 3. What is checked

| Run | States | Question |
|---|---|---|
| `rb_native` | 115,876 | native configuration, all interleavings of edits, answers, confirmations, withdrawals, drains and callbacks: refinement of `SpeechStream`, settlement, immutability, no lost offer, no unconfirmed speech, progress of a sealed head |
| `sp_all` | 428,764 | the two publisher loops under a budget of chunks and bytes, with edits, withdrawals, a forced drain, listeners, and one disturbance: new capture, ordering reset, failure or second epoch |
| `tq_safe` | 44,267 | a full queue, two parallel translations, edits and a clear: an old text never becomes ready for a new revision, every wait ends |
| `sc_safe` | 62,596 | decodes that grow, shrink and move sentence ends, cuts with a carry, idle commits, a reread, a finish |
| `cs_safe` | 207,938 | receive loop and consumer around the audio queue: order of what is heard and of the decoder's window, completeness of the final answer, an answer to every finish |
| `wc_safe` | 411,503 | page and server's reader, with errors and a lost socket at any point |
| `hl_safe` | 1,345,562 | the compatibility stream with one page that listens, leaves and comes back |
| `pd_safe` | 673,989 | two listeners of the hub, a client of the registry, two audio requests, one synthesis lock |
| `in_safe` | 154,493 | installer and model manager with kills, power losses, cancellation, failing calls, wrong chunks and changed files, two of them in any places |
| `sp_cut`, `tq_clear`, `in_retry` | - | disagreements of the code with its documentation (section 5) |

`TypeOK` is a property of `rb_native`, where a theorem states it. The other
modules define a `TypeOK` too, as documentation of what their variables hold; TLC
agrees with it on the same instances, but no run spends itself on it; the proof
modules prove it of the modules they are about.

Properties that are stronger than they look:

* `ImplementsSpeechStream` and `ReleasedIsFinal`: what was heard cannot be
  rewritten, and nothing is heard twice, although commits are deferred and heads
  are replaceable until their first chunk.
* `HeadIsHeldInOrder` / `OfferedHeadIsHeld`: an offered head is always in the
  hands of somebody who will answer. A single lost callback would block the order
  for ever.
* `StableBoundariesOwnOnce`, `StableBoundariesLoseNothing`: an occurrence of a
  word is in one row. Without the premise (`moved`: a decode cut words differently
  after a row consumed them) both are false, because rows are compared by text;
  with it they hold over all holdbacks, merges, carries and cuts.
* `SpeechIsHeard`, `PauseIsKept`: the server's gap floor and the page's seek are
  decided from different snapshots of one timeline, and still never pass over
  speech nor eat the natural pause.
* `LabelsMatchAudio`, `PreparedWithinBudget`, `OfferedHeadResolves`: between the
  choice of a chunk and its storing lie an inference and a wait for room, in which
  the head evicts other work, also the work in hand. The budget is kept, no chunk is
  stored under another index, and the two loops never wait for each other.
* `PublishedIsVerified`, `MarkerMeansReady`: they hold over power losses with
  exactly the excuses they name. `torn` cannot be left out of either: the files of a
  wheel are never synced, and the record may outlive them.
* `FinalIsComplete`: four ways of an audio frame to the decoder meet one finish.
* `RetrySucceedsOtherwise`: from every crash a repeated run reaches the marker.

**Bounds.** `MaxRevision`, `MaxClock`, `MaxEvidenceAge`, `MaxGen`, `MaxResets`,
`MaxEpochs`, `MaxFaults`, `MaxClears`, `MaxDisturbances`, `MaxArrivals`,
`MaxEvents`, `MaxFrames`, `MaxSessions`, `MaxJobs`..., `MaxDecode`, `MaxBirth`,
`MaxSlots`, `MaxCues` and `MaxTroubles` cap counters in the guards. They are
chosen so that the limits the properties depend on are reached, with one exception
named below:

* Two sentences give a head and something behind it, which is what order,
  absorption and eviction are about; two revisions give an old and a current one.
  `MaxRevisionReset` is the bound on revisions after an ordering reset or in a new
  capture, `MaxDisturbances` lets one rare event (new capture, reset, failure,
  second epoch) meet all interleavings at a time.
* The publisher has two sentences of two chunks and one encoder slot. A chunk of
  the second sentence is twice as large as one of the first, and the budget is two
  chunks and the bytes of one large chunk. So either limit binds: two small chunks
  are too many for a third, a large one beside a small one is too large, the head
  evicts what is prepared, and the loop waits for room with audio in its hand. The request queue has one
  place, so that it overflows at once.
* The audio queue holds two items and four arrivals come, so the spill, the
  deferred items and a split batch are all in use; `MaxEvents = 2` gives a restart
  and a cut, or a cut and a failure.
* Three words, two segments with an overlapping word, four decodes and two births
  of a word are enough for a carry that is anchored, a row that grows, shrinks and
  grows again, and a reread. `Clauses` and `Sensitive` mark one word each.
* The page captures eight frames in two sessions with gates of two frames.
* The HLS timeline is eleven slots of half a segment, with two cues, two sessions
  and one trouble (listening again counts as one); segments, window and guards keep
  the proportions of the code: edges and pause of a clip fit into one segment
  (`Lead + Trail <= SegLen`), the bootstrap fills one.
* Two listeners (one slow), a hub with queues of one event, two jobs in all. The
  hub has room for both of them, so it is never full: the refusal of a publication
  by a full hub (`Publish`) is covered by the theorems; with `MaxJobs = 1` in the
  cfg TLC reaches it too and finds no error.
* The installer has a model, a wheel with its two directories and the generated
  model, two chunks per file and two faults of any kind; one chunk and one fault are
  enough for the disagreement of `in_retry`. Two faults let a power loss follow a
  publication that was broken off, or hit the repair of a changed file.

`SYMMETRY` is used only in `pd_safe`, which has no liveness property.

**Deadlock.** The runs that switch the check off do so because the system may
really stop: a session ends, revisions are bounded, nobody has to listen, capture
or fetch. `RevisionBuffer` and `Installer` keep the check.

**Fairness.** `RevisionBuffer`: the publisher's tasks and the stability
scheduler, which sets a deadline and is woken by every change. `SpeechPublisher`:
the two loops, the call in progress, the encoder's writer (it plays in real time)
and the scheduler's offer; not speakers, edits, listeners or failures.
`TranslationQueue`: the worker runs, model calls return (they have timeouts), the
lock is granted in turn (`asyncio.Lock` is FIFO) and the consumer asks for what it
has registered. `CaptureSession`: the consumer takes items, its model calls
return, and a receive loop that is suspended goes on; not that audio or messages
come. `WebClient`: the handler of Stop goes on after its awaits, the server reads
and answers, and a socket that the page is closing is reported as closed; not that
an open connection is lost, nor that the timeout of the final answer fires.
`HLSListener`: only the reaper (`Prune`), a task of the server with a timer. `Installer`: a program that runs
takes its next step, and the user tries a repair again and again (strong, because
the lock may be taken in between); not that power losses, kills and failures
stop, which `MaxFaults` does.

## 4. What is proved

`RevisionBufferProofs` proves, for any set of sentences, any windows and both
modes (`BoundsAssumption` and `ModesAssumption` only say that constants are
natural numbers and Booleans, and that the urgent window is not the longer one):

* `TypeCorrect`: `Spec => []TypeOK`. The hard part is that `entries` has exactly
  the orders from the head to the last registered one, which every drain,
  absorption and commit must keep; it needs `Places`: sentences and orders
  correspond one to one.
* `Settlement`: `Spec => []PassedIsSettled`. Not inductive alone, because an
  action that releases a sentence must know that it is still in `entries` and
  was not absorbed or failed before; the inductive invariant is
  `Settled == TypeOK /\ Places /\ PassedIsSettled`.
* `ReleaseIsFinal`: `Spec => ReleasedIsFinal`, from the same invariant.
* `GuardIsEnough`: `Spec => []GuardImpliesCommit`. `can_commit` does not
  compare the order with the head; the argument is that only the head is ever
  offered while commits are deferred (`Offered`), and that the head moves only
  when the offered entry is committed, failed, absorbed or released.

The second half of the module goes on from there to what the listener is promised:

* `OffersAreHeld`: `Spec => []OfferedHeadIsHeld`. Inductive with `Settled` and
  `Offered`. All steps that end in `drain()` are proved alike: `DrainForm` shows
  that each of them drains some entries of the same shape in which no answer makes
  an offered entry ready again (`RevivesNothing`), and `DrainHeld` that such a drain
  keeps the offer.
* `NothingUnconfirmedIsHeard`: `Spec => NoUnconfirmedSpeech`, from `GuardIsEnough`'s
  invariant: the guard and the commit of a chunk are one step.
* `BufferImplementsStream`: `Spec => ImplementsSpeechStream`, the refinement. Most
  steps stutter or settle a range of orders. The hard one is `SharedCommit`: the
  abstract stream hears sentences in their order and each once, so the concrete
  queue must be in order although items of a forced drain, a replaced head and
  revised items share it. `Line` says so: what was heard stands before everything
  still queued (`BehindStream`), live items are queued in their order
  (`Ascending`), none is ahead of the head and the one of the head is the offer
  (`UpToHead`), and an item revised in the queue cannot come to life again
  (`Outdated`), which is what a second offer of the same revision would do.

`SpeechPublisherProofs` proves, for any number of sentences, revisions and chunks
and any limits of queue, cache, budget and encoder (`PublisherAssumption`: sizes
are natural numbers, and there is room for one), with one inductive invariant,
`Sound` (`PublisherIsSound`). Each property alone fails as soon as one loop runs
while the other waits; what has to be carried is where every item is:

* Order. Everything `drain()` gave out and nobody has finished, in the publish
  loop, the queue and the outbox, stands in one order (`InOrder`, `Lined`), none is
  ahead of the head and the one of the head is the offer (`UpToHead`); what the
  session hands out is current and new to the publisher (`Fresh`, `Past`).
* Callbacks. Audio that can be shared has a guard (`Guarded`), and a guard whose
  callbacks are gone belongs to a sentence that was heard (`Heard`). So the encoder's
  question `CanCommit` is never left out.
* Audio. The chunks of a preparation continue those it published, and only a
  failure ends it early (`Stocked`). Audio in the hand of the synthesis loop is
  stored only if its state still waits for that index; an eviction counts again from
  0, and would break this if it did not. The state of the item that is spoken stands
  first in the line (`SpeakerFirst`), which is why making room never takes its
  chunks (`Loaded`).
* Stream. Only the item that is spoken has published chunks, and the last chunk
  is its (`Continued`); what was heard stands before all that may still be heard
  (`BehindStream`); generations and released revisions agree (`Voiced`).

From it:

* `OnlyReleasedIsShared`: `Spec => []SharedIsReleased`.
* `LabelsAreRight`: `Spec => []LabelsMatchAudio`.
* `PlayerIsServed`: `Spec => []PlayerAcceptsUnbroken`, whose premise excludes
  failures and resets of the ordering inside a capture. It needs one more invariant,
  `Unbroken`: a sentence that was begun in this capture is still spoken by the
  publish loop and still valid. Edits cannot drop it, because it is released; the
  loop cannot finish it early, because without a failure it has chunks until the
  last; the guard cannot refuse it, because its release is final as long as no reset
  takes it away. `Aligned` says that without a reset the captures of the player are
  the generations of the session.
* `OffersAreAnswered`: `Spec => []HeadIsHeldInOrder`, with `Ahead` (what the
  publisher takes for consumed is before the head), which is what a reset of the
  order inside a capture destroys.
* `BudgetIsKept`: `Spec => []PreparedWithinBudget`. Every step but one only takes
  chunks away (`Dwindles`), and that one has asked for room for the bytes it stores
  (`GrowthIsBudgeted`). The bytes are counted as a set, one element for each byte of
  each chunk, so that the proof needs no sum over a function.
* `PublisherTyped`: `Spec => []TypeOK`.

`TranslationQueueProofs` proves, for any set of rows, any size of the queue and
any number of parallel translations (`QueueAssumption`: the sizes are natural
numbers, the queue and the worker have room for one):

* `ReadyStaysCurrent`: `Spec => []ReadyIsCurrent`, inductive together with `Shape`
  (types, and a row is asked for only with a revision).
* `UnclearedAreOnTheirWay`: before the first clear of pending work, every row that
  waits is still on its way. `WaitingIsOnItsWay` is not inductive: a request on
  its way may be dropped without an answer when it is not the *wanted* revision
  any more. `Awaited` adds that it is the wanted one; and the queue loses only its
  front or what an overflow pushes into an answer task of its own. After a clear
  the property is false (`tq_clear`), so the premise is exactly the gap.

`PullDeliveryProofs` proves, for any finite sets of listeners, clients and
requests and any limits (`PullAssumption`):

* `ClaimsAreHonoured`: `Spec => []ClaimIsHonoured`, inductive with `Kinds` (types,
  job numbers, and that a registry request's job is never one of the hub).
  `Keeps` says what every pruning, unregistering and clean-up of the hub has in
  common: what goes has `inFlight = 0`, what stays keeps `inFlight` and audio.
  Each step then moves the set of holders and the counter by the same one.
* `NothingIsOrphaned`: `Spec => []NoOrphan`, from the same lemmas: every operation
  that takes the last listener away also looks whether anybody still wants the job.
* `GoneJobsStayGone`: `Spec => GoneStaysGone`: new jobs have new numbers (`Grows`).
* `MadeOnce`: `Spec => []OncePerJob`. The strengthening `Once` says that at most
  one request synthesizes, that it does so for a job never made, and that a job
  which is there and has no audio was never made; the second look under the lock
  (`NoAudio`) is what keeps it.
* `ListenersHear`: `Spec => []EveryListenerHears`. `Gapless` says that what a
  registered listener was sent and what is queued for it are together what was
  published since it registered; an overflow removes the listener in the step that
  breaks this for it. `Reachable` adds that a job announced to it and neither
  acknowledged nor expired is still pending for it.
* `HubIsBounded`: `Spec => []TypeOK`: the hub never holds more than `max_jobs` jobs,
  a queue never more than `listener_queue_size` events.

`InstallerProofs` proves, for any manifest and plan, any number
of chunks and any bounds (`InstallerAssumption`), with one inductive invariant,
`Sound`:

* `OnlyVerifiedIsPublished`: `Spec => []PublishedIsVerified`. What must be carried
  through every fault is what the two programs rely on between two file system
  calls (`Handled`: no file under the name until it is linked, the partial verified
  and flushed before it is), that a second name belongs to a good file whose content
  is on the disk (`SecondNames`), and that unsynced content has a name only in a
  wheel and an unsynced name belongs to a good file (`Unsynced`). The excuse is part
  of the statement: a directory of a wheel may be torn by a power loss.
* `RecordMeansReady`: `Spec => []MarkerMeansReady`. A record that was removed may
  come back, so the invariant speaks of a record that is there *or lingers*
  (`RecordHolds`): everything is in place or excused, and what a power loss could
  take while it brings the record back is excused already. `InstallerAhead` builds
  this up: while the installer works there is no marker, whatever is not in its plan
  any more is in place, and behind the last wheel all directories are synced.
  `PlanForm` shows that the plans list every name. Excused are files changed by
  others, torn wheels, and a name whose publication was broken off.
* `ChangedAreKept`: `Spec => ChangedFilesAreKept`.
* `InstallerTyped`: `Spec => []TypeOK`.

`HLSListenerProofs` proves, for any number of cues and sessions and any sizes of
timeline, segments, clips, window and guards, with one inductive invariant, `Inv`
(`ListenerIsSound`). `HLSListenerAssumption` is all it needs of the constants:
sizes are natural numbers, the bootstrap fills a segment, the silent edges of a
clip fit into one. None of the three properties is inductive: each compares what
was heard with what will be written, and between them lie a playlist, a snapshot
and a buffer of other moments.

* The stream (`StreamSound`). Cues are in order and behind the schedule
  (`CuesOrdered`, `ScheduleFits`), and the timeline *as far as it is decided*, that
  is with the bootstrap that is still due and the audio that is still queued,
  carries each sentence where its cue says (`Content`). `WriteGrows` and
  `AppendGrows` show that a turn of the writer leaves this timeline as it is or
  adds carrier, and an append adds carrier and one clip.
* The leases (`Sessions`). A page that holds no lease knows nothing of a stream, so
  what it works with belongs to the timeline that is there.
* The page (`ListenerSound`). What lies ahead of the playhead is loaded, or it is
  carrier that may be left out and lies behind a loaded segment of the same pause
  (`LoadedOrSpare`); `CandidateIs` shows that the server's floor leaves out nothing
  else. The pause that is being played will keep its natural part whether the rest
  of it is played, left out or skipped (`PauseServed`, `TailHeard`).
  `MoveKeepsListener`, `SkipKeepsListener` and `SeekKeepsListener` are the three
  ways the playhead advances.

From it:

* `CuesMatch`: `Spec => []CuesMatchAudio`.
* `AllSpeechIsHeard`: `Spec => []SpeechIsHeard`.
* `PausesAreKept`: `Spec => []PauseIsKept`.
* `StreamAndListenerTyped`: the types.

`CaptureSessionProofs` proves, for any sizes of queue, batch, hard cut and held
tail and any number of arrivals and restarts (`CaptureAssumption`: they are
natural numbers, and queue, batch and hard cut are not zero), with one inductive
invariant, `Inv /\ Remembers` (`CaptureIsSound`). A frame passes through up to six places on its way to the decoder,
and neither property says where:

* The line (`Line`). Deferred items, queue and spill hold items of *one* session
  (`Label`: the one before while a start still resets) in the order of arrival, and
  nothing later than what has its place (`Latest`: a silence span whose barrier
  waits has none yet). `TakeItem`, `Pulled`, `PutFront` and `FlushKeeps` show that
  taking an item, pulling a batch out of the queue, putting its remainder back and
  flushing the spill keep it.
* What was taken (`TakenInLine`): heard, in the hands of the consumer and held,
  in this order ahead of the line. `Held` adds that only silence is held, that a
  batch in the decoder leaves nothing held beside it, and that a decoder which a
  start has replaced has not heard anything yet; without this an old batch could
  be counted as heard behind a new one.
* The rest (`Covered`, `Silent`): each frame since the start was heard, is silent,
  is in the decoder, or waits in the line, as long as the consumer has not failed.
* The two tasks (`Phases`): a final answer is sent by a consumer that has left its
  loop with nothing in line, and only in the session that asked for it.

* The window (`Remembers`). What the decoder was fed stands in the order of arrival
  but for what a failed call left (`Echo`), and before everything that is in the
  hands of the consumer, held or in the line (`Backs`), so that what is fed next
  keeps it. A rotation keeps the end of the window, which is in order again.

The pure part is about rows of items. `FlattenSeq` of the community modules is a
recursive function; `FlattenIs` shows by the principle of the least number
(`LeastIs`) that it solves its equation, `FlattenHolds` that a flattened row holds
what its parts hold, in order.

From it:

* `SoundIsInOrder`: `Spec => []AudioInOrder`: nothing is fed out of order, and
  nothing again but the overlap of a rotation and what a failed call had kept.
* `FinalHasAll`: `Spec => []FinalIsComplete`.
* `CaptureTyped`: `Spec => []TypeOK`.

`SentenceCommitProofs` proves, for any number of words and segments
(`SentenceCommitAssumption`), with three inductive invariants, each a conjunct of the
next. The first is `CommitInv` (`CommitIsSound`).
A decode runs through `Revoked`, `Merged`, `Upgraded`, `WithNew` and `Confirmed`
in one call, and a row may be changed by each of them:

* `Bound`: the identities a row owns are those of exactly its words. Without it a
  merge, which joins identities, could lose words, which are what `CommittedStays`
  speaks of.
* `InTurn`: the published rows are the first ones. A merge deletes rows and moves
  those behind them; it only deletes rows that are not published, so that a
  published one keeps its number.
* `Backed`: an unpublished row that is confirmed has the identities of one unit of
  the text. It has to be shown of each stage in turn, because the units are new
  while the rows are still old.
* `Aims`: candidates point at rows that exist, also after a merge has moved them.

The rows that stay are found by counting (`Nth`, `Keep`), so the module begins with
ranks in sets of numbers (`RankIs`, `KeepIs`, `StayRank`) and, from them, what a
merge does (`MergesApart`, `AbsorbedIs`, `MergedRows`, `MergedCursor`): an absorbed
row has one owner, which stays. `Follows` says what old and new rows have to do with
each other; it is transitive (`FollowsOn`), holds of each stage (`RevokedIs`,
`ReconcileIs`, `GrownIs`, `WithNewIs`, `ConfirmedIs`), hence of the call (`UpdateIs`),
and it is what the two action properties need.

From it:

* `ConfirmedAreCurrent`: `Spec => []ConfirmedIsCurrent`.
* `PublishedRowsStay`: `Spec => PublishedStays`.
* `CommittedWordsStay`: `Spec => CommittedStays`.

The second, `OwnInv`, is about occurrences of words. Its first part, `Steady`, says
where a prefix lies with respect to the decoder's text: it ends at the word before
it, or at its first one where segments overlap (`Fits`). The rest holds as long as
`moved` is false:

* `Placed`: a consumed position that has a row has the words of that row, and the
  rows that consumed positions have are those of the open segment.
* `Known`: a row has no identity that the ledger has not given out.
* `Untold`: a word that keeps its identity in the next text, because it is in the
  ledger's text of the same segment or in the carry, is in no row of an earlier
  segment.
* `Disjoint`: no identity is in two rows.

As long as the boundaries stay, merging and growing change nothing, and a run only
appends rows for the new units (`AddsIs`): the units lie in a line over the text
(`Lined`), what was consumed are the first of them (`Holds`), and the new ones are
those that no row holds. A word that goes into two rows would be given the same
identity by `Born` twice; `Untold` excludes it over a segment cut, `Disjoint` inside
one.

* `StableBoundariesAreOwn`: `Spec => []StableBoundariesOwnOnce`.

The third, `LossInv`, says in addition, while `moved` and `clipped` are false and the
stream is not done, that (`Kept`):

* `Begun`: every word before the first consumed unit is in a row; before the prefix
  if nothing is consumed; before the decoder's text if there is no prefix either.
* `Told`: the words of every consumed unit are in rows, also of those that were
  consumed without a row of their own because a row already held them.
* `Doubled`: a word that the anchor may cut from the next text is in a row.
* `Spoken`: the identities a row was published with are of its words. Without it a
  unit could be held for words that only the identities have.
* `Lasting`: a prefix that ends a sentence has more than one word. A single word is a
  short fragment whose period is taken away (`CarryLasts`), or it was consumed; were
  it not so, an overlap of one word would drop the prefix (`PrefixStays`).

After a run all words up to the open ones are in rows, or all of the text if none are
open (`RunFills`); a forced run leaves none open (`ForcedAll`); and what a cut leaves
open is what it carries over (`CarryLasts`), so that the next segment begins where
the rows end. At the finish nothing is open.

* `StableBoundariesKeepAll`: `Spec => []StableBoundariesLoseNothing`.

`rb_native` instantiates the native configuration; the compatibility configuration of
`RevisionBuffer` is covered by the theorems, which do not depend on the modes.

Only model-checked: `SpeechArrives` and `ClockFollows` of `WebClient`. They are
possible: `WebClient` moves a send queue whose messages are merged, which needs
lemmas like those of `CaptureSessionProofs`.
Liveness under fairness (`SealedHeadLeaves`, `OfferedHeadResolves`, `WaitingEnds`,
`FinishIsAnswered`, `StopEnds`, `StreamEnds`, `RetrySucceedsOtherwise`) is out of
the prover's reach and stays with TLC.

## 5. Disagreements found

1. **A cut sentence stops the player** (`sp_cut`). When synthesis fails after
   the first chunk of a sentence was shared (`voxbridge/tts/hls.py:1660`), the
   publisher goes on with the next sentence. `docs/en/SPEECH-CONSISTENCY.md:13`
   says that "A synthesis failure releases the head so later speech can
   continue", but the native player's cursor refuses a new sentence after an
   incomplete one. `PlayerAcceptsUnbroken` holds: without a failure only a
   reset of the ordering inside a capture (below) breaks the stream.
2. **Setting the same direction strands waiting rows** (`tq_clear`). Pending work
   is cleared, the entries that wait for it are kept; `docs/API.md:751-753` says
   that a failed translation is skipped so that it cannot block later jobs.
3. **A crash can make every later install fail** (`in_retry`). The generated model
   is published from a private directory. A crash between link and unlink leaves a
   second name of it there, which `recover_publication` does not look for, and a
   file with two names is refused by install and by repair, although "You can
   cancel an installation and retry later" (`docs/en/QUICKSTART.md:47`).

Seen in the model, and excluded from a property by its premise because no text
of the repository decides what should happen:

* An ordering reset inside a capture (`set_tts_enabled` with a new client id)
  restarts the source orders; the publisher takes the new ones for consumed ones
  and the offered head is not held. It also forgets the releases of the sentence
  that is being shared: the guard (`demo` 4350, `hls.py:1696-1704`) refuses the rest
  of it, and the native cursor, which only a new capture restarts
  (`NativeSession.swift:294-305`), refuses what follows. `HeadIsHeldInOrder`,
  `OfferedHeadResolves` and `PlayerAcceptsUnbroken` therefore speak of captures
  without one.
* A power loss can leave `installed.json` beside torn files of a wheel: the files
  are renamed to their place without having been synced (`install_desktop.py:221-256`),
  and a later run finds the difference and repairs it only with "Repair and Retry".
  The removal of the record (546) is not synced either, and a name whose publication
  was broken off after the link is synced by no later run. `PublishedIsVerified` and
  `MarkerMeansReady` name these excuses (`torn`).
* Words of a carry can be cut off by the anchor of the next segment, and a carry
  whose text does not overlap is dropped: `NothingLost` is false without the
  premise of `StableBoundariesLoseNothing`.
* A silence barrier waits in `audio_queue.put` without looking at the consumer
  (`demo` 8392): if that has failed and the queue is full, the receive loop waits
  until the socket goes away. `FinishIsAnswered` starts when a finish was read.
* A start is accepted while the consumer of the old session is between two awaits
  of a commit (`demo` 7906): its checks come before the commit, not inside it.

## 6. Not modelled

Whole components: the native PCM ring and its poll (only the acceptance rule of
`NativeSpeechCursor` is used, in `PlayerAccepts`, and its urgency in
`RevisionBuffer`); speculative translation (off by default); the context
schedule; voice activity; ASR, translation and synthesis backends; the app's
windows, audio capture and session life cycle; tools, monitor and the release
builder. `PROJECT.json` gives the reason for each.

Left out of the modelled components:

* `SentenceCommit`: word rewrites and changes of punctuation, echo and overlap
  heuristics, trims of CJK text, repair of carried discourse, additions of
  published rows, grouping of short units in a fresh final text, the cut by the
  punctuation timeout, the duplicate filter, the hold after a partial reset, the
  gates of the Qwen and zipformer backends; the awaits inside one call.
* `CaptureSession`: the rates of the recovery policy (its decisions are free
  choices), the bytes of a frame, settings and status messages.
* `WebClient`: rendering, forms and device lists; the closing of an audio context
  and one sleep of 20 ms end before the next click.
* `HLSListener`: hls.js and the media element are external (segments load in
  order, what is loaded is played); the playhead is exact, the estimate from the
  live edge is not modelled; nor are an epoch restart under cached segment URLs, a
  `stalled` without a later `playing`, the preparation cache of the compatibility
  worker, and the limits of the PCM queue and of 256 cues. Only sessions that are
  not running expire. Cues of the chunked mode carry no gap.
* `SpeechPublisher`: lease times (a lease ends at any moment), the death of
  FFmpeg, speed selection, the overlap of `_stop_stream` with a new listener, the
  awaits inside the start of a capture.
* `TranslationQueue`: the clear is one step.
* `RevisionBuffer`: `confirm_through`, read-only diagnostics, the replacement of a
  pending extra addition.
* `PullDelivery`: formats, authorization.
* `Installer`: consent, the workspace's links, archive checks, the translation
  runtime and the Japanese dictionary (`setup_assets.py`), the start of the finished
  runtime (`check_runtime`), removal of models, mirrors and the packaging tools.

## 7. Plan

Done: the modules of section 2. Next, in this order:

* Proofs: the safety properties of `WebClient`.
* `PCMDelivery`: PCM ring, snapshots of at most four chunks, eviction, epochs, the
  app's cursor, feedback and drain; abstract specification: the player plays a
  prefix of the shared stream without a gap, or stops.
* `TranslationQueue` with the clear split at its awaits (two workers), and
  additions of published rows in `SentenceCommit`.
* `SpeechPublisher` with `_stop_stream` split from the start of a new epoch.
