----------------------------- MODULE CaptureSession -----------------------------
(***************************************************************************)
(* One capture session on a WebSocket: the receive loop that takes audio,  *)
(* silence spans, start and finish, and the audio consumer that feeds the  *)
(* decoder, commits subtitle rows and rotates segments                     *)
(* (voxbridge/cli/demo_streaming_ws.py, run_ws_session).                   *)
(*                                                                         *)
(* Both are tasks of one event loop: a step runs from one suspension to    *)
(* the next.  A model call runs in a thread while the other task goes on.  *)
(* What the decoder hears is a sequence of arrival numbers; what it makes  *)
(* of it (text, an endpoint, a carried tail) is a free choice.             *)
(***************************************************************************)
EXTENDS Integers, Sequences, SequencesExt

CONSTANTS
    QueueSize,      \* maxsize of audio_queue
    HardCap,        \* samples at which evaluate() asks to pause ingress
    BatchSize,      \* largest target of _coalesce_audio_frames
    PreRollSize,    \* capacity of decode_pre_roll
    Overlap,        \* segment_overlap_samples
    MaxArrivals,    \* bound on audio frames and silence spans
    MaxEvents       \* bound on starts, cuts and failing calls together

ASSUME CaptureAssumption ==
    /\ QueueSize \in Nat \ {0} /\ HardCap \in Nat \ {0} /\ BatchSize \in Nat \ {0}
    /\ PreRollSize \in Nat /\ Overlap \in Nat /\ MaxArrivals \in Nat /\ MaxEvents \in Nat

VARIABLES
    mlx,        \* args.backend is "mlx"; fixed
    handler,    \* where the receive loop is
    arrivals,   \* arrivals so far: audio frames of one sample, and spans
    queue,      \* audio_queue
    deferred,   \* deferred_audio_items
    spill,      \* audio_spill_parts with their generation
    samples,    \* queue_samples, the count that drives backpressure
    gen,        \* state_generation, from 1
    since,      \* history: arrivals before the session started
    finish,     \* finish_requested
    finished,   \* the final message has been sent
    consumer,   \* where _audio_consumer is
    mine,       \* its local generation, decoder and text source
    batch,      \* the audio it has handed to the decoder
    decoder,    \* the current decoder state, and whether it has decoded
    text,       \* generation of last_text_snapshot, 0 for no text
    prefix,     \* generation of pending_prefix_text, 0 for none
    preroll,    \* decode_pre_roll
    skipped,    \* stats.silent_decode_skipped > 0
    heard,      \* history: the audio of the session's decoder calls that returned
    window,     \* audio_accum of the current decoder: all that it was fed
    retained,   \* history: what calls that failed have left in a window
    quiet,      \* history: arrivals that the client or the VAD calls silent
    events      \* starts, cuts and failing calls so far

ingress == << handler, arrivals, queue, spill, samples >>
session == << gen, since, finish, finished >>
subtitles == << text, prefix >>
memory == << window, retained >>

vars == << mlx, ingress, deferred, session, consumer, mine, batch, decoder, subtitles,
           preroll, skipped, heard, memory, quiet, events >>

Gens == 1..(MaxEvents + 1)
Arrivals == 1..MaxArrivals

Item == [gen : Gens, at : Seq(Arrivals), audio : BOOLEAN]

Nothing == [gen |-> 1, id |-> 0, from |-> 0]

Audio(g, s) == [gen |-> g, at |-> s, audio |-> TRUE]
Span(g, n)  == [gen |-> g, at |-> << n >>, audio |-> FALSE]

Size(item) == IF item.audio THEN Len(item.at) ELSE 0

Init ==
    /\ mlx \in BOOLEAN
    /\ handler = "receive" /\ arrivals = 0
    /\ queue = << >> /\ deferred = << >> /\ spill = [gen |-> 1, at |-> << >>]
    /\ samples = 0
    /\ gen = 1 /\ since = 0 /\ finish = FALSE /\ finished = FALSE
    /\ consumer = "idle" /\ mine = Nothing /\ batch = << >>
    /\ decoder = [id |-> 1, used |-> FALSE]
    /\ text = 0 /\ prefix = 0
    /\ preroll = << >> /\ skipped = FALSE
    /\ heard = << >> /\ window = << >> /\ retained = {} /\ quiet = {}
    /\ events = 0

Stopped == consumer \in {"done", "failed"}
Reset(s) == [s EXCEPT !.at = << >>]
Less(n, k) == IF n < k THEN 0 ELSE n - k

-------------------------------------------------------------------------------
(* The spill: audio that found the queue full.  It keeps its place behind   *)
(* the queue and goes back as one frame as soon as there is room.           *)

(* Mutant: nobody brings the spill back. *)
NeverFlushes(q, s) == FALSE

Flushes(q, s) == s.at # << >> /\ Len(q) < QueueSize

FlushedQueue(q, s) == IF Flushes(q, s) THEN Append(q, Audio(s.gen, s.at)) ELSE q
FlushedSpill(q, s) == IF Flushes(q, s) THEN Reset(s) ELSE s

(* _enqueue_audio: behind a spill, or into a spill when the queue is full. *)
Spills == spill.at # << >> \/ Len(queue) >= QueueSize

Grown(n) == [gen |-> gen, at |-> Append(spill.at, n)]

Paused(k) == k >= HardCap

(* A binary message.  The receive loop stops reading at the hard cap. *)
ReceiveAudio ==
    /\ handler = "receive" /\ arrivals < MaxArrivals
    /\ arrivals' = arrivals + 1
    /\ IF Spills
       THEN /\ queue' = FlushedQueue(queue, Grown(arrivals + 1))
            /\ spill' = FlushedSpill(queue, Grown(arrivals + 1))
       ELSE queue' = Append(queue, Audio(gen, << arrivals + 1 >>)) /\ UNCHANGED spill
    /\ samples' = samples + 1
    /\ handler' = IF Paused(samples') THEN "paused" ELSE "receive"
    /\ UNCHANGED << mlx, deferred, session, consumer, mine, batch, decoder, subtitles,
                    preroll, skipped, heard, memory, quiet, events >>

(* The paused loop looks again every 5 ms; it gives up with the consumer. *)
PollPressure ==
    /\ handler = "paused"
    /\ queue' = FlushedQueue(queue, spill) /\ spill' = FlushedSpill(queue, spill)
    /\ handler' = IF Paused(samples) /\ ~Stopped THEN "paused" ELSE "receive"
    /\ UNCHANGED << mlx, arrivals, samples, deferred, session, consumer, mine, batch,
                    decoder, subtitles, preroll, skipped, heard, memory, quiet, events >>

(* An audio_silence message is a barrier behind all earlier audio. *)
ReceiveSilence ==
    /\ handler = "receive" /\ arrivals < MaxArrivals
    /\ arrivals' = arrivals + 1
    /\ quiet' = quiet \cup {arrivals + 1}
    /\ handler' = "barrier"
    /\ UNCHANGED << mlx, queue, spill, samples, deferred, session, consumer, mine, batch,
                    decoder, subtitles, preroll, skipped, heard, memory, events >>

(* _enqueue_client_silence: wait for the spill, then for room in the queue. *)
PlaceSilence ==
    /\ handler = "barrier"
    /\ LET q == FlushedQueue(queue, spill)
           s == FlushedSpill(queue, spill)
       IN IF s.at = << >> /\ Len(q) < QueueSize
          THEN /\ queue' = Append(q, Span(gen, arrivals))
               /\ handler' = "receive" /\ spill' = s
          ELSE queue' = q /\ spill' = s /\ UNCHANGED handler
    /\ UNCHANGED << mlx, arrivals, samples, deferred, session, consumer, mine, batch,
                    decoder, subtitles, preroll, skipped, heard, memory, quiet, events >>

-------------------------------------------------------------------------------
(* start: a new decoder is made in a thread; then the session is reset in   *)
(* two parts, with awaits between them, while the consumer goes on.         *)

Start ==
    /\ handler = "receive" /\ events < MaxEvents
    /\ events' = events + 1 /\ handler' = "making"
    /\ UNCHANGED << mlx, arrivals, queue, spill, samples, deferred, session, consumer,
                    mine, batch, decoder, subtitles, preroll, skipped, heard, memory,
                    quiet >>

StartFails ==
    /\ handler = "making" /\ events < MaxEvents
    /\ events' = events + 1 /\ handler' = "receive"
    /\ UNCHANGED << mlx, arrivals, queue, spill, samples, deferred, session, consumer,
                    mine, batch, decoder, subtitles, preroll, skipped, heard, memory,
                    quiet >>

ApplyStart ==
    /\ handler = "making" /\ handler' = "resetting"
    /\ gen' = gen + 1 /\ since' = arrivals
    /\ finish' = FALSE /\ finished' = FALSE
    /\ decoder' = [id |-> decoder.id + 1, used |-> FALSE]
    /\ text' = 0 /\ samples' = 0
    /\ heard' = << >> /\ window' = << >> /\ retained' = {}
    /\ UNCHANGED << mlx, arrivals, queue, spill, deferred, consumer, mine, batch,
                    prefix, preroll, skipped, quiet, events >>

(* The rows and the queues are cleared (_clear_audio_queue), and a dead     *)
(* consumer is replaced.                                                    *)
FinishStart ==
    /\ handler = "resetting" /\ handler' = "receive"
    /\ queue' = << >> /\ deferred' = << >> /\ spill' = Reset(spill) /\ samples' = 0
    /\ prefix' = 0
    /\ consumer' = IF Stopped THEN "idle" ELSE consumer
    /\ UNCHANGED << mlx, arrivals, session, mine, batch, decoder, text, preroll, skipped,
                    heard, memory, quiet, events >>

(* finish: the receive loop waits for the consumer's end, then closes.  A   *)
(* consumer that has failed answers with its error.                         *)
Finish ==
    /\ handler = "receive" /\ handler' = "finishing"
    /\ finish' = TRUE
    /\ UNCHANGED << mlx, arrivals, queue, spill, samples, deferred, gen, since, finished,
                    consumer, mine, batch, decoder, subtitles, preroll, skipped, heard,
                    memory, quiet, events >>

FinishReturns ==
    /\ handler = "finishing" /\ Stopped /\ handler' = "closed"
    /\ UNCHANGED << mlx, arrivals, queue, spill, samples, deferred, session, consumer,
                    mine, batch, decoder, subtitles, preroll, skipped, heard, memory,
                    quiet, events >>

(* The client is gone or idle: the consumer is cancelled where it waits,    *)
(* and what the session kept goes with it.                                  *)
Disconnect ==
    /\ handler = "receive" /\ handler' = "closed"
    /\ consumer' = "done" /\ mine' = Nothing /\ batch' = << >>
    /\ queue' = << >> /\ deferred' = << >> /\ spill' = Reset(spill) /\ samples' = 0
    /\ text' = 0 /\ prefix' = 0 /\ preroll' = << >>
    /\ heard' = << >> /\ window' = << >> /\ retained' = {} /\ quiet' = {}
    /\ UNCHANGED << mlx, arrivals, session, decoder, skipped, events >>

-------------------------------------------------------------------------------
(* The consumer, between two suspensions. *)

(* _update_sentence_commits may append rows; the first takes the tail that  *)
(* the last segment has carried over.  SentenceCommit models the rows.      *)
CommitSome(g) ==
    \/ UNCHANGED prefix
    \/ (g # 0 \/ prefix # 0) /\ prefix' = 0

(* _maybe_idle_tail_commit: the text so far or the carried tail is stale. *)
CommitIdle ==
    /\ ~finish
    /\ \/ text' # 0 /\ CommitSome(text')
       \/ text' = 0 /\ prefix # 0 /\ ~decoder'.used /\ CommitSome(0)
    /\ consumer' = "committing"

(* _maybe_vad_silence_cut begins a cut: the tail is taken out of the        *)
(* pre-roll and handed to a thread.  Without text only MLX windows are cut. *)
Cut(pre, from) ==
    /\ ~finish /\ (from # 0 \/ mlx) /\ events < MaxEvents
    /\ events' = events + 1
    /\ mine' = [gen |-> gen, id |-> decoder.id, from |-> from]
    /\ batch' = pre /\ preroll' = << >>
    /\ consumer' = "closing"

(* What follows a batch whose text has generation from, 0 without text. *)
Onward(pre, from) ==
    \/ Cut(pre, from) /\ UNCHANGED prefix
    \/ /\ \/ CommitIdle
          \/ consumer' = "idle" /\ UNCHANGED prefix
       /\ preroll' = pre /\ mine' = Nothing /\ batch' = << >>
       /\ UNCHANGED events

(* _coalesce_audio_frames pulls nothing across a deferred item ... *)
MayPull(rest) == rest = << >>

\* The arrivals in the first k items.
Frames(q, k) == FlattenSeq([i \in 1..k |-> q[i].at])

Own(q, k) == FlattenSeq([i \in 1..k |-> IF q[i].gen = gen THEN q[i].at ELSE << >>])

(* ... and k items of q until the target, a silence span or the end. *)
Pulls(q, part, target, k) ==
    /\ \A i \in 1..k : q[i].audio
    /\ k > 0 => Len(part) + Len(Own(q, k - 1)) < target
    /\ k < Len(q) /\ Len(part) + Len(Own(q, k)) < target => ~q[k + 1].audio

(* Mutant: the remainder of a split batch is put behind the items received   *)
(* after it.                                                                *)
PutBehind(rest, items) == items \o rest

PulledCount(q, k) == Len(Frames(q, k))

(* _split_empty_mlx_batch_at_hard_cut: the part beyond the hard cut goes    *)
(* back, in front of everything deferred.                                   *)
PutBack(rest, items) == rest \o items

\* The newest n samples of s.
Newest(s, n) == SubSeq(s, Less(Len(s), n) + 1, Len(s))

(* AudioPreRollBuffer.append: the newest samples within the capacity. *)
Roll(roll, part) == Newest(roll \o part, PreRollSize)

(* The loop flushes the spill before and after it takes an item. *)
TopQueue == FlushedQueue(queue, spill)
TopSpill == FlushedSpill(queue, spill)
OpenQueue == IF deferred # << >> THEN TopQueue ELSE Tail(TopQueue)

HasItem == consumer = "idle" /\ (deferred # << >> \/ TopQueue # << >>)
NextItem == IF deferred # << >> THEN Head(deferred) ELSE Head(TopQueue)
LeftDeferred == IF deferred # << >> THEN Tail(deferred) ELSE << >>
LeftQueue == FlushedQueue(OpenQueue, TopSpill)
LeftSpill == FlushedSpill(OpenQueue, TopSpill)

(* An item of an earlier session is dropped. *)
DropStale ==
    /\ HasItem /\ NextItem.gen # gen
    /\ queue' = LeftQueue /\ deferred' = LeftDeferred /\ spill' = LeftSpill
    /\ samples' = Less(samples, Size(NextItem))
    /\ UNCHANGED << mlx, handler, arrivals, session, consumer, mine, batch, decoder,
                    subtitles, preroll, skipped, heard, memory, quiet, events >>

(* _consume_client_silence: the held tail is kept only for an utterance     *)
(* that is not finished.                                                    *)
TakeSpan ==
    /\ HasItem /\ NextItem.gen = gen /\ ~NextItem.audio
    /\ queue' = LeftQueue /\ deferred' = LeftDeferred /\ spill' = LeftSpill
    /\ skipped' = TRUE
    /\ UNCHANGED << text, decoder >>
    /\ \/ (text # 0 \/ (mlx /\ decoder.used)) /\ Onward(preroll, text)
       \/ Onward(<< >>, text)
    /\ UNCHANGED << mlx, handler, arrivals, samples, session, heard, memory, quiet >>

(* The energy gate skips the batch, which only the pre-roll keeps. *)
Skip(part) ==
    /\ ~mlx
    /\ skipped' = TRUE /\ quiet' = quiet \cup Range(part)
    /\ UNCHANGED << text, decoder >>
    /\ Onward(Roll(preroll, part), text)

(* The batch goes to the decoder, behind the pre-roll after a gap. *)
Decode(part) ==
    /\ consumer' = "decoding"
    /\ mine' = [gen |-> gen, id |-> decoder.id, from |-> 0]
    /\ batch' = IF skipped THEN preroll \o part ELSE part
    /\ preroll' = IF skipped THEN << >> ELSE preroll
    /\ skipped' = FALSE
    /\ UNCHANGED << decoder, text, prefix, quiet, events >>

TakeAudio(target, k, kept) ==
    /\ HasItem /\ NextItem.gen = gen /\ NextItem.audio
    /\ IF MayPull(LeftDeferred)
       THEN k <= Len(LeftQueue) /\ Pulls(LeftQueue, NextItem.at, target, k)
       ELSE k = 0
    /\ LET all == NextItem.at \o Own(LeftQueue, k)
           part == SubSeq(all, 1, kept)
           rest == SubSeq(all, kept + 1, Len(all))
           span == MayPull(LeftDeferred) /\ Len(all) < target /\ k < Len(LeftQueue)
           behind == IF span THEN Append(LeftDeferred, LeftQueue[k + 1]) ELSE LeftDeferred
       IN /\ kept <= Len(all) /\ (kept < Len(all) => mlx /\ text = 0)
          /\ queue' = SubSeq(LeftQueue, k + 1 + (IF span THEN 1 ELSE 0), Len(LeftQueue))
          /\ spill' = LeftSpill
          /\ deferred' = IF rest = << >> THEN behind
                         ELSE PutBack(<< Audio(gen, rest) >>, behind)
          /\ samples' = Less(samples, Size(NextItem) + PulledCount(LeftQueue, k))
                        + Len(rest)
          /\ Skip(part) \/ Decode(part)
    /\ UNCHANGED << mlx, handler, arrivals, session, heard, memory >>

(* The queue stays empty for 200 ms. *)
Tick ==
    /\ consumer = "idle" /\ deferred = << >> /\ TopQueue = << >>
    /\ UNCHANGED << text, decoder >>
    /\ Onward(preroll, text) /\ consumer' # "idle"
    /\ UNCHANGED << mlx, ingress, deferred, session, skipped, heard, memory, quiet >>

-------------------------------------------------------------------------------
(* The model calls of the consumer, and what it does when they return. *)

Current == mine.id = decoder.id

(* The decoder keeps what it was fed, also when its session is over. *)
Fed ==
    /\ UNCHANGED retained
    /\ IF Current THEN /\ heard' = heard \o batch /\ window' = window \o batch
                       /\ decoder' = [decoder EXCEPT !.used = @ \/ batch # << >>]
       ELSE UNCHANGED << heard, window, decoder >>

(* A call that fails: streaming_transcribe puts the batch behind its window *)
(* before it decodes, but after the checks that may refuse it.              *)
Failed ==
    /\ UNCHANGED << heard, decoder >>
    /\ \/ UNCHANGED memory
       \/ Current /\ window' = window \o batch /\ retained' = retained \cup Range(batch)

(* A result of an earlier session is dropped, and an empty or quarantined   *)
(* text shows nothing; otherwise the rows are updated and a partial is sent. *)
Decoded ==
    /\ consumer = "decoding"
    /\ Fed
    /\ \/ /\ ~Current
          /\ consumer' = "idle" /\ mine' = Nothing /\ batch' = << >>
          /\ UNCHANGED << text, prefix, preroll, events >>
       \/ /\ Current /\ UNCHANGED text /\ Onward(preroll, text)
       \/ /\ Current
          /\ text' = gen /\ CommitSome(gen)
          /\ consumer' = "publishing" /\ mine' = [mine EXCEPT !.from = gen]
          /\ batch' = << >> /\ UNCHANGED << preroll, events >>
    /\ UNCHANGED << mlx, ingress, deferred, session, skipped, quiet >>

(* Each row of one text is registered and sent, with awaits in between. *)
CommitMore ==
    /\ consumer \in {"publishing", "sealing", "answering"}
    /\ mine.from # 0
    /\ prefix' = 0
    /\ UNCHANGED << mlx, ingress, deferred, session, consumer, mine, batch, decoder,
                    text, preroll, skipped, heard, memory, quiet, events >>

Published ==
    /\ consumer = "publishing"
    /\ UNCHANGED << text, decoder >>
    /\ Onward(preroll, mine.from)
    /\ UNCHANGED << mlx, ingress, deferred, session, skipped, heard, memory, quiet >>

Committed ==
    /\ consumer = "committing" /\ consumer' = "idle"
    /\ UNCHANGED << mlx, ingress, deferred, session, mine, batch, decoder, subtitles,
                    preroll, skipped, heard, memory, quiet, events >>

(* Back from a cut that is not made, or made: an idle commit may follow. *)
AfterCut ==
    /\ CommitIdle \/ (consumer' = "idle" /\ UNCHANGED prefix)
    /\ mine' = Nothing /\ batch' = << >>

(* _finalize_segment_and_rotate after its model calls: the cut is dropped   *)
(* in a new session, deferred until more is heard, or its text is committed. *)
Closed ==
    /\ consumer = "closing"
    /\ Fed
    /\ skipped' = (skipped /\ batch = << >>)
    /\ \E from \in {mine.from} \cup (IF Current /\ decoder'.used THEN {gen} ELSE {}) :
        \/ /\ ~Current \/ from # 0
           /\ text' = IF Current THEN from ELSE text
           /\ AfterCut
        \/ /\ Current
           /\ text' = from /\ CommitSome(from)
           /\ consumer' = "sealing" /\ mine' = [mine EXCEPT !.from = from]
           /\ batch' = << >>
    /\ UNCHANGED << mlx, ingress, deferred, session, preroll, quiet, events >>

(* The decoder fails while it hears the tail, or afterwards: no cut.  The   *)
(* tail goes back into the pre-roll, and to the decoder once more, although *)
(* it may have kept it.                                                     *)
CloseFails ==
    /\ consumer = "closing" /\ events < MaxEvents
    /\ events' = events + 1
    /\ \/ /\ batch # << >> /\ preroll' = Roll(preroll, batch)
          /\ Failed /\ UNCHANGED skipped
       \/ Fed /\ skipped' = (skipped /\ batch = << >>) /\ UNCHANGED preroll
    /\ UNCHANGED text /\ AfterCut
    /\ UNCHANGED << mlx, ingress, deferred, session, quiet >>

(* The tail that is not committed is carried over. *)
Sealed ==
    /\ consumer = "sealing" /\ consumer' = "rotating"
    /\ prefix' \in {0, mine.from}
    /\ UNCHANGED << mlx, ingress, deferred, session, mine, batch, decoder, text,
                    preroll, skipped, heard, memory, quiet, events >>

(* A new decoder for the next segment, unless start has put one there.  Its *)
(* window begins with the end of the last one (overlap_audio).              *)
Rotated ==
    /\ consumer = "rotating"
    /\ decoder' = IF Current THEN [id |-> decoder.id + 1, used |-> FALSE] ELSE decoder
    /\ window' = IF Current THEN Newest(window, Overlap) ELSE window
    /\ text' = 0
    /\ AfterCut
    /\ UNCHANGED << mlx, ingress, deferred, session, preroll, skipped,
                    heard, retained, quiet, events >>

(* Mutant: the consumer ends without a look at what it has put back. *)
DrainedEarly == TopQueue = << >> /\ TopSpill.at = << >>

(* Everything that was received has been consumed. *)
Drained == deferred = << >> /\ TopQueue = << >> /\ TopSpill.at = << >>

(* The loop ends; the last segment is closed if it has been decoded. *)
End ==
    /\ consumer = "idle" /\ finish /\ Drained
    /\ mine' = [gen |-> gen, id |-> decoder.id,
                from |-> IF decoder.used THEN text ELSE 0]
    /\ preroll' = << >>
    /\ IF decoder.used
       THEN batch' = preroll /\ consumer' = "tail" /\ UNCHANGED prefix
       ELSE batch' = << >> /\ CommitSome(0) /\ consumer' = "answering"
    /\ UNCHANGED << mlx, ingress, deferred, session, decoder, text, skipped, heard,
                    memory, quiet, events >>

TailHeard ==
    /\ consumer = "tail" /\ consumer' = "answering"
    /\ Fed /\ skipped' = (skipped /\ batch = << >>)
    /\ mine' = [mine EXCEPT !.from = gen] /\ CommitSome(gen)
    /\ batch' = << >>
    /\ UNCHANGED << mlx, ingress, deferred, session, text, preroll, quiet, events >>

(* The rows are complete, the translations and the speech are drained. *)
Answer ==
    /\ consumer = "answering" /\ consumer' = "done" /\ mine' = Nothing
    /\ finished' = TRUE
    /\ UNCHANGED << mlx, ingress, deferred, gen, since, finish, batch, decoder,
                    subtitles, preroll, skipped, heard, memory, quiet, events >>

(* A model call or a send fails where nothing catches it: the task ends. *)
ConsumerFails ==
    /\ consumer \in {"decoding", "publishing", "committing", "sealing", "rotating",
                     "tail", "answering"}
    /\ events < MaxEvents
    /\ events' = events + 1 /\ consumer' = "failed"
    /\ mine' = Nothing /\ batch' = << >>
    /\ preroll' = IF consumer = "tail" THEN Roll(preroll, batch) ELSE preroll
    /\ Failed
    /\ UNCHANGED << mlx, ingress, deferred, session, subtitles, skipped, quiet >>

-------------------------------------------------------------------------------
Handler ==
    \/ ReceiveAudio \/ PollPressure \/ ReceiveSilence \/ PlaceSilence
    \/ Start \/ StartFails \/ ApplyStart \/ FinishStart
    \/ Finish \/ FinishReturns \/ Disconnect

Take ==
    \/ DropStale \/ TakeSpan
    \/ \E target \in 1..BatchSize, k \in 0..QueueSize, kept \in Arrivals :
          TakeAudio(target, k, kept)

Return ==
    \/ Decoded \/ Published \/ Committed \/ Closed \/ CloseFails
    \/ Sealed \/ Rotated \/ TailHeard \/ Answer

Next == Handler \/ Take \/ Tick \/ Return \/ CommitMore \/ End \/ ConsumerFails

Spec == Init /\ [][Next]_vars

(* Both tasks get their turns, and calls and sends return. *)
Fairness ==
    /\ WF_vars(Take \/ Return \/ End)
    /\ WF_vars(PollPressure \/ PlaceSilence \/ FinishReturns)
    /\ WF_vars(StartFails \/ ApplyStart \/ FinishStart)

FairSpec == Spec /\ Fairness

-------------------------------------------------------------------------------
(* What makes the capture path correct. *)

TypeOK ==
    /\ mlx \in BOOLEAN
    /\ handler \in {"receive", "paused", "barrier", "making", "resetting", "finishing",
                    "closed"}
    /\ arrivals \in 0..MaxArrivals
    /\ queue \in Seq(Item) /\ Len(queue) <= QueueSize
    /\ deferred \in Seq(Item)
    /\ spill \in [gen : Gens, at : Seq(Arrivals)] /\ samples \in Nat
    /\ gen \in Gens /\ since \in 0..arrivals /\ finish \in BOOLEAN
    /\ finished \in BOOLEAN
    /\ consumer \in {"idle", "decoding", "publishing", "committing", "closing", "sealing",
                     "rotating", "tail", "answering", "done", "failed"}
    /\ mine \in [gen : Gens, id : Nat, from : {0} \cup Gens]
    /\ batch \in Seq(Arrivals) /\ preroll \in Seq(Arrivals) /\ Len(preroll) <= PreRollSize
    /\ decoder \in [id : Nat, used : BOOLEAN]
    /\ text \in {0} \cup Gens /\ prefix \in {0} \cup Gens
    /\ skipped \in BOOLEAN /\ heard \in Seq(Arrivals) /\ quiet \subseteq Arrivals
    /\ window \in Seq(Arrivals) /\ retained \subseteq Arrivals
    /\ events \in 0..MaxEvents

Increasing(s) == \A i \in 1..(Len(s) - 1) : s[i] < s[i + 1]

Backlog == Frames(deferred, Len(deferred)) \o Frames(queue, Len(queue)) \o spill.at

InHand == IF consumer \in {"decoding", "closing", "tail"} /\ Current THEN batch ELSE << >>

(* From the decoder back to the socket everything keeps its order and       *)
(* nothing is there twice: what was decoded, what is being decoded, the     *)
(* held tail, the deferred items, the queue and the spill, with every       *)
(* silence span behind the audio that came before it.  A decoder hears its  *)
(* window in that order too, and a sample again only when a call that       *)
(* failed had left it there.                                                *)
AudioInOrder ==
    /\ Increasing(heard \o InHand \o preroll \o Backlog)
    /\ \A i, j \in DOMAIN window :
          i < j => window[i] < window[j] \/ window[j] \in retained

(* The final message is about the whole session: whatever was spilled, put  *)
(* back, deferred or merged, each frame was heard or was called silent.     *)
FinalIsComplete ==
    finished => (since + 1)..arrivals \subseteq Range(heard) \cup quiet

(* A finish is always answered, with the final message or with the error    *)
(* of the consumer.                                                         *)
FinishIsAnswered ==
    handler = "finishing" ~> handler = "closed" /\ (finished \/ consumer = "failed")
===============================================================================
