----------------------------- MODULE HLSListener -----------------------------
(***************************************************************************)
(* The shared HLS stream of the compatibility mode and one page that       *)
(* listens to it (tts/hls.py: FFmpegHLSEncoder and SharedHLSTTSPublisher   *)
(* with _worker_loop; tts/listener_page.py; the routes of                  *)
(* demo_streaming_ws.py).                                                  *)
(*                                                                         *)
(* The encoder writes one PCM timeline in real time: speech when there is  *)
(* some, a near-silent carrier when there is none.  An append returns where *)
(* its audio will be on that timeline, and a caption cue with the carrier  *)
(* in front of it is published.  Two parts shorten a long wait of one      *)
(* listener: the server leaves segments out of the listener's playlist, the *)
(* page seeks.  Both work with positions taken at other moments: the last  *)
(* segment requested, a caption snapshot, a playlist already loaded.       *)
(*                                                                         *)
(* Time is the length of the timeline in slots; a segment is SegLen slots. *)
(* The media element (hls.js or the native player) is external: it loads   *)
(* segments of the playlist it has, in order, and plays what is loaded.    *)
(***************************************************************************)
EXTENDS Integers, Sequences, FiniteSets

CONSTANTS
    MaxSlots,      \* bound: length of a timeline
    MaxCues,       \* bound: sentences of one encoder epoch
    MaxSession,    \* bound: times the page starts to listen
    MaxTroubles,   \* bound: troubles of the media element, and listening again
    SegLen,        \* slots of a segment (segment_sec)
    Bootstrap,     \* carrier slots before the first audio (_required_bootstrap_pcm_bytes)
    Window,        \* slots a playlist must keep (three target durations)
    Lead, Voice, Trail,  \* slots of a clip: silent edge, speech, edge and sentence pause
    MinGap,        \* MIN_DISCARDABLE_GAP_MS
    Guard,         \* NEXT_SPEECH_BUFFER_GUARD_MS
    Preroll        \* NATIVE_HLS_SPEECH_PREROLL_MS

ASSUME HLSListenerAssumption ==
    /\ {MaxSlots, MaxCues, MaxSession, SegLen, Voice, MinGap, Guard} \subseteq Nat \ {0}
    /\ {MaxTroubles, Bootstrap, Window, Lead, Trail, Preroll} \subseteq Nat
    /\ Bootstrap >= SegLen
    /\ Lead + Trail <= SegLen    \* 0.3 s and the clip's edges, segments of 1 s

VARIABLES
    written,    \* the timeline submitted to the encoder: 0 carrier, k speech, -k the rest of clip k
    queue,      \* audio appended and not yet written
    scheduled,  \* _scheduled_end_pcm_bytes
    cues,       \* _caption_cues
    leases,     \* the sessions that hold a listener lease
    arriving,   \* requests of stopped sessions that still arrive: session -> "get" or "delete"
    last,       \* last_segment_number of the running session
    floor,      \* playlist_floor_sequence of the running session
    session,    \* the running session's listener id, 0 when stopped
    count,      \* sessions so far
    media,      \* the media element: none, pending, playing, paused, failed
    started,    \* playbackStarted
    troubles,   \* troubles of the media element so far
    snap,       \* cues of captionSnapshot
    tried,      \* attemptedGapCueKeys
    list,       \* the playlist the element has loaded: [lo, hi]
    buf,        \* segments it has loaded
    pos,        \* its playhead
    joined,     \* history: where it began to play, -1 before
    heard       \* history: the slots it played

stream == <<written, queue, scheduled, cues>>
access == <<leases, arriving, last, floor>>
page == <<session, count, started, troubles, snap, tried>>
player == <<media, list, buf, pos, joined, heard>>
vars == <<stream, access, page, player>>

AtLeast(a, b) == IF a >= b THEN a ELSE b
AtMost(a, b) == IF a <= b THEN a ELSE b
Smallest(S) == CHOOSE x \in S : \A y \in S : x <= y
Largest(S) == CHOOSE x \in S : \A y \in S : x >= y

-----------------------------------------------------------------------------
(* The timeline (FFmpegHLSEncoder).                                        *)

Edge == Len(written)
Slot(s) == written[s + 1]
Segment(s) == s \div SegLen
First(s) == s * SegLen           \* the first slot of a segment
Complete == Edge \div SegLen
Clip(k) == [i \in 1..Lead + Voice + Trail |-> IF i \in Lead + 1..Lead + Voice THEN k ELSE -k]

Idle ==
    /\ written = <<>> /\ queue = <<>> /\ scheduled = Bootstrap /\ cues = <<>>

\* The writer loop: the bootstrap, then audio as long as there is some.
Write ==
    /\ leases # {} /\ Edge < MaxSlots
    /\ IF Edge < Bootstrap \/ queue = <<>>
       THEN written' = Append(written, 0) /\ UNCHANGED queue
       ELSE written' = Append(written, Head(queue)) /\ queue' = Tail(queue)
    /\ UNCHANGED <<scheduled, cues, access, page, player>>

(* Mutant: the audio is taken to begin where the timeline is now. *)
PlacedNow == [start |-> Edge, gap |-> AtLeast(0, Edge - scheduled)]

\* Where the audio appended now will be, and the carrier written since the end
\* of the audio before it (append_pcm_committed).
Placed == [start |-> AtLeast(Edge, scheduled), gap |-> AtLeast(0, Edge - scheduled)]

\* The caption cue of a clip: from its first to its last audible slot, the
\* carrier before it, and the point after which only the natural gap is left.
Cue(at) ==
    LET start == at.start + Lead
        actual == IF cues = <<>> THEN 0 ELSE start - cues[Len(cues)].end
        gap == AtMost(actual, at.gap)
    IN  [start |-> start, end |-> start + Voice, gap |-> gap,
         resume |-> IF gap > 0 THEN start - (actual - gap) ELSE -1]

\* The worker releases the next sentence.
AppendClip ==
    /\ leases # {} /\ Edge >= SegLen /\ Len(cues) < MaxCues
    /\ Placed.start + Len(Clip(1)) <= MaxSlots
    /\ queue' = queue \o Clip(Len(cues) + 1)
    /\ scheduled' = Placed.start + Len(Clip(1))
    /\ cues' = Append(cues, Cue(Placed))
    /\ UNCHANGED <<written, access, page, player>>

-----------------------------------------------------------------------------
(* Leases and playlists (SharedHLSTTSPublisher).                           *)

\* The last lease ends the epoch and everything that belongs to it.
Released(ls) ==
    /\ leases' = ls
    /\ IF ls = {} THEN written' = <<>> /\ queue' = <<>> /\ scheduled' = Bootstrap /\ cues' = <<>>
       ELSE UNCHANGED stream

\* Every playlist and segment request renews or creates the lease.
Touch(i) == leases' = leases \cup {i}

\* The requests of a session that is over, and its DELETE, may come late, in
\* any order, or not at all.
LateRequest(i) ==
    /\ <<i, "get">> \in arriving
    /\ arriving' = arriving \ {<<i, "get">>}
    /\ Touch(i)
    /\ UNCHANGED <<stream, last, floor, page, player>>
RemoveListener(i) ==
    /\ <<i, "delete">> \in arriving
    /\ arriving' = arriving \ {<<i, "delete">>}
    /\ Released(leases \ {i})
    /\ UNCHANGED <<last, floor, page, player>>
LoseRequest(r) ==
    /\ r \in arriving
    /\ arriving' = arriving \ {r}
    /\ UNCHANGED <<stream, leases, last, floor, page, player>>

(* Mutant: a lease without requests is kept. *)
ExpiredNever == {}

\* A session that makes no more requests loses its lease in the end.  The
\* running page asks often enough to keep its own.
Expired == leases \ {session}
Prune ==
    /\ Expired # {}
    /\ Released(leases \ Expired)
    /\ UNCHANGED <<arriving, last, floor, page, player>>

\* The latest segment a playlist may begin with and still be long enough, and
\* the first segment that reaches past the disposable carrier of a cue.
LatestFloor == {f \in 0..Complete - 1 : First(Complete - f) >= Window}
ResumeSegment(k) == {s \in 0..Complete - 1 : First(s + 1) > cues[k].resume}

\* The last segment the listener asked for lies in the carrier before cue k.
InGap(k) ==
    /\ cues[k].gap > 0
    /\ First(last) >= cues[k - 1].end
    /\ First(last + 1) <= cues[k].resume

\* Where the listener's playlist may begin (_select_hls_gap_floor_sequence).
Candidate ==
    LET gaps == {k \in 2..Len(cues) : InGap(k) /\ ResumeSegment(k) # {}}
    IN  IF last < 0 \/ LatestFloor = {} \/ gaps = {} THEN -1
        ELSE LET f == AtMost(Smallest(ResumeSegment(Smallest(gaps))), Largest(LatestFloor))
             IN  IF f <= last THEN -1 ELSE f

Trimmed(from) == [lo |-> AtLeast(0, from), hi |-> Complete - 1]

\* The playlist of the running session, without what lies before its floor.
Playlist ==
    /\ session # 0 /\ media # "none" /\ Complete > 0 /\ session \in leases
    /\ floor' = AtLeast(floor, Candidate)
    /\ list' = Trimmed(floor')
    /\ list' # list
    /\ UNCHANGED <<stream, leases, arriving, last, page, media, buf, pos, joined, heard>>

\* The first request of a session: with it a stopped stream starts.
Join ==
    /\ session # 0 /\ media # "none" /\ session \notin leases
    /\ Touch(session)
    /\ UNCHANGED <<stream, arriving, last, floor, page, player>>

-----------------------------------------------------------------------------
(* The media element.                                                      *)

Wanted == LET from == AtLeast(Segment(pos), list.lo)
          IN  Smallest({s \in from..list.hi + 1 : s \notin buf})

\* It may begin anywhere in the playlist and goes on from there.
LoadSegment(s) ==
    /\ session # 0 /\ list.hi >= 0 /\ s <= list.hi
    /\ IF joined < 0 THEN s >= list.lo /\ joined' = First(s) /\ pos' = First(s)
       ELSE s = Wanted /\ UNCHANGED <<joined, pos>>
    /\ buf' = buf \cup {s}
    /\ last' = AtLeast(last, s)
    /\ UNCHANGED <<stream, leases, arriving, floor, page, media, list, heard>>

\* It plays on, or over what is no longer in its playlist.
Play ==
    /\ media = "playing" /\ joined >= 0 /\ Segment(pos) \in buf
    /\ heard' = heard \cup {pos} /\ pos' = pos + 1
    /\ UNCHANGED <<stream, access, page, media, list, buf, joined>>
Skip ==
    LET ahead == {s \in buf : s > Segment(pos)}
    IN  /\ media = "playing" /\ joined >= 0
        /\ Segment(pos) \notin buf /\ Segment(pos) < list.lo /\ ahead # {}
        /\ pos' = First(Smallest(ahead))
        /\ UNCHANGED <<stream, access, page, media, list, buf, joined, heard>>

-----------------------------------------------------------------------------
(* The page: start, stop, and what the media element tells it.             *)

Silent ==
    /\ media' = "none" /\ list' = [lo |-> 0, hi |-> -1] /\ buf' = {} /\ pos' = 0
    /\ joined' = -1 /\ heard' = {}

Start ==
    /\ session = 0 /\ count < MaxSession
    /\ count > 0 => troubles < MaxTroubles
    /\ troubles' = IF count > 0 THEN troubles + 1 ELSE troubles
    /\ session' = count + 1 /\ count' = count + 1
    /\ started' = FALSE /\ tried' = {}
    /\ media' = "pending"
    /\ UNCHANGED <<stream, access, snap,
                   list, buf, pos, joined, heard>>

Stop ==
    /\ session # 0
    /\ session' = 0 /\ started' = FALSE
    /\ snap' = 0 /\ tried' = {} /\ last' = -1 /\ floor' = -1
    /\ \E late \in SUBSET {<<session, "get">>} :
           arriving' = arriving \cup late \cup {<<session, "delete">>}
    /\ Silent
    /\ UNCHANGED <<stream, leases, count, troubles>>

\* markPlaying: play() succeeded, or the element plays again after a wait.
MarkPlaying ==
    /\ session # 0 /\ \/ media = "pending" /\ joined >= 0
                      \/ media = "playing" /\ ~started
    /\ media' = "playing" /\ started' = TRUE
    /\ UNCHANGED <<stream, access, session, count, troubles, snap, tried,
                   list, buf, pos, joined, heard>>

Trouble(m) ==
    /\ session # 0 /\ media # "none" /\ troubles < MaxTroubles
    /\ troubles' = troubles + 1 /\ media' = m
    /\ UNCHANGED <<stream, access, session, count, snap, tried,
                   list, buf, pos, joined, heard>>
\* markPlaybackBlocked: play() is refused, or the element fails.
MarkBlocked == Trouble("failed") /\ started' = FALSE
Stalled == media = "playing" /\ Trouble("playing") /\ started' = FALSE
\* The pause of the lock screen; its play is resumeListeningFromGesture.
Pause == media = "playing" /\ Trouble("paused") /\ UNCHANGED started

Resume ==
    /\ session # 0 /\ media \in {"paused", "failed", "playing"}
    /\ media' = "pending" /\ started' = FALSE
    /\ UNCHANGED <<stream, access, session, count, troubles, snap, tried,
                   list, buf, pos, joined, heard>>

-----------------------------------------------------------------------------
(* The page: captions and the shortening of a gap.                         *)

\* Of n cues, those that have begun at the playhead and those still to come.
Begun(n) == {k \in 1..n : cues[k].start <= pos}
Ahead(n) == {k \in 1..n : cues[k].start > pos}

(* Mutants: the pause is not left for the listener; the playhead may still be *)
(* in the sentence before.                                                   *)
TargetAtSpeech(k, native) == cues[k].start
MayCompactEarly(k) ==
    /\ started /\ cues[k].gap >= MinGap /\ k \notin tried
    /\ cues[k].resume >= cues[k - 1].end /\ cues[k].resume <= cues[k].start

\* Where the page seeks to: in front of the next speech, by what is left of the
\* natural pause and, in a native player, by the decoder's lead-in.
Target(k, native) ==
    LET heardGap == AtLeast(0, pos - cues[k - 1].end)
        left == AtLeast(0, (cues[k].start - cues[k].resume) - heardGap)
        preroll == IF native THEN Preroll ELSE 0
    IN  AtLeast(cues[k - 1].end, AtMost(cues[k].start - left, cues[k].start - preroll))

\* The gap in front of cue k is one the page may shorten (compactBufferedWaitingGap).
MayCompact(k) ==
    /\ started /\ cues[k].gap >= MinGap /\ k \notin tried
    /\ cues[k].resume >= cues[k - 1].end /\ cues[k].resume <= cues[k].start
    /\ pos >= cues[k - 1].end

\* Target and speech are in one loaded range, or the element can seek to both.
Buffered(k) == \A s \in Target(k, FALSE)..cues[k].start + Guard - 1 : Segment(s) \in buf
Seekable(k, native) == First(list.lo) <= Target(k, native) /\ cues[k].start < First(list.hi + 1)
Reachable(k, native) == Seekable(k, native) \/ (~native /\ Buffered(k))

\* Show the newest cue that has begun; seek to the next if the page may.
Apply(n, native) ==
    IF /\ Begun(n) # {} /\ Ahead(n) # {}
          /\ MayCompact(Smallest(Ahead(n)))
          /\ Target(Smallest(Ahead(n)), native) > pos
          /\ Reachable(Smallest(Ahead(n)), native)
       THEN /\ pos' = Target(Smallest(Ahead(n)), native)
            /\ tried' = tried \cup {Smallest(Ahead(n))}
       ELSE UNCHANGED <<pos, tried>>

\* The answer to a caption request has the cues there were when the server read
\* it; it, like the media element's time and progress events, is applied at the
\* playhead of its moment.
TakeCaptions(n, native) ==
    /\ session # 0 /\ session \in leases /\ n > snap /\ snap' = n
    /\ Apply(n, native)
    /\ UNCHANGED <<stream, access, session, count, started, troubles,
                   media, list, buf, joined, heard>>
Refresh(native) ==
    /\ session # 0
    /\ Apply(snap, native) /\ pos' # pos
    /\ UNCHANGED <<stream, access, session, count, started, troubles, snap,
                   media, list, buf, joined, heard>>

-----------------------------------------------------------------------------

Init ==
    /\ Idle
    /\ leases = {} /\ arriving = {} /\ last = -1 /\ floor = -1
    /\ session = 0 /\ count = 0 /\ started = FALSE /\ troubles = 0
    /\ snap = 0 /\ tried = {}
    /\ media = "none" /\ list = [lo |-> 0, hi |-> -1] /\ buf = {} /\ pos = 0
    /\ joined = -1 /\ heard = {}

Load == \E s \in 0..Complete - 1 : LoadSegment(s)
Next ==
    \/ Write \/ AppendClip \/ Prune \/ Playlist \/ Join \/ Load \/ Play \/ Skip
    \/ \E i \in 1..MaxSession : LateRequest(i) \/ RemoveListener(i)
    \/ \E r \in arriving : LoseRequest(r)
    \/ Start \/ Stop \/ MarkPlaying \/ MarkBlocked \/ Stalled \/ Pause \/ Resume
    \/ \E native \in BOOLEAN :
           Refresh(native) \/ \E n \in 1..Len(cues) : TakeCaptions(n, native)

\* The reaper runs; nothing else need happen.
Spec == Init /\ [][Next]_vars /\ WF_vars(Prune)

-----------------------------------------------------------------------------

\* The whole timeline as far as it is decided.
Timeline == written \o (IF Edge < Bootstrap THEN [i \in 1..Bootstrap - Edge |-> 0] ELSE <<>>) \o queue
PauseBefore(k) == cues[k - 1].end..cues[k].start - 1

(* A cue says where its sentence is on the timeline the encoder writes, to    *)
(* the slot, and calls no more of the wait before it disposable than there is *)
(* carrier: the receipt is computed before the audio is written.              *)
CuesMatchAudio ==
    \A k \in DOMAIN cues :
        /\ {s \in 0..Len(Timeline) - 1 : Timeline[s + 1] = k} = cues[k].start..cues[k].end - 1
        /\ k > 1 => cues[k].gap <= Cardinality({s \in PauseBefore(k) : Timeline[s + 1] = 0})

(* From the moment it joins a listener hears every slot of speech: neither    *)
(* what the server leaves out of its playlist nor a seek of the page, decided *)
(* from older snapshots, passes over any.                                     *)
SpeechIsHeard ==
    joined >= 0 => \A s \in joined..pos - 1 : Slot(s) > 0 => s \in heard

(* Of the pause between two sentences a listener always hears at least the    *)
(* natural part, however the two ways to shorten a wait combine.              *)
PauseIsKept ==
    \A k \in 2..Len(cues) :
        joined >= 0 /\ joined <= cues[k - 1].end /\ pos >= cues[k].start =>
            Cardinality(heard \cap PauseBefore(k)) >= Cardinality(PauseBefore(k)) - cues[k].gap

(* After the page has stopped the shared stream ends, although late requests  *)
(* of its can start it again and its DELETE may be lost.                      *)
StreamEnds == session = 0 ~> (session # 0 \/ leases = {})

=============================================================================
