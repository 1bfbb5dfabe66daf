------------------------------- MODULE WebClient -------------------------------
(***************************************************************************)
(* The browser page of a capture session (voxbridge/web/pages.py): the     *)
(* handlers of its two buttons, its socket, the gate that holds silence    *)
(* back, and the send queue; with the clock that the server keeps of what  *)
(* it receives (voxbridge/cli/demo_streaming_ws.py, run_ws_session).       *)
(*                                                                         *)
(* A captured frame is one sample, loud or quiet.  A step is one callback, *)
(* or a handler from one await to the next.  Closing an audio context and  *)
(* one sleep of 20 ms end before the user clicks again.                    *)
(***************************************************************************)
EXTENDS Integers, Sequences, SequencesExt

CONSTANTS
    SpeechStart,    \* speechStartSamples
    SilenceGate,    \* silenceGateSamples
    PreRoll,        \* preRollSamples
    EndTail,        \* endTailSamples
    Heartbeat,      \* heartbeatSamples
    ChunkSize,      \* CHUNK_SAMPLES
    MaxQueue,       \* MAX_SEND_QUEUE_BYTES
    MaxBuffered,    \* MAX_WS_BUFFERED_BYTES, in messages
    MaxFrames,      \* bound on captured frames
    MaxSessions,    \* bound on clicks on Start
    MaxEvents       \* bound on errors, failures and lost connections

ASSUME ClientAssumption ==
    /\ SpeechStart \in Nat \ {0} /\ SilenceGate \in Nat \ {0} /\ PreRoll \in Nat \ {0}
    /\ EndTail \in Nat \ {0} /\ ChunkSize \in Nat \ {0}
    /\ SpeechStart <= PreRoll /\ SilenceGate <= Heartbeat
    /\ MaxQueue \in Nat /\ MaxBuffered \in Nat
    /\ MaxFrames \in Nat /\ MaxSessions \in Nat /\ MaxEvents \in Nat

VARIABLES
    running, awaiting,  \* running, awaitingFinal
    controls,   \* "free", "locked" (Stop is enabled) or "finishing"
    start,      \* where btnStart.onclick waits
    stop,       \* where btnStop.onclick waits
    socket,     \* readyState of ws, "none" for null
    gate,       \* audioActivityGate
    pending,    \* samples that do not fill a chunk
    queue,      \* sendQueue
    captured,   \* history: samples captured in this session
    loud,       \* history: those above the silence threshold
    lost,       \* history: audio was dropped or left behind
    wire,       \* messages the server has not read
    server,     \* the server's end of the socket
    sessions, events

page   == << running, awaiting, controls, start, stop >>
upload == << gate, pending, queue, lost >>
sound  == << captured, loud >>
bounds == << sessions, events >>

vars == << page, socket, upload, sound, wire, server, bounds >>

FreshGate == [active |-> FALSE, held |-> << >>, preRoll |-> << >>, run |-> 0,
              unreported |-> 0, reported |-> FALSE]

(* phase of the session; source_timeline_samples and                        *)
(* client_replay_samples_remaining; history: the samples received.          *)
FreshServer == [phase |-> "new", clock |-> 0, replay |-> 0, heard |-> << >>]

Audio(s)          == [kind |-> "audio", at |-> s]
SpeechControl(n, k) == [kind |-> "speech", index |-> n, replay |-> k]
SilenceControl(n) == [kind |-> "silence", index |-> n]
Command(c)        == [kind |-> c]

Init ==
    /\ running = FALSE /\ awaiting = FALSE /\ controls = "free"
    /\ start = "none" /\ stop = "none" /\ socket = "none"
    /\ gate = FreshGate /\ pending = << >> /\ queue = << >> /\ lost = FALSE
    /\ captured = 0 /\ loud = {}
    /\ wire = << >> /\ server = FreshServer
    /\ sessions = 0 /\ events = 0

-------------------------------------------------------------------------------
(* AudioActivityGate: a gate and what it emits for one frame. *)

Newest(s, k) == SubSeq(s, IF Len(s) > k THEN Len(s) - k + 1 ELSE 1, Len(s))
Oldest(s, k) == SubSeq(s, 1, IF Len(s) > k THEN k ELSE Len(s))

Emits(g, out) == [gate |-> g, out |-> out]

(* While speech is heard quiet frames are held.  Held for long enough they  *)
(* end the speech: only their first part is sent.                           *)
Hold(g, n) ==
    LET held == Append(g.held, n)
    IN IF Len(held) < SilenceGate
       THEN Emits([g EXCEPT !.held = held], << >>)
       ELSE Emits([g EXCEPT !.active = FALSE, !.run = 0, !.held = << >>,
                            !.preRoll = Newest(held, PreRoll),
                            !.unreported = 0, !.reported = TRUE],
                  << Audio(Oldest(held, EndTail)), SilenceControl(n) >>)

Speak(g, n) == Emits([g EXCEPT !.held = << >>], << Audio(Append(g.held, n)) >>)

(* Silence is reported when it is confirmed, then by heartbeats. *)
Quiet(g, n, roll) ==
    LET unreported == g.unreported + 1
        due == unreported >= (IF g.reported THEN Heartbeat ELSE SilenceGate)
    IN Emits([g EXCEPT !.preRoll = roll, !.run = 0,
                       !.unreported = IF due THEN 0 ELSE unreported,
                       !.reported = @ \/ due],
             IF due THEN << SilenceControl(n) >> ELSE << >>)

(* Mutant: only the frame that confirms the speech is sent. *)
OnsetAlone(g, n, roll) ==
    Emits([g EXCEPT !.active = TRUE, !.run = 0, !.unreported = 0, !.preRoll = << >>],
          << SpeechControl(n, 1), Audio(<< n >>) >>)

Onset(g, n, roll) ==
    Emits([g EXCEPT !.active = TRUE, !.run = 0, !.unreported = 0, !.preRoll = << >>],
          << SpeechControl(n, Len(roll)), Audio(roll) >>)

ProcessFrame(g, n, silent) ==
    LET roll == Newest(Append(g.preRoll, n), PreRoll)
    IN CASE g.active /\ silent -> Hold(g, n)
         [] g.active /\ ~silent -> Speak(g, n)
         [] ~g.active /\ silent -> Quiet(g, n, roll)
         [] ~g.active /\ ~silent /\ g.run + 1 < SpeechStart ->
              Emits([g EXCEPT !.preRoll = roll, !.run = @ + 1], << >>)
         [] ~g.active /\ ~silent /\ g.run + 1 >= SpeechStart -> Onset(g, n, roll)

(* finish(): what is held or was about to become speech is sent. *)
FinishGate(g, n) ==
    LET onset == IF ~g.active /\ g.run > 0 /\ g.preRoll # << >>
                 THEN Onset(g, n, g.preRoll) ELSE Emits(g, << >>)
        h == onset.gate
    IN onset.out \o
       (IF h.active /\ h.held # << >> THEN << Audio(h.held) >>
        ELSE IF ~h.active /\ h.unreported > 0 THEN << SilenceControl(n) >> ELSE << >>)

-------------------------------------------------------------------------------
(* The send queue. *)

Bytes(q) == FoldLeft(LAMBDA n, m : n + (IF m.kind = "audio" THEN Len(m.at) ELSE 1), 0, q)

Droppable(q) == {i \in DOMAIN q : q[i].kind = "audio"}

(* Only audio is dropped, the oldest first. *)
DropOldest(q) ==
    IF Bytes(q) > MaxQueue /\ Len(q) > 1 /\ Droppable(q) # {}
    THEN RemoveAt(q, CHOOSE i \in Droppable(q) : \A j \in Droppable(q) : i <= j)
    ELSE q

(* The state of an upload in progress: samples, queue and loss. *)
EnqueueSendBuffer(u, s) ==
    LET full == Append(u.queue, Audio(s))
        kept == FoldLeft(LAMBDA q, m : DropOldest(q), full, full)
    IN [u EXCEPT !.queue = kept, !.lost = @ \/ kept # full]

FlushPendingToQueue(u, force) ==
    LET n == Len(u.pending) \div ChunkSize
        rest == SubSeq(u.pending, n * ChunkSize + 1, Len(u.pending))
        full == FoldLeft(LAMBDA v, i : EnqueueSendBuffer(v,
                             SubSeq(u.pending, (i - 1) * ChunkSize + 1, i * ChunkSize)),
                         u, [i \in 1..n |-> i])
    IN IF force /\ rest # << >>
       THEN [EnqueueSendBuffer(full, rest) EXCEPT !.pending = << >>]
       ELSE [full EXCEPT !.pending = rest]

(* Mutant: a control message overtakes the samples before it. *)
ControlOvertakes(u, m) == [u EXCEPT !.queue = Append(@, m)]

EnqueueAudioControl(u, m) ==
    LET v == FlushPendingToQueue(u, TRUE)
    IN [v EXCEPT !.queue = Append(@, m)]

Enqueue(u, m) ==
    IF m.kind = "audio"
    THEN FlushPendingToQueue([u EXCEPT !.pending = @ \o m.at], FALSE)
    ELSE EnqueueAudioControl(u, m)

Upload == [pending |-> pending, queue |-> queue, lost |-> lost]

(* pump() sends until the socket has buffered too much. *)
Sendable(q, w) ==
    LET room == MaxBuffered + 1 - Len(w)
    IN IF socket # "open" \/ room < 0 THEN 0 ELSE IF room < Len(q) THEN room ELSE Len(q)

Pump(q) ==
    \E n \in {Sendable(q, wire)} :
        /\ wire' = wire \o SubSeq(q, 1, n)
        /\ queue' = SubSeq(q, n + 1, Len(q))

-------------------------------------------------------------------------------
(* Resets shared by the handlers. *)

(* stopPipeline() with its reset of what waits to be sent. *)
ForgetUpload == gate' = FreshGate /\ pending' = << >> /\ queue' = << >>

(* resetSessionFlags() and stopPipeline(). *)
ResetSession ==
    /\ running' = FALSE /\ awaiting' = FALSE /\ controls' = "free"
    /\ ForgetUpload /\ lost' = TRUE

(* The catch of btnStart.onclick. *)
StartFailed ==
    /\ ForgetUpload /\ UNCHANGED lost
    /\ socket' = "none" /\ wire' = << >> /\ server' = FreshServer
    /\ running' = FALSE /\ controls' = "free" /\ start' = "none"
    /\ UNCHANGED << awaiting, stop, sound, sessions >>

-------------------------------------------------------------------------------
(* btnStart.onclick, from one await to the next. *)

ClickStart ==
    /\ controls = "free" /\ ~running /\ ~awaiting /\ sessions < MaxSessions
    /\ start = "none" /\ stop \notin {"closing", "draining"}
    /\ sessions' = sessions + 1
    /\ ForgetUpload /\ lost' = FALSE /\ captured' = 0 /\ loud' = {}
    /\ controls' = "locked" /\ start' = "media" /\ stop' = "none"
    /\ UNCHANGED << running, awaiting, socket, wire, server, events >>

(* The microphone or the screen is open: connect.  Events of an earlier     *)
(* socket are ignored from here on.                                         *)
MediaOpened ==
    /\ start = "media" /\ start' = "socket"
    /\ socket' = "connecting" /\ wire' = << >> /\ server' = FreshServer
    /\ UNCHANGED << running, awaiting, controls, stop, upload, sound, bounds >>

Ready ==
    /\ start = "socket" /\ start' = "started"
    /\ socket' = "open" /\ wire' = << Command("start") >>
    /\ UNCHANGED << running, awaiting, controls, stop, upload, sound, server, bounds >>

Started ==
    /\ start = "started" /\ socket = "open" /\ server.phase = "started"
    /\ start' = "graph"
    /\ UNCHANGED << running, awaiting, controls, stop, socket, upload, sound, wire,
                    server, bounds >>

(* buildCaptureGraph(); an error that arrived meanwhile has taken its audio *)
(* context away, a closed socket goes unnoticed.                            *)
GraphBuilt ==
    /\ start = "graph" /\ start' = "none" /\ running' = TRUE
    /\ UNCHANGED << awaiting, controls, stop, socket, upload, sound, wire, server, bounds >>

(* No device, no connection, a timeout, another engine than the one asked   *)
(* for, or a broken graph.                                                  *)
StartFails ==
    /\ start # "none"
    /\ \/ start # "torn" /\ events < MaxEvents /\ events' = events + 1
       \/ start = "torn" /\ UNCHANGED events
    /\ StartFailed

-------------------------------------------------------------------------------
(* Capture. *)

Capture(silent) ==
    /\ running /\ captured < MaxFrames
    /\ \E step \in {ProcessFrame(gate, captured + 1, silent)} :
       \E sent \in {FoldLeft(LAMBDA u, m : Enqueue(u, m), Upload, step.out)} :
          /\ captured' = captured + 1
          /\ loud' = IF silent THEN loud ELSE loud \cup {captured + 1}
          /\ gate' = step.gate /\ pending' = sent.pending /\ lost' = sent.lost
          /\ IF step.out = << >> THEN UNCHANGED << queue, wire >> ELSE Pump(sent.queue)
    /\ UNCHANGED << page, socket, server, bounds >>

(* A partial message lets the page pump again. *)
Partial ==
    /\ running /\ socket = "open" /\ server.phase = "started" /\ queue # << >>
    /\ Pump(queue)
    /\ UNCHANGED << page, socket, gate, pending, lost, sound, server, bounds >>

-------------------------------------------------------------------------------
(* btnStop.onclick, from one await to the next. *)

ClickStop ==
    /\ running /\ controls = "locked"
    /\ running' = FALSE /\ awaiting' = TRUE
    /\ controls' = "finishing" /\ stop' = "closing"
    /\ UNCHANGED << start, socket, upload, sound, wire, server, bounds >>

(* The pipeline is closed: flush the gate and what does not fill a chunk. *)
StopFlushes ==
    /\ stop = "closing" /\ socket = "open" /\ stop' = "draining"
    /\ \E out \in {IF captured = 0 THEN << >> ELSE FinishGate(gate, captured)} :
       \E sent \in {FoldLeft(LAMBDA v, m : Enqueue(v, m), Upload, out)} :
       \E u \in {FlushPendingToQueue(sent, TRUE)} :
           gate' = FreshGate /\ pending' = u.pending /\ lost' = u.lost /\ Pump(u.queue)
    /\ UNCHANGED << running, awaiting, controls, start, socket, sound, server, bounds >>

StopUnconnected ==
    /\ stop = "closing" /\ socket # "open" /\ stop' = "none"
    /\ awaiting' = FALSE /\ controls' = "free"
    /\ UNCHANGED << running, start, socket, upload, sound, wire, server, bounds >>

Drain ==
    /\ stop = "draining" /\ socket = "open" /\ queue # << >>
    /\ Pump(queue)
    /\ UNCHANGED << page, socket, gate, pending, lost, sound, server, bounds >>

(* Everything is sent, or the time for it is over: ask for the final. *)
SendFinish ==
    /\ stop = "draining" /\ socket = "open"
    /\ wire' = Append(wire, Command("finish")) /\ stop' = "final"
    /\ lost' = (lost \/ queue # << >>)
    /\ UNCHANGED << running, awaiting, controls, start, socket, gate, pending, queue,
                    sound, server, bounds >>

StopDisconnected ==
    /\ stop = "draining" /\ socket # "open" /\ stop' = "none"
    /\ UNCHANGED << running, awaiting, controls, start, socket, upload, sound, wire,
                    server, bounds >>

(* A slow server: go on waiting on the same socket. *)
FinalTimeout ==
    /\ stop = "final" /\ stop' = "none"
    /\ UNCHANGED << running, awaiting, controls, start, socket, upload, sound, wire,
                    server, bounds >>

-------------------------------------------------------------------------------
(* What the socket brings. *)

Final ==
    /\ socket = "open" /\ server.phase = "finished"
    /\ awaiting' = FALSE /\ controls' = "free" /\ socket' = "closing"
    /\ stop' = IF stop = "final" THEN "none" ELSE stop
    /\ UNCHANGED << running, start, upload, sound, wire, server, bounds >>

(* The promise that a message, an error or a close rejects. *)
Rejected(s) == IF s = "final" THEN "none" ELSE s

(* An error message, for a session or, before MediaOpened, from the socket  *)
(* of the last one.                                                         *)
Error ==
    /\ socket = "open" /\ start \in {"none", "media", "graph"} /\ events < MaxEvents
    /\ events' = events + 1
    /\ ResetSession
    /\ start' = IF start = "graph" THEN "torn" ELSE start
    /\ stop' = Rejected(stop) /\ socket' = "closing"
    /\ UNCHANGED << sound, wire, server, sessions >>

(* Mutant: only a running session notices that its socket is closed. *)
CloseUnnoticed ==
    IF running THEN ResetSession ELSE UNCHANGED << running, awaiting, controls, upload >>

CloseNoticed ==
    IF running \/ awaiting THEN ResetSession
    ELSE UNCHANGED << running, awaiting, controls, upload >>

(* onclose: after a close() of the page, or because the connection is lost. *)
Close ==
    /\ \/ socket = "closing" /\ UNCHANGED events
       \/ socket = "open" /\ events < MaxEvents /\ events' = events + 1
    /\ start \in {"none", "media", "graph", "torn"}
    /\ socket' = "closed" /\ wire' = << >>
    /\ stop' = Rejected(stop)
    /\ CloseNoticed
    /\ UNCHANGED << start, sound, server, sessions >>

(* send() throws: the session is over, the socket is left as it is. *)
SendFails ==
    /\ socket = "open" /\ queue # << >> /\ (running \/ stop = "draining")
    /\ events < MaxEvents /\ events' = events + 1
    /\ ResetSession
    /\ UNCHANGED << start, stop, socket, sound, wire, server, sessions >>

-------------------------------------------------------------------------------
(* The server reads its next message. *)

Less(n, k) == IF n < k THEN 0 ELSE n - k
Higher(n, k) == IF n < k THEN k ELSE n

(* Samples announced as replayed are not counted again. *)
Received(s, m) ==
    [s EXCEPT !.clock = @ + Less(Len(m.at), s.replay),
              !.replay = Less(@, Len(m.at)), !.heard = @ \o m.at]

Read(s, m) ==
    CASE m.kind = "start" -> [FreshServer EXCEPT !.phase = "started"]
      [] m.kind = "finish" -> [s EXCEPT !.phase = "finished"]
      [] m.kind = "audio" -> Received(s, m)
      [] m.kind = "silence" -> [s EXCEPT !.clock = Higher(@, m.index)]
      [] m.kind = "speech" -> [s EXCEPT !.clock = Higher(@, m.index),
                                        !.replay = Higher(@, m.replay)]

ServerReads ==
    /\ wire # << >> /\ server.phase # "finished"
    /\ server' = Read(server, Head(wire)) /\ wire' = Tail(wire)
    /\ UNCHANGED << page, socket, upload, sound, bounds >>

-------------------------------------------------------------------------------
Stopping == StopFlushes \/ StopUnconnected \/ Drain \/ SendFinish \/ StopDisconnected

Next ==
    \/ ClickStart \/ MediaOpened \/ Ready \/ Started \/ GraphBuilt \/ StartFails
    \/ \E silent \in BOOLEAN : Capture(silent)
    \/ Partial \/ ClickStop \/ Stopping \/ FinalTimeout
    \/ Final \/ Error \/ Close \/ SendFails \/ ServerReads

(* btnStop.onclick goes on: closing the pipeline ends, and so does sending. *)
Closes == stop = "closing" /\ stop' \in {"draining", "none"}
Sends  == stop = "draining" /\ stop' \in {"final", "none"}

(* The page's handlers go on, and the server answers a finish. *)
Fairness ==
    /\ WF_stop(Closes) /\ WF_stop(Sends)
    /\ WF_vars(ServerReads) /\ WF_vars(Final) /\ WF_vars(socket = "closing" /\ Close)

Spec == Init /\ [][Next]_vars

FairSpec == Spec /\ Fairness

-------------------------------------------------------------------------------
(* What makes the page correct. *)

TypeOK ==
    /\ running \in BOOLEAN /\ awaiting \in BOOLEAN
    /\ controls \in {"free", "locked", "finishing"}
    /\ start \in {"none", "media", "socket", "started", "graph", "torn"}
    /\ stop \in {"none", "closing", "draining", "final"}
    /\ socket \in {"none", "connecting", "open", "closing", "closed"}
    /\ Len(gate.preRoll) <= PreRoll /\ Len(gate.held) < SilenceGate
    /\ gate.run < SpeechStart /\ gate.unreported < Heartbeat
    /\ Len(pending) < ChunkSize
    /\ loud \subseteq 1..captured
    /\ server.phase \in {"new", "started", "finished"}

(* The speech in what was captured: runs that are long enough, and a run    *)
(* that Stop has cut off.                                                   *)
Spoken ==
    {i \in loud : \E a, b \in loud :
        /\ a <= i /\ i <= b /\ a..b \subseteq loud
        /\ b - a + 1 >= SpeechStart \/ b = captured}

Complete == server.phase = "finished" /\ ~lost

(* Each loud frame reaches the server at most once and in its place, on     *)
(* whichever way it took through gate, pre-roll, chunk and queue; and when  *)
(* nothing had to be dropped all speech has arrived before the finish.      *)
SpeechArrives ==
    LET voice == SelectSeq(server.heard, LAMBDA i : i \in loud)
    IN /\ \A i \in 1..(Len(voice) - 1) : voice[i] < voice[i + 1]
       /\ Complete => Spoken \subseteq Range(server.heard)

(* "The source cursor prevents the retained tail from advancing             *)
(* context-schedule time twice" (docs/API.md:468): the server's clock is    *)
(* never ahead of the capture, whatever was held back, sent twice or        *)
(* dropped, and it is exact in the end if nothing was dropped.              *)
ClockFollows ==
    server.phase # "new" /\ start # "media" =>
        /\ server.clock <= captured
        /\ Complete => server.clock = captured

(* However Stop goes, the page gives its controls back. *)
StopEnds == awaiting ~> ~awaiting /\ controls # "finishing"
===============================================================================
