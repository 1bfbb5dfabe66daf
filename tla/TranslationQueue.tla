---------------------------- MODULE TranslationQueue ----------------------------
(***************************************************************************)
(* From an edited source row to the translation of its current revision:   *)
(* the bounded request queue and its worker                                *)
(* (voxbridge/interpretation/translation_queue.py) with the session's      *)
(* request, check and answer steps (voxbridge/cli/demo_streaming_ws.py).   *)
(*                                                                         *)
(* Several translations run at the same time and finish in any order,      *)
(* while the consumer goes on editing rows.  A result counts only if it is *)
(* still wanted when it returns, and it is answered under                  *)
(* tts_transition_lock, where it may have become old again.                *)
(***************************************************************************)
EXTENDS Integers, Sequences, FiniteSets

CONSTANTS
    Sentences,      \* source rows
    MaxRevision,    \* bound on the revisions of one row
    QueueSize,      \* maxsize of the request queue
    Parallel,       \* parallelism: --translation-workers
    MaxClears       \* bound on set_translation_direction without a change

ASSUME QueueAssumption ==
    /\ MaxRevision \in Nat \ {0}
    /\ QueueSize \in Nat \ {0} /\ Parallel \in Nat \ {0}
    /\ MaxClears \in Nat

VARIABLES
    rev,        \* revision of the row, 0 before it is committed
    status,     \* of the row's speech entry; "waiting" for a translation
    asking,     \* rows that are registered, the request still to come
    latest,     \* latest_by_sentence: the wanted revision, 0 for none
    queue,      \* runtime.queue, of requests
    running,    \* runtime.task is not done
    held,       \* the request the worker has taken, at most one
    active,     \* translations in progress
    answers,    \* answers that wait for tts_transition_lock
    text,       \* history: revision of the text mark_ready stored
    clears      \* clears so far

vars == << rev, status, asking, latest, queue, running, held, active, answers,
           text, clears >>

Revisions == 1..MaxRevision

(* "now" requests do not pass the queue: _translate_sentence_now awaits. *)
Request == [sid : Sentences, rev : Revisions, via : {"queue", "now"}]

(* An answer comes from its translation, or from a task of its own for a    *)
(* request that was pushed out of the queue ("drop").                       *)
Answer == [sid : Sentences, rev : Revisions, via : {"queue", "now", "drop"},
           result : {"ready", "failed"}]

Init ==
    /\ rev = [s \in Sentences |-> 0]
    /\ status = [s \in Sentences |-> "none"]
    /\ asking = {}
    /\ latest = [s \in Sentences |-> 0]
    /\ queue = << >> /\ running = FALSE /\ held = {}
    /\ active = {} /\ answers = {}
    /\ text = [s \in Sentences |-> 0]
    /\ clears = 0

-------------------------------------------------------------------------------
(* The consumer edits one row at a time, and waits for a "now" translation. *)
ConsumerFree ==
    asking = {} /\ \A r \in active \cup answers : r.via # "now"

(* A new row or a new revision is registered.  A spoken row keeps its       *)
(* entry (late_after_release).                                              *)
Register(s) ==
    /\ ConsumerFree
    /\ rev[s] < MaxRevision /\ status[s] # "superseded"
    /\ rev' = [rev EXCEPT ![s] = @ + 1]
    /\ status' = [status EXCEPT ![s] = IF @ = "spoken" THEN @ ELSE "waiting"]
    /\ asking' = {s}
    /\ UNCHANGED << latest, queue, running, held, active, answers, text, clears >>

(* _reconcile_unpublished_source_rows: one row absorbs others, whose        *)
(* requests stop being wanted.                                              *)
Absorb(s, rows) ==
    /\ ConsumerFree
    /\ rows # {} /\ s \notin rows /\ rev[s] < MaxRevision
    /\ \A t \in rows \cup {s} : status[t] \in {"waiting", "ready"}
    /\ rev' = [rev EXCEPT ![s] = @ + 1]
    /\ status' = [t \in Sentences |-> IF t \in rows THEN "superseded"
                                      ELSE IF t = s THEN "waiting" ELSE status[t]]
    /\ latest' = [t \in Sentences |-> IF t \in rows THEN 0
                                      ELSE IF t = s THEN rev[s] + 1 ELSE latest[t]]
    /\ asking' = {s}
    /\ UNCHANGED << queue, running, held, active, answers, text, clears >>

(* A full queue loses its oldest request, which is answered as failed. *)
Full == Len(queue) = QueueSize

Kept == IF Full THEN Tail(queue) ELSE queue

PushedOut ==
    IF Full THEN {[sid |-> Head(queue).sid, rev |-> Head(queue).rev,
                   via |-> "drop", result |-> "failed"]}
    ELSE {}

(* _request_sentence_translation; a worker is started if there is none. *)
Ask(s) ==
    /\ s \in asking
    /\ asking' = asking \ {s}
    /\ latest' = [latest EXCEPT ![s] = rev[s]]
    /\ queue' = Append(Kept, [sid |-> s, rev |-> rev[s], via |-> "queue"])
    /\ answers' = answers \cup PushedOut
    /\ running' = TRUE
    /\ UNCHANGED << rev, status, held, active, text, clears >>

(* _translate_sentence_now, while the capture is finished. *)
AskNow(s) ==
    /\ s \in asking
    /\ asking' = asking \ {s}
    /\ latest' = [latest EXCEPT ![s] = rev[s]]
    /\ active' = active \cup {[sid |-> s, rev |-> rev[s], via |-> "now"]}
    /\ UNCHANGED << rev, status, queue, running, held, answers, text, clears >>

-------------------------------------------------------------------------------
(* The worker. *)

Take ==
    /\ running /\ held = {} /\ queue # << >>
    /\ held' = {Head(queue)} /\ queue' = Tail(queue)
    /\ UNCHANGED << rev, status, asking, latest, running, active, answers, text,
                    clears >>

Working == Cardinality({r \in active : r.via = "queue"})
           + Cardinality({a \in answers : a.via = "queue"})

(* _current_translation_item: nobody edited, absorbed or cleared the row. *)
Wanted(r) == /\ rev[r.sid] = r.rev /\ latest[r.sid] = r.rev
             /\ status[r.sid] # "superseded"

(* A slot is free: the translation starts, unless it is unwanted already. *)
Start ==
    /\ Working < Parallel
    /\ \E r \in held : active' = IF Wanted(r) THEN active \cup {r} ELSE active
    /\ held' = {}
    /\ UNCHANGED << rev, status, asking, latest, queue, running, answers, text,
                    clears >>

(* A translation returns, perhaps without a text. *)
Return(r, result) ==
    /\ r \in active
    /\ active' = active \ {r}
    /\ answers' = IF Wanted(r)
                  THEN answers \cup {[sid |-> r.sid, rev |-> r.rev, via |-> r.via,
                                      result |-> result]}
                  ELSE answers
    /\ UNCHANGED << rev, status, asking, latest, queue, running, held, text, clears >>

(* Mutant: the answer of any revision is taken. *)
TakesAny(a) == status[a.sid] \in {"waiting", "ready", "failed"}

(* Only the current revision takes the answer, while it is not spoken. *)
Takes(a) == rev[a.sid] = a.rev /\ status[a.sid] \in {"waiting", "ready", "failed"}

(* _mark_tts_translation_ready and _mark_tts_translation_failed. *)
Deliver(a) ==
    /\ a \in answers
    /\ answers' = answers \ {a}
    /\ IF Takes(a)
       THEN /\ status' = [status EXCEPT ![a.sid] = a.result]
            /\ text' = IF a.result = "ready" THEN [text EXCEPT ![a.sid] = a.rev] ELSE text
       ELSE UNCHANGED << status, text >>
    /\ UNCHANGED << rev, asking, latest, queue, running, held, active, clears >>

(* Mutant: the worker stops although a request has come in meanwhile. *)
StopUnseen ==
    /\ running /\ held = {} /\ Working = 0
    /\ running' = FALSE
    /\ UNCHANGED << rev, status, asking, latest, queue, held, active, answers, text,
                    clears >>

(* The worker stops after a while without requests and translations. *)
Stop ==
    /\ running /\ queue = << >> /\ held = {} /\ Working = 0
    /\ running' = FALSE
    /\ UNCHANGED << rev, status, asking, latest, queue, held, active, answers, text,
                    clears >>

-------------------------------------------------------------------------------
(* The session speaks a row that is ready. *)
Speak(s) ==
    /\ status[s] = "ready"
    /\ status' = [status EXCEPT ![s] = "spoken"]
    /\ UNCHANGED << rev, asking, latest, queue, running, held, active, answers, text,
                    clears >>

(* _set_translation_direction with the direction that is set already: the   *)
(* worker is cancelled and every pending request is cleared; the order of   *)
(* speech is reset only for another direction.                              *)
SetSameDirection ==
    /\ clears < MaxClears
    /\ clears' = clears + 1
    /\ running' = FALSE /\ queue' = << >> /\ held' = {}
    /\ active' = {r \in active : r.via = "now"}
    /\ answers' = {a \in answers : a.via # "queue"}
    /\ latest' = [s \in Sentences |-> 0]
    /\ UNCHANGED << rev, status, asking, text >>

-------------------------------------------------------------------------------
Worker == Take \/ Start \/ Stop

Results ==
    \/ \E r \in active, result \in {"ready", "failed"} : Return(r, result)
    \/ \E a \in answers : Deliver(a)

Next ==
    \/ \E s \in Sentences : Register(s) \/ Ask(s) \/ AskNow(s) \/ Speak(s)
    \/ \E s \in Sentences, rows \in SUBSET Sentences : Absorb(s, rows)
    \/ Worker \/ Results \/ SetSameDirection

Spec == Init /\ [][Next]_vars

(* Tasks run, each translation returns, the lock is fair, and the consumer  *)
(* finishes what it has begun.                                              *)
Fairness ==
    /\ WF_vars(Take \/ Start)
    /\ \A s \in Sentences : WF_vars(Ask(s) \/ AskNow(s))
    /\ \A r \in Request : WF_vars(\E result \in {"ready", "failed"} : Return(r, result))
    /\ \A a \in Answer : WF_vars(Deliver(a))

FairSpec == Spec /\ Fairness

-------------------------------------------------------------------------------
(* What makes the queue correct. *)

TypeOK ==
    /\ rev \in [Sentences -> 0..MaxRevision]
    /\ status \in [Sentences -> {"none", "waiting", "ready", "failed", "superseded",
                                 "spoken"}]
    /\ asking \in SUBSET Sentences
    /\ latest \in [Sentences -> 0..MaxRevision]
    /\ queue \in Seq(Request) /\ Len(queue) <= QueueSize
    /\ running \in BOOLEAN
    /\ held \in SUBSET Request /\ \A p, q \in held : p = q
    /\ active \in SUBSET Request /\ answers \in SUBSET Answer
    /\ text \in [Sentences -> 0..MaxRevision]
    /\ clears \in 0..MaxClears

InQueue(s)  == \E i \in 1..Len(queue) : queue[i].sid = s /\ queue[i].rev = rev[s]
InFlight(s) == \E r \in held \cup active \cup answers : r.sid = s /\ r.rev = rev[s]

(* The translation of a current revision is always on its way: whatever is  *)
(* dropped, superseded or overtaken, a row that waits will be answered, and *)
(* so it will not block the rows behind it.                                 *)
WaitingIsOnItsWay ==
    \A s \in Sentences :
        status[s] = "waiting" => s \in asking \/ InQueue(s) \/ InFlight(s)

(* What is spoken or ready to be spoken is the text of that revision, never *)
(* of one that was translated earlier or returned later.                    *)
ReadyIsCurrent == \A s \in Sentences : status[s] = "ready" => text[s] = rev[s]

(* Every wait for a translation ends.  This includes that a queued request  *)
(* has a worker: its exit and the check for it cannot miss each other.      *)
WaitingEnds ==
    \A s \in Sentences, r \in Revisions :
        status[s] = "waiting" /\ rev[s] = r /\ clears = 0
            ~> ~(status[s] = "waiting" /\ rev[s] = r /\ clears = 0)
===============================================================================
