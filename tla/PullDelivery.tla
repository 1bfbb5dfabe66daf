------------------------------ MODULE PullDelivery ------------------------------
(***************************************************************************)
(* Translated speech for listeners who fetch it: the broadcast hub with    *)
(* its listener sockets and audio requests (voxbridge/tts/broadcast.py),   *)
(* and the older registry of one client's jobs (TTSJobRegistry of          *)
(* voxbridge/tts/jobs.py).  Requests for the audio of either share one     *)
(* synthesis lock (voxbridge/cli/demo_streaming_ws.py, 2417-2615).         *)
(*                                                                         *)
(* Jobs are numbered in the order of their creation, and may expire at any *)
(* moment.  Listener ids are fresh: a listener connects once.              *)
(***************************************************************************)
EXTENDS Integers, Sequences, FiniteSets, SequencesExt, Functions

CONSTANTS
    Listeners,      \* listener sockets
    Clients,        \* owner/client pairs of the registry
    Requests,       \* audio requests that can be open at once
    MaxJobs,        \* max_jobs of the hub
    QueueSize,      \* listener_queue_size
    MaxClientJobs,  \* max_client_jobs of the registry
    TotalJobs,      \* bound on jobs
    MaxSwitches     \* bound on changes of producer_active

ASSUME PullAssumption ==
    /\ IsFiniteSet(Listeners) /\ IsFiniteSet(Clients) /\ IsFiniteSet(Requests)
    /\ MaxJobs \in Nat \ {0} /\ QueueSize \in Nat \ {0} /\ MaxClientJobs \in Nat \ {0}
    /\ TotalJobs \in Nat /\ MaxSwitches \in Nat

VARIABLES
    issued,     \* number of jobs created
    expired,    \* jobs whose expires_at has passed
    jobs,       \* _jobs of the hub
    private,    \* _jobs of the registry
    conn,       \* conn[l]: "new", "open" (registered), "overflowed" or "gone"
    queue,      \* queue[l]: events that wait to be sent
    sent,       \* sent[l]: events sent
    joined,     \* history: events published before l registered
    published,  \* history: events published
    acked,      \* history: << l, j >>, acknowledged
    switches,   \* changes of producer_active
    requests,   \* requests[r]: where an audio request is, and for which job
    made        \* history: made[j], how often j was synthesized

hub     == << jobs, conn, queue, sent, joined, published, acked, switches >>
serving == << requests, made >>

vars == << issued, expired, private, hub, serving >>

Idle == [at |-> "idle", of |-> "hub", job |-> 0]

Init ==
    /\ issued = 0 /\ expired = {} /\ jobs = << >> /\ private = << >>
    /\ conn = [l \in Listeners |-> "new"]
    /\ queue = [l \in Listeners |-> << >>] /\ sent = [l \in Listeners |-> << >>]
    /\ joined = [l \in Listeners |-> 0] /\ published = << >> /\ acked = {}
    /\ switches = 0
    /\ requests = [r \in Requests |-> Idle] /\ made = [j \in 1..TotalJobs |-> 0]

Registered == {l \in Listeners : conn[l] = "open"}

-------------------------------------------------------------------------------
(* What the hub retains. *)

(* Mutant: an expired job goes although a request still holds it. *)
PrunedInFlight(J) == Restrict(J, DOMAIN J \ expired)

Pruned(J) == Restrict(J, {j \in DOMAIN J : j \notin expired \/ J[j].inFlight > 0})

(* _cleanup_job_locked: nobody holds the job and nobody will ask for it. *)
Done(J, j) == J[j].inFlight = 0 /\ (J[j].pending = {} \/ j \in expired)

CleanedUp(J, S) == Restrict(J, {j \in DOMAIN J : j \notin S \/ ~Done(J, j)})

WithoutListeners(J, gone) == [j \in DOMAIN J |-> [J[j] EXCEPT !.pending = @ \ gone]]

(* Mutant: the jobs of a listener who leaves are not cleaned up. *)
UnregisteredOnly(J, gone) == WithoutListeners(J, gone)

Unregistered(J, gone) ==
    IF gone = {} THEN J ELSE CleanedUp(WithoutListeners(J, gone), DOMAIN J)

Overflows == {l \in Registered : Len(queue[l]) >= QueueSize}

(* Mutant: an event for which one queue has no room reaches nobody. *)
DeliveredToAll(e) ==
    [l \in Listeners |-> IF l \in Registered /\ Overflows = {} THEN Append(queue[l], e)
                         ELSE queue[l]]

Delivered(e) ==
    [l \in Listeners |-> IF l \in Registered \ Overflows THEN Append(queue[l], e)
                         ELSE queue[l]]

(* An event for all listeners; those with a full queue are unregistered. *)
Broadcast(e) ==
    /\ queue' = Delivered(e)
    /\ conn' = [l \in Listeners |-> IF l \in Overflows THEN "overflowed" ELSE conn[l]]
    /\ published' = Append(published, e)

-------------------------------------------------------------------------------
(* Listener sockets. *)

Register(l) ==
    /\ conn[l] = "new" /\ conn' = [conn EXCEPT ![l] = "open"]
    /\ joined' = [joined EXCEPT ![l] = Len(published)]
    /\ jobs' = Pruned(jobs)
    /\ UNCHANGED << issued, expired, private, queue, sent, published, acked, switches,
                    serving >>

(* _send_listener_events. *)
Send(l) ==
    /\ conn[l] = "open" /\ queue[l] # << >>
    /\ sent' = [sent EXCEPT ![l] = Append(@, Head(queue[l]))]
    /\ queue' = [queue EXCEPT ![l] = Tail(@)]
    /\ UNCHANGED << issued, expired, private, jobs, conn, joined, published, acked,
                    switches, serving >>

Acknowledge(l, j) ==
    /\ conn[l] = "open" /\ j \in Range(sent[l])
    /\ j \in DOMAIN Pruned(jobs) /\ l \in jobs[j].pending
    /\ jobs' = CleanedUp([Pruned(jobs) EXCEPT ![j].pending = @ \ {l}], {j})
    /\ acked' = acked \cup {<< l, j >>}
    /\ UNCHANGED << issued, expired, private, conn, queue, sent, joined, published,
                    switches, serving >>

(* The socket closes: the listener does it, or the overflow. *)
Disconnect(l) ==
    /\ conn[l] \in {"open", "overflowed"} /\ conn' = [conn EXCEPT ![l] = "gone"]
    /\ jobs' = Unregistered(jobs, {l} \cap Registered)
    /\ UNCHANGED << issued, expired, private, queue, sent, joined, published, acked,
                    switches, serving >>

-------------------------------------------------------------------------------
(* The session publishes. *)

SetProducerActive ==
    /\ switches < MaxSwitches /\ switches' = switches + 1
    /\ Broadcast(-switches)
    /\ jobs' = Unregistered(jobs, Overflows)
    /\ UNCHANGED << issued, expired, private, sent, joined, acked, serving >>

(* A hub that is full refuses the job for every listener. *)
Publish ==
    /\ issued < TotalJobs /\ issued' = issued + 1
    /\ Registered # {} /\ Cardinality(DOMAIN Pruned(jobs)) < MaxJobs
    /\ LET j == issued + 1
           new == [pending |-> Registered, inFlight |-> 0, audio |-> FALSE]
           all == [i \in DOMAIN Pruned(jobs) \cup {j} |-> IF i = j THEN new ELSE jobs[i]]
       IN Broadcast(j) /\ jobs' = Unregistered(all, Overflows)
    /\ UNCHANGED << expired, private, sent, joined, acked, switches, serving >>

(* prune(), job_count, or an operation that finds nothing. *)
Prune ==
    /\ Pruned(jobs) # jobs /\ jobs' = Pruned(jobs)
    /\ UNCHANGED << issued, expired, private, conn, queue, sent, joined, published, acked,
                    switches, serving >>

Expire(j) ==
    /\ j \in DOMAIN jobs \cup DOMAIN private /\ j \notin expired
    /\ expired' = expired \cup {j}
    /\ UNCHANGED << issued, private, hub, serving >>

-------------------------------------------------------------------------------
(* The registry; every operation prunes it. *)

Live == Restrict(private, DOMAIN private \ expired)

Create(c) ==
    /\ issued < TotalJobs /\ issued' = issued + 1
    /\ Cardinality({j \in DOMAIN Live : Live[j].client = c}) < MaxClientJobs
    /\ private' = [j \in DOMAIN Live \cup {issued + 1} |->
                     IF j = issued + 1 THEN [client |-> c, audio |-> FALSE] ELSE Live[j]]
    /\ UNCHANGED << expired, hub, serving >>

Delete(j) ==
    /\ j \in DOMAIN Live /\ private' = Restrict(Live, DOMAIN Live \ {j})
    /\ UNCHANGED << issued, expired, hub, serving >>

CancelClient(c) ==
    /\ \E j \in DOMAIN Live : Live[j].client = c
    /\ private' = Restrict(Live, {j \in DOMAIN Live : Live[j].client # c})
    /\ UNCHANGED << issued, expired, hub, serving >>

(* Mutant: the audio is stored without looking the job up. *)
WithAudioAnyway(P, j) ==
    [i \in DOMAIN P \cup {j} |->
        IF i \in DOMAIN P THEN [P[i] EXCEPT !.audio = @ \/ i = j]
        ELSE [client |-> CHOOSE c \in Clients : TRUE, audio |-> TRUE]]

WithAudio(P, j) == IF j \in DOMAIN P THEN [P EXCEPT ![j].audio = TRUE] ELSE P

-------------------------------------------------------------------------------
(* Audio requests, from one await to the next. *)

Claim(r, l, j) ==
    /\ requests[r].at = "idle"
    /\ conn[l] = "open" /\ j \in DOMAIN jobs \ expired /\ l \in jobs[j].pending
    /\ jobs' = [Pruned(jobs) EXCEPT ![j].inFlight = @ + 1]
    /\ requests' = [requests EXCEPT ![r] = [at |-> "waiting", of |-> "hub", job |-> j]]
    /\ UNCHANGED << issued, expired, private, conn, queue, sent, joined, published, acked,
                    switches, made >>

Get(r, j) ==
    /\ requests[r].at = "idle" /\ j \in DOMAIN Live /\ private' = Live
    /\ requests' = [requests EXCEPT ![r] = [at |-> "waiting", of |-> "registry", job |-> j]]
    /\ UNCHANGED << issued, expired, hub, made >>

LockFree == \A r \in Requests : requests[r].at # "synthesizing"

(* release_audio. *)
Released(J, j) ==
    IF j \in DOMAIN J THEN CleanedUp([J EXCEPT ![j].inFlight = @ - 1], {j}) ELSE J

(* The request is answered, with its audio or an error. *)
Answered(r) ==
    /\ requests' = [requests EXCEPT ![r] = Idle]
    /\ UNCHANGED << issued, expired, conn, queue, sent, joined, published, acked, switches >>

Found(r) ==
    LET j == requests[r].job
    IN IF requests[r].of = "hub" THEN j \in DOMAIN jobs ELSE j \in DOMAIN Live

(* Mutant: what another request stored meanwhile is not looked at. *)
NoAudioSeen(r) == TRUE

(* claimed_job() and get() are asked again under the lock. *)
NoAudio(r) ==
    LET j == requests[r].job
    IN IF requests[r].of = "hub" THEN ~jobs[j].audio ELSE ~Live[j].audio

StartSynthesis(r) ==
    /\ requests[r].at = "waiting" /\ LockFree /\ Found(r) /\ NoAudio(r)
    /\ requests' = [requests EXCEPT ![r].at = "synthesizing"]
    /\ UNCHANGED << issued, expired, private, hub, made >>

(* The audio is there already, or the job has gone. *)
AnswerAtOnce(r) ==
    /\ requests[r].at = "waiting" /\ LockFree /\ (Found(r) => ~NoAudio(r))
    /\ jobs' = IF requests[r].of = "hub" THEN Released(jobs, requests[r].job) ELSE jobs
    /\ Answered(r) /\ UNCHANGED << private, made >>

Synthesized(r) ==
    /\ requests[r].at = "synthesizing"
    /\ LET j == requests[r].job
       IN /\ made' = [made EXCEPT ![j] = @ + 1]
          /\ IF requests[r].of = "hub"
             THEN /\ jobs' = Released(WithAudio(jobs, j), j)
                  /\ UNCHANGED private
             ELSE private' = WithAudio(Live, j) /\ UNCHANGED jobs
    /\ Answered(r)

SynthesisFails(r) ==
    /\ requests[r].at = "synthesizing"
    /\ jobs' = IF requests[r].of = "hub" THEN Released(jobs, requests[r].job) ELSE jobs
    /\ Answered(r) /\ UNCHANGED << private, made >>

-------------------------------------------------------------------------------
Next ==
    \/ \E l \in Listeners : Register(l) \/ Send(l) \/ Disconnect(l)
    \/ \E l \in Listeners, j \in 1..TotalJobs : Acknowledge(l, j)
    \/ SetProducerActive \/ Publish \/ Prune
    \/ \E j \in 1..TotalJobs : Expire(j) \/ Delete(j)
    \/ \E c \in Clients : Create(c) \/ CancelClient(c)
    \/ \E r \in Requests, l \in Listeners, j \in 1..TotalJobs : Claim(r, l, j)
    \/ \E r \in Requests, j \in 1..TotalJobs : Get(r, j)
    \/ \E r \in Requests :
         StartSynthesis(r) \/ AnswerAtOnce(r) \/ Synthesized(r) \/ SynthesisFails(r)

Spec == Init /\ [][Next]_vars

-------------------------------------------------------------------------------
(* What makes it correct. *)

TypeOK ==
    /\ issued \in 0..TotalJobs /\ expired \subseteq 1..issued
    /\ DOMAIN jobs \subseteq 1..issued /\ DOMAIN private \subseteq 1..issued
    /\ DOMAIN jobs \cap DOMAIN private = {} /\ Cardinality(DOMAIN jobs) <= MaxJobs
    /\ \A l \in Listeners : Len(queue[l]) <= QueueSize
    /\ conn \in [Listeners -> {"new", "open", "overflowed", "gone"}]
    /\ \A r \in Requests : requests[r].at \in {"idle", "waiting", "synthesizing"}

(* A request that has claimed a job finds it until it is answered, although *)
(* the job may expire, be acknowledged or lose its listeners meanwhile.     *)
ClaimIsHonoured ==
    LET Holding(j) == {r \in Requests : /\ requests[r].at # "idle"
                                        /\ requests[r].of = "hub" /\ requests[r].job = j}
    IN \A j \in 1..TotalJobs :
         Cardinality(Holding(j)) = IF j \in DOMAIN jobs THEN jobs[j].inFlight ELSE 0

(* A job is retained for a reason, so that the hub does not fill up: a      *)
(* listener who is still registered has not acknowledged it, or a request   *)
(* holds it.                                                                *)
NoOrphan ==
    \A j \in DOMAIN jobs :
        /\ jobs[j].pending \subseteq Registered
        /\ jobs[j].pending # {} \/ jobs[j].inFlight > 0

Owed(l) == SubSeq(published, joined[l] + 1, Len(published))

(* A registered listener gets every event since it registered, in order, no *)
(* matter how slow the others are ("Queue overflow disconnects only the     *)
(* slow listener", docs/API.md:371), and can fetch its jobs until it has    *)
(* acknowledged them or they expire.                                        *)
EveryListenerHears ==
    \A l \in Registered :
        /\ sent[l] \o queue[l] = Owed(l)
        /\ \A j \in Range(Owed(l)) \cap (1..TotalJobs) :
             << l, j >> \notin acked /\ j \notin expired =>
                 j \in DOMAIN jobs /\ l \in jobs[j].pending

(* "Kokoro synthesis is globally serialized on CPU and cached once per      *)
(* stable translation" (docs/API.md:294).                                   *)
OncePerJob == \A j \in 1..TotalJobs : made[j] <= 1

(* A job that was acknowledged, cancelled or has expired does not come back *)
(* when a synthesis that was under way ends.                                *)
GoneStaysGone ==
    [][\A j \in 1..issued :
        j \notin DOMAIN jobs \cup DOMAIN private =>
            j \notin DOMAIN jobs' \cup DOMAIN private']_vars
===============================================================================
