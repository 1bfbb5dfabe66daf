-------------------------- MODULE PullDeliveryProofs --------------------------
(***************************************************************************)
(* Theorems about PullDelivery, for any number of listeners, clients, open *)
(* requests and jobs, and any limits.                                      *)
(***************************************************************************)
EXTENDS PullDelivery, FiniteSetTheorems, SequenceTheorems, TLAPS

HubJob      == [pending : SUBSET Listeners, inFlight : Nat, audio : BOOLEAN]
RegistryJob == [client : Clients, audio : BOOLEAN]
Request     == [at : {"idle", "waiting", "synthesizing"}, of : {"hub", "registry"},
                job : 0..TotalJobs]

(* The types, and which jobs there can be. *)
Kinds ==
    /\ issued \in 0..TotalJobs
    /\ jobs \in [DOMAIN jobs -> HubJob] /\ DOMAIN jobs \subseteq 1..issued
    /\ private \in [DOMAIN private -> RegistryJob] /\ DOMAIN private \subseteq 1..issued
    /\ DOMAIN jobs \cap DOMAIN private = {}
    /\ conn \in [Listeners -> {"new", "open", "overflowed", "gone"}]
    /\ requests \in [Requests -> Request]
    /\ \A r \in Requests : requests[r].at # "idle" =>
         /\ requests[r].job \in 1..issued
         /\ requests[r].of = "registry" => requests[r].job \notin DOMAIN jobs
    /\ made \in [1..TotalJobs -> Nat]

-------------------------------------------------------------------------------
(* What the hub's operations keep: K has some of the jobs of J, unchanged   *)
(* but for listeners they no longer wait for, and a job that K has not is   *)
(* held by no request.                                                      *)
Keeps(J, K) ==
    /\ K \in [DOMAIN K -> HubJob] /\ DOMAIN K \subseteq DOMAIN J
    /\ \A j \in DOMAIN K : /\ K[j].inFlight = J[j].inFlight /\ K[j].audio = J[j].audio
                           /\ K[j].pending \subseteq J[j].pending
    /\ \A j \in DOMAIN J \ DOMAIN K : J[j].inFlight = 0

Wanted(J) == \A j \in DOMAIN J : J[j].pending # {} \/ J[j].inFlight > 0

LEMMA KeepsChain ==
    ASSUME NEW J, NEW K, NEW M, Keeps(J, K), Keeps(K, M)
    PROVE  Keeps(J, M)
<1>1. /\ M \in [DOMAIN M -> HubJob] /\ DOMAIN M \subseteq DOMAIN J
      /\ \A j \in DOMAIN M : /\ M[j].inFlight = J[j].inFlight /\ M[j].audio = J[j].audio
                             /\ M[j].pending \subseteq J[j].pending
  BY DEF Keeps
<1>2. ASSUME NEW j \in DOMAIN J \ DOMAIN M PROVE J[j].inFlight = 0
  <2>1. CASE j \in DOMAIN K
    BY <1>2, <2>1 DEF Keeps
  <2>2. CASE j \notin DOMAIN K
    BY <1>2, <2>2 DEF Keeps
  <2> QED BY <2>1, <2>2
<1> QED BY <1>1, <1>2 DEF Keeps

LEMMA PrunedKeeps ==
    ASSUME NEW J, J \in [DOMAIN J -> HubJob]
    PROVE  /\ Keeps(J, Pruned(J))
           /\ \A j \in DOMAIN Pruned(J) : Pruned(J)[j] = J[j]
           /\ DOMAIN J \ expired \subseteq DOMAIN Pruned(J)
<1> DEFINE S == {j \in DOMAIN J : j \notin expired \/ J[j].inFlight > 0}
<1>1. Pruned(J) = [j \in S |-> J[j]]
  BY DEF Pruned, Restrict
<1>2. \A j \in DOMAIN J : J[j] \in HubJob /\ J[j].inFlight \in Nat
  BY DEF HubJob
<1> QED BY <1>1, <1>2 DEF Keeps

LEMMA CleanedUpKeeps ==
    ASSUME NEW J, J \in [DOMAIN J -> HubJob], NEW T
    PROVE  /\ Keeps(J, CleanedUp(J, T))
           /\ \A j \in DOMAIN CleanedUp(J, T) :
                CleanedUp(J, T)[j] = J[j] /\ (j \in T => ~Done(J, j))
<1> DEFINE S == {j \in DOMAIN J : j \notin T \/ ~Done(J, j)}
<1>1. CleanedUp(J, T) = [j \in S |-> J[j]]
  BY DEF CleanedUp, Restrict
<1>2. \A j \in DOMAIN J : J[j] \in HubJob /\ J[j].inFlight \in Nat
  BY DEF HubJob
<1>3. \A j \in DOMAIN J \ S : J[j].inFlight = 0
  BY DEF Done
<1> QED BY <1>1, <1>2, <1>3 DEF Keeps

LEMMA WithoutListenersKeeps ==
    ASSUME NEW J, J \in [DOMAIN J -> HubJob], NEW gone
    PROVE  /\ Keeps(J, WithoutListeners(J, gone))
           /\ DOMAIN WithoutListeners(J, gone) = DOMAIN J
           /\ \A j \in DOMAIN J : WithoutListeners(J, gone)[j].pending = J[j].pending \ gone
<1> DEFINE W == WithoutListeners(J, gone)
<1>1. W = [j \in DOMAIN J |-> [J[j] EXCEPT !.pending = J[j].pending \ gone]]
  BY DEF WithoutListeners
<1>2. ASSUME NEW j \in DOMAIN J
      PROVE  /\ W[j] \in HubJob /\ W[j].pending = J[j].pending \ gone
             /\ W[j].inFlight = J[j].inFlight /\ W[j].audio = J[j].audio
  <2>1. J[j] \in HubJob
    OBVIOUS
  <2>2. W[j] = [J[j] EXCEPT !.pending = J[j].pending \ gone]
    BY <1>1
  <2> QED BY <2>1, <2>2 DEF HubJob
<1>3. W \in [DOMAIN J -> HubJob]
  BY <1>1, <1>2
<1> QED BY <1>1, <1>2, <1>3 DEF Keeps

LEMMA UnregisteredKeeps ==
    ASSUME NEW J, J \in [DOMAIN J -> HubJob], NEW gone
    PROVE  /\ Keeps(J, Unregistered(J, gone))
           /\ \A j \in DOMAIN Unregistered(J, gone) :
                Unregistered(J, gone)[j].pending \cap gone = {}
           /\ Wanted(J) => Wanted(Unregistered(J, gone))
<1>1. CASE gone = {}
  <2>1. Unregistered(J, gone) = J
    BY <1>1 DEF Unregistered
  <2>2. Keeps(J, J)
    BY DEF Keeps
  <2> QED BY <1>1, <2>1, <2>2
<1>2. CASE gone # {}
  <2> DEFINE W == WithoutListeners(J, gone)
             U == CleanedUp(W, DOMAIN J)
  <2>1. Unregistered(J, gone) = U
    BY <1>2 DEF Unregistered
  <2>2. /\ Keeps(J, W) /\ DOMAIN W = DOMAIN J
        /\ \A j \in DOMAIN J : W[j].pending = J[j].pending \ gone
    BY WithoutListenersKeeps
  <2>3. W \in [DOMAIN W -> HubJob]
    BY <2>2 DEF Keeps
  <2> HIDE DEF W
  <2>4. /\ Keeps(W, U)
        /\ \A j \in DOMAIN U : U[j] = W[j] /\ (j \in DOMAIN J => ~Done(W, j))
    BY <2>3, CleanedUpKeeps
  <2> HIDE DEF U
  <2>5. Keeps(J, U)
    BY <2>2, <2>4 DEF Keeps
  <2>6. \A j \in DOMAIN U : U[j].pending \cap gone = {}
    BY <2>2, <2>4 DEF Keeps
  <2>7. \A j \in DOMAIN U : W[j].inFlight \in Nat
    BY <2>3, <2>4 DEF Keeps, HubJob
  <2>8. Wanted(U)
    BY <2>2, <2>4, <2>7 DEF Keeps, Wanted, Done
  <2> QED BY <2>1, <2>5, <2>6, <2>8
<1> QED BY <1>1, <1>2

(* release_audio gives up one claim, and with the last one a job that       *)
(* nobody wants.                                                            *)
LEMMA ReleasedKeeps ==
    ASSUME NEW J, J \in [DOMAIN J -> HubJob], NEW j \in DOMAIN J, J[j].inFlight > 0
    PROVE  LET L == [J EXCEPT ![j].inFlight = @ - 1]
           IN  /\ L \in [DOMAIN J -> HubJob]
               /\ L[j].inFlight = J[j].inFlight - 1 /\ L[j].pending = J[j].pending
               /\ L[j].audio = J[j].audio
               /\ \A i \in DOMAIN J \ {j} : L[i] = J[i]
               /\ Keeps(L, Released(J, j))
               /\ Wanted(J) => Wanted(Released(J, j))
<1> DEFINE L == [J EXCEPT ![j].inFlight = @ - 1]
<1>1. J[j] \in HubJob /\ J[j].inFlight - 1 \in Nat
  BY DEF HubJob
<1>2. /\ L[j] \in HubJob /\ L[j].inFlight = J[j].inFlight - 1
      /\ L[j].pending = J[j].pending /\ L[j].audio = J[j].audio
  <2>1. L[j] = [J[j] EXCEPT !.inFlight = J[j].inFlight - 1]
    OBVIOUS
  <2> QED BY <1>1, <2>1 DEF HubJob
<1>3. DOMAIN L = DOMAIN J /\ \A i \in DOMAIN J \ {j} : L[i] = J[i]
  OBVIOUS
<1>4. L \in [DOMAIN J -> HubJob]
  BY <1>2, <1>3
<1>5. Released(J, j) = CleanedUp(L, {j})
  BY DEF Released
<1> HIDE DEF L
<1>6. /\ Keeps(L, CleanedUp(L, {j}))
      /\ \A i \in DOMAIN CleanedUp(L, {j}) :
           CleanedUp(L, {j})[i] = L[i] /\ (i \in {j} => ~Done(L, i))
  BY <1>3, <1>4, CleanedUpKeeps
<1>7. Wanted(J) => Wanted(CleanedUp(L, {j}))
  <2> SUFFICES ASSUME Wanted(J), NEW i \in DOMAIN CleanedUp(L, {j})
               PROVE  L[i].pending # {} \/ L[i].inFlight > 0
    BY <1>6 DEF Wanted
  <2>1. CASE i = j
    <3>1. L[j].inFlight \in Nat /\ ~Done(L, j)
      BY <1>2, <1>6, <2>1 DEF HubJob
    <3> QED BY <2>1, <3>1 DEF Done
  <2>2. CASE i # j
    BY <1>3, <1>6, <2>2 DEF Keeps, Wanted
  <2> QED BY <2>1, <2>2
<1> QED BY <1>2, <1>3, <1>4, <1>5, <1>6, <1>7 DEF L

-------------------------------------------------------------------------------
(* The steps, by what they do to the hub's jobs. *)

(* The hub loses jobs that nobody holds, or listeners of its jobs. *)
Loses ==
    \/ \E l \in Listeners : Register(l) \/ Disconnect(l)
    \/ \E l \in Listeners, j \in 1..TotalJobs : Acknowledge(l, j)
    \/ SetProducerActive \/ Prune

(* The hub and the requests stay as they are. *)
Elsewhere ==
    \/ \E l \in Listeners : Send(l)
    \/ \E j \in 1..TotalJobs : Expire(j) \/ Delete(j)
    \/ \E c \in Clients : Create(c) \/ CancelClient(c)
    \/ UNCHANGED vars

(* A request that was waiting or synthesizing is answered. *)
Ends(r) == AnswerAtOnce(r) \/ Synthesized(r) \/ SynthesisFails(r)

LEMMA Steps ==
    ASSUME [Next]_vars
    PROVE  \/ Loses \/ Elsewhere \/ Publish
           \/ \E r \in Requests, l \in Listeners, j \in 1..TotalJobs : Claim(r, l, j)
           \/ \E r \in Requests, j \in 1..TotalJobs : Get(r, j)
           \/ \E r \in Requests : StartSynthesis(r) \/ Ends(r)
BY DEF Next, Loses, Elsewhere, Ends

LEMMA LosesKeeps ==
    ASSUME Kinds, Loses
    PROVE  /\ Keeps(jobs, jobs')
           /\ UNCHANGED << issued, private, requests, made >>
           /\ conn' \in [Listeners -> {"new", "open", "overflowed", "gone"}]
           /\ NoOrphan => NoOrphan'
<1> USE DEF Kinds
<1>0. UNCHANGED << issued, private, requests, made >>
  BY DEF Loses, Register, Disconnect, Acknowledge, SetProducerActive, Prune, Broadcast,
         serving
<1>a. Keeps(jobs, Pruned(jobs)) /\ \A j \in DOMAIN Pruned(jobs) : Pruned(jobs)[j] = jobs[j]
  BY PrunedKeeps
<1>b. NoOrphan <=> Wanted(jobs) /\ \A j \in DOMAIN jobs : jobs[j].pending \subseteq Registered
  BY DEF NoOrphan, Wanted
<1>c. NoOrphan' <=> Wanted(jobs') /\ \A j \in DOMAIN jobs' : jobs'[j].pending \subseteq Registered'
  BY DEF NoOrphan, Wanted
<1>d. Wanted(jobs) => Wanted(Pruned(jobs))
  BY <1>a DEF Wanted, Keeps
<1> DEFINE Conns == conn' \in [Listeners -> {"new", "open", "overflowed", "gone"}]
<1>1. ASSUME NEW l \in Listeners, Register(l)
      PROVE  Keeps(jobs, jobs') /\ Conns /\ (NoOrphan => NoOrphan')
  <2>1. jobs' = Pruned(jobs) /\ Conns /\ Registered \subseteq Registered'
    BY <1>1 DEF Register, Registered
  <2> QED BY <1>a, <1>b, <1>c, <1>d, <2>1 DEF Keeps
<1>2. ASSUME NEW l \in Listeners, Disconnect(l)
      PROVE  Keeps(jobs, jobs') /\ Conns /\ (NoOrphan => NoOrphan')
  <2>1. /\ jobs' = Unregistered(jobs, {l} \cap Registered) /\ Conns
        /\ Registered' = Registered \ ({l} \cap Registered)
    BY <1>2 DEF Disconnect, Registered
  <2>2. /\ Keeps(jobs, jobs') /\ (Wanted(jobs) => Wanted(jobs'))
        /\ \A j \in DOMAIN jobs' : jobs'[j].pending \cap ({l} \cap Registered) = {}
    BY <2>1, UnregisteredKeeps
  <2>3. NoOrphan => \A j \in DOMAIN jobs' : jobs'[j].pending \subseteq Registered'
    BY <1>b, <2>1, <2>2 DEF Keeps
  <2> QED BY <1>b, <1>c, <2>1, <2>2, <2>3
<1>3. ASSUME NEW l \in Listeners, NEW j \in 1..TotalJobs, Acknowledge(l, j)
      PROVE  Keeps(jobs, jobs') /\ Conns /\ (NoOrphan => NoOrphan')
  <2> DEFINE P == Pruned(jobs)
             A == [P EXCEPT ![j].pending = @ \ {l}]
  <2>1. jobs' = CleanedUp(A, {j}) /\ j \in DOMAIN P /\ conn' = conn
    BY <1>3 DEF Acknowledge
  <2>2. Keeps(jobs, P) /\ \A i \in DOMAIN P : P[i] = jobs[i]
    BY <1>a
  <2> HIDE DEF P
  <2>3. P[j] \in HubJob /\ P[j].pending \ {l} \in SUBSET Listeners
    BY <2>1, <2>2 DEF Keeps, HubJob
  <2>4. /\ DOMAIN A = DOMAIN P /\ A[j] \in HubJob /\ A[j].pending = P[j].pending \ {l}
        /\ A[j].inFlight = P[j].inFlight /\ A[j].audio = P[j].audio
        /\ \A i \in DOMAIN P \ {j} : A[i] = P[i]
    <3>1. A[j] = [P[j] EXCEPT !.pending = P[j].pending \ {l}]
      BY <2>1
    <3> QED BY <2>3, <3>1 DEF HubJob
  <2> HIDE DEF A
  <2>5. A \in [DOMAIN A -> HubJob]
    <3>1. A = [i \in DOMAIN P |-> A[i]]
      BY <2>4 DEF A
    <3> QED BY <2>2, <2>4, <3>1 DEF Keeps
  <2>6. /\ Keeps(A, jobs')
        /\ \A i \in DOMAIN jobs' : jobs'[i] = A[i] /\ (i \in {j} => ~Done(A, i))
    BY <2>1, <2>5, CleanedUpKeeps
  <2>7. Keeps(P, A)
    BY <2>4, <2>5 DEF Keeps
  <2>8. Keeps(jobs, jobs')
    <3>1. Keeps(P, jobs')
      BY <2>6, <2>7, KeepsChain
    <3> QED BY <2>2, <3>1, KeepsChain
  <2>9. ASSUME NoOrphan PROVE NoOrphan'
    <3>1. \A i \in DOMAIN jobs' : jobs'[i].pending \subseteq Registered'
      BY <1>b, <2>1, <2>8, <2>9 DEF Keeps, Registered
    <3>2. ASSUME NEW i \in DOMAIN jobs' PROVE jobs'[i].pending # {} \/ jobs'[i].inFlight > 0
      <4>1. CASE i = j
        <5>1. A[j].inFlight \in Nat /\ ~Done(A, j)
          BY <2>4, <2>6, <3>2, <4>1 DEF HubJob
        <5> QED BY <2>6, <3>2, <4>1, <5>1 DEF Done
      <4>2. CASE i # j
        BY <1>b, <1>d, <2>4, <2>6, <2>9, <3>2, <4>2 DEF Keeps, Wanted, P
      <4> QED BY <4>1, <4>2
    <3> QED BY <1>c, <3>1, <3>2 DEF Wanted
  <2> QED BY <2>1, <2>8, <2>9
<1>4. ASSUME SetProducerActive
      PROVE  Keeps(jobs, jobs') /\ Conns /\ (NoOrphan => NoOrphan')
  <2>1. /\ jobs' = Unregistered(jobs, Overflows) /\ Conns
        /\ Registered' = Registered \ Overflows
    BY <1>4 DEF SetProducerActive, Broadcast, Registered, Overflows
  <2>2. /\ Keeps(jobs, jobs') /\ (Wanted(jobs) => Wanted(jobs'))
        /\ \A j \in DOMAIN jobs' : jobs'[j].pending \cap Overflows = {}
    BY <2>1, UnregisteredKeeps
  <2>3. NoOrphan => \A j \in DOMAIN jobs' : jobs'[j].pending \subseteq Registered'
    BY <1>b, <2>1, <2>2 DEF Keeps
  <2> QED BY <1>b, <1>c, <2>1, <2>2, <2>3
<1>5. ASSUME Prune
      PROVE  Keeps(jobs, jobs') /\ Conns /\ (NoOrphan => NoOrphan')
  <2>1. jobs' = Pruned(jobs) /\ conn' = conn
    BY <1>5 DEF Prune
  <2> QED BY <1>a, <1>b, <1>c, <1>d, <2>1 DEF Keeps, Registered
<1> QED BY <1>0, <1>1, <1>2, <1>3, <1>4, <1>5 DEF Loses

(* A new job gets the next number and waits for every listener; those whose *)
(* queue is full are unregistered from it again.                            *)
LEMMA PublishAdds ==
    ASSUME Kinds, Publish
    PROVE  /\ issued' = issued + 1 /\ issued' \in 0..TotalJobs
           /\ UNCHANGED << private, requests, made >>
           /\ jobs' \in [DOMAIN jobs' -> HubJob]
           /\ DOMAIN jobs' \subseteq DOMAIN jobs \cup {issued'}
           /\ \A j \in DOMAIN jobs' \ {issued'} :
                jobs'[j].inFlight = jobs[j].inFlight /\ jobs'[j].audio = jobs[j].audio
           /\ issued' \in DOMAIN jobs' =>
                jobs'[issued'].inFlight = 0 /\ jobs'[issued'].audio = FALSE
           /\ \A j \in DOMAIN jobs \ DOMAIN jobs' : jobs[j].inFlight = 0
           /\ conn' \in [Listeners -> {"new", "open", "overflowed", "gone"}]
           /\ NoOrphan => NoOrphan'
<1> USE DEF Kinds
<1> DEFINE P == Pruned(jobs)
           n == issued + 1
           new == [pending |-> Registered, inFlight |-> 0, audio |-> FALSE]
           all == [i \in DOMAIN P \cup {n} |-> IF i = n THEN new ELSE jobs[i]]
<1>1. /\ issued' = n /\ issued < TotalJobs /\ Registered # {}
      /\ jobs' = Unregistered(all, Overflows)
      /\ UNCHANGED << private, requests, made >>
      /\ conn' \in [Listeners -> {"new", "open", "overflowed", "gone"}]
      /\ Registered' = Registered \ Overflows
  BY DEF Publish, Broadcast, serving, Registered, Overflows
<1>2. /\ issued' \in 0..TotalJobs /\ n \notin DOMAIN jobs
  BY <1>1, PullAssumption
<1>3. Keeps(jobs, P) /\ \A j \in DOMAIN P : P[j] = jobs[j]
  BY PrunedKeeps
<1> HIDE DEF P
<1>4. new \in HubJob
  BY DEF HubJob, Registered
<1>5. /\ all \in [DOMAIN all -> HubJob] /\ DOMAIN all = DOMAIN P \cup {n}
      /\ all[n] = new /\ \A j \in DOMAIN P : all[j] = jobs[j]
  BY <1>2, <1>3, <1>4 DEF Keeps
<1>6. new.pending = Registered /\ new.inFlight = 0 /\ new.audio = FALSE
  OBVIOUS
<1> HIDE DEF all, new
<1>7. /\ Keeps(all, jobs') /\ (Wanted(all) => Wanted(jobs'))
      /\ \A j \in DOMAIN jobs' : jobs'[j].pending \cap Overflows = {}
  BY <1>1, <1>5, UnregisteredKeeps
<1>8. /\ jobs' \in [DOMAIN jobs' -> HubJob]
      /\ DOMAIN jobs' \subseteq DOMAIN jobs \cup {issued'}
      /\ \A j \in DOMAIN jobs' \ {issued'} :
           jobs'[j].inFlight = jobs[j].inFlight /\ jobs'[j].audio = jobs[j].audio
      /\ issued' \in DOMAIN jobs' =>
           jobs'[issued'].inFlight = 0 /\ jobs'[issued'].audio = FALSE
      /\ \A j \in DOMAIN jobs \ DOMAIN jobs' : jobs[j].inFlight = 0
  BY <1>1, <1>2, <1>3, <1>5, <1>6, <1>7 DEF Keeps
<1>9. ASSUME NoOrphan PROVE NoOrphan'
  <2>1. Wanted(all)
    BY <1>1, <1>3, <1>5, <1>6, <1>9 DEF Keeps, Wanted, NoOrphan
  <2>2. \A j \in DOMAIN all : all[j].pending \subseteq Registered
    BY <1>3, <1>5, <1>6, <1>9 DEF Keeps, NoOrphan
  <2>3. \A j \in DOMAIN jobs' : jobs'[j].pending \subseteq Registered'
    BY <1>1, <1>7, <2>2 DEF Keeps
  <2> QED BY <1>7, <2>1, <2>3 DEF Wanted, NoOrphan
<1> QED BY <1>1, <1>2, <1>8, <1>9

(* A claim adds one to its job, which is still there. *)
LEMMA ClaimAdds ==
    ASSUME Kinds, NEW r \in Requests, NEW l \in Listeners, NEW j \in 1..TotalJobs,
           Claim(r, l, j)
    PROVE  /\ UNCHANGED << issued, private, conn, made >>
           /\ j \in DOMAIN jobs /\ requests[r].at = "idle"
           /\ requests' = [requests EXCEPT ![r] = [at |-> "waiting", of |-> "hub", job |-> j]]
           /\ jobs' \in [DOMAIN jobs' -> HubJob] /\ j \in DOMAIN jobs'
           /\ jobs'[j].inFlight = jobs[j].inFlight + 1 /\ jobs'[j].audio = jobs[j].audio
           /\ DOMAIN jobs' \subseteq DOMAIN jobs
           /\ \A i \in DOMAIN jobs' \ {j} : jobs'[i] = jobs[i]
           /\ \A i \in DOMAIN jobs \ DOMAIN jobs' : jobs[i].inFlight = 0
           /\ NoOrphan => NoOrphan'
<1> USE DEF Kinds
<1> DEFINE P == Pruned(jobs)
<1>1. /\ UNCHANGED << issued, private, conn, made >>
      /\ j \in DOMAIN jobs \ expired /\ requests[r].at = "idle"
      /\ requests' = [requests EXCEPT ![r] = [at |-> "waiting", of |-> "hub", job |-> j]]
      /\ jobs' = [P EXCEPT ![j].inFlight = @ + 1]
  BY DEF Claim
<1>2. /\ Keeps(jobs, P) /\ \A i \in DOMAIN P : P[i] = jobs[i]
      /\ DOMAIN jobs \ expired \subseteq DOMAIN P
  BY PrunedKeeps
<1> HIDE DEF P
<1>3. P[j] \in HubJob /\ P[j].inFlight + 1 \in Nat /\ j \in DOMAIN P
  BY <1>1, <1>2 DEF HubJob
<1>4. /\ DOMAIN jobs' = DOMAIN P /\ \A i \in DOMAIN P \ {j} : jobs'[i] = P[i]
      /\ jobs'[j] = [P[j] EXCEPT !.inFlight = P[j].inFlight + 1]
  BY <1>1, <1>3
<1>5. /\ jobs'[j] \in HubJob /\ jobs'[j].inFlight = P[j].inFlight + 1
      /\ jobs'[j].pending = P[j].pending /\ jobs'[j].audio = P[j].audio
  BY <1>3, <1>4 DEF HubJob
<1>6. jobs' \in [DOMAIN jobs' -> HubJob]
  <2>1. jobs' = [i \in DOMAIN P |-> jobs'[i]]
    BY <1>1
  <2> QED BY <1>2, <1>4, <1>5, <2>1 DEF Keeps
<1>7. NoOrphan => NoOrphan'
  <2> SUFFICES ASSUME NoOrphan, NEW i \in DOMAIN jobs'
               PROVE  /\ jobs'[i].pending \subseteq Registered'
                      /\ jobs'[i].pending # {} \/ jobs'[i].inFlight > 0
    BY DEF NoOrphan
  <2>1. P[j].inFlight \in Nat /\ Registered' = Registered
    BY <1>1, <1>3 DEF HubJob, Registered
  <2>2. i \in DOMAIN jobs /\ P[i] = jobs[i]
    BY <1>2, <1>4 DEF Keeps
  <2>3. CASE i = j
    BY <1>5, <2>1, <2>2, <2>3 DEF NoOrphan
  <2>4. CASE i # j
    BY <1>4, <2>1, <2>2, <2>4 DEF NoOrphan
  <2> QED BY <2>3, <2>4
<1> QED BY <1>1, <1>2, <1>3, <1>4, <1>5, <1>6, <1>7 DEF Keeps

-------------------------------------------------------------------------------
(* Claims. *)

Holders(j) == {r \in Requests : /\ requests[r].at # "idle"
                                /\ requests[r].of = "hub" /\ requests[r].job = j}

Claims(j) == IF j \in DOMAIN jobs THEN jobs[j].inFlight ELSE 0

LEMMA HonouredIs ==
    ClaimIsHonoured <=> \A j \in 1..TotalJobs : Cardinality(Holders(j)) = Claims(j)
BY DEF ClaimIsHonoured, Holders, Claims

LEMMA HoldersFinite == \A j \in 1..TotalJobs : IsFiniteSet(Holders(j))
BY PullAssumption, FS_Subset DEF Holders

(* Who holds a claim finds the job. *)
LEMMA HeldIsThere ==
    ASSUME Kinds, ClaimIsHonoured, NEW r \in Requests,
           requests[r].at # "idle", requests[r].of = "hub"
    PROVE  requests[r].job \in DOMAIN jobs /\ jobs[requests[r].job].inFlight > 0
<1> DEFINE j == requests[r].job
<1>1. j \in 1..TotalJobs
  <2>1. issued \in Nat /\ issued <= TotalJobs /\ j \in 1..issued
    BY PullAssumption DEF Kinds
  <2> QED BY <2>1, PullAssumption
<1>2. r \in Holders(j)
  BY DEF Holders
<1>3. IsFiniteSet(Holders(j)) /\ Cardinality(Holders(j)) = Claims(j)
  BY <1>1, HonouredIs, HoldersFinite
<1>4. Cardinality(Holders(j)) # 0 /\ Cardinality(Holders(j)) \in Nat
  BY <1>2, <1>3, FS_EmptySet, FS_CardinalityType
<1> QED BY <1>3, <1>4 DEF Claims

LEMMA WithAudioKeeps ==
    ASSUME NEW J, J \in [DOMAIN J -> HubJob], NEW j \in DOMAIN J
    PROVE  LET K == WithAudio(J, j)
           IN  /\ K \in [DOMAIN K -> HubJob] /\ DOMAIN K = DOMAIN J
               /\ K[j].audio = TRUE /\ K[j].inFlight = J[j].inFlight
               /\ K[j].pending = J[j].pending
               /\ \A i \in DOMAIN J \ {j} : K[i] = J[i]
<1> DEFINE K == [J EXCEPT ![j].audio = TRUE]
<1>1. WithAudio(J, j) = K
  BY DEF WithAudio
<1>2. DOMAIN K = DOMAIN J /\ \A i \in DOMAIN J \ {j} : K[i] = J[i]
  OBVIOUS
<1>3. /\ K[j] \in HubJob /\ K[j].audio = TRUE /\ K[j].inFlight = J[j].inFlight
      /\ K[j].pending = J[j].pending
  <2>1. J[j] \in HubJob /\ K[j] = [J[j] EXCEPT !.audio = TRUE]
    OBVIOUS
  <2> QED BY <2>1 DEF HubJob
<1>4. K \in [DOMAIN J -> HubJob]
  BY <1>2, <1>3
<1> QED BY <1>1, <1>2, <1>3, <1>4

(* What remains of the hub's jobs when r gives its claim on j up. *)
GivesUp(j, stored) ==
    /\ jobs' \in [DOMAIN jobs' -> HubJob] /\ DOMAIN jobs' \subseteq DOMAIN jobs
    /\ \A i \in DOMAIN jobs' :
         /\ jobs'[i].inFlight = IF i = j THEN jobs[i].inFlight - 1 ELSE jobs[i].inFlight
         /\ jobs'[i].audio = (jobs[i].audio \/ (i = j /\ stored))
    /\ \A i \in DOMAIN jobs \ DOMAIN jobs' :
         jobs[i].inFlight = IF i = j THEN 1 ELSE 0
    /\ NoOrphan => NoOrphan'

LEMMA ReleaseGivesUp ==
    ASSUME Kinds, UNCHANGED conn, NEW j \in DOMAIN jobs, jobs[j].inFlight > 0,
           NEW stored \in BOOLEAN,
           jobs' = Released(IF stored THEN WithAudio(jobs, j) ELSE jobs, j)
    PROVE  GivesUp(j, stored)
<1> USE DEF Kinds
<1> DEFINE J == IF stored THEN WithAudio(jobs, j) ELSE jobs
           L == [J EXCEPT ![j].inFlight = @ - 1]
<1>0. \A i \in DOMAIN jobs : jobs[i].audio \in BOOLEAN /\ jobs[i].inFlight \in Nat
  BY DEF HubJob
<1>1. /\ J \in [DOMAIN J -> HubJob] /\ DOMAIN J = DOMAIN jobs
      /\ \A i \in DOMAIN J : /\ J[i].inFlight = jobs[i].inFlight
                            /\ J[i].pending = jobs[i].pending
                            /\ J[i].audio = (jobs[i].audio \/ (i = j /\ stored))
  <2>1. CASE stored
    <3> DEFINE K == WithAudio(jobs, j)
    <3>1. /\ K \in [DOMAIN K -> HubJob] /\ DOMAIN K = DOMAIN jobs
          /\ K[j].audio = TRUE /\ K[j].inFlight = jobs[j].inFlight
          /\ K[j].pending = jobs[j].pending
          /\ \A i \in DOMAIN jobs \ {j} : K[i] = jobs[i]
      BY WithAudioKeeps
    <3>2. J = K
      BY <2>1
    <3> HIDE DEF K, J
    <3> QED BY <1>0, <2>1, <3>1, <3>2
  <2>2. CASE ~stored
    BY <1>0, <2>2
  <2> QED BY <2>1, <2>2
<1> HIDE DEF J
<1>2. /\ L \in [DOMAIN J -> HubJob]
      /\ L[j].inFlight = J[j].inFlight - 1 /\ L[j].pending = J[j].pending
      /\ L[j].audio = J[j].audio
      /\ \A i \in DOMAIN J \ {j} : L[i] = J[i]
      /\ Keeps(L, Released(J, j))
      /\ Wanted(J) => Wanted(Released(J, j))
  BY <1>1, ReleasedKeeps
<1>3. jobs' = Released(J, j) /\ Registered' = Registered /\ DOMAIN L = DOMAIN J
  BY DEF J, Registered
<1> HIDE DEF L
<1>4. \A i \in DOMAIN jobs' : jobs'[i].pending \subseteq jobs[i].pending
  BY ZenonT(30), <1>1, <1>2, <1>3 DEF Keeps
<1>5. NoOrphan => NoOrphan'
  <2>1. NoOrphan => Wanted(J)
    BY <1>1 DEF NoOrphan, Wanted
  <2>2. Wanted(J) => Wanted(jobs')
    BY <1>2, <1>3
  <2> QED BY <1>1, <1>2, <1>3, <1>4, <2>1, <2>2 DEF NoOrphan, Wanted, Keeps
<1>6. \A i \in DOMAIN jobs' :
         /\ jobs'[i].inFlight = IF i = j THEN jobs[i].inFlight - 1 ELSE jobs[i].inFlight
         /\ jobs'[i].audio = (jobs[i].audio \/ (i = j /\ stored))
  BY <1>1, <1>2, <1>3 DEF Keeps
<1>7. \A i \in DOMAIN jobs \ DOMAIN jobs' : jobs[i].inFlight = IF i = j THEN 1 ELSE 0
  BY <1>0, <1>1, <1>2, <1>3 DEF Keeps
<1> QED BY <1>1, <1>2, <1>3, <1>5, <1>6, <1>7 DEF GivesUp, Keeps

(* The registry prunes itself and stores audio only for a job it has.       *)
LEMMA LiveKeeps ==
    ASSUME Kinds
    PROVE  /\ Live \in [DOMAIN Live -> RegistryJob] /\ DOMAIN Live \subseteq DOMAIN private
           /\ \A j \in DOMAIN Live : Live[j] = private[j]
<1> DEFINE S == DOMAIN private \ expired
<1>1. Live = [j \in S |-> private[j]]
  BY DEF Live, Restrict
<1> QED BY <1>1 DEF Kinds

(* The registry loses jobs; those it keeps have their audio, and perhaps    *)
(* that of j.                                                               *)
Registers(j) ==
    /\ private' \in [DOMAIN private' -> RegistryJob]
    /\ DOMAIN private' \subseteq DOMAIN private
    /\ \A i \in DOMAIN private' :
         private'[i].audio = (private[i].audio \/ i = j)

LEMMA StoringRegisters ==
    ASSUME Kinds, NEW j, private' = WithAudio(Live, j)
    PROVE  Registers(j)
<1> USE DEF Kinds
<1>1. /\ Live \in [DOMAIN Live -> RegistryJob] /\ DOMAIN Live \subseteq DOMAIN private
      /\ \A i \in DOMAIN Live : Live[i] = private[i] /\ private[i].audio \in BOOLEAN
  BY LiveKeeps DEF RegistryJob
<1>2. CASE j \notin DOMAIN Live
  BY <1>1, <1>2 DEF WithAudio, Registers
<1>3. CASE j \in DOMAIN Live
  <2> DEFINE K == [Live EXCEPT ![j].audio = TRUE]
  <2>1. private' = K
    BY <1>3 DEF WithAudio
  <2>2. DOMAIN K = DOMAIN Live /\ \A i \in DOMAIN Live \ {j} : K[i] = Live[i]
    OBVIOUS
  <2>3. K[j] \in RegistryJob /\ K[j].audio = TRUE
    <3>1. Live[j] \in RegistryJob /\ K[j] = [Live[j] EXCEPT !.audio = TRUE]
      BY <1>1, <1>3
    <3> QED BY <3>1 DEF RegistryJob
  <2>4. K \in [DOMAIN K -> RegistryJob]
    BY <1>1, <2>2, <2>3
  <2> HIDE DEF K
  <2> QED BY <1>1, <1>3, <2>1, <2>2, <2>3, <2>4 DEF Registers
<1> QED BY <1>2, <1>3

(* Steps that concern neither the hub's jobs nor the requests: the registry *)
(* loses jobs, or gets a new one with the next number.                      *)
LEMMA ElsewhereKeeps ==
    ASSUME Kinds, Elsewhere
    PROVE  /\ UNCHANGED << jobs, conn, requests, made >>
           /\ issued' \in issued..TotalJobs /\ issued' \in 0..TotalJobs
           /\ private' \in [DOMAIN private' -> RegistryJob]
           /\ DOMAIN private' \subseteq DOMAIN private \cup (issued + 1)..issued'
           /\ \A j \in DOMAIN private' \cap DOMAIN private :
                private'[j].audio = private[j].audio
<1> USE DEF Kinds
<1>1. UNCHANGED << jobs, conn, requests, made >>
  BY DEF Elsewhere, Send, Expire, Delete, Create, CancelClient, hub, serving, vars
<1>2. /\ Live \in [DOMAIN Live -> RegistryJob] /\ DOMAIN Live \subseteq DOMAIN private
      /\ \A j \in DOMAIN Live : Live[j] = private[j]
  BY LiveKeeps
<1>3. issued \in Nat /\ issued <= TotalJobs /\ TotalJobs \in Nat
  BY PullAssumption
<1>4. CASE issued' = issued /\ private' = private
  BY <1>1, <1>3, <1>4
<1>5. ASSUME NEW S, issued' = issued, private' = Restrict(Live, S), S \subseteq DOMAIN Live
      PROVE  /\ private' \in [DOMAIN private' -> RegistryJob]
             /\ DOMAIN private' \subseteq DOMAIN private
             /\ \A j \in DOMAIN private' : private'[j].audio = private[j].audio
  BY <1>2, <1>5 DEF Restrict
<1>6. ASSUME NEW j \in 1..TotalJobs, Delete(j)
      PROVE  issued' = issued /\ private' = Restrict(Live, DOMAIN Live \ {j})
  BY <1>6 DEF Delete
<1>7. ASSUME NEW c \in Clients, CancelClient(c)
      PROVE  issued' = issued /\ private' = Restrict(Live, {j \in DOMAIN Live : Live[j].client # c})
  BY <1>7 DEF CancelClient
<1>8. ASSUME NEW c \in Clients, Create(c)
      PROVE  /\ issued' = issued + 1 /\ issued < TotalJobs
             /\ private' \in [DOMAIN private' -> RegistryJob]
             /\ DOMAIN private' \subseteq DOMAIN private \cup {issued + 1}
             /\ \A j \in DOMAIN private' \cap DOMAIN private :
                  private'[j].audio = private[j].audio
  <2> DEFINE new == [client |-> c, audio |-> FALSE]
  <2>1. /\ issued' = issued + 1 /\ issued < TotalJobs
        /\ private' = [j \in DOMAIN Live \cup {issued + 1} |->
                         IF j = issued + 1 THEN new ELSE Live[j]]
    BY <1>8 DEF Create
  <2>2. new \in RegistryJob
    BY DEF RegistryJob
  <2>3. issued + 1 \notin DOMAIN private
    BY <1>3
  <2> HIDE DEF new
  <2> QED BY <1>2, <2>1, <2>2, <2>3
<1>9. \/ issued' = issued /\ private' = private
      \/ \E j \in 1..TotalJobs : Delete(j)
      \/ \E c \in Clients : Create(c) \/ CancelClient(c)
  BY DEF Elsewhere, Send, Expire, hub, vars
<1>10. CASE \E j \in 1..TotalJobs : Delete(j)
  <2>1. PICK j \in 1..TotalJobs : Delete(j)
    BY <1>10
  <2> DEFINE S == DOMAIN Live \ {j}
  <2>2. issued' = issued /\ private' = Restrict(Live, S) /\ S \subseteq DOMAIN Live
    BY <1>6, <2>1
  <2> HIDE DEF S
  <2> QED BY <1>1, <1>3, <1>5, <2>2
<1>11. CASE \E c \in Clients : CancelClient(c)
  <2>1. PICK c \in Clients : CancelClient(c)
    BY <1>11
  <2> DEFINE S == {j \in DOMAIN Live : Live[j].client # c}
  <2>2. issued' = issued /\ private' = Restrict(Live, S) /\ S \subseteq DOMAIN Live
    BY <1>7, <2>1
  <2> HIDE DEF S
  <2> QED BY <1>1, <1>3, <1>5, <2>2
<1>12. CASE \E c \in Clients : Create(c)
  <2>1. PICK c \in Clients : Create(c)
    BY <1>12
  <2>2. issued + 1 \in (issued + 1)..issued' /\ issued' \in issued..TotalJobs
        /\ issued' \in 0..TotalJobs
    BY <1>3, <1>8, <2>1
  <2> QED BY <1>1, <1>8, <2>1, <2>2
<1> QED BY <1>4, <1>9, <1>10, <1>11, <1>12

(* How a request ends: it gives up its claim, or the registry looks for its *)
(* job; the audio was stored, or not.                                       *)
LEMMA EndsKeeps ==
    ASSUME Kinds, ClaimIsHonoured, NEW r \in Requests, Ends(r)
    PROVE  LET j == requests[r].job
           IN /\ requests[r].at # "idle" /\ requests' = [requests EXCEPT ![r] = Idle]
              /\ UNCHANGED << issued, conn >> /\ j \in 1..TotalJobs
              /\ \E stored \in BOOLEAN :
                   /\ stored => requests[r].at = "synthesizing"
                   /\ made' = IF stored THEN [made EXCEPT ![j] = @ + 1] ELSE made
                   /\ \/ /\ requests[r].of = "hub" /\ UNCHANGED private
                         /\ j \in DOMAIN jobs /\ jobs[j].inFlight > 0 /\ GivesUp(j, stored)
                      \/ /\ requests[r].of = "registry" /\ UNCHANGED jobs
                         /\ IF stored THEN Registers(j) ELSE UNCHANGED private
<1> USE DEF Kinds
<1> DEFINE j == requests[r].job
           mine == requests[r].of = "hub"
<1>1. /\ requests[r].at # "idle" /\ requests' = [requests EXCEPT ![r] = Idle]
      /\ UNCHANGED << issued, conn >>
  BY DEF Ends, AnswerAtOnce, Synthesized, SynthesisFails, Answered
<1>2. requests[r].of \in {"hub", "registry"}
  BY DEF Request
<1>3. j \in 1..TotalJobs
  <2>1. issued \in Nat /\ issued <= TotalJobs /\ j \in 1..issued
    BY <1>1, PullAssumption
  <2> QED BY <2>1, PullAssumption
<1>4. mine => j \in DOMAIN jobs /\ jobs[j].inFlight > 0
  BY <1>1, HeldIsThere
<1>5. CASE Synthesized(r)
  <2>1. /\ requests[r].at = "synthesizing" /\ made' = [made EXCEPT ![j] = @ + 1]
        /\ IF mine THEN jobs' = Released(WithAudio(jobs, j), j) /\ private' = private
                   ELSE private' = WithAudio(Live, j) /\ jobs' = jobs
    BY <1>5 DEF Synthesized
  <2>2. CASE mine
    <3>1. GivesUp(j, TRUE)
      BY <1>1, <1>4, <2>1, <2>2, ReleaseGivesUp
    <3> QED BY <1>1, <1>3, <1>4, <2>1, <2>2, <3>1
  <2>3. CASE ~mine
    <3>1. Registers(j)
      BY <2>1, <2>3, StoringRegisters
    <3> QED BY <1>1, <1>2, <1>3, <2>1, <2>3, <3>1
  <2> QED BY <2>2, <2>3
<1>6. CASE AnswerAtOnce(r) \/ SynthesisFails(r)
  <2>1. /\ made' = made /\ private' = private
        /\ jobs' = IF mine THEN Released(jobs, j) ELSE jobs
    BY <1>6 DEF AnswerAtOnce, SynthesisFails
  <2>2. CASE mine
    <3>1. GivesUp(j, FALSE)
      BY <1>1, <1>4, <2>1, <2>2, ReleaseGivesUp
    <3> QED BY <1>1, <1>3, <1>4, <2>1, <2>2, <3>1
  <2>3. CASE ~mine
    BY <1>1, <1>2, <1>3, <2>1, <2>3
  <2> QED BY <2>2, <2>3
<1> QED BY <1>5, <1>6 DEF Ends

-------------------------------------------------------------------------------
(* Which jobs there can be after a step. *)

Grows ==
    /\ issued' \in issued..TotalJobs /\ issued' \in 0..TotalJobs
    /\ jobs' \in [DOMAIN jobs' -> HubJob]
    /\ DOMAIN jobs' \subseteq DOMAIN jobs \cup (issued + 1)..issued'
    /\ private' \in [DOMAIN private' -> RegistryJob]
    /\ DOMAIN private' \subseteq DOMAIN private \cup (issued + 1)..issued'
    /\ jobs' = jobs \/ DOMAIN private' \subseteq DOMAIN private
    /\ conn' \in [Listeners -> {"new", "open", "overflowed", "gone"}]
    /\ NoOrphan => NoOrphan'

LEMMA StepGrows ==
    ASSUME Kinds, ClaimIsHonoured, [Next]_vars
    PROVE  Grows
<1> USE DEF Kinds
<1>0. issued \in Nat /\ issued <= TotalJobs /\ TotalJobs \in Nat
      /\ issued \in issued..TotalJobs
  BY PullAssumption
<1>a. ASSUME UNCHANGED << jobs, conn >> PROVE NoOrphan => NoOrphan'
  BY <1>a DEF NoOrphan, Registered
<1>1. CASE Loses
  BY <1>0, <1>1, LosesKeeps DEF Grows, Keeps
<1>2. CASE Elsewhere
  BY <1>0, <1>2, <1>a, ElsewhereKeeps DEF Grows
<1>3. CASE Publish
  <2>1. issued' = issued + 1 /\ issued' \in issued..TotalJobs
        /\ issued' \in (issued + 1)..issued'
    <3>1. issued' = issued + 1 /\ issued' \in 0..TotalJobs
      BY <1>3, PublishAdds
    <3> QED BY <1>0, <3>1
  <2> QED BY <1>3, <2>1, PublishAdds DEF Grows
<1>4. CASE \E r \in Requests, l \in Listeners, j \in 1..TotalJobs : Claim(r, l, j)
  BY <1>0, <1>4, ClaimAdds DEF Grows
<1>5. CASE \E r \in Requests, j \in 1..TotalJobs : Get(r, j)
  <2>1. UNCHANGED << issued, jobs, conn >> /\ private' = Live
    BY <1>5 DEF Get, hub
  <2> QED BY <1>0, <1>a, <2>1, LiveKeeps DEF Grows
<1>6. CASE \E r \in Requests : StartSynthesis(r)
  <2>1. UNCHANGED << issued, jobs, conn, private >>
    BY <1>6 DEF StartSynthesis, hub
  <2> QED BY <1>0, <1>a, <2>1 DEF Grows
<1>7. CASE \E r \in Requests : Ends(r)
  <2>1. PICK r \in Requests : Ends(r)
    BY <1>7
  <2>2. /\ UNCHANGED << issued, conn >>
        /\ \/ UNCHANGED private /\ \E j, stored : GivesUp(j, stored)
           \/ UNCHANGED jobs /\ \/ UNCHANGED private
                                \/ \E j : Registers(j)
    BY <2>1, EndsKeeps
  <2> QED BY <1>0, <1>a, <2>2 DEF Grows, GivesUp, Registers
<1> QED BY <1>1, <1>2, <1>3, <1>4, <1>5, <1>6, <1>7, Steps

LEMMA InitKinds == Init => Kinds /\ ClaimIsHonoured /\ NoOrphan
<1> SUFFICES ASSUME Init PROVE Kinds /\ ClaimIsHonoured /\ NoOrphan
  OBVIOUS
<1>1. /\ issued = 0 /\ jobs = << >> /\ private = << >>
      /\ conn = [l \in Listeners |-> "new"]
      /\ requests = [r \in Requests |-> Idle] /\ made = [j \in 1..TotalJobs |-> 0]
      /\ issued \in 0..TotalJobs
  BY PullAssumption DEF Init
<1>2. Idle \in Request /\ Idle.at = "idle"
  BY PullAssumption DEF Idle, Request
<1>3. \A r \in Requests : requests[r] \in Request /\ requests[r].at = "idle"
  BY <1>1, <1>2
<1>4. Kinds
  <2>1. jobs \in [DOMAIN jobs -> HubJob] /\ DOMAIN jobs = {}
    BY <1>1
  <2>2. private \in [DOMAIN private -> RegistryJob] /\ DOMAIN private = {}
    BY <1>1
  <2>3. requests \in [Requests -> Request]
    BY <1>1, <1>2
  <2> QED BY <1>1, <1>3, <2>1, <2>2, <2>3 DEF Kinds
<1>5. \A j \in 1..TotalJobs : Holders(j) = {} /\ Claims(j) = 0
  BY <1>1, <1>3 DEF Holders, Claims
<1>6. ClaimIsHonoured
  BY <1>5, HonouredIs, FS_EmptySet
<1>7. NoOrphan
  BY <1>1 DEF NoOrphan
<1> QED BY <1>4, <1>6, <1>7

(* What a step does to the requests and to what was made.                   *)
Asks(r, j, kind) ==
    /\ requests[r].at = "idle"
    /\ requests' = [requests EXCEPT ![r] = [at |-> "waiting", of |-> kind, job |-> j]]
    /\ j \in DOMAIN jobs \cup DOMAIN private
    /\ kind = "registry" => j \in DOMAIN private /\ UNCHANGED jobs
    /\ UNCHANGED << issued, made >>

LEMMA StepKinds ==
    ASSUME Kinds, ClaimIsHonoured, [Next]_vars
    PROVE  Kinds'
<1> USE DEF Kinds
<1>1. Grows
  BY StepGrows
<1>2. issued \in Nat /\ issued' \in Nat /\ issued <= issued' /\ issued' <= TotalJobs
      /\ TotalJobs \in Nat
  BY <1>1, PullAssumption DEF Grows
<1>3. /\ DOMAIN jobs' \subseteq 1..issued' /\ DOMAIN private' \subseteq 1..issued'
      /\ DOMAIN jobs' \cap DOMAIN private' = {}
      /\ 1..issued \subseteq 1..issued' /\ (1..issued) \cap ((issued + 1)..issued') = {}
  <2>1. /\ 1..issued \subseteq 1..issued' /\ (issued + 1)..issued' \subseteq 1..issued'
        /\ (1..issued) \cap ((issued + 1)..issued') = {}
    BY <1>2
  <2>2. DOMAIN jobs' \subseteq 1..issued' /\ DOMAIN private' \subseteq 1..issued'
    BY <1>1, <2>1 DEF Grows
  <2>3. DOMAIN jobs' \cap DOMAIN private' = {}
    BY <1>1, <2>1 DEF Grows
  <2> QED BY <2>1, <2>2, <2>3
<1> DEFINE Reqs == /\ requests' \in [Requests -> Request]
                   /\ \A r \in Requests : requests'[r].at # "idle" =>
                        /\ requests'[r].job \in 1..issued'
                        /\ requests'[r].of = "registry" => requests'[r].job \notin DOMAIN jobs'
           Mades == made' \in [1..TotalJobs -> Nat]
<1>4. ASSUME UNCHANGED requests PROVE Reqs
  BY <1>1, <1>3, <1>4 DEF Grows
<1>5. ASSUME NEW r \in Requests, requests' = [requests EXCEPT ![r] = Idle] PROVE Reqs
  <2>1. Idle \in Request /\ Idle.at = "idle"
    BY <1>2 DEF Idle, Request
  <2> QED BY <1>1, <1>3, <1>5, <2>1 DEF Grows
<1>6. ASSUME NEW r \in Requests, NEW j, NEW kind \in {"hub", "registry"}, Asks(r, j, kind)
      PROVE  Reqs /\ Mades
  <2> DEFINE q == [at |-> "waiting", of |-> kind, job |-> j]
  <2>1. j \in 1..issued /\ (kind = "registry" => j \notin DOMAIN jobs')
    BY <1>6 DEF Asks
  <2>2. q \in Request /\ q.job = j /\ q.of = kind
    BY <1>2, <2>1 DEF Request
  <2>3. requests' = [requests EXCEPT ![r] = q] /\ made' = made
    BY <1>6 DEF Asks
  <2> HIDE DEF q
  <2> QED BY <1>1, <1>3, <2>1, <2>2, <2>3 DEF Grows
<1>7. ASSUME NEW r \in Requests, NEW l \in Listeners, NEW j \in 1..TotalJobs, Claim(r, l, j)
       PROVE  Reqs /\ Mades
  <2>1. Asks(r, j, "hub")
    BY <1>7, ClaimAdds DEF Asks
  <2> QED BY <1>6, <2>1
<1>8. ASSUME NEW r \in Requests, NEW j \in 1..TotalJobs, Get(r, j)
       PROVE  Reqs /\ Mades
  <2>1. Asks(r, j, "registry")
    BY <1>8, LiveKeeps DEF Asks, Get, hub
  <2> QED BY <1>6, <2>1
<1>9. ASSUME NEW r \in Requests, StartSynthesis(r)
       PROVE  Reqs /\ Mades
  <2> DEFINE q == [requests[r] EXCEPT !.at = "synthesizing"]
  <2>1. /\ requests' = [requests EXCEPT ![r] = q] /\ UNCHANGED << jobs, issued, made >>
        /\ requests[r].at # "idle"
    BY <1>9 DEF StartSynthesis, hub
  <2>2. q \in Request /\ q.job = requests[r].job /\ q.of = requests[r].of
    BY DEF Request
  <2> HIDE DEF q
  <2> QED BY <1>3, <2>1, <2>2
<1>10. ASSUME NEW r \in Requests, Ends(r)
       PROVE  Reqs /\ Mades
  <2> DEFINE j == requests[r].job
  <2>1. /\ requests' = [requests EXCEPT ![r] = Idle] /\ j \in 1..TotalJobs
        /\ made' = made \/ made' = [made EXCEPT ![j] = @ + 1]
    BY <1>10, EndsKeeps
  <2>2. Mades
    <3>1. made[j] + 1 \in Nat
      BY <2>1
    <3> HIDE DEF j
    <3> QED BY <2>1, <3>1
  <2> QED BY <1>5, <2>1, <2>2
<1>11. Reqs /\ Mades
  <2>1. CASE Loses \/ Elsewhere \/ Publish
    <3>1. UNCHANGED << requests, made >>
      BY <2>1, LosesKeeps, ElsewhereKeeps, PublishAdds
    <3> QED BY <1>4, <3>1
  <2> QED BY <1>7, <1>8, <1>9, <1>10, <2>1, Steps
<1> QED BY <1>1, <1>3, <1>11 DEF Grows

LEMMA StepHonoured ==
    ASSUME Kinds, ClaimIsHonoured, [Next]_vars
    PROVE  ClaimIsHonoured'
<1> USE DEF Kinds
<1>0. /\ \A j \in 1..TotalJobs : /\ IsFiniteSet(Holders(j))
                                 /\ Cardinality(Holders(j)) = Claims(j)
      /\ \A j \in DOMAIN jobs : jobs[j].inFlight \in Nat
      /\ issued + 1 \notin DOMAIN jobs
  BY HonouredIs, HoldersFinite, PullAssumption DEF HubJob
<1>a. (\A j \in 1..TotalJobs : Cardinality(Holders(j)') = Claims(j)') => ClaimIsHonoured'
  BY DEF ClaimIsHonoured, Holders, Claims
<1>1. CASE Loses \/ Elsewhere \/ Publish
  <2>1. requests' = requests
    BY <1>1, LosesKeeps, ElsewhereKeeps, PublishAdds
  <2>2. \A j \in 1..TotalJobs : Holders(j)' = Holders(j)
    BY <2>1 DEF Holders
  <2>3. CASE Loses
    BY <1>0, <1>a, <2>2, <2>3, LosesKeeps DEF Keeps, Claims
  <2>4. CASE Elsewhere
    BY <1>0, <1>a, <2>2, <2>4, ElsewhereKeeps DEF Claims
  <2>5. CASE Publish
    <3>1. issued' = issued + 1 /\ issued' \notin DOMAIN jobs
      BY <1>0, <2>5, PublishAdds
    <3>2. ASSUME NEW j \in 1..TotalJobs PROVE Claims(j)' = Claims(j)
      <4>1. CASE j = issued'
        BY <2>5, <3>1, <4>1, PublishAdds DEF Claims
      <4>2. CASE j # issued'
        BY <2>5, <4>2, PublishAdds DEF Claims
      <4> QED BY <4>1, <4>2
    <3> QED BY <1>0, <1>a, <2>2, <3>2
  <2> QED BY <1>1, <2>3, <2>4, <2>5
<1>2. ASSUME NEW r \in Requests, NEW l \in Listeners, NEW j \in 1..TotalJobs, Claim(r, l, j)
      PROVE  ClaimIsHonoured'
  <2> DEFINE q == [at |-> "waiting", of |-> "hub", job |-> j]
  <2>1. /\ j \in DOMAIN jobs /\ j \in DOMAIN jobs' /\ requests[r].at = "idle"
        /\ requests' = [requests EXCEPT ![r] = q]
        /\ jobs'[j].inFlight = jobs[j].inFlight + 1
        /\ DOMAIN jobs' \subseteq DOMAIN jobs
        /\ \A i \in DOMAIN jobs' \ {j} : jobs'[i] = jobs[i]
        /\ \A i \in DOMAIN jobs \ DOMAIN jobs' : jobs[i].inFlight = 0
    BY <1>2, ClaimAdds
  <2>2. q.at # "idle" /\ q.of = "hub" /\ q.job = j
    OBVIOUS
  <2> HIDE DEF q
  <2>3. \A i \in 1..TotalJobs :
          Holders(i)' = IF i = j THEN Holders(i) \cup {r} ELSE Holders(i)
    BY <2>1, <2>2 DEF Holders
  <2>4. r \notin Holders(j)
    BY <2>1 DEF Holders
  <2>5. Cardinality(Holders(j)') = Claims(j)'
    <3>1. Cardinality(Holders(j) \cup {r}) = Cardinality(Holders(j)) + 1
      BY <1>0, <2>4, FS_AddElement
    <3>2. Holders(j)' = Holders(j) \cup {r} /\ Cardinality(Holders(j)) = Claims(j)
      BY <1>0, <2>3
    <3> QED BY <2>1, <3>1, <3>2 DEF Claims
  <2>6. \A i \in 1..TotalJobs : i # j => Cardinality(Holders(i)') = Claims(i)'
    BY <1>0, <2>1, <2>3 DEF Claims
  <2> QED BY <1>a, <2>5, <2>6
<1>3. ASSUME UNCHANGED jobs, \A j \in 1..TotalJobs : Holders(j)' = Holders(j)
      PROVE  ClaimIsHonoured'
  BY <1>0, <1>a, <1>3 DEF Claims
<1>4. ASSUME NEW r \in Requests, NEW j \in 1..TotalJobs, Get(r, j)
      PROVE  ClaimIsHonoured'
  <2> DEFINE q == [at |-> "waiting", of |-> "registry", job |-> j]
  <2>1. /\ requests[r].at = "idle" /\ requests' = [requests EXCEPT ![r] = q]
        /\ UNCHANGED jobs
    BY <1>4 DEF Get, hub
  <2>2. q.of # "hub"
    OBVIOUS
  <2> HIDE DEF q
  <2>3. \A i \in 1..TotalJobs : Holders(i)' = Holders(i)
    BY <2>1, <2>2 DEF Holders
  <2> QED BY <1>3, <2>1, <2>3
<1>5. ASSUME NEW r \in Requests, StartSynthesis(r)
      PROVE  ClaimIsHonoured'
  <2> DEFINE q == [requests[r] EXCEPT !.at = "synthesizing"]
  <2>1. /\ requests[r].at = "waiting" /\ requests' = [requests EXCEPT ![r] = q]
        /\ UNCHANGED jobs
    BY <1>5 DEF StartSynthesis, hub
  <2>2. q.at = "synthesizing" /\ q.of = requests[r].of /\ q.job = requests[r].job
    BY DEF Request
  <2> HIDE DEF q
  <2>3. \A i \in 1..TotalJobs : Holders(i)' = Holders(i)
    BY <2>1, <2>2 DEF Holders
  <2> QED BY <1>3, <2>1, <2>3
<1>6. ASSUME NEW r \in Requests, Ends(r)
      PROVE  ClaimIsHonoured'
  <2>0. PICK j \in 1..TotalJobs : j = requests[r].job
    BY <1>6, EndsKeeps
  <2>1. /\ requests[r].at # "idle" /\ requests' = [requests EXCEPT ![r] = Idle]
        /\ \/ /\ requests[r].of = "hub" /\ j \in DOMAIN jobs /\ jobs[j].inFlight > 0
              /\ \E stored \in BOOLEAN : GivesUp(j, stored)
           \/ requests[r].of = "registry" /\ UNCHANGED jobs
    BY <1>6, <2>0, EndsKeeps
  <2>2. Idle.at = "idle"
    BY DEF Idle
  <2>3. CASE requests[r].of = "registry"
    <3>1. \A i \in 1..TotalJobs : Holders(i)' = Holders(i)
      BY <2>1, <2>2, <2>3 DEF Holders
    <3> QED BY <1>3, <2>1, <2>3, <3>1
  <2>4. CASE requests[r].of = "hub"
    <3>1. r \in Holders(j)
      BY <2>0, <2>1, <2>4 DEF Holders
    <3>2. \A i \in 1..TotalJobs :
            Holders(i)' = IF i = j THEN Holders(i) \ {r} ELSE Holders(i)
      BY <2>0, <2>1, <2>2 DEF Holders
    <3>3. PICK stored \in BOOLEAN : GivesUp(j, stored)
      BY <2>1, <2>4
    <3>4. /\ j \in DOMAIN jobs /\ jobs[j].inFlight \in Nat
          /\ Cardinality(Holders(j)) = jobs[j].inFlight
          /\ Cardinality(Holders(j) \ {r}) = jobs[j].inFlight - 1
      <4>1. Cardinality(Holders(j) \ {r}) = Cardinality(Holders(j)) - 1
        BY <1>0, <3>1, FS_RemoveElement
      <4> QED BY <1>0, <2>1, <2>4, <4>1 DEF Claims
    <3>5. Cardinality(Holders(j)') = Claims(j)'
      <4>1. Holders(j)' = Holders(j) \ {r}
        BY <3>2
      <4>2. /\ j \in DOMAIN jobs' => jobs'[j].inFlight = jobs[j].inFlight - 1
            /\ j \notin DOMAIN jobs' => jobs[j].inFlight = 1
        BY <3>3, <3>4 DEF GivesUp
      <4>3. Claims(j)' = jobs[j].inFlight - 1
        BY <3>4, <4>2 DEF Claims
      <4> QED BY <3>4, <4>1, <4>3
    <3>6. \A i \in 1..TotalJobs : i # j => Cardinality(Holders(i)') = Claims(i)'
      BY <1>0, <3>2, <3>3 DEF GivesUp, Claims
    <3> QED BY <1>a, <3>5, <3>6
  <2> QED BY <2>1, <2>3, <2>4
<1> QED BY <1>1, <1>2, <1>4, <1>5, <1>6, Steps

(* A request that holds a claim on a job of the hub finds that job until it *)
(* is answered: the claims on a job are as many as its inFlight, and a job  *)
(* that has gone has none (broadcast.py, _prune_locked and                  *)
(* _cleanup_job_locked).                                                    *)
THEOREM ClaimsAreHonoured == Spec => []ClaimIsHonoured
<1>1. Init => Kinds /\ ClaimIsHonoured
  BY InitKinds
<1>2. Kinds /\ ClaimIsHonoured /\ [Next]_vars => (Kinds /\ ClaimIsHonoured)'
  BY StepKinds, StepHonoured
<1> QED BY <1>1, <1>2, PTL DEF Spec

(* Every job the hub retains has a registered listener who has not          *)
(* acknowledged it, or a request that holds it (broadcast.py, unregister    *)
(* and _cleanup_job_locked).                                                *)
THEOREM NothingIsOrphaned == Spec => []NoOrphan
<1>1. Init => Kinds /\ ClaimIsHonoured /\ NoOrphan
  BY InitKinds
<1>2. Kinds /\ ClaimIsHonoured /\ NoOrphan /\ [Next]_vars
        => (Kinds /\ ClaimIsHonoured /\ NoOrphan)'
  BY StepKinds, StepHonoured, StepGrows DEF Grows
<1> QED BY <1>1, <1>2, PTL DEF Spec

(* A job that the hub or the registry no longer has does not come back, not *)
(* even with the audio of a synthesis that was under way (jobs.py,          *)
(* store_audio; broadcast.py, _store_audio).                                *)
THEOREM GoneJobsStayGone == Spec => GoneStaysGone
<1> DEFINE Stay == \A j \in 1..issued :
                     j \notin DOMAIN jobs \cup DOMAIN private =>
                       j \notin DOMAIN jobs' \cup DOMAIN private'
<1>1. Init => Kinds /\ ClaimIsHonoured
  BY InitKinds
<1>2. Kinds /\ ClaimIsHonoured /\ [Next]_vars => (Kinds /\ ClaimIsHonoured)'
  BY StepKinds, StepHonoured
<1>3. Kinds /\ ClaimIsHonoured /\ [Next]_vars => [Stay]_vars
  <2> SUFFICES ASSUME Kinds, Grows PROVE Stay
    BY StepGrows
  <2>1. (1..issued) \cap ((issued + 1)..issued') = {}
    BY PullAssumption DEF Kinds
  <2> QED BY <2>1 DEF Grows
<1> QED BY <1>1, <1>2, <1>3, PTL DEF Spec, GoneStaysGone

-------------------------------------------------------------------------------
(* One synthesis for each job. *)

(* One request synthesizes at a time, for a job without audio; and a job    *)
(* without audio was never synthesized.                                     *)
Once ==
    /\ \A r, s \in Requests :
         requests[r].at = "synthesizing" /\ requests[s].at = "synthesizing" => r = s
    /\ \A r \in Requests :
         requests[r].at = "synthesizing" => made[requests[r].job] = 0
    /\ \A j \in 1..TotalJobs : made[j] \in {0, 1} /\ (j > issued => made[j] = 0)
    /\ \A j \in DOMAIN jobs : ~jobs[j].audio => made[j] = 0
    /\ \A j \in DOMAIN private : ~private[j].audio => made[j] = 0

(* Audio that is there stays, as long as its job does.                      *)
AudioStays ==
    /\ \A j \in DOMAIN jobs' \cap DOMAIN jobs : jobs[j].audio => jobs'[j].audio
    /\ \A j \in DOMAIN private' \cap DOMAIN private : private[j].audio => private'[j].audio

LEMMA OnceStays ==
    ASSUME Kinds, ClaimIsHonoured, Once, [Next]_vars,
           AudioStays, UNCHANGED made,
           \A r \in Requests :
             requests'[r].at = "synthesizing" => requests'[r] = requests[r]
    PROVE  Once'
<1> USE DEF Kinds
<1>1. Grows /\ Kinds'
  BY StepGrows, StepKinds
<1>2. issued \in Nat /\ issued' \in Nat /\ issued <= issued' /\ issued' <= TotalJobs
      /\ TotalJobs \in Nat
  BY <1>1, PullAssumption DEF Grows
<1>3. \A j \in (issued + 1)..issued' : j \in 1..TotalJobs /\ made[j] = 0
  BY <1>2 DEF Once
<1>4. /\ \A j \in DOMAIN jobs' : ~jobs'[j].audio => made'[j] = 0
      /\ \A j \in DOMAIN private' : ~private'[j].audio => made'[j] = 0
  BY <1>1, <1>3 DEF Grows, Once, AudioStays
<1>5. \A j \in 1..TotalJobs : made'[j] \in {0, 1} /\ (j > issued' => made'[j] = 0)
  BY <1>2 DEF Once
<1>6. /\ \A r, s \in Requests :
           requests'[r].at = "synthesizing" /\ requests'[s].at = "synthesizing" => r = s
      /\ \A r \in Requests :
           requests'[r].at = "synthesizing" => made'[requests'[r].job] = 0
  BY DEF Once
<1> QED BY <1>4, <1>5, <1>6 DEF Once

LEMMA StepOnce ==
    ASSUME Kinds, ClaimIsHonoured, Once, [Next]_vars
    PROVE  Once'
<1> USE DEF Kinds
<1>1. CASE Loses \/ Elsewhere \/ Publish
  <2>1. UNCHANGED << requests, made >> /\ AudioStays
    <3>1. CASE Loses
      BY <3>1, LosesKeeps DEF AudioStays, Keeps
    <3>2. CASE Elsewhere
      BY <3>2, ElsewhereKeeps DEF AudioStays
    <3>3. CASE Publish
      <4>1. UNCHANGED << requests, made, private >> /\ issued' \notin DOMAIN jobs
        <5>1. issued \in Nat /\ issued + 1 \notin DOMAIN jobs
          BY PullAssumption
        <5>2. UNCHANGED << requests, made, private >> /\ issued' = issued + 1
          BY <3>3, PublishAdds
        <5> QED BY <5>1, <5>2
      <4>2. \A j \in DOMAIN jobs' \ {issued'} : jobs'[j].audio = jobs[j].audio
        BY <3>3, PublishAdds
      <4> QED BY <4>1, <4>2 DEF AudioStays
    <3> QED BY <1>1, <3>1, <3>2, <3>3
  <2> QED BY <2>1, OnceStays
<1>2. ASSUME NEW r \in Requests, NEW l \in Listeners, NEW j \in 1..TotalJobs, Claim(r, l, j)
      PROVE  Once'
  <2> DEFINE q == [at |-> "waiting", of |-> "hub", job |-> j]
  <2>1. requests' = [requests EXCEPT ![r] = q] /\ made' = made /\ AudioStays
    BY SMTT(30), <1>2, ClaimAdds DEF AudioStays
  <2>2. q.at # "synthesizing"
    OBVIOUS
  <2> HIDE DEF q
  <2> QED BY <2>1, <2>2, OnceStays
<1>3. ASSUME NEW r \in Requests, NEW j \in 1..TotalJobs, Get(r, j)
      PROVE  Once'
  <2> DEFINE q == [at |-> "waiting", of |-> "registry", job |-> j]
  <2>1. requests' = [requests EXCEPT ![r] = q] /\ made' = made /\ AudioStays
    BY <1>3, LiveKeeps DEF AudioStays, Get, hub
  <2>2. q.at # "synthesizing"
    OBVIOUS
  <2> HIDE DEF q
  <2> QED BY <2>1, <2>2, OnceStays
<1>4. ASSUME NEW r \in Requests, StartSynthesis(r)
      PROVE  Once'
  <2> DEFINE q == [requests[r] EXCEPT !.at = "synthesizing"]
  <2>1. /\ requests[r].at = "waiting" /\ requests' = [requests EXCEPT ![r] = q]
        /\ UNCHANGED << jobs, private, issued, made >>
        /\ \A s \in Requests : requests[s].at # "synthesizing"
        /\ Found(r) /\ NoAudio(r)
    BY <1>4 DEF StartSynthesis, LockFree, hub
  <2>2. q.at = "synthesizing" /\ q.job = requests[r].job
    BY DEF Request
  <2>3. made[requests[r].job] = 0
    <3>1. CASE requests[r].of = "hub"
      BY <2>1, <3>1 DEF Once, Found, NoAudio
    <3>2. CASE requests[r].of # "hub"
      BY <2>1, <3>2, LiveKeeps DEF Once, Found, NoAudio
    <3> QED BY <3>1, <3>2
  <2> HIDE DEF q
  <2> QED BY <2>1, <2>2, <2>3 DEF Once
<1>5. ASSUME NEW r \in Requests, Ends(r)
      PROVE  Once'
  <2>0. PICK j \in 1..TotalJobs : j = requests[r].job
    BY <1>5, EndsKeeps
  <2>1. PICK stored \in BOOLEAN :
          /\ requests[r].at # "idle" /\ requests' = [requests EXCEPT ![r] = Idle]
          /\ UNCHANGED issued /\ (stored => requests[r].at = "synthesizing")
          /\ made' = IF stored THEN [made EXCEPT ![j] = @ + 1] ELSE made
          /\ \/ /\ requests[r].of = "hub" /\ UNCHANGED private
                /\ j \in DOMAIN jobs /\ GivesUp(j, stored)
             \/ /\ requests[r].of = "registry" /\ UNCHANGED jobs
                /\ IF stored THEN Registers(j) ELSE UNCHANGED private
    BY <1>5, <2>0, EndsKeeps
  <2>2. Idle.at = "idle"
    BY DEF Idle
  <2>3. AudioStays
    <3>1. CASE requests[r].of = "hub"
      BY <2>1, <3>1 DEF AudioStays, GivesUp
    <3>2. CASE requests[r].of = "registry"
      BY <2>1, <3>2 DEF AudioStays, Registers
    <3> QED BY <2>1, <3>1, <3>2
  <2>4. CASE ~stored
    <3>1. made' = made
      BY <2>1, <2>4
    <3>2. \A s \in Requests :
            requests'[s].at = "synthesizing" => requests'[s] = requests[s]
      BY <2>1, <2>2
    <3> QED BY <2>3, <3>1, <3>2, OnceStays
  <2>5. CASE stored
    <3>1. /\ requests[r].at = "synthesizing" /\ made[j] = 0 /\ made[j] \in Nat
          /\ made' = [made EXCEPT ![j] = @ + 1] /\ j \in 1..issued
      BY <2>0, <2>1, <2>5 DEF Once
    <3>2. made'[j] = 1 /\ \A i \in 1..TotalJobs \ {j} : made'[i] = made[i]
      BY <3>1
    <3>3. \A s \in Requests : requests'[s].at # "synthesizing"
      BY <2>1, <2>2, <3>1 DEF Once
    <3>4. \A i \in 1..TotalJobs : made'[i] \in {0, 1} /\ (i > issued' => made'[i] = 0)
      <4>1. issued' = issued /\ issued \in Nat /\ ~(j > issued)
        BY <2>1, <3>1, PullAssumption
      <4> QED BY <3>2, <4>1 DEF Once
    <3>5. \A i \in 1..issued : i \in 1..TotalJobs
      BY PullAssumption
    <3>6. \A i \in DOMAIN jobs' : ~jobs'[i].audio => made'[i] = 0
      <4>1. CASE requests[r].of = "hub"
        <5>1. \A i \in DOMAIN jobs' : jobs'[i].audio = (jobs[i].audio \/ i = j)
          BY <2>1, <2>5, <4>1 DEF GivesUp
        <5>2. DOMAIN jobs' \subseteq DOMAIN jobs
          BY <2>1, <4>1 DEF GivesUp
        <5> QED BY <3>2, <3>5, <5>1, <5>2 DEF Once
      <4>2. CASE requests[r].of = "registry"
        <5>1. jobs' = jobs /\ j \notin DOMAIN jobs
          BY <2>0, <2>1, <4>2
        <5> QED BY <3>2, <3>5, <5>1 DEF Once
      <4> QED BY <2>1, <4>1, <4>2
    <3>7. \A i \in DOMAIN private' : ~private'[i].audio => made'[i] = 0
      <4>1. CASE requests[r].of = "registry"
        BY <2>1, <2>5, <3>2, <3>5, <4>1 DEF Registers, Once
      <4>2. CASE requests[r].of = "hub"
        <5>1. private' = private /\ j \notin DOMAIN private
          BY <2>0, <2>1, <4>2
        <5> QED BY <3>2, <3>5, <5>1 DEF Once
      <4> QED BY <2>1, <4>1, <4>2
    <3> QED BY <3>3, <3>4, <3>6, <3>7 DEF Once
  <2> QED BY <2>4, <2>5
<1> QED BY <1>1, <1>2, <1>3, <1>4, <1>5, Steps

(* However many requests ask for a job's audio and whatever happens to the  *)
(* job meanwhile, it is synthesized at most once: who waited for the lock   *)
(* looks again (demo_streaming_ws.py, the audio routes).                    *)
THEOREM MadeOnce == Spec => []OncePerJob
<1>1. Init => Kinds /\ ClaimIsHonoured /\ Once
  <2> SUFFICES ASSUME Init PROVE Once
    BY InitKinds
  <2>1. /\ jobs = << >> /\ private = << >> /\ made = [j \in 1..TotalJobs |-> 0]
        /\ \A r \in Requests : requests[r].at = "idle"
    BY DEF Init, Idle
  <2> QED BY <2>1 DEF Once
<1>2. Kinds /\ ClaimIsHonoured /\ Once /\ [Next]_vars
        => (Kinds /\ ClaimIsHonoured /\ Once)'
  BY StepKinds, StepHonoured, StepOnce
<1>3. Once => OncePerJob
  BY DEF Once, OncePerJob
<1> QED BY <1>1, <1>2, <1>3, PTL DEF Spec

-------------------------------------------------------------------------------
(* What a listener hears. *)

(* Events are job numbers, and numbers that are no job's for a change of    *)
(* the producer.                                                            *)
Streams ==
    /\ published \in Seq(Int) /\ switches \in Nat
    /\ queue \in [Listeners -> Seq(Int)] /\ sent \in [Listeners -> Seq(Int)]
    /\ joined \in [Listeners -> Nat]
    /\ \A l \in Listeners : /\ joined[l] <= Len(published)
                            /\ conn[l] = "new" => queue[l] = << >> /\ sent[l] = << >>

Gapless == \A l \in Registered : sent[l] \o queue[l] = Owed(l)

Serves(J, l, j) == j \in DOMAIN J /\ l \in J[j].pending

Reachable ==
    \A l \in Registered : \A j \in Range(Owed(l)) \cap (1..TotalJobs) :
        << l, j >> \notin acked /\ j \notin expired => Serves(jobs, l, j)

LEMMA HearsIs == EveryListenerHears <=> Gapless /\ Reachable
BY DEF EveryListenerHears, Gapless, Reachable, Serves

(* What is owed begins after the events of before, and one more is owed     *)
(* when one more is published.                                              *)
LEMMA OwedGrows ==
    ASSUME NEW s \in Seq(Int), NEW m \in Nat, m <= Len(s), NEW e \in Int
    PROVE  /\ SubSeq(s, m + 1, Len(s)) \in Seq(Int)
           /\ SubSeq(Append(s, e), m + 1, Len(Append(s, e)))
                = Append(SubSeq(s, m + 1, Len(s)), e)
<1> DEFINE t == Append(s, e)
           n == Len(s)
<1>1. t \in Seq(Int) /\ Len(t) = n + 1 /\ n \in Nat /\ t[n + 1] = e
      /\ \A i \in 1..n : t[i] = s[i]
  BY AppendProperties
<1>2. \A i \in (m + 1)..n : s[i] \in Int
  BY <1>1, ElementOfSeq
<1>3. \A i \in (m + 1)..(n + 1) : t[i] \in Int
  BY <1>1, ElementOfSeq
<1> DEFINE u == SubSeq(s, m + 1, n)
           v == SubSeq(t, m + 1, n + 1)
<1>4. u \in Seq(Int) /\ Len(u) = n - m /\ \A i \in 1..(n - m) : u[i] = s[m + i]
  <2>1. /\ u \in Seq(Int) /\ Len(u) = IF m + 1 <= n THEN n - (m + 1) + 1 ELSE 0
        /\ \A i \in 1..(n - (m + 1) + 1) : u[i] = s[m + 1 + i - 1]
    BY <1>1, <1>2, SubSeqProperties
  <2>2. n - (m + 1) + 1 = n - m /\ \A i \in Int : m + 1 + i - 1 = m + i
    BY <1>1
  <2> HIDE DEF u, t
  <2>3. Len(u) = n - m
    BY <1>1, <2>1
  <2>4. ASSUME NEW i \in 1..(n - m) PROVE u[i] = s[m + i]
    <3>1. i \in 1..(n - (m + 1) + 1) /\ m + 1 + i - 1 = m + i
      BY <1>1
    <3>2. u[i] = s[m + 1 + i - 1]
      BY <2>1, <3>1
    <3> QED BY <3>1, <3>2
  <2> QED BY <2>1, <2>3, <2>4
<1>5. v \in Seq(Int) /\ Len(v) = n - m + 1 /\ \A i \in 1..(n - m + 1) : v[i] = t[m + i]
  <2>1. /\ v \in Seq(Int) /\ Len(v) = IF m + 1 <= n + 1 THEN (n + 1) - (m + 1) + 1 ELSE 0
        /\ \A i \in 1..((n + 1) - (m + 1) + 1) : v[i] = t[m + 1 + i - 1]
    BY <1>1, <1>3, SubSeqProperties
  <2>2. (n + 1) - (m + 1) + 1 = n - m + 1 /\ \A i \in Int : m + 1 + i - 1 = m + i
    BY <1>1
  <2> QED BY <1>1, <2>1, <2>2
<1> HIDE DEF u, v, t, n
<1>6. /\ Append(u, e) \in Seq(Int) /\ Len(Append(u, e)) = n - m + 1
      /\ \A i \in 1..(n - m) : Append(u, e)[i] = u[i]
      /\ Append(u, e)[n - m + 1] = e
  BY <1>4, AppendProperties
<1>7. ASSUME NEW i \in 1..(n - m + 1) PROVE v[i] = Append(u, e)[i]
  <2>1. CASE i = n - m + 1
    <3>1. m + i = n + 1
      BY <1>1, <2>1
    <3> QED BY <1>1, <1>5, <1>6, <2>1, <3>1
  <2>2. CASE i # n - m + 1
    <3>1. i \in 1..(n - m) /\ m + i \in 1..n
      BY <1>1, <2>2
    <3> QED BY <1>1, <1>4, <1>5, <1>6, <1>7, <3>1
  <2> QED BY <2>1, <2>2
<1>8. v = Append(u, e)
  BY <1>5, <1>6, <1>7, SeqEqual
<1> QED BY <1>1, <1>4, <1>8 DEF u, v, t, n

LEMMA OwedType == Streams => \A l \in Listeners : Owed(l) \in Seq(Int)
<1> SUFFICES ASSUME Streams, NEW l \in Listeners PROVE Owed(l) \in Seq(Int)
  OBVIOUS
<1>1. 0 \in Int /\ published \in Seq(Int) /\ joined[l] \in Nat /\ joined[l] <= Len(published)
  BY DEF Streams
<1> QED BY <1>1, OwedGrows DEF Owed

(* What is sent and what waits, when an event is added or sent.             *)
LEMMA AddedLast ==
    ASSUME NEW s \in Seq(Int), NEW q \in Seq(Int), NEW e \in Int
    PROVE  s \o Append(q, e) = Append(s \o q, e)
<1> DEFINE c == << e >>
<1>1. c \in Seq(Int) /\ s \o q \in Seq(Int)
  BY ConcatProperties
<1>2. Append(q, e) = q \o c /\ Append(s \o q, e) = (s \o q) \o c
  BY <1>1, AppendIsConcat
<1> HIDE DEF c
<1>3. (s \o q) \o c = s \o (q \o c)
  BY SMTT(30), <1>1, ConcatAssociative
<1> QED BY <1>2, <1>3

LEMMA MovedFirst ==
    ASSUME NEW s \in Seq(Int), NEW q \in Seq(Int), q # << >>
    PROVE  Append(s, Head(q)) \o Tail(q) = s \o q
<1> DEFINE c == << Head(q) >>
           r == Tail(q)
<1>1. Head(q) \in Int /\ c \in Seq(Int) /\ r \in Seq(Int)
  BY HeadTailProperties
<1>2. Len(q) \in Nat \ {0}
  BY EmptySeq
<1>3. 1 \in 1..Len(q) /\ Len(q) \in 1..Len(q)
  BY <1>2
<1>4. SubSeq(q, 1, Len(q)) = << q[1] >> \o SubSeq(q, 1 + 1, Len(q))
  BY <1>3, SubSeqRecursiveFirst
<1>5. SubSeq(q, 1, Len(q)) = q /\ r = SubSeq(q, 2, Len(q)) /\ q[1] = Head(q)
  BY SubSeqFull, TailIsSubSeq
<1>6. q = c \o r
  BY <1>4, <1>5
<1>7. Append(s, Head(q)) = s \o c
  BY <1>1, AppendIsConcat
<1> HIDE DEF c, r
<1>8. (s \o c) \o r = s \o (c \o r)
  BY SMTT(30), <1>1, ConcatAssociative
<1> QED BY <1>6, <1>7, <1>8 DEF r

(* An event for everybody who is registered and has room for it.            *)
LEMMA BroadcastFlows ==
    ASSUME Streams, Gapless, NEW e \in Int, Broadcast(e), UNCHANGED << sent, joined >>,
           switches' \in Nat
    PROVE  /\ Streams' /\ Gapless' /\ Registered' = Registered \ Overflows
           /\ \A l \in Registered' : Range(Owed(l)') = Range(Owed(l)) \cup {e}
<1>1. /\ published' = Append(published, e)
      /\ queue' = [l \in Listeners |-> IF l \in Registered \ Overflows
                                       THEN Append(queue[l], e) ELSE queue[l]]
      /\ conn' = [l \in Listeners |-> IF l \in Overflows THEN "overflowed" ELSE conn[l]]
      /\ UNCHANGED << sent, joined >>
  BY DEF Broadcast, Delivered
<1>2. Registered' = Registered \ Overflows
  BY <1>1 DEF Registered, Overflows
<1>3. published' \in Seq(Int) /\ Len(published') = Len(published) + 1
      /\ Len(published) \in Nat
  BY <1>1, AppendProperties DEF Streams
<1>4. \A l \in Listeners : queue[l] \in Seq(Int) /\ Append(queue[l], e) \in Seq(Int)
  BY AppendProperties DEF Streams
<1>5. Streams'
  <2>1. queue' \in [Listeners -> Seq(Int)]
    BY <1>1, <1>4
  <2>2. \A l \in Listeners : joined'[l] <= Len(published')
    BY <1>1, <1>3 DEF Streams
  <2>3. \A l \in Listeners : conn'[l] = "new" => queue'[l] = << >> /\ sent'[l] = << >>
    BY <1>1 DEF Streams, Registered
  <2> QED BY <1>1, <1>3, <2>1, <2>2, <2>3 DEF Streams
<1>6. ASSUME NEW l \in Registered'
      PROVE  /\ sent'[l] \o queue'[l] = Owed(l)'
             /\ Range(Owed(l)') = Range(Owed(l)) \cup {e}
  <2>1. /\ l \in Listeners /\ l \in Registered /\ queue'[l] = Append(queue[l], e)
        /\ sent'[l] = sent[l] /\ joined'[l] = joined[l]
    BY <1>1, <1>2 DEF Registered
  <2> DEFINE o == Owed(l)
  <2>2. o \in Seq(Int) /\ Owed(l)' = Append(o, e)
    <3>1. joined[l] \in Nat /\ joined[l] <= Len(published) /\ published \in Seq(Int)
      BY <2>1 DEF Streams
    <3>2. SubSeq(published', joined'[l] + 1, Len(published'))
             = Append(SubSeq(published, joined[l] + 1, Len(published)), e)
      BY <1>1, <2>1, <3>1, OwedGrows
    <3> QED BY <2>1, <3>2, OwedType DEF Owed
  <2>3. sent[l] \o queue[l] = o /\ sent[l] \in Seq(Int) /\ queue[l] \in Seq(Int)
    BY <2>1 DEF Gapless, Streams
  <2> DEFINE c == << e >>
  <2>4. c \in Seq(Int) /\ Range(c) = {e} /\ Append(o, e) = o \o c
    BY <2>2, AppendIsConcat DEF Range
  <2> HIDE DEF o, c
  <2>5. sent'[l] \o queue'[l] = Append(o, e)
    BY <2>1, <2>3, AddedLast
  <2>6. Range(o \o c) = Range(o) \cup Range(c)
    BY <2>2, <2>4, RangeConcatenation
  <2> QED BY <2>2, <2>4, <2>5, <2>6 DEF o
<1>7. Gapless'
  BY <1>6 DEF Gapless
<1> QED BY <1>2, <1>5, <1>6, <1>7

LEMMA PublishFlows ==
    ASSUME Kinds, Streams, Publish
    PROVE  /\ Broadcast(issued + 1) /\ UNCHANGED << sent, joined >> /\ switches' \in Nat
           /\ issued + 1 \in Int
BY DEF Publish, Kinds, Streams

(* The other steps publish nothing: a listener registers, is sent the next  *)
(* event, or leaves, or nothing happens to the listeners.                   *)
Silent ==
    /\ published' = published /\ switches' \in Nat
    /\ \/ /\ UNCHANGED << joined, sent, queue >> /\ Registered' \subseteq Registered
          /\ \A l \in Listeners : conn'[l] = "new" => conn[l] = "new"
       \/ \E l \in Listeners : Register(l) \/ Send(l)

LEMMA WhoPublishes ==
    ASSUME Kinds, Streams, [Next]_vars
    PROVE  SetProducerActive \/ Publish \/ Silent
<1> USE DEF Kinds, Streams
<1>1. ASSUME UNCHANGED << published, switches, conn, joined, sent, queue >> PROVE Silent
  BY <1>1 DEF Silent, Registered
<1>2. ASSUME NEW l \in Listeners, Register(l) \/ Send(l) PROVE Silent
  BY <1>2 DEF Silent, Register, Send
<1>3. ASSUME NEW l \in Listeners, Disconnect(l) PROVE Silent
  <2>1. /\ conn' = [conn EXCEPT ![l] = "gone"]
        /\ UNCHANGED << published, switches, joined, sent, queue >>
    BY <1>3 DEF Disconnect
  <2> QED BY <2>1 DEF Silent, Registered
<1>4. CASE \E l \in Listeners, j \in 1..TotalJobs : Acknowledge(l, j)
  BY <1>1, <1>4 DEF Acknowledge
<1>5. CASE Prune
  BY <1>1, <1>5 DEF Prune
<1>6. CASE \E j \in 1..TotalJobs : Expire(j) \/ Delete(j)
  BY <1>1, <1>6 DEF Expire, Delete, hub
<1>7. CASE \E c \in Clients : Create(c) \/ CancelClient(c)
  BY <1>1, <1>7 DEF Create, CancelClient, hub
<1>8. CASE \E r \in Requests, l \in Listeners, j \in 1..TotalJobs : Claim(r, l, j)
  BY <1>1, <1>8 DEF Claim
<1>9. CASE \E r \in Requests, j \in 1..TotalJobs : Get(r, j)
  BY <1>1, <1>9 DEF Get, hub
<1>10. CASE \E r \in Requests : StartSynthesis(r) \/ Ends(r)
  BY <1>1, <1>10 DEF StartSynthesis, Ends, AnswerAtOnce, Synthesized, SynthesisFails,
                     Answered, hub
<1>11. CASE UNCHANGED vars
  BY <1>1, <1>11 DEF vars, hub
<1> QED BY <1>2, <1>3, <1>4, <1>5, <1>6, <1>7, <1>8, <1>9, <1>10, <1>11 DEF Next, Ends

LEMMA SilentFlows ==
    ASSUME Streams, Gapless, Silent
    PROVE  /\ Streams' /\ Gapless'
           /\ \A l \in Registered' : \/ l \in Registered /\ Owed(l)' = Owed(l)
                                     \/ Owed(l)' = << >>
<1> USE DEF Streams
<1>1. CASE /\ UNCHANGED << published, joined, sent, queue >> /\ Registered' \subseteq Registered
           /\ \A l \in Listeners : conn'[l] = "new" => conn[l] = "new"
  <2>1. \A l \in Listeners : Owed(l)' = Owed(l)
    BY <1>1 DEF Owed
  <2>2. Registered \subseteq Listeners
    BY DEF Registered
  <2> QED BY <1>1, <2>1, <2>2 DEF Gapless, Silent
<1>2. ASSUME NEW l \in Listeners, Register(l)
      PROVE  /\ Streams' /\ Gapless'
             /\ \A k \in Registered' : \/ k \in Registered /\ Owed(k)' = Owed(k)
                                       \/ Owed(k)' = << >>
  <2>1. /\ conn[l] = "new" /\ conn' = [conn EXCEPT ![l] = "open"]
        /\ joined' = [joined EXCEPT ![l] = Len(published)]
        /\ UNCHANGED << queue, sent, published, switches >>
    BY <1>2 DEF Register
  <2>2. Len(published) \in Nat
    BY LenProperties
  <2>3. /\ \A k \in Registered' : k \in Listeners /\ (k # l => k \in Registered)
    BY <2>1 DEF Registered
  <2>4. Streams'
    BY SMTT(30), <2>1, <2>2
  <2>5. Owed(l)' = << >> /\ sent'[l] \o queue'[l] = << >>
    <3>1. joined'[l] = Len(published)
      BY <2>1
    <3>2. SubSeq(published, Len(published) + 1, Len(published)) = << >>
      BY <2>2, SubSeqEmpty
    <3>3. sent'[l] = << >> /\ queue'[l] = << >> /\ << >> \in Seq(Int)
      BY <2>1
    <3>4. << >> \o << >> = << >>
      BY <3>3, ConcatEmptySeq
    <3> QED BY <2>1, <3>1, <3>2, <3>3, <3>4 DEF Owed
  <2>6. \A k \in Registered' : k # l => Owed(k)' = Owed(k)
    BY <2>1, <2>3 DEF Owed
  <2>7. Gapless'
    BY <2>1, <2>3, <2>5, <2>6 DEF Gapless
  <2> QED BY <2>3, <2>4, <2>5, <2>6, <2>7
<1>3. ASSUME NEW l \in Listeners, Send(l)
      PROVE  /\ Streams' /\ Gapless'
             /\ \A k \in Registered' : \/ k \in Registered /\ Owed(k)' = Owed(k)
                                       \/ Owed(k)' = << >>
  <2>1. /\ conn[l] = "open" /\ queue[l] # << >>
        /\ sent' = [sent EXCEPT ![l] = Append(sent[l], Head(queue[l]))]
        /\ queue' = [queue EXCEPT ![l] = Tail(queue[l])]
        /\ UNCHANGED << conn, joined, published, switches >>
    BY <1>3 DEF Send
  <2> DEFINE q == queue[l]
             h == Head(q)
             s == sent[l]
  <2>2. q \in Seq(Int) /\ s \in Seq(Int) /\ q # << >>
    BY <2>1
  <2> HIDE DEF q, s
  <2>3. h \in Int /\ Tail(q) \in Seq(Int)
    BY <2>2, HeadTailProperties
  <2>4. Append(s, h) \in Seq(Int) /\ Append(s, h) \o Tail(q) = s \o q
    BY <2>2, <2>3, AppendProperties, MovedFirst
  <2>5. sent'[l] \o queue'[l] = sent[l] \o queue[l]
    BY <2>1, <2>4 DEF q, s
  <2>6. Streams'
    BY <2>1, <2>3, <2>4 DEF q, s
  <2>7. Registered' = Registered /\ \A k \in Listeners : Owed(k)' = Owed(k)
    BY <2>1 DEF Registered, Owed
  <2>8. \A k \in Registered : k \in Listeners /\ (k # l => sent'[k] = sent[k] /\ queue'[k] = queue[k])
    BY <2>1 DEF Registered
  <2> QED BY <2>5, <2>6, <2>7, <2>8 DEF Gapless
<1> QED BY <1>1, <1>2, <1>3 DEF Silent

-------------------------------------------------------------------------------
(* A job somebody waits for stays until it expires or that one has          *)
(* acknowledged it.                                                         *)
LEMMA PrunedServes ==
    ASSUME NEW J, NEW l, NEW j, j \notin expired, Serves(J, l, j)
    PROVE  Serves(Pruned(J), l, j) /\ Pruned(J)[j] = J[j]
BY DEF Serves, Pruned, Restrict

LEMMA CleanedUpServes ==
    ASSUME NEW J, NEW T, NEW l, NEW j, j \notin expired, Serves(J, l, j)
    PROVE  Serves(CleanedUp(J, T), l, j)
BY DEF Serves, CleanedUp, Restrict, Done

LEMMA UnregisteredServes ==
    ASSUME NEW J, J \in [DOMAIN J -> HubJob], NEW gone, NEW l, l \notin gone,
           NEW j, j \notin expired, Serves(J, l, j)
    PROVE  Serves(Unregistered(J, gone), l, j)
<1>1. CASE gone = {}
  BY <1>1 DEF Unregistered
<1>2. CASE gone # {}
  <2> DEFINE W == WithoutListeners(J, gone)
  <2>1. Serves(W, l, j)
    BY WithoutListenersKeeps DEF Serves
  <2> HIDE DEF W
  <2>2. Serves(CleanedUp(W, DOMAIN J), l, j)
    BY <2>1, CleanedUpServes
  <2> QED BY <1>2, <2>2 DEF W, Unregistered
<1> QED BY <1>1, <1>2

LEMMA ReleasedServes ==
    ASSUME NEW J, J \in [DOMAIN J -> HubJob], NEW i, NEW l, NEW j, j \notin expired,
           Serves(J, l, j)
    PROVE  Serves(Released(J, i), l, j)
<1> DEFINE L == [J EXCEPT ![i].inFlight = @ - 1]
<1>1. CASE i \in DOMAIN J
  <2>1. Serves(L, l, j)
    <3>1. CASE i = j
      <4>1. L[j] = [J[j] EXCEPT !.inFlight = J[j].inFlight - 1] /\ DOMAIN L = DOMAIN J
        BY <1>1, <3>1
      <4>2. J[j] \in HubJob
        BY <1>1, <3>1
      <4>3. L[j].pending = J[j].pending
        BY <4>1, <4>2 DEF HubJob
      <4> QED BY <4>1, <4>3 DEF Serves
    <3>2. CASE i # j
      BY <3>2 DEF Serves
    <3> QED BY <3>1, <3>2
  <2> HIDE DEF L
  <2>2. Serves(CleanedUp(L, {i}), l, j)
    BY <2>1, CleanedUpServes
  <2> QED BY <1>1, <2>2 DEF Released, L
<1>2. CASE i \notin DOMAIN J
  BY <1>2 DEF Released
<1> QED BY <1>1, <1>2

StillServes ==
    \A l \in Registered' : \A j \in 1..TotalJobs :
        Serves(jobs, l, j) /\ << l, j >> \notin acked' /\ j \notin expired' =>
            Serves(jobs', l, j)

LEMMA StepServes ==
    ASSUME Kinds, ClaimIsHonoured, [Next]_vars
    PROVE  acked \subseteq acked' /\ expired \subseteq expired' /\ StillServes
<1> USE DEF Kinds
<1> DEFINE Goal == acked \subseteq acked' /\ expired \subseteq expired' /\ StillServes
<1>1. ASSUME UNCHANGED << jobs, acked >>, expired \subseteq expired' PROVE Goal
  BY <1>1 DEF StillServes
<1>2. ASSUME jobs' = Pruned(jobs), UNCHANGED << acked, expired >> PROVE Goal
  BY <1>2, PrunedServes DEF StillServes
<1>3. CASE \E l \in Listeners : Register(l)
  BY <1>2, <1>3 DEF Register
<1>4. CASE Prune
  BY <1>2, <1>4 DEF Prune
<1>5. ASSUME NEW l \in Listeners, Disconnect(l) PROVE Goal
  <2>1. /\ jobs' = Unregistered(jobs, {l} \cap Registered) /\ l \notin Registered'
        /\ UNCHANGED << acked, expired >>
    BY <1>5 DEF Disconnect, Registered
  <2>2. \A k \in Registered' : k \notin {l} \cap Registered
    BY <2>1
  <2> QED BY <2>1, <2>2, UnregisteredServes DEF StillServes
<1>6. CASE SetProducerActive
  <2>1. /\ jobs' = Unregistered(jobs, Overflows) /\ UNCHANGED << acked, expired >>
        /\ \A k \in Registered' : k \notin Overflows
    BY <1>6 DEF SetProducerActive, Broadcast, Registered, Overflows
  <2> QED BY <2>1, UnregisteredServes DEF StillServes
<1>7. ASSUME NEW l \in Listeners, NEW i \in 1..TotalJobs, Acknowledge(l, i) PROVE Goal
  <2> DEFINE P == Pruned(jobs)
             A == [P EXCEPT ![i].pending = P[i].pending \ {l}]
  <2>1. /\ jobs' = CleanedUp(A, {i}) /\ i \in DOMAIN P /\ expired' = expired
        /\ acked' = acked \cup {<< l, i >>}
    BY <1>7 DEF Acknowledge
  <2>2. P \in [DOMAIN P -> HubJob]
    BY PrunedKeeps DEF Keeps
  <2>3. ASSUME NEW k \in Registered', NEW j \in 1..TotalJobs, Serves(jobs, k, j),
               << k, j >> \notin acked', j \notin expired'
        PROVE  Serves(jobs', k, j)
    <3>1. Serves(P, k, j)
      BY <2>1, <2>3, PrunedServes
    <3>2. ~(k = l /\ j = i)
      BY <2>1, <2>3
    <3> HIDE DEF P
    <3>3. Serves(A, k, j)
      <4>1. CASE i = j
        <5>1. A[j] = [P[j] EXCEPT !.pending = P[j].pending \ {l}] /\ DOMAIN A = DOMAIN P
          BY <2>1, <4>1
        <5>2. P[j] \in HubJob
          BY <2>1, <2>2, <4>1
        <5>3. A[j].pending = P[j].pending \ {l}
          BY <5>1, <5>2 DEF HubJob
        <5> QED BY <3>1, <3>2, <4>1, <5>1, <5>3 DEF Serves
      <4>2. CASE i # j
        BY <3>1, <4>2 DEF Serves
      <4> QED BY <4>1, <4>2
    <3> HIDE DEF A
    <3> QED BY <2>1, <2>3, <3>3, CleanedUpServes
  <2> QED BY <2>1, <2>3 DEF StillServes
<1>8. CASE Publish
  <2> DEFINE P == Pruned(jobs)
             n == issued + 1
             new == [pending |-> Registered, inFlight |-> 0, audio |-> FALSE]
             all == [i \in DOMAIN P \cup {n} |-> IF i = n THEN new ELSE jobs[i]]
  <2>1. /\ jobs' = Unregistered(all, Overflows) /\ UNCHANGED << acked, expired >>
        /\ \A k \in Registered' : k \notin Overflows
    BY <1>8 DEF Publish, Broadcast, Registered, Overflows
  <2>2. n \notin DOMAIN jobs /\ n \notin DOMAIN P
    BY PullAssumption, PrunedKeeps DEF Keeps
  <2>3. all \in [DOMAIN all -> HubJob]
    <3>1. new \in HubJob
      BY DEF HubJob, Registered
    <3>2. \A i \in DOMAIN P : jobs[i] \in HubJob
      BY PrunedKeeps DEF Keeps
    <3> HIDE DEF new, P
    <3> QED BY <3>1, <3>2
  <2>4. ASSUME NEW k \in Registered', NEW j \in 1..TotalJobs, Serves(jobs, k, j),
               << k, j >> \notin acked', j \notin expired'
        PROVE  Serves(jobs', k, j)
    <3>1. Serves(P, k, j)
      BY <2>1, <2>4, PrunedServes
    <3> HIDE DEF P
    <3>2. Serves(all, k, j)
      BY <2>2, <2>4, <3>1 DEF Serves
    <3> HIDE DEF all
    <3> QED BY <2>1, <2>3, <2>4, <3>2, UnregisteredServes
  <2> QED BY <2>1, <2>4 DEF StillServes
<1>9. ASSUME NEW r \in Requests, NEW l \in Listeners, NEW i \in 1..TotalJobs, Claim(r, l, i)
      PROVE  Goal
  <2> DEFINE P == Pruned(jobs)
             A == [P EXCEPT ![i].inFlight = P[i].inFlight + 1]
  <2>1. jobs' = A /\ UNCHANGED << acked, expired >> /\ i \in DOMAIN jobs \ expired
    BY <1>9 DEF Claim
  <2>2. P \in [DOMAIN P -> HubJob] /\ i \in DOMAIN P
    BY <2>1, PrunedKeeps DEF Keeps
  <2>3. ASSUME NEW k \in Registered', NEW j \in 1..TotalJobs, Serves(jobs, k, j),
               j \notin expired'
        PROVE  Serves(A, k, j)
    <3>1. Serves(P, k, j)
      BY <2>1, <2>3, PrunedServes
    <3> HIDE DEF P
    <3>2. CASE i = j
      <4>1. A[j] = [P[j] EXCEPT !.inFlight = P[j].inFlight + 1] /\ DOMAIN A = DOMAIN P
        BY <2>2, <3>2
      <4>2. P[j] \in HubJob
        BY <2>2, <3>2
      <4>3. A[j].pending = P[j].pending
        BY <4>1, <4>2 DEF HubJob
      <4> QED BY <3>1, <4>1, <4>3 DEF Serves
    <3>3. CASE i # j
      BY <3>1, <3>3 DEF Serves
    <3> QED BY <3>2, <3>3
  <2> QED BY <2>1, <2>3 DEF StillServes
<1>10. CASE \E r \in Requests, j \in 1..TotalJobs : Get(r, j)
  BY <1>1, <1>10 DEF Get, hub
<1>11. CASE \E r \in Requests : StartSynthesis(r)
  BY <1>1, <1>11 DEF StartSynthesis, hub
<1>12. ASSUME NEW r \in Requests, Ends(r) PROVE Goal
  <2> DEFINE i == requests[r].job
             K == WithAudio(jobs, i)
  <2>1. /\ UNCHANGED << acked, expired >>
        /\ jobs' = jobs \/ jobs' = Released(jobs, i) \/ jobs' = Released(K, i)
    BY <1>12 DEF Ends, AnswerAtOnce, Synthesized, SynthesisFails, Answered
  <2>2. /\ K \in [DOMAIN K -> HubJob]
        /\ \A k, j : Serves(jobs, k, j) => Serves(K, k, j)
    <3>1. CASE i \in DOMAIN jobs
      <4>1. /\ K \in [DOMAIN K -> HubJob] /\ DOMAIN K = DOMAIN jobs
            /\ K[i].pending = jobs[i].pending
            /\ \A x \in DOMAIN jobs \ {i} : K[x] = jobs[x]
        BY <3>1, WithAudioKeeps
      <4> HIDE DEF K, i
      <4> QED BY <3>1, <4>1 DEF Serves
    <3>2. CASE i \notin DOMAIN jobs
      BY <3>2 DEF WithAudio
    <3> QED BY <3>1, <3>2
  <2> HIDE DEF K, i
  <2> QED BY <2>1, <2>2, ReleasedServes DEF StillServes
<1>13. CASE Elsewhere
  <2>1. UNCHANGED << jobs, acked >> /\ expired \subseteq expired'
    BY <1>13 DEF Elsewhere, Send, Expire, Delete, Create, CancelClient, vars, hub
  <2> QED BY <1>1, <2>1
<1> QED BY <1>3, <1>4, <1>5, <1>6, <1>7, <1>8, <1>9, <1>10, <1>11, <1>12, <1>13, Steps DEF Loses

LEMMA StepHears ==
    ASSUME Kinds, ClaimIsHonoured, Streams, EveryListenerHears, [Next]_vars
    PROVE  Streams' /\ EveryListenerHears'
<1>0. Gapless /\ Reachable
  BY HearsIs
<1>1. acked \subseteq acked' /\ expired \subseteq expired' /\ StillServes
  BY StepServes
<1>2. ASSUME NEW l \in Registered, l \in Registered', NEW j \in 1..TotalJobs,
             j \in Range(Owed(l)), << l, j >> \notin acked', j \notin expired'
      PROVE  Serves(jobs', l, j)
  <2>1. Serves(jobs, l, j)
    BY <1>0, <1>1, <1>2 DEF Reachable
  <2> QED BY <1>1, <1>2, <2>1 DEF StillServes
<1>3. CASE SetProducerActive
  <2>1. /\ Broadcast(-switches) /\ UNCHANGED << sent, joined >> /\ switches' \in Nat
        /\ -switches \in Int /\ -switches \notin 1..TotalJobs
    BY <1>3 DEF SetProducerActive, Streams
  <2>2. /\ Streams' /\ Gapless' /\ Registered' \subseteq Registered
        /\ \A l \in Registered' : Range(Owed(l)') = Range(Owed(l)) \cup {-switches}
    BY <1>0, <2>1, BroadcastFlows
  <2>3. Reachable'
    BY <1>2, <2>1, <2>2 DEF Reachable
  <2> QED BY <2>2, <2>3, HearsIs, PTL
<1>4. CASE Publish
  <2> DEFINE n == issued + 1
             new == [pending |-> Registered, inFlight |-> 0, audio |-> FALSE]
             all == [i \in DOMAIN Pruned(jobs) \cup {n} |-> IF i = n THEN new ELSE jobs[i]]
  <2>1. /\ Streams' /\ Gapless' /\ Registered' = Registered \ Overflows
        /\ \A l \in Registered' : Range(Owed(l)') = Range(Owed(l)) \cup {n}
    BY <1>0, <1>4, PublishFlows, BroadcastFlows
  <2>2. jobs' = Unregistered(all, Overflows) /\ expired' = expired
    BY <1>4 DEF Publish
  <2>3. all \in [DOMAIN all -> HubJob]
    <3>1. new \in HubJob
      BY DEF HubJob, Registered
    <3>2. \A i \in DOMAIN Pruned(jobs) : jobs[i] \in HubJob
      BY PrunedKeeps DEF Keeps, Kinds
    <3> HIDE DEF new
    <3> QED BY <3>1, <3>2
  <2>4. ASSUME NEW l \in Registered', n \notin expired PROVE Serves(jobs', l, n)
    <3>1. Serves(all, l, n) /\ l \notin Overflows
      BY <2>1 DEF Serves
    <3> HIDE DEF all, n
    <3> QED BY <2>2, <2>3, <2>4, <3>1, UnregisteredServes
  <2> HIDE DEF n
  <2>5. Reachable'
    BY <1>2, <2>1, <2>2, <2>4 DEF Reachable
  <2> QED BY <2>1, <2>5, HearsIs, PTL
<1>5. CASE Silent
  <2>1. /\ Streams' /\ Gapless'
        /\ \A l \in Registered' : \/ l \in Registered /\ Owed(l)' = Owed(l)
                                  \/ Owed(l)' = << >>
    BY <1>0, <1>5, SilentFlows
  <2>2. Range(<< >>) = {}
    BY DEF Range
  <2>3. Reachable'
    BY <1>2, <2>1, <2>2 DEF Reachable
  <2> QED BY <2>1, <2>3, HearsIs, PTL
<1> QED BY <1>3, <1>4, <1>5, WhoPublishes

(* A registered listener gets every event since it registered, in order and *)
(* without a gap, however slow the others are, and can fetch its jobs until *)
(* it has acknowledged them or they expire (broadcast.py, publish and       *)
(* unregister).                                                             *)
THEOREM ListenersHear == Spec => []EveryListenerHears
<1>1. Init => Kinds /\ ClaimIsHonoured /\ Streams /\ EveryListenerHears
  <2> SUFFICES ASSUME Init PROVE Streams /\ EveryListenerHears
    BY InitKinds
  <2>1. << >> \in Seq(Int) /\ Len(<< >>) = 0
    BY EmptySeq
  <2>2. Registered = {}
    BY DEF Init, Registered
  <2> QED BY <2>1, <2>2 DEF Init, Streams, EveryListenerHears
<1>2. Kinds /\ ClaimIsHonoured /\ Streams /\ EveryListenerHears /\ [Next]_vars
        => (Kinds /\ ClaimIsHonoured /\ Streams /\ EveryListenerHears)'
  BY StepKinds, StepHonoured, StepHears
<1> QED BY <1>1, <1>2, PTL DEF Spec

-------------------------------------------------------------------------------
(* The limits. *)

Bounded ==
    /\ expired \subseteq 1..issued
    /\ Cardinality(DOMAIN jobs) <= MaxJobs
    /\ \A l \in Listeners : Len(queue[l]) <= QueueSize

LEMMA JobsFinite ==
    ASSUME NEW J, NEW n \in Nat, DOMAIN J \subseteq 1..n
    PROVE  IsFiniteSet(DOMAIN J) /\ Cardinality(DOMAIN J) \in Nat
<1>1. IsFiniteSet(1..n)
  BY FS_Interval
<1>2. IsFiniteSet(DOMAIN J)
  BY <1>1, FS_Subset
<1> QED BY <1>2, FS_CardinalityType

(* Only publish() adds a job, and only to a hub that is not full.           *)
LEMMA StepJobsBounded ==
    ASSUME Kinds, ClaimIsHonoured, Cardinality(DOMAIN jobs) <= MaxJobs, [Next]_vars
    PROVE  Cardinality(DOMAIN jobs') <= MaxJobs
<1> USE DEF Kinds
<1>0. issued \in Nat /\ MaxJobs \in Nat
  BY PullAssumption
<1>1. IsFiniteSet(DOMAIN jobs) /\ Cardinality(DOMAIN jobs) \in Nat
  BY <1>0, JobsFinite
<1>2. CASE DOMAIN jobs' \subseteq DOMAIN jobs
  <2>1. /\ IsFiniteSet(DOMAIN jobs') /\ Cardinality(DOMAIN jobs') \in Nat
        /\ Cardinality(DOMAIN jobs') <= Cardinality(DOMAIN jobs)
    BY <1>1, <1>2, FS_Subset, FS_CardinalityType
  <2> QED BY <1>0, <1>1, <2>1
<1>3. CASE Publish
  <2> DEFINE P == Pruned(jobs)
             n == issued + 1
             new == [pending |-> Registered, inFlight |-> 0, audio |-> FALSE]
             all == [i \in DOMAIN P \cup {n} |-> IF i = n THEN new ELSE jobs[i]]
  <2>1. Cardinality(DOMAIN P) < MaxJobs /\ jobs' = Unregistered(all, Overflows)
    BY <1>3 DEF Publish
  <2>2. DOMAIN P \subseteq DOMAIN jobs
    BY PrunedKeeps DEF Keeps
  <2>3. IsFiniteSet(DOMAIN P) /\ Cardinality(DOMAIN P) \in Nat
    BY <1>0, <2>2, JobsFinite
  <2>4. all \in [DOMAIN all -> HubJob] /\ DOMAIN all = DOMAIN P \cup {n}
    <3>1. new \in HubJob
      BY DEF HubJob, Registered
    <3>2. \A i \in DOMAIN P : jobs[i] \in HubJob
      BY <2>2
    <3> HIDE DEF new, P
    <3> QED BY <3>1, <3>2
  <2>5. DOMAIN jobs' \subseteq DOMAIN all
    <3> HIDE DEF all
    <3> QED BY <2>1, <2>4, UnregisteredKeeps DEF Keeps
  <2> HIDE DEF P, all, n
  <2> DEFINE S == DOMAIN P \cup {n}
  <2>6. IsFiniteSet(S) /\ Cardinality(S) <= Cardinality(DOMAIN P) + 1 /\ Cardinality(S) \in Nat
    <3>1. /\ IsFiniteSet(S)
          /\ Cardinality(S) = IF n \in DOMAIN P THEN Cardinality(DOMAIN P)
                              ELSE Cardinality(DOMAIN P) + 1
      BY <2>3, FS_AddElement
    <3> QED BY <2>3, <3>1
  <2>7. Cardinality(DOMAIN jobs') \in Nat /\ Cardinality(DOMAIN jobs') <= Cardinality(S)
    BY <2>4, <2>5, <2>6, FS_Subset, FS_CardinalityType
  <2> QED BY <1>0, <2>1, <2>3, <2>6, <2>7
<1>4. CASE Loses
  BY <1>2, <1>4, LosesKeeps DEF Keeps
<1>5. CASE Elsewhere
  BY <1>2, <1>5, ElsewhereKeeps
<1>6. CASE \E r \in Requests, l \in Listeners, j \in 1..TotalJobs : Claim(r, l, j)
  BY <1>2, <1>6, ClaimAdds
<1>7. CASE \E r \in Requests, j \in 1..TotalJobs : Get(r, j)
  BY <1>2, <1>7 DEF Get, hub
<1>8. CASE \E r \in Requests : StartSynthesis(r)
  BY <1>2, <1>8 DEF StartSynthesis, hub
<1>9. CASE \E r \in Requests : Ends(r)
  BY <1>2, <1>9, EndsKeeps DEF GivesUp
<1> QED BY <1>3, <1>4, <1>5, <1>6, <1>7, <1>8, <1>9, Steps

LEMMA StepQueuesBounded ==
    ASSUME Kinds, Streams, Bounded, [Next]_vars
    PROVE  \A l \in Listeners : Len(queue'[l]) <= QueueSize
<1>0. /\ QueueSize \in Nat /\ \A l \in Listeners : queue[l] \in Seq(Int) /\ Len(queue[l]) \in Nat
      /\ \A l \in Listeners : Len(queue[l]) <= QueueSize
  BY PullAssumption, LenProperties DEF Streams, Bounded
<1>1. ASSUME NEW e \in Int, Broadcast(e), NEW l \in Listeners PROVE Len(queue'[l]) <= QueueSize
  <2>1. queue'[l] = IF l \in Registered \ Overflows THEN Append(queue[l], e) ELSE queue[l]
    BY <1>1 DEF Broadcast, Delivered
  <2>2. CASE l \in Registered \ Overflows
    <3>1. Len(queue[l]) < QueueSize
      BY <1>0, <2>2 DEF Overflows
    <3>2. Len(Append(queue[l], e)) = Len(queue[l]) + 1
      BY <1>0, <1>1, AppendProperties
    <3> QED BY <1>0, <2>1, <2>2, <3>1, <3>2
  <2> QED BY <1>0, <2>1, <2>2
<1>2. CASE SetProducerActive
  <2>1. Broadcast(-switches) /\ -switches \in Int
    BY <1>2 DEF SetProducerActive, Streams
  <2> QED BY <1>1, <2>1
<1>3. CASE Publish
  BY <1>1, <1>3, PublishFlows
<1>4. ASSUME NEW l \in Listeners, Send(l) PROVE \A k \in Listeners : Len(queue'[k]) <= QueueSize
  <2>1. queue[l] # << >> /\ queue' = [queue EXCEPT ![l] = Tail(queue[l])]
    BY <1>4 DEF Send
  <2>2. Len(Tail(queue[l])) = Len(queue[l]) - 1
    BY <1>0, <2>1, HeadTailProperties
  <2>3. \A k \in Listeners : queue'[k] = IF k = l THEN Tail(queue[l]) ELSE queue[k]
    BY <2>1 DEF Streams
  <2>4. Len(queue'[l]) <= QueueSize
    <3>1. Len(queue[l]) - 1 <= QueueSize
      BY <1>0
    <3> QED BY <2>2, <2>3, <3>1
  <2> QED BY <1>0, <2>3, <2>4
<1>5. CASE UNCHANGED queue
  BY <1>0, <1>5
<1> QED BY <1>2, <1>3, <1>4, <1>5, WhoPublishes DEF Silent, Register

LEMMA StepExpired ==
    ASSUME Kinds, ClaimIsHonoured, expired \subseteq 1..issued, [Next]_vars
    PROVE  expired' \subseteq 1..issued'
<1>1. issued \in Nat /\ issued' \in Nat /\ issued <= issued'
  BY StepGrows, PullAssumption DEF Grows, Kinds
<1>2. 1..issued \subseteq 1..issued'
  BY <1>1
<1>3. ASSUME NEW j \in 1..TotalJobs, Expire(j) PROVE expired' \subseteq 1..issued
  BY <1>3 DEF Expire, Kinds
<1>4. (\E j \in 1..TotalJobs : Expire(j)) \/ expired' = expired
  BY DEF Next, Register, Send, Disconnect, Acknowledge, SetProducerActive, Publish, Prune,
         Delete, Create, CancelClient, Claim, Get, StartSynthesis, AnswerAtOnce, Synthesized,
         SynthesisFails, Answered, vars
<1> QED BY <1>2, <1>3, <1>4

(* The hub holds at most max_jobs jobs and a listener's queue at most       *)
(* listener_queue_size events, whoever is slow and whatever expires: a full *)
(* hub refuses a job and a full queue disconnects its listener              *)
(* (broadcast.py, publish and set_producer_active).                         *)
THEOREM HubIsBounded == Spec => []TypeOK
<1> DEFINE I == Kinds /\ ClaimIsHonoured /\ Streams /\ EveryListenerHears /\ Bounded
<1>1. Init => I
  <2> SUFFICES ASSUME Init PROVE Streams /\ EveryListenerHears /\ Bounded
    BY InitKinds
  <2>1. << >> \in Seq(Int) /\ Len(<< >>) = 0
    BY EmptySeq
  <2>2. Registered = {} /\ DOMAIN jobs = {}
    BY DEF Init, Registered
  <2>3. Cardinality(DOMAIN jobs) <= MaxJobs
    BY <2>2, FS_EmptySet, PullAssumption
  <2>4. \A l \in Listeners : Len(queue[l]) <= QueueSize
    BY <2>1, PullAssumption DEF Init
  <2>5. expired = {}
    BY DEF Init
  <2> QED BY <2>1, <2>2, <2>3, <2>4, <2>5 DEF Init, Streams, EveryListenerHears, Bounded
<1>2. I /\ [Next]_vars => I'
  <2> SUFFICES ASSUME I, [Next]_vars PROVE I'
    OBVIOUS
  <2>1. Bounded'
    BY StepJobsBounded, StepQueuesBounded, StepExpired DEF Bounded
  <2> QED BY <2>1, StepKinds, StepHonoured, StepHears
<1>3. I => TypeOK
  BY DEF Kinds, Bounded, TypeOK, Request
<1> QED BY <1>1, <1>2, <1>3, PTL DEF Spec
===============================================================================
