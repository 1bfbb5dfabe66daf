------------------------ MODULE TranslationQueueProofs ------------------------
(***************************************************************************)
(* Theorems about TranslationQueue, for any set of rows, any size of the   *)
(* queue and any number of parallel translations.                          *)
(***************************************************************************)
EXTENDS TranslationQueue, TLAPS

(* What the consumer is about to ask for has a revision. *)
AskedHaveRevision == \A s \in asking : rev[s] \in Revisions

Shape == TypeOK /\ AskedHaveRevision

-------------------------------------------------------------------------------
(* The types. *)

LEMMA InitShape == Init => Shape
<1> SUFFICES ASSUME Init PROVE Shape
  OBVIOUS
<1>1. queue \in Seq(Request) /\ Len(queue) <= QueueSize
  BY QueueAssumption DEF Init
<1>2. held \in SUBSET Request /\ active \in SUBSET Request /\ answers \in SUBSET Answer
  BY DEF Init
<1>3. rev \in [Sentences -> 0..MaxRevision] /\ latest \in [Sentences -> 0..MaxRevision]
      /\ text \in [Sentences -> 0..MaxRevision] /\ clears \in 0..MaxClears
  BY QueueAssumption DEF Init
<1> QED BY <1>1, <1>2, <1>3 DEF Init, Shape, TypeOK, AskedHaveRevision

(* A request that joins the queue finds a place. *)
LEMMA KeptFits ==
    ASSUME TypeOK
    PROVE  /\ Kept \in Seq(Request) /\ Len(Kept) < QueueSize
           /\ PushedOut \subseteq Answer
<1>1. CASE Full
  <2>1. queue # << >> /\ Len(queue) > 0
    BY <1>1, QueueAssumption DEF Full, TypeOK
  <2>2. Head(queue) \in Request
    BY <2>1 DEF TypeOK
  <2>3. Tail(queue) \in Seq(Request) /\ Len(Tail(queue)) = Len(queue) - 1
    BY <2>1 DEF TypeOK
  <2>4. PushedOut \subseteq Answer
    BY <1>1, <2>2 DEF PushedOut, Answer, Request
  <2> QED BY <1>1, <2>3, <2>4, QueueAssumption DEF Kept, Full, TypeOK
<1>2. CASE ~Full
  BY <1>2, QueueAssumption DEF Kept, PushedOut, Full, TypeOK
<1> QED BY <1>1, <1>2

LEMMA StepShape ==
    ASSUME Shape, [Next]_vars
    PROVE  Shape'
<1> USE DEF Shape
<1>1. ASSUME NEW s \in Sentences, Register(s) PROVE Shape'
  <2>1. rev[s] + 1 \in Revisions
    BY <1>1, QueueAssumption DEF Register, TypeOK, Revisions
  <2>2. rev' \in [Sentences -> 0..MaxRevision] /\ rev'[s] \in Revisions
    BY <1>1, <2>1 DEF Register, TypeOK, Revisions
  <2>3. status' \in [Sentences -> {"none", "waiting", "ready", "failed",
                                   "superseded", "spoken"}]
    BY <1>1 DEF Register, TypeOK
  <2> QED BY <1>1, <2>2, <2>3 DEF Register, TypeOK, AskedHaveRevision
<1>2. ASSUME NEW s \in Sentences, Ask(s) PROVE Shape'
  <2> DEFINE r == [sid |-> s, rev |-> rev[s], via |-> "queue"]
  <2>1. r \in Request
    BY <1>2 DEF Ask, TypeOK, AskedHaveRevision, Request
  <2>2. Kept \in Seq(Request) /\ Len(Kept) < QueueSize /\ PushedOut \subseteq Answer
    BY KeptFits
  <2>3. queue' \in Seq(Request) /\ Len(queue') <= QueueSize
    <3>1. queue' = Append(Kept, r)
      BY <1>2 DEF Ask
    <3> HIDE DEF r
    <3> QED BY <2>1, <2>2, <3>1, QueueAssumption
  <2>4. latest' \in [Sentences -> 0..MaxRevision]
    BY <1>2 DEF Ask, TypeOK
  <2> QED BY <1>2, <2>2, <2>3, <2>4 DEF Ask, TypeOK, AskedHaveRevision
<1>3. ASSUME NEW s \in Sentences, AskNow(s) PROVE Shape'
  <2>1. [sid |-> s, rev |-> rev[s], via |-> "now"] \in Request
    BY <1>3 DEF AskNow, TypeOK, AskedHaveRevision, Request
  <2>2. latest' \in [Sentences -> 0..MaxRevision]
    BY <1>3 DEF AskNow, TypeOK
  <2> QED BY <1>3, <2>1, <2>2 DEF AskNow, TypeOK, AskedHaveRevision
<1>4. ASSUME NEW s \in Sentences, Speak(s) PROVE Shape'
  BY <1>4 DEF Speak, TypeOK, AskedHaveRevision
<1>5. ASSUME NEW s \in Sentences, NEW rows \in SUBSET Sentences, Absorb(s, rows)
      PROVE  Shape'
  <2>1. rev[s] + 1 \in Revisions
    BY <1>5, QueueAssumption DEF Absorb, TypeOK, Revisions
  <2>2. rev' \in [Sentences -> 0..MaxRevision] /\ rev'[s] \in Revisions
    BY <1>5, <2>1 DEF Absorb, TypeOK, Revisions
  <2>3. status' \in [Sentences -> {"none", "waiting", "ready", "failed",
                                   "superseded", "spoken"}]
    BY <1>5 DEF Absorb, TypeOK
  <2>4. latest' \in [Sentences -> 0..MaxRevision]
    BY <1>5, <2>1, QueueAssumption DEF Absorb, TypeOK, Revisions
  <2> QED BY <1>5, <2>2, <2>3, <2>4 DEF Absorb, TypeOK, AskedHaveRevision
<1>6. CASE Take
  <2>1. Head(queue) \in Request /\ Tail(queue) \in Seq(Request)
        /\ Len(Tail(queue)) <= QueueSize
    BY <1>6, QueueAssumption DEF Take, TypeOK
  <2> QED BY <1>6, <2>1 DEF Take, TypeOK, AskedHaveRevision
<1>7. CASE Start
  BY <1>7 DEF Start, TypeOK, AskedHaveRevision
<1>8. CASE Stop
  BY <1>8 DEF Stop, TypeOK, AskedHaveRevision
<1>9. ASSUME NEW r \in active, NEW result \in {"ready", "failed"}, Return(r, result)
      PROVE  Shape'
  <2>1. [sid |-> r.sid, rev |-> r.rev, via |-> r.via, result |-> result] \in Answer
    BY <1>9 DEF TypeOK, Request, Answer
  <2> QED BY <1>9, <2>1 DEF Return, TypeOK, AskedHaveRevision
<1>10. ASSUME NEW a \in answers, Deliver(a) PROVE Shape'
  <2>1. a.sid \in Sentences /\ a.rev \in 0..MaxRevision /\ a.result \in {"ready", "failed"}
    BY QueueAssumption DEF TypeOK, Answer, Revisions
  <2>2. /\ status' \in [Sentences -> {"none", "waiting", "ready", "failed",
                                      "superseded", "spoken"}]
        /\ text' \in [Sentences -> 0..MaxRevision]
    BY <1>10, <2>1 DEF Deliver, TypeOK
  <2> QED BY <1>10, <2>2 DEF Deliver, TypeOK, AskedHaveRevision
<1>11. CASE SetSameDirection
  <2>1. queue' \in Seq(Request) /\ Len(queue') <= QueueSize
    BY <1>11, QueueAssumption DEF SetSameDirection
  <2>2. latest' \in [Sentences -> 0..MaxRevision] /\ clears' \in 0..MaxClears
    BY <1>11, QueueAssumption DEF SetSameDirection, TypeOK
  <2>3. held' = {} /\ active' \subseteq active /\ answers' \subseteq answers
    BY <1>11 DEF SetSameDirection
  <2> QED BY <1>11, <2>1, <2>2, <2>3 DEF SetSameDirection, TypeOK, AskedHaveRevision
<1>12. CASE UNCHANGED vars
  BY <1>12 DEF vars, TypeOK, AskedHaveRevision
<1> QED BY <1>1, <1>2, <1>3, <1>4, <1>5, <1>6, <1>7, <1>8, <1>9, <1>10, <1>11, <1>12
        DEF Next, Worker, Results

(* Whatever is asked, dropped, cleared or answered, every variable keeps    *)
(* its type: the queue its bound, and the worker one request at most.       *)
LEMMA ShapeHolds == Spec => []Shape
<1>1. Init => Shape
  BY InitShape
<1>2. Shape /\ [Next]_vars => Shape'
  BY StepShape
<1> QED BY <1>1, <1>2, PTL DEF Spec

-------------------------------------------------------------------------------
(* Results on their rows. *)

LEMMA StepReady ==
    ASSUME Shape, ReadyIsCurrent, [Next]_vars
    PROVE  ReadyIsCurrent'
<1> USE DEF Shape, ReadyIsCurrent
<1>1. ASSUME NEW s \in Sentences, Register(s) PROVE ReadyIsCurrent'
  BY <1>1 DEF Register, TypeOK
<1>2. ASSUME NEW s \in Sentences, Ask(s) PROVE ReadyIsCurrent'
  BY <1>2 DEF Ask
<1>3. ASSUME NEW s \in Sentences, AskNow(s) PROVE ReadyIsCurrent'
  BY <1>3 DEF AskNow
<1>4. ASSUME NEW s \in Sentences, Speak(s) PROVE ReadyIsCurrent'
  BY <1>4 DEF Speak, TypeOK
<1>5. ASSUME NEW s \in Sentences, NEW rows \in SUBSET Sentences, Absorb(s, rows)
      PROVE  ReadyIsCurrent'
  BY <1>5 DEF Absorb, TypeOK
<1>6. CASE Worker
  BY <1>6 DEF Worker, Take, Start, Stop
<1>7. ASSUME NEW r \in active, NEW result \in {"ready", "failed"}, Return(r, result)
      PROVE  ReadyIsCurrent'
  BY <1>7 DEF Return
<1>8. ASSUME NEW a \in answers, Deliver(a) PROVE ReadyIsCurrent'
  <2>1. CASE Takes(a)
    BY <1>8, <2>1 DEF Deliver, Takes, TypeOK
  <2>2. CASE ~Takes(a)
    BY <1>8, <2>2 DEF Deliver
  <2> QED BY <2>1, <2>2
<1>9. CASE SetSameDirection
  BY <1>9 DEF SetSameDirection
<1>10. CASE UNCHANGED vars
  BY <1>10 DEF vars
<1> QED BY <1>1, <1>2, <1>3, <1>4, <1>5, <1>6, <1>7, <1>8, <1>9, <1>10 DEF Next, Results

(* Translations may return in any order, and rows be edited meanwhile: the  *)
(* text that is ready is always the one of the row's revision.              *)
THEOREM ReadyStaysCurrent == Spec => []ReadyIsCurrent
<1>1. Init => ReadyIsCurrent
  BY DEF Init, ReadyIsCurrent
<1>2. Shape /\ ReadyIsCurrent /\ [Next]_vars => ReadyIsCurrent'
  BY StepReady
<1> QED BY <1>1, <1>2, ShapeHolds, PTL DEF Spec

-------------------------------------------------------------------------------
(* Answers on their way. *)

(* The strengthening: a request on its way is also the wanted one, or the   *)
(* checks before and after the model call would drop it silently.           *)
OnItsWay(s) == latest[s] = rev[s] /\ (InQueue(s) \/ InFlight(s))

Awaited ==
    clears = 0 => \A s \in Sentences :
                    status[s] = "waiting" => s \in asking \/ OnItsWay(s)

(* A request that is taken off the front of the queue is the only one that  *)
(* leaves it.                                                               *)
LEMMA FrontLeaves ==
    ASSUME TypeOK, NEW s \in Sentences, InQueue(s)
    PROVE  \/ Head(queue).sid = s /\ Head(queue).rev = rev[s]
           \/ \E i \in 1..Len(Tail(queue)) :
                Tail(queue)[i].sid = s /\ Tail(queue)[i].rev = rev[s]
<1>1. PICK i \in 1..Len(queue) : queue[i].sid = s /\ queue[i].rev = rev[s]
  BY DEF InQueue
<1>2. queue \in Seq(Request) /\ queue # << >>
  BY <1>1 DEF TypeOK
<1>3. CASE i = 1
  BY <1>1, <1>2, <1>3
<1>4. CASE i # 1
  <2>1. i - 1 \in 1..Len(Tail(queue)) /\ Tail(queue)[i - 1] = queue[i]
    BY <1>1, <1>2, <1>4
  <2> QED BY <1>1, <2>1
<1> QED BY <1>3, <1>4

LEMMA StepAwaited ==
    ASSUME Shape, Awaited, [Next]_vars
    PROVE  Awaited'
<1> SUFFICES ASSUME clears' = 0, NEW t \in Sentences, status'[t] = "waiting"
             PROVE  t \in asking' \/ OnItsWay(t)'
  BY DEF Awaited
<1> USE DEF Shape
<1>a. clears = 0
  <2>1. clears' = clears \/ clears' = clears + 1
    BY DEF Next, vars, Register, Ask, AskNow, Speak, Absorb, Worker, Take,
           Start, Stop, Results, Return, Deliver, SetSameDirection
  <2>2. clears \in 0..MaxClears
    BY DEF TypeOK
  <2> QED BY <2>1, <2>2, QueueAssumption
<1>b. status[t] = "waiting" => t \in asking \/ OnItsWay(t)
  BY <1>a DEF Awaited
<1>1. ASSUME NEW s \in Sentences, Register(s) PROVE t \in asking' \/ OnItsWay(t)'
  <2>1. CASE t = s
    BY <1>1, <2>1 DEF Register
  <2>2. CASE t # s
    <3>1. status[t] = "waiting" /\ rev'[t] = rev[t] /\ t \notin asking
      BY <1>1, <2>2 DEF Register, ConsumerFree, TypeOK
    <3> QED BY <1>1, <1>b, <3>1 DEF Register, OnItsWay, InQueue, InFlight
  <2> QED BY <2>1, <2>2
<1>2. ASSUME NEW s \in Sentences, Ask(s) PROVE t \in asking' \/ OnItsWay(t)'
  <2> DEFINE r == [sid |-> s, rev |-> rev[s], via |-> "queue"]
  <2>1. /\ Kept \in Seq(Request) /\ queue' = Append(Kept, r) /\ r \in Request
    BY <1>2, KeptFits DEF Ask, TypeOK, AskedHaveRevision, Request
  <2>2. r.sid = s /\ r.rev = rev[s] /\ rev' = rev
    BY <1>2 DEF Ask
  <2> HIDE DEF r
  <2>3. /\ Len(queue') = Len(Kept) + 1 /\ queue'[Len(queue')] = r
        /\ \A i \in 1..Len(Kept) : i \in 1..Len(queue') /\ queue'[i] = Kept[i]
    BY <2>1
  <2>4. CASE t = s
    <3>1. latest'[t] = rev'[t]
      BY <1>2, <2>2, <2>4 DEF Ask, TypeOK
    <3>2. Len(queue') \in 1..Len(queue')
      BY <2>1, <2>3
    <3> QED BY <2>2, <2>3, <2>4, <3>1, <3>2 DEF OnItsWay, InQueue
  <2>5. CASE t # s /\ t \in asking
    BY <1>2, <2>5 DEF Ask
  <2>6. CASE t # s /\ OnItsWay(t)
    <3>1. latest'[t] = rev'[t]
      BY <1>2, <2>2, <2>6 DEF Ask, TypeOK, OnItsWay
    <3>2. CASE InFlight(t)
      BY <1>2, <2>2, <3>1, <3>2 DEF Ask, OnItsWay, InFlight
    <3>3. CASE InQueue(t) /\ ~Full
      BY <2>2, <2>3, <3>1, <3>3 DEF Kept, OnItsWay, InQueue
    <3>4. CASE InQueue(t) /\ Full
      <4>1. CASE Head(queue).sid = t /\ Head(queue).rev = rev[t]
        <5> DEFINE a == [sid |-> Head(queue).sid, rev |-> Head(queue).rev,
                         via |-> "drop", result |-> "failed"]
        <5>1. a \in answers' /\ a.sid = t /\ a.rev = rev'[t]
          BY <1>2, <2>2, <3>4, <4>1 DEF Ask, PushedOut
        <5> QED BY <3>1, <5>1 DEF OnItsWay, InFlight
      <4>2. CASE \E i \in 1..Len(Tail(queue)) :
                    Tail(queue)[i].sid = t /\ Tail(queue)[i].rev = rev[t]
        BY <2>2, <2>3, <3>1, <3>4, <4>2 DEF Kept, OnItsWay, InQueue
      <4> QED BY <3>4, <4>1, <4>2, FrontLeaves
    <3> QED BY <2>6, <3>2, <3>3, <3>4 DEF OnItsWay
  <2>7. status[t] = "waiting"
    BY <1>2 DEF Ask
  <2> QED BY <1>b, <2>4, <2>5, <2>6, <2>7
<1>3. ASSUME NEW s \in Sentences, AskNow(s) PROVE t \in asking' \/ OnItsWay(t)'
  <2> DEFINE r == [sid |-> s, rev |-> rev[s], via |-> "now"]
  <2>1. CASE t = s
    <3>1. latest'[t] = rev'[t] /\ r \in active' /\ r.sid = t /\ r.rev = rev'[t]
      BY <1>3, <2>1 DEF AskNow, TypeOK
    <3> QED BY <3>1 DEF OnItsWay, InFlight
  <2>2. CASE t # s
    <3>1. status[t] = "waiting" /\ latest'[t] = latest[t]
      BY <1>3, <2>2 DEF AskNow, TypeOK
    <3> QED BY <1>3, <1>b, <2>2, <3>1 DEF AskNow, OnItsWay, InQueue, InFlight
  <2> QED BY <2>1, <2>2
<1>4. ASSUME NEW s \in Sentences, Speak(s) PROVE t \in asking' \/ OnItsWay(t)'
  <2>1. status[t] = "waiting"
    BY <1>4 DEF Speak, TypeOK
  <2> QED BY <1>4, <1>b, <2>1 DEF Speak, OnItsWay, InQueue, InFlight
<1>5. ASSUME NEW s \in Sentences, NEW rows \in SUBSET Sentences, Absorb(s, rows)
      PROVE  t \in asking' \/ OnItsWay(t)'
  <2>1. CASE t = s
    BY <1>5, <2>1 DEF Absorb
  <2>2. CASE t # s
    <3>1. /\ status[t] = "waiting" /\ rev'[t] = rev[t] /\ latest'[t] = latest[t]
          /\ t \notin asking
      BY <1>5, <2>2 DEF Absorb, ConsumerFree, TypeOK
    <3> QED BY <1>5, <1>b, <3>1 DEF Absorb, OnItsWay, InQueue, InFlight
  <2> QED BY <2>1, <2>2
<1>6. CASE Take
  <2>1. CASE InQueue(t)
    <3>1. CASE Head(queue).sid = t /\ Head(queue).rev = rev[t]
      BY <1>6, <1>b, <3>1 DEF Take, OnItsWay, InFlight
    <3>2. CASE \E i \in 1..Len(Tail(queue)) :
                  Tail(queue)[i].sid = t /\ Tail(queue)[i].rev = rev[t]
      BY <1>6, <1>b, <3>2 DEF Take, OnItsWay, InQueue
    <3> QED BY <2>1, <3>1, <3>2, FrontLeaves
  <2>2. CASE ~InQueue(t)
    BY <1>6, <1>b, <2>2 DEF Take, OnItsWay, InFlight
  <2> QED BY <2>1, <2>2
<1>7. CASE Start
  <2>1. PICK r \in held : active' = IF Wanted(r) THEN active \cup {r} ELSE active
    BY <1>7 DEF Start
  <2>2. held = {r}
    BY <2>1 DEF TypeOK
  <2>3. status[t] = "waiting" /\ rev' = rev /\ latest' = latest /\ queue' = queue
        /\ asking' = asking /\ answers' = answers
    BY <1>7 DEF Start
  <2>4. CASE r.sid = t /\ r.rev = rev[t] /\ latest[t] = rev[t]
    <3>1. r \in active'
      BY <2>1, <2>3, <2>4 DEF Wanted
    <3> QED BY <2>3, <2>4, <3>1 DEF OnItsWay, InFlight
  <2>5. CASE ~(r.sid = t /\ r.rev = rev[t] /\ latest[t] = rev[t])
    <3>1. active \subseteq active'
      BY <2>1
    <3> QED BY <1>b, <2>2, <2>3, <2>5, <3>1 DEF OnItsWay, InQueue, InFlight
  <2> QED BY <2>4, <2>5
<1>8. CASE Stop
  BY <1>8, <1>b DEF Stop, OnItsWay, InQueue, InFlight
<1>9. ASSUME NEW r \in active, NEW result \in {"ready", "failed"}, Return(r, result)
      PROVE  t \in asking' \/ OnItsWay(t)'
  <2> DEFINE a == [sid |-> r.sid, rev |-> r.rev, via |-> r.via, result |-> result]
  <2>1. /\ status[t] = "waiting" /\ rev' = rev /\ latest' = latest /\ queue' = queue
        /\ asking' = asking /\ held' = held /\ active' = active \ {r}
        /\ answers \subseteq answers'
    BY <1>9 DEF Return
  <2>2. CASE r.sid = t /\ r.rev = rev[t] /\ latest[t] = rev[t]
    <3>1. a \in answers' /\ a.sid = t /\ a.rev = rev'[t]
      BY <1>9, <2>1, <2>2 DEF Return, Wanted
    <3> QED BY <2>1, <2>2, <3>1 DEF OnItsWay, InFlight
  <2>3. CASE ~(r.sid = t /\ r.rev = rev[t] /\ latest[t] = rev[t])
    BY <1>b, <2>1, <2>3 DEF OnItsWay, InQueue, InFlight
  <2> QED BY <2>2, <2>3
<1>10. ASSUME NEW a \in answers, Deliver(a) PROVE t \in asking' \/ OnItsWay(t)'
  <2>1. status[t] = "waiting" /\ ~(a.sid = t /\ a.rev = rev[t])
    BY <1>10 DEF Deliver, Takes, TypeOK, Answer
  <2> QED BY <1>10, <1>b, <2>1 DEF Deliver, OnItsWay, InQueue, InFlight
<1>11. CASE SetSameDirection
  BY <1>11, <1>a, QueueAssumption DEF SetSameDirection
<1>12. CASE UNCHANGED vars
  BY <1>12, <1>b DEF vars, OnItsWay, InQueue, InFlight
<1> QED BY <1>1, <1>2, <1>3, <1>4, <1>5, <1>6, <1>7, <1>8, <1>9, <1>10, <1>11, <1>12
        DEF Next, Worker, Results

(* Until pending work is cleared, a row that waits for a translation has a  *)
(* request or an answer of its revision on the way, whatever the size of    *)
(* the queue and the number of rows: nothing that is dropped, replaced or   *)
(* overtaken blocks the order of speech.                                    *)
THEOREM UnclearedAreOnTheirWay == Spec => [](clears = 0 => WaitingIsOnItsWay)
<1>1. Init => Awaited
  BY DEF Init, Awaited
<1>2. Shape /\ Awaited /\ [Next]_vars => Awaited'
  BY StepAwaited
<1>3. Awaited => (clears = 0 => WaitingIsOnItsWay)
  BY DEF Awaited, OnItsWay, WaitingIsOnItsWay
<1> QED BY <1>1, <1>2, <1>3, ShapeHolds, PTL DEF Spec
===============================================================================
