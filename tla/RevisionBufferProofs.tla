------------------------- MODULE RevisionBufferProofs -------------------------
(* What RevisionBuffer guarantees for every set of sentences, every bound   *)
(* and every release policy.                                                *)
EXTENDS RevisionBuffer, TLAPS

-------------------------------------------------------------------------------
(* The entries a transition hands to drain(): one status, confirmation or   *)
(* seal changed, the places, revisions, offers and absorbed rows as before. *)
SameShape(es) ==
    /\ es \in [Pending -> Entry]
    /\ \A o \in Pending :
          /\ es[o].sid = entries[o].sid
          /\ es[o].rev = entries[o].rev
          /\ es[o].offered = entries[o].offered
          /\ es[o].status = "superseded" <=> entries[o].status = "superseded"

(* A field of an entry may be replaced by a value of its type. *)
LEMMA EntryUpdate ==
    ASSUME NEW e \in Entry
    PROVE  /\ [e EXCEPT !.offered = TRUE] \in Entry
           /\ [e EXCEPT !.offered = FALSE] \in Entry
           /\ [e EXCEPT !.sealed = TRUE] \in Entry
           /\ \A st \in Statuses : [e EXCEPT !.status = st] \in Entry
  BY DEF Entry

(* Types survive a drain of any such entries. *)
LEMMA DrainType ==
    ASSUME TypeOK, NEW es, SameShape(es), NEW force \in BOOLEAN,
           Drain(es, force), DrainFrame
    PROVE  TypeOK'
<1>1. PICK n \in nextOrder..nextSource :
        LET passed == nextOrder..(n - 1)
            offer  == n < nextSource /\ Offers(es[n], n, force)
            given  == {o \in passed : es[o].status = "ready" /\ ~es[o].offered}
                        \cup {o \in {n} : offer}
        IN  /\ nextOrder' = n
            /\ entries' = [o \in n..(nextSource - 1) |->
                              IF o = n /\ offer
                              THEN [es[o] EXCEPT !.offered = TRUE] ELSE es[o]]
            /\ released' = [s \in Sentences |->
                              IF /\ sentenceOrders[s] \in passed
                                 /\ es[sentenceOrders[s]].status = "ready"
                              THEN es[sentenceOrders[s]].rev ELSE released[s]]
            /\ failed' = failed \cup
                    {es[o].sid : o \in {p \in passed : es[p].status = "failed"}}
            /\ ready' = {[sid |-> es[o].sid, rev |-> es[o].rev, order |-> o] :
                            o \in given}
  BY DEF Drain
<1> DEFINE passed == nextOrder..(n - 1)
<1>2. nextOrder \in Nat /\ nextSource \in Nat /\ n \in Nat /\ nextOrder <= n /\ n <= nextSource
      /\ nextSource' = nextSource
  BY DEF TypeOK, DrainFrame
<1>3. \A o \in nextOrder..(nextSource - 1) : es[o] \in Entry
  BY DEF SameShape, Pending
<1>4. entries' \in [Pending' -> Entry]
  <2>1. Pending' = n..(nextSource - 1)
    BY <1>1, <1>2 DEF Pending
  <2>2. \A o \in n..(nextSource - 1) :
            es[o] \in Entry /\ [es[o] EXCEPT !.offered = TRUE] \in Entry
    <3> SUFFICES ASSUME NEW o \in n..(nextSource - 1)
                 PROVE  es[o] \in Entry /\ [es[o] EXCEPT !.offered = TRUE] \in Entry
      OBVIOUS
    <3>1. o \in nextOrder..(nextSource - 1)
      BY <1>2
    <3>2. es[o] \in Entry
      BY <1>3, <3>1
    <3> QED BY <3>2, EntryUpdate
  <2> QED BY <1>1, <2>1, <2>2
<1>5. released' \in [Sentences -> Revisions \cup {NoRevision}]
  <2>1. \A o \in passed : es[o].rev \in Revisions
    BY <1>2, <1>3 DEF Entry
  <2> QED BY <1>1, <2>1 DEF TypeOK
<1>6. failed' \in SUBSET Sentences
  <2>1. \A o \in passed : es[o].sid \in Sentences
    BY <1>2, <1>3 DEF Entry
  <2> QED BY <1>1, <2>1 DEF TypeOK
<1>7. ready' \in SUBSET Item
  <2>1. \A o \in passed : es[o].sid \in Sentences /\ es[o].rev \in Revisions /\ o \in Nat
    BY <1>2, <1>3 DEF Entry
  <2>2. n < nextSource => es[n].sid \in Sentences /\ es[n].rev \in Revisions
    BY <1>2, <1>3 DEF Entry
  <2> QED BY <1>1, <1>2, <2>1, <2>2 DEF Item
<1> QED BY <1>1, <1>2, <1>4, <1>5, <1>6, <1>7 DEF TypeOK, DrainFrame

(* The entries each transition hands to drain() have the shape it needs.    *)
LEMMA SealedShape == ASSUME TypeOK PROVE SameShape(Sealed)
<1>1. DOMAIN entries = Pending /\ \A o \in Pending : entries[o] \in Entry
  BY DEF TypeOK
<1>2. Sealed \in [Pending -> Entry]
  BY <1>1, EntryUpdate DEF Sealed
<1>3. ASSUME NEW o \in Pending
      PROVE  /\ Sealed[o].sid = entries[o].sid
             /\ Sealed[o].rev = entries[o].rev
             /\ Sealed[o].offered = entries[o].offered
             /\ Sealed[o].status = entries[o].status
  <2>1. entries[o] \in Entry /\ o \in DOMAIN entries
    BY <1>1
  <2> QED BY <2>1 DEF Sealed, Entry
<1> QED BY <1>2, <1>3 DEF SameShape

LEMMA StatusShape ==
    ASSUME TypeOK, NEW s \in Sentences, NEW r, NEW st \in {"ready", "failed"}
    PROVE  SameShape(WithStatus(s, r, st))
<1>1. DOMAIN entries = Pending /\ \A o \in Pending : entries[o] \in Entry
  BY DEF TypeOK
<1>2. CASE ~Current(s, r)
  BY <1>1, <1>2 DEF WithStatus, SameShape, TypeOK
<1>3. CASE Current(s, r)
  <2> DEFINE p == sentenceOrders[s]
             es == [entries EXCEPT ![p].status = st]
  <2>1. p \in Pending /\ entries[p].status # "superseded"
        /\ WithStatus(s, r, st) = es
    BY <1>1, <1>3 DEF Current, WithStatus
  <2>2. [entries[p] EXCEPT !.status = st] \in Entry
    BY <1>1, <2>1 DEF Entry, Statuses
  <2>3. es \in [Pending -> Entry]
    BY <1>1, <2>1, <2>2 DEF TypeOK
  <2>4. ASSUME NEW o \in Pending
        PROVE  /\ es[o].sid = entries[o].sid
               /\ es[o].rev = entries[o].rev
               /\ es[o].offered = entries[o].offered
               /\ es[o].status = "superseded" <=> entries[o].status = "superseded"
    BY <1>1, <2>1 DEF Entry
  <2> QED BY <2>1, <2>3, <2>4 DEF SameShape
<1> QED BY <1>2, <1>3

LEMMA ConfirmedShape ==
    ASSUME TypeOK, NEW s \in Sentences, sentenceOrders[s] \in DOMAIN entries,
           NEW age \in Int, NEW allow \in BOOLEAN
    PROVE  SameShape(Confirmed(s, age, allow))
<1> DEFINE p == sentenceOrders[s]
           e == [entries[p] EXCEPT !.confirmed = TRUE, !.urgentOk = allow,
                    !.since = IF age # NoAge /\ clock - age < entries[p].since
                              THEN clock - age ELSE entries[p].since]
           es == [entries EXCEPT ![p] = e]
<1>1. DOMAIN entries = Pending /\ p \in Pending /\ \A o \in Pending : entries[o] \in Entry
  BY DEF TypeOK
<1>2. e \in Entry /\ e.sid = entries[p].sid /\ e.rev = entries[p].rev
      /\ e.offered = entries[p].offered /\ e.status = entries[p].status
  <2>1. entries[p] \in Entry /\ clock \in Int
    BY <1>1 DEF TypeOK
  <2>2. entries[p].since \in Int /\ clock - age \in Int
    BY <2>1 DEF Entry
  <2> QED BY <2>1, <2>2 DEF Entry
<1>3. Confirmed(s, age, allow) = es
  BY DEF Confirmed
<1>4. es \in [Pending -> Entry]
  BY <1>1, <1>2 DEF TypeOK
<1>5. \A o \in Pending : es[o] = IF o = p THEN e ELSE entries[o]
  BY <1>1
<1> HIDE DEF e, es
<1> QED BY <1>2, <1>3, <1>4, <1>5 DEF SameShape

LEMMA DiscardedType ==
    ASSUME TypeOK, NEW s \in Sentences, NEW r
    PROVE  Discarded(s, r) \in [Pending -> Entry]
<1>1. DOMAIN entries = Pending /\ \A o \in Pending : entries[o] \in Entry
  BY DEF TypeOK
<1>2. WithStatus(s, r, "failed") \in [Pending -> Entry]
  BY StatusShape DEF SameShape
<1>3. ASSUME NEW o \in Pending
      PROVE  [entries EXCEPT ![o].offered = FALSE] \in [Pending -> Entry]
  <2>1. [entries[o] EXCEPT !.offered = FALSE] \in Entry
    BY <1>1, EntryUpdate
  <2> QED BY <1>1, <2>1 DEF TypeOK
<1> QED BY <1>1, <1>2, <1>3 DEF Discarded, Current, TypeOK

LEMMA FreshType ==
    ASSUME TypeOK, NEW s \in Sentences, NEW r \in Revisions
    PROVE  Fresh(s, r) \in Entry
BY DEF Fresh, Entry, Statuses, TypeOK

-------------------------------------------------------------------------------
(* Type correctness. *)

LEMMA InitType == Init => TypeOK
<1> SUFFICES ASSUME Init PROVE TypeOK
  OBVIOUS
<1>1. Pending = {}
  BY DEF Init, Pending
<1>2. entries \in [Pending -> Entry]
  BY <1>1 DEF Init
<1>3. queued \in Seq(Item) /\ stream \in Seq(Item)
  BY DEF Init
<1>4. /\ sentenceOrders \in [Sentences -> Nat \cup {NoOrder}]
      /\ released \in [Sentences -> Revisions \cup {NoRevision}]
  BY DEF Init
<1>5. nextOrder \in Nat /\ nextSource \in Nat /\ nextOrder <= nextSource
      /\ highest \in Int /\ clock \in Nat
  BY DEF Init
<1>6. /\ urgent \in BOOLEAN
      /\ superseded \in SUBSET Sentences /\ failed \in SUBSET Sentences
      /\ ready \in SUBSET Item /\ live \in SUBSET Item
  BY DEF Init
<1> QED BY <1>2, <1>3, <1>4, <1>5, <1>6 DEF TypeOK

LEMMA TypeStep == TypeOK /\ [Next]_vars => TypeOK'
<1> SUFFICES ASSUME TypeOK, [Next]_vars PROVE TypeOK'
  OBVIOUS
<1>0. DOMAIN entries = Pending /\ \A o \in Pending : entries[o] \in Entry
  BY DEF TypeOK
<1>1. ASSUME NEW s \in Sentences, RegisterNew(s) PROVE TypeOK'
  <2>1. Fresh(s, 1) \in Entry
    BY FreshType, BoundsAssumption DEF Revisions
  <2>2. nextOrder \in Nat /\ nextSource \in Nat /\ nextOrder <= nextSource
        /\ nextOrder' = nextOrder /\ nextSource' = nextSource + 1
    BY <1>1 DEF RegisterNew, TypeOK
  <2>3. Pending' = nextOrder..nextSource
    BY <2>2 DEF Pending
  <2>4. entries' \in [Pending' -> Entry]
    <3>1. \A o \in nextOrder..nextSource : o # nextSource => o \in Pending
      BY <2>2 DEF Pending
    <3> QED BY <1>0, <1>1, <2>1, <2>3, <3>1 DEF RegisterNew
  <2> QED BY <1>1, <2>2, <2>4 DEF RegisterNew, TypeOK
<1>2. ASSUME NEW s \in Sentences, RegisterRevision(s) PROVE TypeOK'
  <2>1. sentenceOrders[s] \in Pending
        /\ entries[sentenceOrders[s]].rev + 1 \in Revisions
    BY <1>0, <1>2, BoundsAssumption DEF RegisterRevision, Entry, Revisions
  <2>2. Fresh(s, entries[sentenceOrders[s]].rev + 1) \in Entry
    BY <2>1, FreshType
  <2> QED BY <1>0, <1>2, <2>1, <2>2 DEF RegisterRevision, TypeOK, Pending
<1>3. ASSUME NEW s \in Sentences, NEW rows \in SUBSET Sentences, Reconcile(s, rows)
      PROVE TypeOK'
  <2> DEFINE o == sentenceOrders[s]
             fresh == Fresh(s, entries[o].rev + 1)
             gone(p) == [entries[p] EXCEPT !.status = "superseded", !.offered = FALSE]
             es == [p \in DOMAIN entries |->
                       IF p = o THEN fresh
                       ELSE IF entries[p].sid \in rows THEN gone(p) ELSE entries[p]]
  <2>1. o \in Pending /\ entries[o].rev + 1 \in Revisions
    <3>1. o \in DOMAIN entries /\ entries[o].rev < MaxRevision
      BY <1>3 DEF Reconcile, CanSupersede, Superseding
    <3>2. o \in Pending /\ entries[o].rev \in 1..MaxRevision
      BY <1>0, <3>1 DEF Entry, Revisions
    <3> QED BY <3>1, <3>2, BoundsAssumption DEF Revisions
  <2>2. fresh \in Entry
    BY <2>1, FreshType
  <2>3. \A p \in Pending : gone(p) \in Entry
    BY <1>0 DEF Entry, Statuses
  <2>4. entries' = es
    BY <1>3 DEF Reconcile, CanSupersede, Superseding
  <2> HIDE DEF fresh, gone
  <2>5. es \in [Pending -> Entry]
    BY <1>0, <2>2, <2>3
  <2>6. highest' \in Int
    <3>1. highest' \in DOMAIN es
      BY <1>3 DEF Reconcile, CanSupersede, Superseding, fresh, gone
    <3> QED BY <1>0, <3>1 DEF Pending, TypeOK
  <2> QED BY <1>3, <2>4, <2>5, <2>6 DEF Reconcile, CanSupersede, Superseding, TypeOK, Pending
<1>4. ASSUME NEW s \in Sentences, MarkReady(s) PROVE TypeOK'
  BY <1>4, StatusShape, DrainType DEF MarkReady
<1>5. ASSUME NEW s \in Sentences, MarkFailed(s) PROVE TypeOK'
  BY <1>5, StatusShape, DrainType DEF MarkFailed
<1>6. ASSUME NEW s \in Sentences, NEW age \in NoAge..MaxEvidenceAge,
             NEW allow \in BOOLEAN, Confirm(s, age, allow)
      PROVE TypeOK'
  <2>1. age \in Int
    BY BoundsAssumption DEF NoAge
  <2> QED BY <1>6, <2>1, ConfirmedShape, DrainType DEF Confirm
<1>7. CASE SealSegment
  BY <1>7, SealedShape, DrainType DEF SealSegment
<1>8. SameShape(entries)
  BY DEF SameShape, TypeOK
<1>9. CASE SchedulerDrain
  BY <1>8, <1>9, DrainType DEF SchedulerDrain
<1>10. CASE FinishDrain
  BY <1>8, <1>10, DrainType DEF FinishDrain
<1>11. ASSUME NEW s \in Sentences, Revoke(s) PROVE TypeOK'
  <2>1. [entries EXCEPT ![sentenceOrders[s]].confirmed = FALSE,
                        ![sentenceOrders[s]].since = clock] \in [Pending -> Entry]
    <3>1. sentenceOrders[s] \in Pending /\ entries[sentenceOrders[s]] \in Entry
          /\ clock \in Int
      BY <1>0, <1>11 DEF Revoke, TypeOK
    <3> QED BY <1>0, <3>1 DEF Entry, TypeOK
  <2> QED BY <1>11, <2>1 DEF Revoke, TypeOK, Pending
<1>12. ASSUME NEW i \in ready, PublishAccepted(i) PROVE TypeOK'
  BY <1>12 DEF PublishAccepted, TypeOK, Pending
<1>13. ASSUME NEW i \in ready, PublishRefused(i) PROVE TypeOK'
  <2>1. i.sid \in Sentences
    BY <1>13 DEF TypeOK, Item
  <2> QED BY <1>13, <2>1, DiscardedType DEF PublishRefused, TypeOK, Pending
<1>14. CASE SharedCommit
  <2>1. queued # << >> /\ Head(queued) \in Item /\ Tail(queued) \in Seq(Item)
    BY <1>14 DEF SharedCommit, Commit, TypeOK
  <2>2. Head(queued).sid \in Sentences /\ Head(queued).rev \in Revisions
    BY <2>1 DEF Item
  <2>3. /\ entries' \in [Pending' -> Entry]
        /\ released' \in [Sentences -> Revisions \cup {NoRevision}]
        /\ nextOrder' \in Nat /\ nextOrder' <= nextSource
    <3>1. CASE UNCHANGED << entries, released, nextOrder >>
      BY <1>14, <3>1 DEF SharedCommit, Commit, TypeOK, Pending
    <3>2. ASSUME NEW n \in (nextOrder + 1)..nextSource,
                 nextOrder' = n,
                 entries' = [o \in n..(nextSource - 1) |-> entries[o]],
                 released' = [released EXCEPT ![Head(queued).sid] = Head(queued).rev]
          PROVE <2>3!1 /\ <2>3!2 /\ <2>3!3
      <4>1. n \in Nat /\ n <= nextSource /\ n..(nextSource - 1) \in SUBSET Pending
        BY DEF TypeOK, Pending
      <4>2. Pending' = n..(nextSource - 1)
        BY <1>14, <3>2 DEF SharedCommit, Commit, Pending
      <4> QED BY <1>0, <2>2, <3>2, <4>1, <4>2 DEF TypeOK
    <3> QED BY <1>14, <3>1, <3>2 DEF SharedCommit, Commit
  <2> QED BY <1>14, <2>1, <2>3 DEF SharedCommit, Commit, TypeOK
<1>15. CASE Discard
  <2>1. queued # << >> /\ Head(queued) \in Item /\ Tail(queued) \in Seq(Item)
    BY <1>15 DEF Discard, TypeOK
  <2>2. Head(queued).sid \in Sentences
    BY <2>1 DEF Item
  <2> QED BY <1>15, <2>1, <2>2, DiscardedType DEF Discard, TypeOK, Pending
<1>16. CASE SkipRevised
  BY <1>16 DEF SkipRevised, TypeOK, Pending
<1>17. CASE Tick
  BY <1>17 DEF Tick, TypeOK, Pending
<1>18. CASE PlaybackPressure
  BY <1>18 DEF PlaybackPressure, TypeOK, Pending
<1>19. CASE UNCHANGED vars
  BY <1>19 DEF vars, TypeOK, Pending
<1> QED
  BY <1>1, <1>2, <1>3, <1>4, <1>5, <1>6, <1>7, <1>9, <1>10, <1>11, <1>12,
     <1>13, <1>14, <1>15, <1>16, <1>17, <1>18, <1>19 DEF Next, Publish

(* The state of the boundary is well formed in every reachable state: in    *)
(* particular every order from the head to the last one handed out has its  *)
(* entry, so the strict order never waits for a sentence nobody registered. *)
THEOREM TypeCorrect == Spec => []TypeOK
<1>1. Init => TypeOK
  BY InitType
<1>2. TypeOK /\ [Next]_vars => TypeOK'
  BY TypeStep
<1> QED BY <1>1, <1>2, PTL DEF Spec

-------------------------------------------------------------------------------
(* Where the sentences are.  Orders are handed out once, an entry waits at  *)
(* the order of its own sentence, and a fate (released, failed) is only     *)
(* decided when the head passes that order.                                 *)
Places ==
    /\ \A s \in Sentences : sentenceOrders[s] < nextSource
    /\ \A s, t \in Sentences :
          sentenceOrders[s] = sentenceOrders[t] /\ sentenceOrders[s] # NoOrder => s = t
    /\ \A o \in Pending : sentenceOrders[entries[o].sid] = o
    /\ \A o \in Pending : entries[o].status = "superseded" <=> entries[o].sid \in superseded
    /\ \A s \in Sentences :
          released[s] # NoRevision \/ s \in failed =>
              sentenceOrders[s] \in 0..(nextOrder - 1)
    /\ \A s \in superseded : sentenceOrders[s] # NoOrder

Settled == TypeOK /\ Places /\ PassedIsSettled

(* What a drain does, order by order. *)
LEMMA DrainEffect ==
    ASSUME TypeOK, NEW es, SameShape(es), NEW force \in BOOLEAN,
           Drain(es, force), DrainFrame
    PROVE  \E n \in nextOrder..nextSource :
              /\ nextOrder' = n
              /\ \A o \in nextOrder..(n - 1) : Passes(es[o], o, force)
              /\ \A o \in n..(nextSource - 1) :
                    /\ entries'[o].sid = es[o].sid
                    /\ entries'[o].rev = es[o].rev
                    /\ entries'[o].status = es[o].status
                    /\ entries'[o].offered <=>
                          es[o].offered \/ (o = n /\ Offers(es[n], n, force))
              /\ \A s \in Sentences :
                    released'[s] = IF /\ sentenceOrders[s] \in nextOrder..(n - 1)
                                      /\ es[sentenceOrders[s]].status = "ready"
                                   THEN es[sentenceOrders[s]].rev ELSE released[s]
              /\ failed' = failed \cup {es[o].sid : o \in
                              {p \in nextOrder..(n - 1) : es[p].status = "failed"}}
              /\ ready' = {[sid |-> es[o].sid, rev |-> es[o].rev, order |-> o] : o \in
                   {p \in nextOrder..(n - 1) : es[p].status = "ready" /\ ~es[p].offered}
                   \cup {p \in {n} : n < nextSource /\ Offers(es[n], n, force)}}
<1>1. PICK n \in nextOrder..nextSource :
        LET passed == nextOrder..(n - 1)
            offer  == n < nextSource /\ Offers(es[n], n, force)
            given  == {o \in passed : es[o].status = "ready" /\ ~es[o].offered}
                        \cup {o \in {n} : offer}
        IN  /\ \A o \in passed : Passes(es[o], o, force)
            /\ nextOrder' = n
            /\ entries' = [o \in n..(nextSource - 1) |->
                              IF o = n /\ offer
                              THEN [es[o] EXCEPT !.offered = TRUE] ELSE es[o]]
            /\ released' = [s \in Sentences |->
                              IF /\ sentenceOrders[s] \in passed
                                 /\ es[sentenceOrders[s]].status = "ready"
                              THEN es[sentenceOrders[s]].rev ELSE released[s]]
            /\ failed' = failed \cup
                    {es[o].sid : o \in {p \in passed : es[p].status = "failed"}}
            /\ ready' = {[sid |-> es[o].sid, rev |-> es[o].rev, order |-> o] :
                            o \in given}
  BY DEF Drain
<1>2. ASSUME NEW o \in n..(nextSource - 1)
      PROVE  /\ entries'[o].sid = es[o].sid
             /\ entries'[o].rev = es[o].rev
             /\ entries'[o].status = es[o].status
             /\ entries'[o].offered <=>
                   es[o].offered \/ (o = n /\ Offers(es[n], n, force))
  <2>1. nextOrder \in Nat /\ nextSource \in Nat /\ n \in Nat /\ nextOrder <= n
    BY DEF TypeOK
  <2>2. o \in Pending /\ (o = n => n < nextSource)
    BY <2>1 DEF Pending
  <2>3. es[o] \in Entry
    BY <2>2 DEF SameShape
  <2>4. CASE o = n /\ Offers(es[n], n, force)
    <3>1. entries'[o] = [es[o] EXCEPT !.offered = TRUE]
      BY <1>1, <2>2, <2>4
    <3> QED BY <2>3, <2>4, <3>1 DEF Entry
  <2>5. CASE ~(o = n /\ Offers(es[n], n, force))
    <3>1. entries'[o] = es[o]
      BY <1>1, <2>5
    <3> QED BY <2>5, <3>1
  <2> QED BY <2>4, <2>5
<1> QED BY <1>1, <1>2

LEMMA DrainSettled ==
    ASSUME Settled, NEW es, SameShape(es), NEW force \in BOOLEAN,
           Drain(es, force), DrainFrame
    PROVE  Settled'
<1>1. TypeOK /\ Places /\ PassedIsSettled
  BY DEF Settled
<1>2. TypeOK'
  BY <1>1, DrainType
<1>3. PICK n \in nextOrder..nextSource :
         /\ nextOrder' = n
         /\ \A o \in nextOrder..(n - 1) : Passes(es[o], o, force)
         /\ \A o \in n..(nextSource - 1) :
               entries'[o].sid = es[o].sid /\ entries'[o].status = es[o].status
         /\ \A s \in Sentences :
               released'[s] = IF /\ sentenceOrders[s] \in nextOrder..(n - 1)
                                 /\ es[sentenceOrders[s]].status = "ready"
                              THEN es[sentenceOrders[s]].rev ELSE released[s]
         /\ failed' = failed \cup {es[o].sid : o \in
                         {p \in nextOrder..(n - 1) : es[p].status = "failed"}}
  BY <1>1, DrainEffect
<1> DEFINE passed == nextOrder..(n - 1)
<1>4. /\ nextOrder \in Nat /\ nextSource \in Nat /\ n \in Nat
      /\ nextOrder <= n /\ n <= nextSource
      /\ sentenceOrders' = sentenceOrders /\ superseded' = superseded
      /\ nextSource' = nextSource /\ Pending' = n..(nextSource - 1)
  BY <1>1, <1>3 DEF TypeOK, DrainFrame, Pending
<1>5. ASSUME NEW o \in nextOrder..(nextSource - 1)
      PROVE  /\ es[o] \in Entry /\ entries[o] \in Entry /\ es[o].sid \in Sentences
             /\ es[o].rev \in Revisions
             /\ sentenceOrders[es[o].sid] = o /\ o \in Nat
             /\ \A s \in Sentences : sentenceOrders[s] = o => s = es[o].sid
             /\ es[o].status = "superseded" <=> es[o].sid \in superseded
  <2>1. o \in Pending /\ o \in Nat
    BY <1>4 DEF Pending
  <2>2. /\ es[o] \in Entry /\ entries[o] \in Entry /\ es[o].sid = entries[o].sid
        /\ es[o].status = "superseded" <=> entries[o].status = "superseded"
    BY <1>1, <2>1 DEF SameShape, TypeOK
  <2> QED BY <1>1, <2>1, <2>2 DEF Places, Entry, NoOrder
<1>6. \A o \in passed : o \in nextOrder..(nextSource - 1)
  BY <1>4
<1>7. Places'
  <2>1. \A s \in Sentences : sentenceOrders'[s] < nextSource'
    BY <1>1, <1>4 DEF Places
  <2>2. \A s, t \in Sentences : sentenceOrders'[s] = sentenceOrders'[t]
            /\ sentenceOrders'[s] # NoOrder => s = t
    BY <1>1, <1>4 DEF Places
  <2>3. ASSUME NEW o \in Pending'
        PROVE  /\ sentenceOrders'[entries'[o].sid] = o
               /\ entries'[o].status = "superseded" <=> entries'[o].sid \in superseded'
    <3>1. o \in n..(nextSource - 1) /\ o \in nextOrder..(nextSource - 1)
      BY <1>4
    <3> QED BY <1>3, <1>4, <1>5, <3>1
  <2>4. ASSUME NEW s \in Sentences, released'[s] # NoRevision \/ s \in failed'
        PROVE  sentenceOrders'[s] \in 0..(nextOrder' - 1)
    <3>1. CASE sentenceOrders[s] \in passed
      BY <1>3, <1>4, <3>1
    <3>2. CASE released[s] # NoRevision \/ s \in failed
      BY <1>1, <1>3, <1>4, <3>2 DEF Places
    <3>3. CASE \E o \in passed : s = es[o].sid
      BY <1>3, <1>4, <1>5, <1>6, <3>3
    <3> QED BY <1>3, <2>4, <3>1, <3>2, <3>3
  <2>5. \A s \in superseded' : sentenceOrders'[s] # NoOrder
    BY <1>1, <1>4 DEF Places
  <2> QED BY <2>1, <2>2, <2>3, <2>4, <2>5 DEF Places
<1>8. ASSUME NEW s \in Sentences, sentenceOrders[s] \in passed
      PROVE  /\ released[s] = NoRevision /\ s \notin failed
             /\ released'[s] # NoRevision <=> es[sentenceOrders[s]].status = "ready"
             /\ s \in failed' <=> es[sentenceOrders[s]].status = "failed"
             /\ s \in superseded <=> es[sentenceOrders[s]].status = "superseded"
             /\ es[sentenceOrders[s]].status \in {"superseded", "failed", "ready"}
  <2>1. es[sentenceOrders[s]].sid = s /\ es[sentenceOrders[s]].rev \in Revisions
    BY <1>5, <1>6, <1>8
  <2>2. released[s] = NoRevision /\ s \notin failed
    BY <1>1, <1>4, <1>8 DEF Places
  <2>3. s \in failed' <=> es[sentenceOrders[s]].status = "failed"
    BY <1>3, <1>5, <1>6, <1>8, <2>1, <2>2
  <2>4. released'[s] # NoRevision <=> es[sentenceOrders[s]].status = "ready"
    BY <1>3, <1>8, <2>1, <2>2, BoundsAssumption DEF Revisions, NoRevision
  <2>5. es[sentenceOrders[s]].status \in {"superseded", "failed", "ready"}
    BY <1>3, <1>8 DEF Passes
  <2>6. s \in superseded <=> es[sentenceOrders[s]].status = "superseded"
    BY <1>5, <1>6, <1>8, <2>1
  <2> QED BY <2>2, <2>3, <2>4, <2>5, <2>6
<1>9. ASSUME NEW s \in Sentences, sentenceOrders[s] \notin passed
      PROVE  released'[s] = released[s] /\ (s \in failed' <=> s \in failed)
  BY <1>3, <1>5, <1>6, <1>9
<1>10. PassedIsSettled'
  <2> SUFFICES ASSUME NEW s \in Sentences
               PROVE  /\ sentenceOrders[s] \in 0..(n - 1) =>
                            released'[s] # NoRevision \/ s \in superseded \/ s \in failed'
                      /\ released'[s] # NoRevision => s \notin superseded \cup failed'
                      /\ s \in superseded => s \notin failed'
    BY <1>3, <1>4 DEF PassedIsSettled
  <2>1. CASE sentenceOrders[s] \in passed
    BY <1>8, <2>1
  <2>2. CASE sentenceOrders[s] \notin passed
    <3>1. sentenceOrders[s] \in 0..(n - 1) => sentenceOrders[s] \in 0..(nextOrder - 1)
      BY <1>4, <2>2
    <3> QED BY <1>1, <1>9, <2>2, <3>1 DEF PassedIsSettled
  <2> QED BY <2>1, <2>2
<1> QED BY <1>2, <1>7, <1>10 DEF Settled

(* A transition that leaves every sentence at its place and decides no fate. *)
RowsKept ==
    /\ UNCHANGED << sentenceOrders, released, superseded, nextOrder, nextSource,
                    failed >>
    /\ \A o \in Pending :
          /\ entries'[o].sid = entries[o].sid
          /\ entries'[o].status = "superseded" <=> entries[o].status = "superseded"

LEMMA RowsKeptSettled ==
    ASSUME Settled, TypeOK', RowsKept
    PROVE  Settled'
<1>1. TypeOK /\ Places /\ PassedIsSettled
  BY DEF Settled
<1>2. Pending' = Pending
  BY DEF RowsKept, Pending
<1>3. Places'
  BY <1>1, <1>2 DEF RowsKept, Places
<1>4. PassedIsSettled'
  BY <1>1 DEF RowsKept, PassedIsSettled
<1> QED BY <1>3, <1>4 DEF Settled

LEMMA DiscardedRows ==
    ASSUME TypeOK, NEW s, NEW r, entries' = Discarded(s, r), NEW o \in Pending
    PROVE  /\ entries'[o].sid = entries[o].sid
           /\ entries'[o].rev = entries[o].rev
           /\ entries'[o].status = "superseded" <=> entries[o].status = "superseded"
<1>1. DOMAIN entries = Pending /\ entries[o] \in Entry
  BY DEF TypeOK
<1>2. CASE Current(s, r)
  <2> DEFINE p == sentenceOrders[s]
  <2>1. p \in Pending /\ entries[p].status # "superseded"
    BY <1>1, <1>2 DEF Current
  <2>2. \/ entries' = [entries EXCEPT ![p].status = "failed"]
        \/ entries' = [entries EXCEPT ![p].offered = FALSE]
        \/ entries' = entries
    BY <1>2 DEF Discarded, WithStatus
  <2>3. CASE entries' = [entries EXCEPT ![p].status = "failed"]
    BY <1>1, <2>1, <2>3 DEF Entry
  <2>4. CASE entries' = [entries EXCEPT ![p].offered = FALSE]
    BY <1>1, <2>1, <2>4 DEF Entry
  <2> QED BY <2>2, <2>3, <2>4
<1>3. CASE ~Current(s, r)
  BY <1>3 DEF Discarded, WithStatus
<1> QED BY <1>2, <1>3

LEMMA InitSettled == Init => Settled
<1> SUFFICES ASSUME Init PROVE Settled
  OBVIOUS
<1>1. TypeOK
  BY InitType
<1>2. Pending = {} /\ failed = {} /\ superseded = {} /\ nextOrder = 0 /\ nextSource = 0
      /\ \A s \in Sentences : sentenceOrders[s] = NoOrder /\ released[s] = NoRevision
  BY DEF Init, Pending
<1>3. Places
  BY <1>2 DEF Places, NoOrder
<1>4. PassedIsSettled
  BY <1>2 DEF PassedIsSettled, NoOrder
<1> QED BY <1>1, <1>3, <1>4 DEF Settled

LEMMA SharedCommitSettled == ASSUME Settled, SharedCommit PROVE Places' /\ PassedIsSettled'
<1> DEFINE i == Head(queued)
<1>0. TypeOK /\ Places /\ PassedIsSettled
  BY DEF Settled
<1>1. i \in Item /\ DOMAIN entries = Pending /\ nextOrder \in Nat /\ nextSource \in Nat
      /\ sentenceOrders' = sentenceOrders /\ superseded' = superseded
      /\ nextSource' = nextSource /\ failed' = failed
  BY <1>0 DEF SharedCommit, Commit, TypeOK
<1>2. i.sid \in Sentences /\ i.rev \in Revisions
  BY <1>1 DEF Item
<1>3. CASE UNCHANGED << entries, released, nextOrder >>
  BY <1>0, <1>1, <1>3 DEF Places, PassedIsSettled, Pending
<1>4. CASE ~UNCHANGED << entries, released, nextOrder >>
  <2>1. Current(i.sid, i.rev) /\ sentenceOrders[i.sid] = nextOrder
    BY <1>4 DEF SharedCommit, Commit
  <2>2. PICK n \in (nextOrder + 1)..nextSource :
           /\ \A o \in (nextOrder + 1)..(n - 1) : entries[o].status = "superseded"
           /\ nextOrder' = n
           /\ entries' = [o \in n..(nextSource - 1) |-> entries[o]]
           /\ released' = [released EXCEPT ![i.sid] = i.rev]
    BY <1>4 DEF SharedCommit, Commit
  <2>3. /\ nextOrder \in Pending /\ n \in Nat /\ n <= nextSource /\ nextOrder < n
        /\ entries[nextOrder].status # "superseded"
        /\ Pending' = n..(nextSource - 1)
    BY <1>1, <2>1, <2>2 DEF Current, Pending
  <2>4. \A s \in Sentences : sentenceOrders[s] = nextOrder => s = i.sid
    BY <1>0, <1>1, <1>2, <2>1 DEF Places, NoOrder
  <2>5. i.sid \notin superseded /\ i.sid \notin failed /\ released[i.sid] = NoRevision
    <3>1. entries[nextOrder].sid = i.sid
      BY <1>0, <1>1, <2>3, <2>4 DEF Places, TypeOK, Entry
    <3>2. sentenceOrders[i.sid] \notin 0..(nextOrder - 1)
      BY <1>1, <2>1
    <3> QED BY <1>0, <1>2, <2>3, <3>1, <3>2 DEF Places
  <2>6. \A s \in Sentences : released'[s] = IF s = i.sid THEN i.rev ELSE released[s]
    BY <1>0, <2>2 DEF TypeOK
  <2>7. \A o \in Pending' : entries'[o] = entries[o] /\ o \in Pending
    BY <1>1, <2>2, <2>3 DEF Pending
  <2>8. Places'
    <3>1. \A s \in Sentences : released'[s] # NoRevision \/ s \in failed' =>
              sentenceOrders'[s] \in 0..(nextOrder' - 1)
      BY <1>0, <1>1, <2>1, <2>2, <2>3, <2>6 DEF Places
    <3> QED BY <1>0, <1>1, <2>7, <3>1 DEF Places
  <2>9. ASSUME NEW s \in Sentences, sentenceOrders[s] \in 0..(n - 1),
               sentenceOrders[s] \notin 0..(nextOrder - 1)
        PROVE  released'[s] # NoRevision \/ s \in superseded
    <3>1. CASE sentenceOrders[s] = nextOrder
      BY <1>2, <2>4, <2>6, <3>1, BoundsAssumption DEF Revisions, NoRevision
    <3>2. CASE sentenceOrders[s] # nextOrder
      <4>1. sentenceOrders[s] \in (nextOrder + 1)..(n - 1) /\ sentenceOrders[s] \in Pending
        BY <1>1, <2>3, <2>9, <3>2 DEF Pending
      <4>2. entries[sentenceOrders[s]].sid = s
        <5>1. entries[sentenceOrders[s]].sid \in Sentences
          BY <1>0, <4>1 DEF TypeOK, Entry
        <5> QED BY <1>0, <1>1, <4>1, <5>1 DEF Places, NoOrder, Pending
      <4> QED BY <1>0, <2>2, <4>1, <4>2 DEF Places
    <3> QED BY <3>1, <3>2
  <2>10. PassedIsSettled'
    <3> SUFFICES ASSUME NEW s \in Sentences
                 PROVE  /\ sentenceOrders[s] \in 0..(n - 1) =>
                              released'[s] # NoRevision \/ s \in superseded \/ s \in failed
                        /\ released'[s] # NoRevision => s \notin superseded \cup failed
                        /\ s \in superseded => s \notin failed
      BY <1>1, <2>2 DEF PassedIsSettled
    <3>1. /\ released[s] # NoRevision => s \notin superseded \cup failed
          /\ s \in superseded => s \notin failed
          /\ sentenceOrders[s] \in 0..(nextOrder - 1) =>
                released[s] # NoRevision \/ s \in superseded \/ s \in failed
      BY <1>0 DEF PassedIsSettled
    <3>2. released[s] # NoRevision => released'[s] # NoRevision
      BY <2>5, <2>6
    <3>3. released'[s] # NoRevision => s = i.sid \/ released[s] # NoRevision
      BY <2>6
    <3> QED BY <2>5, <2>9, <3>1, <3>2, <3>3
  <2> QED BY <2>8, <2>10
<1> QED BY <1>3, <1>4

LEMMA RegisterNewSettled ==
    ASSUME Settled, NEW s \in Sentences, RegisterNew(s)
    PROVE  Places' /\ PassedIsSettled'
<1>1. TypeOK /\ Places /\ PassedIsSettled
  BY DEF Settled
<1>2. /\ nextOrder \in Nat /\ nextSource \in Nat /\ nextOrder <= nextSource
      /\ nextOrder' = nextOrder /\ nextSource' = nextSource + 1
      /\ released' = released /\ failed' = failed /\ superseded' = superseded
      /\ Pending = nextOrder..(nextSource - 1) /\ Pending' = nextOrder..nextSource
  BY <1>1 DEF RegisterNew, TypeOK, Pending
<1>3. /\ sentenceOrders[s] = NoOrder
      /\ \A t \in Sentences :
            /\ sentenceOrders'[t] = IF t = s THEN nextSource ELSE sentenceOrders[t]
            /\ sentenceOrders[t] < nextSource
            /\ sentenceOrders[t] \in Int
  BY <1>1 DEF RegisterNew, TypeOK, Places, NoOrder
<1>4. s \notin superseded /\ released[s] = NoRevision /\ s \notin failed
  BY <1>1, <1>2, <1>3 DEF Places, NoOrder
<1>5. ASSUME NEW o \in Pending'
      PROVE  /\ sentenceOrders'[entries'[o].sid] = o
             /\ entries'[o].status = "superseded" <=> entries'[o].sid \in superseded'
  <2>1. CASE o = nextSource
    <3>1. entries'[o].sid = s /\ entries'[o].status = "waiting"
      BY <1>2, <2>1 DEF RegisterNew, Fresh
    <3> QED BY <1>2, <1>3, <1>4, <2>1, <3>1
  <2>2. CASE o # nextSource
    <3>1. o \in Pending /\ entries'[o] = entries[o]
      BY <1>2, <2>2 DEF RegisterNew
    <3>2. entries[o].sid \in Sentences /\ sentenceOrders[entries[o].sid] = o /\ o # NoOrder
      BY <1>1, <1>2, <3>1 DEF TypeOK, Entry, Places, NoOrder
    <3> QED BY <1>1, <1>2, <1>3, <3>1, <3>2 DEF Places
  <2> QED BY <2>1, <2>2
<1>6. \A a, b \in Sentences :
         sentenceOrders'[a] = sentenceOrders'[b] /\ sentenceOrders'[a] # NoOrder => a = b
  BY <1>1, <1>3 DEF Places
<1>7. \A t \in Sentences : sentenceOrders'[t] < nextSource'
  BY <1>2, <1>3
<1>8. \A t \in superseded : sentenceOrders'[t] # NoOrder
  BY <1>1, <1>3, <1>4 DEF Places, TypeOK
<1>9. \A t \in Sentences : released[t] # NoRevision \/ t \in failed =>
         sentenceOrders'[t] \in 0..(nextOrder - 1)
  BY <1>1, <1>3, <1>4 DEF Places
<1>10. Places'
  BY <1>2, <1>5, <1>6, <1>7, <1>8, <1>9 DEF Places
<1>11. PassedIsSettled'
  BY <1>1, <1>2, <1>3 DEF PassedIsSettled
<1> QED BY <1>10, <1>11

LEMMA ReconcileSettled ==
    ASSUME Settled, NEW owner \in Sentences, NEW rows \in SUBSET Sentences,
           Reconcile(owner, rows)
    PROVE  Places' /\ PassedIsSettled'
<1> DEFINE o == sentenceOrders[owner]
<1>1. TypeOK /\ Places /\ PassedIsSettled
  BY DEF Settled
<1>2. /\ UNCHANGED << sentenceOrders, released, nextOrder, nextSource, failed >>
      /\ superseded' = superseded \cup rows /\ owner \notin rows
      /\ Pending' = Pending /\ DOMAIN entries = Pending
      /\ o \in Pending
      /\ \A s \in rows : sentenceOrders[s] \in Pending
      /\ entries[o].status # "superseded"
  BY <1>1 DEF Reconcile, CanSupersede, Superseding, TypeOK, Pending
<1>3. ASSUME NEW p \in Pending
      PROVE  /\ entries'[p].sid = entries[p].sid
             /\ entries'[p].status = "superseded" <=>
                   entries[p].status = "superseded" \/ entries[p].sid \in rows
  <2>1. entries'[p] = IF p = o THEN Fresh(owner, entries[o].rev + 1)
                      ELSE IF entries[p].sid \in rows
                      THEN [entries[p] EXCEPT !.status = "superseded", !.offered = FALSE]
                      ELSE entries[p]
    BY <1>2 DEF Reconcile, CanSupersede, Superseding
  <2>2. entries[p] \in Entry /\ entries[p].sid \in Sentences
    BY <1>1 DEF TypeOK, Entry
  <2>3. entries[o].sid = owner
    <3>1. entries[o].sid \in Sentences /\ sentenceOrders[entries[o].sid] = o
      BY <1>1, <1>2 DEF TypeOK, Entry, Places
    <3>2. o # NoOrder
      BY <1>1, <1>2 DEF Pending, TypeOK, NoOrder
    <3> QED BY <1>1, <3>1, <3>2 DEF Places
  <2>4. CASE p = o
    BY <1>2, <2>1, <2>3, <2>4 DEF Fresh
  <2>5. CASE p # o /\ entries[p].sid \in rows
    BY <2>1, <2>2, <2>5 DEF Entry
  <2>6. CASE p # o /\ entries[p].sid \notin rows
    BY <2>1, <2>6
  <2> QED BY <2>4, <2>5, <2>6
<1>4. ASSUME NEW s \in rows
      PROVE  sentenceOrders[s] # NoOrder /\ released[s] = NoRevision /\ s \notin failed
  <2>1. sentenceOrders[s] \in Pending /\ nextOrder \in Nat
    BY <1>1, <1>2 DEF TypeOK
  <2>2. sentenceOrders[s] \notin 0..(nextOrder - 1) /\ sentenceOrders[s] # NoOrder
    BY <2>1 DEF Pending, NoOrder
  <2> QED BY <1>1, <2>2 DEF Places
<1>5. Places'
  BY <1>1, <1>2, <1>3, <1>4 DEF Places
<1>6. PassedIsSettled'
  BY <1>1, <1>2, <1>4 DEF PassedIsSettled
<1> QED BY <1>5, <1>6

LEMMA RegisterRevisionRows ==
    ASSUME Settled, NEW s \in Sentences, RegisterRevision(s)
    PROVE  RowsKept
<1>1. TypeOK /\ Places
  BY DEF Settled
<1>2. /\ DOMAIN entries = Pending /\ sentenceOrders[s] \in Pending
      /\ entries[sentenceOrders[s]].status # "superseded"
      /\ entries[sentenceOrders[s]].sid = s
  <2>1. sentenceOrders[s] \in Pending /\ DOMAIN entries = Pending
    BY <1>1 DEF RegisterRevision, TypeOK
  <2>2. sentenceOrders[s] # NoOrder /\ entries[sentenceOrders[s]].sid \in Sentences
    BY <1>1, <2>1 DEF TypeOK, Pending, NoOrder, Entry
  <2> QED BY <1>1, <2>1, <2>2 DEF RegisterRevision, Places
<1>3. \A o \in Pending :
         entries'[o] = IF o = sentenceOrders[s]
                       THEN Fresh(s, entries[sentenceOrders[s]].rev + 1) ELSE entries[o]
  BY <1>2 DEF RegisterRevision
<1> QED BY <1>2, <1>3 DEF RegisterRevision, RowsKept, Fresh

LEMMA RevokeRows ==
    ASSUME TypeOK, NEW s \in Sentences, Revoke(s)
    PROVE  RowsKept
<1> DEFINE p == sentenceOrders[s]
<1>1. DOMAIN entries = Pending /\ p \in Pending /\ entries[p] \in Entry
  BY DEF Revoke, TypeOK
<1>2. entries' = [entries EXCEPT ![p].confirmed = FALSE, ![p].since = clock]
  BY DEF Revoke
<1>3. \A o \in Pending : entries'[o].sid = entries[o].sid /\ entries'[o].status = entries[o].status
  BY <1>1, <1>2 DEF Entry
<1> QED BY <1>3 DEF Revoke, RowsKept

LEMMA SettledStep == Settled /\ [Next]_vars => Settled'
<1> SUFFICES ASSUME Settled, [Next]_vars PROVE Settled'
  OBVIOUS
<1>0. TypeOK /\ TypeOK'
  BY TypeStep DEF Settled
<1>1. ASSUME NEW s \in Sentences, RegisterNew(s) PROVE Settled'
  BY <1>0, <1>1, RegisterNewSettled DEF Settled
<1>2. ASSUME NEW s \in Sentences, RegisterRevision(s) PROVE Settled'
  BY <1>0, <1>2, RegisterRevisionRows, RowsKeptSettled
<1>3. ASSUME NEW s \in Sentences, NEW rows \in SUBSET Sentences, Reconcile(s, rows)
      PROVE Settled'
  BY <1>0, <1>3, ReconcileSettled DEF Settled
<1>4. ASSUME NEW s \in Sentences, MarkReady(s) PROVE Settled'
  BY <1>0, <1>4, StatusShape, DrainSettled DEF MarkReady
<1>5. ASSUME NEW s \in Sentences, MarkFailed(s) PROVE Settled'
  BY <1>0, <1>5, StatusShape, DrainSettled DEF MarkFailed
<1>6. ASSUME NEW s \in Sentences, NEW age \in NoAge..MaxEvidenceAge,
             NEW allow \in BOOLEAN, Confirm(s, age, allow)
      PROVE Settled'
  <2>1. age \in Int
    BY BoundsAssumption DEF NoAge
  <2> QED BY <1>0, <1>6, <2>1, ConfirmedShape, DrainSettled DEF Confirm
<1>7. CASE SealSegment
  BY <1>0, <1>7, SealedShape, DrainSettled DEF SealSegment
<1>8. SameShape(entries)
  BY <1>0 DEF SameShape, TypeOK
<1>9. CASE SchedulerDrain
  BY <1>8, <1>9, DrainSettled DEF SchedulerDrain
<1>10. CASE FinishDrain
  BY <1>8, <1>10, DrainSettled DEF FinishDrain
<1>11. ASSUME NEW s \in Sentences, Revoke(s) PROVE Settled'
  BY <1>0, <1>11, RevokeRows, RowsKeptSettled
<1>12. ASSUME NEW i \in ready, PublishRefused(i) PROVE Settled'
  <2>1. RowsKept
    BY <1>0, <1>12, DiscardedRows DEF PublishRefused, RowsKept
  <2> QED BY <1>0, <2>1, RowsKeptSettled
<1>13. CASE SharedCommit
  BY <1>0, <1>13, SharedCommitSettled DEF Settled
<1>14. CASE Discard
  <2>1. RowsKept
    BY <1>0, <1>14, DiscardedRows DEF Discard, RowsKept
  <2> QED BY <1>0, <2>1, RowsKeptSettled
<1>15. ASSUME UNCHANGED << entries, sentenceOrders, released, superseded, nextOrder,
                          nextSource, failed >>
       PROVE  Settled'
  <2>1. RowsKept
    BY <1>15 DEF RowsKept
  <2> QED BY <1>0, <2>1, RowsKeptSettled
<1>16. ASSUME NEW i \in ready, PublishAccepted(i) PROVE Settled'
  BY <1>15, <1>16 DEF PublishAccepted
<1>17. CASE SkipRevised \/ Tick \/ PlaybackPressure \/ UNCHANGED vars
  BY <1>15, <1>17 DEF SkipRevised, Tick, PlaybackPressure, vars
<1> QED
  BY <1>1, <1>2, <1>3, <1>4, <1>5, <1>6, <1>7, <1>9, <1>10, <1>11, <1>12, <1>13,
     <1>14, <1>16, <1>17 DEF Next, Publish

(* Every sentence the head has passed was released, absorbed by an earlier  *)
(* owner or given up as failed, and exactly one of the three: drain(),      *)
(* commit() and supersede_many() together lose no sentence and settle none  *)
(* twice.                                                                   *)
THEOREM Settlement == Spec => []PassedIsSettled
<1>1. Init => Settled
  BY InitSettled
<1>2. Settled /\ [Next]_vars => Settled'
  BY SettledStep
<1>3. Settled => PassedIsSettled
  BY DEF Settled
<1> QED BY <1>1, <1>2, <1>3, PTL DEF Spec

-------------------------------------------------------------------------------
(* A released revision is never touched again. *)
LEMMA DrainKeepsReleased ==
    ASSUME Settled, NEW es, SameShape(es), NEW force \in BOOLEAN,
           Drain(es, force), DrainFrame, NEW s \in Sentences,
           released[s] # NoRevision
    PROVE  released'[s] = released[s]
<1>1. TypeOK /\ sentenceOrders[s] \in 0..(nextOrder - 1) /\ nextOrder \in Nat
  BY DEF Settled, TypeOK, Places
<1>2. PICK n \in nextOrder..nextSource : \A t \in Sentences :
         released'[t] = IF /\ sentenceOrders[t] \in nextOrder..(n - 1)
                           /\ es[sentenceOrders[t]].status = "ready"
                        THEN es[sentenceOrders[t]].rev ELSE released[t]
  BY <1>1, DrainEffect
<1> QED BY <1>1, <1>2

LEMMA ReleasedKept ==
    ASSUME Settled, [Next]_vars, NEW s \in Sentences, released[s] # NoRevision
    PROVE  released'[s] = released[s]
<1>0. TypeOK /\ sentenceOrders[s] \in 0..(nextOrder - 1) /\ nextOrder \in Nat
  BY DEF Settled, TypeOK, Places
<1>1. CASE UNCHANGED released
  BY <1>1
<1>2. CASE SharedCommit
  <2>1. CASE ~UNCHANGED released
    <3>1. /\ Current(Head(queued).sid, Head(queued).rev)
          /\ sentenceOrders[Head(queued).sid] = nextOrder
          /\ released' = [released EXCEPT ![Head(queued).sid] = Head(queued).rev]
      BY <1>2, <2>1 DEF SharedCommit, Commit
    <3>2. s # Head(queued).sid
      BY <1>0, <3>1
    <3> QED BY <3>1, <3>2
  <2> QED BY <1>1, <2>1
<1>3. ASSUME NEW t \in Sentences, MarkReady(t) \/ MarkFailed(t)
      PROVE  released'[s] = released[s]
  BY <1>0, <1>3, StatusShape, DrainKeepsReleased DEF MarkReady, MarkFailed
<1>4. ASSUME NEW t \in Sentences, NEW age \in NoAge..MaxEvidenceAge,
             NEW allow \in BOOLEAN, Confirm(t, age, allow)
      PROVE  released'[s] = released[s]
  <2>1. age \in Int
    BY BoundsAssumption DEF NoAge
  <2> QED BY <1>0, <1>4, <2>1, ConfirmedShape, DrainKeepsReleased DEF Confirm
<1>5. CASE SealSegment
  BY <1>0, <1>5, SealedShape, DrainKeepsReleased DEF SealSegment
<1>6. CASE SchedulerDrain \/ FinishDrain
  <2>1. SameShape(entries)
    BY <1>0 DEF SameShape, TypeOK
  <2> QED BY <1>6, <2>1, DrainKeepsReleased DEF SchedulerDrain, FinishDrain
<1>7. ASSUME NEW t \in Sentences,
             \/ RegisterNew(t) \/ RegisterRevision(t) \/ Revoke(t)
             \/ \E rows \in SUBSET Sentences : Reconcile(t, rows)
      PROVE  UNCHANGED released
  BY <1>7 DEF RegisterNew, RegisterRevision, Revoke, Reconcile, CanSupersede, Superseding
<1>8. ASSUME NEW i \in ready, PublishAccepted(i) \/ PublishRefused(i)
      PROVE  UNCHANGED released
  BY <1>8 DEF PublishAccepted, PublishRefused
<1>9. CASE Discard \/ SkipRevised \/ Tick \/ PlaybackPressure \/ UNCHANGED vars
  BY <1>1, <1>9 DEF Discard, SkipRevised, Tick, PlaybackPressure, vars
<1> QED
  BY <1>1, <1>2, <1>3, <1>4, <1>5, <1>6, <1>7, <1>8, <1>9 DEF Next, Publish

(* The revision a sentence was released with is immutable: no later edit,   *)
(* confirmation, withdrawal, reconciliation or drain replaces it.           *)
THEOREM ReleaseIsFinal == Spec => ReleasedIsFinal
<1>1. Init => Settled
  BY InitSettled
<1>2. Settled /\ [Next]_vars => Settled'
  BY SettledStep
<1>3. Settled /\ [Next]_vars =>
         [\A s \in Sentences : released[s] # NoRevision => released'[s] = released[s]]_vars
  BY ReleasedKept
<1> QED BY <1>1, <1>2, <1>3, PTL DEF Spec, ReleasedIsFinal

-------------------------------------------------------------------------------
(* Only the head is ever on offer, and only with a translation (which a     *)
(* later failure may have taken away).                                      *)
Offered ==
    \A o \in Pending : entries[o].offered =>
        o = nextOrder /\ entries[o].status \in {"ready", "failed"}

(* drain() is given entries whose status is the old one or an answer's.     *)
KeepsOffers(es) ==
    \A o \in Pending :
        es[o].status = entries[o].status \/ es[o].status \in {"ready", "failed"}

LEMMA DrainOffered ==
    ASSUME TypeOK, Offered, NEW es, SameShape(es), KeepsOffers(es),
           NEW force \in BOOLEAN, Drain(es, force), DrainFrame
    PROVE  Offered'
<1>1. PICK n \in nextOrder..nextSource :
         /\ nextOrder' = n
         /\ \A o \in n..(nextSource - 1) :
               /\ entries'[o].status = es[o].status
               /\ entries'[o].offered <=>
                     es[o].offered \/ (o = n /\ Offers(es[n], n, force))
  BY DrainEffect
<1>2. /\ nextOrder \in Nat /\ nextSource \in Nat /\ n \in Nat /\ nextOrder <= n
      /\ Pending' = n..(nextSource - 1)
  BY <1>1 DEF TypeOK, DrainFrame, Pending
<1> SUFFICES ASSUME NEW o \in n..(nextSource - 1), entries'[o].offered
             PROVE  o = n /\ entries'[o].status \in {"ready", "failed"}
  BY <1>1, <1>2 DEF Offered
<1>3. o \in Pending
  BY <1>2 DEF Pending
<1>4. es[o].offered <=> entries[o].offered
  BY <1>3 DEF SameShape
<1>5. CASE o = n /\ Offers(es[n], n, force)
  BY <1>1, <1>5 DEF Offers
<1>6. CASE es[o].offered
  <2>1. o = nextOrder /\ entries[o].status \in {"ready", "failed"}
    BY <1>3, <1>4, <1>6 DEF Offered
  <2>2. es[o].status \in {"ready", "failed"}
    BY <1>3, <2>1 DEF KeepsOffers
  <2> QED BY <1>1, <1>2, <2>1, <2>2
<1> QED BY <1>1, <1>5, <1>6

(* A confirmation or a seal leaves every status alone. *)
LEMMA StatusKept ==
    ASSUME TypeOK, NEW o \in Pending
    PROVE  /\ Sealed[o].status = entries[o].status
           /\ \A s \in Sentences : \A age \in Int : \A allow \in BOOLEAN :
                 sentenceOrders[s] \in DOMAIN entries =>
                    Confirmed(s, age, allow)[o].status = entries[o].status
<1>1. DOMAIN entries = Pending /\ \A p \in Pending : entries[p] \in Entry
  BY DEF TypeOK
<1>2. Sealed[o].status = entries[o].status
  <2>1. entries[o] \in Entry /\ o \in DOMAIN entries
    BY <1>1
  <2> QED BY <2>1 DEF Sealed, Entry
<1>3. ASSUME NEW s \in Sentences, NEW age \in Int, NEW allow \in BOOLEAN,
             sentenceOrders[s] \in DOMAIN entries
      PROVE  Confirmed(s, age, allow)[o].status = entries[o].status
  <2> DEFINE p == sentenceOrders[s]
             e == [entries[p] EXCEPT !.confirmed = TRUE, !.urgentOk = allow,
                      !.since = IF age # NoAge /\ clock - age < entries[p].since
                                THEN clock - age ELSE entries[p].since]
  <2>1. Confirmed(s, age, allow) = [entries EXCEPT ![p] = e]
    BY DEF Confirmed
  <2>2. e.status = entries[p].status
    BY <1>1, <1>3 DEF Entry
  <2> HIDE DEF e
  <2>3. \A q \in Pending :
           [entries EXCEPT ![p] = e][q] = IF q = p THEN e ELSE entries[q]
    BY <1>1, <1>3
  <2> QED BY <2>1, <2>2, <2>3
<1> QED BY <1>2, <1>3

LEMMA KeptOffers ==
    ASSUME TypeOK
    PROVE  /\ KeepsOffers(entries) /\ KeepsOffers(Sealed)
           /\ \A s \in Sentences : \A r \in Revisions : \A st \in {"ready", "failed"} :
                 KeepsOffers(WithStatus(s, r, st))
           /\ \A s \in Sentences : \A age \in Int : \A allow \in BOOLEAN :
                 sentenceOrders[s] \in DOMAIN entries => KeepsOffers(Confirmed(s, age, allow))
<1>1. DOMAIN entries = Pending /\ \A o \in Pending : entries[o] \in Entry
  BY DEF TypeOK
<1>2. KeepsOffers(entries)
  BY DEF KeepsOffers
<1>3. KeepsOffers(Sealed)
  BY StatusKept DEF KeepsOffers
<1>4. ASSUME NEW s \in Sentences, NEW r \in Revisions, NEW st \in {"ready", "failed"}
      PROVE  KeepsOffers(WithStatus(s, r, st))
  <2>1. CASE ~Current(s, r)
    BY <2>1 DEF WithStatus, KeepsOffers
  <2>2. CASE Current(s, r)
    <3>1. WithStatus(s, r, st) = [entries EXCEPT ![sentenceOrders[s]].status = st]
      BY <2>2 DEF WithStatus
    <3> QED BY <1>1, <3>1 DEF KeepsOffers, Entry
  <2> QED BY <2>1, <2>2
<1>5. ASSUME NEW s \in Sentences, NEW age \in Int, NEW allow \in BOOLEAN,
             sentenceOrders[s] \in DOMAIN entries
      PROVE  KeepsOffers(Confirmed(s, age, allow))
  BY <1>5, StatusKept DEF KeepsOffers
<1> QED BY <1>2, <1>3, <1>4, <1>5

LEMMA OfferedStep == TypeOK /\ TypeOK' /\ Offered /\ [Next]_vars => Offered'
<1> SUFFICES ASSUME TypeOK, TypeOK', Offered, [Next]_vars PROVE Offered'
  OBVIOUS
<1>0. DOMAIN entries = Pending /\ \A o \in Pending : entries[o] \in Entry
  BY DEF TypeOK
<1>1. ASSUME NEW s \in Sentences, RegisterNew(s) PROVE Offered'
  <2>0. nextOrder \in Nat /\ nextSource \in Nat
        /\ nextOrder' = nextOrder /\ nextSource' = nextSource + 1
    BY <1>1 DEF RegisterNew, TypeOK
  <2>1. Pending' = nextOrder..nextSource
        /\ \A o \in nextOrder..nextSource : o # nextSource => o \in Pending
    BY <2>0 DEF Pending
  <2>2. \A o \in nextOrder..nextSource :
           entries'[o] = IF o = nextSource THEN Fresh(s, 1) ELSE entries[o]
    BY <1>1 DEF RegisterNew
  <2> QED BY <2>0, <2>1, <2>2 DEF Offered, Fresh
<1>2. ASSUME NEW s \in Sentences, RegisterRevision(s) PROVE Offered'
  <2>1. Pending' = Pending /\ nextOrder' = nextOrder
    BY <1>2 DEF RegisterRevision, Pending
  <2>2. \A o \in Pending :
           entries'[o] = IF o = sentenceOrders[s]
                         THEN Fresh(s, entries[sentenceOrders[s]].rev + 1) ELSE entries[o]
    BY <1>0, <1>2 DEF RegisterRevision
  <2> QED BY <2>1, <2>2 DEF Offered, Fresh
<1>3. ASSUME NEW s \in Sentences, NEW rows \in SUBSET Sentences, Reconcile(s, rows)
      PROVE Offered'
  <2>1. Pending' = Pending /\ nextOrder' = nextOrder
    BY <1>3 DEF Reconcile, CanSupersede, Superseding, Pending
  <2>2. ASSUME NEW o \in Pending
        PROVE  entries'[o].offered => entries'[o] = entries[o]
    <3>1. entries[o] \in Entry
      BY <1>0
    <3>2. \/ entries'[o] = Fresh(s, entries[sentenceOrders[s]].rev + 1)
          \/ entries'[o] = [entries[o] EXCEPT !.status = "superseded", !.offered = FALSE]
          \/ entries'[o] = entries[o]
      BY <1>0, <1>3 DEF Reconcile, CanSupersede, Superseding
    <3>3. ~Fresh(s, entries[sentenceOrders[s]].rev + 1).offered
      BY DEF Fresh
    <3>4. ~[entries[o] EXCEPT !.status = "superseded", !.offered = FALSE].offered
      BY <3>1 DEF Entry
    <3> QED BY <3>2, <3>3, <3>4
  <2> QED BY <2>1, <2>2 DEF Offered
<1>4. ASSUME NEW s \in Sentences, MarkReady(s) \/ MarkFailed(s) PROVE Offered'
  <2>1. entries[sentenceOrders[s]].rev \in Revisions
    BY <1>0, <1>4 DEF MarkReady, MarkFailed, Entry
  <2> QED BY <1>4, <2>1, StatusShape, KeptOffers, DrainOffered DEF MarkReady, MarkFailed
<1>5. ASSUME NEW s \in Sentences, NEW age \in NoAge..MaxEvidenceAge,
             NEW allow \in BOOLEAN, Confirm(s, age, allow)
      PROVE Offered'
  <2>1. age \in Int
    BY BoundsAssumption DEF NoAge
  <2> QED BY <1>5, <2>1, ConfirmedShape, KeptOffers, DrainOffered DEF Confirm
<1>6. CASE SealSegment
  BY <1>6, SealedShape, KeptOffers, DrainOffered DEF SealSegment
<1>7. CASE SchedulerDrain \/ FinishDrain
  <2>1. SameShape(entries)
    BY DEF SameShape, TypeOK
  <2> QED BY <1>7, <2>1, KeptOffers, DrainOffered DEF SchedulerDrain, FinishDrain
<1>8. ASSUME NEW s \in Sentences, Revoke(s) PROVE Offered'
  <2>1. entries' = [entries EXCEPT ![sentenceOrders[s]].confirmed = FALSE,
                                   ![sentenceOrders[s]].since = clock]
        /\ Pending' = Pending /\ nextOrder' = nextOrder
    BY <1>8 DEF Revoke, Pending
  <2>2. \A o \in Pending : entries'[o].offered = entries[o].offered
                           /\ entries'[o].status = entries[o].status
    BY <1>0, <2>1 DEF Entry
  <2> QED BY <2>1, <2>2 DEF Offered
<1>9. ASSUME NEW s \in Sentences, NEW r, entries' = Discarded(s, r),
             UNCHANGED << nextOrder, nextSource >>
      PROVE  Offered'
  <2> DEFINE p == sentenceOrders[s]
  <2>1. ASSUME Current(s, r), entries' = [entries EXCEPT ![p].status = "failed"]
        PROVE  Offered'
    BY <1>0, <1>9, <2>1 DEF Offered, Entry, Pending
  <2>2. ASSUME Current(s, r), entries' = [entries EXCEPT ![p].offered = FALSE]
        PROVE  Offered'
    BY <1>0, <1>9, <2>2 DEF Offered, Entry, Pending
  <2>3. ASSUME entries' = entries PROVE Offered'
    BY <1>9, <2>3 DEF Offered, Pending
  <2> QED BY <1>9, <2>1, <2>2, <2>3 DEF Discarded, WithStatus
<1>10. ASSUME NEW i \in ready, PublishRefused(i) PROVE Offered'
  BY <1>9, <1>10 DEF PublishRefused, TypeOK, Item
<1>11. CASE Discard
  <2>1. Head(queued).sid \in Sentences
    BY <1>11 DEF Discard, TypeOK, Item
  <2> QED BY <1>9, <1>11, <2>1 DEF Discard
<1>12. ASSUME UNCHANGED << entries, nextOrder, nextSource >> PROVE Offered'
  BY <1>12 DEF Offered, Pending
<1>13. CASE SharedCommit
  <2>1. CASE UNCHANGED << entries, released, nextOrder >>
    BY <1>12, <1>13, <2>1 DEF SharedCommit, Commit
  <2>2. CASE ~UNCHANGED << entries, released, nextOrder >>
    <3>1. PICK n \in (nextOrder + 1)..nextSource :
             nextOrder' = n /\ entries' = [o \in n..(nextSource - 1) |-> entries[o]]
      BY <1>13, <2>2 DEF SharedCommit, Commit
    <3>2. ASSUME NEW o \in Pending'
          PROVE  entries'[o] = entries[o] /\ o \in Pending /\ o # nextOrder
      <4>1. nextOrder \in Nat /\ nextSource \in Nat /\ nextSource' = nextSource
        BY <1>13 DEF SharedCommit, Commit, TypeOK
      <4>2. o \in n..(nextSource - 1)
        BY <3>1, <3>2, <4>1 DEF Pending
      <4> QED BY <3>1, <4>1, <4>2 DEF Pending
    <3> QED BY <3>2 DEF Offered
  <2> QED BY <2>1, <2>2
<1>14. ASSUME NEW i \in ready, PublishAccepted(i) PROVE Offered'
  BY <1>12, <1>14 DEF PublishAccepted
<1>15. CASE SkipRevised \/ Tick \/ PlaybackPressure \/ UNCHANGED vars
  BY <1>12, <1>15 DEF SkipRevised, Tick, PlaybackPressure, vars
<1> QED
  BY <1>1, <1>2, <1>3, <1>4, <1>5, <1>6, <1>7, <1>8, <1>10, <1>11, <1>13, <1>14,
     <1>15 DEF Next, Publish

(* Whatever can_commit() allows at the shared boundary, the commit() that   *)
(* follows does: the revision is released already, or it is the head of the *)
(* order.  can_commit() itself never looks at the head.                     *)
THEOREM GuardIsEnough == Spec => []GuardImpliesCommit
<1>1. Init => TypeOK /\ Offered
  BY InitType DEF Init, Offered, Pending
<1>2. TypeOK /\ Offered /\ [Next]_vars => (TypeOK /\ Offered)'
  BY TypeStep, OfferedStep
<1>3. TypeOK /\ Offered => GuardImpliesCommit
  BY DEF TypeOK, Offered, GuardImpliesCommit, CanCommit, Current
<1> QED BY <1>1, <1>2, <1>3, PTL DEF Spec

-------------------------------------------------------------------------------
(* What the listener of RevisionBuffer is promised, for every set of        *)
(* sentences, every bound and every release policy: an offer is never       *)
(* orphaned, and the shared timeline is the one of SpeechStream.            *)

(* The transitions that end in drain(), seen alike: some entries of the     *)
(* same shape are drained while the lock is free, and an answer never makes *)
(* an entry ready that is already on offer.                                 *)
DrainStep ==
    \/ \E s \in Sentences :
          \/ MarkReady(s) \/ MarkFailed(s)
          \/ \E age \in NoAge..MaxEvidenceAge, allow \in BOOLEAN : Confirm(s, age, allow)
    \/ SealSegment \/ SchedulerDrain \/ FinishDrain

RevivesNothing(es) ==
    \A o \in Pending : entries[o].offered /\ es[o].status = "ready" =>
                          entries[o].status = "ready"

Drained(es, force) ==
    /\ LockFree /\ SameShape(es) /\ KeepsOffers(es) /\ RevivesNothing(es)
    /\ Drain(es, force) /\ DrainFrame

LEMMA DrainForm ==
    ASSUME TypeOK, Offered, DrainStep
    PROVE  \E es : \E force \in BOOLEAN : Drained(es, force)
<1>1. DOMAIN entries = Pending /\ \A o \in Pending : entries[o] \in Entry
  BY DEF TypeOK
<1>2. ASSUME NEW s \in Sentences, sentenceOrders[s] \in DOMAIN entries,
             NEW st \in {"ready", "failed"},
             st = "ready" => entries[sentenceOrders[s]].status = "waiting",
             Drain(WithStatus(s, entries[sentenceOrders[s]].rev, st), FALSE),
             LockFree, DrainFrame,
             entries[sentenceOrders[s]].status \in {"waiting", "ready"}
      PROVE  Drained(WithStatus(s, entries[sentenceOrders[s]].rev, st), FALSE)
  <2> DEFINE p == sentenceOrders[s]
             es == WithStatus(s, entries[p].rev, st)
  <2>1. entries[p] \in Entry /\ p \in Pending /\ entries[p].rev \in Revisions
    BY <1>1, <1>2 DEF Entry
  <2>2. SameShape(es) /\ KeepsOffers(es)
    BY <1>2, <2>1, StatusShape, KeptOffers
  <2>3. ASSUME NEW o \in Pending, entries[o].offered, es[o].status = "ready"
        PROVE  entries[o].status = "ready"
    <3>1. es = [entries EXCEPT ![p].status = st]
      BY <1>1, <1>2, <2>1 DEF WithStatus, Current
    <3>2. es[o].status = IF o = p THEN st ELSE entries[o].status
      BY <1>1, <2>1, <3>1 DEF Entry
    <3>3. o # p
      BY <1>2, <2>1, <2>3, <3>2 DEF Offered
    <3> QED BY <2>3, <3>2, <3>3
  <2> QED BY <1>2, <2>2, <2>3 DEF Drained, RevivesNothing
<1>3. ASSUME NEW s \in Sentences, MarkReady(s) \/ MarkFailed(s)
      PROVE  \E es : \E force \in BOOLEAN : Drained(es, force)
  BY <1>2, <1>3 DEF MarkReady, MarkFailed
<1>4. ASSUME NEW s \in Sentences, NEW age \in NoAge..MaxEvidenceAge,
             NEW allow \in BOOLEAN, Confirm(s, age, allow)
      PROVE  Drained(Confirmed(s, age, allow), FALSE)
  <2>1. age \in Int /\ sentenceOrders[s] \in DOMAIN entries
    BY <1>4, BoundsAssumption DEF NoAge, Confirm
  <2>2. SameShape(Confirmed(s, age, allow)) /\ KeepsOffers(Confirmed(s, age, allow))
    BY <1>4, <2>1, ConfirmedShape, KeptOffers DEF Confirm
  <2>3. RevivesNothing(Confirmed(s, age, allow))
    BY <2>1, StatusKept DEF RevivesNothing
  <2> QED BY <1>4, <2>2, <2>3 DEF Drained, Confirm
<1>5. ASSUME SealSegment PROVE Drained(Sealed, FALSE)
  BY <1>5, SealedShape, KeptOffers, StatusKept DEF Drained, RevivesNothing, SealSegment
<1>6. ASSUME NEW force \in BOOLEAN, LockFree, Drain(entries, force), DrainFrame
      PROVE  Drained(entries, force)
  <2>1. SameShape(entries) /\ KeepsOffers(entries) /\ RevivesNothing(entries)
    BY KeptOffers DEF SameShape, RevivesNothing, TypeOK
  <2> QED BY <1>6, <2>1 DEF Drained
<1>7. CASE SealSegment
  BY <1>5, <1>7
<1>8. CASE SchedulerDrain \/ FinishDrain
  BY <1>6, <1>8 DEF SchedulerDrain, FinishDrain
<1> QED BY <1>3, <1>4, <1>7, <1>8 DEF DrainStep

(* The steps that touch no order, no fate and no offer. *)
LEMMA NextCases ==
    ASSUME [Next]_vars
    PROVE  \/ \E s \in Sentences : RegisterNew(s) \/ RegisterRevision(s) \/ Revoke(s)
           \/ \E s \in Sentences, rows \in SUBSET Sentences : Reconcile(s, rows)
           \/ DrainStep
           \/ \E i \in ready : PublishAccepted(i) \/ PublishRefused(i)
           \/ SharedCommit \/ Discard \/ SkipRevised
           \/ Tick \/ PlaybackPressure \/ UNCHANGED vars
BY DEF Next, Publish, DrainStep

(* Whose entry waits at an order, and what is known of that sentence. *)
LEMMA EntryOwner ==
    ASSUME Settled
    PROVE  /\ DOMAIN entries = Pending
           /\ \A o \in Pending :
                 /\ o \in Nat /\ entries[o] \in Entry /\ entries[o].sid \in Sentences
                 /\ nextOrder <= o /\ o < nextSource
                 /\ sentenceOrders[entries[o].sid] = o
           /\ \A s \in Sentences : sentenceOrders[s] \in Pending =>
                 /\ entries[sentenceOrders[s]].sid = s
                 /\ released[s] = NoRevision /\ s \notin failed
                 /\ entries[sentenceOrders[s]].status = "superseded" <=> s \in superseded
<1>1. TypeOK /\ Places /\ nextOrder \in Nat /\ nextSource \in Nat
  BY DEF Settled, TypeOK
<1>2. DOMAIN entries = Pending /\ \A o \in Pending : entries[o] \in Entry
  BY <1>1 DEF TypeOK
<1>3. ASSUME NEW o \in Pending
      PROVE  /\ o \in Nat /\ entries[o].sid \in Sentences
             /\ nextOrder <= o /\ o < nextSource
             /\ sentenceOrders[entries[o].sid] = o
  BY <1>1, <1>2 DEF Pending, Entry, Places
<1>4. ASSUME NEW s \in Sentences, sentenceOrders[s] \in Pending
      PROVE  /\ entries[sentenceOrders[s]].sid = s
             /\ released[s] = NoRevision /\ s \notin failed
             /\ entries[sentenceOrders[s]].status = "superseded" <=> s \in superseded
  <2>1. sentenceOrders[s] # NoOrder /\ sentenceOrders[s] \notin 0..(nextOrder - 1)
    BY <1>1, <1>3, <1>4 DEF NoOrder
  <2>2. entries[sentenceOrders[s]].sid = s
    BY <1>1, <1>3, <1>4, <2>1 DEF Places
  <2> QED BY <1>1, <1>4, <2>1, <2>2 DEF Places
<1> QED BY <1>2, <1>3, <1>4

(* The publisher may only commit the item of the offered head, or one that  *)
(* a forced drain has released already, which commit() then leaves alone.   *)
LEMMA CommitForm ==
    ASSUME Settled, Offered, SharedCommit
    PROVE  LET i == Head(queued) IN
           /\ i \in live /\ i \in Item /\ i.sid \in Sentences /\ i.rev \in Revisions
           /\ stream' = Append(stream, i) /\ live' = live \ {i}
           /\ queued' = Tail(queued)
           /\ UNCHANGED << sentenceOrders, superseded, nextSource, ready, failed >>
           /\ \/ /\ released[i.sid] = i.rev
                 /\ UNCHANGED << entries, released, nextOrder >>
              \/ /\ released[i.sid] = NoRevision
                 /\ sentenceOrders[i.sid] = nextOrder /\ nextOrder \in Pending
                 /\ entries[nextOrder].offered /\ entries[nextOrder].status = "ready"
                 /\ entries[nextOrder].rev = i.rev
                 /\ Allowed(entries[nextOrder], nextOrder)
                 /\ \E n \in (nextOrder + 1)..nextSource :
                       /\ \A o \in (nextOrder + 1)..(n - 1) :
                             entries[o].status = "superseded"
                       /\ nextOrder' = n
                       /\ entries' = [o \in n..(nextSource - 1) |-> entries[o]]
                       /\ released' = [released EXCEPT ![i.sid] = i.rev]
<1> DEFINE i == Head(queued)
<1>1. i \in Item /\ i.sid \in Sentences /\ i.rev \in Revisions
  BY DEF SharedCommit, Settled, TypeOK, Item
<1>2. DOMAIN entries = Pending
  BY EntryOwner
<1>3. CanCommit(i.sid, i.rev) /\ Commit(i.sid, i.rev)
  BY DEF SharedCommit
<1>4. CASE released[i.sid] # NoRevision
  <2>1. released[i.sid] = i.rev
    BY <1>3, <1>4 DEF CanCommit
  <2>2. ~Current(i.sid, i.rev)
    BY <1>1, <1>2, <1>4, EntryOwner DEF Current
  <2>3. UNCHANGED << entries, released, nextOrder >>
    BY <1>3, <2>2 DEF Commit
  <2> QED BY <1>1, <2>1, <2>3 DEF SharedCommit
<1>5. CASE released[i.sid] = NoRevision
  <2>1. /\ Current(i.sid, i.rev) /\ sentenceOrders[i.sid] \in Pending
        /\ entries[sentenceOrders[i.sid]].offered
        /\ entries[sentenceOrders[i.sid]].status = "ready"
        /\ entries[sentenceOrders[i.sid]].rev = i.rev
        /\ Allowed(entries[sentenceOrders[i.sid]], sentenceOrders[i.sid])
    BY <1>2, <1>3, <1>5 DEF CanCommit, Current
  <2>2. sentenceOrders[i.sid] = nextOrder
    BY <2>1 DEF Offered
  <2> QED BY <1>1, <1>3, <1>5, <2>1, <2>2 DEF SharedCommit, Commit
<1> QED BY <1>4, <1>5

(* What discarded() does to the entries: it takes no other entry than the   *)
(* one of this revision, and leaves that one neither ready nor on offer ... *)
LEMMA DiscardedForm ==
    ASSUME Settled, NEW s \in Sentences, NEW r \in Revisions,
           entries' = Discarded(s, r), NEW o \in Pending
    PROVE  /\ entries'[o].offered => entries[o].offered
           /\ entries'[o].status = "ready" => entries[o].status = "ready"
           /\ o = sentenceOrders[s] /\ entries[o].rev = r =>
                 ~(entries'[o].offered /\ entries'[o].status = "ready")
           /\ o # sentenceOrders[s] => entries'[o] = entries[o]
<1> DEFINE p == sentenceOrders[s]
<1>1. DOMAIN entries = Pending /\ entries[o] \in Entry
  BY EntryOwner
<1>2. CASE ~Current(s, r)
  <2>1. entries' = entries
    BY <1>2 DEF Discarded, WithStatus
  <2>2. o = p /\ entries[o].rev = r => entries[o].status = "superseded"
    BY <1>1, <1>2 DEF Current
  <2> QED BY <2>1, <2>2
<1>3. CASE Current(s, r)
  <2>1. p \in Pending /\ entries[p].rev = r
    BY <1>1, <1>3 DEF Current
  <2>2. CASE entries' = [entries EXCEPT ![p].status = "failed"]
    BY <1>1, <2>1, <2>2 DEF Entry
  <2>3. CASE entries' = [entries EXCEPT ![p].offered = FALSE]
    BY <1>1, <2>1, <2>3 DEF Entry
  <2>4. CASE entries' = entries /\ entries[p].status # "ready"
    BY <2>4
  <2> QED BY <1>3, <2>2, <2>3, <2>4 DEF Discarded, WithStatus
<1> QED BY <1>2, <1>3

-------------------------------------------------------------------------------
(* An offer is never orphaned. *)
Held == Settled /\ Offered /\ OfferedHeadIsHeld

LEMMA DrainHeld ==
    ASSUME Held, NEW es, NEW force \in BOOLEAN, Drained(es, force)
    PROVE  OfferedHeadIsHeld'
<1>1. TypeOK /\ SameShape(es) /\ Drain(es, force) /\ DrainFrame /\ ready = {}
  BY DEF Held, Settled, Drained, LockFree
<1>2. PICK n \in nextOrder..nextSource :
         /\ nextOrder' = n
         /\ \A o \in n..(nextSource - 1) :
               /\ entries'[o].sid = es[o].sid
               /\ entries'[o].rev = es[o].rev
               /\ entries'[o].status = es[o].status
               /\ entries'[o].offered <=>
                     es[o].offered \/ (o = n /\ Offers(es[n], n, force))
         /\ ready' = {[sid |-> es[o].sid, rev |-> es[o].rev, order |-> o] : o \in
              {p \in nextOrder..(n - 1) : es[p].status = "ready" /\ ~es[p].offered}
              \cup {p \in {n} : n < nextSource /\ Offers(es[n], n, force)}}
  BY <1>1, DrainEffect
<1>3. TypeOK' /\ live' = live /\ nextSource' = nextSource
  BY <1>1, DrainType DEF DrainFrame
<1>4. DOMAIN entries = Pending /\ DOMAIN entries' = n..(nextSource - 1)
      /\ nextOrder \in Nat /\ nextSource \in Nat /\ n \in Nat /\ nextOrder <= n
  BY <1>1, <1>2, <1>3 DEF TypeOK, Pending
<1> SUFFICES ASSUME NEW o \in n..(nextSource - 1),
                    entries'[o].offered, entries'[o].status = "ready"
             PROVE  \E i \in ready' \cup live' :
                       i.sid = entries'[o].sid /\ i.rev = entries'[o].rev
  BY <1>4 DEF OfferedHeadIsHeld
<1>5. o \in Pending
  BY <1>4 DEF Pending
<1>6. CASE es[o].offered
  <2>1. entries[o].offered /\ entries[o].status = "ready"
    BY <1>1, <1>2, <1>5, <1>6 DEF SameShape, Drained, RevivesNothing
  <2>2. \E i \in live : i.sid = entries[o].sid /\ i.rev = entries[o].rev
    BY <1>1, <1>4, <1>5, <2>1 DEF Held, OfferedHeadIsHeld
  <2> QED BY <1>1, <1>2, <1>3, <1>5, <2>2 DEF SameShape
<1>7. CASE ~es[o].offered
  <2>1. o = n /\ Offers(es[n], n, force) /\ n < nextSource
    BY <1>2, <1>4, <1>7
  <2> DEFINE i == [sid |-> es[o].sid, rev |-> es[o].rev, order |-> o]
  <2>2. i \in ready'
    BY <1>2, <2>1
  <2>3. i.sid = entries'[o].sid /\ i.rev = entries'[o].rev
    BY <1>2
  <2> QED BY <2>2, <2>3
<1> QED BY <1>6, <1>7

(* The steps of the publisher take an item away only together with the      *)
(* offer of its entry, and a revision takes both.                           *)
LEMMA HeldStep == Held /\ [Next]_vars => Held'
<1> SUFFICES ASSUME Held, [Next]_vars PROVE Held'
  OBVIOUS
<1>0. Settled /\ TypeOK /\ Offered /\ OfferedHeadIsHeld /\ Settled' /\ TypeOK' /\ Offered'
  BY SettledStep, OfferedStep, TypeStep DEF Held, Settled
<1> SUFFICES OfferedHeadIsHeld'
  BY <1>0 DEF Held
<1>1. /\ DOMAIN entries = Pending /\ DOMAIN entries' = Pending'
      /\ nextOrder \in Nat /\ nextSource \in Nat
  BY <1>0 DEF TypeOK
<1>2. ASSUME NEW s \in Sentences, RegisterNew(s) PROVE OfferedHeadIsHeld'
  <2>1. ready' = ready /\ live' = live /\ Pending' = nextOrder..nextSource
    BY <1>1, <1>2 DEF RegisterNew, Pending
  <2>2. ASSUME NEW o \in Pending', entries'[o].offered
        PROVE  o \in Pending /\ entries'[o] = entries[o]
    <3>1. entries'[o] = IF o = nextSource THEN Fresh(s, 1) ELSE entries[o]
      BY <1>2, <2>1 DEF RegisterNew
    <3>2. o # nextSource
      BY <2>2, <3>1 DEF Fresh
    <3>3. o \in nextOrder..nextSource
      BY <2>1
    <3>4. o \in Pending
      BY <1>1, <3>2, <3>3 DEF Pending
    <3> QED BY <3>1, <3>2, <3>4
  <2> QED BY <1>0, <1>1, <2>1, <2>2 DEF OfferedHeadIsHeld
<1>3. ASSUME NEW s \in Sentences, RegisterRevision(s) PROVE OfferedHeadIsHeld'
  <2>1. ready' = ready /\ live' = {i \in live : i.sid # s} /\ Pending' = Pending /\ ready = {}
    BY <1>3 DEF RegisterRevision, Pending, LockFree
  <2>2. ASSUME NEW o \in Pending, entries'[o].offered
        PROVE  entries'[o] = entries[o] /\ entries[o].sid # s
    <3>1. entries'[o] = IF o = sentenceOrders[s]
                        THEN Fresh(s, entries[sentenceOrders[s]].rev + 1) ELSE entries[o]
      BY <1>1, <1>3, <2>2 DEF RegisterRevision
    <3>2. o # sentenceOrders[s]
      BY <2>2, <3>1 DEF Fresh
    <3> QED BY <1>0, <3>1, <3>2, EntryOwner
  <2> QED BY <1>0, <1>1, <2>1, <2>2 DEF OfferedHeadIsHeld
<1>4. ASSUME NEW s \in Sentences, NEW rows \in SUBSET Sentences, Reconcile(s, rows)
      PROVE  OfferedHeadIsHeld'
  <2>1. /\ ready' = ready /\ live' = {i \in live : i.sid \notin rows \cup {s}}
        /\ Pending' = Pending /\ ready = {}
    BY <1>4 DEF Reconcile, Pending, LockFree
  <2>2. ASSUME NEW o \in Pending, entries'[o].offered
        PROVE  entries'[o] = entries[o] /\ entries[o].sid \notin rows \cup {s}
    <3>1. entries'[o] = IF o = sentenceOrders[s] THEN Fresh(s, entries[o].rev + 1)
                        ELSE IF entries[o].sid \in rows
                        THEN [entries[o] EXCEPT !.status = "superseded", !.offered = FALSE]
                        ELSE entries[o]
      BY <1>1, <1>4 DEF Reconcile, Superseding
    <3>2. ~Fresh(s, entries[o].rev + 1).offered
      BY DEF Fresh
    <3>3. ~[entries[o] EXCEPT !.status = "superseded", !.offered = FALSE].offered
      BY <1>0, EntryOwner DEF Entry
    <3>4. o # sentenceOrders[s] /\ entries[o].sid \notin rows /\ entries'[o] = entries[o]
      BY <2>2, <3>1, <3>2, <3>3
    <3> QED BY <1>0, <3>4, EntryOwner
  <2> QED BY <1>0, <1>1, <2>1, <2>2 DEF OfferedHeadIsHeld
<1>5. CASE DrainStep
  BY <1>0, <1>5, DrainForm, DrainHeld
<1>6. ASSUME NEW s \in Sentences, Revoke(s) PROVE OfferedHeadIsHeld'
  <2>1. /\ ready' = ready /\ live' = live /\ Pending' = Pending
        /\ entries' = [entries EXCEPT ![sentenceOrders[s]].confirmed = FALSE,
                                      ![sentenceOrders[s]].since = clock]
    BY <1>6 DEF Revoke, Pending
  <2>2. ASSUME NEW o \in Pending
        PROVE  /\ entries'[o].sid = entries[o].sid /\ entries'[o].rev = entries[o].rev
               /\ entries'[o].status = entries[o].status
               /\ entries'[o].offered = entries[o].offered
    BY <1>0, <1>1, <2>1, EntryOwner DEF Entry
  <2> QED BY <1>0, <1>1, <2>1, <2>2 DEF OfferedHeadIsHeld
<1>7. ASSUME NEW i \in ready, PublishAccepted(i) PROVE OfferedHeadIsHeld'
  BY <1>0, <1>7 DEF PublishAccepted, OfferedHeadIsHeld
<1>8. ASSUME NEW i \in Item, entries' = Discarded(i.sid, i.rev), Pending' = Pending,
             (ready \cup live) \ {i} \subseteq ready' \cup live'
      PROVE  OfferedHeadIsHeld'
  <2> SUFFICES ASSUME NEW o \in Pending, entries'[o].offered, entries'[o].status = "ready"
               PROVE  \E j \in ready' \cup live' :
                         j.sid = entries'[o].sid /\ j.rev = entries'[o].rev
    BY <1>1, <1>8 DEF OfferedHeadIsHeld
  <2>1. i.sid \in Sentences /\ i.rev \in Revisions
    BY <1>8 DEF Item
  <2>2. entries[o].offered /\ entries[o].status = "ready"
        /\ ~(o = sentenceOrders[i.sid] /\ entries[o].rev = i.rev)
    BY <1>0, <1>8, <2>1, DiscardedForm
  <2>3. entries'[o].sid = entries[o].sid /\ entries'[o].rev = entries[o].rev
    BY <1>0, <1>8, DiscardedRows
  <2>4. PICK j \in ready \cup live : j.sid = entries[o].sid /\ j.rev = entries[o].rev
    BY <1>0, <1>1, <2>2 DEF OfferedHeadIsHeld
  <2>5. j # i
    BY <1>0, <2>2, <2>4, EntryOwner
  <2> QED BY <1>8, <2>3, <2>4, <2>5
<1>9. ASSUME NEW i \in ready, PublishRefused(i) PROVE OfferedHeadIsHeld'
  BY <1>0, <1>8, <1>9 DEF PublishRefused, TypeOK, Pending
<1>10. CASE Discard
  <2>1. Head(queued) \in Item
    BY <1>0, <1>10 DEF Discard, TypeOK
  <2> QED BY <1>8, <1>10, <2>1 DEF Discard, Pending
<1>11. CASE SharedCommit
  <2> DEFINE i == Head(queued)
  <2>1. /\ live' = live \ {i} /\ ready' = ready /\ nextSource' = nextSource
        /\ i.sid \in Sentences
    BY <1>0, <1>11, CommitForm
  <2>2. ASSUME NEW o \in Pending'
        PROVE  o \in Pending /\ entries'[o] = entries[o] /\ o # sentenceOrders[i.sid]
    <3>1. CASE UNCHANGED << entries, nextOrder >> /\ released[i.sid] # NoRevision
      BY <1>0, <2>1, <2>2, <3>1, EntryOwner DEF Pending
    <3>2. ASSUME sentenceOrders[i.sid] = nextOrder,
                 NEW n \in (nextOrder + 1)..nextSource, nextOrder' = n,
                 entries' = [p \in n..(nextSource - 1) |-> entries[p]]
          PROVE  o \in Pending /\ entries'[o] = entries[o] /\ o # sentenceOrders[i.sid]
      BY <1>1, <2>1, <2>2, <3>2 DEF Pending
    <3>3. i.rev \in Revisions /\ NoRevision \notin Revisions
      BY <1>0, <1>11, CommitForm, BoundsAssumption DEF Revisions, NoRevision
    <3> QED BY <1>0, <1>11, <3>1, <3>2, <3>3, CommitForm
  <2>3. ASSUME NEW o \in Pending', entries'[o].offered, entries'[o].status = "ready"
        PROVE  \E j \in ready' \cup live' :
                  j.sid = entries'[o].sid /\ j.rev = entries'[o].rev
    <3>1. PICK j \in ready \cup live : j.sid = entries[o].sid /\ j.rev = entries[o].rev
      BY <1>0, <1>1, <2>2, <2>3 DEF OfferedHeadIsHeld
    <3>2. j # i
      BY <1>0, <2>2, <3>1, EntryOwner
    <3> QED BY <2>1, <2>2, <3>1, <3>2
  <2> QED BY <1>1, <2>3 DEF OfferedHeadIsHeld
<1>12. ASSUME UNCHANGED << entries, nextOrder, nextSource, ready, live >>
       PROVE  OfferedHeadIsHeld'
  BY <1>0, <1>12 DEF OfferedHeadIsHeld
<1>13. CASE SkipRevised \/ Tick \/ PlaybackPressure \/ UNCHANGED vars
  BY <1>12, <1>13 DEF SkipRevised, Tick, PlaybackPressure, vars
<1> QED
  BY <1>2, <1>3, <1>4, <1>5, <1>6, <1>7, <1>9, <1>10, <1>11, <1>13, NextCases

LEMMA InitHeld == Init => Held
BY InitSettled DEF Init, Held, Offered, Pending, OfferedHeadIsHeld

(* An entry that is on offer with a translation has an item at the          *)
(* publisher that will be committed or discarded: whatever is revised,      *)
(* absorbed, withdrawn or refused in between, the head of the order never   *)
(* waits for an answer that nobody owes.                                    *)
THEOREM OffersAreHeld == Spec => []OfferedHeadIsHeld
<1>1. Init => Held
  BY InitHeld
<1>2. Held /\ [Next]_vars => Held'
  BY HeldStep
<1>3. Held => OfferedHeadIsHeld
  BY DEF Held
<1> QED BY <1>1, <1>2, <1>3, PTL DEF Spec

LEMMA ConfirmedBeforeHeard ==
    ASSUME Held, [Next]_vars, NEW s \in Sentences, RequireConfirmation,
           stream' # stream, s = stream'[Len(stream')].sid, released[s] = NoRevision
    PROVE  entries[sentenceOrders[s]].sealed \/ entries[sentenceOrders[s]].confirmed
<1>1. SharedCommit
  BY NextCases DEF RegisterNew, RegisterRevision, Revoke, Reconcile, DrainStep,
     MarkReady, MarkFailed, Confirm, SealSegment, SchedulerDrain, FinishDrain,
     DrainFrame, PublishAccepted, PublishRefused, Discard, SkipRevised, Tick,
     PlaybackPressure, vars
<1> DEFINE i == Head(queued)
<1>2. Settled /\ Offered /\ stream \in Seq(Item)
  BY DEF Held, Settled, TypeOK
<1>3. stream' = Append(stream, i) /\ i \in Item
  BY <1>1, <1>2, CommitForm
<1>4. s = i.sid
  BY <1>2, <1>3
<1>5. i.rev \in Revisions /\ NoRevision \notin Revisions
  BY <1>3, BoundsAssumption DEF Item, Revisions, NoRevision
<1>6. /\ sentenceOrders[s] = nextOrder
      /\ Allowed(entries[nextOrder], nextOrder)
  BY <1>1, <1>2, <1>4, <1>5, CommitForm
<1> QED BY <1>6 DEF Allowed

(* Where a confirmation is required, what enters the shared stream for the  *)
(* first time is confirmed or sealed at that very step, and not only when   *)
(* it was offered.                                                          *)
THEOREM NothingUnconfirmedIsHeard == Spec => NoUnconfirmedSpeech
<1>1. Init => Held
  BY InitHeld
<1>2. Held /\ [Next]_vars => Held'
  BY HeldStep
<1>3. Held /\ [Next]_vars =>
         [\A s \in Sentences :
             /\ RequireConfirmation /\ stream' # stream
             /\ s = stream'[Len(stream')].sid
             /\ released[s] = NoRevision
             => \/ entries[sentenceOrders[s]].sealed
                \/ entries[sentenceOrders[s]].confirmed]_vars
  BY ConfirmedBeforeHeard
<1> QED BY <1>1, <1>2, <1>3, PTL DEF Spec, NoUnconfirmedSpeech

-------------------------------------------------------------------------------
(* The items between drain() and the shared timeline stand in the order of  *)
(* the source.  Nothing in the model says so directly: the publisher's      *)
(* queue also holds revised items, the head may be offered twice, and a     *)
(* forced drain hands out the tail while the offered head is still queued.  *)
Labelled ==
    /\ \A i \in ready : sentenceOrders[i.sid] = i.order
    /\ \A a \in DOMAIN queued : sentenceOrders[queued[a].sid] = queued[a].order
    /\ \A k \in DOMAIN stream : sentenceOrders[stream[k].sid] = stream[k].order

(* What was heard stands before everything that may still be heard. *)
BehindStream ==
    \A k \in DOMAIN stream :
        /\ stream[k].order < nextOrder
        /\ \A i \in ready \cup live : stream[k].order < i.order

(* Live items are queued in their order, before those still to be given. *)
Ascending ==
    /\ live \subseteq {queued[a] : a \in DOMAIN queued}
    /\ \A a, b \in DOMAIN queued :
          a < b /\ queued[a] \in live /\ queued[b] \in live =>
              queued[a].order < queued[b].order
    /\ \A i \in ready, j \in live : j.order < i.order
    /\ \A i, j \in ready : i.order = j.order => i = j

(* No item is ahead of the head, and one of the head is the offer. *)
UpToHead ==
    \A i \in ready \cup live :
        /\ i.order <= nextOrder
        /\ i.order = nextOrder =>
              entries[nextOrder].offered /\ entries[nextOrder].rev = i.rev

(* An item that was revised in the queue cannot come to life again. *)
Outdated ==
    \A a \in DOMAIN queued :
        /\ queued[a] \notin live => queued[a] \notin ready
        /\ queued[a].order \in Pending =>
              /\ queued[a].rev <= entries[queued[a].order].rev
              /\ queued[a] \notin live =>
                    \/ queued[a].rev < entries[queued[a].order].rev
                    \/ entries[queued[a].order].status = "superseded"

Line == Labelled /\ BehindStream /\ Ascending /\ UpToHead /\ Outdated

InOrder == Settled /\ Offered /\ Line

(* Sequences of items: their members, what Append and Tail do to them. *)
LEMMA ItemSeq ==
    ASSUME NEW q \in Seq(Item)
    PROVE  /\ \A a \in DOMAIN q : /\ a \in Nat /\ 1 <= a /\ q[a] \in Item
                                  /\ q[a].sid \in Sentences /\ q[a].rev \in Revisions
                                  /\ q[a].order \in Nat /\ q[a].rev \in Nat
           /\ \A i \in Item :
                 /\ \A a \in DOMAIN q : a \in DOMAIN Append(q, i) /\ Append(q, i)[a] = q[a]
                                        /\ a < Len(q) + 1
                 /\ Len(q) + 1 \in DOMAIN Append(q, i) /\ Append(q, i)[Len(q) + 1] = i
                 /\ \A a \in DOMAIN Append(q, i) : a \in DOMAIN q \/ a = Len(q) + 1
           /\ q # << >> =>
                 /\ 1 \in DOMAIN q /\ Head(q) = q[1]
                 /\ \A a \in DOMAIN Tail(q) : /\ a + 1 \in DOMAIN q /\ a + 1 # 1
                                              /\ Tail(q)[a] = q[a + 1]
                 /\ \A b \in DOMAIN q : b # 1 => b - 1 \in DOMAIN Tail(q)
                                                 /\ Tail(q)[b - 1] = q[b]
<1>1. ASSUME NEW a \in DOMAIN q
      PROVE  /\ a \in Nat /\ 1 <= a /\ q[a] \in Item
             /\ q[a].sid \in Sentences /\ q[a].rev \in Revisions
             /\ q[a].order \in Nat /\ q[a].rev \in Nat
  <2>1. a \in Nat /\ 1 <= a /\ q[a] \in Item
    OBVIOUS
  <2> QED BY <2>1, BoundsAssumption DEF Item, Revisions
<1>2. ASSUME NEW i \in Item
      PROVE  /\ \A a \in DOMAIN q : a \in DOMAIN Append(q, i) /\ Append(q, i)[a] = q[a]
                                    /\ a < Len(q) + 1
             /\ Len(q) + 1 \in DOMAIN Append(q, i) /\ Append(q, i)[Len(q) + 1] = i
             /\ \A a \in DOMAIN Append(q, i) : a \in DOMAIN q \/ a = Len(q) + 1
  OBVIOUS
<1>3. ASSUME q # << >>
      PROVE  /\ 1 \in DOMAIN q /\ Head(q) = q[1]
             /\ \A a \in DOMAIN Tail(q) : /\ a + 1 \in DOMAIN q /\ a + 1 # 1
                                          /\ Tail(q)[a] = q[a + 1]
             /\ \A b \in DOMAIN q : b # 1 => b - 1 \in DOMAIN Tail(q)
                                             /\ Tail(q)[b - 1] = q[b]
  BY <1>3
<1> QED BY <1>1, <1>2, <1>3

(* What the types say of every item on its way. *)
LEMMA ItemTypes ==
    ASSUME TypeOK, Ascending
    PROVE  /\ nextOrder \in Nat /\ nextSource \in Nat /\ nextOrder <= nextSource
           /\ queued \in Seq(Item) /\ stream \in Seq(Item)
           /\ \A i \in ready \cup live :
                 /\ i \in Item /\ i.sid \in Sentences /\ i.rev \in Revisions
                 /\ i.order \in Nat /\ i.rev \in Nat
           /\ \A a \in DOMAIN queued :
                 /\ a \in Nat /\ 1 <= a /\ queued[a] \in Item /\ queued[a].sid \in Sentences
                 /\ queued[a].order \in Nat /\ queued[a].rev \in Nat
           /\ \A k \in DOMAIN stream :
                 /\ stream[k].sid \in Sentences /\ stream[k].order \in Nat
           /\ \A o \in Pending : entries[o].rev \in Nat /\ o \in Nat
                                 /\ nextOrder <= o /\ o < nextSource
<1>1. /\ nextOrder \in Nat /\ nextSource \in Nat /\ nextOrder <= nextSource
      /\ queued \in Seq(Item) /\ stream \in Seq(Item)
      /\ ready \subseteq Item /\ live \subseteq Item
  BY DEF TypeOK
<1>2. \A i \in ready \cup live :
         /\ i \in Item /\ i.sid \in Sentences /\ i.rev \in Revisions
         /\ i.order \in Nat /\ i.rev \in Nat
  BY <1>1, BoundsAssumption DEF Item, Revisions
<1>3. \A o \in Pending : entries[o].rev \in Nat /\ o \in Nat
                         /\ nextOrder <= o /\ o < nextSource
  BY <1>1, BoundsAssumption DEF TypeOK, Pending, Entry, Revisions
<1> QED BY <1>1, <1>2, <1>3, ItemSeq

(* Steps that only take live items away leave the order as it is. *)
LEMMA LineNarrows ==
    ASSUME TypeOK, Labelled, BehindStream, Ascending,
           UNCHANGED << queued, stream, nextOrder >>,
           \A t \in Sentences : sentenceOrders[t] # NoOrder =>
                                   sentenceOrders'[t] = sentenceOrders[t],
           live' \subseteq live, ready' \subseteq ready
    PROVE  Labelled' /\ BehindStream' /\ Ascending'
<1>1. \A o \in Nat : o # NoOrder
  BY DEF NoOrder
<1>2. Labelled'
  BY <1>1, ItemTypes DEF Labelled
<1>3. BehindStream'
  BY DEF BehindStream
<1>4. Ascending'
  BY DEF Ascending
<1> QED BY <1>2, <1>3, <1>4

LEMMA RegisterNewLine ==
    ASSUME InOrder, NEW s \in Sentences, RegisterNew(s)
    PROVE  Line'
<1>0. Settled /\ TypeOK /\ Places /\ Offered /\ Labelled /\ BehindStream /\ Ascending
      /\ UpToHead /\ Outdated
  BY DEF InOrder, Settled, Line
<1>1. /\ sentenceOrders[s] = NoOrder
      /\ \A t \in Sentences : sentenceOrders[t] # NoOrder =>
                                 sentenceOrders'[t] = sentenceOrders[t]
      /\ UNCHANGED << queued, stream, nextOrder, live, ready >>
      /\ nextSource' = nextSource + 1
      /\ \A o \in Pending : entries'[o] = entries[o]
  BY <1>0, ItemTypes DEF RegisterNew, TypeOK, Pending
<1>2. Labelled' /\ BehindStream' /\ Ascending'
  BY <1>0, <1>1, LineNarrows
<1>3. \A i \in ready \cup live : i.order < nextSource
  BY <1>0, ItemTypes DEF Ascending, Labelled, Places
<1>4. UpToHead'
  <2> SUFFICES ASSUME NEW i \in ready \cup live
               PROVE  /\ i.order <= nextOrder
                      /\ i.order = nextOrder =>
                            entries'[nextOrder].offered /\ entries'[nextOrder].rev = i.rev
    BY <1>1 DEF UpToHead
  <2>1. i.order = nextOrder => nextOrder \in Pending
    BY <1>0, <1>3, ItemTypes DEF Pending
  <2> QED BY <1>0, <1>1, <2>1 DEF UpToHead
<1>5. Outdated'
  <2>1. ASSUME NEW a \in DOMAIN queued, queued[a].order \in Pending'
        PROVE  queued[a].order \in Pending
    <3>1. queued[a].order < nextSource
      BY <1>0, ItemTypes DEF Labelled, Places
    <3>2. queued[a].order \in Nat /\ nextOrder <= queued[a].order
      BY <1>0, <1>1, <2>1, ItemTypes DEF Pending
    <3> QED BY <1>0, <3>1, <3>2, ItemTypes DEF Pending
  <2> QED BY <1>0, <1>1, <2>1 DEF Outdated
<1> QED BY <1>2, <1>4, <1>5 DEF Line

(* An edit, and an edit that absorbs rows: some entries are replaced, and   *)
(* every live item of theirs is dropped.                                    *)
Revised(gone) ==
    /\ ready = {} /\ ready' = {}
    /\ live' = {i \in live : i.sid \notin gone}
    /\ UNCHANGED << sentenceOrders, queued, stream, nextOrder, nextSource >>
    /\ \A o \in Pending :
          IF entries[o].sid \in gone
          THEN \/ entries'[o].rev = entries[o].rev + 1
               \/ entries'[o].rev = entries[o].rev /\ entries'[o].status = "superseded"
          ELSE entries'[o] = entries[o]

LEMMA RevisedLine ==
    ASSUME InOrder, NEW gone \in SUBSET Sentences, Revised(gone)
    PROVE  Line'
<1>0. Settled /\ TypeOK /\ Offered /\ Labelled /\ BehindStream /\ Ascending
      /\ UpToHead /\ Outdated
  BY DEF InOrder, Settled, Line
<1>1. Labelled' /\ BehindStream' /\ Ascending'
  BY <1>0, LineNarrows DEF Revised
<1>2. Pending' = Pending
  BY DEF Revised, Pending
<1>3. UpToHead'
  <2> SUFFICES ASSUME NEW i \in live, i.sid \notin gone, i.order = nextOrder
               PROVE  entries'[nextOrder].offered /\ entries'[nextOrder].rev = i.rev
    BY <1>0 DEF UpToHead, Revised
  <2>1. sentenceOrders[i.sid] = nextOrder /\ i.sid \in Sentences
    BY <1>0, ItemTypes DEF Ascending, Labelled
  <2>2. nextOrder \in Pending
    BY <1>0, <2>1, ItemTypes DEF Settled, Places, Pending
  <2>3. entries[nextOrder].sid = i.sid
    BY <1>0, <2>1, <2>2, EntryOwner
  <2> QED BY <1>0, <2>2, <2>3 DEF UpToHead, Revised
<1>4. Outdated'
  <2> SUFFICES ASSUME NEW a \in DOMAIN queued, queued[a].order \in Pending
               PROVE  /\ queued[a].rev <= entries'[queued[a].order].rev
                      /\ queued[a] \notin live' =>
                            \/ queued[a].rev < entries'[queued[a].order].rev
                            \/ entries'[queued[a].order].status = "superseded"
    BY <1>2 DEF Outdated, Revised
  <2> DEFINE o == queued[a].order
  <2>1. /\ queued[a].rev \in Nat /\ entries[o].rev \in Nat
        /\ queued[a].rev <= entries[o].rev
        /\ queued[a] \notin live =>
              queued[a].rev < entries[o].rev \/ entries[o].status = "superseded"
    BY <1>0, ItemTypes DEF Outdated
  <2>2. entries[o].sid = queued[a].sid
    BY <1>0, ItemTypes, EntryOwner DEF Labelled
  <2>3. CASE queued[a].sid \in gone
    BY <2>1, <2>2, <2>3 DEF Revised
  <2>4. CASE queued[a].sid \notin gone
    BY <2>1, <2>2, <2>4 DEF Revised
  <2> QED BY <2>3, <2>4
<1> QED BY <1>1, <1>3, <1>4 DEF Line

LEMMA RegisterRevisionForm ==
    ASSUME Settled, NEW s \in Sentences, RegisterRevision(s)
    PROVE  Revised({s})
<1>1. DOMAIN entries = Pending /\ sentenceOrders[s] \in Pending
  BY EntryOwner DEF RegisterRevision
<1>2. ASSUME NEW o \in Pending
      PROVE  entries'[o] = IF o = sentenceOrders[s]
                           THEN Fresh(s, entries[o].rev + 1) ELSE entries[o]
  BY <1>1 DEF RegisterRevision
<1>3. \A o \in Pending : entries[o].sid = s <=> o = sentenceOrders[s]
  BY <1>1, EntryOwner
<1>4. \A r : Fresh(s, r).rev = r
  BY DEF Fresh
<1>5. \A o \in Pending :
          IF entries[o].sid \in {s} THEN entries'[o].rev = entries[o].rev + 1
          ELSE entries'[o] = entries[o]
  BY <1>2, <1>3, <1>4
<1> QED BY <1>5 DEF RegisterRevision, Revised, LockFree

LEMMA ReconcileForm ==
    ASSUME Settled, NEW s \in Sentences, NEW rows \in SUBSET Sentences, Reconcile(s, rows)
    PROVE  Revised(rows \cup {s})
<1>1. DOMAIN entries = Pending /\ sentenceOrders[s] \in Pending
  BY EntryOwner DEF Reconcile, CanSupersede
<1>2. ASSUME NEW o \in Pending
      PROVE  entries'[o] = IF o = sentenceOrders[s] THEN Fresh(s, entries[o].rev + 1)
                           ELSE IF entries[o].sid \in rows
                           THEN [entries[o] EXCEPT !.status = "superseded", !.offered = FALSE]
                           ELSE entries[o]
  BY <1>1 DEF Reconcile, Superseding
<1>3. ASSUME NEW o \in Pending
      PROVE  IF entries[o].sid \in rows \cup {s}
             THEN \/ entries'[o].rev = entries[o].rev + 1
                  \/ entries'[o].rev = entries[o].rev /\ entries'[o].status = "superseded"
             ELSE entries'[o] = entries[o]
  <2>1. entries[o].sid = s <=> o = sentenceOrders[s]
    BY <1>1, EntryOwner
  <2>2. CASE o = sentenceOrders[s]
    <3>1. entries'[o] = Fresh(s, entries[o].rev + 1)
      BY <1>2, <2>2
    <3>2. entries'[o].rev = entries[o].rev + 1
      BY <3>1 DEF Fresh
    <3> QED BY <2>1, <2>2, <3>2
  <2>3. CASE o # sentenceOrders[s] /\ entries[o].sid \in rows
    <3>1. entries[o] \in Entry
      BY EntryOwner
    <3> QED BY <1>2, <2>3, <3>1 DEF Entry
  <2>4. CASE o # sentenceOrders[s] /\ entries[o].sid \notin rows
    BY <1>2, <2>1, <2>4
  <2> QED BY <2>2, <2>3, <2>4
<1> QED BY <1>3 DEF Reconcile, Revised, LockFree

(* drain() hands out the head and what it passes behind the live items.     *)
LEMMA DrainLine ==
    ASSUME InOrder, NEW es, NEW force \in BOOLEAN, Drained(es, force)
    PROVE  Line'
<1>0. Settled /\ TypeOK /\ Offered /\ Labelled /\ BehindStream /\ Ascending
      /\ UpToHead /\ Outdated
  BY DEF InOrder, Settled, Line
<1>1. SameShape(es) /\ Drain(es, force) /\ DrainFrame /\ ready = {}
  BY DEF Drained, LockFree
<1>2. PICK n \in nextOrder..nextSource :
         /\ nextOrder' = n
         /\ \A o \in n..(nextSource - 1) :
               /\ entries'[o].sid = es[o].sid
               /\ entries'[o].rev = es[o].rev
               /\ entries'[o].status = es[o].status
               /\ entries'[o].offered <=>
                     es[o].offered \/ (o = n /\ Offers(es[n], n, force))
         /\ ready' = {[sid |-> es[o].sid, rev |-> es[o].rev, order |-> o] : o \in
              {p \in nextOrder..(n - 1) : es[p].status = "ready" /\ ~es[p].offered}
              \cup {p \in {n} : n < nextSource /\ Offers(es[n], n, force)}}
  BY <1>0, <1>1, DrainEffect
<1>3. /\ nextOrder \in Nat /\ nextSource \in Nat /\ n \in Nat
      /\ nextOrder <= n /\ n <= nextSource
      /\ Pending' = n..(nextSource - 1)
      /\ UNCHANGED << sentenceOrders, nextSource, queued, live, stream >>
  BY <1>0, <1>1, <1>2, ItemTypes DEF DrainFrame, Pending
<1>4. ASSUME NEW o \in Pending
      PROVE  /\ es[o].sid = entries[o].sid /\ es[o].rev = entries[o].rev
             /\ es[o].offered = entries[o].offered /\ o \in Nat
             /\ es[o].status = "superseded" <=> entries[o].status = "superseded"
  BY <1>0, <1>1, EntryOwner DEF SameShape
<1>5. ASSUME NEW i \in ready'
      PROVE  /\ i.order \in Pending /\ nextOrder <= i.order /\ i.order <= n
             /\ i.sid = entries[i.order].sid /\ i.rev = entries[i.order].rev
             /\ ~entries[i.order].offered /\ es[i.order].status = "ready"
             /\ i.order = n => n < nextSource /\ Offers(es[n], n, force)
  <2>1. PICK o \in {p \in nextOrder..(n - 1) : es[p].status = "ready" /\ ~es[p].offered}
              \cup {p \in {n} : n < nextSource /\ Offers(es[n], n, force)} :
                 i = [sid |-> es[o].sid, rev |-> es[o].rev, order |-> o]
    BY <1>2
  <2>2. i.order = o /\ i.sid = es[o].sid /\ i.rev = es[o].rev
    BY <2>1
  <2>3. o \in Pending /\ nextOrder <= o /\ o <= n
    BY <1>3, <2>1 DEF Pending
  <2>4. es[o].status = "ready" /\ ~es[o].offered
    BY <2>1 DEF Offers
  <2>5. o = n => n < nextSource /\ Offers(es[n], n, force)
    BY <1>3, <2>1
  <2> QED BY <1>4, <2>2, <2>3, <2>4, <2>5
<1>6. \A i, j \in ready' : i.order = j.order => i = j
  <2> SUFFICES ASSUME NEW i \in ready', NEW j \in ready', i.order = j.order PROVE i = j
    OBVIOUS
  <2>1. PICK o : i = [sid |-> es[o].sid, rev |-> es[o].rev, order |-> o]
    BY <1>2
  <2>2. PICK p : j = [sid |-> es[p].sid, rev |-> es[p].rev, order |-> p]
    BY <1>2
  <2>3. o = p
    BY <2>1, <2>2
  <2> QED BY <2>1, <2>2, <2>3
<1>7. ASSUME NEW i \in ready', NEW j \in live PROVE j.order < i.order
  <2>1. j.order \in Nat /\ j.order <= nextOrder /\ i.order \in Nat /\ nextOrder <= i.order
    BY <1>0, <1>4, <1>5, ItemTypes DEF UpToHead
  <2>2. CASE j.order = nextOrder
    <3>1. i.order # nextOrder
      BY <1>0, <1>5, <2>2 DEF UpToHead
    <3> QED BY <1>3, <2>1, <2>2, <3>1
  <2>3. CASE j.order # nextOrder
    BY <1>3, <2>1, <2>3
  <2> QED BY <2>2, <2>3
<1>8. Labelled'
  <2>1. \A i \in ready' : sentenceOrders[i.sid] = i.order
    BY <1>0, <1>5, EntryOwner
  <2> QED BY <1>0, <1>3, <2>1 DEF Labelled
<1>9. BehindStream'
  <2> SUFFICES ASSUME NEW k \in DOMAIN stream
               PROVE  stream[k].order < n /\ \A i \in ready' \cup live : stream[k].order < i.order
    BY <1>2, <1>3 DEF BehindStream
  <2>1. stream[k].order \in Nat /\ stream[k].order < nextOrder
    BY <1>0, ItemTypes DEF BehindStream
  <2>2. \A i \in ready' : stream[k].order < i.order
    BY <1>3, <1>4, <1>5, <2>1
  <2>3. stream[k].order < n
    BY <1>3, <2>1
  <2> QED BY <1>0, <2>2, <2>3 DEF BehindStream
<1>10. Ascending'
  BY <1>0, <1>3, <1>6, <1>7 DEF Ascending
<1>11. UpToHead'
  <2>1. ASSUME NEW i \in ready'
        PROVE  /\ i.order <= n
               /\ i.order = n => entries'[n].offered /\ entries'[n].rev = i.rev
    <3>1. i.order = n => n \in n..(nextSource - 1)
      BY <1>3, <1>5
    <3> QED BY <1>2, <1>4, <1>5, <3>1
  <2>2. ASSUME NEW i \in live
        PROVE  /\ i.order <= n
               /\ i.order = n => entries'[n].offered /\ entries'[n].rev = i.rev
    <3>1. i.order \in Nat /\ i.order <= nextOrder /\ i.order < nextSource
      BY <1>0, ItemTypes DEF UpToHead, Ascending, Labelled, Settled, Places
    <3>2. ASSUME i.order = n
          PROVE  n = nextOrder /\ n \in n..(nextSource - 1) /\ n \in Pending
      BY <1>3, <3>1, <3>2 DEF Pending
    <3>3. i.order <= n
      BY <1>3, <3>1
    <3> QED BY <1>0, <1>2, <1>4, <3>2, <3>3 DEF UpToHead
  <2> QED BY <1>2, <1>3, <2>1, <2>2 DEF UpToHead
<1>12. Outdated'
  <2> SUFFICES ASSUME NEW a \in DOMAIN queued
               PROVE  /\ queued[a] \notin live => queued[a] \notin ready'
                      /\ queued[a].order \in n..(nextSource - 1) =>
                         /\ queued[a].rev <= entries'[queued[a].order].rev
                         /\ queued[a] \notin live =>
                               \/ queued[a].rev < entries'[queued[a].order].rev
                               \/ entries'[queued[a].order].status = "superseded"
    BY <1>3 DEF Outdated
  <2>1. ASSUME queued[a] \notin live, queued[a] \in ready' PROVE FALSE
    <3>1. /\ queued[a].order \in Pending
          /\ queued[a].rev = entries[queued[a].order].rev
          /\ es[queued[a].order].status = "ready"
      BY <1>5, <2>1
    <3>2. queued[a].rev \in Nat
      BY <1>0, ItemTypes
    <3> QED BY <1>0, <1>4, <2>1, <3>1, <3>2 DEF Outdated
  <2>2. ASSUME queued[a].order \in n..(nextSource - 1)
        PROVE  queued[a].order \in Pending
    BY <1>3, <2>2 DEF Pending
  <2> QED BY <1>0, <1>2, <1>4, <2>1, <2>2 DEF Outdated
<1> QED BY <1>8, <1>9, <1>10, <1>11, <1>12 DEF Line

(* Taking the head of the publisher's queue away: no other place in the     *)
(* queue holds the same live item.                                          *)
LEMMA HeadTaken ==
    ASSUME TypeOK, Line, queued # << >>, queued' = Tail(queued), ready' = ready,
           live' = live \ {Head(queued)}
    PROVE  /\ Head(queued) \in live =>
                 /\ sentenceOrders[Head(queued).sid] = Head(queued).order
                 /\ \A i \in ready' \cup live' : Head(queued).order < i.order
           /\ \A a \in DOMAIN queued' :
                 \E b \in DOMAIN queued : queued'[a] = queued[b]
                                          /\ (queued'[a] \notin live' => queued[b] \notin live)
           /\ Ascending'
<1> DEFINE h == Head(queued)
<1>0. Labelled /\ Ascending
  BY DEF Line
<1>1. queued \in Seq(Item)
  BY DEF TypeOK
<1>2. /\ 1 \in DOMAIN queued /\ h = queued[1]
      /\ \A a \in DOMAIN queued' : /\ a + 1 \in DOMAIN queued /\ a + 1 # 1
                                   /\ queued'[a] = queued[a + 1]
      /\ \A b \in DOMAIN queued : b # 1 => b - 1 \in DOMAIN queued'
                                           /\ queued'[b - 1] = queued[b]
  BY <1>1, ItemSeq
<1>3. /\ \A b \in DOMAIN queued : b \in Nat /\ 1 <= b /\ queued[b].order \in Nat
      /\ \A a \in DOMAIN queued' : a \in Nat
  BY <1>1, ItemSeq
<1>4. ASSUME h \in live, NEW b \in DOMAIN queued, b # 1, queued[b] \in live
      PROVE  h.order < queued[b].order
  <2>1. 1 < b
    BY <1>3, <1>4
  <2> QED BY <1>0, <1>2, <1>4, <2>1 DEF Ascending
<1>5. ASSUME h \in live, NEW b \in DOMAIN queued, b # 1
      PROVE  queued[b] # h
  <2>1. ~(h.order < h.order)
    BY <1>2, <1>3
  <2> QED BY <1>4, <1>5, <2>1
<1>6. ASSUME h \in live
      PROVE  /\ sentenceOrders[h.sid] = h.order
             /\ \A i \in ready' \cup live' : h.order < i.order
  <2>1. \A i \in ready : h.order < i.order
    BY <1>0, <1>6 DEF Ascending
  <2>2. ASSUME NEW i \in live \ {h} PROVE h.order < i.order
    <3>1. PICK b \in DOMAIN queued : i = queued[b]
      BY <1>0, <2>2 DEF Ascending
    <3>2. b # 1
      BY <1>2, <2>2, <3>1
    <3> QED BY <1>4, <1>6, <2>2, <3>1, <3>2
  <2> QED BY <1>0, <1>2, <2>1, <2>2 DEF Labelled
<1>7. \A a \in DOMAIN queued' : queued'[a] \notin live' => queued[a + 1] \notin live
  BY <1>2, <1>5
<1>8. Ascending'
  <2>1. live' \subseteq {queued'[a] : a \in DOMAIN queued'}
    <3> SUFFICES ASSUME NEW i \in live, i # h
                 PROVE  \E a \in DOMAIN queued' : i = queued'[a]
      OBVIOUS
    <3>1. PICK b \in DOMAIN queued : i = queued[b]
      BY <1>0 DEF Ascending
    <3>2. b # 1
      BY <1>2, <3>1
    <3> QED BY <1>2, <3>1, <3>2
  <2>2. ASSUME NEW a \in DOMAIN queued', NEW b \in DOMAIN queued', a < b,
               queued'[a] \in live', queued'[b] \in live'
        PROVE  queued'[a].order < queued'[b].order
    <3>1. a + 1 < b + 1
      BY <1>3, <2>2
    <3> QED BY <1>0, <1>2, <2>2, <3>1 DEF Ascending
  <2>3. /\ \A i \in ready', j \in live' : j.order < i.order
        /\ \A i, j \in ready' : i.order = j.order => i = j
    BY <1>0 DEF Ascending
  <2> QED BY <2>1, <2>2, <2>3 DEF Ascending
<1> QED BY <1>2, <1>6, <1>7, <1>8

LEMMA PublishAcceptedLine ==
    ASSUME InOrder, NEW i \in ready, PublishAccepted(i)
    PROVE  Line'
<1>0. TypeOK /\ Labelled /\ BehindStream /\ Ascending /\ UpToHead /\ Outdated
  BY DEF InOrder, Settled, Line
<1>1. /\ NextReady(i)
      /\ ready' = ready \ {i} /\ queued' = Append(queued, i) /\ live' = live \cup {i}
      /\ UNCHANGED << entries, sentenceOrders, nextOrder, nextSource, stream >>
  BY DEF PublishAccepted
<1>2. queued \in Seq(Item) /\ i \in Item /\ i.order \in Nat /\ i.rev \in Nat
  BY <1>0, ItemTypes
<1> DEFINE last == Len(queued) + 1
<1>3. /\ \A a \in DOMAIN queued : a \in DOMAIN queued' /\ queued'[a] = queued[a] /\ a < last
                                  /\ a \in Nat
      /\ last \in DOMAIN queued' /\ queued'[last] = i /\ last \in Nat
      /\ \A a \in DOMAIN queued' : a \in DOMAIN queued \/ a = last
  BY <1>1, <1>2, ItemSeq
<1> HIDE DEF last
<1>4. \A a \in DOMAIN queued : queued[a] \in live' => queued[a] \in live
  BY <1>0, <1>1 DEF Outdated
<1>5. Labelled'
  BY <1>0, <1>1, <1>3 DEF Labelled
<1>6. BehindStream'
  BY <1>0, <1>1 DEF BehindStream
<1>7. Ascending'
  <2>1. live' \subseteq {queued'[a] : a \in DOMAIN queued'}
    BY <1>0, <1>1, <1>3 DEF Ascending
  <2>2. ASSUME NEW a \in DOMAIN queued', NEW b \in DOMAIN queued', a < b,
               queued'[a] \in live', queued'[b] \in live'
        PROVE  queued'[a].order < queued'[b].order
    <3>1. a \in DOMAIN queued
      BY <1>3, <2>2
    <3>2. queued'[a] = queued[a] /\ queued[a] \in live
      BY <1>3, <1>4, <2>2, <3>1
    <3>3. CASE b \in DOMAIN queued
      <4>1. queued'[b] = queued[b] /\ queued[b] \in live
        BY <1>3, <1>4, <2>2, <3>3
      <4> QED BY <1>0, <2>2, <3>1, <3>2, <3>3, <4>1 DEF Ascending
    <3>4. CASE b = last
      BY <1>0, <1>3, <3>2, <3>4 DEF Ascending
    <3> QED BY <1>3, <3>3, <3>4
  <2>3. ASSUME NEW j \in ready' PROVE i.order < j.order
    <3>1. j \in ready /\ j.order \in Nat /\ i.order <= j.order /\ j # i
      BY <1>0, <1>1, <1>2, ItemTypes DEF NextReady
    <3>2. i.order # j.order
      BY <1>0, <3>1 DEF Ascending
    <3> QED BY <1>2, <3>1, <3>2
  <2>4. \A j \in ready', k \in live' : k.order < j.order
    BY <1>0, <1>1, <2>3 DEF Ascending
  <2>5. \A j, k \in ready' : j.order = k.order => j = k
    BY <1>0, <1>1 DEF Ascending
  <2> QED BY <2>1, <2>2, <2>4, <2>5 DEF Ascending
<1>8. UpToHead'
  BY <1>0, <1>1 DEF UpToHead
<1>9. Outdated'
  <2>1. Pending' = Pending
    BY <1>1 DEF Pending
  <2>2. ASSUME NEW a \in DOMAIN queued PROVE queued[a] \notin live' => queued[a] \notin ready'
    BY <1>0, <1>1, <2>2 DEF Outdated
  <2>3. i \in live'
    BY <1>1
  <2>4. ASSUME i.order \in Pending PROVE i.rev <= entries[i.order].rev
    <3>1. i.order = nextOrder
      BY <1>0, <1>2, <2>4, ItemTypes DEF UpToHead
    <3>2. i.rev = entries[nextOrder].rev
      BY <1>0, <3>1 DEF UpToHead
    <3> QED BY <1>2, <3>1, <3>2
  <2> SUFFICES ASSUME NEW a \in DOMAIN queued'
               PROVE  /\ queued'[a] \notin live' => queued'[a] \notin ready'
                      /\ queued'[a].order \in Pending =>
                         /\ queued'[a].rev <= entries[queued'[a].order].rev
                         /\ queued'[a] \notin live' =>
                               \/ queued'[a].rev < entries[queued'[a].order].rev
                               \/ entries[queued'[a].order].status = "superseded"
    BY <1>1, <2>1 DEF Outdated
  <2>5. CASE a = last
    BY <1>3, <2>3, <2>4, <2>5
  <2>6. CASE a \in DOMAIN queued
    <3>1. queued'[a] = queued[a] /\ (queued[a] \notin live' => queued[a] \notin live)
      BY <1>1, <1>3, <2>6
    <3> QED BY <1>0, <2>2, <2>6, <3>1 DEF Outdated
  <2> QED BY <1>3, <2>5, <2>6
<1> QED BY <1>5, <1>6, <1>7, <1>8, <1>9 DEF Line

(* The items that remain are not those of the entry that was discarded.     *)
LEMMA DiscardedHead ==
    ASSUME InOrder, NEW i \in ready \cup live, entries' = Discarded(i.sid, i.rev),
           UNCHANGED << nextOrder, nextSource >>,
           ready' \cup live' \subseteq ready \cup live,
           \A j \in ready' \cup live' : j.order # i.order
    PROVE  UpToHead'
<1>0. Settled /\ TypeOK /\ Labelled /\ Ascending /\ UpToHead
  BY DEF InOrder, Settled, Line
<1>1. i.sid \in Sentences /\ i.rev \in Revisions /\ sentenceOrders[i.sid] = i.order
  BY <1>0, ItemTypes DEF Labelled, Ascending
<1> SUFFICES ASSUME NEW j \in ready' \cup live', j.order = nextOrder
             PROVE  entries'[nextOrder] = entries[nextOrder]
  BY <1>0 DEF UpToHead
<1>2. j \in ready \cup live /\ sentenceOrders[j.sid] = nextOrder /\ j.sid \in Sentences
  BY <1>0, ItemTypes DEF Labelled, Ascending
<1>3. nextOrder \in Pending
  BY <1>0, <1>2, ItemTypes DEF Settled, Places, Pending
<1> QED BY <1>0, <1>1, <1>3, DiscardedForm

LEMMA PublishRefusedLine ==
    ASSUME InOrder, NEW i \in ready, PublishRefused(i)
    PROVE  Line'
<1>0. Settled /\ TypeOK /\ Labelled /\ BehindStream /\ Ascending /\ UpToHead /\ Outdated
  BY DEF InOrder, Settled, Line
<1>1. /\ ready' = ready \ {i} /\ entries' = Discarded(i.sid, i.rev)
      /\ UNCHANGED << sentenceOrders, nextOrder, nextSource, queued, live, stream >>
  BY DEF PublishRefused
<1>2. Labelled' /\ BehindStream' /\ Ascending'
  BY <1>0, <1>1, LineNarrows
<1>3. \A j \in ready' \cup live' : j.order # i.order
  <2>1. \A j \in live : j.order < i.order /\ j.order \in Nat /\ i.order \in Nat
    BY <1>0, ItemTypes DEF Ascending
  <2> QED BY <1>0, <1>1, <2>1 DEF Ascending
<1>4. UpToHead'
  BY <1>1, <1>3, DiscardedHead
<1>5. Outdated'
  BY <1>0, <1>1, DiscardedRows DEF Outdated, Pending
<1> QED BY <1>2, <1>4, <1>5 DEF Line

LEMMA DiscardLine == ASSUME InOrder, Discard PROVE Line'
<1> DEFINE i == Head(queued)
<1>0. Settled /\ TypeOK /\ Labelled /\ BehindStream /\ Ascending /\ UpToHead /\ Outdated /\ Line
  BY DEF InOrder, Settled, Line
<1>1. /\ queued # << >> /\ i \in live
      /\ ready' = ready /\ live' = live \ {i} /\ queued' = Tail(queued)
      /\ entries' = Discarded(i.sid, i.rev)
      /\ UNCHANGED << sentenceOrders, nextOrder, nextSource, stream >>
  BY DEF Discard
<1>2. /\ \A j \in ready' \cup live' : i.order < j.order
      /\ \A a \in DOMAIN queued' :
            \E b \in DOMAIN queued : queued'[a] = queued[b]
                                     /\ (queued'[a] \notin live' => queued[b] \notin live)
      /\ Ascending'
  BY <1>0, <1>1, HeadTaken
<1>3. Labelled'
  BY <1>0, <1>1, <1>2 DEF Labelled
<1>4. BehindStream'
  BY <1>0, <1>1 DEF BehindStream
<1>5. UpToHead'
  <2>1. \A j \in ready' \cup live' : j.order # i.order
    BY <1>0, <1>1, <1>2, ItemTypes
  <2> QED BY <1>1, <2>1, DiscardedHead
<1>6. Outdated'
  <2>1. Pending' = Pending
    BY <1>1 DEF Pending
  <2> SUFFICES ASSUME NEW a \in DOMAIN queued'
               PROVE  /\ queued'[a] \notin live' => queued'[a] \notin ready
                      /\ queued'[a].order \in Pending =>
                         /\ queued'[a].rev <= entries'[queued'[a].order].rev
                         /\ queued'[a] \notin live' =>
                               \/ queued'[a].rev < entries'[queued'[a].order].rev
                               \/ entries'[queued'[a].order].status = "superseded"
    BY <1>1, <2>1 DEF Outdated
  <2>2. PICK b \in DOMAIN queued : queued'[a] = queued[b]
                                   /\ (queued'[a] \notin live' => queued[b] \notin live)
    BY <1>2
  <2> QED BY <1>0, <1>1, <2>2, DiscardedRows DEF Outdated
<1> QED BY <1>2, <1>3, <1>4, <1>5, <1>6 DEF Line

LEMMA SkipLine == ASSUME InOrder, SkipRevised PROVE Line'
<1>0. TypeOK /\ Labelled /\ BehindStream /\ Ascending /\ UpToHead /\ Outdated /\ Line
  BY DEF InOrder, Settled, Line
<1>1. /\ queued # << >> /\ Head(queued) \notin live
      /\ queued' = Tail(queued) /\ live' = live \ {Head(queued)}
      /\ UNCHANGED << sentenceOrders, nextOrder, nextSource, stream, entries, ready, live >>
  BY DEF SkipRevised
<1>2. /\ \A a \in DOMAIN queued' :
            \E b \in DOMAIN queued : queued'[a] = queued[b]
                                     /\ (queued'[a] \notin live' => queued[b] \notin live)
      /\ Ascending'
  BY <1>0, <1>1, HeadTaken
<1>3. Labelled' /\ BehindStream' /\ UpToHead'
  BY <1>0, <1>1, <1>2 DEF Labelled, BehindStream, UpToHead
<1>4. Outdated'
  BY <1>0, <1>1, <1>2 DEF Outdated, Pending
<1> QED BY <1>2, <1>3, <1>4 DEF Line

LEMMA SharedCommitLine == ASSUME InOrder, SharedCommit PROVE Line'
<1> DEFINE i == Head(queued)
<1>0. Settled /\ TypeOK /\ Places /\ Offered /\ Labelled /\ BehindStream /\ Ascending
      /\ UpToHead /\ Outdated /\ Line
  BY DEF InOrder, Settled, Line
<1>1. /\ queued # << >> /\ i \in live /\ i \in Item /\ i.order \in Nat /\ i.sid \in Sentences
      /\ ready' = ready /\ live' = live \ {i} /\ queued' = Tail(queued)
      /\ stream' = Append(stream, i)
      /\ UNCHANGED << sentenceOrders, nextSource >>
  BY <1>0, CommitForm, ItemTypes DEF SharedCommit
<1>2. /\ sentenceOrders[i.sid] = i.order
      /\ \A j \in ready' \cup live' : i.order < j.order
      /\ \A a \in DOMAIN queued' :
            \E b \in DOMAIN queued : queued'[a] = queued[b]
                                     /\ (queued'[a] \notin live' => queued[b] \notin live)
      /\ Ascending'
  BY <1>0, <1>1, HeadTaken
<1>3. /\ nextOrder \in Nat /\ nextOrder' \in Nat /\ i.order < nextOrder'
      /\ nextOrder <= nextOrder'
      /\ nextOrder' # nextOrder => \A j \in ready \cup live : j.order < nextOrder'
      /\ nextOrder' = nextOrder => entries' = entries
      /\ \A o \in Pending' : o \in Pending /\ entries'[o] = entries[o]
  <2>0. nextOrder \in Nat /\ nextSource \in Nat
    BY <1>0, ItemTypes
  <2>1. ASSUME released[i.sid] = i.rev, UNCHANGED << entries, released, nextOrder >>
        PROVE  i.order < nextOrder /\ Pending' = Pending
    <3>1. i.rev # NoRevision
      BY <1>1, BoundsAssumption DEF Item, Revisions, NoRevision
    <3>2. sentenceOrders[i.sid] \in 0..(nextOrder - 1)
      BY <1>0, <1>1, <2>1, <3>1 DEF Places
    <3> QED BY <1>1, <1>2, <2>0, <2>1, <3>2 DEF Pending
  <2>2. ASSUME sentenceOrders[i.sid] = nextOrder,
               NEW n \in (nextOrder + 1)..nextSource, nextOrder' = n,
               entries' = [o \in n..(nextSource - 1) |-> entries[o]]
        PROVE  /\ nextOrder' \in Nat /\ nextOrder < nextOrder' /\ i.order < nextOrder'
               /\ \A o \in Pending' : o \in Pending /\ entries'[o] = entries[o]
               /\ \A j \in ready \cup live : j.order < nextOrder'
    <3>1. n \in Nat /\ nextOrder < n
      BY <2>0
    <3>2. \A j \in ready \cup live : j.order \in Nat /\ j.order <= nextOrder
      BY <1>0, ItemTypes DEF UpToHead
    <3>3. Pending' = n..(nextSource - 1)
      BY <1>1, <2>2 DEF Pending
    <3>4. \A o \in n..(nextSource - 1) : o \in Pending /\ entries'[o] = entries[o]
      BY <2>0, <2>2, <3>1 DEF Pending
    <3> QED BY <1>2, <2>0, <2>2, <3>1, <3>2, <3>3, <3>4
  <2> QED BY <1>0, <2>0, <2>1, <2>2, CommitForm
<1>4. Labelled'
  <2>1. ASSUME NEW k \in DOMAIN stream' PROVE sentenceOrders[stream'[k].sid] = stream'[k].order
    BY <1>0, <1>1, <1>2, ItemTypes, ItemSeq DEF Labelled
  <2> QED BY <1>0, <1>1, <1>2, <2>1 DEF Labelled
<1>5. BehindStream'
  <2> SUFFICES ASSUME NEW k \in DOMAIN stream'
               PROVE  /\ stream'[k].order < nextOrder'
                      /\ \A j \in ready' \cup live' : stream'[k].order < j.order
    BY DEF BehindStream
  <2>1. stream \in Seq(Item)
    BY <1>0, ItemTypes
  <2>2. CASE k \in DOMAIN stream
    <3>1. stream'[k] = stream[k] /\ stream[k].order \in Nat /\ stream[k].order < nextOrder
      BY <1>0, <1>1, <2>1, <2>2, ItemSeq DEF BehindStream
    <3>2. stream'[k].order < nextOrder'
      BY <1>3, <3>1
    <3> QED BY <1>0, <1>1, <2>2, <3>1, <3>2 DEF BehindStream
  <2>3. CASE k = Len(stream) + 1
    <3>1. stream'[k] = i
      BY <1>1, <2>1, <2>3, ItemSeq
    <3> QED BY <1>2, <1>3, <3>1
  <2> QED BY <1>1, <2>1, <2>2, <2>3, ItemSeq
<1>6. UpToHead'
  <2> SUFFICES ASSUME NEW j \in ready \cup live
               PROVE  /\ j.order <= nextOrder'
                      /\ j.order = nextOrder' =>
                            entries'[nextOrder'].offered /\ entries'[nextOrder'].rev = j.rev
    BY <1>1 DEF UpToHead
  <2>1. j.order \in Nat
    BY <1>0, ItemTypes
  <2>2. CASE nextOrder' = nextOrder
    BY <1>0, <1>3, <2>2 DEF UpToHead
  <2>3. CASE nextOrder' # nextOrder
    <3>1. j.order < nextOrder'
      BY <1>3, <2>3
    <3> QED BY <1>3, <2>1, <3>1
  <2> QED BY <2>2, <2>3
<1>7. Outdated'
  BY <1>0, <1>1, <1>2, <1>3 DEF Outdated
<1> QED BY <1>2, <1>4, <1>5, <1>6, <1>7 DEF Line

LEMMA RevokeLine == ASSUME InOrder, NEW s \in Sentences, Revoke(s) PROVE Line'
<1>0. Settled /\ TypeOK /\ Labelled /\ BehindStream /\ Ascending /\ UpToHead /\ Outdated
  BY DEF InOrder, Settled, Line
<1>1. /\ entries' = [entries EXCEPT ![sentenceOrders[s]].confirmed = FALSE,
                                    ![sentenceOrders[s]].since = clock]
      /\ UNCHANGED << sentenceOrders, nextOrder, nextSource, ready, queued, live, stream >>
      /\ Pending' = Pending
  BY DEF Revoke, Pending
<1>2. ASSUME NEW o \in Pending
      PROVE  /\ entries'[o].rev = entries[o].rev /\ entries'[o].status = entries[o].status
             /\ entries'[o].offered = entries[o].offered
  BY <1>0, <1>1, EntryOwner DEF Entry
<1>3. Labelled' /\ BehindStream' /\ Ascending'
  BY <1>0, <1>1, LineNarrows
<1>4. UpToHead'
  <2>1. ASSUME NEW i \in ready \cup live, i.order = nextOrder PROVE nextOrder \in Pending
    BY <1>0, <2>1, ItemTypes DEF Labelled, Ascending, Settled, Places, Pending
  <2> QED BY <1>0, <1>1, <1>2, <2>1 DEF UpToHead
<1>5. Outdated'
  BY ZenonT(30), <1>0, <1>1, <1>2 DEF Outdated
<1> QED BY <1>3, <1>4, <1>5 DEF Line

LEMMA InOrderStep == InOrder /\ [Next]_vars => InOrder'
<1> SUFFICES ASSUME InOrder, [Next]_vars PROVE InOrder'
  OBVIOUS
<1>0. Settled /\ Offered /\ Line /\ Settled' /\ Offered' /\ TypeOK
  BY SettledStep, OfferedStep, TypeStep DEF InOrder, Settled
<1> SUFFICES Line'
  BY <1>0 DEF InOrder
<1>1. ASSUME NEW s \in Sentences, RegisterRevision(s) PROVE Line'
  BY <1>0, <1>1, RegisterRevisionForm, RevisedLine
<1>2. ASSUME NEW s \in Sentences, NEW rows \in SUBSET Sentences, Reconcile(s, rows)
      PROVE  Line'
  BY <1>0, <1>2, ReconcileForm, RevisedLine
<1>3. CASE DrainStep
  BY <1>0, <1>3, DrainForm, DrainLine
<1>4. CASE Tick \/ PlaybackPressure \/ UNCHANGED vars
  BY <1>0, <1>4 DEF Tick, PlaybackPressure, vars, Line, Labelled, BehindStream,
     Ascending, UpToHead, Outdated, Pending
<1> QED
  BY <1>1, <1>2, <1>3, <1>4, NextCases, RegisterNewLine, RevokeLine,
     PublishAcceptedLine, PublishRefusedLine, SharedCommitLine, DiscardLine, SkipLine

LEMMA InitInOrder == Init => InOrder
<1> SUFFICES ASSUME Init PROVE InOrder
  OBVIOUS
<1>1. Settled /\ Offered
  BY InitHeld DEF Held
<1>2. DOMAIN queued = {} /\ DOMAIN stream = {} /\ ready = {} /\ live = {}
  BY DEF Init
<1> QED BY <1>1, <1>2 DEF InOrder, Line, Labelled, BehindStream, Ascending, UpToHead, Outdated

-------------------------------------------------------------------------------
(* The buffer implements SpeechStream. *)

(* The fate and the text of each sentence, from the fields behind them.     *)
Fates ==
    /\ \A s \in Sentences : fate[s] =
          IF released[s] # NoRevision THEN "released"
          ELSE IF s \in superseded THEN "absorbed"
          ELSE IF sentenceOrders[s] \in Pending THEN "open"
          ELSE IF sentenceOrders[s] = NoOrder THEN "none"
          ELSE "failed"
    /\ \A s \in Sentences : text[s] =
          IF released[s] # NoRevision THEN released[s]
          ELSE IF fate[s] = "open" THEN entries[sentenceOrders[s]].rev
          ELSE 0
    /\ \A s \in Sentences : fate[s] = "open" <=>
          sentenceOrders[s] \in Pending /\ s \notin superseded
    /\ Speech!Open = {s \in Sentences : fate[s] = "open"}

LEMMA FatesHold == Settled => Fates
<1> SUFFICES ASSUME Settled PROVE Fates
  OBVIOUS
<1>1. DOMAIN entries = Pending
  BY EntryOwner
<1>2. \A s \in Sentences : sentenceOrders[s] \in Pending => released[s] = NoRevision
  BY EntryOwner
<1> QED BY <1>1, <1>2 DEF Fates, fate, text, Speech!Open

LEMMA FatesHoldNext == Settled' => Fates'
BY FatesHold, PTL

(* Equal fates and texts are equal functions. *)
LEMMA SameFate ==
    ASSUME \A s \in Sentences : fate'[s] = fate[s] /\ text'[s] = text[s],
           UNCHANGED << sentenceOrders, stream >>
    PROVE  UNCHANGED Speech!vars
<1>1. fate' = fate
  BY DEF fate
<1>2. text' = text
  BY DEF text
<1>3. heard' = heard
  BY DEF heard
<1> QED BY <1>1, <1>2, <1>3 DEF Speech!vars

(* A step that moves no sentence and replaces no revision is a stutter. *)
LEMMA RowsKeptStutters ==
    ASSUME Settled, Settled', RowsKept, UNCHANGED stream,
           \A o \in Pending : entries'[o].rev = entries[o].rev
    PROVE  UNCHANGED Speech!vars
<1>1. Pending' = Pending /\ Fates /\ Fates'
  BY FatesHold, FatesHoldNext DEF RowsKept, Pending
<1>2. ASSUME NEW s \in Sentences PROVE fate'[s] = fate[s] /\ text'[s] = text[s]
  <2>1. fate'[s] = fate[s]
    BY <1>1 DEF RowsKept, Fates
  <2>2. fate[s] = "open" => sentenceOrders[s] \in Pending
    BY <1>1 DEF Fates
  <2> QED BY <1>1, <2>1, <2>2 DEF RowsKept, Fates
<1> QED BY <1>2, SameFate DEF RowsKept

LEMMA RegisterNewArrives ==
    ASSUME Settled, Settled', NEW s \in Sentences, RegisterNew(s)
    PROVE  Speech!Arrive(s)
<1>0. TypeOK /\ Places /\ Fates /\ Fates' /\ nextOrder \in Nat /\ nextSource \in Nat
      /\ nextOrder <= nextSource
  BY FatesHold, FatesHoldNext DEF Settled, TypeOK
<1>1. /\ sentenceOrders[s] = NoOrder
      /\ sentenceOrders' = [sentenceOrders EXCEPT ![s] = nextSource]
      /\ sentenceOrders'[s] = nextSource
      /\ \A t \in Sentences : t # s => sentenceOrders'[t] = sentenceOrders[t]
      /\ UNCHANGED << released, superseded, stream >>
      /\ Pending' = nextOrder..nextSource
  BY <1>0 DEF RegisterNew, TypeOK, Pending
<1>2. \A t \in Sentences : sentenceOrders[t] < nextSource
  BY <1>0 DEF Places
<1>3. released[s] = NoRevision /\ s \notin superseded /\ sentenceOrders[s] \notin Pending
  BY <1>0, <1>1 DEF Places, NoOrder, Pending
<1>4. fate[s] = "none"
  BY <1>0, <1>1, <1>3 DEF Fates
<1>5. nextSource \in Pending' /\ nextSource # NoOrder
  BY <1>0, <1>1 DEF NoOrder
<1>6. fate'[s] = "open" /\ text'[s] = 1
  <2>1. fate'[s] = "open"
    BY <1>0, <1>1, <1>3, <1>5 DEF Fates
  <2>2. entries'[nextSource] = Fresh(s, 1)
    BY <1>0 DEF RegisterNew
  <2>3. entries'[nextSource].rev = 1
    BY <2>2 DEF Fresh
  <2> QED BY <1>0, <1>1, <1>3, <2>1, <2>3 DEF Fates
<1>7. ASSUME NEW t \in Sentences, t # s PROVE fate'[t] = fate[t] /\ text'[t] = text[t]
  <2>1. sentenceOrders[t] \in Pending' <=> sentenceOrders[t] \in Pending
    <3>1. sentenceOrders[t] \in Int /\ sentenceOrders[t] < nextSource
      BY <1>0, <1>2 DEF TypeOK, NoOrder
    <3>2. sentenceOrders[t] \in nextOrder..nextSource
            <=> sentenceOrders[t] \in nextOrder..(nextSource - 1)
      BY <1>0, <3>1
    <3> QED BY <1>1, <3>2 DEF Pending
  <2>2. fate'[t] = fate[t]
    BY <1>0, <1>1, <1>7, <2>1 DEF Fates
  <2>3. fate[t] = "open" => sentenceOrders[t] \in Pending
    BY <1>0 DEF Fates
  <2>4. sentenceOrders[t] \in Pending => entries'[sentenceOrders[t]] = entries[sentenceOrders[t]]
    BY <1>0 DEF RegisterNew, Pending
  <2> QED BY <1>0, <1>1, <1>7, <2>2, <2>3, <2>4 DEF Fates
<1>8. fate' = [fate EXCEPT ![s] = "open"] /\ text' = [text EXCEPT ![s] = 1]
  BY <1>6, <1>7, ZenonT(30) DEF fate, text
<1>9. heard' = heard
  BY <1>1 DEF heard
<1>10. sentenceOrders' = [sentenceOrders EXCEPT ![s] = sentenceOrders'[s]]
  BY <1>1
<1> QED BY <1>0, <1>1, <1>2, <1>4, <1>8, <1>9, <1>10 DEF Speech!Arrive

(* An edit, alone or with the rows it absorbs. *)
LEMMA EditForm ==
    ASSUME Settled, Settled', NEW s \in Sentences, NEW rows \in SUBSET Sentences,
           sentenceOrders[s] \in Pending, s \notin superseded \cup rows,
           entries[sentenceOrders[s]].rev < MaxRevision,
           \A t \in rows : /\ sentenceOrders[t] \in Pending /\ t \notin superseded
                           /\ sentenceOrders[t] > sentenceOrders[s],
           UNCHANGED << sentenceOrders, released, nextOrder, nextSource, stream >>,
           superseded' = superseded \cup rows,
           entries'[sentenceOrders[s]].rev = entries[sentenceOrders[s]].rev + 1,
           \A o \in Pending : o # sentenceOrders[s] =>
              entries'[o] = entries[o] \/ entries[o].sid \in rows
    PROVE  Speech!Edit(s, rows)
<1>0. Fates /\ Fates' /\ Pending' = Pending /\ TypeOK /\ Places
  BY FatesHold, FatesHoldNext DEF Settled, Pending
<1>1. released[s] = NoRevision /\ \A t \in rows : released[t] = NoRevision
  BY EntryOwner
<1>2. s \in Speech!Open /\ rows \subseteq Speech!Open
  BY <1>0 DEF Fates
<1>3. text[s] = entries[sentenceOrders[s]].rev /\ text'[s] = text[s] + 1 /\ fate'[s] = fate[s]
  BY <1>0, <1>1, <1>2 DEF Fates
<1>4. ASSUME NEW t \in Sentences, t # s
      PROVE  /\ fate'[t] = IF t \in rows THEN "absorbed" ELSE fate[t]
             /\ text'[t] = IF t \in rows THEN 0 ELSE text[t]
  <2>1. CASE t \in rows
    BY <1>0, <1>1, <2>1 DEF Fates
  <2>2. CASE t \notin rows
    <3>1. fate'[t] = fate[t]
      BY <1>0, <2>2 DEF Fates
    <3>2. ASSUME fate[t] = "open"
          PROVE  entries'[sentenceOrders[t]] = entries[sentenceOrders[t]]
      <4>1. sentenceOrders[t] \in Pending /\ entries[sentenceOrders[t]].sid = t
        BY <1>0, <3>2, EntryOwner DEF Fates
      <4>2. sentenceOrders[t] # sentenceOrders[s]
        BY <1>4, <4>1, EntryOwner
      <4> QED BY <2>2, <4>1, <4>2
    <3> QED BY <1>0, <2>2, <3>1, <3>2 DEF Fates
  <2> QED BY <2>1, <2>2
<1>5. text' = [t \in Sentences |->
                  IF t = s THEN text[s] + 1 ELSE IF t \in rows THEN 0 ELSE text[t]]
  BY <1>3, <1>4 DEF text
<1>6. fate' = [t \in Sentences |-> IF t \in rows THEN "absorbed" ELSE fate[t]]
  BY <1>3, <1>4 DEF fate
<1>7. heard' = heard
  BY DEF heard
<1> QED BY <1>2, <1>3, <1>5, <1>6, <1>7 DEF Speech!Edit

LEMMA RegisterRevisionEdits ==
    ASSUME Settled, Settled', NEW s \in Sentences, RegisterRevision(s)
    PROVE  Speech!Edit(s, {})
<1>1. DOMAIN entries = Pending /\ sentenceOrders[s] \in Pending
  BY EntryOwner DEF RegisterRevision
<1>2. s \notin superseded /\ entries[sentenceOrders[s]].rev < MaxRevision
  BY <1>1, EntryOwner DEF RegisterRevision
<1>3. \A o \in Pending : entries'[o] = IF o = sentenceOrders[s]
                                       THEN Fresh(s, entries[o].rev + 1) ELSE entries[o]
  BY <1>1 DEF RegisterRevision
<1>4. entries'[sentenceOrders[s]].rev = entries[sentenceOrders[s]].rev + 1
  <2>1. entries'[sentenceOrders[s]] = Fresh(s, entries[sentenceOrders[s]].rev + 1)
    BY <1>1, <1>3
  <2> QED BY <2>1 DEF Fresh
<1>5. UNCHANGED << sentenceOrders, released, nextOrder, nextSource, stream, superseded >>
  BY DEF RegisterRevision
<1> QED BY <1>1, <1>2, <1>3, <1>4, <1>5, EditForm

LEMMA ReconcileEdits ==
    ASSUME Settled, Settled', NEW s \in Sentences, NEW rows \in SUBSET Sentences,
           Reconcile(s, rows)
    PROVE  Speech!Edit(s, rows)
<1>1. DOMAIN entries = Pending /\ sentenceOrders[s] \in Pending
  BY EntryOwner DEF Reconcile, CanSupersede
<1>2. /\ s \notin superseded \cup rows /\ entries[sentenceOrders[s]].rev < MaxRevision
      /\ \A t \in rows : /\ sentenceOrders[t] \in Pending /\ t \notin superseded
                         /\ sentenceOrders[t] > sentenceOrders[s]
  BY <1>1, EntryOwner DEF Reconcile, CanSupersede
<1>3. ASSUME NEW o \in Pending
      PROVE  /\ o = sentenceOrders[s] => entries'[o] = Fresh(s, entries[o].rev + 1)
             /\ o # sentenceOrders[s] => entries'[o] = entries[o] \/ entries[o].sid \in rows
  BY <1>1 DEF Reconcile, Superseding
<1>4. entries'[sentenceOrders[s]].rev = entries[sentenceOrders[s]].rev + 1
  <2>1. entries'[sentenceOrders[s]] = Fresh(s, entries[sentenceOrders[s]].rev + 1)
    BY <1>1, <1>3
  <2> QED BY <2>1 DEF Fresh
<1>5. /\ UNCHANGED << sentenceOrders, released, nextOrder, nextSource, stream >>
      /\ superseded' = superseded \cup rows
  BY DEF Reconcile
<1> QED BY <1>1, <1>2, <1>3, <1>4, <1>5, EditForm

(* A drain settles what it passes, from the front of the open sentences. *)
LEMMA DrainSettles ==
    ASSUME Settled, Settled', NEW es, NEW force \in BOOLEAN, Drained(es, force)
    PROVE  \E rel, gone \in SUBSET Sentences : Speech!Settle(rel, gone) /\ heard' = heard
<1>0. TypeOK /\ Places /\ Fates /\ Fates'
  BY FatesHold, FatesHoldNext DEF Settled
<1>1. SameShape(es) /\ Drain(es, force) /\ DrainFrame
  BY DEF Drained
<1>2. PICK n \in nextOrder..nextSource :
         /\ nextOrder' = n
         /\ \A o \in nextOrder..(n - 1) : Passes(es[o], o, force)
         /\ \A o \in n..(nextSource - 1) : entries'[o].rev = es[o].rev
         /\ \A s \in Sentences :
               released'[s] = IF /\ sentenceOrders[s] \in nextOrder..(n - 1)
                                 /\ es[sentenceOrders[s]].status = "ready"
                              THEN es[sentenceOrders[s]].rev ELSE released[s]
  BY <1>0, <1>1, DrainEffect
<1>3. /\ nextOrder \in Nat /\ nextSource \in Nat /\ n \in Nat
      /\ nextOrder <= n /\ n <= nextSource
      /\ Pending' = n..(nextSource - 1) /\ Pending = nextOrder..(nextSource - 1)
      /\ UNCHANGED << sentenceOrders, superseded, nextSource, stream >>
  BY <1>0, <1>1, <1>2 DEF DrainFrame, Pending, TypeOK
<1> DEFINE passed == nextOrder..(n - 1)
           rel    == {s \in Sentences : /\ sentenceOrders[s] \in passed
                                        /\ es[sentenceOrders[s]].status = "ready"}
           gone   == {s \in Sentences : /\ sentenceOrders[s] \in passed
                                        /\ es[sentenceOrders[s]].status = "failed"}
<1>4. ASSUME NEW s \in Sentences, sentenceOrders[s] \in Pending
      PROVE  /\ es[sentenceOrders[s]].rev = entries[sentenceOrders[s]].rev
             /\ es[sentenceOrders[s]].rev # NoRevision
             /\ es[sentenceOrders[s]].status = "superseded" <=> s \in superseded
             /\ released[s] = NoRevision
             /\ sentenceOrders[s] # NoOrder
             /\ sentenceOrders[s] \in passed =>
                   es[sentenceOrders[s]].status \in {"superseded", "failed", "ready"}
  <2>1. es[sentenceOrders[s]].rev \in Revisions
    BY <1>1, <1>4 DEF SameShape, Entry
  <2>2. es[sentenceOrders[s]].rev # NoRevision
    BY <2>1, BoundsAssumption DEF Revisions, NoRevision
  <2>3. sentenceOrders[s] # NoOrder
    BY <1>4, EntryOwner DEF NoOrder
  <2>4. sentenceOrders[s] \in passed =>
           es[sentenceOrders[s]].status \in {"superseded", "failed", "ready"}
    BY <1>2 DEF Passes
  <2> QED BY <1>1, <1>4, <2>2, <2>3, <2>4, EntryOwner DEF SameShape
<1>5. \A s \in Sentences :
         /\ sentenceOrders[s] \in passed => sentenceOrders[s] \in Pending
                                            /\ sentenceOrders[s] \notin Pending'
         /\ sentenceOrders[s] \notin passed => (sentenceOrders[s] \in Pending' <=>
                                                sentenceOrders[s] \in Pending)
  BY <1>0, <1>3 DEF TypeOK
<1>6. ASSUME NEW s \in Sentences
      PROVE  /\ s \in rel => s \notin gone
             /\ s \in rel \cup gone => s \in Speech!Open
             /\ s \in Speech!Open \ (rel \cup gone) => /\ sentenceOrders[s] \in Pending
                                                       /\ sentenceOrders[s] \notin passed
  BY <1>0, <1>4, <1>5 DEF Fates
<1>7. \A s \in rel \cup gone, t \in Speech!Open \ (rel \cup gone) :
         sentenceOrders[s] < sentenceOrders[t]
  <2> SUFFICES ASSUME NEW s \in rel \cup gone, NEW t \in Speech!Open \ (rel \cup gone)
               PROVE  sentenceOrders[s] < sentenceOrders[t]
    OBVIOUS
  <2>1. t \in Sentences
    BY <1>0 DEF Fates
  <2>2. sentenceOrders[s] \in nextOrder..(n - 1)
    OBVIOUS
  <2>3. sentenceOrders[t] \in nextOrder..(nextSource - 1) /\ sentenceOrders[t] \notin nextOrder..(n - 1)
    BY <1>3, <1>6, <2>1
  <2> QED BY <1>3, <2>2, <2>3
<1>8. ASSUME NEW s \in Sentences
      PROVE  /\ fate'[s] = IF s \in rel THEN "released"
                           ELSE IF s \in gone THEN "failed" ELSE fate[s]
             /\ text'[s] = IF s \in gone THEN 0 ELSE text[s]
  <2>1. CASE s \in rel
    <3>1. released'[s] = entries[sentenceOrders[s]].rev /\ released'[s] # NoRevision
      BY <1>2, <1>4, <1>5, <2>1
    <3>2. text[s] = entries[sentenceOrders[s]].rev
      BY <1>0, <1>4, <1>5, <1>6, <2>1 DEF Fates
    <3> QED BY <1>0, <1>6, <2>1, <3>1, <3>2 DEF Fates
  <2>2. CASE s \in gone
    <3>1. /\ released'[s] = NoRevision /\ s \notin superseded
          /\ sentenceOrders[s] \notin Pending' /\ sentenceOrders[s] # NoOrder
      BY <1>2, <1>4, <1>5, <2>2
    <3> QED BY <1>0, <1>3, <1>6, <2>2, <3>1 DEF Fates
  <2>3. CASE s \notin rel \cup gone
    <3>1. released'[s] = released[s]
      BY <1>2, <2>3
    <3>2. sentenceOrders[s] \in passed => s \in superseded
      BY <1>4, <1>5, <2>3
    <3>3. fate'[s] = fate[s]
      BY <1>0, <1>3, <1>5, <3>1, <3>2 DEF Fates
    <3>4. fate[s] = "open" => /\ sentenceOrders[s] \in n..(nextSource - 1)
                              /\ sentenceOrders[s] \in Pending
      BY <1>0, <1>3, <1>5, <3>2 DEF Fates
    <3>5. fate[s] = "open" =>
             entries'[sentenceOrders[s]].rev = entries[sentenceOrders[s]].rev
      BY <1>2, <1>4, <3>4
    <3> QED BY <1>0, <1>3, <2>3, <3>1, <3>3, <3>5 DEF Fates
  <2> QED BY <2>1, <2>2, <2>3
<1> HIDE DEF rel, gone
<1>9. fate' = [s \in Sentences |-> IF s \in rel THEN "released"
                                   ELSE IF s \in gone THEN "failed" ELSE fate[s]]
  BY <1>8 DEF fate
<1>10. text' = [s \in Sentences |-> IF s \in gone THEN 0 ELSE text[s]]
  BY <1>8 DEF text
<1>11. heard' = heard
  BY <1>3 DEF heard
<1>12. rel \in SUBSET Sentences /\ gone \in SUBSET Sentences
  BY DEF rel, gone
<1>13. rel \cap gone = {} /\ rel \cup gone \subseteq Speech!Open
  BY <1>6, <1>12
<1>14. Speech!Settle(rel, gone)
  BY <1>3, <1>7, <1>9, <1>10, <1>13 DEF Speech!Settle
<1> QED BY <1>11, <1>12, <1>14

(* The first shared chunk: the sentence is heard behind all others, and its *)
(* fate is settled by that unless a forced drain has settled it before.     *)
LEMMA SharedCommitHears ==
    ASSUME InOrder, Settled', SharedCommit
    PROVE  Speech!Hear(Head(queued).sid)
<1> DEFINE i == Head(queued)
           s == i.sid
<1>0. /\ Settled /\ TypeOK /\ Places /\ Offered /\ Labelled /\ BehindStream /\ Ascending
      /\ Fates /\ Fates' /\ stream \in Seq(Item)
  BY FatesHold, FatesHoldNext DEF InOrder, Settled, Line, TypeOK
<1>1. /\ i \in live /\ i \in Item /\ s \in Sentences /\ i.rev \in Revisions
      /\ stream' = Append(stream, i) /\ i.rev # NoRevision
      /\ UNCHANGED << sentenceOrders, superseded, nextSource >>
  BY <1>0, CommitForm, BoundsAssumption DEF Revisions, NoRevision
<1>2. Len(heard) = Len(stream)
  BY <1>0 DEF heard
<1>3. \A k \in 1..Len(heard) : sentenceOrders[heard[k].sid] < sentenceOrders[s]
  <2> SUFFICES ASSUME NEW k \in 1..Len(stream)
               PROVE  sentenceOrders[heard[k].sid] < sentenceOrders[s]
    BY <1>2
  <2>1. k \in DOMAIN stream /\ heard[k].sid = stream[k].sid
    BY <1>0 DEF heard
  <2>2. sentenceOrders[s] = i.order
    BY <1>0, <1>1 DEF Ascending, Labelled
  <2> QED BY <1>0, <1>1, <2>1, <2>2 DEF Labelled, BehindStream
<1>4. heard' = Append(heard, [sid |-> s, rev |-> i.rev])
  <2>1. heard' = [k \in 1..(Len(stream) + 1) |->
                     [sid |-> stream'[k].sid, rev |-> stream'[k].rev]]
    BY <1>0, <1>1 DEF heard
  <2>2. \A k \in 1..Len(stream) : stream'[k] = stream[k]
    BY <1>0, <1>1
  <2>3. stream'[Len(stream) + 1] = i
    BY <1>0, <1>1
  <2>4. heard \in Seq([sid : Sentences, rev : Revisions])
    <3>1. \A k \in 1..Len(stream) :
             [sid |-> stream[k].sid, rev |-> stream[k].rev]
                \in [sid : Sentences, rev : Revisions]
      <4>1. \A k \in 1..Len(stream) : stream[k].sid \in Sentences /\ stream[k].rev \in Revisions
        <5>1. \A k \in 1..Len(stream) : k \in DOMAIN stream
          BY <1>0
        <5> QED BY <1>0, <5>1, ItemSeq
      <4> QED BY <4>1
    <3>2. Len(stream) \in Nat
      BY <1>0
    <3> QED BY <3>1, <3>2 DEF heard
  <2>5. Append(heard, [sid |-> s, rev |-> i.rev])
           = [k \in 1..(Len(stream) + 1) |->
                 IF k = Len(stream) + 1 THEN [sid |-> s, rev |-> i.rev] ELSE heard[k]]
    BY <1>2, <2>4
  <2>6. \A k \in 1..Len(stream) : heard[k] = [sid |-> stream[k].sid, rev |-> stream[k].rev]
    BY DEF heard
  <2>7. Len(stream) \in Nat
    BY <1>0
  <2> QED BY <2>1, <2>2, <2>3, <2>5, <2>6, <2>7
<1>5. CASE released[s] = i.rev /\ UNCHANGED << entries, released, nextOrder >>
  <2>1. fate[s] = "released" /\ text[s] = i.rev
    BY <1>0, <1>1, <1>5 DEF Fates
  <2>2. fate' = fate /\ text' = text
    BY <1>1, <1>5 DEF fate, text
  <2> QED BY <1>1, <1>3, <1>4, <2>1, <2>2 DEF Speech!Hear
<1>6. ASSUME released[s] = NoRevision, sentenceOrders[s] = nextOrder, nextOrder \in Pending,
             entries[nextOrder].status = "ready", entries[nextOrder].rev = i.rev,
             NEW n \in (nextOrder + 1)..nextSource,
             \A o \in (nextOrder + 1)..(n - 1) : entries[o].status = "superseded",
             nextOrder' = n,
             entries' = [o \in n..(nextSource - 1) |-> entries[o]],
             released' = [released EXCEPT ![s] = i.rev]
      PROVE  Speech!Hear(s)
  <2>1. /\ nextOrder \in Nat /\ nextSource \in Nat /\ n \in Nat /\ nextOrder < n
        /\ Pending = nextOrder..(nextSource - 1) /\ Pending' = n..(nextSource - 1)
    BY <1>0, <1>1, <1>6 DEF TypeOK, Pending
  <2>2. s \notin superseded
    BY <1>0, <1>1, <1>6, EntryOwner
  <2>3. fate[s] = "open" /\ text[s] = i.rev
    BY <1>0, <1>1, <1>6, <2>2 DEF Fates
  <2>4. \A t \in Sentences : released'[t] = IF t = s THEN i.rev ELSE released[t]
    BY <1>0, <1>6 DEF TypeOK
  <2>5. fate'[s] = "released" /\ text'[s] = text[s]
    BY <1>0, <1>1, <2>3, <2>4 DEF Fates
  <2>6. ASSUME NEW t \in Sentences, t # s
        PROVE  /\ sentenceOrders[t] \in Pending /\ sentenceOrders[t] \notin Pending' =>
                     t \in superseded
               /\ sentenceOrders[t] \in Pending' => sentenceOrders[t] \in Pending
               /\ sentenceOrders[t] \in Pending => nextOrder < sentenceOrders[t]
    <3>1. sentenceOrders[t] = nextOrder => FALSE
      BY <1>0, <1>1, <1>6, <2>6, EntryOwner
    <3>2. sentenceOrders[t] \in Pending' => sentenceOrders[t] \in Pending
      BY <2>1
    <3>3. sentenceOrders[t] \in Pending => nextOrder < sentenceOrders[t]
      BY <2>1, <3>1
    <3>4. ASSUME sentenceOrders[t] \in Pending, sentenceOrders[t] \notin Pending'
          PROVE  t \in superseded
      <4>1. sentenceOrders[t] \in (nextOrder + 1)..(n - 1)
        BY <2>1, <3>3, <3>4
      <4> QED BY <1>0, <1>6, <3>4, <4>1, EntryOwner
    <3> QED BY <3>2, <3>3, <3>4
  <2>7. ASSUME NEW t \in Sentences, t # s PROVE fate'[t] = fate[t] /\ text'[t] = text[t]
    <3>1. fate'[t] = fate[t]
      BY <1>0, <1>1, <2>4, <2>6, <2>7 DEF Fates
    <3>2. fate[t] = "open" => sentenceOrders[t] \in Pending'
      BY <1>0, <2>6, <2>7 DEF Fates
    <3>3. sentenceOrders[t] \in Pending' =>
             entries'[sentenceOrders[t]] = entries[sentenceOrders[t]]
      BY <1>6, <2>1
    <3> QED BY <1>0, <1>1, <2>4, <2>7, <3>1, <3>2, <3>3 DEF Fates
  <2>8. \A t \in Speech!Open \ {s} : sentenceOrders[s] < sentenceOrders[t]
    BY <1>0, <1>6, <2>6 DEF Fates
  <2>9. s \in Speech!Open
    BY <1>0, <1>1, <2>3 DEF Fates
  <2>10. fate' = [t \in Sentences |-> IF t \in {s} THEN "released"
                                      ELSE IF t \in {} THEN "failed" ELSE fate[t]]
    BY <2>5, <2>7 DEF fate
  <2>11. text' = [t \in Sentences |-> IF t \in {} THEN 0 ELSE text[t]]
    BY <2>5, <2>7 DEF text
  <2>12. Speech!Settle({s}, {})
    BY <1>1, <2>8, <2>9, <2>10, <2>11 DEF Speech!Settle
  <2> QED BY <1>1, <1>3, <1>4, <2>3, <2>12 DEF Speech!Hear
<1> QED BY <1>0, <1>5, <1>6, CommitForm

LEMMA InitMaps == Init => Speech!Init
<1> SUFFICES ASSUME Init PROVE Speech!Init
  OBVIOUS
<1>1. /\ \A s \in Sentences : /\ released[s] = NoRevision /\ sentenceOrders[s] = NoOrder
      /\ superseded = {} /\ Len(stream) = 0 /\ DOMAIN entries = {}
  BY DEF Init
<1>2. fate = [s \in Sentences |-> "none"]
  BY <1>1 DEF fate
<1>3. text = [s \in Sentences |-> 0]
  BY <1>1, <1>2 DEF text
<1>4. heard = << >>
  BY <1>1 DEF heard
<1>5. sentenceOrders = [s \in Sentences |-> -1]
  BY DEF Init, NoOrder
<1> QED BY <1>2, <1>3, <1>4, <1>5 DEF Speech!Init

LEMMA StepMaps == InOrder /\ [Next]_vars => [Speech!Next]_(Speech!vars)
<1> SUFFICES ASSUME InOrder, [Next]_vars PROVE Speech!Next \/ UNCHANGED Speech!vars
  OBVIOUS
<1>0. Settled /\ Settled' /\ TypeOK /\ TypeOK' /\ Offered
  BY SettledStep DEF InOrder, Settled
<1>1. ASSUME NEW s \in Sentences, RegisterNew(s) PROVE Speech!Next
  BY <1>0, <1>1, RegisterNewArrives DEF Speech!Next
<1>2. ASSUME NEW s \in Sentences, RegisterRevision(s) PROVE Speech!Next
  BY <1>0, <1>2, RegisterRevisionEdits DEF Speech!Next
<1>3. ASSUME NEW s \in Sentences, NEW rows \in SUBSET Sentences, Reconcile(s, rows)
      PROVE  Speech!Next
  BY <1>0, <1>3, ReconcileEdits DEF Speech!Next
<1>4. CASE DrainStep
  <2>1. PICK es : \E force \in BOOLEAN : Drained(es, force)
    BY <1>0, <1>4, DrainForm
  <2>2. PICK force \in BOOLEAN : Drained(es, force)
    BY <2>1
  <2> QED BY <1>0, <2>2, DrainSettles DEF Speech!Next
<1>5. CASE SharedCommit
  <2>1. Head(queued).sid \in Sentences
    BY <1>0, <1>5, CommitForm
  <2> QED BY <1>0, <1>5, <2>1, SharedCommitHears DEF Speech!Next
<1>6. ASSUME RowsKept, UNCHANGED stream, \A o \in Pending : entries'[o].rev = entries[o].rev
      PROVE  UNCHANGED Speech!vars
  BY <1>0, <1>6, RowsKeptStutters
<1>7. ASSUME NEW s \in Sentences, Revoke(s) PROVE UNCHANGED Speech!vars
  <2>1. \A o \in Pending : entries'[o].rev = entries[o].rev
    BY <1>0, <1>7, EntryOwner DEF Revoke, Entry
  <2> QED BY <1>0, <1>6, <1>7, <2>1, RevokeRows DEF Revoke
<1>8. ASSUME NEW i, entries' = Discarded(i.sid, i.rev),
             UNCHANGED << sentenceOrders, released, superseded, nextOrder, nextSource,
                          failed, stream >>
      PROVE  UNCHANGED Speech!vars
  <2>1. \A o \in Pending : entries'[o].rev = entries[o].rev
    BY <1>0, <1>8, DiscardedRows
  <2>2. RowsKept
    BY <1>0, <1>8, DiscardedRows DEF RowsKept
  <2> QED BY <1>6, <1>8, <2>1, <2>2
<1>9. ASSUME NEW i \in ready, PublishRefused(i) PROVE UNCHANGED Speech!vars
  BY <1>8, <1>9 DEF PublishRefused
<1>10. CASE Discard
  BY <1>8, <1>10 DEF Discard
<1>11. ASSUME UNCHANGED << entries, sentenceOrders, released, superseded, nextOrder,
                           nextSource, failed, stream >>
       PROVE  UNCHANGED Speech!vars
  BY <1>6, <1>11 DEF RowsKept
<1>12. ASSUME NEW i \in ready, PublishAccepted(i) PROVE UNCHANGED Speech!vars
  BY <1>11, <1>12 DEF PublishAccepted
<1>13. CASE SkipRevised \/ Tick \/ PlaybackPressure \/ UNCHANGED vars
  BY <1>11, <1>13 DEF SkipRevised, Tick, PlaybackPressure, vars
<1> QED BY <1>1, <1>2, <1>3, <1>4, <1>5, <1>7, <1>9, <1>10, <1>12, <1>13, NextCases

(* Every behaviour of the ordering boundary is one SpeechStream allows:     *)
(* register(), supersede_many(), drain(), commit(), discarded() and         *)
(* revise_source(), in whatever order the session and the publisher call    *)
(* them, settle sentences from the front of the source order, and what is   *)
(* heard follows that order, each sentence at most once and in the one      *)
(* revision that was released.                                              *)
THEOREM BufferImplementsStream == Spec => ImplementsSpeechStream
<1>1. Init => Speech!Init
  BY InitMaps
<1>2. Init => InOrder
  BY InitInOrder
<1>3. InOrder /\ [Next]_vars => InOrder'
  BY InOrderStep
<1>4. InOrder /\ [Next]_vars => [Speech!Next]_(Speech!vars)
  BY StepMaps
<1> QED BY <1>1, <1>2, <1>3, <1>4, PTL DEF Spec, ImplementsSpeechStream, Speech!Spec
===============================================================================
