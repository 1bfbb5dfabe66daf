------------------------------ MODULE SpeechStream ------------------------------
(***************************************************************************)
(* What the speech path promises to a listener, without its machinery      *)
(* (docs/en/SPEECH-CONSISTENCY.md, rules 1 to 5): committed source         *)
(* sentences stand in one order; a sentence may be edited until its fate   *)
(* is settled, and fates are settled from the front of the order; what is  *)
(* heard is a subsequence of the released sentences, in their order, each  *)
(* in the one revision that was released.                                  *)
(*                                                                         *)
(* RevisionBuffer implements this specification.                           *)
(***************************************************************************)
EXTENDS Integers, Sequences

CONSTANTS
    Sentences,      \* source occurrences
    MaxRevision     \* bound on the revisions of one sentence

VARIABLES
    row,    \* position of a sentence in the source order, -1 before it exists
    fate,   \* "none", "open", "released", "failed" or "absorbed"
    text,   \* current revision while open, the released one afterwards
    heard   \* the listener's stream: records of a sentence and its revision

vars == << row, fate, text, heard >>

Init ==
    /\ row = [s \in Sentences |-> -1]
    /\ fate = [s \in Sentences |-> "none"]
    /\ text = [s \in Sentences |-> 0]
    /\ heard = << >>

Open == {s \in Sentences : fate[s] = "open"}

(* A source sentence is committed behind all others. *)
Arrive(s) ==
    /\ fate[s] = "none"
    /\ row'[s] \in Nat /\ \A t \in Sentences : row[t] < row'[s]
    /\ row' = [row EXCEPT ![s] = row'[s]]
    /\ fate' = [fate EXCEPT ![s] = "open"]
    /\ text' = [text EXCEPT ![s] = 1]
    /\ heard' = heard

(* An open sentence is replaced; it may absorb open sentences behind it. *)
Edit(s, absorbed) ==
    /\ s \in Open /\ absorbed \subseteq Open
    /\ \A t \in absorbed : row[t] > row[s]
    /\ text[s] < MaxRevision
    /\ text' = [t \in Sentences |->
                   IF t = s THEN text[s] + 1 ELSE IF t \in absorbed THEN 0 ELSE text[t]]
    /\ fate' = [t \in Sentences |-> IF t \in absorbed THEN "absorbed" ELSE fate[t]]
    /\ UNCHANGED << row, heard >>

(* The first open sentences are settled: released as they are, or failed. *)
Settle(released, failed) ==
    LET front == released \cup failed
    IN  /\ released \cap failed = {} /\ front \subseteq Open
        /\ \A s \in front, t \in Open \ front : row[s] < row[t]
        /\ fate' = [s \in Sentences |-> IF s \in released THEN "released"
                                        ELSE IF s \in failed THEN "failed" ELSE fate[s]]
        /\ text' = [s \in Sentences |-> IF s \in failed THEN 0 ELSE text[s]]
        /\ row' = row

(* A released sentence is heard, behind everything heard before; a sentence *)
(* may be settled by being heard.                                           *)
Hear(s) ==
    /\ \A i \in 1..Len(heard) : row[heard[i].sid] < row[s]
    /\ heard' = Append(heard, [sid |-> s, rev |-> text[s]])
    /\ \/ fate[s] = "released" /\ UNCHANGED << row, fate, text >>
       \/ Settle({s}, {})

Next ==
    \/ \E s \in Sentences : Arrive(s) \/ Hear(s)
    \/ \E s \in Sentences, absorbed \in SUBSET Sentences : Edit(s, absorbed)
    \/ \E released, failed \in SUBSET Sentences :
          Settle(released, failed) /\ heard' = heard

Spec == Init /\ [][Next]_vars
===============================================================================
