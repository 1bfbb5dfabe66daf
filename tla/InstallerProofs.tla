---------------------------- MODULE InstallerProofs ----------------------------
(* What Installer guarantees for every manifest, every number of chunks and *)
(* any number of faults: no crash, power loss, cancellation or wrong answer *)
(* of a server puts a name of the manifest on content that was not          *)
(* verified, and what a power loss can do to a finished installation.       *)
EXTENDS Installer, FiniteSetTheorems, SequenceTheorems, TLAPS

-------------------------------------------------------------------------------
(* The shape of the state. *)

Places == {"idle", "preflight", "item", "place", "download", "copy", "publish", "link",
           "private", "linkPrivate", "unlink", "settle"}

(* Where a program fetches an item, where it is busy with one, and where it *)
(* is after its checks.                                                     *)
Fetching == {"download", "copy", "publish", "link", "private", "linkPrivate"}
Busy     == Fetching \cup {"place", "unlink", "settle"}
Working  == Busy \cup {"item"}

Part == [len : 0..Size, ok : BOOLEAN]

FilesTyped ==
    /\ dest \in [Items -> {"absent", "good", "bad"}]
    /\ part \in [Items -> Part]
    /\ alias \in [Items -> {"none", "part", "private"}]
    /\ dirty \in SUBSET Items /\ loose \in SUBSET Items
    /\ damaged \in SUBSET Items /\ torn \in SUBSET Items
    /\ backups \in [Items -> Nat] /\ marker \in BOOLEAN /\ lingers \in BOOLEAN

ProgramsTyped ==
    /\ lock \in Programs \cup {"free"}
    /\ at \in [Programs -> Places] /\ fix \in [Programs -> BOOLEAN]
    /\ work \in [Programs -> Seq(Items)]
    /\ \A p \in Programs : at[p] # "idle" <=> lock = p
    /\ \A p \in Programs : at[p] \in Busy => work[p] # << >>

(* A second name is one of a good file, and of one a power loss cannot      *)
(* change any more.                                                         *)
SecondNames == \A i \in Items : alias[i] # "none" => dest[i] = "good" /\ i \notin dirty

(* A name that is not on the disk is one of a good file, and content that   *)
(* is not on the disk has its name only in a wheel.                         *)
Unsynced ==
    /\ \A i \in loose : dest[i] = "good"
    /\ \A i \in dirty \ Unpacked : dest[i] = "absent"

Files == SecondNames /\ Unsynced /\ PublishedIsVerified

(* What is excused for not being good, and what is good or excused.         *)
Excused(i) == i \in damaged \/ i \in torn
InPlace(i) == dest[i] = "good" \/ Excused(i)

(* installed.json is there, or a power loss may bring it back.              *)
Recorded == marker \/ lingers

(* What is known of an item while a program is busy with it: there is no    *)
(* file under its name until it is linked, what goes to be linked is        *)
(* verified and on the disk, and what was missing in spite of the record    *)
(* stays excused until its directory is synced.                             *)
Handled ==
    \A p \in Programs :
        /\ at[p] \in Fetching => dest[Item(p)] = "absent" /\ Item(p) \notin Unpacked
        /\ at[p] = "place" => Item(p) \in Unpacked
        /\ at[p] \in {"publish", "link"} => part[Item(p)].ok
        /\ at[p] \in {"link", "linkPrivate"} => Item(p) \notin dirty
        /\ at[p] = "unlink" => alias[Item(p)] # "none"
        /\ at[p] = "settle" => InPlace(Item(p))
        /\ at[p] \in {"unlink", "settle"} /\ Item(p) \notin Unpacked /\ Recorded =>
             Excused(Item(p))

(* The record says that everything is in place, and a power loss that       *)
(* brings it back takes no name but an excused one.                         *)
RecordHolds ==
    Recorded => /\ \A i \in Items : InPlace(i)
                /\ \A i \in loose \cap Unpacked : Excused(i)

(* While the installer works there is no marker, what it has dealt with is  *)
(* in place, and after the last wheel all directories are on the disk.      *)
InstallerAhead ==
    at["install"] \in Working =>
        /\ ~marker
        /\ \A i \in Items : InPlace(i) \/ i \in Range(work["install"])
        /\ Range(work["install"]) \cap Unpacked = {} => loose \cap Unpacked = {}

Sound == FilesTyped /\ ProgramsTyped /\ Files /\ Handled /\ RecordHolds /\ InstallerAhead

-------------------------------------------------------------------------------
(* The plans list the items they are made for. *)
LEMMA AssetsFinite == IsFiniteSet(Assets)
<1>1. Downloads \in Seq(Assets)
  BY InstallerAssumption
<1>2. Len(Downloads) \in Nat /\ DOMAIN Downloads = 1..Len(Downloads)
  BY <1>1
<1>3. Downloads \in Surjection(1..Len(Downloads), Assets)
  BY <1>1, <1>2 DEF Assets, Range, Surjection
<1>4. IsFiniteSet(1..Len(Downloads))
  BY <1>2, FS_Interval
<1> QED BY <1>3, <1>4, FS_Surjection

LEMMA Enumeration ==
    ASSUME NEW S, IsFiniteSet(S), NEW q \in SetToSeqs(S)
    PROVE  q \in Seq(S) /\ Range(q) = S
<1>1. Cardinality(S) \in Nat
  BY FS_CardinalityType
<1>2. /\ q \in [1..Cardinality(S) -> S]
      /\ \A i, j \in 1..Cardinality(S) : i # j => q[i] # q[j]
  BY DEF SetToSeqs
<1>3. IsFiniteSet(1..Cardinality(S)) /\ Cardinality(1..Cardinality(S)) = Cardinality(S)
  BY <1>1, FS_Interval
<1>4. q \in Injection(1..Cardinality(S), S)
  BY <1>2 DEF Injection, IsInjective
<1>5. q \in Surjection(1..Cardinality(S), S)
  BY <1>3, <1>4, FS_Injection
<1>6. Range(q) = S
  BY <1>2, <1>5 DEF Surjection, Range
<1> QED BY <1>1, <1>2, <1>6

LEMMA PlanForm ==
    ASSUME NEW p \in Programs, NEW chosen \in SUBSET Items,
           IF p = "install" THEN InstallMay(chosen) ELSE RepairMay(chosen),
           NEW plan \in Plans(p, chosen)
    PROVE  plan \in Seq(Items) /\ (p = "install" => Range(plan) = Items)
<1>1. Downloads \in Seq(Assets) /\ Packages \in Seq(Unpacked)
  BY InstallerAssumption
<1>2. << Generated >> \in Seq(Items) /\ Range(<< Generated >>) = {Generated}
  BY DEF Items, Range
<1>3. /\ Downloads \in Seq(Items) /\ Range(Downloads) = Assets
      /\ Packages \in Seq(Items) /\ Range(Packages) = Unpacked
  <2>1. Assets \subseteq Items /\ Unpacked \subseteq Items
    BY DEF Items
  <2> QED BY <1>1, <2>1 DEF Assets, Unpacked
<1>4. CASE p = "install"
  <2>1. plan = (Downloads \o Packages) \o << Generated >>
    BY <1>4 DEF Plans, InstallPlan
  <2> DEFINE most == Downloads \o Packages
             last == << Generated >>
  <2>2. most \in Seq(Items) /\ Range(most) = Assets \cup Unpacked
    BY <1>3, ConcatProperties, RangeConcatenation
  <2>3. last \in Seq(Items) /\ plan = most \o last /\ Range(last) = {Generated}
    BY <1>2, <2>1
  <2> HIDE DEF most, last
  <2>4. plan \in Seq(Items) /\ Range(plan) = (Assets \cup Unpacked) \cup {Generated}
    BY <2>2, <2>3, ConcatProperties, RangeConcatenation
  <2> QED BY <2>4 DEF Items
<1>5. CASE p # "install"
  <2> DEFINE most == chosen \ {Generated}
  <2>1. RepairMay(chosen)
    BY <1>5
  <2>2. most \subseteq Assets
    BY <2>1 DEF RepairMay, Items
  <2>3. IsFiniteSet(most)
    BY <2>2, AssetsFinite, FS_Subset
  <2>4. PICK q \in SetToSeqs(most) :
           plan = q \o (IF Generated \in chosen THEN << Generated >> ELSE << >>)
    BY <1>5 DEF Plans, RepairPlans
  <2>5. q \in Seq(most)
    BY <2>3, <2>4, Enumeration
  <2>6. q \in Seq(Items)
    BY <2>5
  <2>7. (IF Generated \in chosen THEN << Generated >> ELSE << >>) \in Seq(Items)
    BY <1>2
  <2> QED BY <1>5, <2>4, <2>6, <2>7, ConcatProperties, RangeConcatenation
<1> QED BY <1>4, <1>5

-------------------------------------------------------------------------------
(* The program that runs is alone, and the item it is at is one of its own. *)
LEMMA Alone ==
    ASSUME ProgramsTyped, NEW p \in Programs, at[p] # "idle"
    PROVE  \A q \in Programs : q # p => at[q] = "idle"
BY DEF ProgramsTyped

LEMMA ItemOf ==
    ASSUME ProgramsTyped, NEW p \in Programs, work[p] # << >>
    PROVE  /\ Item(p) \in Items /\ Item(p) \in Range(work[p])
           /\ Tail(work[p]) \in Seq(Items)
           /\ \A i \in Range(work[p]) : i = Item(p) \/ i \in Range(Tail(work[p]))
<1> DEFINE w == work[p]
<1>1. w \in Seq(Items) /\ w # << >>
  BY DEF ProgramsTyped
<1> HIDE DEF w
<1>2. /\ Head(w) \in Items /\ Tail(w) \in Seq(Items)
      /\ 1 \in DOMAIN w /\ Head(w) = w[1]
  BY <1>1
<1>3. ASSUME NEW k \in DOMAIN w, k # 1
      PROVE  k - 1 \in DOMAIN Tail(w) /\ Tail(w)[k - 1] = w[k]
  BY <1>1, <1>3
<1>4. \A i \in Range(w) : i = Head(w) \/ i \in Range(Tail(w))
  BY ZenonT(30), <1>2, <1>3 DEF Range
<1>5. Head(w) \in Range(w)
  BY <1>2 DEF Range
<1> QED BY <1>2, <1>4, <1>5 DEF w, Item

LEMMA HeadOf ==
    ASSUME NEW s \in Seq(Items), s # << >>
    PROVE  Head(s) \in Range(s)
<1>1. 1 \in DOMAIN s /\ Head(s) = s[1]
  OBVIOUS
<1> QED BY <1>1 DEF Range

(* While no named file changes, names reach the disk and content does.      *)
LEMMA FilesStay ==
    ASSUME Files, NEW S \in SUBSET Items, \A i \in S : dest[i] = "good", Settles(S),
           UNCHANGED dest, \A i \in Items : alias'[i] # "none" => alias[i] # "none",
           dirty' \subseteq dirty
    PROVE  /\ Files'
           /\ \A i \in Items : InPlace(i) => InPlace(i)'
           /\ \A i \in loose' : i \in loose /\ (Excused(i) => Excused(i)')
<1>1. SecondNames'
  BY DEF Files, SecondNames
<1>2. Unsynced'
  BY DEF Files, Unsynced, Settles
<1>3. PublishedIsVerified'
  BY DEF Files, PublishedIsVerified, Settles
<1>4. \A i \in Items : InPlace(i) => InPlace(i)'
  BY DEF InPlace, Excused, Settles
<1>5. \A i \in loose' : i \in loose /\ (Excused(i) => Excused(i)')
  BY DEF Excused, Settles
<1> QED BY <1>1, <1>2, <1>3, <1>4, <1>5 DEF Files

LEMMA NothingSettles ==
    ASSUME UNCHANGED << loose, damaged, torn >>
    PROVE  Settles({})
BY DEF Settles

(* A program that ends, in whatever way, leaves a sound folder if it leaves *)
(* the named files alone.                                                   *)
LEMMA StopKeeps ==
    ASSUME Sound, NEW p \in Programs, at[p] # "idle", Stops(p),
           NEW S \in SUBSET Items, \A i \in S : dest[i] = "good", Settles(S),
           UNCHANGED dest, \A i \in Items : alias'[i] # "none" => alias[i] # "none",
           dirty' \subseteq dirty, FilesTyped',
           Recorded' => Recorded \/ ((\A i \in Items : InPlace(i)) /\ loose \cap Unpacked = {})
    PROVE  Sound'
<1>0. FilesTyped /\ ProgramsTyped /\ Files /\ Handled /\ RecordHolds /\ InstallerAhead
  BY DEF Sound
<1>1. lock = p /\ lock' = "free" /\ "free" \notin Programs
  BY <1>0 DEF ProgramsTyped, Stops, Programs
<1>2. /\ at' = [at EXCEPT ![p] = "idle"] /\ work' = [work EXCEPT ![p] = << >>]
      /\ fix' = [fix EXCEPT ![p] = FALSE]
  BY DEF Stops
<1>3. \A q \in Programs : at'[q] = "idle"
  BY <1>0, <1>2, Alone DEF ProgramsTyped
<1>4. ProgramsTyped'
  <2>1. at' \in [Programs -> Places] /\ fix' \in [Programs -> BOOLEAN]
    BY <1>0, <1>2 DEF ProgramsTyped, Places
  <2>2. work' \in [Programs -> Seq(Items)]
    <3>1. << >> \in Seq(Items)
      OBVIOUS
    <3> QED BY <1>0, <1>2, <3>1 DEF ProgramsTyped
  <2>3. \A q \in Programs : at'[q] # "idle" <=> lock' = q
    BY <1>1, <1>3
  <2>4. \A q \in Programs : at'[q] \in Busy => work'[q] # << >>
    BY <1>3 DEF Busy, Fetching
  <2> QED BY <1>1, <2>1, <2>2, <2>3, <2>4 DEF ProgramsTyped
<1>5. Handled'
  BY <1>3 DEF Handled, Fetching
<1>6. /\ Files' /\ \A i \in Items : InPlace(i) => InPlace(i)'
      /\ \A i \in loose' : i \in loose /\ (Excused(i) => Excused(i)')
  BY <1>0, FilesStay
<1>7. RecordHolds'
  <2>1. CASE Recorded
    BY <1>0, <1>6, <2>1 DEF RecordHolds
  <2>2. CASE ~Recorded
    BY <1>6, <2>2 DEF RecordHolds
  <2> QED BY <2>1, <2>2
<1>8. InstallerAhead'
  BY <1>3 DEF InstallerAhead, Working, Busy, Fetching, Programs
<1> QED BY <1>4, <1>5, <1>6, <1>7, <1>8 DEF Sound

(* A program that goes on with its item.                                    *)
LEMMA GoesOn ==
    ASSUME Sound, NEW p \in Programs, at[p] \in Working, work[p] # << >>,
           NEW to \in Busy, Goes(p, to),
           UNCHANGED << marker, lingers, damaged, torn >>, FilesTyped', Files',
           \A i \in Items : dest[i] = "good" => dest'[i] = "good",
           \A i \in loose' \cap Unpacked : i \in loose \/ (i = Item(p) /\ dest[i] # "good"),
           to \in Fetching => dest'[Item(p)] = "absent" /\ Item(p) \notin Unpacked,
           to = "place" => Item(p) \in Unpacked,
           to \in {"publish", "link"} => part'[Item(p)].ok,
           to \in {"link", "linkPrivate"} => Item(p) \notin dirty',
           to = "unlink" => alias'[Item(p)] # "none",
           to = "settle" => dest'[Item(p)] = "good",
           to \in {"unlink", "settle"} /\ Item(p) \notin Unpacked /\ Recorded =>
              Excused(Item(p))
    PROVE  Sound'
<1>0. FilesTyped /\ ProgramsTyped /\ Handled /\ RecordHolds /\ InstallerAhead
  BY DEF Sound
<1>1. at' = [at EXCEPT ![p] = to] /\ UNCHANGED << lock, fix, work >>
  BY DEF Goes
<1>2. /\ at'[p] = to /\ at[p] # "idle" /\ to # "idle" /\ to \in Places
      /\ \A q \in Programs : q # p => at'[q] = "idle" /\ at[q] = "idle"
  BY <1>0, <1>1, Alone DEF ProgramsTyped, Working, Busy, Fetching, Places
<1>3. ProgramsTyped'
  <2>1. at' \in [Programs -> Places]
    BY <1>0, <1>1, <1>2 DEF ProgramsTyped
  <2>2. \A q \in Programs : at'[q] # "idle" <=> lock' = q
    BY <1>0, <1>1, <1>2 DEF ProgramsTyped
  <2>3. \A q \in Programs : at'[q] \in Busy => work'[q] # << >>
    BY <1>1, <1>2 DEF Busy, Fetching
  <2> QED BY <1>0, <1>1, <2>1, <2>2, <2>3 DEF ProgramsTyped
<1>4. /\ \A i : Excused(i)' <=> Excused(i)
      /\ \A i \in Items : InPlace(i) => InPlace(i)'
      /\ Recorded' <=> Recorded
  BY DEF Excused, InPlace, Recorded
<1>5. Item(p) \in Items /\ Item(p) \in Range(work[p])
  BY <1>0, ItemOf
<1>6. Handled'
  <2>1. \A q \in Programs : Item(q)' = Item(q)
    BY <1>1 DEF Item
  <2>2. ASSUME NEW q \in Programs, at'[q] # "idle"
        PROVE  q = p /\ at'[q] = to
    BY <1>2, <2>2
  <2>3. \A q \in Programs : at'[q] = "settle" => InPlace(Item(q))'
    BY <1>2, <2>1 DEF InPlace
  <2>4. \A q \in Programs : at'[q] \in {"unlink", "settle"} /\ Item(q)' \notin Unpacked
                              /\ Recorded' => Excused(Item(q))'
    BY <1>2, <1>4, <2>1 DEF Excused
  <2>5. \A q \in Programs : at'[q] \in Fetching => dest'[Item(q)'] = "absent"
                                                   /\ Item(q)' \notin Unpacked
    BY <1>2, <2>1 DEF Fetching
  <2>6. \A q \in Programs :
           /\ at'[q] = "place" => Item(q)' \in Unpacked
           /\ at'[q] \in {"publish", "link"} => part'[Item(q)'].ok
           /\ at'[q] \in {"link", "linkPrivate"} => Item(q)' \notin dirty'
           /\ at'[q] = "unlink" => alias'[Item(q)'] # "none"
    BY <1>2, <2>1
  <2> QED BY <2>3, <2>4, <2>5, <2>6 DEF Handled
<1>7. RecordHolds'
  <2>1. ASSUME Recorded, NEW i \in loose' \cap Unpacked
        PROVE  Excused(i)'
    <3>1. CASE i \in loose
      BY <1>0, <1>4, <2>1, <3>1 DEF RecordHolds
    <3>2. CASE i = Item(p) /\ dest[i] # "good"
      BY <1>0, <1>4, <1>5, <2>1, <3>2 DEF RecordHolds, InPlace
    <3> QED BY <3>1, <3>2
  <2>2. Recorded => \A i \in Items : InPlace(i)'
    BY <1>0, <1>4 DEF RecordHolds
  <2> QED BY <1>4, <2>1, <2>2 DEF RecordHolds
<1>8. InstallerAhead'
  <2> SUFFICES ASSUME at'["install"] \in Working
               PROVE  /\ ~marker'
                      /\ \A i \in Items : InPlace(i)' \/ i \in Range(work'["install"])
                      /\ Range(work'["install"]) \cap Unpacked = {} => loose' \cap Unpacked = {}
    BY DEF InstallerAhead
  <2>1. p = "install" /\ at["install"] \in Working
    BY <1>2 DEF Programs, Working, Busy, Fetching
  <2>2. /\ ~marker /\ \A i \in Items : InPlace(i) \/ i \in Range(work[p])
        /\ Range(work[p]) \cap Unpacked = {} => loose \cap Unpacked = {}
    BY <1>0, <2>1 DEF InstallerAhead
  <2>3. Range(work[p]) \cap Unpacked = {} => loose' \cap Unpacked = {}
    BY <1>5, <2>2
  <2> QED BY <1>1, <1>4, <2>1, <2>2, <2>3
<1> QED BY <1>3, <1>6, <1>7, <1>8 DEF Sound

(* A program that goes on to its next item.                                 *)
LEMMA MovesOn ==
    ASSUME Sound, NEW p \in Programs, at[p] \in Working, work[p] # << >>,
           NEW to \in {"item", "place"}, NEW item, item = Item(p),
           work' = [work EXCEPT ![p] = Tail(@)], at' = [at EXCEPT ![p] = to],
           UNCHANGED << lock, fix >>,
           to = "place" => Tail(work[p]) # << >> /\ Head(Tail(work[p])) \in Unpacked,
           UNCHANGED << marker, lingers >>, FilesTyped', Files',
           \A i \in Items : InPlace(i) => InPlace(i)', InPlace(item)',
           Recorded => \A i \in loose' \cap Unpacked : Excused(i)',
           \A i \in loose' : i \in loose \/ i = item,
           to = "item" /\ item \in Unpacked => loose' \cap Unpacked = {}
    PROVE  Sound'
<1>0. FilesTyped /\ ProgramsTyped /\ RecordHolds /\ InstallerAhead
  BY DEF Sound
<1>1. /\ at'[p] = to /\ at[p] # "idle"
      /\ \A q \in Programs : q # p => at'[q] = "idle" /\ at[q] = "idle"
  BY <1>0, Alone DEF ProgramsTyped, Working, Busy, Fetching
<1>2. /\ item \in Items /\ Tail(work[p]) \in Seq(Items)
      /\ \A i \in Range(work[p]) : i = item \/ i \in Range(Tail(work[p]))
  BY <1>0, ItemOf
<1>3. work'[p] = Tail(work[p])
  BY <1>0 DEF ProgramsTyped
<1>4. ProgramsTyped'
  <2>1. at' \in [Programs -> Places]
    BY <1>0 DEF ProgramsTyped, Places
  <2>2. work' \in [Programs -> Seq(Items)]
    BY <1>0, <1>2 DEF ProgramsTyped
  <2>3. \A q \in Programs : at'[q] # "idle" <=> lock' = q
    BY <1>0, <1>1 DEF ProgramsTyped
  <2>4. \A q \in Programs : at'[q] \in Busy => work'[q] # << >>
    BY <1>1, <1>3 DEF Busy, Fetching
  <2> QED BY <1>0, <2>1, <2>2, <2>3, <2>4 DEF ProgramsTyped
<1>5. Handled'
  <2>1. \A q \in Programs : at'[q] = "place" => Item(q)' \in Unpacked
    BY <1>1, <1>3 DEF Item
  <2>2. \A q \in Programs : at'[q] \in {"idle", "item", "place"}
    BY <1>1
  <2> QED BY <2>1, <2>2 DEF Handled, Fetching
<1>6. Recorded' <=> Recorded
  BY DEF Recorded
<1>7. RecordHolds'
  BY <1>0, <1>6 DEF RecordHolds
<1>8. InstallerAhead'
  <2> SUFFICES ASSUME at'["install"] \in Working
               PROVE  /\ ~marker'
                      /\ \A i \in Items : InPlace(i)' \/ i \in Range(work'["install"])
                      /\ Range(work'["install"]) \cap Unpacked = {} => loose' \cap Unpacked = {}
    BY DEF InstallerAhead
  <2>1. p = "install" /\ at["install"] \in Working
    BY <1>1 DEF Programs, Working, Busy, Fetching
  <2>2. /\ ~marker /\ \A i \in Items : InPlace(i) \/ i \in Range(work[p])
        /\ Range(work[p]) \cap Unpacked = {} => loose \cap Unpacked = {}
    BY <1>0, <2>1 DEF InstallerAhead
  <2>3. \A i \in Items : InPlace(i)' \/ i \in Range(Tail(work[p]))
    BY <1>2, <2>2
  <2>4. ASSUME Range(Tail(work[p])) \cap Unpacked = {}
        PROVE  loose' \cap Unpacked = {}
    <3>1. to = "item"
      BY <1>2, <2>4, HeadOf
    <3>2. CASE item \notin Unpacked
      BY <1>2, <2>2, <2>4, <3>2
    <3> QED BY <3>1, <3>2
  <2> QED BY <1>3, <2>1, <2>2, <2>3, <2>4
<1> QED BY <1>4, <1>5, <1>7, <1>8 DEF Sound

(* A program that goes on to the next directory of a wheel or to its end.   *)
LEMMA DirectoryKeeps ==
    ASSUME Sound, NEW p \in Programs, at[p] = "place", NextDirectory(p),
           UNCHANGED << marker, lingers, damaged, torn >>, FilesTyped', Files',
           \A i \in Items : dest[i] = "good" => dest'[i] = "good",
           dest'[Item(p)] = "good",
           \A i \in loose' : i \in loose \/ (i = Item(p) /\ dest[i] # "good")
    PROVE  Sound'
<1>0. ProgramsTyped /\ Handled /\ RecordHolds
  BY DEF Sound
<1>1. at[p] \in Working /\ "settle" \in Busy
  BY DEF Working, Busy
<1>2. work[p] # << >> /\ Item(p) \in Unpacked
  BY <1>0 DEF ProgramsTyped, Handled, Busy
<1>3. Item(p) \in Items
  BY <1>0, <1>2, ItemOf
<1>4. CASE Sibling(p)
  <2>1. PICK item : item = Item(p)
    OBVIOUS
  <2>2. /\ Tail(work[p]) # << >> /\ Head(Tail(work[p])) \in Unpacked
        /\ work' = [work EXCEPT ![p] = Tail(@)] /\ at' = [at EXCEPT ![p] = "place"]
        /\ UNCHANGED << lock, fix >>
    BY <1>4 DEF Sibling, NextDirectory
  <2>3. /\ \A i \in Items : InPlace(i) => InPlace(i)'
        /\ InPlace(item)' /\ \A i : Excused(i) => Excused(i)'
    BY <2>1 DEF InPlace, Excused
  <2>4. ASSUME Recorded, NEW i \in loose' \cap Unpacked
        PROVE  Excused(i)'
    <3>1. CASE i \in loose
      BY <1>0, <2>3, <2>4, <3>1 DEF RecordHolds
    <3>2. CASE i = Item(p) /\ dest[i] # "good"
      BY <1>0, <1>3, <2>3, <2>4, <3>2 DEF RecordHolds, InPlace
    <3> QED BY <3>1, <3>2
  <2>5. \A i \in loose' : i \in loose \/ i = item
    BY <2>1
  <2>6. Recorded => \A i \in loose' \cap Unpacked : Excused(i)'
    BY <2>4
  <2>7. "place" \in {"item", "place"} /\ "place" # "item"
    OBVIOUS
  <2> QED BY <1>1, <1>2, <2>1, <2>2, <2>3, <2>5, <2>6, <2>7, MovesOn
<1>5. CASE ~Sibling(p)
  <2>1. Goes(p, "settle")
    BY <1>5 DEF NextDirectory
  <2>2. "settle" \notin Fetching /\ "settle" \notin {"place", "publish", "link", "linkPrivate", "unlink"}
    BY DEF Fetching
  <2> QED BY <1>1, <1>2, <2>1, <2>2, GoesOn
<1> QED BY <1>4, <1>5

-------------------------------------------------------------------------------
(* The steps. *)
LEMMA NoPartTyped == NoPart \in Part
BY InstallerAssumption DEF NoPart, Part

LEMMA InitSound == Init => Sound
<1> SUFFICES ASSUME Init PROVE Sound
  OBVIOUS
<1>1. << >> \in Seq(Items) /\ "free" \notin Programs
  BY DEF Programs
<1>2. FilesTyped
  BY NoPartTyped DEF FilesTyped, Init
<1>3. ProgramsTyped
  BY <1>1 DEF ProgramsTyped, Init, Places, Busy, Fetching
<1>4. Files /\ Handled /\ RecordHolds /\ InstallerAhead
  BY DEF Init, Files, SecondNames, Unsynced, PublishedIsVerified, Handled, RecordHolds,
         Recorded, InstallerAhead, Working, Busy, Fetching, Programs
<1> QED BY <1>2, <1>3, <1>4 DEF Sound

(* An exception or a signal, and a process that is killed, wherever it hits. *)
LEMMA FailsKeeps ==
    ASSUME Sound, NEW p \in Programs, at[p] # "idle", Fails(p)
    PROVE  Sound'
<1>1. FilesTyped
  BY DEF Sound
<1>2. /\ Stops(p) /\ UNCHANGED << dest, part, dirty, loose, backups, marker, lingers >>
      /\ UNCHANGED << damaged, torn >>
      /\ alias' \in [Items -> {"none", "part", "private"}]
      /\ \A i \in Items : alias'[i] # "none" => alias[i] # "none"
  BY <1>1 DEF Fails, FilesTyped, history
<1>3. FilesTyped'
  BY <1>1, <1>2 DEF FilesTyped
<1>4. Settles({}) /\ (Recorded' <=> Recorded) /\ dirty' \subseteq dirty
  BY <1>2, NothingSettles DEF Recorded
<1> QED BY <1>2, <1>3, <1>4, StopKeeps

LEMMA KilledKeeps ==
    ASSUME Sound, NEW p \in Programs, Killed(p)
    PROVE  Sound'
<1>1. FilesTyped
  BY DEF Sound
<1>2. /\ at[p] # "idle" /\ Stops(p)
      /\ UNCHANGED << dest, part, alias, dirty, loose, backups, marker, lingers >>
      /\ UNCHANGED << damaged, torn >>
  BY DEF Killed, disk, content, history
<1>3. FilesTyped'
  BY <1>1, <1>2 DEF FilesTyped
<1>4. Settles({}) /\ (Recorded' <=> Recorded) /\ dirty' \subseteq dirty
  BY <1>2, NothingSettles DEF Recorded
<1> QED BY <1>2, <1>3, <1>4, StopKeeps

(* A power loss takes names and content that are not on the disk: those of  *)
(* a wheel, those of the file that is being published, and those of files   *)
(* whose publication was broken off before.                                 *)
LEMMA PowerLossKeeps ==
    ASSUME Sound, PowerLoss
    PROVE  Sound'
<1>0. FilesTyped /\ ProgramsTyped /\ Files /\ Handled /\ RecordHolds
  BY DEF Sound
<1>1. PICK garbage \in SUBSET dirty, undone \in SUBSET loose :
        /\ part' = [i \in Items |-> IF i \in garbage THEN [part[i] EXCEPT !.ok = FALSE]
                                    ELSE part[i]]
        /\ dest' = [i \in Items |->
                     IF i \in undone THEN "absent"
                     ELSE IF i \in garbage /\ dest[i] # "absent" THEN "bad" ELSE dest[i]]
        /\ alias' = [i \in Items |-> IF i \in undone THEN "none" ELSE alias[i]]
        /\ torn' = torn \cup (garbage \cap Unpacked)
                        \cup {i \in undone \ Unpacked : ~Publishing(i)}
  BY DEF PowerLoss
<1>2. /\ marker' \in {marker, marker \/ lingers} /\ lingers' = FALSE
      /\ dirty' = {} /\ loose' = {} /\ lock' = "free"
      /\ at' = [p \in Programs |-> "idle"] /\ fix' = [p \in Programs |-> FALSE]
      /\ work' = [p \in Programs |-> << >>] /\ UNCHANGED << backups, damaged >>
  BY DEF PowerLoss
<1>3. garbage \subseteq Items /\ undone \subseteq Items
  BY <1>0 DEF FilesTyped
<1>4. FilesTyped'
  <2>1. \A i \in Items : part[i] \in Part /\ [part[i] EXCEPT !.ok = FALSE] \in Part
    BY ZenonT(30), <1>0 DEF FilesTyped, Part
  <2>2. part' \in [Items -> Part]
    BY <1>1, <2>1
  <2>3. dest' \in [Items -> {"absent", "good", "bad"}]
    BY <1>0, <1>1 DEF FilesTyped
  <2>4. alias' \in [Items -> {"none", "part", "private"}]
    BY <1>0, <1>1 DEF FilesTyped
  <2>5. torn' \in SUBSET Items /\ damaged' \in SUBSET Items
    BY <1>0, <1>1, <1>2, <1>3 DEF FilesTyped
  <2>6. marker' \in BOOLEAN /\ lingers' \in BOOLEAN
    BY <1>0, <1>2 DEF FilesTyped
  <2> QED BY <1>0, <1>2, <2>2, <2>3, <2>4, <2>5, <2>6 DEF FilesTyped
<1>5. ProgramsTyped'
  <2>1. << >> \in Seq(Items) /\ "free" \notin Programs
    BY DEF Programs
  <2> QED BY <1>2, <2>1 DEF ProgramsTyped, Places, Busy, Fetching
<1>6. \A i \in Items :
        /\ i \in undone => dest'[i] = "absent" /\ alias'[i] = "none" /\ dest[i] = "good"
        /\ i \notin undone => alias'[i] = alias[i]
        /\ i \notin undone /\ ~(i \in garbage /\ dest[i] # "absent") => dest'[i] = dest[i]
        /\ i \notin undone /\ i \in garbage /\ dest[i] # "absent" =>
             dest'[i] = "bad" /\ i \in Unpacked
  <2>1. \A i \in undone : dest[i] = "good"
    BY <1>0 DEF Files, Unsynced
  <2>2. \A i \in garbage : dest[i] # "absent" => i \in Unpacked
    BY <1>0 DEF Files, Unsynced
  <2> QED BY <1>1, <2>1, <2>2
<1>7. Files'
  <2>1. SecondNames'
    <3> SUFFICES ASSUME NEW i \in Items, alias'[i] # "none"
                 PROVE  dest'[i] = "good"
      BY <1>2 DEF SecondNames
    <3>1. i \notin undone /\ alias[i] # "none"
      BY <1>6
    <3>2. dest[i] = "good" /\ i \notin garbage
      BY <1>0, <1>1, <3>1 DEF Files, SecondNames
    <3> QED BY <1>6, <3>1, <3>2
  <2>2. Unsynced'
    BY <1>2 DEF Unsynced
  <2>3. PublishedIsVerified'
    <3> SUFFICES ASSUME NEW i \in Items, dest'[i] = "bad"
                 PROVE  i \in damaged' \/ (i \in torn' /\ i \in Unpacked)
      BY DEF PublishedIsVerified
    <3>1. CASE i \in garbage /\ dest[i] # "absent"
      BY <1>1, <1>6, <3>1
    <3>2. CASE ~(i \in garbage /\ dest[i] # "absent")
      <4>1. dest[i] = "bad"
        BY <1>6, <3>2
      <4> QED BY <1>0, <1>1, <1>2, <4>1 DEF Files, PublishedIsVerified
    <3> QED BY <3>1, <3>2
  <2> QED BY <2>1, <2>2, <2>3 DEF Files
<1>8. Handled' /\ InstallerAhead'
  BY <1>2 DEF Handled, InstallerAhead, Working, Busy, Fetching, Programs
<1>9. RecordHolds'
  <2> SUFFICES ASSUME Recorded', NEW i \in Items
               PROVE  InPlace(i)'
    BY <1>2 DEF RecordHolds
  <2>1. Recorded
    BY <1>2 DEF Recorded
  <2>2. InPlace(i) /\ (Excused(i) => Excused(i)')
    BY <1>0, <1>1, <1>2, <2>1 DEF RecordHolds, Excused
  <2>3. CASE i \in undone /\ i \in Unpacked
    BY <1>0, <2>1, <2>2, <2>3 DEF RecordHolds, InPlace
  <2>4. CASE i \in undone /\ i \notin Unpacked
    <3>1. CASE Publishing(i)
      BY <1>0, <2>1, <2>2, <2>4, <3>1 DEF Publishing, Handled, InPlace
    <3>2. CASE ~Publishing(i)
      BY <1>1, <2>4, <3>2 DEF InPlace, Excused
    <3> QED BY <3>1, <3>2
  <2>5. CASE i \notin undone /\ i \in garbage /\ dest[i] # "absent"
    BY <1>1, <1>6, <2>5 DEF InPlace, Excused
  <2>6. CASE i \notin undone /\ ~(i \in garbage /\ dest[i] # "absent")
    BY <1>6, <2>2, <2>6 DEF InPlace
  <2> QED BY <2>3, <2>4, <2>5, <2>6
<1> QED BY <1>4, <1>5, <1>7, <1>8, <1>9 DEF Sound

(* The checks: they find a second name a crash has left, and they stop or   *)
(* make the plan.                                                           *)
LEMMA RecoveredKeeps ==
    ASSUME FilesTyped, Files, NEW chosen \in SUBSET Items, Recovered(chosen),
           UNCHANGED << dest, dirty, backups >>, marker' \in BOOLEAN, lingers' \in BOOLEAN
    PROVE  /\ FilesTyped' /\ \A i \in Items : alias'[i] # "none" => alias[i] # "none"
           /\ \E S \in SUBSET Items : Settles(S) /\ \A i \in S : dest[i] = "good"
<1> DEFINE S == {i \in chosen : alias[i] = "part"}
<1>1. /\ alias' = [i \in Items |-> IF i \in S THEN "none" ELSE alias[i]]
      /\ part' = [i \in Items |-> IF i \in S THEN NoPart ELSE part[i]]
      /\ Settles(S)
  BY DEF Recovered
<1>2. S \in SUBSET Items /\ \A i \in S : dest[i] = "good"
  BY DEF Files, SecondNames
<1> HIDE DEF S
<1>3. /\ part' \in [Items -> Part] /\ alias' \in [Items -> {"none", "part", "private"}]
      /\ \A i \in Items : alias'[i] # "none" => alias[i] # "none"
  BY <1>1, NoPartTyped DEF FilesTyped
<1>4. loose' \in SUBSET Items /\ damaged' \in SUBSET Items /\ torn' \in SUBSET Items
  BY <1>1 DEF Settles, FilesTyped
<1>5. FilesTyped'
  BY <1>3, <1>4 DEF FilesTyped
<1> QED BY <1>1, <1>2, <1>3, <1>5

LEMMA PreflightKeeps ==
    ASSUME Sound, NEW p \in Programs, NEW chosen \in SUBSET Items, Preflight(p, chosen)
    PROVE  Sound'
<1>0. FilesTyped /\ ProgramsTyped /\ Files /\ RecordHolds
  BY DEF Sound
<1>1. /\ at[p] = "preflight" /\ Recovered(chosen)
      /\ IF p = "install" THEN InstallMay(chosen) ELSE RepairMay(chosen)
      /\ UNCHANGED << dest, dirty, backups >>
  BY DEF Preflight
<1>2. /\ Recorded' <=> Recorded
      /\ marker' \in BOOLEAN /\ lingers' \in BOOLEAN
  <2>1. Unmark(p) \/ UNCHANGED << marker, lingers >>
    BY DEF Preflight
  <2>2. marker \in BOOLEAN /\ lingers \in BOOLEAN
    BY <1>0 DEF FilesTyped
  <2>3. CASE Unmark(p)
    <3>1. CASE p = "install"
      BY <2>2, <2>3, <3>1 DEF Unmark, Recorded
    <3>2. CASE p # "install"
      BY <2>2, <2>3, <3>2 DEF Unmark, Recorded
    <3> QED BY <3>1, <3>2
  <2> QED BY <2>1, <2>2, <2>3 DEF Recorded
<1>3. FilesTyped' /\ \A i \in Items : alias'[i] # "none" => alias[i] # "none"
  BY <1>0, <1>1, <1>2, RecoveredKeeps
<1>4. PICK S \in SUBSET Items : Settles(S) /\ \A i \in S : dest[i] = "good"
  BY <1>0, <1>1, <1>2, RecoveredKeeps
<1>5. CASE Stops(p)
  <2>1. dirty' \subseteq dirty /\ at[p] # "idle"
    BY <1>1
  <2> QED BY <1>1, <1>2, <1>3, <1>4, <1>5, <2>1, StopKeeps
<1>6. CASE /\ Unmark(p) /\ at' = [at EXCEPT ![p] = "item"]
           /\ \E plan \in Plans(p, chosen) : work' = [work EXCEPT ![p] = plan]
           /\ UNCHANGED << lock, fix >>
  <2>1. PICK plan \in Plans(p, chosen) : work' = [work EXCEPT ![p] = plan]
    BY <1>6
  <2>2. plan \in Seq(Items) /\ (p = "install" => Range(plan) = Items)
    BY <1>1, PlanForm
  <2>3. /\ at'[p] = "item" /\ \A q \in Programs : q # p => at'[q] = "idle" /\ at[q] = "idle"
    BY <1>0, <1>1, <1>6, Alone DEF ProgramsTyped
  <2>4. p = "install" => ~marker'
    BY <1>6 DEF Unmark
  <2>5. ProgramsTyped'
    <3>1. at' \in [Programs -> Places]
      BY <1>0, <1>6 DEF ProgramsTyped, Places
    <3>2. work' \in [Programs -> Seq(Items)]
      BY <1>0, <2>1, <2>2 DEF ProgramsTyped
    <3>3. \A q \in Programs : at'[q] # "idle" <=> lock' = q
      BY <1>0, <1>1, <1>6, <2>3 DEF ProgramsTyped
    <3>4. \A q \in Programs : at'[q] \notin Busy
      BY <2>3 DEF Busy, Fetching
    <3> QED BY <1>0, <1>6, <3>1, <3>2, <3>3, <3>4 DEF ProgramsTyped
  <2>6. Handled'
    BY <2>3 DEF Handled, Fetching
  <2>7. /\ Files' /\ \A i \in Items : InPlace(i) => InPlace(i)'
        /\ \A i \in loose' : i \in loose /\ (Excused(i) => Excused(i)')
    BY <1>0, <1>1, <1>3, <1>4, FilesStay
  <2>8. RecordHolds'
    BY <1>0, <1>2, <2>7 DEF RecordHolds
  <2>9. InstallerAhead'
    <3>1. CASE p = "install"
      <4>1. Range(work'["install"]) = Items
        BY <1>0, <2>1, <2>2, <3>1 DEF ProgramsTyped
      <4>2. Items \cap Unpacked = {} => loose' \cap Unpacked = {}
        BY DEF Items
      <4> QED BY <2>4, <3>1, <4>1, <4>2 DEF InstallerAhead
    <3>2. CASE p # "install"
      BY <2>3, <3>2 DEF InstallerAhead, Working, Busy, Fetching, Programs
    <3> QED BY <3>1, <3>2
  <2> QED BY <1>3, <2>5, <2>6, <2>7, <2>8, <2>9 DEF Sound
<1>7. \/ Stops(p)
      \/ /\ Unmark(p) /\ at' = [at EXCEPT ![p] = "item"]
         /\ \E plan \in Plans(p, chosen) : work' = [work EXCEPT ![p] = plan]
         /\ UNCHANGED << lock, fix >>
  BY ONLY Zenon, Preflight(p, chosen) DEF Preflight
<1> QED BY <1>5, <1>6, <1>7

(* One item.                                                                *)
LEMMA LooksAt ==
    ASSUME Sound, NEW p \in Programs, Looks(p)
    PROVE  /\ work[p] # << >> /\ Item(p) \in Items /\ at[p] \in {"item", "place"}
           /\ at[p] \in Working /\ (at[p] = "place" <=> Item(p) \in Unpacked)
<1>1. ProgramsTyped
  BY DEF Sound
<1>2. work[p] # << >> /\ at[p] = IF Item(p) \in Unpacked THEN "place" ELSE "item"
  BY DEF Looks
<1> QED BY <1>1, <1>2, ItemOf DEF Working, Busy

LEMMA SettledGood ==
    ASSUME Sound, NEW p \in Programs
    PROVE  Settled(p) \in SUBSET Items /\ \A i \in Settled(p) : i \in loose /\ dest[i] = "good"
BY DEF Sound, FilesTyped, Files, Unsynced, Settled

LEMMA QuarantineKeeps ==
    ASSUME Sound, NEW p \in Programs, Quarantine(p)
    PROVE  Sound'
<1>0. FilesTyped /\ ProgramsTyped /\ Files /\ Handled /\ RecordHolds /\ InstallerAhead
  BY DEF Sound
<1>1. /\ Looks(p) /\ dest[Item(p)] = "bad"
      /\ dest' = [dest EXCEPT ![Item(p)] = "absent"]
      /\ backups' = [backups EXCEPT ![Item(p)] = @ + 1]
      /\ dirty' = IF Item(p) \in Unpacked THEN dirty \ {Item(p)} ELSE dirty
      /\ Settles(Settled(p))
      /\ UNCHANGED << part, alias, marker, lingers, lock, at, fix, work >>
  BY DEF Quarantine, Quarantined, program, SyncDirectory
<1>2. /\ work[p] # << >> /\ Item(p) \in Items /\ at[p] \in {"item", "place"}
      /\ at[p] \in Working /\ (at[p] = "place" <=> Item(p) \in Unpacked)
  BY <1>1, LooksAt
<1>3. \A q \in Programs : q # p => at[q] = "idle"
  BY <1>0, <1>2, Alone
<1>4. PICK item : item = Item(p)
  OBVIOUS
<1>5. PICK S : S = Settled(p)
  OBVIOUS
<1>6. /\ S \in SUBSET Items /\ \A i \in S : dest[i] = "good"
      /\ loose' = loose \ S /\ damaged' = damaged \ S /\ torn' = torn \ S
  BY <1>1, <1>5, SettledGood DEF Settles
<1>7. /\ dest' \in [Items -> {"absent", "good", "bad"}] /\ dest'[item] = "absent"
      /\ dest[item] = "bad" /\ item \in Items
      /\ \A i \in Items : i # item => dest'[i] = dest[i]
  BY <1>0, <1>1, <1>2, <1>4 DEF FilesTyped
<1>8. FilesTyped'
  <2>1. backups' \in [Items -> Nat]
    BY <1>0, <1>1, <1>2 DEF FilesTyped
  <2>2. dirty' \in SUBSET Items
    BY <1>0, <1>1 DEF FilesTyped
  <2> QED BY <1>0, <1>1, <1>6, <1>7, <2>1, <2>2 DEF FilesTyped
<1>9. ProgramsTyped'
  BY <1>0, <1>1 DEF ProgramsTyped
<1>10. Files'
  <2>1. SecondNames'
    BY <1>0, <1>1, <1>7 DEF Files, SecondNames
  <2>2. Unsynced'
    <3>1. \A i \in loose' : i \in loose /\ i \in Items /\ i # item
      BY <1>0, <1>6, <1>7 DEF Files, Unsynced, FilesTyped
    <3>2. \A i \in dirty' \ Unpacked : i \in dirty /\ i \in Items
      BY <1>0, <1>1 DEF FilesTyped
    <3> QED BY <1>0, <1>7, <3>1, <3>2 DEF Files, Unsynced
  <2>3. PublishedIsVerified'
    BY <1>0, <1>6, <1>7 DEF Files, PublishedIsVerified
  <2> QED BY <2>1, <2>2, <2>3 DEF Files
<1>11. Handled'
  <2>1. \A q \in Programs : at'[q] \in {"idle", "item", "place"}
    BY <1>1, <1>2, <1>3
  <2>2. \A q \in Programs : Item(q)' = Item(q)
    BY <1>1 DEF Item
  <2> QED BY <1>0, <1>1, <2>1, <2>2 DEF Handled, Fetching
<1>12. Excused(item)' /\ \A i \in Items : InPlace(i) => InPlace(i)'
  <2>1. Excused(item)'
    BY <1>0, <1>6, <1>7 DEF Files, PublishedIsVerified, Excused
  <2>2. \A i \in Items : i # item /\ InPlace(i) => InPlace(i)'
    BY <1>6, <1>7 DEF InPlace, Excused
  <2> QED BY <2>1, <2>2 DEF InPlace
<1>13. RecordHolds'
  <2>1. Recorded' <=> Recorded
    BY <1>1 DEF Recorded
  <2>2. \A i \in loose' : i \in loose /\ (Excused(i) => Excused(i)')
    BY <1>6 DEF Excused
  <2> QED BY <1>0, <1>12, <2>1, <2>2 DEF RecordHolds
<1>14. InstallerAhead'
  BY <1>0, <1>1, <1>6, <1>12 DEF InstallerAhead
<1> QED BY <1>8, <1>9, <1>10, <1>11, <1>13, <1>14 DEF Sound

LEMMA KeepKeeps ==
    ASSUME Sound, NEW p \in Programs, Keep(p)
    PROVE  Sound'
<1>0. FilesTyped /\ Files /\ RecordHolds
  BY DEF Sound
<1>1. /\ Looks(p) /\ dest[Item(p)] = "good" /\ Done(p)
      /\ UNCHANGED << dest, part, alias, dirty, loose, backups, marker, lingers >>
      /\ UNCHANGED << damaged, torn >>
  BY DEF Keep, disk, content, history
<1>2. /\ work[p] # << >> /\ Item(p) \in Items /\ at[p] \in Working
      /\ (at[p] = "place" <=> Item(p) \in Unpacked)
  BY <1>1, LooksAt
<1>3. FilesTyped'
  BY <1>0, <1>1 DEF FilesTyped
<1>4. Files'
  BY <1>0, <1>1 DEF Files, SecondNames, Unsynced, PublishedIsVerified
<1>5. CASE Item(p) \in Unpacked
  <2>1. NextDirectory(p) /\ at[p] = "place"
    BY <1>1, <1>2, <1>5 DEF Done
  <2>2. /\ \A i \in Items : dest[i] = "good" => dest'[i] = "good"
        /\ dest'[Item(p)] = "good" /\ \A i \in loose' : i \in loose
    BY <1>1
  <2> QED BY <1>1, <1>3, <1>4, <2>1, <2>2, DirectoryKeeps
<1>6. CASE Item(p) \notin Unpacked
  <2>1. PICK item : item = Item(p)
    OBVIOUS
  <2>2. /\ work' = [work EXCEPT ![p] = Tail(@)] /\ at' = [at EXCEPT ![p] = "item"]
        /\ UNCHANGED << lock, fix >>
    BY <1>1, <1>6 DEF Done, Advance
  <2>3. /\ \A i \in Items : InPlace(i) => InPlace(i)'
        /\ InPlace(item)' /\ \A i : Excused(i) => Excused(i)'
    BY <1>1, <2>1 DEF InPlace, Excused
  <2>4. Recorded => \A i \in loose' \cap Unpacked : Excused(i)'
    BY <1>0, <1>1, <2>3 DEF RecordHolds
  <2>5. /\ \A i \in loose' : i \in loose \/ i = item
        /\ "item" \in {"item", "place"} /\ "item" # "place" /\ item \notin Unpacked
    BY <1>1, <1>6, <2>1
  <2> QED BY <1>1, <1>2, <1>3, <1>4, <2>1, <2>2, <2>3, <2>4, <2>5, MovesOn
<1> QED BY <1>5, <1>6

(* A wheel is unpacked, one directory after the other.                      *)
LEMMA UnpackKeeps ==
    ASSUME Sound, NEW p \in Programs, Unpack(p)
    PROVE  Sound'
<1>0. FilesTyped /\ Files
  BY DEF Sound
<1>1. /\ at[p] = "item" /\ work[p] # << >> /\ Item(p) \in Unpacked
      /\ Goes(p, "place") \/ Stops(p)
      /\ UNCHANGED << dest, part, alias, dirty, loose, backups, marker, lingers >>
      /\ UNCHANGED << damaged, torn >>
  BY DEF Unpack, disk, content, history
<1>2. FilesTyped'
  BY <1>0, <1>1 DEF FilesTyped
<1>3. Files'
  BY <1>0, <1>1 DEF Files, SecondNames, Unsynced, PublishedIsVerified
<1>4. CASE Goes(p, "place")
  <2>1. "place" \in Busy /\ "place" \notin Fetching /\ at[p] \in Working
    BY <1>1 DEF Busy, Fetching, Working
  <2> QED BY <1>1, <1>2, <1>3, <1>4, <2>1, GoesOn
<1>5. CASE Stops(p)
  <2>1. Settles({}) /\ (Recorded' <=> Recorded) /\ dirty' \subseteq dirty
    BY <1>1, NothingSettles DEF Recorded
  <2> QED BY <1>1, <1>2, <1>5, <2>1, StopKeeps
<1> QED BY <1>1, <1>4, <1>5

LEMMA PlaceKeeps ==
    ASSUME Sound, NEW p \in Programs, Place(p)
    PROVE  Sound'
<1>0. FilesTyped /\ ProgramsTyped /\ Files /\ Handled
  BY DEF Sound
<1>1. /\ at[p] = "place" /\ dest[Item(p)] = "absent" /\ NextDirectory(p)
      /\ dest' = [dest EXCEPT ![Item(p)] = "good"]
      /\ dirty' = dirty \cup {Item(p)} /\ loose' = loose \cup {Item(p)}
      /\ UNCHANGED << part, alias, backups, marker, lingers, damaged, torn >>
  BY DEF Place, history
<1>2. work[p] # << >> /\ Item(p) \in Unpacked
  BY <1>0, <1>1 DEF ProgramsTyped, Handled, Busy
<1>3. Item(p) \in Items
  BY <1>0, <1>2, ItemOf
<1>4. PICK item : item = Item(p)
  OBVIOUS
<1>5. /\ dest' \in [Items -> {"absent", "good", "bad"}] /\ dest'[item] = "good"
      /\ dest[item] = "absent" /\ \A i \in Items : i # item => dest'[i] = dest[i]
  BY <1>0, <1>1, <1>3, <1>4 DEF FilesTyped
<1>6. FilesTyped'
  BY <1>0, <1>1, <1>3, <1>5 DEF FilesTyped
<1>7. Files'
  <2>1. SecondNames'
    BY <1>0, <1>1, <1>4, <1>5 DEF Files, SecondNames
  <2>2. Unsynced'
    <3>1. \A i \in loose' : i = item \/ (i \in loose /\ i \in Items)
      BY <1>0, <1>1, <1>4 DEF FilesTyped
    <3>2. \A i \in dirty' \ Unpacked : i # item /\ i \in dirty /\ i \in Items
      BY <1>0, <1>1, <1>2, <1>4 DEF FilesTyped
    <3> QED BY <1>0, <1>5, <3>1, <3>2 DEF Files, Unsynced
  <2>3. PublishedIsVerified'
    BY <1>0, <1>1, <1>5 DEF Files, PublishedIsVerified
  <2> QED BY <2>1, <2>2, <2>3 DEF Files
<1>8. \A i \in Items : dest[i] = "good" => dest'[i] = "good"
  BY <1>5
<1>9. dest'[Item(p)] = "good" /\ \A i \in loose' : i \in loose \/ (i = Item(p) /\ dest[i] # "good")
  BY <1>1, <1>4, <1>5
<1> QED BY <1>1, <1>6, <1>7, <1>8, <1>9, DirectoryKeeps

(* Fetching a file.  Neither its .part nor its private copy has the name of *)
(* the file yet.                                                            *)
LEMMA OpenKeeps ==
    ASSUME Sound, NEW p \in Programs, Open(p) \/ Copy(p)
    PROVE  Sound'
<1>0. FilesTyped /\ ProgramsTyped /\ Files
  BY DEF Sound
<1>1. /\ at[p] = "item" /\ work[p] # << >> /\ dest[Item(p)] = "absent"
      /\ UNCHANGED << dest, alias, loose, backups, marker, lingers, damaged, torn >>
      /\ part' = part \/ part' = [part EXCEPT ![Item(p)] = NoPart]
      /\ dirty' = dirty \/ dirty' = dirty \ {Item(p)}
      /\ Item(p) \notin Unpacked
  BY InstallerAssumption DEF Open, Copy, Truncates, history
<1>2. Item(p) \in Items
  BY <1>0, <1>1, ItemOf
<1>3. part' \in [Items -> Part]
  BY <1>0, <1>1, <1>2, NoPartTyped DEF FilesTyped
<1>4. PICK to \in {"publish", "download", "copy"} :
         Goes(p, to) /\ (to = "publish" => part'[Item(p)].ok)
  <2>1. \/ Goes(p, "publish") /\ part'[Item(p)].ok
        \/ Goes(p, "download")
        \/ Goes(p, "copy")
    BY DEF Open, Copy
  <2> QED BY <2>1
<1>5. FilesTyped'
  BY <1>0, <1>1, <1>3 DEF FilesTyped
<1>6. Files'
  BY <1>0, <1>1 DEF Files, SecondNames, Unsynced, PublishedIsVerified
<1>7. at[p] \in Working /\ to \in Busy /\ to \notin {"link", "linkPrivate", "unlink", "place", "settle"}
  BY <1>1 DEF Working, Busy, Fetching
<1> QED BY <1>1, <1>4, <1>5, <1>6, <1>7, GoesOn

LEMMA ChunkKeeps ==
    ASSUME Sound, NEW p \in Programs, Chunk(p)
    PROVE  Sound'
<1>0. FilesTyped /\ ProgramsTyped /\ Files /\ Handled /\ RecordHolds /\ InstallerAhead
  BY DEF Sound
<1>1. /\ at[p] \in {"download", "copy"} /\ part[Item(p)].len < Size
      /\ \/ part' = [part EXCEPT ![Item(p)].len = @ + 1]
         \/ part' = [part EXCEPT ![Item(p)] = [len |-> @.len + 1, ok |-> FALSE]]
      /\ dirty' = dirty \cup {Item(p)}
      /\ UNCHANGED << dest, alias, loose, backups, marker, lingers, damaged, torn >>
      /\ UNCHANGED << lock, at, fix, work >>
  BY DEF Chunk, program, history
<1>2. work[p] # << >>
  BY <1>0, <1>1 DEF ProgramsTyped, Busy, Fetching
<1>3. Item(p) \in Items
  BY <1>0, <1>2, ItemOf
<1>4. dest[Item(p)] = "absent"
  BY <1>0, <1>1 DEF Handled, Fetching
<1>5. \A q \in Programs : q # p => at[q] = "idle"
  BY <1>0, <1>1, Alone
<1>6. part' \in [Items -> Part]
  <2>1. /\ part[Item(p)] \in Part /\ part[Item(p)].len + 1 \in 0..Size
        /\ part \in [Items -> Part]
    BY <1>0, <1>1, <1>3, InstallerAssumption DEF FilesTyped, Part
  <2>2. [part[Item(p)] EXCEPT !.len = @ + 1] \in Part
    BY <2>1 DEF Part
  <2>3. [len |-> part[Item(p)].len + 1, ok |-> FALSE] \in Part
    BY <2>1 DEF Part
  <2> QED BY <1>1, <1>3, <2>1, <2>2, <2>3
<1>7. FilesTyped'
  BY <1>0, <1>1, <1>3, <1>6 DEF FilesTyped
<1>8. ProgramsTyped'
  BY <1>0, <1>1 DEF ProgramsTyped
<1>9. Files'
  <2>1. SecondNames'
    BY <1>0, <1>1, <1>4 DEF Files, SecondNames
  <2>2. Unsynced' /\ PublishedIsVerified'
    BY <1>0, <1>1, <1>4 DEF Files, Unsynced, PublishedIsVerified
  <2> QED BY <2>1, <2>2 DEF Files
<1>10. Handled'
  <2>1. \A q \in Programs : at'[q] \in {"idle", "download", "copy"}
    BY <1>1, <1>5
  <2>2. \A q \in Programs : Item(q)' = Item(q)
    BY <1>1 DEF Item
  <2> QED BY <1>0, <1>1, <2>1, <2>2 DEF Handled
<1>11. RecordHolds' /\ InstallerAhead'
  BY <1>0, <1>1 DEF RecordHolds, InstallerAhead, Recorded, InPlace, Excused
<1> QED BY <1>7, <1>8, <1>9, <1>10, <1>11 DEF Sound

LEMMA VerifyKeeps ==
    ASSUME Sound, NEW p \in Programs, Verify(p)
    PROVE  Sound'
<1>0. FilesTyped /\ ProgramsTyped /\ Files /\ Handled
  BY DEF Sound
<1>1. /\ at[p] \in {"download", "copy"} /\ dirty' \subseteq dirty
      /\ IF part[Item(p)].ok THEN Goes(p, "publish") ELSE Stops(p)
      /\ UNCHANGED << dest, part, alias, loose, backups, marker, lingers, damaged, torn >>
  BY DEF Verify, content, history
<1>2. work[p] # << >> /\ at[p] \in Working
  BY <1>0, <1>1 DEF ProgramsTyped, Busy, Fetching, Working
<1>3. FilesTyped'
  BY <1>0, <1>1 DEF FilesTyped
<1>4. CASE part[Item(p)].ok
  <2>1. "publish" \in Busy /\ dest[Item(p)] = "absent" /\ Item(p) \notin Unpacked
    BY <1>0, <1>1 DEF Busy, Fetching, Handled
  <2>2. Files'
    BY <1>0, <1>1 DEF Files, SecondNames, Unsynced, PublishedIsVerified
  <2>3. Goes(p, "publish") /\ part'[Item(p)].ok
    BY <1>1, <1>4
  <2> QED BY <1>1, <1>2, <1>3, <2>1, <2>2, <2>3, GoesOn
<1>5. CASE ~part[Item(p)].ok
  <2>1. Settles({}) /\ (Recorded' <=> Recorded)
    BY <1>1, NothingSettles DEF Recorded
  <2> QED BY <1>1, <1>3, <1>5, <2>1, StopKeeps
<1> QED BY <1>4, <1>5

LEMMA GenerateKeeps ==
    ASSUME Sound, NEW p \in Programs, Make(p) \/ Restore(p)
    PROVE  Sound'
<1>0. FilesTyped /\ Files
  BY DEF Sound
<1>1. /\ at[p] = "item" /\ work[p] # << >> /\ Item(p) = Generated /\ dest[Generated] = "absent"
      /\ UNCHANGED << dest, part, alias, loose, backups, marker, lingers, damaged, torn >>
      /\ \/ Goes(p, "private") /\ dirty' = dirty \cup {Generated}
         \/ Stops(p) /\ dirty' = dirty
  BY DEF Make, Restore, InPrivate, ToolFails, NoSource, content, history
<1>2. Generated \in Items /\ Generated \notin Unpacked
  BY InstallerAssumption DEF Items
<1>3. FilesTyped'
  BY <1>0, <1>1, <1>2 DEF FilesTyped
<1>4. CASE Goes(p, "private") /\ dirty' = dirty \cup {Generated}
  <2>1. Files'
    BY <1>0, <1>1, <1>2, <1>4 DEF Files, SecondNames, Unsynced, PublishedIsVerified
  <2>2. "private" \in Busy /\ at[p] \in Working
    BY <1>1 DEF Busy, Fetching, Working
  <2> QED BY <1>1, <1>2, <1>3, <1>4, <2>1, <2>2, GoesOn
<1>5. CASE Stops(p) /\ dirty' = dirty
  <2>1. Settles({}) /\ (Recorded' <=> Recorded)
    BY <1>1, NothingSettles DEF Recorded
  <2> QED BY <1>1, <1>3, <1>5, <2>1, StopKeeps
<1> QED BY <1>1, <1>4, <1>5

(* publish(): first the content reaches the disk, then it gets its name,    *)
(* then the other name goes, then the name reaches the disk.                *)
LEMMA SyncKeeps ==
    ASSUME Sound, NEW p \in Programs, Sync(p)
    PROVE  Sound'
<1>0. FilesTyped /\ ProgramsTyped /\ Files /\ Handled
  BY DEF Sound
<1> DEFINE to == IF at[p] = "private" THEN "linkPrivate" ELSE "link"
<1>1. /\ at[p] \in {"publish", "private"} /\ dirty' = dirty \ {Item(p)} /\ Goes(p, to)
      /\ UNCHANGED << dest, part, alias, loose, backups, marker, lingers, damaged, torn >>
  BY DEF Sync, Synced, content, history
<1>2. work[p] # << >> /\ at[p] \in Working
  BY <1>0, <1>1 DEF ProgramsTyped, Busy, Fetching, Working
<1>3. FilesTyped'
  BY <1>0, <1>1 DEF FilesTyped
<1>4. to \in Busy /\ to \in {"link", "linkPrivate"} /\ (to = "link" => at[p] = "publish")
  BY <1>1 DEF Busy, Fetching
<1>5. /\ dest[Item(p)] = "absent" /\ Item(p) \notin Unpacked
      /\ at[p] = "publish" => part[Item(p)].ok
  BY <1>0, <1>1 DEF Handled, Fetching
<1>6. Files'
  BY <1>0, <1>1 DEF Files, SecondNames, Unsynced, PublishedIsVerified
<1>7. Item(p) \notin dirty'
  BY <1>1
<1> HIDE DEF to
<1> QED BY <1>1, <1>2, <1>3, <1>4, <1>5, <1>6, <1>7, GoesOn

LEMMA LinkKeeps ==
    ASSUME Sound, NEW p \in Programs, Link(p)
    PROVE  Sound'
<1>0. FilesTyped /\ ProgramsTyped /\ Files /\ Handled /\ RecordHolds
  BY DEF Sound
<1> DEFINE i == Item(p)
<1>1. /\ at[p] \in {"link", "linkPrivate"} /\ dest[i] = "absent" /\ Goes(p, "unlink")
      /\ alias' = [alias EXCEPT ![i] = IF at[p] = "link" THEN "part" ELSE "private"]
      /\ loose' = loose \cup {i}
      /\ UNCHANGED << part, dirty, backups, marker, lingers, damaged, torn >>
      /\ dest' = [dest EXCEPT ![i] = IF at[p] = "linkPrivate" \/ part[i].ok
                                     THEN "good" ELSE "bad"]
  BY DEF Link, history
<1>2. work[p] # << >> /\ at[p] \in Working /\ "unlink" \in Busy /\ "unlink" \notin Fetching
  BY <1>0, <1>1 DEF ProgramsTyped, Busy, Fetching, Working
<1>3. i \in Items
  BY <1>0, <1>2, ItemOf
<1>4. (at[p] = "linkPrivate" \/ part[i].ok) /\ i \notin dirty /\ i \notin Unpacked
  BY <1>0, <1>1 DEF Handled, Fetching
<1>5. Recorded => Excused(i)
  BY <1>0, <1>1, <1>3 DEF RecordHolds, InPlace
<1> HIDE DEF i
<1>6. dest' = [dest EXCEPT ![i] = "good"]
  BY <1>1, <1>4
<1>7. /\ dest' \in [Items -> {"absent", "good", "bad"}] /\ dest'[i] = "good"
      /\ \A j \in Items : j # i => dest'[j] = dest[j]
  BY <1>0, <1>3, <1>6 DEF FilesTyped
<1>8. /\ alias' \in [Items -> {"none", "part", "private"}] /\ alias'[i] # "none"
      /\ \A j \in Items : j # i => alias'[j] = alias[j]
  BY <1>0, <1>1, <1>3 DEF FilesTyped
<1>9. FilesTyped'
  BY <1>0, <1>1, <1>3, <1>7, <1>8 DEF FilesTyped
<1>10. Files'
  <2>1. SecondNames'
    BY <1>0, <1>1, <1>4, <1>7, <1>8 DEF Files, SecondNames
  <2>2. Unsynced'
    <3>1. \A j \in loose' : j = i \/ (j \in loose /\ j \in Items)
      BY <1>0, <1>1 DEF FilesTyped
    <3>2. \A j \in dirty' \ Unpacked : j # i /\ j \in dirty /\ j \in Items
      BY <1>0, <1>1, <1>4 DEF FilesTyped
    <3> QED BY <1>0, <1>7, <3>1, <3>2 DEF Files, Unsynced
  <2>3. PublishedIsVerified'
    BY <1>0, <1>1, <1>7 DEF Files, PublishedIsVerified
  <2> QED BY <2>1, <2>2, <2>3 DEF Files
<1>11. \A j \in Items : dest[j] = "good" => dest'[j] = "good"
  BY <1>7
<1>12. \A j \in loose' \cap Unpacked : j \in loose
  BY <1>1, <1>4
<1>13. /\ alias'[Item(p)] # "none" /\ Item(p) \notin Unpacked
       /\ Recorded => Excused(Item(p))
  BY <1>4, <1>5, <1>8 DEF i
<1> QED BY <1>1, <1>2, <1>9, <1>10, <1>11, <1>12, <1>13, GoesOn

LEMMA UnlinkKeeps ==
    ASSUME Sound, NEW p \in Programs, Unlink(p)
    PROVE  Sound'
<1>0. FilesTyped /\ ProgramsTyped /\ Files /\ Handled
  BY DEF Sound
<1>1. /\ at[p] = "unlink" /\ alias' = [alias EXCEPT ![Item(p)] = "none"]
      /\ part' = IF alias[Item(p)] = "part" THEN [part EXCEPT ![Item(p)] = NoPart] ELSE part
      /\ Goes(p, "settle")
      /\ UNCHANGED << dest, dirty, loose, backups, marker, lingers, damaged, torn >>
  BY DEF Unlink, history
<1>2. /\ work[p] # << >> /\ at[p] \in Working
      /\ "settle" \in Busy /\ "settle" \notin Fetching
  BY <1>0, <1>1 DEF ProgramsTyped, Busy, Fetching, Working
<1>3. Item(p) \in Items
  BY <1>0, <1>2, ItemOf
<1>4. /\ dest'[Item(p)] = "good"
      /\ Item(p) \notin Unpacked /\ Recorded => Excused(Item(p))
  <2>1. dest[Item(p)] = "good"
    BY <1>0, <1>1, <1>3 DEF Handled, Files, SecondNames
  <2>2. Item(p) \notin Unpacked /\ Recorded => Excused(Item(p))
    BY <1>0, <1>1 DEF Handled
  <2> QED BY <1>1, <2>1, <2>2
<1>5. part' \in [Items -> Part]
  BY <1>0, <1>1, <1>3, NoPartTyped DEF FilesTyped
<1>6. /\ alias' \in [Items -> {"none", "part", "private"}]
      /\ \A i \in Items : alias'[i] # "none" => alias[i] # "none"
  BY <1>0, <1>1, <1>3 DEF FilesTyped
<1>7. FilesTyped'
  BY <1>0, <1>1, <1>5, <1>6 DEF FilesTyped
<1>8. Files'
  BY <1>0, <1>1, <1>6 DEF Files, SecondNames, Unsynced, PublishedIsVerified
<1> QED BY <1>1, <1>2, <1>4, <1>7, <1>8, GoesOn

LEMMA SettleKeeps ==
    ASSUME Sound, NEW p \in Programs, Settle(p)
    PROVE  Sound'
<1>0. FilesTyped /\ ProgramsTyped /\ Files /\ Handled /\ RecordHolds
  BY DEF Sound
<1>1. /\ at[p] = "settle" /\ Settles(Settled(p)) /\ Advance(p)
      /\ UNCHANGED << dest, part, alias, dirty, backups, marker, lingers >>
  BY DEF Settle, SyncDirectory, content
<1>2. work[p] # << >> /\ at[p] \in Working
  BY <1>0, <1>1 DEF ProgramsTyped, Busy, Working
<1>3. PICK item : item = Item(p)
  OBVIOUS
<1>4. PICK S : S = Settled(p)
  OBVIOUS
<1>5. /\ S \in SUBSET Items /\ \A i \in S : dest[i] = "good"
      /\ Settles(S)
  BY <1>1, <1>4, SettledGood
<1>6. FilesTyped'
  BY <1>0, <1>1, <1>5 DEF FilesTyped, Settles
<1>7. /\ Files' /\ \A i \in Items : InPlace(i) => InPlace(i)'
      /\ \A i \in loose' : i \in loose /\ (Excused(i) => Excused(i)')
  BY <1>0, <1>1, <1>5, FilesStay
<1>8. item \in Items /\ InPlace(item)
  BY <1>0, <1>1, <1>2, <1>3, ItemOf DEF Handled
<1>9. /\ work' = [work EXCEPT ![p] = Tail(@)] /\ at' = [at EXCEPT ![p] = "item"]
      /\ UNCHANGED << lock, fix >>
  BY <1>1 DEF Advance
<1>10. Recorded => \A i \in loose' \cap Unpacked : Excused(i)'
  BY <1>0, <1>7 DEF RecordHolds
<1>11. item \in Unpacked => loose' \cap Unpacked = {}
  BY <1>3, <1>4, <1>5 DEF Settled, Settles
<1>12. /\ InPlace(item)' /\ \A i \in loose' : i \in loose \/ i = item
       /\ "item" \in {"item", "place"} /\ "item" # "place"
  BY <1>7, <1>8
<1> QED BY <1>1, <1>2, <1>3, <1>6, <1>7, <1>9, <1>10, <1>11, <1>12, MovesOn

LEMMA FinishKeeps ==
    ASSUME Sound, NEW p \in Programs, Finish(p)
    PROVE  Sound'
<1>0. FilesTyped /\ InstallerAhead
  BY DEF Sound
<1>1. /\ at[p] = "item" /\ work[p] = << >> /\ marker' = (marker \/ p = "install")
      /\ lingers' = (lingers /\ p # "install")
      /\ Stops(p) /\ UNCHANGED << dest, part, alias, dirty, loose, backups, damaged, torn >>
  BY DEF Finish, AllDone, content, history
<1>2. p = "install" => (\A i \in Items : InPlace(i)) /\ loose \cap Unpacked = {}
  <2>1. ASSUME p = "install"
        PROVE  Range(work["install"]) = {} /\ at["install"] \in Working
    BY <1>1, <2>1 DEF Working, Range
  <2> QED BY <1>0, <2>1 DEF InstallerAhead
<1>3. p # "install" => (Recorded' <=> Recorded)
  BY <1>1 DEF Recorded
<1>4. marker' \in BOOLEAN /\ lingers' \in BOOLEAN
  <2>1. marker \in BOOLEAN /\ lingers \in BOOLEAN
    BY <1>0 DEF FilesTyped
  <2> QED BY ONLY Zenon, <1>1, <2>1
<1>5. FilesTyped'
  BY <1>0, <1>1, <1>4 DEF FilesTyped
<1>6. Settles({}) /\ dirty' \subseteq dirty /\ at[p] # "idle"
  BY <1>1, NothingSettles
<1> QED BY <1>1, <1>2, <1>3, <1>5, <1>6, StopKeeps

(* The start of a program, and what others do to the files.                 *)
LEMMA StartKeeps ==
    ASSUME Sound, NEW p \in Programs, NEW f \in BOOLEAN, Start(p, f)
    PROVE  Sound'
<1>0. FilesTyped /\ ProgramsTyped /\ Files /\ RecordHolds
  BY DEF Sound
<1>1. /\ lock = "free" /\ lock' = p /\ at' = [at EXCEPT ![p] = "preflight"]
      /\ fix' = [fix EXCEPT ![p] = f]
      /\ UNCHANGED << dest, part, alias, dirty, loose, backups, marker, lingers >>
      /\ UNCHANGED << damaged, torn, work >>
  BY DEF Start, LockFree, disk, content, history
<1>2. \A q \in Programs : at[q] = "idle"
  BY <1>0, <1>1 DEF ProgramsTyped, Programs
<1>3. /\ at'[p] = "preflight" /\ at' \in [Programs -> Places]
      /\ \A q \in Programs : q # p => at'[q] = "idle"
  BY <1>0, <1>1, <1>2 DEF ProgramsTyped, Places
<1>4. fix' \in [Programs -> BOOLEAN]
  BY <1>0, <1>1 DEF ProgramsTyped
<1>5. ProgramsTyped'
  BY <1>0, <1>1, <1>3, <1>4 DEF ProgramsTyped, Busy, Fetching
<1>6. Handled'
  BY <1>3 DEF Handled, Fetching
<1>7. InstallerAhead'
  BY <1>3 DEF InstallerAhead, Working, Busy, Fetching, Programs
<1>8. FilesTyped' /\ Files' /\ RecordHolds'
  BY <1>0, <1>1 DEF FilesTyped, Files, SecondNames, Unsynced, PublishedIsVerified,
                    RecordHolds, Recorded, InPlace, Excused
<1> QED BY <1>5, <1>6, <1>7, <1>8 DEF Sound

LEMMA DamageKeeps ==
    ASSUME Sound, NEW i \in Items, Damage(i)
    PROVE  Sound'
<1>0. FilesTyped /\ ProgramsTyped /\ Files /\ Handled /\ RecordHolds /\ InstallerAhead
  BY DEF Sound
<1>1. PICK to \in {"bad", "absent"} : dest' = [dest EXCEPT ![i] = to]
  BY DEF Damage
<1>2. /\ dest[i] = "good" /\ alias[i] = "none" /\ i \notin loose /\ damaged' = damaged \cup {i}
      /\ UNCHANGED << part, alias, dirty, loose, backups, marker, lingers, torn >>
      /\ UNCHANGED << lock, at, fix, work >>
  BY DEF Damage, program
<1>3. /\ dest' \in [Items -> {"absent", "good", "bad"}]
      /\ \A j \in Items : j # i => dest'[j] = dest[j]
  BY <1>0, <1>1 DEF FilesTyped
<1>4. FilesTyped' /\ ProgramsTyped'
  BY <1>0, <1>2, <1>3 DEF FilesTyped, ProgramsTyped
<1>5. /\ \A j : Excused(j) => Excused(j)'
      /\ \A j \in Items : InPlace(j) => InPlace(j)'
      /\ Recorded' <=> Recorded
  BY <1>2, <1>3 DEF Excused, InPlace, Recorded
<1>6. Files'
  <2>1. SecondNames'
    BY <1>0, <1>2, <1>3 DEF Files, SecondNames
  <2>2. Unsynced'
    <3>1. \A j \in loose : j # i /\ j \in Items
      BY <1>0, <1>2 DEF FilesTyped
    <3>2. \A j \in dirty \ Unpacked : j # i /\ j \in Items
      BY <1>0, <1>2 DEF Files, Unsynced, FilesTyped
    <3> QED BY <1>0, <1>2, <1>3, <3>1, <3>2 DEF Files, Unsynced
  <2>3. PublishedIsVerified'
    BY <1>0, <1>2, <1>3 DEF Files, PublishedIsVerified
  <2> QED BY <2>1, <2>2, <2>3 DEF Files
<1>7. Handled'
  <2>1. \A q \in Programs : Item(q)' = Item(q)
    BY <1>2 DEF Item
  <2>2. ASSUME NEW q \in Programs, at[q] \in Busy
        PROVE  Item(q) \in Items
    BY <1>0, <2>2, ItemOf DEF ProgramsTyped
  <2>3. ASSUME NEW q \in Programs, at[q] \in Fetching
        PROVE  dest'[Item(q)] = "absent" /\ Item(q) \notin Unpacked
    <3>1. dest[Item(q)] = "absent" /\ Item(q) \notin Unpacked /\ Item(q) \in Items
      BY <1>0, <2>2, <2>3 DEF Handled, Busy
    <3> QED BY <1>2, <1>3, <3>1
  <2>4. ASSUME NEW q \in Programs, at[q] = "settle"
        PROVE  InPlace(Item(q))'
    <3>1. InPlace(Item(q)) /\ Item(q) \in Items
      BY <1>0, <2>2, <2>4 DEF Handled, Busy
    <3> QED BY <1>2, <1>3, <2>1, <3>1 DEF InPlace, Excused
  <2>5. ASSUME NEW q \in Programs, at[q] \in {"unlink", "settle"}, Item(q) \notin Unpacked, Recorded
        PROVE  Excused(Item(q))'
    <3>1. Excused(Item(q))
      BY <1>0, <2>5 DEF Handled
    <3> QED BY <1>2, <2>1, <3>1 DEF Excused
  <2>6. \A q \in Programs :
           /\ at'[q] = "place" => Item(q)' \in Unpacked
           /\ at'[q] \in {"publish", "link"} => part'[Item(q)'].ok
           /\ at'[q] \in {"link", "linkPrivate"} => Item(q)' \notin dirty'
           /\ at'[q] = "unlink" => alias'[Item(q)'] # "none"
    BY <1>0, <1>2, <2>1 DEF Handled
  <2> QED BY <1>2, <1>5, <2>1, <2>3, <2>4, <2>5, <2>6 DEF Handled
<1>8. RecordHolds'
  BY <1>0, <1>2, <1>5 DEF RecordHolds
<1>9. InstallerAhead'
  BY <1>0, <1>2, <1>5 DEF InstallerAhead
<1> QED BY <1>4, <1>6, <1>7, <1>8, <1>9 DEF Sound

LEMMA StutterKeeps == Sound /\ UNCHANGED vars => Sound'
BY DEF vars, disk, program, content, history, Sound, FilesTyped, ProgramsTyped, Files,
       Handled, SecondNames, Unsynced, PublishedIsVerified, RecordHolds, Recorded,
       InstallerAhead, InPlace, Excused, Item

LEMMA SoundStep == Sound /\ [Next]_vars => Sound'
<1> SUFFICES ASSUME Sound, [Next]_vars PROVE Sound'
  OBVIOUS
<1>1. ASSUME NEW p \in Programs, Acts(p) PROVE Sound'
  <2>1. ASSUME NEW chosen \in SUBSET Items, Preflight(p, chosen) PROVE Sound'
    BY <2>1, PreflightKeeps
  <2>2. CASE Keep(p)
    BY <2>2, KeepKeeps
  <2>3. CASE Refuse(p)
    <3>1. at[p] # "idle" /\ Fails(p)
      BY <2>3, LooksAt DEF Refuse
    <3> QED BY <3>1, FailsKeeps
  <2>4. CASE Quarantine(p)
    BY <2>4, QuarantineKeeps
  <2>5. CASE Unpack(p)
    BY <2>5, UnpackKeeps
  <2>6. CASE Place(p)
    BY <2>6, PlaceKeeps
  <2>7. CASE Open(p) \/ Copy(p)
    BY <2>7, OpenKeeps
  <2>8. CASE Chunk(p)
    BY <2>8, ChunkKeeps
  <2>9. CASE Verify(p)
    BY <2>9, VerifyKeeps
  <2>10. CASE Make(p) \/ Restore(p)
    BY <2>10, GenerateKeeps
  <2>11. CASE Sync(p)
    BY <2>11, SyncKeeps
  <2>12. CASE Link(p)
    BY <2>12, LinkKeeps
  <2>13. CASE Unlink(p)
    BY <2>13, UnlinkKeeps
  <2>14. CASE Settle(p)
    BY <2>14, SettleKeeps
  <2>15. CASE Finish(p)
    BY <2>15, FinishKeeps
  <2> QED BY <1>1, <2>1, <2>2, <2>3, <2>4, <2>5, <2>6, <2>7, <2>8, <2>9, <2>10, <2>11,
             <2>12, <2>13, <2>14, <2>15 DEF Acts
<1>2. ASSUME NEW p \in Programs, Cancelled(p) PROVE Sound'
  BY <1>2, FailsKeeps DEF Cancelled
<1>3. ASSUME NEW p \in Programs, Killed(p) PROVE Sound'
  BY <1>3, KilledKeeps
<1>4. CASE PowerLoss
  BY <1>4, PowerLossKeeps
<1>5. ASSUME NEW p \in Programs, NEW f \in BOOLEAN, Start(p, f) PROVE Sound'
  BY <1>5, StartKeeps
<1>6. ASSUME NEW i \in Items, Damage(i) PROVE Sound'
  BY <1>6, DamageKeeps
<1> QED BY <1>1, <1>2, <1>3, <1>4, <1>5, <1>6, StutterKeeps DEF Next

LEMMA SpecSound == Spec => []Sound
<1>1. Init => Sound
  BY InitSound
<1>2. Sound /\ [Next]_vars => Sound'
  BY SoundStep
<1> QED BY <1>1, <1>2, PTL DEF Spec

-------------------------------------------------------------------------------
(* What the installer promises. *)

(* The state has its type, whatever happens: the lock is held by the        *)
(* program that is at work and by no other.                                 *)
THEOREM InstallerTyped == Spec => []TypeOK
<1>1. Sound => TypeOK
  BY DEF Sound, FilesTyped, ProgramsTyped, Files, SecondNames, Part, TypeOK
<1> QED BY <1>1, SpecSound, PTL

(* A download or a generated model holds content that matched its checksum  *)
(* when it got its name, or somebody else has changed it since: publish()   *)
(* links only what was verified and what is on the disk.  The directories   *)
(* of a wheel, which are never synced (install_desktop.py:225-256), may     *)
(* also have been torn by a power loss.                                     *)
THEOREM OnlyVerifiedIsPublished == Spec => []PublishedIsVerified
<1>1. Sound => PublishedIsVerified
  BY DEF Sound, Files
<1> QED BY <1>1, SpecSound, PTL

(* While installed.json is there, every file of the manifests is good but   *)
(* those somebody else has damaged and those a power loss has taken: torn   *)
(* directories of a wheel, and names whose publication was broken off       *)
(* before their directory was synced.  This holds also when a power loss    *)
(* brings back a record that was removed without a sync                     *)
(* (install_desktop.py:546).                                                *)
THEOREM RecordMeansReady == Spec => []MarkerMeansReady
<1>1. Sound => MarkerMeansReady
  BY DEF Sound, RecordHolds, Recorded, InPlace, Excused, MarkerMeansReady
<1> QED BY <1>1, SpecSound, PTL

(* A changed file leaves its name only when quarantine() renames it to a    *)
(* backup, in a program that was started to repair and holds the lock.      *)
LEMMA OnlyQuarantine ==
    ASSUME Sound, [Next]_vars, NEW i \in Items, dest[i] = "bad", dest'[i] # "bad"
    PROVE  \E p \in Programs : Quarantine(p) /\ Item(p) = i
<1>0. FilesTyped /\ Files
  BY DEF Sound
<1>1. dest' # dest
  OBVIOUS
<1>2. ASSUME NEW p \in Programs, Acts(p)
      PROVE  Quarantine(p) /\ Item(p) = i
  <2>1. Quarantine(p) \/ Place(p) \/ Link(p)
    BY <1>1, <1>2 DEF Acts, Preflight, Keep, Refuse, Fails, Unpack, Open, Copy, Chunk, Verify,
                      Make, Restore, Sync, Unlink, Settle, Finish, disk, content
  <2>2. ASSUME NEW v, dest' = [dest EXCEPT ![Item(p)] = v] PROVE Item(p) = i
    BY <1>0, <2>2 DEF FilesTyped
  <2>3. ASSUME NEW v, dest' = [dest EXCEPT ![Item(p)] = v], dest[Item(p)] = "absent"
        PROVE  FALSE
    BY <2>2, <2>3
  <2> QED BY <2>1, <2>2, <2>3 DEF Quarantine, Place, Link
<1>3. ASSUME NEW p \in Programs, Cancelled(p) PROVE FALSE
  BY <1>1, <1>3 DEF Cancelled, Fails
<1>4. ASSUME NEW p \in Programs, Killed(p) PROVE FALSE
  BY <1>1, <1>4 DEF Killed, disk, content
<1>5. ASSUME PowerLoss PROVE FALSE
  <2>1. PICK garbage \in SUBSET dirty, undone \in SUBSET loose :
          dest' = [j \in Items |->
                    IF j \in undone THEN "absent"
                    ELSE IF j \in garbage /\ dest[j] # "absent" THEN "bad" ELSE dest[j]]
    BY <1>5 DEF PowerLoss
  <2>2. i \notin undone
    BY <1>0 DEF Files, Unsynced
  <2> QED BY <2>1, <2>2
<1>6. ASSUME NEW p \in Programs, NEW f \in BOOLEAN, Start(p, f) PROVE FALSE
  BY <1>1, <1>6 DEF Start, disk, content
<1>7. ASSUME NEW j \in Items, Damage(j) PROVE FALSE
  BY <1>0, <1>7 DEF Damage, FilesTyped
<1> QED BY <1>1, <1>2, <1>3, <1>4, <1>5, <1>6, <1>7 DEF Next, vars, disk, content

(* No step removes or overwrites a file somebody has changed: it is set     *)
(* aside under another name, and only when a repair was asked for.          *)
THEOREM ChangedAreKept == Spec => ChangedFilesAreKept
<1>1. ASSUME Sound, [Next]_vars, NEW i \in Items, dest[i] = "bad", dest'[i] # "bad"
      PROVE  backups'[i] = backups[i] + 1 /\ lock # "free" /\ fix[lock]
  <2>0. FilesTyped /\ ProgramsTyped
    BY <1>1 DEF Sound
  <2>1. PICK p \in Programs : Quarantine(p) /\ Item(p) = i
    BY <1>1, OnlyQuarantine
  <2>2. /\ Looks(p) /\ fix[p]
        /\ backups' = [backups EXCEPT ![i] = @ + 1]
    BY <2>1 DEF Quarantine, Quarantined
  <2>3. backups'[i] = backups[i] + 1
    BY <2>0, <2>2 DEF FilesTyped
  <2>4. at[p] # "idle"
    BY <1>1, <2>2, LooksAt
  <2>5. lock = p /\ "free" \notin Programs
    BY <2>0, <2>4 DEF ProgramsTyped, Programs
  <2> QED BY <2>2, <2>3, <2>5
<1>2. Sound /\ [Next]_vars =>
        [\A i \in Items : dest[i] = "bad" /\ dest'[i] # "bad" =>
            /\ backups'[i] = backups[i] + 1
            /\ lock # "free" /\ fix[lock]]_vars
  BY <1>1
<1> QED BY <1>2, SpecSound, PTL DEF Spec, ChangedFilesAreKept
===============================================================================
