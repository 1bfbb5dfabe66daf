------------------------------- MODULE Installer -------------------------------
(***************************************************************************)
(* The installer of the desktop app and the repair of its models           *)
(* (scripts/install_desktop.py, scripts/model_manager.py): two programs    *)
(* that share one folder of assets, and that can be cancelled, killed or   *)
(* lose power between any two steps on the file system.                    *)
(*                                                                         *)
(* A file is a number of chunks that match its checksum or do not.  An     *)
(* item is a download, a directory of a wheel, or the one generated model. *)
(*                                                                         *)
(* Content is on the disk when its file was synced, a name when its        *)
(* directory was.  A power loss keeps or takes whatever is not there yet;  *)
(* a process that is killed takes nothing with it.                         *)
(***************************************************************************)
EXTENDS Integers, Sequences, FiniteSets, SequencesExt

CONSTANTS
    Downloads,  \* assets and wheels of the manifests, in their order
    Packages,   \* directories that are unpacked from wheels, in their order
    Wheel,      \* Wheel[i]: the download that directory i is in
    Generated,  \* the generated model
    Source,     \* the download it is made from
    Wheels,     \* downloads the repair tool does not know
    Size,       \* chunks of a download
    MaxFaults   \* bound on kills, power losses, cancellations, failing calls,
                \* wrong chunks, and files changed or deleted by others

Assets   == Range(Downloads)
Unpacked == Range(Packages)
Items    == Assets \cup Unpacked \cup {Generated}

ASSUME InstallerAssumption ==
    /\ Downloads \in Seq(Assets) /\ Packages \in Seq(Unpacked)
    /\ Wheel \in [Unpacked -> Wheels]
    /\ Source \in Assets \ Wheels /\ Wheels \subseteq Assets
    /\ Generated \notin Assets \cup Unpacked /\ Assets \cap Unpacked = {}
    /\ Size \in Nat \ {0} /\ MaxFaults \in Nat

Programs == {"install", "repair"}

VARIABLES
    dest,       \* dest[i]: "absent", "good" or "bad" content under its name
    part,       \* part[i]: chunks of the .part file, and whether they match
    alias,      \* alias[i]: second name of dest[i]: "none", "part" or "private"
    dirty,      \* items whose content may not be on the disk
    loose,      \* items whose name may not be on the disk
    backups,    \* backups[i]: files that quarantine() has kept
    marker,     \* installed.json exists
    lingers,    \* it was removed, but may still be on the disk
    lock,       \* holder of .install.lock, "free" if there is none
    at,         \* at[p]: what program p does next
    fix,        \* fix[p]: repair_corrupt
    work,       \* work[p]: items p has still to install
    damaged,    \* history: files changed by others and not yet restored
    torn,       \* history: items lost to a power loss and not yet restored
    faults

content == << dest, part, alias >>
history == << damaged, torn >>
disk == << content, dirty, loose, backups, marker, lingers, history >>
program == << lock, at, fix, work >>

vars == << disk, program, faults >>

NoPart == [len |-> 0, ok |-> TRUE]

Init ==
    /\ dest = [i \in Items |-> "absent"] /\ part = [i \in Items |-> NoPart]
    /\ alias = [i \in Items |-> "none"] /\ dirty = {} /\ loose = {}
    /\ backups = [i \in Items |-> 0] /\ marker = FALSE /\ lingers = FALSE
    /\ damaged = {} /\ torn = {}
    /\ lock = "free" /\ at = [p \in Programs |-> "idle"]
    /\ fix = [p \in Programs |-> FALSE] /\ work = [p \in Programs |-> << >>]
    /\ faults = 0

Item(p) == Head(work[p])
Goes(p, to) == at' = [at EXCEPT ![p] = to] /\ UNCHANGED << lock, fix, work >>
Counts == faults < MaxFaults /\ faults' = faults + 1

-------------------------------------------------------------------------------
(* The end of a program. *)

Stops(p) ==
    /\ lock' = IF lock = p THEN "free" ELSE lock
    /\ at' = [at EXCEPT ![p] = "idle"] /\ work' = [work EXCEPT ![p] = << >>]
    /\ fix' = [fix EXCEPT ![p] = FALSE]

(* An exception, or a signal: a private directory is removed, a .part stays. *)
Fails(p) ==
    /\ Stops(p)
    /\ alias' = [i \in Items |->
                   IF alias[i] = "private" /\ at[p] = "unlink" /\ Item(p) = i
                   THEN "none" ELSE alias[i]]
    /\ UNCHANGED << dest, part, dirty, loose, backups, marker, lingers, history >>

Cancelled(p) == at[p] # "idle" /\ Counts /\ Fails(p)

Killed(p) == at[p] # "idle" /\ Counts /\ Stops(p) /\ UNCHANGED disk

Publishing(i) == \E p \in Programs : at[p] \in {"unlink", "settle"} /\ Item(p) = i

(* Files that were not synced may be garbage, and names may be gone whose   *)
(* directory was not synced: that of the file that is being published, or   *)
(* of one whose publication was broken off before.                          *)
PowerLoss ==
    /\ Counts
    /\ \E garbage \in SUBSET dirty, undone \in SUBSET loose :
         /\ part' = [i \in Items |-> IF i \in garbage THEN [part[i] EXCEPT !.ok = FALSE]
                                     ELSE part[i]]
         /\ dest' = [i \in Items |->
                      IF i \in undone THEN "absent"
                      ELSE IF i \in garbage /\ dest[i] # "absent" THEN "bad" ELSE dest[i]]
         /\ alias' = [i \in Items |-> IF i \in undone THEN "none" ELSE alias[i]]
         /\ torn' = torn \cup (garbage \cap Unpacked)
                         \cup {i \in undone \ Unpacked : ~Publishing(i)}
    /\ marker' \in {marker, marker \/ lingers}
    /\ dirty' = {} /\ loose' = {} /\ lingers' = FALSE
    /\ lock' = "free" /\ at' = [p \in Programs |-> "idle"]
    /\ fix' = [p \in Programs |-> FALSE] /\ work' = [p \in Programs |-> << >>]
    /\ UNCHANGED << backups, damaged >>

-------------------------------------------------------------------------------
(* The start of a program. *)

LockFree == lock = "free"

(* install_lock(): whoever does not get it gives up. *)
Start(p, f) ==
    /\ at[p] = "idle" /\ LockFree /\ lock' = p
    /\ f \/ p = "install"
    /\ at' = [at EXCEPT ![p] = "preflight"] /\ fix' = [fix EXCEPT ![p] = f]
    /\ UNCHANGED << disk, work, faults >>

(* What each program may be asked for, and its work in its order: the       *)
(* installer everything, in the order of the manifests; the repair tool     *)
(* models in the order they were asked for, the generated one with its      *)
(* source and after all others.                                             *)
InstallMay(chosen) == chosen = Items \ Unpacked
InstallPlan == Downloads \o Packages \o << Generated >>
RepairMay(chosen) ==
    /\ chosen # {} /\ chosen \cap (Wheels \cup Unpacked) = {}
    /\ Generated \in chosen => Source \in chosen
RepairPlans(chosen) ==
    {q \o (IF Generated \in chosen THEN << Generated >> ELSE << >>) :
        q \in SetToSeqs(chosen \ {Generated})}
Plans(p, chosen) == IF p = "install" THEN {InstallPlan} ELSE RepairPlans(chosen)

(* These names are on the disk, whatever has happened to them before.       *)
Settles(names) ==
    loose' = loose \ names /\ damaged' = damaged \ names /\ torn' = torn \ names

(* recover_publication(): a second name is removed if it is the .part file, *)
(* and the directory is synced.                                             *)
Recovered(chosen) ==
    LET both == {i \in chosen : alias[i] = "part"}
    IN /\ alias' = [i \in Items |-> IF i \in both THEN "none" ELSE alias[i]]
       /\ part' = [i \in Items |-> IF i \in both THEN NoPart ELSE part[i]]
       /\ Settles(both)

(* Files that regular_file() refuses. *)
Irregular(i) == alias[i] = "private"

Refuses(p, chosen) ==
    \E i \in chosen : Irregular(i) /\ (p = "repair" \/ i # Generated)

(* The installer takes installed.json away, without a sync of its directory. *)
Unmark(p) ==
    /\ marker' = (marker /\ p # "install")
    /\ lingers' = (lingers \/ (marker /\ p = "install"))

(* The checks before anything is changed. *)
Preflight(p, chosen) ==
    /\ at[p] = "preflight" /\ Recovered(chosen)
    /\ IF p = "install" THEN InstallMay(chosen) ELSE RepairMay(chosen)
    /\ UNCHANGED << dest, dirty, backups >>
    /\ \/ /\ ~Refuses(p, chosen) /\ Unmark(p) /\ UNCHANGED faults
          /\ at' = [at EXCEPT ![p] = "item"]
          /\ \E plan \in Plans(p, chosen) : work' = [work EXCEPT ![p] = plan]
          /\ UNCHANGED << lock, fix >>
       \/ Refuses(p, chosen) /\ Stops(p) /\ UNCHANGED << marker, lingers, faults >>
       \/ Counts /\ Stops(p) /\ UNCHANGED << marker, lingers >>  \* no space

-------------------------------------------------------------------------------
(* One item: what is there is kept, reported, or set aside. *)

Advance(p) ==
    /\ work' = [work EXCEPT ![p] = Tail(@)] /\ at' = [at EXCEPT ![p] = "item"]
    /\ UNCHANGED << lock, fix >>

(* install_wheel() has verified the wheel before it looks at a directory.   *)
Looks(p) ==
    /\ work[p] # << >>
    /\ at[p] = IF Item(p) \in Unpacked THEN "place" ELSE "item"

Sibling(p) ==
    /\ Tail(work[p]) # << >> /\ Head(Tail(work[p])) \in Unpacked
    /\ Wheel[Head(Tail(work[p]))] = Wheel[Item(p)]

(* The next directory of the wheel, or the end of the wheel: its directory  *)
(* is synced, whatever was placed.                                          *)
NextDirectory(p) ==
    IF Sibling(p)
    THEN /\ work' = [work EXCEPT ![p] = Tail(@)] /\ at' = [at EXCEPT ![p] = "place"]
         /\ UNCHANGED << lock, fix >>
    ELSE Goes(p, "settle")

Done(p) == IF Item(p) \in Unpacked THEN NextDirectory(p) ELSE Advance(p)

(* sync_directory(): of a file, or of the directories of the wheels.        *)
Settled(p) == loose \cap (IF Item(p) \in Unpacked THEN Unpacked ELSE {Item(p)})

SyncDirectory(p) == Settles(Settled(p))

Keep(p) ==
    /\ Looks(p) /\ dest[Item(p)] = "good" /\ ~Irregular(Item(p))
    /\ Done(p) /\ UNCHANGED << disk, faults >>

Refuse(p) ==
    /\ Looks(p)
    /\ Irregular(Item(p)) \/ (dest[Item(p)] = "bad" /\ ~fix[p])
    /\ Fails(p) /\ UNCHANGED << faults >>

(* Mutant: the file is removed instead of kept under another name. *)
Removed(i) == UNCHANGED backups

Quarantined(i) == backups' = [backups EXCEPT ![i] = @ + 1]

(* The file is still reported as damaged, until it is restored.  What was   *)
(* not on the disk of a directory goes with it.                             *)
Quarantine(p) ==
    /\ Looks(p) /\ dest[Item(p)] = "bad" /\ fix[p] /\ ~Irregular(Item(p))
    /\ dest' = [dest EXCEPT ![Item(p)] = "absent"] /\ Quarantined(Item(p))
    /\ dirty' = IF Item(p) \in Unpacked THEN dirty \ {Item(p)} ELSE dirty
    /\ SyncDirectory(p)
    /\ UNCHANGED << part, alias, marker, lingers, program, faults >>

(* install_wheel(): the wheel is verified again and unpacked ...            *)
Unpack(p) ==
    /\ at[p] = "item" /\ work[p] # << >> /\ Item(p) \in Unpacked
    /\ LET from == Wheel[Item(p)]
       IN IF dest[from] = "good" /\ ~Irregular(from) THEN Goes(p, "place") ELSE Stops(p)
    /\ UNCHANGED << disk, faults >>

(* ... and a directory is renamed to its place.  Its files are not synced.  *)
Place(p) ==
    /\ at[p] = "place" /\ dest[Item(p)] = "absent"
    /\ dest' = [dest EXCEPT ![Item(p)] = "good"]
    /\ dirty' = dirty \cup {Item(p)} /\ loose' = loose \cup {Item(p)}
    /\ NextDirectory(p)
    /\ UNCHANGED << part, alias, backups, marker, lingers, history, faults >>

-------------------------------------------------------------------------------
(* Fetching a file into its .part, with what is there already if the server *)
(* can resume.                                                              *)

(* Mutant: a complete but wrong .part is not started again. *)
OffsetKept(i) == part[i].len

Offset(i) == IF part[i].len >= Size THEN 0 ELSE part[i].len

Truncates(i) == part' = [part EXCEPT ![i] = NoPart] /\ dirty' = dirty \ {i}

Open(p) ==
    /\ at[p] = "item" /\ work[p] # << >> /\ dest[Item(p)] = "absent"
    /\ Item(p) \in Assets
    /\ IF part[Item(p)].len >= Size /\ part[Item(p)].ok
       THEN Goes(p, "publish") /\ UNCHANGED << part, dirty >>
       ELSE /\ Goes(p, "download")
            /\ \/ Offset(Item(p)) > 0 /\ UNCHANGED << part, dirty >>
               \/ Truncates(Item(p))
    /\ UNCHANGED << dest, alias, loose, backups, marker, lingers, history, faults >>

(* A verified file of another workspace is copied. *)
Copy(p) ==
    /\ at[p] = "item" /\ work[p] # << >> /\ dest[Item(p)] = "absent" /\ p = "install"
    /\ Item(p) \notin Unpacked
    /\ Goes(p, "copy") /\ Truncates(Item(p))
    /\ UNCHANGED << dest, alias, loose, backups, marker, lingers, history, faults >>

(* One chunk; the wrong one is a fault. *)
Chunk(p) ==
    /\ at[p] \in {"download", "copy"} /\ part[Item(p)].len < Size
    /\ \/ part' = [part EXCEPT ![Item(p)].len = @ + 1] /\ UNCHANGED faults
       \/ part' = [part EXCEPT ![Item(p)] = [len |-> @.len + 1, ok |-> FALSE]] /\ Counts
    /\ dirty' = dirty \cup {Item(p)}
    /\ UNCHANGED << dest, alias, loose, backups, marker, lingers, history, program >>

(* The stream ended; a download is on the disk before it is verified. *)
Verify(p) ==
    /\ at[p] \in {"download", "copy"} /\ part[Item(p)].len >= Size
    /\ dirty' = IF at[p] = "download" THEN dirty \ {Item(p)} ELSE dirty
    /\ IF part[Item(p)].ok THEN Goes(p, "publish") ELSE Stops(p)
    /\ UNCHANGED << content, loose, backups, marker, lingers, history, faults >>

(* The generated model is made in a private directory from a good source:   *)
(* by a tool of the installed runtime, which may fail or take too long and  *)
(* is then killed with all its children (run_child), ...                    *)
ToolFails(p) == Counts /\ Stops(p) /\ UNCHANGED dirty
InPrivate(p) ==
    /\ Goes(p, "private") /\ dirty' = dirty \cup {Generated} /\ UNCHANGED faults
NoSource(p) == dest[Source] # "good" /\ Stops(p) /\ UNCHANGED << dirty, faults >>
Make(p) ==
    /\ at[p] = "item" /\ work[p] # << >> /\ p = "install"
    /\ Item(p) = Generated /\ dest[Generated] = "absent"
    /\ (dest[Source] = "good" /\ (InPrivate(p) \/ ToolFails(p))) \/ NoSource(p)
    /\ UNCHANGED << content, loose, backups, marker, lingers, history >>

(* ... or in the repair tool by the one byte that differs (restore_generated). *)
Restore(p) ==
    /\ at[p] = "item" /\ work[p] # << >> /\ p = "repair"
    /\ Item(p) = Generated /\ dest[Generated] = "absent"
    /\ (dest[Source] = "good" /\ InPrivate(p)) \/ NoSource(p)
    /\ UNCHANGED << content, loose, backups, marker, lingers, history >>

-------------------------------------------------------------------------------
(* publish(): sync the file, link it to its name, remove the other name,    *)
(* sync the directory.                                                      *)

(* Mutant: the content is not brought to the disk. *)
NotSynced(i) == dirty

Synced(i) == dirty \ {i}

Sync(p) ==
    /\ at[p] \in {"publish", "private"}
    /\ dirty' = Synced(Item(p))
    /\ Goes(p, IF at[p] = "private" THEN "linkPrivate" ELSE "link")
    /\ UNCHANGED << content, loose, backups, marker, lingers, history, faults >>

Link(p) ==
    /\ at[p] \in {"link", "linkPrivate"}
    /\ dest[Item(p)] = "absent"
    /\ LET verified == at[p] = "linkPrivate" \/ part[Item(p)].ok
       IN dest' = [dest EXCEPT ![Item(p)] = IF verified THEN "good" ELSE "bad"]
    /\ loose' = loose \cup {Item(p)}
    /\ alias' = [alias EXCEPT ![Item(p)] = IF at[p] = "link" THEN "part" ELSE "private"]
    /\ Goes(p, "unlink")
    /\ UNCHANGED << part, dirty, backups, marker, lingers, history, faults >>

Unlink(p) ==
    /\ at[p] = "unlink" /\ alias' = [alias EXCEPT ![Item(p)] = "none"]
    /\ part' = IF alias[Item(p)] = "part" THEN [part EXCEPT ![Item(p)] = NoPart] ELSE part
    /\ Goes(p, "settle")
    /\ UNCHANGED << dest, dirty, loose, backups, marker, lingers, history, faults >>

Settle(p) ==
    /\ at[p] = "settle" /\ SyncDirectory(p) /\ Advance(p)
    /\ UNCHANGED << content, dirty, backups, marker, lingers, faults >>

(* Mutant: installed.json is written before the runtime is prepared. *)
ModelsDone(p) == Range(work[p]) \cap Assets = {}

AllDone(p) == work[p] = << >>

(* Everything is in place; the runtime starts, so installed.json is written *)
(* and its directory is synced.                                             *)
Finish(p) ==
    /\ at[p] = "item" /\ AllDone(p)
    /\ marker' = (marker \/ p = "install") /\ lingers' = (lingers /\ p # "install")
    /\ Stops(p)
    /\ UNCHANGED << content, dirty, loose, backups, history, faults >>

(* Somebody changes or deletes an installed file. *)
Damage(i) ==
    /\ dest[i] = "good" /\ alias[i] = "none" /\ i \notin loose
    /\ Counts /\ damaged' = damaged \cup {i}
    /\ \E to \in {"bad", "absent"} : dest' = [dest EXCEPT ![i] = to]
    /\ UNCHANGED << part, alias, dirty, loose, backups, marker, lingers, torn, program >>

-------------------------------------------------------------------------------
Acts(p) ==
    \/ \E chosen \in SUBSET Items : Preflight(p, chosen)
    \/ Keep(p) \/ Refuse(p) \/ Quarantine(p) \/ Unpack(p) \/ Place(p)
    \/ Open(p) \/ Copy(p) \/ Chunk(p) \/ Verify(p) \/ Make(p) \/ Restore(p)
    \/ Sync(p) \/ Link(p) \/ Unlink(p) \/ Settle(p) \/ Finish(p)

Next ==
    \/ \E p \in Programs : Acts(p) \/ Cancelled(p) \/ Killed(p)
    \/ PowerLoss
    \/ \E p \in Programs, f \in BOOLEAN : Start(p, f)
    \/ \E i \in Items : Damage(i)

(* A program that was started goes on, and the user keeps retrying with     *)
(* Repair and Retry.                                                        *)
Fairness ==
    /\ \A p \in Programs : WF_vars(Acts(p))
    /\ SF_vars(Start("install", TRUE))

Spec == Init /\ [][Next]_vars

FairSpec == Spec /\ Fairness

-------------------------------------------------------------------------------
(* What makes it correct. *)

TypeOK ==
    /\ dest \in [Items -> {"absent", "good", "bad"}]
    /\ alias \in [Items -> {"none", "part", "private"}]
    /\ \A i \in Items : part[i].len \in 0..Size
    /\ \A i \in Items : alias[i] # "none" => dest[i] # "absent"
    /\ lock \in Programs \cup {"free"}
    /\ \A p \in Programs : at[p] # "idle" <=> lock = p
    /\ dirty \subseteq Items /\ loose \subseteq Items
    /\ damaged \subseteq Items /\ torn \subseteq Items

(* Only verified content gets a name of the manifest, whatever the server   *)
(* sends and wherever a crash hits: a wrong file is somebody else's doing.  *)
(* But the files of a wheel are never synced, so a power loss may tear a    *)
(* directory that has been placed.                                          *)
PublishedIsVerified ==
    \A i \in Items : dest[i] = "bad" => i \in damaged \/ (i \in torn /\ i \in Unpacked)

(* "Readiness is an installer-owned record" (install_desktop.py:562): while *)
(* it is there, also when a power loss has brought it back, nothing is      *)
(* missing but what somebody else has damaged, or what a power loss has     *)
(* taken: files of a wheel, or a name whose publication was broken off      *)
(* before its directory was synced.                                         *)
MarkerMeansReady ==
    marker => \A i \in Items : dest[i] = "good" \/ i \in damaged \/ i \in torn

(* A changed file is never replaced or removed; it is set aside under a     *)
(* name of its own, and only by a repair ("Preserve corrupt managed assets  *)
(* as named backups", install_desktop.py:578).                              *)
ChangedFilesAreKept ==
    [][\A i \in Items : dest[i] = "bad" /\ dest'[i] # "bad" =>
         /\ backups'[i] = backups[i] + 1
         /\ lock # "free" /\ fix[lock]]_vars

(* "A crash between link/unlink leaves exactly these two names of one       *)
(* inode" (install_desktop.py:130), so a user who retries gets there.       *)
RetrySucceeds == []<>marker

(* Unless a crash hit while the generated model had a private second name.  *)
RetrySucceedsOtherwise ==
    \/ <>(lock = "free" /\ \E i \in Items : alias[i] = "private")
    \/ []<>marker
===============================================================================
