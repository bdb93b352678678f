------------------------------ MODULE Upgrade -------------------------------
(***************************************************************************)
(* `inlinr upgrade` (cmd/inlinr/upgrade.go): fetch the latest release and  *)
(* what it is checked against, write the new binary to inlinr.new beside   *)
(* the running one, and rename it into place.  On Windows the running one  *)
(* is renamed to inlinr.old first, and put back when the second rename     *)
(* fails.  Plugins run it unattended, so two may run at once.              *)
(*                                                                         *)
(* Every open file and every running program is known by where it is now:  *)
(* a rename takes it along.                                                *)
(***************************************************************************)
EXTENDS Integers

CONSTANTS
    Procs,        \* upgrades
    MaxVersion,   \* bound on the releases published
    Platforms,    \* the renameAway's of replaceFile: TRUE on Windows
    Overlaps,     \* whether upgrades may overlap
    MaxFaults     \* bound on the faults of a behaviour

ASSUME SetupsAssumption == Platforms \subseteq BOOLEAN /\ Overlaps \subseteq BOOLEAN
ASSUME BoundsAssumption == MaxVersion \in Nat \ {0} /\ MaxFaults \in Nat

\* What a file holds: the binary of a release, or something else, or nothing.
Versions == 1 .. MaxVersion
Partial == 0        \* a file being written
Foreign == -1       \* bytes that are no release's
Absent == -2
Bytes == Versions \union {Partial, Foreign, Absent}

Places == {"current", "new", "old", "gone", "none"}

VARIABLES
    renameAway, overlap,
    current, new, old,  \* inlinr, inlinr.new and inlinr.old
    latest,             \* the latest release on GitHub
    pc,
    image,              \* where the program each upgrade runs from is
    bytes,              \* the binary it downloaded
    fd,                 \* where the file it has open for writing is
    republished,        \* whether a release came out while an upgrade ran (history)
    abandoned,          \* whether an upgrade died, or failed to take back what it
                        \* had done (history)
    faults

files == <<current, new, old>>
setup == <<renameAway, overlap>>
history == <<republished, abandoned>>
vars == <<setup, files, latest, pc, image, bytes, fd, history, faults>>

Init ==
    /\ renameAway \in Platforms
    /\ overlap \in Overlaps
    /\ current = 1
    /\ new = Absent
    /\ old = Absent
    /\ latest = 1
    /\ pc = [p \in Procs |-> "idle"]
    /\ image = [p \in Procs |-> "none"]
    /\ bytes = [p \in Procs |-> Absent]
    /\ fd = [p \in Procs |-> "none"]
    /\ republished = FALSE
    /\ abandoned = FALSE
    /\ faults = MaxFaults

Goto(p, place) == pc' = [pc EXCEPT ![p] = place]

End(p) ==
    /\ Goto(p, "idle")
    /\ image' = [image EXCEPT ![p] = "none"]
    /\ bytes' = [bytes EXCEPT ![p] = Absent]

\* Windows neither deletes nor replaces a program that runs, nor renames or
\* deletes a file that is open.
Running(place) == renameAway /\ \E q \in Procs : image[q] = place
Open(place) == renameAway /\ \E q \in Procs : fd[q] = place

\* Where what was at a place is after the rename from one name to another.
Moved(place, from, to) == CASE place = from -> to
                            [] place = to -> "gone"
                            [] OTHER -> place

\* A rename takes along whoever has the files open or runs them.
Rename(from, to) ==
    /\ image' = [q \in Procs |-> Moved(image[q], from, to)]
    /\ fd' = [q \in Procs |-> Moved(fd[q], from, to)]

-----------------------------------------------------------------------------
(* runUpgrade *)

Publish ==
    /\ latest < MaxVersion
    /\ latest' = latest + 1
    /\ republished' = (republished \/ \E p \in Procs : pc[p] # "idle")
    /\ UNCHANGED <<setup, files, pc, image, bytes, fd, abandoned, faults>>

\* The shell finds a binary that runs.
Start(p) ==
    /\ pc[p] = "idle"
    /\ overlap \/ \A q \in Procs : pc[q] = "idle"
    /\ current \in Versions
    /\ Goto(p, "fetch")
    /\ image' = [image EXCEPT ![p] = "current"]
    /\ UNCHANGED <<setup, history, files, latest, bytes, fd, faults>>

\* Mistake: the hash is compared with a list nobody signed.
HashOnly(signed, listed, got) == listed = got

\* VerifySums, then the hash SHA256SUMS.txt lists for the binary.
Verified(signed, listed, got) == signed /\ listed = got

\* The tag, the binary and the list.  The release key signs the list of the
\* release; anything else may be fetched, or nothing, and --check and a version
\* that is the latest already end it here.
Fetch(p) ==
    /\ pc[p] = "fetch"
    /\ \E signed \in BOOLEAN, listed, got \in {latest, Foreign} :
         /\ signed => listed = latest
         /\ \/ /\ Verified(signed, listed, got)
               /\ Goto(p, "open")
               /\ bytes' = [bytes EXCEPT ![p] = got]
               /\ UNCHANGED image
            \/ End(p)
    /\ UNCHANGED <<setup, history, files, latest, fd, faults>>

-----------------------------------------------------------------------------
(* replaceFile *)

\* os.WriteFile opens inlinr.new and truncates what it finds there.
OpenNew(p) ==
    /\ pc[p] = "open"
    /\ new' = Partial
    /\ fd' = [fd EXCEPT ![p] = "new"]
    /\ Goto(p, "write")
    /\ UNCHANGED <<setup, history, current, old, latest, image, bytes, faults>>

\* Written over the binary of another upgrade, a shorter one leaves its end.
Over(held, got) == IF held \in {Partial, got} THEN {got} ELSE {got, Foreign}

\* Mistake: the binary makes room for the new one before the rename.
WriteAndClear(p) ==
    /\ pc[p] = "write"
    /\ new' \in IF fd[p] = "new" THEN Over(new, bytes[p]) ELSE {new}
    /\ current' = IF renameAway THEN current ELSE Absent
    /\ fd' = [fd EXCEPT ![p] = "none"]
    /\ Goto(p, IF renameAway THEN "clear" ELSE "replace")
    /\ UNCHANGED <<setup, history, old, latest, image, bytes, faults>>

\* The file may have been renamed since it was opened.
Write(p) ==
    /\ pc[p] = "write"
    /\ new' \in IF fd[p] = "new" THEN Over(new, bytes[p]) ELSE {new}
    /\ current' \in IF fd[p] = "current" THEN Over(current, bytes[p]) ELSE {current}
    /\ fd' = [fd EXCEPT ![p] = "none"]
    /\ Goto(p, IF renameAway THEN "clear" ELSE "replace")
    /\ UNCHANGED <<setup, history, old, latest, image, bytes, faults>>

\* os.WriteFile cannot open the file, or not write it all.
WriteFails(p) ==
    /\ pc[p] \in {"open", "write"}
    /\ faults > 0
    /\ faults' = faults - 1
    /\ fd' = [fd EXCEPT ![p] = "none"]
    /\ Goto(p, "drop")
    /\ UNCHANGED <<setup, history, files, latest, image, bytes>>

\* The leftover of the previous upgrade goes, if it can; nobody minds if not.
ClearOld(p) ==
    /\ pc[p] = "clear"
    /\ old' = IF Running("old") THEN old ELSE Absent
    /\ Goto(p, "away")
    /\ UNCHANGED <<setup, history, current, new, latest, image, bytes, fd, faults>>

ClearFails(p) ==
    /\ pc[p] = "clear"
    /\ faults > 0
    /\ faults' = faults - 1
    /\ Goto(p, "away")
    /\ UNCHANGED <<setup, history, files, latest, image, bytes, fd>>

\* The running binary is renamed to inlinr.old.
Away(p) ==
    /\ pc[p] = "away"
    /\ IF current # Absent /\ (old = Absent \/ ~Running("old"))
       THEN /\ old' = current
            /\ current' = Absent
            /\ Rename("current", "old")
            /\ Goto(p, "replace")
       ELSE /\ Goto(p, "drop")
            /\ UNCHANGED <<files, image, fd>>
    /\ UNCHANGED <<setup, history, new, latest, bytes, faults>>

\* The new binary is renamed to the name of the running one.
Replace(p) ==
    /\ pc[p] = "replace"
    /\ IF new # Absent /\ ~Open("new") /\ (current = Absent \/ ~Running("current"))
       THEN /\ current' = new
            /\ new' = Absent
            /\ fd' = [q \in Procs |-> Moved(fd[q], "new", "current")]
            /\ Goto(p, "idle")
            /\ image' = [q \in Procs |->
                           IF q = p THEN "none" ELSE Moved(image[q], "new", "current")]
            /\ bytes' = [bytes EXCEPT ![p] = Absent]
       ELSE /\ Goto(p, IF renameAway THEN "back" ELSE "drop")
            /\ UNCHANGED <<current, new, image, bytes, fd>>
    /\ UNCHANGED <<setup, history, old, latest, faults>>

\* Either rename fails for a reason of its own.
RenameFails(p) ==
    /\ pc[p] \in {"away", "replace"}
    /\ faults > 0
    /\ faults' = faults - 1
    /\ Goto(p, IF pc[p] = "replace" /\ renameAway THEN "back" ELSE "drop")
    /\ UNCHANGED <<setup, history, files, latest, image, bytes, fd>>

\* Mistake: the old binary stays where it was moved.
LeaveAway(p) ==
    /\ pc[p] = "back"
    /\ Goto(p, "drop")
    /\ UNCHANGED <<setup, history, files, latest, image, bytes, fd, faults>>

\* The old binary is put back, if it can be.
PutBack(p) ==
    /\ pc[p] = "back"
    /\ IF old # Absent /\ (current = Absent \/ ~Running("current"))
       THEN /\ current' = old
            /\ old' = Absent
            /\ Rename("old", "current")
       ELSE UNCHANGED <<files, image, fd>>
    /\ Goto(p, "drop")
    /\ UNCHANGED <<setup, history, new, latest, bytes, faults>>

DropNew(p) ==
    /\ pc[p] = "drop"
    /\ new' = IF Open("new") THEN new ELSE Absent
    /\ End(p)
    /\ UNCHANGED <<setup, history, current, old, latest, fd, faults>>

\* The rename that puts the old binary back fails for a reason of its own, or the
\* removal of inlinr.new: nothing tries again.
UndoFails(p) ==
    /\ pc[p] \in {"back", "drop"}
    /\ faults > 0
    /\ faults' = faults - 1
    /\ abandoned' = TRUE
    /\ IF pc[p] = "back" THEN Goto(p, "drop") /\ UNCHANGED <<image, bytes>> ELSE End(p)
    /\ UNCHANGED <<setup, files, latest, fd, republished>>

Die(p) ==
    /\ pc[p] # "idle"
    /\ faults > 0
    /\ faults' = faults - 1
    /\ End(p)
    /\ fd' = [fd EXCEPT ![p] = "none"]
    /\ abandoned' = TRUE
    /\ UNCHANGED <<setup, files, latest, republished>>

Next ==
    \/ Publish
    \/ \E p \in Procs :
         \/ Start(p) \/ Fetch(p) \/ OpenNew(p) \/ Write(p) \/ WriteFails(p)
         \/ ClearOld(p) \/ ClearFails(p) \/ Away(p) \/ Replace(p) \/ RenameFails(p)
         \/ PutBack(p) \/ DropNew(p) \/ UndoFails(p) \/ Die(p)

Spec == Init /\ [][Next]_vars

-----------------------------------------------------------------------------
(* Properties *)

TypeOK ==
    /\ setup \in BOOLEAN \X BOOLEAN
    /\ current \in Bytes /\ new \in Bytes /\ old \in Bytes
    /\ latest \in Versions
    /\ pc \in [Procs -> {"idle", "fetch", "open", "write", "clear", "away",
                         "replace", "back", "drop"}]
    /\ image \in [Procs -> Places]
    /\ bytes \in [Procs -> Versions \union {Absent}]
    /\ fd \in [Procs -> Places]
    /\ republished \in BOOLEAN /\ abandoned \in BOOLEAN
    /\ faults \in Nat

(***************************************************************************)
(* What the name inlinr leads to, a signed release was copied to in full   *)
(* (upgrade.go: "The new bytes are written next to it first, so the only   *)
(* gap is a rename").                                                      *)
(***************************************************************************)
Whole == current \in Versions \union {Absent}

(***************************************************************************)
(* That is so of an upgrade that runs alone, whatever fails.  It is so of  *)
(* any upgrades on Windows, where an open file keeps its name, as long as  *)
(* nothing fails and they fetch the same release.                          *)
(***************************************************************************)
WholeUndisturbed ==
    ~overlap \/ (renameAway /\ faults = MaxFaults /\ ~republished) => Whole

(***************************************************************************)
(* Wherever an upgrade stops, a binary that works is there, under its name *)
(* or as inlinr.old: always on Windows, elsewhere when it runs alone.      *)
(***************************************************************************)
AtHand == ~overlap \/ renameAway => current \in Versions \/ old \in Versions

(***************************************************************************)
(* Whatever of the writing and the renaming fails, and whoever else        *)
(* upgrades, a failed upgrade takes back what it did: the user is left a   *)
(* binary, and nothing beside it but inlinr.old (upgrade.go: "Put the old  *)
(* one back so the user isn't left without a binary").  It takes a death,  *)
(* or a failure of the taking back itself, for that not to be so.          *)
(***************************************************************************)
LeavesBinary ==
    (\A p \in Procs : pc[p] = "idle") /\ ~abandoned => current # Absent /\ new = Absent

=============================================================================
