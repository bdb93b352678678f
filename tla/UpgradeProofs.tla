---------------------------- MODULE UpgradeProofs ----------------------------
(***************************************************************************)
(* What TLAPS proves of Upgrade, for any number of upgrades, releases and  *)
(* faults.                                                                 *)
(*                                                                         *)
(* On Windows everything rests on what the system refuses: a program that  *)
(* runs keeps its file, and a file that is open keeps its name.            *)
(* Elsewhere it rests on there being one upgrade at a time.                *)
(***************************************************************************)
EXTENDS Upgrade, TLAPS

USE DEF vars, setup, files, history

Busy == {"fetch", "open", "write", "clear", "away", "replace", "back", "drop"}
Downloaded == Busy \ {"fetch"}

\* What an upgrade has of the release, wherever it is.
Holding ==
    /\ faults <= MaxFaults
    /\ \A p \in Procs : pc[p] \in Downloaded => bytes[p] \in Versions
    /\ ~renameAway => current # Absent /\ \A p \in Procs : pc[p] \notin {"clear", "away", "back"}

\* On Windows, whoever else upgrades.
OnWindows ==
    /\ \A p \in Procs : fd[p] = IF pc[p] = "write" THEN "new" ELSE "none"
    /\ \A p \in Procs : image[p] \in (IF pc[p] = "idle" THEN {"none"} ELSE {"current", "old"})
    /\ \A p \in Procs : image[p] = "current" => current \in Versions
    /\ \A p \in Procs : image[p] = "old" => old \in Versions
    /\ current \in Versions \/ old \in Versions

\* One upgrade at a time, on any platform.
Alone ==
    /\ \A p, q \in Procs : p # q => pc[p] = "idle" \/ pc[q] = "idle"
    /\ \A p \in Procs : fd[p] = IF pc[p] = "write" THEN "new" ELSE "none"
    /\ \A p \in Procs : pc[p] = "write" => new = Partial
    /\ \A p \in Procs : pc[p] \in {"clear", "away", "replace"} => new \in Versions
    /\ current \in Versions \/ (renameAway /\ current = Absent)

\* Upgrades that took back what they did when they failed.
CleanedUp ==
    /\ new # Absent => \E p \in Procs : pc[p] \in Downloaded \ {"open"}
    /\ current = Absent => \E p \in Procs : pc[p] \in {"replace", "back"}

\* Upgrades on Windows to the same release.
Agreeing ==
    /\ current \in Versions \union {Absent}
    /\ new \in {Absent, Partial, latest}
    /\ new = Partial => \E p \in Procs : fd[p] = "new"
    /\ new = Absent => \A p \in Procs : fd[p] # "new"
    /\ \A p \in Procs : pc[p] \in Downloaded => bytes[p] = latest

\* Upgrades none of which failed.
Unfailing ==
    /\ ~abandoned
    /\ renameAway /\ ~republished => Agreeing

Inv ==
    /\ TypeOK
    /\ Holding
    /\ renameAway => OnWindows
    /\ ~overlap => Alone
    /\ ~abandoned => CleanedUp
    /\ faults = MaxFaults => Unfailing

LEMMA Kinds ==
    /\ Versions \subseteq Int /\ Bytes \subseteq Int
    /\ \A v \in Versions : v \in Bytes /\ v # Partial /\ v # Foreign /\ v # Absent
    /\ \A b \in Bytes : b \in Versions \/ b = Partial \/ b = Foreign \/ b = Absent
    /\ Partial # Absent /\ Foreign # Absent /\ Partial # Foreign
    /\ {Partial, Foreign, Absent} \subseteq Bytes
    /\ 1 \in Versions
BY BoundsAssumption DEF Versions, Bytes, Partial, Foreign, Absent

LEMMA InvInit == Init => Inv
<1> SUFFICES ASSUME Init PROVE Inv
  OBVIOUS
<1>1. TypeOK
  BY Kinds, SetupsAssumption, BoundsAssumption DEF Init, TypeOK, Places
<1>2. Holding /\ OnWindows /\ Alone /\ CleanedUp /\ Unfailing
  BY Kinds, BoundsAssumption DEF Init, Holding, OnWindows, Alone, CleanedUp, Unfailing, Agreeing,
     Downloaded, Busy
<1> QED
  BY <1>1, <1>2 DEF Inv

-----------------------------------------------------------------------------
(* Types *)

LEMMA MovedType ==
    ASSUME NEW place \in Places, NEW from \in Places, NEW to \in Places
    PROVE  Moved(place, from, to) \in Places
BY DEF Moved, Places

LEMMA TypeNext == TypeOK /\ [Next]_vars => TypeOK'
<1> SUFFICES ASSUME TypeOK, [Next]_vars PROVE TypeOK'
  OBVIOUS
<1>1. CASE UNCHANGED vars
  BY <1>1 DEF TypeOK
<1>2. CASE Publish
  BY <1>2, BoundsAssumption DEF TypeOK, Publish, Versions
<1>3. ASSUME NEW p \in Procs, Start(p) PROVE TypeOK'
  BY <1>3 DEF TypeOK, Start, Goto, Places
<1>4. ASSUME NEW p \in Procs, Fetch(p) PROVE TypeOK'
  BY <1>4 DEF TypeOK, Fetch, Verified, Goto, End, Places
<1>5. ASSUME NEW p \in Procs, OpenNew(p) PROVE TypeOK'
  BY <1>5, Kinds DEF TypeOK, OpenNew, Goto, Places
<1>6. ASSUME NEW p \in Procs, Write(p) PROVE TypeOK'
  <2>1. bytes[p] \in Bytes
    BY Kinds DEF TypeOK
  <2>2. new' \in Bytes /\ current' \in Bytes
    BY <1>6, <2>1, Kinds DEF TypeOK, Write, Over
  <2> QED
    BY <1>6, <2>2 DEF TypeOK, Write, Goto, Places
<1>7. ASSUME NEW p \in Procs, WriteFails(p) PROVE TypeOK'
  BY <1>7 DEF TypeOK, WriteFails, Goto, Places
<1>8. ASSUME NEW p \in Procs, ClearOld(p) PROVE TypeOK'
  BY <1>8, Kinds DEF TypeOK, ClearOld, Goto
<1>9. ASSUME NEW p \in Procs, Away(p) PROVE TypeOK'
  <2>1. image' \in [Procs -> Places] /\ fd' \in [Procs -> Places]
    BY <1>9, MovedType DEF TypeOK, Away, Rename, Places
  <2>2. current' \in Bytes /\ old' \in Bytes /\ new' = new
    BY <1>9, Kinds DEF TypeOK, Away
  <2> QED
    BY <1>9, <2>1, <2>2 DEF TypeOK, Away, Goto
<1>10. ASSUME NEW p \in Procs, Replace(p) PROVE TypeOK'
  <2>1. image' \in [Procs -> Places] /\ fd' \in [Procs -> Places]
    BY <1>10, MovedType DEF TypeOK, Replace, Places
  <2>2. current' \in Bytes /\ new' \in Bytes /\ old' = old
    BY <1>10, Kinds DEF TypeOK, Replace
  <2> QED
    BY <1>10, <2>1, <2>2 DEF TypeOK, Replace, Goto
<1>11. ASSUME NEW p \in Procs, RenameFails(p) PROVE TypeOK'
  BY <1>11 DEF TypeOK, RenameFails, Goto
<1>12. ASSUME NEW p \in Procs, PutBack(p) PROVE TypeOK'
  <2>1. image' \in [Procs -> Places] /\ fd' \in [Procs -> Places]
    BY <1>12, MovedType DEF TypeOK, PutBack, Rename, Places
  <2>2. current' \in Bytes /\ old' \in Bytes /\ new' = new
    BY <1>12, Kinds DEF TypeOK, PutBack
  <2> QED
    BY <1>12, <2>1, <2>2 DEF TypeOK, PutBack, Goto
<1>13. ASSUME NEW p \in Procs, DropNew(p) PROVE TypeOK'
  BY <1>13, Kinds DEF TypeOK, DropNew, Goto, End, Places
<1>14. ASSUME NEW p \in Procs, Die(p) PROVE TypeOK'
  BY <1>14 DEF TypeOK, Die, Goto, End, Places
<1>15. ASSUME NEW p \in Procs, ClearFails(p) PROVE TypeOK'
  BY <1>15 DEF TypeOK, ClearFails, Goto
<1>16. ASSUME NEW p \in Procs, UndoFails(p) PROVE TypeOK'
  BY <1>16 DEF TypeOK, UndoFails, Goto, End, Places
<1> QED
  BY <1>1, <1>2, <1>3, <1>4, <1>5, <1>6, <1>7, <1>8, <1>9, <1>10, <1>11, <1>12,
     <1>13, <1>14, <1>15, <1>16 DEF Next

THEOREM TypeCorrect == Spec => []TypeOK
<1>1. Init => TypeOK
  BY InvInit DEF Inv
<1> QED
  BY <1>1, TypeNext, PTL DEF Spec

-----------------------------------------------------------------------------
(* What an upgrade has of the release *)

LEMMA HoldingNext == Inv /\ TypeOK' /\ [Next]_vars => Holding'
<1> SUFFICES ASSUME Inv, TypeOK', [Next]_vars PROVE Holding'
  OBVIOUS
<1>1. CASE UNCHANGED vars
  BY <1>1 DEF Inv, Holding
<1>2. CASE Publish
  BY <1>2 DEF Publish, Versions, Inv, Holding
<1>3. ASSUME NEW p \in Procs, Start(p) PROVE Holding'
  BY <1>3 DEF Start, Goto, Inv, Holding, Downloaded
<1>4. ASSUME NEW p \in Procs, Fetch(p) PROVE Holding'
  BY <1>4 DEF Fetch, Goto, Verified, End, Inv, TypeOK, Holding, Downloaded, Busy
<1>5. ASSUME NEW p \in Procs, OpenNew(p) PROVE Holding'
  BY <1>5 DEF OpenNew, Goto, Inv, Holding, Downloaded, Busy
<1>6. ASSUME NEW p \in Procs, Write(p) PROVE Holding'
  <2>1. bytes[p] # Absent
    BY <1>6, Kinds DEF Write, Inv, Holding, Downloaded, Busy
  <2>2. current # Absent => current' # Absent
    BY <1>6, <2>1, Kinds DEF Write, Over
  <2> QED
    BY <1>6, <2>2 DEF Write, Goto, Inv, TypeOK, Holding, Downloaded, Busy
<1>7. ASSUME NEW p \in Procs, WriteFails(p) PROVE Holding'
  BY <1>7, BoundsAssumption DEF WriteFails, Goto, Inv, TypeOK, Holding, Downloaded, Busy
<1>8. ASSUME NEW p \in Procs, ClearOld(p) PROVE Holding'
  BY <1>8 DEF ClearOld, Goto, Inv, Holding, Downloaded, Busy
<1>9. ASSUME NEW p \in Procs, Away(p) PROVE Holding'
  BY <1>9 DEF Away, Goto, Inv, TypeOK, Holding, Downloaded, Busy
<1>10. ASSUME NEW p \in Procs, Replace(p) PROVE Holding'
  BY <1>10 DEF Replace, Goto, Inv, TypeOK, Holding, Downloaded, Busy
<1>11. ASSUME NEW p \in Procs, RenameFails(p) PROVE Holding'
  BY <1>11, BoundsAssumption DEF RenameFails, Goto, Inv, TypeOK, Holding, Downloaded, Busy
<1>12. ASSUME NEW p \in Procs, PutBack(p) PROVE Holding'
  BY <1>12 DEF PutBack, Goto, Inv, Holding, Downloaded, Busy
<1>13. ASSUME NEW p \in Procs, DropNew(p) PROVE Holding'
  BY <1>13 DEF DropNew, Goto, End, Inv, TypeOK, Holding, Downloaded, Busy
<1>14. ASSUME NEW p \in Procs, Die(p) PROVE Holding'
  BY <1>14, BoundsAssumption DEF Die, Goto, End, Inv, TypeOK, Holding, Downloaded, Busy
<1>15. ASSUME NEW p \in Procs, ClearFails(p) PROVE Holding'
  BY <1>15, BoundsAssumption DEF ClearFails, Goto, Inv, TypeOK, Holding, Downloaded, Busy
<1>16. ASSUME NEW p \in Procs, UndoFails(p) PROVE Holding'
  BY <1>16, BoundsAssumption DEF UndoFails, Goto, End, Inv, TypeOK, Holding, Downloaded, Busy
<1> QED
  BY <1>1, <1>2, <1>3, <1>4, <1>5, <1>6, <1>7,
     <1>8, <1>9, <1>10, <1>11, <1>12, <1>13, <1>14, <1>15, <1>16 DEF Next

-----------------------------------------------------------------------------
(* On Windows *)

LEMMA WindowsNext == Inv /\ TypeOK' /\ [Next]_vars => (renameAway' => OnWindows')
<1> SUFFICES ASSUME Inv, TypeOK', [Next]_vars, renameAway' PROVE OnWindows'
  OBVIOUS
<1>1. CASE UNCHANGED vars
  BY <1>1 DEF Inv, OnWindows
<1>2. CASE Publish
  BY <1>2 DEF Publish, Versions, Inv, OnWindows
<1>3. ASSUME NEW p \in Procs, Start(p) PROVE OnWindows'
  BY <1>3 DEF Start, Goto, Inv, TypeOK, OnWindows
<1>4. ASSUME NEW p \in Procs, Fetch(p) PROVE OnWindows'
  BY <1>4 DEF Fetch, Goto, Verified, End, Inv, TypeOK, OnWindows
<1>5. ASSUME NEW p \in Procs, OpenNew(p) PROVE OnWindows'
  BY <1>5 DEF OpenNew, Goto, Inv, TypeOK, OnWindows
<1>6. ASSUME NEW p \in Procs, Write(p) PROVE OnWindows'
  BY <1>6 DEF Write, Goto, Inv, TypeOK, OnWindows
<1>7. ASSUME NEW p \in Procs, WriteFails(p) PROVE OnWindows'
  BY <1>7 DEF WriteFails, Goto, Inv, TypeOK, OnWindows
<1>8. ASSUME NEW p \in Procs, ClearOld(p) PROVE OnWindows'
  BY <1>8 DEF ClearOld, Goto, Running, Inv, OnWindows
<1>9. ASSUME NEW p \in Procs, Away(p) PROVE OnWindows'
  BY <1>9, Kinds DEF Away, Goto, Rename, Moved, Running, Inv, TypeOK, OnWindows
<1>10. ASSUME NEW p \in Procs, Replace(p) PROVE OnWindows'
  BY <1>10, Kinds DEF Replace, Goto, Moved, Running, Open, Inv, TypeOK, OnWindows
<1>11. ASSUME NEW p \in Procs, RenameFails(p) PROVE OnWindows'
  BY <1>11 DEF RenameFails, Goto, Inv, OnWindows
<1>12. ASSUME NEW p \in Procs, PutBack(p) PROVE OnWindows'
  BY <1>12, Kinds DEF PutBack, Goto, Rename, Moved, Running, Inv, OnWindows
<1>13. ASSUME NEW p \in Procs, DropNew(p) PROVE OnWindows'
  BY <1>13 DEF DropNew, Goto, End, Inv, TypeOK, OnWindows
<1>14. ASSUME NEW p \in Procs, Die(p) PROVE OnWindows'
  BY <1>14 DEF Die, Goto, End, Inv, TypeOK, OnWindows
<1>15. ASSUME NEW p \in Procs, ClearFails(p) PROVE OnWindows'
  BY <1>15 DEF ClearFails, Goto, Inv, TypeOK, OnWindows
<1>16. ASSUME NEW p \in Procs, UndoFails(p) PROVE OnWindows'
  BY <1>16 DEF UndoFails, Goto, End, Inv, TypeOK, OnWindows
<1> QED
  BY <1>1, <1>2, <1>3, <1>4, <1>5, <1>6, <1>7,
     <1>8, <1>9, <1>10, <1>11, <1>12, <1>13, <1>14, <1>15, <1>16 DEF Next

-----------------------------------------------------------------------------
(* One at a time *)

LEMMA AloneNext == Inv /\ TypeOK' /\ [Next]_vars => (~overlap' => Alone')
<1> SUFFICES ASSUME Inv, TypeOK', [Next]_vars, ~overlap' PROVE Alone'
  OBVIOUS
<1>1. CASE UNCHANGED vars
  BY <1>1 DEF Inv, Alone
<1>2. CASE Publish
  BY <1>2 DEF Publish, Versions, Inv, Alone
<1>3. ASSUME NEW p \in Procs, Start(p) PROVE Alone'
  BY <1>3 DEF Start, Goto, Inv, Alone
<1>4. ASSUME NEW p \in Procs, Fetch(p) PROVE Alone'
  BY <1>4 DEF Fetch, Goto, Verified, End, Inv, TypeOK, Alone
<1>5. ASSUME NEW p \in Procs, OpenNew(p) PROVE Alone'
  BY <1>5 DEF OpenNew, Goto, Inv, TypeOK, Alone
<1>6. ASSUME NEW p \in Procs, Write(p) PROVE Alone'
  BY <1>6 DEF Write, Over, Goto, Inv, TypeOK, Holding, Alone, Downloaded, Busy
<1>7. ASSUME NEW p \in Procs, WriteFails(p) PROVE Alone'
  BY <1>7 DEF WriteFails, Goto, Inv, TypeOK, Alone
<1>8. ASSUME NEW p \in Procs, ClearOld(p) PROVE Alone'
  BY <1>8 DEF ClearOld, Goto, Inv, Alone
<1>9. ASSUME NEW p \in Procs, Away(p) PROVE Alone'
  BY <1>9 DEF Away, Goto, Rename, Moved, Inv, TypeOK, Holding, Alone
<1>10. ASSUME NEW p \in Procs, Replace(p) PROVE Alone'
  BY <1>10 DEF Replace, Goto, Moved, Inv, TypeOK, Alone
<1>11. ASSUME NEW p \in Procs, RenameFails(p) PROVE Alone'
  BY <1>11 DEF RenameFails, Goto, Inv, Alone
<1>12. ASSUME NEW p \in Procs, PutBack(p) PROVE Alone'
  BY <1>12, Kinds DEF PutBack, Goto, Rename, Moved, Running, Inv, Holding, OnWindows, Alone
<1>13. ASSUME NEW p \in Procs, DropNew(p) PROVE Alone'
  BY <1>13 DEF DropNew, Goto, End, Inv, OnWindows, Alone
<1>14. ASSUME NEW p \in Procs, Die(p) PROVE Alone'
  BY <1>14 DEF Die, Goto, End, Inv, TypeOK, Alone
<1>15. ASSUME NEW p \in Procs, ClearFails(p) PROVE Alone'
  BY <1>15 DEF ClearFails, Goto, Inv, Alone
<1>16. ASSUME NEW p \in Procs, UndoFails(p) PROVE Alone'
  BY <1>16 DEF UndoFails, Goto, End, Inv, TypeOK, Alone
<1> QED
  BY <1>1, <1>2, <1>3, <1>4, <1>5, <1>6, <1>7,
     <1>8, <1>9, <1>10, <1>11, <1>12, <1>13, <1>14, <1>15, <1>16 DEF Next

-----------------------------------------------------------------------------
(* Taken back *)

LEMMA CleanedUpNext == Inv /\ TypeOK' /\ [Next]_vars => (~abandoned' => CleanedUp')
<1> SUFFICES ASSUME Inv, TypeOK', [Next]_vars, ~abandoned' PROVE CleanedUp'
  OBVIOUS
<1>1. CASE UNCHANGED vars
  BY <1>1 DEF Inv, CleanedUp
<1>2. CASE Publish
  BY <1>2 DEF Publish, Inv, CleanedUp
<1>3. ASSUME NEW p \in Procs, Start(p) PROVE CleanedUp'
  BY <1>3 DEF Start, Goto, Inv, CleanedUp, Downloaded, Busy
<1>4. ASSUME NEW p \in Procs, Fetch(p) PROVE CleanedUp'
  BY <1>4 DEF Fetch, Goto, End, Inv, TypeOK, CleanedUp, Downloaded
<1>5. ASSUME NEW p \in Procs, OpenNew(p) PROVE CleanedUp'
  BY <1>5, Kinds DEF OpenNew, Goto, Inv, TypeOK, CleanedUp, Downloaded, Busy
<1>6. ASSUME NEW p \in Procs, Write(p) PROVE CleanedUp'
  BY <1>6, Kinds DEF Write, Over, Goto, Inv, TypeOK, Holding, CleanedUp, Downloaded, Busy
<1>7. ASSUME NEW p \in Procs, WriteFails(p) PROVE CleanedUp'
  BY <1>7 DEF WriteFails, Goto, Inv, TypeOK, CleanedUp, Downloaded, Busy
<1>8. ASSUME NEW p \in Procs, ClearOld(p) PROVE CleanedUp'
  BY <1>8 DEF ClearOld, Goto, Inv, TypeOK, CleanedUp, Downloaded, Busy
<1>9. ASSUME NEW p \in Procs, Away(p) PROVE CleanedUp'
  BY <1>9 DEF Away, Goto, Inv, TypeOK, CleanedUp, Downloaded, Busy
<1>10. ASSUME NEW p \in Procs, Replace(p) PROVE CleanedUp'
  BY <1>10, Kinds DEF Replace, Goto, Inv, TypeOK, Holding, CleanedUp, Downloaded, Busy
<1>11. ASSUME NEW p \in Procs, RenameFails(p) PROVE CleanedUp'
  BY <1>11 DEF RenameFails, Goto, Inv, TypeOK, Holding, CleanedUp, Downloaded, Busy
<1>12. ASSUME NEW p \in Procs, PutBack(p) PROVE CleanedUp'
  BY <1>12, Kinds DEF PutBack, Goto, Running, Inv, TypeOK, Holding, OnWindows, CleanedUp, Downloaded, Busy
<1>13. ASSUME NEW p \in Procs, DropNew(p) PROVE CleanedUp'
  BY <1>13, Kinds DEF DropNew, Goto, End, Open, Inv, TypeOK, OnWindows, CleanedUp, Downloaded, Busy
<1>14. ASSUME NEW p \in Procs, Die(p) PROVE CleanedUp'
  BY <1>14 DEF Die
<1>15. ASSUME NEW p \in Procs, ClearFails(p) PROVE CleanedUp'
  BY <1>15 DEF ClearFails, Goto, Inv, TypeOK, CleanedUp, Downloaded, Busy
<1>16. ASSUME NEW p \in Procs, UndoFails(p) PROVE CleanedUp'
  BY <1>16 DEF UndoFails
<1> QED
  BY <1>1, <1>2, <1>3, <1>4, <1>5, <1>6, <1>7,
     <1>8, <1>9, <1>10, <1>11, <1>12, <1>13, <1>14, <1>15, <1>16 DEF Next

-----------------------------------------------------------------------------
(* No faults *)

LEMMA UnfailingNext == Inv /\ TypeOK' /\ [Next]_vars => (faults' = MaxFaults => Unfailing')
<1> SUFFICES ASSUME Inv, TypeOK', [Next]_vars, faults' = MaxFaults PROVE Unfailing'
  OBVIOUS
<1>0. faults = MaxFaults /\ ~abandoned' /\ ~abandoned /\ CleanedUp
  <2>1. faults <= MaxFaults /\ faults \in Nat
    BY DEF Inv, TypeOK, Holding
  <2>2. faults = MaxFaults /\ abandoned' = abandoned
    BY <2>1, BoundsAssumption DEF Next, Publish, Start, Fetch, OpenNew, Write, WriteFails, ClearOld,
       ClearFails, Away, Replace, RenameFails, PutBack, DropNew, UndoFails, Die
  <2> QED
    BY <2>2 DEF Inv, Unfailing
<1> SUFFICES ASSUME renameAway', ~republished' PROVE Agreeing'
  BY <1>0 DEF Unfailing
<1>01. renameAway /\ OnWindows /\ (~republished => Agreeing)
  BY <1>0 DEF Inv, Unfailing, Next, Publish, Start, Fetch, OpenNew, Write, WriteFails, ClearOld,
     ClearFails, Away, Replace, RenameFails, PutBack, DropNew, UndoFails, Die
<1>02. faults' = faults => Agreeing
  BY <1>0, <1>01 DEF Next, Publish, Start, Fetch, OpenNew, Write, WriteFails, ClearOld,
     ClearFails, Away, Replace, RenameFails, PutBack, DropNew, UndoFails, Die
<1>1. CASE UNCHANGED vars
  BY <1>1, <1>02 DEF Agreeing
<1>2. CASE Publish
  BY <1>2, <1>0, <1>02, Kinds DEF Publish, Versions, CleanedUp, OnWindows, Agreeing, Downloaded, Busy
<1>3. ASSUME NEW p \in Procs, Start(p) PROVE Agreeing'
  BY <1>3, <1>02 DEF Start, Goto, Agreeing, Downloaded, Busy
<1>4. ASSUME NEW p \in Procs, Fetch(p) PROVE Agreeing'
  BY <1>4, <1>02, Kinds DEF Fetch, Goto, Verified, End, TypeOK, Inv, Agreeing, Downloaded, Busy
<1>5. ASSUME NEW p \in Procs, OpenNew(p) PROVE Agreeing'
  BY <1>5, <1>02, Kinds DEF OpenNew, Goto, Inv, TypeOK, Agreeing, Downloaded, Busy
<1>6. ASSUME NEW p \in Procs, Write(p) PROVE Agreeing'
  BY <1>6, <1>01, <1>02, Kinds DEF Write, Over, Goto, Inv, TypeOK, OnWindows, Agreeing, Downloaded, Busy
<1>8. ASSUME NEW p \in Procs, ClearOld(p) PROVE Agreeing'
  BY <1>8, <1>02 DEF ClearOld, Goto, Agreeing, Downloaded, Busy
<1>9. ASSUME NEW p \in Procs, Away(p) PROVE Agreeing'
  BY <1>9, <1>01, <1>02 DEF Away, Goto, Rename, Moved, Inv, TypeOK, OnWindows, Agreeing, Downloaded, Busy
<1>10. ASSUME NEW p \in Procs, Replace(p) PROVE Agreeing'
  BY <1>10, <1>01, <1>02, Kinds DEF Replace, Goto, Moved, Open, Inv, TypeOK, OnWindows, Agreeing, Downloaded, Busy
<1>12. ASSUME NEW p \in Procs, PutBack(p) PROVE Agreeing'
  <2>1. bytes' = bytes /\ latest' = latest /\ new' = new /\ fd' = fd
    BY <1>12, <1>01 DEF PutBack, Rename, Moved, OnWindows, Inv, TypeOK
  <2>2. current' = current \/ current' \in Versions
    BY <1>12, <1>01, Kinds DEF PutBack, Running, OnWindows, Inv, TypeOK
  <2> QED
    BY <1>12, <1>02, <2>1, <2>2 DEF PutBack, Goto, Inv, TypeOK, Agreeing, Downloaded, Busy
<1>13. ASSUME NEW p \in Procs, DropNew(p) PROVE Agreeing'
  BY <1>13, <1>01, <1>02, Kinds DEF DropNew, Goto, End, Open, Inv, TypeOK, OnWindows, Agreeing, Downloaded, Busy
<1>14. ASSUME NEW p \in Procs,
              WriteFails(p) \/ ClearFails(p) \/ RenameFails(p) \/ UndoFails(p) \/ Die(p)
       PROVE  FALSE
  <2>1. faults' = faults - 1
    BY <1>14 DEF WriteFails, ClearFails, RenameFails, UndoFails, Die
  <2> QED
    BY <2>1, <1>0, BoundsAssumption
<1> QED
  BY <1>1, <1>2, <1>3, <1>4, <1>5, <1>6, <1>8, <1>9, <1>10, <1>12, <1>13, <1>14 DEF Next

-----------------------------------------------------------------------------
LEMMA InvHolds == Spec => []Inv
<1>1. Inv /\ [Next]_vars => Inv'
  <2>1. Inv /\ [Next]_vars => TypeOK'
    BY TypeNext DEF Inv
  <2> QED
    BY <2>1, HoldingNext, WindowsNext, AloneNext, CleanedUpNext, UnfailingNext DEF Inv
<1> QED
  BY InvInit, <1>1, PTL DEF Spec

(***************************************************************************)
(* Wherever an upgrade stops, a binary that works is there (upgrade.go:    *)
(* replaceFile): on Windows whatever runs beside it, elsewhere when it     *)
(* runs alone.                                                             *)
(***************************************************************************)
THEOREM BinaryAtHand == Spec => []AtHand
<1>1. Inv => AtHand
  BY DEF Inv, AtHand, Alone, OnWindows
<1> QED
  BY InvHolds, <1>1, PTL

(***************************************************************************)
(* The name inlinr never leads to half a file, or one that is no release:  *)
(* when upgrades do not overlap, whatever fails, and on Windows when they  *)
(* overlap, nothing fails, and no release comes out meanwhile.             *)
(***************************************************************************)
THEOREM WholeIfUndisturbed == Spec => []WholeUndisturbed
<1>1. Inv => WholeUndisturbed
  BY DEF Inv, WholeUndisturbed, Whole, Alone, Unfailing, Agreeing
<1> QED
  BY InvHolds, <1>1, PTL

(***************************************************************************)
(* An upgrade that fails puts the old binary back and takes inlinr.new     *)
(* away (upgrade.go: replaceFile), whatever failed and whoever else        *)
(* upgrades, unless it dies or the taking back fails too.                  *)
(***************************************************************************)
THEOREM BinaryIsLeft == Spec => []LeavesBinary
<1>1. Inv => LeavesBinary
  BY DEF Inv, LeavesBinary, CleanedUp, Downloaded, Busy
<1> QED
  BY InvHolds, <1>1, PTL

=============================================================================
