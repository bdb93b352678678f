-------------------------- MODULE ConnectionProofs --------------------------
(***************************************************************************)
(* What TLAPS proves of Connection, for any number of overlapping          *)
(* commands and any tokens.                                                *)
(***************************************************************************)
EXTENDS Connection, TLAPS, FiniteSetTheorems

USE DEF vars, files, local

(***************************************************************************)
(* A token on its way to config.toml is known to its own activate alone,   *)
(* and a token the server has not issued to nobody: so nothing that was    *)
(* read from a file before can be the token that is saved next.            *)
(***************************************************************************)
UnissuedUnknown ==
    \A t \in Tokens : device[t] = "unissued" =>
        /\ \A f \in Files : toml[f] # t
        /\ plugin # t
        /\ \A p \in Procs : prev[p] # t /\ got[p] # t

SavedNextIsFresh ==
    \A p \in Procs : pc[p] = "save" =>
        /\ \A f \in Files : toml[f] # got[p]
        /\ plugin # got[p]
        /\ \A q \in Procs : prev[q] # got[p]
        /\ \A q \in Procs : q # p /\ pc[q] = "save" => got[q] # got[p]

Inv == TypeOK /\ UnissuedUnknown /\ SavedNextIsFresh /\ NeverRevokesCurrent

\* The invariant holds of every machine an earlier history may have left.
LEMMA InvInit == Init => Inv
<1> SUFFICES ASSUME Init PROVE Inv
  OBVIOUS
<1>1. /\ machine \in Machines
      /\ machine.toml \in Held /\ machine.other \in Held /\ machine.plugin \in Held
      /\ machine.faults \in Nat
  BY MachinesAssumption DEF Init
<1>2. TypeOK
  <2>1. /\ run \in [Procs -> [cmd : Commands \union {"none"}, file : Files]]
        /\ outcome \in [said : {"nothing", "failed", "kept", "connected",
                                "not signed in", "revoked", "signed out"},
                        file : Files]
    BY DEF Init, NoCommand, Silence, Files
  <2>2. /\ toml \in [Files -> Held] /\ optOut \in [Files -> BOOLEAN] /\ plugin \in Held
        /\ device \in [Tokens -> {"unissued", "live", "removed", "revoked"}]
    BY <1>1 DEF Init, Files
  <2>3. /\ prev \in [Procs -> Held] /\ borrowed \in [Procs -> BOOLEAN]
        /\ loadedOpt \in [Procs -> BOOLEAN] /\ got \in [Procs -> Held]
        /\ pc \in [Procs -> Places]
        /\ \A p \in Procs : pc[p] = "idle"
    BY DEF Init, Held, Places
  <2>4. optedOut \in BOOLEAN /\ faults \in Nat
    BY <1>1 DEF Init
  <2> QED
    BY <1>1, <2>1, <2>2, <2>3, <2>4 DEF TypeOK
<1>3. UnissuedUnknown
  BY NoTokenAssumption DEF Init, UnissuedUnknown, Files
<1>4. SavedNextIsFresh /\ NeverRevokesCurrent
  BY DEF Init, SavedNextIsFresh, NeverRevokesCurrent
<1> QED
  BY <1>2, <1>3, <1>4 DEF Inv

(***************************************************************************)
(* A process that goes on or ends where it neither saves nor is about to   *)
(* revoke keeps the invariant, whatever it has read from the files.        *)
(***************************************************************************)
LEMMA OneProcess ==
  ASSUME Inv, NEW p \in Procs, NEW place \in Places,
         place \notin {"save", "clearOld"},
         place = "revokeOld" => pc[p] \in {"clearOld", "revokeOld"} /\ prev'[p] = prev[p],
         pc' = [pc EXCEPT ![p] = place],
         NEW token \in {toml["default"], toml["other"], plugin, prev[p], NoToken},
         prev' = [prev EXCEPT ![p] = token],
         got' = got \/ got' = [got EXCEPT ![p] = NoToken],
         UNCHANGED toml, plugin' \in {plugin, NoToken},
         \A t \in Tokens : device'[t] = "unissued" => device[t] = "unissued"
  PROVE  UnissuedUnknown' /\ SavedNextIsFresh' /\ NeverRevokesCurrent'
<1>1. /\ \A q \in Procs : q # p => pc'[q] = pc[q] /\ prev'[q] = prev[q] /\ got'[q] = got[q]
      /\ pc'[p] = place /\ prev'[p] = token /\ got'[p] \in {got[p], NoToken}
  BY DEF Inv, TypeOK
<1>2. \A q \in Procs : pc[q] = "save" => got[q] # NoToken
  BY DEF Inv, TypeOK
<1>3. UnissuedUnknown'
  BY <1>1, NoTokenAssumption DEF Inv, UnissuedUnknown, Files
<1>4. SavedNextIsFresh'
  BY <1>1, <1>2 DEF Inv, SavedNextIsFresh, Files
<1>5. NeverRevokesCurrent'
  BY <1>1 DEF Inv, NeverRevokesCurrent
<1> QED
  BY <1>3, <1>4, <1>5

\* Every step keeps the types.
LEMMA TypeStep == TypeOK /\ [Next]_vars => TypeOK'
<1> SUFFICES ASSUME TypeOK, [Next]_vars PROVE TypeOK'
  OBVIOUS
<1>a. machine' = machine
  BY DEF Next
<1> USE <1>a DEF TypeOK, Held
<1> DEFINE Sayings == {"nothing", "failed", "kept", "connected", "not signed in",
                       "revoked", "signed out"}
<1>0. ASSUME NEW p \in Procs, NEW said \in Sayings, End(p, said)
      PROVE  /\ pc' \in [Procs -> Places] /\ pc'[p] = "idle"
             /\ run' \in [Procs -> [cmd : Commands \union {"none"}, file : Files]]
             /\ prev' \in [Procs -> Held] /\ got' \in [Procs -> Held]
             /\ borrowed' \in [Procs -> BOOLEAN] /\ loadedOpt' \in [Procs -> BOOLEAN]
             /\ outcome' \in [said : Sayings, file : Files]
             /\ \A q \in Procs : q # p => pc'[q] = pc[q] /\ prev'[q] = prev[q] /\ got'[q] = got[q]
  <2>1. run[p].file \in Files /\ NoCommand \in [cmd : Commands \union {"none"}, file : Files]
    BY DEF NoCommand, Files
  <2> QED
    BY <1>0, <2>1 DEF End, Places
<1>00. ASSUME NEW p \in Procs, NEW said \in Sayings, End(p, said),
              toml' \in [Files -> Held], optOut' \in [Files -> BOOLEAN], plugin' \in Held,
              device' \in [Tokens -> {"unissued", "live", "removed", "revoked"}],
              optedOut' = optedOut, faults' \in Nat
       PROVE  TypeOK'
  <2>1. /\ pc' \in [Procs -> Places] /\ pc'[p] = "idle"
        /\ run' \in [Procs -> [cmd : Commands \union {"none"}, file : Files]]
        /\ prev' \in [Procs -> Held] /\ got' \in [Procs -> Held]
        /\ borrowed' \in [Procs -> BOOLEAN] /\ loadedOpt' \in [Procs -> BOOLEAN]
        /\ outcome' \in [said : Sayings, file : Files]
        /\ \A q \in Procs : q # p => pc'[q] = pc[q] /\ prev'[q] = prev[q] /\ got'[q] = got[q]
    <3> HIDE DEF TypeOK, Sayings
    <3> QED
      BY <1>0, <1>00
  <2>2. \A q \in Procs :
          /\ pc'[q] \in {"check", "clearOld", "revokeOld", "revoke", "erase", "clear"}
               => prev'[q] # NoToken
          /\ pc'[q] = "save" => got'[q] # NoToken
    BY <2>1
  <2> QED
    BY <1>00, <2>1, <2>2
<1>01. ASSUME NEW p \in Procs, NEW place \in Places, Goto(p, place),
              place \in {"check", "clearOld", "revokeOld", "revoke", "erase", "clear"}
                => prev[p] # NoToken,
              place # "save",
              toml' \in [Files -> Held], optOut' \in [Files -> BOOLEAN], plugin' \in Held,
              device' \in [Tokens -> {"unissued", "live", "removed", "revoked"}],
              optedOut' = optedOut, faults' \in Nat
       PROVE  TypeOK'
  BY <1>01 DEF Goto
<1>02. Fault \/ UNCHANGED faults => faults' \in Nat
  <2>1. faults \in Nat
    OBVIOUS
  <2> HIDE DEF TypeOK
  <2> QED
    BY <2>1 DEF Fault
<1>03. ASSUME NEW t \in Held, Revoke(t) \/ UNCHANGED device
       PROVE device' \in [Tokens -> {"unissued", "live", "removed", "revoked"}]
  BY <1>03 DEF Revoke
<1>04. ASSUME NEW p \in Procs, NEW token \in Held, SaveConfig(p, token) \/ UNCHANGED <<toml, optOut>>
       PROVE toml' \in [Files -> Held] /\ optOut' \in [Files -> BOOLEAN]
  <2>1. loadedOpt[p] \in BOOLEAN /\ toml \in [Files -> Held] /\ optOut \in [Files -> BOOLEAN]
    OBVIOUS
  <2> HIDE DEF TypeOK, Held
  <2>2. CASE SaveConfig(p, token)
    BY <2>1, <2>2 DEF SaveConfig
  <2>3. CASE UNCHANGED <<toml, optOut>>
    BY <2>1, <2>3
  <2> QED
    BY <1>04, <2>2, <2>3
<1>05. \A token \in Held : Cleared(token) \in Held
  BY DEF Cleared
<1>06. ASSUME NEW p \in Procs, NEW token \in Held, NEW isPlugins \in BOOLEAN, NEW opt \in BOOLEAN,
              Loaded(p, token, isPlugins, opt), UNCHANGED <<files, device, optedOut, faults>>
       PROVE  TypeOK'
  <2>1. CASE token = NoToken /\ ~Activates(p)
    BY <1>06, <1>00, <2>1 DEF Loaded
  <2>2. CASE token # NoToken \/ Activates(p)
    <3>1. /\ AfterLoad(p, token) \in {"revoke", "check", "poll"}
          /\ AfterLoad(p, token) \in {"revoke", "check"} => token # NoToken
      BY <2>2 DEF AfterLoad
    <3>2. /\ pc' = [pc EXCEPT ![p] = AfterLoad(p, token)]
          /\ prev' = [prev EXCEPT ![p] = token]
          /\ borrowed' = [borrowed EXCEPT ![p] = isPlugins]
          /\ loadedOpt' = [loadedOpt EXCEPT ![p] = opt]
          /\ UNCHANGED <<files, device, run, got, outcome, optedOut, faults>>
      BY <1>06, <2>2 DEF Loaded
    <3>3. /\ pc' \in [Procs -> Places] /\ prev' \in [Procs -> Held]
          /\ borrowed' \in [Procs -> BOOLEAN] /\ loadedOpt' \in [Procs -> BOOLEAN]
      BY <1>06, <3>1, <3>2 DEF Places
    <3>4. \A q \in Procs :
            /\ pc'[q] \in {"check", "clearOld", "revokeOld", "revoke", "erase", "clear"}
                 => prev'[q] # NoToken
            /\ pc'[q] = "save" => got'[q] # NoToken
      BY <3>1, <3>2
    <3> QED
      BY <3>2, <3>3, <3>4
  <2> QED
    BY <2>1, <2>2
<1>1. ASSUME NEW p \in Procs, NEW cmd \in Commands, NEW file \in Files, Start(p, cmd, file)
      PROVE  TypeOK'
  <2>1. [cmd |-> cmd, file |-> file] \in [cmd : Commands \union {"none"}, file : Files]
    OBVIOUS
  <2>2. Silence \in [said : Sayings, file : Files]
    BY DEF Silence, Files
  <2> QED
    BY <1>1, <2>1, <2>2 DEF Start, Places
<1>2. ASSUME NEW p \in Procs, LoadConfig(p) PROVE TypeOK'
  <2>1. run[p].file \in Files
    OBVIOUS
  <2>2. CASE toml[run[p].file] = NoToken /\ run[p].file = "default"
    <3>1. /\ pc' = [pc EXCEPT ![p] = "borrow"]
          /\ loadedOpt' = [loadedOpt EXCEPT ![p] = optOut[run[p].file]]
          /\ UNCHANGED <<files, device, run, prev, borrowed, got, outcome, optedOut, faults>>
      BY <1>2, <2>2 DEF LoadConfig
    <3>2. pc' \in [Procs -> Places] /\ loadedOpt' \in [Procs -> BOOLEAN]
      BY <2>1, <3>1 DEF Places
    <3>3. \A q \in Procs : pc'[q] # "borrow" => pc'[q] = pc[q]
      BY <3>1
    <3> QED
      BY <3>1, <3>2, <3>3
  <2>3. CASE ~(toml[run[p].file] = NoToken /\ run[p].file = "default")
    <3>1. Loaded(p, toml[run[p].file], FALSE, optOut[run[p].file])
          /\ UNCHANGED <<files, device, optedOut, faults>>
      BY <1>2, <2>3 DEF LoadConfig
    <3>2. toml[run[p].file] \in Held /\ optOut[run[p].file] \in BOOLEAN
      BY <2>1
    <3> HIDE DEF TypeOK, Held
    <3> QED
      BY <1>06, <3>1, <3>2
  <2> QED
    BY <2>2, <2>3
<1>3. ASSUME NEW p \in Procs, BorrowPluginToken(p) PROVE TypeOK'
  <2>1. Loaded(p, plugin, plugin # NoToken, loadedOpt[p])
        /\ UNCHANGED <<files, device, optedOut, faults>>
    BY <1>3 DEF BorrowPluginToken
  <2>2. plugin \in Held /\ loadedOpt[p] \in BOOLEAN /\ (plugin # NoToken) \in BOOLEAN
    OBVIOUS
  <2> HIDE DEF TypeOK, Held
  <2> QED
    BY <1>06, <2>1, <2>2
<1>4. ASSUME NEW p \in Procs, CheckToken(p) PROVE TypeOK'
  BY <1>4, <1>00, <1>01, <1>02 DEF CheckToken, Places
<1>5. ASSUME NEW p \in Procs, PollApproved(p) PROVE TypeOK'
  <2>1. PICK t \in Tokens :
           /\ device' = [device EXCEPT ![t] = "live"]
           /\ \/ /\ got' = [got EXCEPT ![p] = t]
                 /\ pc' = [pc EXCEPT ![p] = "save"]
                 /\ UNCHANGED <<run, prev, borrowed, loadedOpt, outcome, faults>>
              \/ Fault /\ End(p, "failed")
    BY <1>5 DEF PollApproved
  <2>2. CASE Fault /\ End(p, "failed")
    BY <1>5, <1>00, <1>02, <2>1, <2>2 DEF PollApproved
  <2>3. CASE ~(Fault /\ End(p, "failed"))
    <3>1. /\ got' = [got EXCEPT ![p] = t] /\ pc' = [pc EXCEPT ![p] = "save"]
          /\ UNCHANGED <<files, run, prev, borrowed, loadedOpt, outcome, optedOut, faults>>
      BY <1>5, <2>1, <2>3 DEF PollApproved
    <3>2. pc' \in [Procs -> Places] /\ got' \in [Procs -> Held]
          /\ device' \in [Tokens -> {"unissued", "live", "removed", "revoked"}]
      BY <2>1, <3>1 DEF Places
    <3>3. \A q \in Procs : pc'[q] = "save" => got'[q] # NoToken
      BY <3>1, NoTokenAssumption
    <3>4. \A q \in Procs : pc'[q] \in {"check", "clearOld", "revokeOld", "revoke", "erase", "clear"}
                             => pc'[q] = pc[q]
      BY <3>1
    <3> QED
      BY <3>1, <3>2, <3>3, <3>4
  <2> QED
    BY <2>2, <2>3
<1>6. ASSUME NEW p \in Procs, PollFails(p) PROVE TypeOK'
  BY <1>6, <1>00 DEF PollFails
<1>7. ASSUME NEW p \in Procs, SaveToken(p) PROVE TypeOK'
  BY <1>7, <1>00, <1>01, <1>02, <1>04 DEF SaveToken, SaveFails, Replacing, Places
<1>8. ASSUME NEW p \in Procs, ClearReplaced(p) PROVE TypeOK'
  BY <1>8, <1>01, <1>02, <1>05 DEF ClearReplaced, Places
<1>9. ASSUME NEW p \in Procs, RevokeReplaced(p) PROVE TypeOK'
  BY <1>9, <1>00, <1>02, <1>03 DEF RevokeReplaced
<1>10. ASSUME NEW p \in Procs, RevokeDevice(p) PROVE TypeOK'
  BY <1>10, <1>00, <1>01, <1>02, <1>03 DEF RevokeDevice, Places
<1>11. ASSUME NEW p \in Procs, EraseToken(p) PROVE TypeOK'
  BY <1>11, <1>00, <1>01, <1>02, <1>04 DEF EraseToken, SaveFails, Places
<1>12. ASSUME NEW p \in Procs, ClearPluginToken(p) PROVE TypeOK'
  BY <1>12, <1>00, <1>02, <1>05 DEF ClearPluginToken
<1>13. ASSUME NEW p \in Procs, Die(p) PROVE TypeOK'
  BY <1>13, <1>00, <1>02 DEF Die
<1>14. ASSUME NEW t \in Tokens, RemovedRemotely(t) PROVE TypeOK'
  BY <1>14 DEF RemovedRemotely
<1>15. CASE OptOut
  BY <1>15 DEF OptOut, Files
<1>16. CASE UNCHANGED vars
  BY <1>16
<1> QED
  BY <1>1, <1>2, <1>3, <1>4, <1>5, <1>6, <1>7, <1>8, <1>9, <1>10, <1>11, <1>12,
     <1>13, <1>14, <1>15, <1>16 DEF Next, Step

-----------------------------------------------------------------------------
\* A command that ends gives up what it knew.
LEMMA EndKeeps ==
  ASSUME Inv, NEW p \in Procs, NEW said, End(p, said), UNCHANGED toml,
         plugin' \in {plugin, NoToken},
         \A t \in Tokens : device'[t] = "unissued" => device[t] = "unissued"
  PROVE  UnissuedUnknown' /\ SavedNextIsFresh' /\ NeverRevokesCurrent'
  BY OneProcess DEF End, Places

\* A command that goes on elsewhere than to the saving of a token.
LEMMA GotoKeeps ==
  ASSUME Inv, NEW p \in Procs, NEW place \in Places \ {"save", "clearOld"}, Goto(p, place),
         place = "revokeOld" => pc[p] \in {"clearOld", "revokeOld"},
         UNCHANGED toml, plugin' \in {plugin, NoToken},
         \A t \in Tokens : device'[t] = "unissued" => device[t] = "unissued"
  PROVE  UnissuedUnknown' /\ SavedNextIsFresh' /\ NeverRevokesCurrent'
<1>1. prev' = [prev EXCEPT ![p] = prev[p]]
  BY DEF Goto, Inv, TypeOK
<1> QED
  BY <1>1, OneProcess DEF Goto

\* Load gives a command a token that one of the files holds.
LEMMA LoadedKeeps ==
  ASSUME Inv, NEW p \in Procs, NEW token \in {toml["default"], toml["other"], plugin},
         NEW isPlugins, NEW opt, Loaded(p, token, isPlugins, opt),
         UNCHANGED <<files, device>>
  PROVE  UnissuedUnknown' /\ SavedNextIsFresh' /\ NeverRevokesCurrent'
<1>1. CASE token = NoToken /\ ~Activates(p)
  BY <1>1, EndKeeps DEF Loaded
<1>2. CASE ~(token = NoToken /\ ~Activates(p))
  <2>1. AfterLoad(p, token) \in {"revoke", "check", "poll"}
    BY DEF AfterLoad
  <2> QED
    BY <1>2, <2>1, OneProcess DEF Loaded, Places
<1> QED
  BY <1>1, <1>2

(***************************************************************************)
(* Saving: the token written is fresh, or none, and neither is a token     *)
(* another activate is about to revoke.                                    *)
(***************************************************************************)
LEMMA SaveKeeps ==
  ASSUME Inv, NEW p \in Procs, NEW token \in Held,
         \/ token = NoToken /\ pc[p] # "save"
         \/ token = got[p] /\ pc[p] = "save",
         toml' = [toml EXCEPT !["default"] = token],
         UNCHANGED <<plugin, device>>,
         \A q \in Procs : q # p => pc'[q] = pc[q] /\ prev'[q] = prev[q] /\ got'[q] = got[q],
         pc'[p] # "save",
         prev'[p] \in {prev[p], NoToken}, got'[p] \in {got[p], NoToken},
         pc'[p] \in {"clearOld", "revokeOld"} => pc[p] = "save" /\ prev'[p] = prev[p]
  PROVE  UnissuedUnknown' /\ SavedNextIsFresh' /\ NeverRevokesCurrent'
<1>2. \A f \in Files : toml'[f] = toml[f] \/ toml'[f] = token
  BY DEF Inv, TypeOK
<1>3. toml'["default"] = token
  BY DEF Inv, TypeOK, Files
<1>4. /\ \A q \in Procs : pc[q] = "save" => got[q] # NoToken
      /\ \A q \in Procs : pc[q] \in {"clearOld", "revokeOld"} => prev[q] # NoToken
  BY DEF Inv, TypeOK
<1>5. UnissuedUnknown'
  BY <1>2, NoTokenAssumption DEF Inv, UnissuedUnknown
<1>6. SavedNextIsFresh'
  BY <1>2, <1>4 DEF Inv, SavedNextIsFresh
<1>7. NeverRevokesCurrent'
  <2> SUFFICES ASSUME NEW q \in Procs, pc'[q] \in {"clearOld", "revokeOld"}
               PROVE  token # prev'[q]
    BY <1>3 DEF NeverRevokesCurrent
  <2>1. CASE q = p
    BY <2>1 DEF Inv, SavedNextIsFresh
  <2>2. CASE q # p
    BY <1>4, <2>2 DEF Inv, SavedNextIsFresh
  <2> QED
    BY <2>1, <2>2
<1> QED
  BY <1>5, <1>6, <1>7

\* Every step keeps the invariant.
LEMMA InvStep == Inv /\ [Next]_vars => Inv'
<1> SUFFICES ASSUME Inv, [Next]_vars
             PROVE  UnissuedUnknown' /\ SavedNextIsFresh' /\ NeverRevokesCurrent'
  BY TypeStep DEF Inv
<1> DEFINE Goal == UnissuedUnknown' /\ SavedNextIsFresh' /\ NeverRevokesCurrent'
<1>0. ASSUME NEW t, Revoke(t) \/ UNCHANGED device
      PROVE  \A u \in Tokens : device'[u] = "unissued" => device[u] = "unissued"
  BY <1>0 DEF Revoke, Inv, TypeOK
<1>1. ASSUME NEW p \in Procs, NEW cmd \in Commands, NEW file \in Files, Start(p, cmd, file)
      PROVE  Goal
  <2>1. prev' = [prev EXCEPT ![p] = prev[p]]
    BY <1>1 DEF Start, Inv, TypeOK
  <2> QED
    BY <1>1, <2>1, OneProcess DEF Start, Places
<1>2. ASSUME NEW p \in Procs, LoadConfig(p) PROVE Goal
  <2>1. run[p].file \in Files
    BY DEF Inv, TypeOK
  <2>2. CASE toml[run[p].file] = NoToken /\ run[p].file = "default"
    <3>1. prev' = [prev EXCEPT ![p] = prev[p]]
      BY <1>2, <2>2 DEF LoadConfig, Inv, TypeOK
    <3> QED
      BY <1>2, <2>2, <3>1, OneProcess DEF LoadConfig, Places
  <2>3. CASE ~(toml[run[p].file] = NoToken /\ run[p].file = "default")
    BY <1>2, <2>1, <2>3, LoadedKeeps DEF LoadConfig, Files
  <2> QED
    BY <2>2, <2>3
<1>3. ASSUME NEW p \in Procs, BorrowPluginToken(p) PROVE Goal
  BY <1>3, LoadedKeeps DEF BorrowPluginToken
<1>4. ASSUME NEW p \in Procs, CheckToken(p) PROVE Goal
  BY <1>4, EndKeeps, GotoKeeps DEF CheckToken, Places
<1>5. ASSUME NEW p \in Procs, PollApproved(p) PROVE Goal
  <2>1. PICK t \in Tokens :
           /\ device[t] = "unissued"
           /\ device' = [device EXCEPT ![t] = "live"]
           /\ \/ /\ got' = [got EXCEPT ![p] = t]
                 /\ pc' = [pc EXCEPT ![p] = "save"]
                 /\ UNCHANGED <<run, prev, borrowed, loadedOpt, outcome, faults>>
              \/ Fault /\ End(p, "failed")
    BY <1>5 DEF PollApproved
  <2>2. UNCHANGED files
    BY <1>5 DEF PollApproved
  <2>3. \A u \in Tokens : device'[u] = "unissued" => u # t /\ device[u] = "unissued"
    BY <2>1 DEF Inv, TypeOK
  <2>4. CASE End(p, "failed")
    BY <2>2, <2>3, <2>4, EndKeeps
  <2>5. CASE got' = [got EXCEPT ![p] = t] /\ pc' = [pc EXCEPT ![p] = "save"] /\ prev' = prev
    <3>1. /\ \A q \in Procs : q # p => pc'[q] = pc[q] /\ got'[q] = got[q]
          /\ pc'[p] = "save" /\ got'[p] = t
      BY <2>5 DEF Inv, TypeOK
    <3>2. UnissuedUnknown'
      BY <2>2, <2>3, <2>5, <3>1 DEF Inv, UnissuedUnknown
    <3>3. SavedNextIsFresh'
      BY <2>1, <2>2, <2>5, <3>1 DEF Inv, UnissuedUnknown, SavedNextIsFresh
    <3>4. NeverRevokesCurrent'
      BY <2>2, <2>5, <3>1 DEF Inv, NeverRevokesCurrent
    <3> QED
      BY <3>2, <3>3, <3>4
  <2> QED
    BY <2>1, <2>4, <2>5
<1>6. ASSUME NEW p \in Procs, PollFails(p) PROVE Goal
  BY <1>6, EndKeeps DEF PollFails
<1>7. ASSUME NEW p \in Procs, SaveToken(p) PROVE Goal
  <2>1. CASE SaveFails(p)
    BY <1>7, <2>1, EndKeeps DEF SaveToken, SaveFails
  <2>2. CASE /\ SaveConfig(p, got[p])
             /\ IF prev[p] = NoToken THEN End(p, "connected") ELSE Replacing(p)
    <3>1. got[p] \in Held /\ pc[p] = "save" /\ UNCHANGED <<plugin, device>>
      BY <1>7 DEF SaveToken, Inv, TypeOK
    <3>2. toml' = [toml EXCEPT !["default"] = got[p]]
      BY <2>2 DEF SaveConfig
    <3>3. /\ \A q \in Procs : q # p => pc'[q] = pc[q] /\ prev'[q] = prev[q] /\ got'[q] = got[q]
          /\ pc'[p] # "save"
          /\ prev'[p] \in {prev[p], NoToken} /\ got'[p] \in {got[p], NoToken}
          /\ pc'[p] \in {"clearOld", "revokeOld"} => prev'[p] = prev[p]
      <4>1. CASE End(p, "connected")
        BY <4>1 DEF End, Inv, TypeOK
      <4>2. CASE Replacing(p)
        BY <4>2 DEF Replacing, Goto, Inv, TypeOK
      <4> QED
        BY <2>2, <4>1, <4>2
    <3> QED
      BY <3>1, <3>2, <3>3, SaveKeeps
  <2> QED
    BY <1>7, <2>1, <2>2 DEF SaveToken
<1>8. ASSUME NEW p \in Procs, ClearReplaced(p) PROVE Goal
  BY <1>8, GotoKeeps DEF ClearReplaced, Cleared, Places
<1>9. ASSUME NEW p \in Procs, RevokeReplaced(p) PROVE Goal
  BY <1>9, <1>0, EndKeeps DEF RevokeReplaced
<1>10. ASSUME NEW p \in Procs, RevokeDevice(p) PROVE Goal
  BY <1>10, <1>0, EndKeeps, GotoKeeps DEF RevokeDevice, Places
<1>11. ASSUME NEW p \in Procs, EraseToken(p) PROVE Goal
  <2>1. CASE SaveFails(p)
    BY <1>11, <2>1, EndKeeps DEF EraseToken, SaveFails
  <2>2. CASE /\ SaveConfig(p, NoToken)
             /\ IF run[p].file = "default" THEN Goto(p, "clear") ELSE End(p, "signed out")
    <3>1. pc[p] = "erase" /\ UNCHANGED <<plugin, device>> /\ NoToken \in Held
      BY <1>11 DEF EraseToken, Held
    <3>2. toml' = [toml EXCEPT !["default"] = NoToken]
      BY <2>2 DEF SaveConfig
    <3>3. /\ \A q \in Procs : q # p => pc'[q] = pc[q] /\ prev'[q] = prev[q] /\ got'[q] = got[q]
          /\ pc'[p] \notin {"save", "clearOld", "revokeOld"}
          /\ prev'[p] \in {prev[p], NoToken} /\ got'[p] \in {got[p], NoToken}
      <4>1. CASE End(p, "signed out")
        BY <4>1 DEF End, Inv, TypeOK
      <4>2. CASE Goto(p, "clear")
        BY <4>2 DEF Goto, Inv, TypeOK
      <4> QED
        BY <2>2, <4>1, <4>2
    <3> QED
      BY <3>1, <3>2, <3>3, SaveKeeps
  <2> QED
    BY <1>11, <2>1, <2>2 DEF EraseToken
<1>12. ASSUME NEW p \in Procs, ClearPluginToken(p) PROVE Goal
  BY <1>12, EndKeeps DEF ClearPluginToken, Cleared
<1>13. ASSUME NEW p \in Procs, Die(p) PROVE Goal
  BY <1>13, EndKeeps DEF Die
<1>14. ASSUME NEW t \in Tokens, RemovedRemotely(t) PROVE Goal
  <2>1. \A u \in Tokens : device'[u] = "unissued" => device[u] = "unissued"
    BY <1>14 DEF RemovedRemotely, Inv, TypeOK
  <2> QED
    BY <1>14, <2>1
    DEF RemovedRemotely, Inv, UnissuedUnknown, SavedNextIsFresh, NeverRevokesCurrent
<1>15. CASE OptOut \/ UNCHANGED vars
  BY <1>15
  DEF OptOut, Inv, UnissuedUnknown, SavedNextIsFresh, NeverRevokesCurrent
<1> QED
  BY <1>1, <1>2, <1>3, <1>4, <1>5, <1>6, <1>7, <1>8, <1>9, <1>10, <1>11, <1>12,
     <1>13, <1>14, <1>15 DEF Next, Step

\* The invariant holds throughout.
THEOREM InvHolds == Spec => []Inv
  BY InvInit, InvStep, PTL DEF Spec

(***************************************************************************)
(* However many activations and signouts overlap, and wherever they are    *)
(* killed, an activate is never about to revoke the token config.toml      *)
(* holds (activate.go: the connection replaced "is held nowhere on this    *)
(* machine any more").                                                     *)
(***************************************************************************)
THEOREM CurrentIsNeverRevoked == Spec => []NeverRevokesCurrent
<1>1. Inv => NeverRevokesCurrent
  BY DEF Inv
<1> QED
  BY <1>1, InvHolds, PTL

(***************************************************************************)
(* Every variable keeps its type; in particular a command that talks to    *)
(* the server about a token has one.                                       *)
(***************************************************************************)
THEOREM TypeCorrect == Spec => []TypeOK
<1>1. Inv => TypeOK
  BY DEF Inv
<1> QED
  BY <1>1, InvHolds, PTL

-----------------------------------------------------------------------------
(* One command at a time *)

Works(t) == t # NoToken /\ device[t] \in {"live", "removed"}

\* A command that runs alone knows the connection, and what it says is so
\* until the next one starts.
Alone ==
    /\ \A p, q \in Procs : p # q => pc[p] = "idle" \/ pc[q] = "idle"
    /\ \A p \in Procs : run[p].file = "default"
    /\ \A p \in Procs : pc[p] # "idle" => outcome = Silence
    /\ \A p \in Procs : pc[p] = "borrow" => toml["default"] = NoToken
    /\ \A p \in Procs : pc[p] \in {"check", "poll", "save"} => prev[p] = InUse
    /\ \A p \in Procs : pc[p] \in {"save", "clearOld", "revokeOld"} => Works(got[p])
    /\ \A p \in Procs : pc[p] \in {"clearOld", "revokeOld"} =>
         toml["default"] = got[p] /\ prev[p] # got[p]
    /\ outcome.said \in {"connected", "kept"} => Works(InUse)

AloneInv == OneAtATime => Alone

LEMMA AloneInit == Init => AloneInv
<1> SUFFICES ASSUME Init PROVE Alone
  BY DEF AloneInv
<1>1. outcome.said = "nothing" /\ outcome = Silence
  BY DEF Init, Silence
<1>2. \A p \in Procs : pc[p] = "idle" /\ run[p].file = "default"
  BY DEF Init, NoCommand
<1> QED
  BY <1>1, <1>2 DEF Alone

\* The types without those of command lines and outcomes.
LEMMA Shapes ==
    ASSUME TypeOK
    PROVE  /\ toml \in [Files -> Held] /\ "default" \in Files /\ plugin \in Held
           /\ pc \in [Procs -> Places] /\ prev \in [Procs -> Held] /\ got \in [Procs -> Held]
           /\ borrowed \in [Procs -> BOOLEAN]
           /\ device \in [Tokens -> {"unissued", "live", "removed", "revoked"}]
           /\ \A p \in Procs :
                /\ pc[p] \in {"check", "clearOld", "revokeOld", "revoke", "erase", "clear"}
                     => prev[p] # NoToken
                /\ pc[p] = "save" => got[p] # NoToken
BY DEF TypeOK, Files

\* A command that ends leaves no command, and what it said is to be so.
LEMMA AloneEnded ==
    ASSUME TypeOK, Alone, NEW p \in Procs, pc[p] # "idle", NEW said, End(p, said),
           said \in {"connected", "kept"} => Works(InUse)'
    PROVE  Alone'
<1>1. \A q \in Procs : pc'[q] = "idle"
  BY Shapes DEF Alone, End
<1>2. \A q \in Procs : run'[q].file = "default"
  <2>1. \A q \in Procs : run'[q] = IF q = p THEN NoCommand ELSE run[q]
    BY DEF TypeOK, End
  <2>2. NoCommand.file = "default"
    BY DEF NoCommand
  <2> QED
    BY <2>1, <2>2 DEF Alone
<1>3. outcome'.said = said
  BY DEF End
<1> QED
  BY <1>1, <1>2, <1>3 DEF Alone

\* One that goes on has to know what its next place needs.
LEMMA AloneGoesOn ==
    ASSUME TypeOK, Alone, NEW p \in Procs, pc[p] # "idle", NEW place,
           pc' = [pc EXCEPT ![p] = place], UNCHANGED <<run, outcome>>,
           place = "borrow" => toml'["default"] = NoToken,
           place \in {"check", "poll", "save"} => prev'[p] = InUse',
           place \in {"save", "clearOld", "revokeOld"} => Works(got[p])',
           place \in {"clearOld", "revokeOld"} =>
             toml'["default"] = got'[p] /\ prev'[p] # got'[p]
    PROVE  Alone'
<1>1. \A q \in Procs : pc'[q] = IF q = p THEN place ELSE "idle"
  BY Shapes DEF Alone
<1>2. outcome' = Silence /\ Silence.said = "nothing"
  BY DEF Alone, Silence
<1> QED
  BY <1>1, <1>2 DEF Alone

LEMMA AloneLoaded ==
    ASSUME TypeOK, Alone, NEW p \in Procs, pc[p] # "idle", NEW token, NEW isPlugins, NEW opt,
           Loaded(p, token, isPlugins, opt), UNCHANGED <<files, device>>, token = InUse
    PROVE  Alone'
<1>1. CASE token = NoToken /\ ~Activates(p)
  BY <1>1, AloneEnded DEF Loaded
<1>2. CASE ~(token = NoToken /\ ~Activates(p))
  <2>1. /\ pc' = [pc EXCEPT ![p] = AfterLoad(p, token)]
        /\ prev'[p] = InUse' /\ UNCHANGED <<run, outcome>>
    BY <1>2, Shapes DEF Loaded, InUse
  <2>2. AfterLoad(p, token) \in {"check", "poll", "revoke"}
    BY DEF AfterLoad
  <2> QED
    BY <2>1, <2>2, AloneGoesOn
<1> QED
  BY <1>1, <1>2

LEMMA AloneStep ==
    ASSUME Inv, Alone, NEW p \in Procs, Step(p)
    PROVE  Alone'
<1>0. TypeOK /\ run[p].file = "default"
  BY DEF Inv, Alone
<1>1. CASE LoadConfig(p)
  <2>1. CASE toml["default"] = NoToken
    <3>1. pc' = [pc EXCEPT ![p] = "borrow"] /\ UNCHANGED <<run, outcome>> /\ pc[p] # "idle"
          /\ toml'["default"] = NoToken
      BY <1>0, <1>1, <2>1 DEF LoadConfig
    <3> QED
      BY <1>0, <3>1, AloneGoesOn
  <2>2. CASE toml["default"] # NoToken
    <3>1. Loaded(p, toml["default"], FALSE, optOut["default"]) /\ UNCHANGED <<files, device>>
          /\ pc[p] # "idle"
      BY <1>0, <1>1, <2>2 DEF LoadConfig
    <3> QED
      BY <1>0, <2>2, <3>1, AloneLoaded DEF InUse
  <2> QED
    BY <2>1, <2>2
<1>2. CASE BorrowPluginToken(p)
  <2>1. Loaded(p, plugin, plugin # NoToken, loadedOpt[p]) /\ UNCHANGED <<files, device>>
        /\ pc[p] # "idle" /\ plugin = InUse
    BY <1>2 DEF BorrowPluginToken, Alone, InUse
  <2> QED
    BY <1>0, <2>1, AloneLoaded
<1>3. CASE CheckToken(p)
  <2>1. pc[p] # "idle" /\ prev[p] = InUse /\ prev[p] # NoToken /\ UNCHANGED <<toml, plugin, device>>
    BY <1>0, <1>3, Shapes DEF CheckToken, Alone
  <2>2. InUse' = InUse
    BY <2>1 DEF InUse
  <2>3. CASE device[prev[p]] = "live" /\ End(p, "kept")
    BY <1>0, <2>1, <2>2, <2>3, AloneEnded DEF Works
  <2>4. CASE Goto(p, "poll")
    <3>1. prev' = prev /\ UNCHANGED <<run, outcome>> /\ pc' = [pc EXCEPT ![p] = "poll"]
      BY <2>4 DEF Goto
    <3> QED
      BY <1>0, <2>1, <2>2, <3>1, AloneGoesOn
  <2>5. CASE End(p, "failed")
    BY <1>0, <2>1, <2>5, AloneEnded
  <2> QED
    BY <1>3, <2>3, <2>4, <2>5 DEF CheckToken
<1>4. CASE PollApproved(p)
  <2>1. PICK t \in Tokens :
          /\ device' = [device EXCEPT ![t] = "live"]
          /\ \/ /\ got' = [got EXCEPT ![p] = t]
                /\ pc' = [pc EXCEPT ![p] = "save"]
                /\ UNCHANGED <<run, prev, outcome>>
             \/ End(p, "failed")
    BY <1>4 DEF PollApproved
  <2>2. pc[p] # "idle" /\ prev[p] = InUse /\ InUse' = InUse
    BY <1>4 DEF PollApproved, Alone, InUse
  <2>3. CASE got' = [got EXCEPT ![p] = t] /\ pc' = [pc EXCEPT ![p] = "save"]
             /\ UNCHANGED <<run, prev, outcome>>
    <3>1. Works(got[p])'
      BY <1>0, <2>1, <2>3, Shapes, NoTokenAssumption DEF Works
    <3> QED
      BY <1>0, <2>2, <2>3, <3>1, AloneGoesOn
  <2>4. CASE End(p, "failed")
    BY <1>0, <2>2, <2>4, AloneEnded
  <2> QED
    BY <2>1, <2>3, <2>4
<1>5. CASE PollFails(p)
  BY <1>0, <1>5, AloneEnded DEF PollFails
<1>6. CASE SaveToken(p)
  <2>1. pc[p] # "idle" /\ Works(got[p]) /\ prev[p] # got[p] /\ UNCHANGED <<plugin, device>>
    BY <1>6 DEF SaveToken, Alone, Inv, SavedNextIsFresh
  <2>2. CASE SaveFails(p)
    BY <1>0, <2>1, <2>2, AloneEnded DEF SaveFails
  <2>3. CASE /\ SaveConfig(p, got[p])
             /\ IF prev[p] = NoToken THEN End(p, "connected") ELSE Replacing(p)
    <3>1. toml'["default"] = got[p] /\ InUse' = got[p]
      BY <1>0, <2>1, <2>3, Shapes DEF SaveConfig, InUse, Works
    <3>2. CASE End(p, "connected")
      BY <1>0, <2>1, <3>1, <3>2, AloneEnded DEF Works
    <3>3. CASE Replacing(p)
      <4>1. PICK place \in {"clearOld", "revokeOld"} : Goto(p, place)
        BY <3>3 DEF Replacing
      <4>2. /\ pc' = [pc EXCEPT ![p] = place] /\ UNCHANGED <<run, outcome>>
            /\ Works(got[p])' /\ toml'["default"] = got'[p] /\ prev'[p] # got'[p]
        BY <2>1, <3>1, <4>1 DEF Goto, Works
      <4> QED
        BY <1>0, <2>1, <4>1, <4>2, AloneGoesOn
    <3> QED
      BY <2>3, <3>2, <3>3
  <2> QED
    BY <1>6, <2>2, <2>3 DEF SaveToken
<1>7. CASE ClearReplaced(p)
  <2>1. pc[p] # "idle" /\ Works(got[p]) /\ toml["default"] = got[p] /\ prev[p] # got[p]
    BY <1>7 DEF ClearReplaced, Alone
  <2>2. /\ pc' = [pc EXCEPT ![p] = "revokeOld"] /\ UNCHANGED <<run, outcome>>
        /\ Works(got[p])' /\ toml'["default"] = got'[p] /\ prev'[p] # got'[p]
    BY <1>7, <2>1 DEF ClearReplaced, Goto, Works
  <2> QED
    BY <1>0, <2>1, <2>2, AloneGoesOn
<1>8. CASE RevokeReplaced(p)
  <2>1. pc[p] # "idle" /\ Works(got[p]) /\ toml["default"] = got[p] /\ prev[p] # got[p]
    BY <1>8 DEF RevokeReplaced, Alone
  <2>2. device'[got[p]] = device[got[p]] /\ InUse' = got[p]
    <3>1. device' = device \/ Revoke(prev[p])
      BY <1>8 DEF RevokeReplaced
    <3>2. toml' = toml /\ got[p] \in Tokens
      BY <1>0, <1>8, <2>1, Shapes DEF RevokeReplaced, Held, Works
    <3> QED
      BY <1>0, <2>1, <3>1, <3>2, Shapes DEF Revoke, InUse, Works
  <2> QED
    BY <1>0, <1>8, <2>1, <2>2, AloneEnded DEF RevokeReplaced, Works
<1>9. CASE RevokeDevice(p)
  <2>1. CASE End(p, "revoked")
    BY <1>0, <1>9, <2>1, AloneEnded DEF RevokeDevice
  <2>2. CASE Goto(p, "erase")
    BY <1>0, <1>9, <2>2, AloneGoesOn DEF RevokeDevice, Goto
  <2> QED
    BY <1>9, <2>1, <2>2 DEF RevokeDevice
<1>10. CASE EraseToken(p)
  <2>1. CASE Goto(p, "clear")
    BY <1>0, <1>10, <2>1, AloneGoesOn DEF EraseToken, Goto
  <2>2. CASE End(p, "signed out")
    BY <1>0, <1>10, <2>2, AloneEnded DEF EraseToken
  <2>3. CASE SaveFails(p)
    BY <1>0, <1>10, <2>3, AloneEnded DEF EraseToken, SaveFails
  <2> QED
    BY <1>10, <2>1, <2>2, <2>3 DEF EraseToken
<1>11. CASE ClearPluginToken(p)
  <2>1. PICK said \in {"signed out", "failed"} : End(p, said)
    BY <1>11 DEF ClearPluginToken
  <2> QED
    BY <1>0, <1>11, <2>1, AloneEnded DEF ClearPluginToken
<1>12. CASE Die(p)
  BY <1>0, <1>12, AloneEnded DEF Die
<1> QED
  BY <1>1, <1>2, <1>3, <1>4, <1>5, <1>6, <1>7, <1>8, <1>9, <1>10, <1>11, <1>12 DEF Step

LEMMA AloneNext == Inv /\ AloneInv /\ [Next]_vars => AloneInv'
<1> SUFFICES ASSUME Inv, AloneInv, [Next]_vars, OneAtATime' PROVE Alone'
  BY DEF AloneInv
<1>1. OneAtATime /\ Alone /\ TypeOK
  BY DEF AloneInv, OneAtATime, Next, Inv
<1>2. CASE UNCHANGED vars
  BY <1>1, <1>2 DEF Alone, Works, InUse
<1>3. ASSUME NEW p \in Procs, NEW cmd \in Commands, NEW file \in Files, Start(p, cmd, file)
      PROVE  Alone'
  <2>1. file = "default" /\ \A q \in Procs : pc'[q] = IF q = p THEN "load" ELSE "idle"
    BY <1>1, <1>3, Shapes DEF Start, OneAtATime, Files
  <2>2. \A q \in Procs : run'[q].file = "default"
    <3>1. \A q \in Procs : run'[q] = IF q = p THEN [cmd |-> cmd, file |-> file] ELSE run[q]
      BY <1>1, <1>3 DEF Start, TypeOK
    <3> QED
      BY <1>1, <2>1, <3>1 DEF Alone
  <2>3. outcome' = Silence /\ Silence.said = "nothing"
    BY <1>3 DEF Start, Silence
  <2> QED
    BY <2>1, <2>2, <2>3 DEF Alone
<1>4. ASSUME NEW p \in Procs, Step(p) PROVE Alone'
  BY <1>1, <1>4, AloneStep
<1>5. ASSUME NEW t \in Tokens, RemovedRemotely(t) PROVE Alone'
  <2>1. UNCHANGED <<files, pc, run, local, outcome>> /\ InUse' = InUse
    BY <1>5 DEF RemovedRemotely, InUse
  <2>2. \A u \in Held : Works(u) => Works(u)'
    BY <1>1, <1>5, Shapes DEF RemovedRemotely, Works, Held
  <2>3. InUse \in Held /\ \A p \in Procs : got[p] \in Held
    BY <1>1, Shapes DEF InUse
  <2>4. (\A p \in Procs : Works(got[p]) => Works(got[p])') /\ (Works(InUse) => Works(InUse)')
    BY <2>1, <2>2, <2>3 DEF Works
  <2> QED
    BY <1>1, <2>1, <2>4 DEF Alone
<1>6. CASE OptOut
  BY <1>1, <1>6 DEF OptOut, Alone, Works, InUse
<1> QED
  BY <1>2, <1>3, <1>4, <1>5, <1>6 DEF Next

LEMMA AloneHolds == Spec => []AloneInv
  BY InvHolds, AloneInit, AloneNext, PTL DEF Spec

(***************************************************************************)
(* What activate tells the user is so, for any machine and any faults, as  *)
(* long as commands do not overlap: after "signed in" and "already         *)
(* connected" the machine sends with a token that works.                   *)
(***************************************************************************)
THEOREM ConnectedIsLive == Spec => []ConnectedMeansLive
<1>1. AloneInv => ConnectedMeansLive
  BY DEF AloneInv, Alone, Works, ConnectedMeansLive
<1> QED
  BY AloneHolds, <1>1, PTL

-----------------------------------------------------------------------------
(* Connecting again *)

\* A token the server knew and no longer takes.
Dead(t) == device[t] \in {"removed", "revoked"}

\* Whoever connects again without --replace had no connection, or a dead one.
Reconnects(p) == run[p].cmd = "activate" /\ pc[p] \in {"poll", "save"}

DeadReplaced == \A p \in Procs : Reconnects(p) => prev[p] = NoToken \/ Dead(prev[p])

LEMMA DeadStays ==
    ASSUME TypeOK, [Next]_vars
    PROVE  \A t \in Tokens : Dead(t) => Dead(t)'
<1> DEFINE Goal == \A t \in Tokens : Dead(t) => Dead(t)'
<1>0. device \in [Tokens -> {"unissued", "live", "removed", "revoked"}]
  BY DEF TypeOK
<1>1. CASE UNCHANGED device
  BY <1>1 DEF Dead
<1>2. ASSUME NEW u, Revoke(u) PROVE Goal
  BY <1>0, <1>2 DEF Revoke, Dead
<1>3. ASSUME NEW p \in Procs, PollApproved(p) PROVE Goal
  BY <1>0, <1>3 DEF PollApproved, Dead
<1>4. ASSUME NEW t \in Tokens, RemovedRemotely(t) PROVE Goal
  BY <1>0, <1>4 DEF RemovedRemotely, Dead
<1>5. ASSUME NEW p \in Procs, Step(p) PROVE UNCHANGED device \/ PollApproved(p) \/ \E u : Revoke(u)
  BY <1>5 DEF Step, LoadConfig, BorrowPluginToken, CheckToken, PollFails, SaveToken,
     ClearReplaced, RevokeReplaced, RevokeDevice, EraseToken, ClearPluginToken, Die
<1>6. (\E p \in Procs : \E cmd \in Commands, file \in Files : Start(p, cmd, file)) \/ OptOut
        => UNCHANGED device
  BY DEF Start, OptOut
<1> QED
  BY <1>1, <1>2, <1>3, <1>4, <1>5, <1>6 DEF Next

\* A command that goes on to connect was connecting already, or has just
\* found no token, or one that is dead.
LEMMA ReconnectsBecause ==
    ASSUME Inv, [Next]_vars, NEW p \in Procs, Reconnects(p)'
    PROVE  \/ prev'[p] = NoToken
           \/ Reconnects(p) /\ prev'[p] = prev[p]
           \/ pc[p] = "check" /\ prev'[p] = prev[p] /\ device[prev[p]] # "live"
<1> DEFINE Goal == \/ prev'[p] = NoToken
                   \/ Reconnects(p) /\ prev'[p] = prev[p]
                   \/ pc[p] = "check" /\ prev'[p] = prev[p] /\ device[prev[p]] # "live"
<1>0. TypeOK
  BY DEF Inv
<1>1. /\ pc \in [Procs -> Places] /\ prev \in [Procs -> Held]
      /\ run \in [Procs -> [cmd : Commands \union {"none"}, file : Files]]
  BY <1>0 DEF TypeOK
<1>2. CASE UNCHANGED <<pc, run, prev>>
  BY <1>2 DEF Reconnects
<1>3. ASSUME NEW q \in Procs, NEW said, End(q, said) PROVE Goal
  <2>1. q # p /\ pc'[p] = pc[p] /\ run'[p] = run[p] /\ prev'[p] = prev[p]
    BY <1>1, <1>3 DEF End, Reconnects
  <2> QED
    BY <2>1 DEF Reconnects
<1>4. ASSUME NEW q \in Procs, NEW place, pc' = [pc EXCEPT ![q] = place], UNCHANGED <<run, prev>>,
             place = "poll" => pc[q] = "check" /\ device[prev[q]] # "live",
             place = "save" => pc[q] = "poll"
      PROVE  Goal
  BY <1>1, <1>4 DEF Reconnects
<1>5. ASSUME NEW q \in Procs, NEW token, NEW isPlugins, NEW opt, Loaded(q, token, isPlugins, opt)
      PROVE  Goal
  <2>1. CASE token = NoToken /\ ~Activates(q)
    BY <1>3, <1>5, <2>1 DEF Loaded
  <2>2. CASE ~(token = NoToken /\ ~Activates(q))
    <3>1. /\ pc' = [pc EXCEPT ![q] = AfterLoad(q, token)]
          /\ prev' = [prev EXCEPT ![q] = token] /\ UNCHANGED run
      BY <1>5, <2>2 DEF Loaded
    <3>2. CASE q = p
      <4>1. pc'[p] = AfterLoad(p, token) /\ prev'[p] = token
        BY <1>1, <3>1, <3>2
      <4>2. run[p].cmd = "activate"
        BY <3>1 DEF Reconnects
      <4> QED
        BY <4>1, <4>2 DEF AfterLoad, Reconnects
    <3>3. CASE q # p
      BY <1>1, <3>1, <3>3 DEF Reconnects
    <3> QED
      BY <3>2, <3>3
  <2> QED
    BY <2>1, <2>2
<1>6. ASSUME NEW q \in Procs, NEW cmd \in Commands, NEW file \in Files, Start(q, cmd, file)
      PROVE  Goal
  BY <1>1, <1>6 DEF Start, Reconnects
<1>7. ASSUME NEW q \in Procs, Step(q) PROVE Goal
  <2>1. CASE LoadConfig(q)
    <3>1. CASE toml[run[q].file] = NoToken /\ run[q].file = "default"
      BY <1>4, <2>1, <3>1 DEF LoadConfig
    <3>2. CASE ~(toml[run[q].file] = NoToken /\ run[q].file = "default")
      BY <1>5, <2>1, <3>2 DEF LoadConfig
    <3> QED
      BY <3>1, <3>2
  <2>2. CASE BorrowPluginToken(q)
    BY <1>5, <2>2 DEF BorrowPluginToken
  <2>3. CASE CheckToken(q)
    BY <1>3, <1>4, <2>3 DEF CheckToken, Goto
  <2>4. CASE PollApproved(q)
    BY <1>3, <1>4, <2>4 DEF PollApproved
  <2>5. CASE SaveToken(q) \/ EraseToken(q)
    <3>1. \/ \E said : End(q, said)
          \/ \E place \in {"clearOld", "revokeOld", "clear"} : Goto(q, place)
      BY <2>5 DEF SaveToken, EraseToken, SaveFails, Replacing
    <3> QED
      BY <1>3, <1>4, <3>1 DEF Goto
  <2>6. CASE PollFails(q) \/ RevokeReplaced(q) \/ ClearPluginToken(q) \/ Die(q)
    BY <1>3, <2>6 DEF PollFails, RevokeReplaced, ClearPluginToken, Die
  <2>7. CASE ClearReplaced(q) \/ RevokeDevice(q)
    <3>1. (\E said : End(q, said)) \/ \E place \in {"revokeOld", "erase"} : Goto(q, place)
      BY <2>7 DEF ClearReplaced, RevokeDevice
    <3> QED
      BY <1>3, <1>4, <3>1 DEF Goto
  <2> QED
    BY <1>7, <2>1, <2>2, <2>3, <2>4, <2>5, <2>6, <2>7 DEF Step
<1>8. (\E t \in Tokens : RemovedRemotely(t)) \/ OptOut \/ UNCHANGED vars => UNCHANGED <<pc, run, prev>>
  BY DEF RemovedRemotely, OptOut
<1> QED
  BY <1>2, <1>6, <1>7, <1>8 DEF Next

LEMMA DeadReplacedNext == Inv /\ DeadReplaced /\ [Next]_vars => DeadReplaced'
<1> SUFFICES ASSUME Inv, DeadReplaced, [Next]_vars, NEW p \in Procs, Reconnects(p)',
                    prev'[p] # NoToken
             PROVE  Dead(prev[p])'
  BY DEF DeadReplaced
<1>1. TypeOK /\ prev[p] \in Held
  BY DEF Inv, TypeOK
<1>2. prev'[p] = prev[p] /\ prev[p] \in Tokens
  BY <1>1, ReconnectsBecause DEF Held
<1>3. Dead(prev[p])
  <2>1. CASE Reconnects(p)
    BY <1>2, <2>1 DEF DeadReplaced
  <2>2. CASE pc[p] = "check" /\ device[prev[p]] # "live"
    <3>1. device[prev[p]] # "unissued"
      BY <1>2 DEF Inv, UnissuedUnknown
    <3>2. device[prev[p]] \in {"unissued", "live", "removed", "revoked"}
      BY <1>1, <1>2 DEF TypeOK
    <3> QED
      BY <2>2, <3>1, <3>2 DEF Dead
  <2> QED
    BY <1>2, <2>1, <2>2, ReconnectsBecause
<1> QED
  BY <1>1, <1>2, <1>3, DeadStays DEF Dead

(***************************************************************************)
(* An activate without --replace that runs alone never replaces a          *)
(* connection that works, however long the user takes to approve, whatever *)
(* fails and whatever is removed on inlinr.com meanwhile (activate.go:     *)
(* "A machine already connected keeps its connection").                    *)
(***************************************************************************)
THEOREM LiveConnectionKept == Spec => KeepsLiveConnection
<1>1. Init => DeadReplaced
  BY DEF Init, DeadReplaced, Reconnects
<1>2. Spec => []DeadReplaced
  BY <1>1, DeadReplacedNext, InvHolds, PTL DEF Spec
<1> DEFINE Kept == \A p \in Procs :
                     OneAtATime /\ run[p].cmd = "activate" /\ pc[p] = "save" /\ toml' # toml
                       => InUse = NoToken \/ device[InUse] # "live"
<1>3. AloneInv /\ DeadReplaced /\ [Next]_vars => [Kept]_vars
  <2> SUFFICES ASSUME AloneInv, DeadReplaced, NEW p \in Procs,
                      OneAtATime, run[p].cmd = "activate", pc[p] = "save"
               PROVE  InUse = NoToken \/ device[InUse] # "live"
    OBVIOUS
  <2>1. prev[p] = InUse
    BY DEF AloneInv, Alone
  <2> QED
    BY <2>1 DEF DeadReplaced, Reconnects, Dead
<1>4. KeepsLiveConnection <=> [][Kept]_vars
  BY DEF KeepsLiveConnection
<1> QED
  BY <1>2, <1>3, <1>4, AloneHolds, PTL DEF Spec

-----------------------------------------------------------------------------
(* The machine's one connection *)

\* An earlier history left the machine one connection at most.
OneToken(m) == m.other = NoToken /\ (m.toml = NoToken \/ m.plugin = NoToken)

\* What a command that runs alone, and of which nothing failed, knows of it.
KnowsConnection(p) ==
    /\ pc[p] \in {"check", "poll", "save", "revoke", "erase"} =>
         prev[p] = InUse /\ (IF borrowed[p] THEN toml["default"] ELSE plugin) = NoToken
    /\ pc[p] \in {"clearOld", "clear"} => plugin \in {NoToken, prev[p]}
    /\ pc[p] = "clear" => toml["default"] = NoToken
    /\ pc[p] \in {"erase", "clear"} => device[prev[p]] # "live"

\* It is in config.toml or in the plugin's file, but for an activate that is
\* about to clear the latter; and every device of the account is in use, but
\* for one just approved or about to be revoked.
OneConnection ==
    /\ \A p \in Procs : KnowsConnection(p)
    /\ (\A p \in Procs : pc[p] # "clearOld") => NoToken \in {toml["default"], plugin}
    /\ outcome.said = "signed out" => InUse = NoToken
    /\ \A t \in Tokens : device[t] = "live" =>
         \/ t = InUse
         \/ \E p \in Procs : \/ pc[p] = "save" /\ t = got[p]
                             \/ pc[p] \in {"clearOld", "revokeOld"} /\ t = prev[p]

Undisturbed == OneAtATime /\ faults = machine.faults

LEMMA OneInit == (\A m \in Machines : OneToken(m)) /\ Init => (Undisturbed => OneConnection)
<1> SUFFICES ASSUME \A m \in Machines : OneToken(m), Init PROVE OneConnection
  OBVIOUS
<1>1. OneToken(machine) /\ toml["default"] = machine.toml /\ plugin = machine.plugin
  BY DEF Init, Files
<1>2. \A t \in Tokens : device[t] = "live" => t \in {machine.toml, machine.other, machine.plugin}
  BY DEF Init
<1>3. outcome.said = "nothing" /\ \A p \in Procs : pc[p] = "idle"
  BY DEF Init, Silence
<1>4. \A t \in Tokens : t # NoToken
  BY NoTokenAssumption
<1> QED
  BY <1>1, <1>2, <1>3, <1>4 DEF OneConnection, KnowsConnection, OneToken, InUse

LEMMA OneEnded ==
    ASSUME TypeOK, Alone, NEW p \in Procs, pc[p] # "idle", NEW said, End(p, said),
           NoToken \in {toml'["default"], plugin'},
           said = "signed out" => InUse' = NoToken,
           \A t \in Tokens : device'[t] = "live" => t = InUse'
    PROVE  OneConnection'
<1>1. \A q \in Procs : pc'[q] = "idle"
  BY Shapes DEF Alone, End
<1>2. outcome'.said = said
  BY DEF End
<1> QED
  BY <1>1, <1>2 DEF OneConnection, KnowsConnection

LEMMA OneGoesOn ==
    ASSUME TypeOK, Alone, NEW p \in Procs, pc[p] # "idle", NEW place,
           pc' = [pc EXCEPT ![p] = place], UNCHANGED outcome,
           KnowsConnection(p)',
           place # "clearOld" => NoToken \in {toml'["default"], plugin'},
           \A t \in Tokens : device'[t] = "live" =>
             \/ t = InUse'
             \/ place = "save" /\ t = got'[p]
             \/ place \in {"clearOld", "revokeOld"} /\ t = prev'[p]
    PROVE  OneConnection'
<1>1. \A q \in Procs : pc'[q] = IF q = p THEN place ELSE "idle"
  BY Shapes DEF Alone
<1>2. outcome' = Silence /\ Silence.said = "nothing"
  BY DEF Alone, Silence
<1>3. \A q \in Procs : KnowsConnection(q)'
  BY <1>1 DEF KnowsConnection
<1> QED
  BY <1>1, <1>2, <1>3 DEF OneConnection

\* The files and the devices of a command that runs alone.
LEMMA OnlyInUse ==
    ASSUME TypeOK, Alone, OneConnection, NEW p \in Procs, pc[p] # "idle",
           pc[p] \notin {"save", "clearOld", "revokeOld"}
    PROVE  /\ NoToken \in {toml["default"], plugin}
           /\ \A t \in Tokens : device[t] = "live" => t = InUse
<1>1. \A q \in Procs : pc[q] \notin {"save", "clearOld", "revokeOld"}
  BY DEF Alone
<1> QED
  BY <1>1 DEF OneConnection

LEMMA OnlyInUseOr ==
    ASSUME TypeOK, Alone, OneConnection, NEW p \in Procs,
           pc[p] \in {"save", "clearOld", "revokeOld"}
    PROVE  /\ pc[p] # "clearOld" => NoToken \in {toml["default"], plugin}
           /\ \A t \in Tokens : device[t] = "live" =>
                \/ t = InUse
                \/ pc[p] = "save" /\ t = got[p]
                \/ pc[p] \in {"clearOld", "revokeOld"} /\ t = prev[p]
<1>1. \A q \in Procs : q # p => pc[q] = "idle"
  BY DEF Alone
<1> QED
  BY <1>1 DEF OneConnection

LEMMA OneLoaded ==
    ASSUME TypeOK, Alone, OneConnection, NEW p \in Procs, pc[p] \in {"load", "borrow"},
           NEW token, NEW isPlugins \in BOOLEAN, NEW opt, Loaded(p, token, isPlugins, opt),
           UNCHANGED <<files, device>>, token = InUse,
           (IF isPlugins THEN toml["default"] ELSE plugin) = NoToken
    PROVE  OneConnection'
<1>1. /\ NoToken \in {toml["default"], plugin} /\ InUse' = InUse
      /\ \A t \in Tokens : device[t] = "live" => t = InUse
  BY OnlyInUse DEF InUse
<1>2. CASE token = NoToken /\ ~Activates(p)
  BY <1>1, <1>2, OneEnded DEF Loaded
<1>3. CASE ~(token = NoToken /\ ~Activates(p))
  <2>1. /\ pc' = [pc EXCEPT ![p] = AfterLoad(p, token)] /\ UNCHANGED outcome
        /\ prev'[p] = token /\ borrowed'[p] = isPlugins
    BY <1>3, Shapes DEF Loaded
  <2>2. AfterLoad(p, token) \in {"check", "poll", "revoke"}
    BY DEF AfterLoad
  <2>3. pc'[p] = AfterLoad(p, token)
    BY <2>1, Shapes
  <2>4. KnowsConnection(p)'
    BY <1>1, <2>1, <2>2, <2>3 DEF KnowsConnection
  <2> QED
    BY <1>1, <2>1, <2>2, <2>4, OneGoesOn
<1> QED
  BY <1>2, <1>3

\* After a revocation that got through no device is in use.
LEMMA Revoked ==
    ASSUME TypeOK, NEW t \in Tokens, Revoke(t)
    PROVE  /\ device'[t] # "live"
           /\ \A u \in Tokens : device'[u] = "live" => device[u] = "live" /\ u # t
BY Shapes DEF Revoke

LEMMA OneStep ==
    ASSUME Inv, Alone, OneConnection, faults' = faults, NEW p \in Procs, Step(p)
    PROVE  OneConnection'
<1>0. TypeOK /\ run[p].file = "default" /\ ~Fault
  <2>1. TypeOK /\ run[p].file = "default"
    BY DEF Inv, Alone
  <2>2. faults \in Nat
    BY <2>1 DEF TypeOK
  <2> QED
    BY <2>1, <2>2 DEF Fault
<1>1. CASE LoadConfig(p)
  <2>0. pc[p] = "load" /\ UNCHANGED <<files, device>>
    BY <1>1 DEF LoadConfig
  <2>1. /\ NoToken \in {toml["default"], plugin} /\ InUse' = InUse
        /\ \A t \in Tokens : device[t] = "live" => t = InUse
    BY <1>0, <2>0, OnlyInUse DEF InUse
  <2>2. CASE toml["default"] = NoToken
    <3>1. pc' = [pc EXCEPT ![p] = "borrow"] /\ UNCHANGED outcome
      BY <1>0, <1>1, <2>2 DEF LoadConfig
    <3>2. KnowsConnection(p)'
      BY <1>0, <3>1, Shapes DEF KnowsConnection
    <3> QED
      BY <1>0, <2>0, <2>1, <3>1, <3>2, OneGoesOn
  <2>3. CASE toml["default"] # NoToken
    <3>1. Loaded(p, toml["default"], FALSE, optOut["default"])
      BY <1>0, <1>1, <2>3 DEF LoadConfig
    <3> QED
      BY <1>0, <2>0, <2>1, <2>3, <3>1, OneLoaded DEF InUse
  <2> QED
    BY <2>2, <2>3
<1>2. CASE BorrowPluginToken(p)
  <2>1. /\ Loaded(p, plugin, plugin # NoToken, loadedOpt[p]) /\ UNCHANGED <<files, device>>
        /\ pc[p] = "borrow" /\ toml["default"] = NoToken
    BY <1>2 DEF BorrowPluginToken, Alone
  <2> QED
    BY <1>0, <2>1, OneLoaded DEF InUse
<1>3. CASE CheckToken(p)
  <2>1. pc[p] = "check" /\ UNCHANGED <<files, device>>
    BY <1>3 DEF CheckToken
  <2>2. /\ NoToken \in {toml["default"], plugin} /\ InUse' = InUse
        /\ \A t \in Tokens : device[t] = "live" => t = InUse
    BY <1>0, <2>1, OnlyInUse DEF InUse
  <2>3. CASE \E said \in {"kept", "failed"} : End(p, said)
    BY <1>0, <2>1, <2>2, <2>3, OneEnded
  <2>4. CASE Goto(p, "poll")
    <3>1. pc' = [pc EXCEPT ![p] = "poll"] /\ UNCHANGED <<outcome, prev, borrowed>> /\ pc'[p] = "poll"
      BY <1>0, <2>4, Shapes DEF Goto
    <3>2. KnowsConnection(p)'
      BY <2>1, <2>2, <3>1 DEF KnowsConnection, OneConnection
    <3> QED
      BY <1>0, <2>1, <2>2, <3>1, <3>2, OneGoesOn
  <2> QED
    BY <1>3, <2>3, <2>4 DEF CheckToken
<1>4. CASE PollApproved(p)
  <2>1. PICK t \in Tokens :
          /\ device' = [device EXCEPT ![t] = "live"]
          /\ got' = [got EXCEPT ![p] = t]
          /\ pc' = [pc EXCEPT ![p] = "save"]
          /\ UNCHANGED <<prev, borrowed, outcome>>
    BY <1>0, <1>4 DEF PollApproved
  <2>2. pc[p] = "poll" /\ UNCHANGED files
    BY <1>4 DEF PollApproved
  <2>3. /\ NoToken \in {toml["default"], plugin} /\ InUse' = InUse
        /\ \A u \in Tokens : device[u] = "live" => u = InUse
    BY <1>0, <2>2, OnlyInUse DEF InUse
  <2>4. got'[p] = t /\ pc'[p] = "save" /\ \A u \in Tokens : u # t => device'[u] = device[u]
    BY <1>0, <2>1, Shapes
  <2>5. KnowsConnection(p)'
    BY <2>1, <2>2, <2>3, <2>4 DEF KnowsConnection, OneConnection
  <2> QED
    BY <1>0, <2>1, <2>2, <2>3, <2>4, <2>5, OneGoesOn
<1>5. CASE PollFails(p)
  <2>1. pc[p] = "poll" /\ UNCHANGED <<files, device>> /\ End(p, "failed")
    BY <1>5 DEF PollFails
  <2>2. /\ NoToken \in {toml["default"], plugin} /\ InUse' = InUse
        /\ \A t \in Tokens : device[t] = "live" => t = InUse
    BY <1>0, <2>1, OnlyInUse DEF InUse
  <2> QED
    BY <1>0, <2>1, <2>2, OneEnded
<1>6. CASE SaveToken(p)
  <2>1. /\ pc[p] = "save" /\ UNCHANGED <<plugin, device>> /\ Works(got[p])
        /\ prev[p] = InUse /\ (IF borrowed[p] THEN toml["default"] ELSE plugin) = NoToken
    BY <1>6 DEF SaveToken, Alone, OneConnection, KnowsConnection
  <2>2. /\ SaveConfig(p, got[p])
        /\ IF prev[p] = NoToken THEN End(p, "connected") ELSE Replacing(p)
    BY <1>0, <1>6 DEF SaveToken, SaveFails
  <2>3. toml'["default"] = got[p] /\ InUse' = got[p]
    BY <1>0, <2>1, <2>2, Shapes DEF SaveConfig, InUse, Works
  <2>4. \A t \in Tokens : device'[t] = "live" => t = InUse' \/ t = prev[p]
    BY <1>0, <2>1, <2>3, OnlyInUseOr
  <2>5. CASE prev[p] = NoToken
    <3>1. plugin' = NoToken
      BY <2>1, <2>5 DEF InUse
    <3> QED
      BY <1>0, <2>1, <2>2, <2>4, <2>5, <3>1, NoTokenAssumption, OneEnded
  <2>6. CASE prev[p] # NoToken
    <3>1. Goto(p, IF borrowed[p] THEN "clearOld" ELSE "revokeOld")
      BY <2>2, <2>6 DEF Replacing
    <3>2. /\ pc' = [pc EXCEPT ![p] = IF borrowed[p] THEN "clearOld" ELSE "revokeOld"]
          /\ UNCHANGED <<prev, outcome>> /\ pc'[p] = IF borrowed[p] THEN "clearOld" ELSE "revokeOld"
      BY <1>0, <3>1, Shapes DEF Goto
    <3>3. KnowsConnection(p)'
      BY <2>1, <3>2 DEF KnowsConnection, InUse
    <3>4. ~borrowed[p] => plugin' = NoToken
      BY <2>1
    <3> QED
      BY <1>0, <2>1, <2>4, <3>2, <3>3, <3>4, OneGoesOn
  <2> QED
    BY <2>5, <2>6
<1>7. CASE ClearReplaced(p)
  <2>1. /\ pc[p] = "clearOld" /\ UNCHANGED <<toml, device>> /\ Goto(p, "revokeOld")
        /\ toml["default"] = got[p] /\ Works(got[p])
    BY <1>7 DEF ClearReplaced, Alone
  <2>2. plugin' = NoToken
    <3>1. plugin' = Cleared(prev[p])
      BY <1>0, <1>7 DEF ClearReplaced
    <3>2. plugin \in {NoToken, prev[p]}
      BY <2>1 DEF OneConnection, KnowsConnection
    <3> QED
      BY <3>1, <3>2 DEF Cleared
  <2>3. InUse' = InUse
    BY <2>1, <2>2 DEF InUse, Works
  <2>4. pc' = [pc EXCEPT ![p] = "revokeOld"] /\ UNCHANGED <<prev, outcome>> /\ pc'[p] = "revokeOld"
    BY <1>0, <2>1, Shapes DEF Goto
  <2>5. KnowsConnection(p)'
    BY <2>4 DEF KnowsConnection
  <2> QED
    BY <1>0, <2>1, <2>2, <2>3, <2>4, <2>5, OnlyInUseOr, OneGoesOn
<1>8. CASE RevokeReplaced(p)
  <2>1. /\ pc[p] = "revokeOld" /\ UNCHANGED files /\ End(p, "connected") /\ Revoke(prev[p])
        /\ toml["default"] = got[p] /\ Works(got[p])
    BY <1>0, <1>8 DEF RevokeReplaced, Alone
  <2>2. prev[p] \in Tokens /\ InUse' = InUse
    BY <1>0, <2>1, Shapes DEF Held, InUse
  <2>3. NoToken \in {toml["default"], plugin}
    BY <1>0, <2>1, OnlyInUseOr
  <2>4. \A t \in Tokens : device'[t] = "live" => t = InUse'
    BY <1>0, <2>1, <2>2, Revoked, OnlyInUseOr
  <2> QED
    BY <1>0, <2>1, <2>3, <2>4, OneEnded
<1>9. CASE RevokeDevice(p)
  <2>1. pc[p] = "revoke" /\ UNCHANGED files /\ Revoke(prev[p])
    BY <1>0, <1>9 DEF RevokeDevice
  <2>2. /\ prev[p] \in Tokens /\ prev[p] = InUse /\ InUse' = InUse
        /\ (IF borrowed[p] THEN toml["default"] ELSE plugin) = NoToken
    BY <1>0, <2>1, Shapes DEF Held, InUse, OneConnection, KnowsConnection
  <2>3. NoToken \in {toml["default"], plugin}
    BY <1>0, <2>1, OnlyInUse
  <2>4. device'[prev[p]] # "live" /\ \A t \in Tokens : device'[t] # "live"
    BY <1>0, <2>1, <2>2, Revoked, OnlyInUse
  <2>5. CASE End(p, "revoked")
    BY <1>0, <2>1, <2>3, <2>4, <2>5, OneEnded
  <2>6. CASE Goto(p, "erase")
    <3>1. pc' = [pc EXCEPT ![p] = "erase"] /\ UNCHANGED <<prev, borrowed, outcome>> /\ pc'[p] = "erase"
      BY <1>0, <2>6, Shapes DEF Goto
    <3>2. KnowsConnection(p)'
      BY <2>1, <2>2, <2>4, <3>1 DEF KnowsConnection
    <3> QED
      BY <1>0, <2>1, <2>3, <2>4, <3>1, <3>2, OneGoesOn
  <2> QED
    BY <1>9, <2>5, <2>6 DEF RevokeDevice
<1>10. CASE EraseToken(p)
  <2>1. /\ pc[p] = "erase" /\ UNCHANGED <<plugin, device>> /\ SaveConfig(p, NoToken)
        /\ Goto(p, "clear")
    BY <1>0, <1>10 DEF EraseToken, SaveFails
  <2>2. /\ prev[p] = InUse /\ device[prev[p]] # "live"
        /\ (IF borrowed[p] THEN toml["default"] ELSE plugin) = NoToken
    BY <2>1 DEF OneConnection, KnowsConnection
  <2>3. toml'["default"] = NoToken
    BY <1>0, <2>1, Shapes DEF SaveConfig
  <2>4. \A t \in Tokens : device'[t] # "live"
    BY <1>0, <2>1, <2>2, OnlyInUse
  <2>5. pc' = [pc EXCEPT ![p] = "clear"] /\ UNCHANGED <<prev, outcome>> /\ pc'[p] = "clear"
    BY <1>0, <2>1, Shapes DEF Goto
  <2>6. KnowsConnection(p)'
    BY <2>1, <2>2, <2>3, <2>5 DEF KnowsConnection, InUse
  <2> QED
    BY <1>0, <2>1, <2>3, <2>4, <2>5, <2>6, OneGoesOn
<1>11. CASE ClearPluginToken(p)
  <2>1. /\ pc[p] = "clear" /\ UNCHANGED <<toml, device>> /\ plugin' = Cleared(prev[p])
        /\ End(p, "signed out")
    BY <1>0, <1>11 DEF ClearPluginToken
  <2>2. toml["default"] = NoToken /\ plugin \in {NoToken, prev[p]} /\ device[prev[p]] # "live"
    BY <2>1 DEF OneConnection, KnowsConnection
  <2>3. InUse' = NoToken /\ toml'["default"] = NoToken
    BY <2>1, <2>2 DEF InUse, Cleared
  <2>4. \A t \in Tokens : device'[t] # "live"
    BY <1>0, <2>1, <2>2, NoTokenAssumption, OnlyInUse DEF InUse
  <2> QED
    BY <1>0, <2>1, <2>3, <2>4, OneEnded
<1>12. CASE Die(p)
  BY <1>0, <1>12 DEF Die
<1> QED
  BY <1>1, <1>2, <1>3, <1>4, <1>5, <1>6, <1>7, <1>8, <1>9, <1>10, <1>11, <1>12 DEF Step

\* A fault is not taken back.
LEMMA FaultsFall == Inv /\ faults <= machine.faults /\ [Next]_vars => (faults <= machine.faults)'
<1> SUFFICES ASSUME Inv, faults <= machine.faults, [Next]_vars
             PROVE  faults' <= machine.faults /\ machine' = machine
  OBVIOUS
<1>1. faults \in Nat /\ machine.faults \in Nat
  BY MachinesAssumption DEF Inv, TypeOK
<1>2. faults' = faults \/ Fault
  BY DEF Next, Step, Start, RemovedRemotely, OptOut, LoadConfig, BorrowPluginToken, CheckToken,
         PollApproved, PollFails, SaveToken, SaveFails, ClearReplaced, RevokeReplaced,
         RevokeDevice, EraseToken, ClearPluginToken, Die
<1>3. machine' = machine
  BY DEF Next
<1> QED
  BY <1>1, <1>2, <1>3 DEF Fault

OneConnectionInv == faults <= machine.faults /\ (Undisturbed => OneConnection)

LEMMA OneNext == Inv /\ AloneInv /\ OneConnectionInv /\ [Next]_vars => OneConnectionInv'
<1> SUFFICES ASSUME Inv, AloneInv, OneConnectionInv, [Next]_vars, Undisturbed'
             PROVE  OneConnection'
  BY FaultsFall DEF OneConnectionInv
<1>1. /\ machine' = machine /\ faults' = machine.faults /\ OneAtATime /\ TypeOK
      /\ faults <= machine.faults
  BY DEF Undisturbed, OneAtATime, Next, Inv, OneConnectionInv
<1>2. faults = faults'
  <2>1. faults \in Nat /\ machine.faults \in Nat
    BY <1>1, MachinesAssumption DEF TypeOK
  <2>2. faults' = faults \/ faults' = faults - 1
    BY DEF Next, Step, Start, RemovedRemotely, OptOut, LoadConfig, BorrowPluginToken, CheckToken,
           PollApproved, PollFails, SaveToken, SaveFails, ClearReplaced, RevokeReplaced,
           RevokeDevice, EraseToken, ClearPluginToken, Die, Fault
  <2> QED
    BY <1>1, <2>1, <2>2
<1>3. Alone /\ OneConnection
  BY <1>1, <1>2 DEF AloneInv, OneConnectionInv, Undisturbed
<1>4. CASE UNCHANGED vars
  BY <1>3, <1>4 DEF OneConnection, KnowsConnection, InUse
<1>5. ASSUME NEW p \in Procs, NEW cmd \in Commands, NEW file \in Files, Start(p, cmd, file)
      PROVE  OneConnection'
  <2>1. /\ \A q \in Procs : pc[q] = "idle" /\ pc'[q] = IF q = p THEN "load" ELSE "idle"
        /\ UNCHANGED <<files, device>> /\ outcome'.said = "nothing"
    BY <1>1, <1>5, Shapes DEF Start, OneAtATime, Silence
  <2>2. InUse' = InUse
    BY <2>1 DEF InUse
  <2> QED
    BY <1>3, <2>1, <2>2 DEF OneConnection, KnowsConnection
<1>6. ASSUME NEW p \in Procs, Step(p) PROVE OneConnection'
  BY <1>2, <1>3, <1>6, OneStep
<1>7. ASSUME NEW t \in Tokens, RemovedRemotely(t) PROVE OneConnection'
  <2>1. UNCHANGED <<files, pc, local, outcome>> /\ InUse' = InUse
    BY <1>7 DEF RemovedRemotely, InUse
  <2>2. \A u : device'[u] = "live" => device[u] = "live"
    BY <1>1, <1>7, Shapes DEF RemovedRemotely
  <2> QED
    BY <1>3, <2>1, <2>2 DEF OneConnection, KnowsConnection
<1>8. CASE OptOut
  BY <1>3, <1>8 DEF OptOut, OneConnection, KnowsConnection, InUse
<1> QED
  BY <1>4, <1>5, <1>6, <1>7, <1>8 DEF Next

LEMMA OneConnectionInit == (\A m \in Machines : OneToken(m)) /\ Init => OneConnectionInv
<1> SUFFICES ASSUME \A m \in Machines : OneToken(m), Init PROVE OneConnectionInv
  OBVIOUS
<1>1. faults = machine.faults /\ machine.faults \in Nat
  BY MachinesAssumption DEF Init
<1> QED
  BY <1>1, OneInit DEF OneConnectionInv

(***************************************************************************)
(* After "signed out" nothing on the machine has a token to send with      *)
(* (signout.go: "this signs them all out"), for any sequence of commands   *)
(* one after another in which nothing failed, from a machine that has one  *)
(* connection at most.                                                     *)
(***************************************************************************)
THEOREM SignedOutHolds ==
    ASSUME \A m \in Machines : OneToken(m)
    PROVE  Spec => []SignedOutIsOut
<1>1. Init => OneConnectionInv
  BY OneConnectionInit
<1>2. OneConnectionInv => SignedOutIsOut
  BY DEF OneConnectionInv, OneConnection, Undisturbed, SignedOutIsOut
<1> QED
  BY <1>1, <1>2, InvHolds, AloneHolds, OneNext, PTL DEF Spec

-----------------------------------------------------------------------------
(* Connections nobody can give up *)

\* A set that has no member more, and one that has one more.
LEMMA NoMore ==
    ASSUME NEW S, NEW T, NEW many \in Int, IsFiniteSet(S), Cardinality(S) <= many, T \subseteq S
    PROVE  IsFiniteSet(T) /\ Cardinality(T) <= many
<1>1. IsFiniteSet(T) /\ Cardinality(T) <= Cardinality(S)
  BY FS_Subset
<1>2. Cardinality(S) \in Nat /\ Cardinality(T) \in Nat
  BY <1>1, FS_CardinalityType
<1> QED
  BY <1>1, <1>2

LEMMA OneMore ==
    ASSUME NEW S, NEW T, NEW x, NEW many \in Int, IsFiniteSet(S), Cardinality(S) <= many,
           T \subseteq S \union {x}
    PROVE  IsFiniteSet(T) /\ Cardinality(T) <= many + 1
<1>0. Cardinality(S) \in Nat
  BY FS_CardinalityType
<1>1. IsFiniteSet(S \union {x}) /\ Cardinality(S \union {x}) <= Cardinality(S) + 1
  BY <1>0, FS_AddElement
<1>2. Cardinality(S \union {x}) \in Nat
  BY <1>1, FS_CardinalityType
<1>3. Cardinality(S \union {x}) <= many + 1
  BY <1>0, <1>1, <1>2
<1> QED
  BY <1>1, <1>3, NoMore

\* The connections given up for lost: those nobody can give up, and the one a
\* signout forgets though the server has not revoked it.
Lost == Orphans \union {t \in Tokens : /\ device[t] = "live"
                                       /\ \E p \in Procs : pc[p] \in {"erase", "clear"} /\ t = prev[p]}

\* What a command that runs alone holds, and where else that is.
Holds(p) ==
    /\ pc[p] \in {"idle", "load", "borrow"} => prev[p] = NoToken
    /\ pc[p] \notin {"save", "clearOld", "revokeOld"} => got[p] = NoToken
    /\ pc[p] \in {"check", "poll", "save", "revoke", "erase"} => prev[p] = InUse
    /\ pc[p] \in {"clearOld", "revokeOld"} => got[p] = toml["default"]

LostInv ==
    OneAtATime => /\ \A p \in Procs : Holds(p)
                  /\ IsFiniteSet(Lost) /\ Cardinality(Lost) <= machine.faults - faults

Filed == {toml[f] : f \in Files} \union {plugin}

\* With the other processes idle it depends on p alone.
LostOf(p) ==
    {t \in Tokens :
       /\ device[t] = "live"
       /\ \/ t \notin Filed /\ (pc[p] # "idle" => t \notin {prev[p], got[p]})
          \/ pc[p] \in {"erase", "clear"} /\ t = prev[p]}

LEMMA Lone ==
    ASSUME NEW p \in Procs
    PROVE  /\ (\A q \in Procs : q # p => pc[q] = "idle") => Lost = LostOf(p)
           /\ (\A q \in Procs : q # p => pc'[q] = "idle") => Lost' = LostOf(p)'
BY DEF Lost, Orphans, LostOf, Filed

\* The token in use is in a file.
LEMMA InUseIsFiled == InUse \in Filed /\ toml["default"] \in Filed /\ plugin \in Filed
BY DEF InUse, Filed, Files

\* How much a step may lose.
Growth == Lost' \subseteq Lost \/ (Fault /\ \E x : Lost' \subseteq Lost \union {x})

LEMMA HeldEnded ==
    ASSUME TypeOK, Alone, \A q \in Procs : Holds(q), NEW p \in Procs, pc[p] # "idle",
           NEW said, End(p, said)
    PROVE  /\ \A q \in Procs : Holds(q)'
           /\ Lost = LostOf(p)
           /\ Lost' = {t \in Tokens : device'[t] = "live" /\ t \notin Filed'}
<1>1. /\ \A q \in Procs : q # p => pc[q] = "idle"
      /\ \A q \in Procs : pc'[q] = "idle"
  BY Shapes DEF Alone, End
<1>2. \A q \in Procs : prev'[q] = NoToken /\ got'[q] = NoToken
  BY <1>1, Shapes DEF End, Holds
<1>3. \A q \in Procs : Holds(q)'
  BY <1>1, <1>2 DEF Holds
<1>4. Lost = LostOf(p) /\ Lost' = LostOf(p)'
  BY <1>1, Lone
<1> QED
  BY <1>1, <1>3, <1>4 DEF LostOf

LEMMA HeldOn ==
    ASSUME TypeOK, Alone, \A q \in Procs : Holds(q), NEW p \in Procs, pc[p] # "idle",
           NEW place \in Places \ {"idle"}, pc' = [pc EXCEPT ![p] = place],
           \A q \in Procs : q # p => prev'[q] = prev[q] /\ got'[q] = got[q],
           Holds(p)'
    PROVE  /\ \A q \in Procs : Holds(q)'
           /\ Lost = LostOf(p) /\ Lost' = LostOf(p)' /\ pc'[p] = place
<1>1. /\ \A q \in Procs : q # p => pc[q] = "idle" /\ pc'[q] = "idle"
      /\ pc'[p] = place
  BY Shapes DEF Alone
<1>2. \A q \in Procs : q # p => Holds(q)'
  BY <1>1 DEF Holds
<1>3. Lost = LostOf(p) /\ Lost' = LostOf(p)'
  BY <1>1, Lone
<1> QED
  BY <1>1, <1>2, <1>3

LEMMA HeldLoaded ==
    ASSUME TypeOK, Alone, \A q \in Procs : Holds(q), NEW p \in Procs, pc[p] \in {"load", "borrow"},
           NEW isPlugins, NEW opt, Loaded(p, InUse, isPlugins, opt), UNCHANGED <<files, device>>
    PROVE  (\A q \in Procs : Holds(q)') /\ Growth
<1>1. prev[p] = NoToken /\ got[p] = NoToken /\ Filed' = Filed /\ InUse' = InUse
  BY DEF Holds, Filed, InUse
<1>2. CASE End(p, "not signed in")
  <2>1. /\ \A q \in Procs : Holds(q)'
        /\ Lost = LostOf(p)
        /\ Lost' = {t \in Tokens : device'[t] = "live" /\ t \notin Filed'}
    BY <1>2, HeldEnded
  <2> QED
    BY <1>1, <2>1, NoTokenAssumption DEF LostOf, Growth
<1>3. CASE /\ pc' = [pc EXCEPT ![p] = AfterLoad(p, InUse)]
           /\ prev' = [prev EXCEPT ![p] = InUse]
           /\ got' = got
  <2>1. AfterLoad(p, InUse) \in {"check", "poll", "revoke"}
    BY DEF AfterLoad
  <2>2. pc'[p] \in {"check", "poll", "revoke"} /\ prev'[p] = InUse' /\ got'[p] = NoToken
    BY <1>1, <1>3, <2>1, Shapes
  <2>3. Holds(p)'
    BY <2>2 DEF Holds
  <2>4. /\ \A q \in Procs : Holds(q)'
        /\ Lost = LostOf(p) /\ Lost' = LostOf(p)'
    BY <1>3, <2>1, <2>3, HeldOn, Shapes DEF Places
  <2> QED
    BY <1>1, <2>2, <2>4, NoTokenAssumption DEF LostOf, Growth
<1> QED
  BY <1>2, <1>3 DEF Loaded

LEMMA LostStep ==
    ASSUME Inv, Alone, \A q \in Procs : Holds(q), NEW p \in Procs, Step(p)
    PROVE  (\A q \in Procs : Holds(q)') /\ Growth
<1>0. TypeOK /\ run[p].file = "default" /\ Holds(p)
  BY DEF Inv, Alone
<1>14. /\ InUse \in Filed /\ toml["default"] \in Filed /\ plugin \in Filed
       /\ UNCHANGED <<toml, plugin>> => Filed' = Filed /\ InUse' = InUse
  BY InUseIsFiled DEF Filed, InUse
<1>1. CASE LoadConfig(p)
  <2>1. CASE toml["default"] = NoToken
    <3>1. /\ pc[p] = "load" /\ pc' = [pc EXCEPT ![p] = "borrow"]
          /\ UNCHANGED <<files, device, prev, got>>
      BY <1>0, <1>1, <2>1 DEF LoadConfig
    <3>2. pc'[p] = "borrow" /\ Holds(p)'
      BY <1>0, <3>1, Shapes DEF Holds
    <3>3. /\ \A q \in Procs : Holds(q)'
          /\ Lost = LostOf(p) /\ Lost' = LostOf(p)'
      BY <1>0, <3>1, <3>2, HeldOn DEF Places
    <3> QED
      BY <1>14, <3>1, <3>2, <3>3 DEF LostOf, Growth
  <2>2. CASE toml["default"] # NoToken
    <3>1. /\ pc[p] = "load" /\ Loaded(p, InUse, FALSE, optOut["default"])
          /\ UNCHANGED <<files, device>>
      BY <1>0, <1>1, <2>2 DEF LoadConfig, InUse
    <3> QED
      BY <1>0, <3>1, HeldLoaded
  <2> QED
    BY <2>1, <2>2
<1>2. CASE BorrowPluginToken(p)
  <2>1. /\ pc[p] = "borrow" /\ plugin = InUse /\ UNCHANGED <<files, device>>
        /\ Loaded(p, plugin, plugin # NoToken, loadedOpt[p])
    BY <1>2 DEF BorrowPluginToken, Alone, InUse
  <2> QED
    BY <1>0, <2>1, HeldLoaded
<1>3. ASSUME NEW said, End(p, said), pc[p] # "idle", UNCHANGED <<files, device>>,
             pc[p] \in {"check", "poll"} \/ Fault
      PROVE  (\A q \in Procs : Holds(q)') /\ Growth
  <2>1. /\ \A q \in Procs : Holds(q)'
        /\ Lost = LostOf(p)
        /\ Lost' = {t \in Tokens : device'[t] = "live" /\ t \notin Filed'}
    BY <1>0, <1>3, HeldEnded
  <2>2. CASE pc[p] \in {"load", "borrow", "check", "poll", "revoke", "erase"}
    <3>1. prev[p] \in {InUse, NoToken} /\ got[p] = NoToken
      BY <1>0, <2>2 DEF Holds
    <3>2. Lost' \subseteq Lost
      BY <1>14, <1>3, <2>1, <3>1, NoTokenAssumption DEF LostOf
    <3> QED
      BY <2>1, <3>2 DEF Growth
  <2>3. CASE pc[p] = "save"
    <3>1. prev[p] = InUse
      BY <1>0, <2>3 DEF Holds
    <3>2. Lost' \subseteq Lost \union {got[p]}
      BY <1>14, <1>3, <2>1, <3>1 DEF LostOf
    <3> QED
      BY <1>3, <2>1, <2>3, <3>2 DEF Growth
  <2>4. CASE pc[p] \in {"clearOld", "revokeOld", "clear"}
    <3>1. got[p] \in {toml["default"], NoToken}
      BY <1>0, <2>4 DEF Holds
    <3>2. Lost' \subseteq Lost \union {prev[p]}
      BY <1>14, <1>3, <2>1, <3>1, NoTokenAssumption DEF LostOf
    <3> QED
      BY <1>3, <2>1, <2>4, <3>2 DEF Growth
  <2> QED
    BY <1>0, <1>3, <2>2, <2>3, <2>4, Shapes DEF Places
<1>4. CASE CheckToken(p)
  <2>1. CASE \E said : End(p, said)
    BY <1>3, <1>4, <2>1 DEF CheckToken
  <2>2. CASE Goto(p, "poll")
    <3>1. /\ pc[p] = "check" /\ pc' = [pc EXCEPT ![p] = "poll"]
          /\ UNCHANGED <<files, device, prev, got>>
      BY <1>4, <2>2 DEF CheckToken, Goto
    <3>2. pc'[p] = "poll" /\ Holds(p)'
      BY <1>0, <1>14, <3>1, Shapes DEF Holds
    <3>3. /\ \A q \in Procs : Holds(q)'
          /\ Lost = LostOf(p) /\ Lost' = LostOf(p)'
      BY <1>0, <3>1, <3>2, HeldOn DEF Places
    <3> QED
      BY <1>14, <3>1, <3>2, <3>3 DEF LostOf, Growth
  <2> QED
    BY <1>4, <2>1, <2>2 DEF CheckToken
<1>5. CASE PollApproved(p)
  <2>1. PICK t \in Tokens :
          /\ device' = [device EXCEPT ![t] = "live"]
          /\ \/ /\ got' = [got EXCEPT ![p] = t]
                /\ pc' = [pc EXCEPT ![p] = "save"]
                /\ prev' = prev
             \/ Fault /\ End(p, "failed")
    BY <1>5 DEF PollApproved
  <2>2. /\ pc[p] = "poll" /\ UNCHANGED files /\ prev[p] = InUse /\ got[p] = NoToken
        /\ \A u \in Tokens : device'[u] = "live" => u = t \/ device[u] = "live"
    BY <1>0, <1>5, <2>1, Shapes DEF PollApproved, Holds
  <2>3. CASE got' = [got EXCEPT ![p] = t] /\ pc' = [pc EXCEPT ![p] = "save"] /\ prev' = prev
    <3>1. pc'[p] = "save" /\ got'[p] = t /\ Holds(p)'
      BY <1>0, <1>14, <2>2, <2>3, Shapes DEF Holds
    <3>2. /\ \A q \in Procs : Holds(q)'
          /\ Lost = LostOf(p) /\ Lost' = LostOf(p)'
      BY <1>0, <2>2, <2>3, <3>1, HeldOn, Shapes DEF Places
    <3>3. Lost' \subseteq Lost
      BY <1>14, <2>2, <2>3, <3>1, <3>2, NoTokenAssumption DEF LostOf
    <3> QED
      BY <3>2, <3>3 DEF Growth
  <2>4. CASE Fault /\ End(p, "failed")
    <3>1. /\ \A q \in Procs : Holds(q)'
          /\ Lost = LostOf(p)
          /\ Lost' = {u \in Tokens : device'[u] = "live" /\ u \notin Filed'}
      BY <1>0, <2>2, <2>4, HeldEnded
    <3>2. Lost' \subseteq Lost \union {t}
      BY <1>14, <2>2, <3>1, NoTokenAssumption DEF LostOf
    <3> QED
      BY <2>4, <3>1, <3>2 DEF Growth
  <2> QED
    BY <2>1, <2>3, <2>4
<1>6. CASE PollFails(p)
  BY <1>3, <1>6 DEF PollFails
<1>7. CASE SaveToken(p)
  <2>1. CASE SaveFails(p)
    BY <1>3, <1>7, <2>1 DEF SaveToken, SaveFails
  <2>2. CASE /\ SaveConfig(p, got[p])
             /\ IF prev[p] = NoToken THEN End(p, "connected") ELSE Replacing(p)
    <3>1. /\ pc[p] = "save" /\ UNCHANGED <<plugin, device>> /\ prev[p] = InUse
          /\ toml' = [toml EXCEPT !["default"] = got[p]]
      BY <1>0, <1>7, <2>2 DEF SaveToken, SaveConfig, Holds
    <3>2. /\ toml["default"] \in {prev[p], NoToken} /\ toml'["default"] = got[p]
          /\ \A t \in Filed : t \in Filed' \/ t = toml["default"]
          /\ got[p] \in Filed'
      BY <1>0, <3>1, Shapes DEF InUse, Filed, Files
    <3>3. CASE prev[p] = NoToken /\ End(p, "connected")
      <4>1. /\ \A q \in Procs : Holds(q)'
            /\ Lost = LostOf(p)
            /\ Lost' = {u \in Tokens : device'[u] = "live" /\ u \notin Filed'}
        BY <1>0, <3>1, <3>3, HeldEnded
      <4> QED
        BY <3>1, <3>2, <3>3, <4>1, NoTokenAssumption DEF LostOf, Growth
    <3>4. CASE Replacing(p)
      <4>1. PICK place \in {"clearOld", "revokeOld"} : Goto(p, place)
        BY <3>4 DEF Replacing
      <4>2. pc' = [pc EXCEPT ![p] = place] /\ UNCHANGED <<prev, got>> /\ pc'[p] = place
        BY <1>0, <4>1, Shapes DEF Goto
      <4>3. Holds(p)'
        BY <3>2, <4>2 DEF Holds
      <4>4. /\ \A q \in Procs : Holds(q)'
            /\ Lost = LostOf(p) /\ Lost' = LostOf(p)'
        BY <1>0, <3>1, <4>2, <4>3, HeldOn DEF Places
      <4> QED
        BY <3>1, <3>2, <4>2, <4>4, NoTokenAssumption DEF LostOf, Growth
    <3> QED
      BY <2>2, <3>3, <3>4
  <2> QED
    BY <1>7, <2>1, <2>2 DEF SaveToken
<1>8. CASE ClearReplaced(p)
  <2>1. /\ pc[p] = "clearOld" /\ UNCHANGED <<toml, device, prev, got>>
        /\ plugin' \in {plugin, Cleared(prev[p])} /\ pc' = [pc EXCEPT ![p] = "revokeOld"]
    BY <1>8 DEF ClearReplaced, Goto
  <2>2. pc'[p] = "revokeOld" /\ Holds(p)'
    BY <1>0, <2>1, Shapes DEF Holds
  <2>3. /\ \A q \in Procs : Holds(q)'
        /\ Lost = LostOf(p) /\ Lost' = LostOf(p)'
    BY <1>0, <2>1, <2>2, HeldOn DEF Places
  <2>4. \A t \in Filed : t \in Filed' \/ t = prev[p]
    BY <2>1 DEF Filed, Cleared
  <2> QED
    BY <2>1, <2>2, <2>3, <2>4 DEF LostOf, Growth
<1>9. CASE RevokeReplaced(p)
  <2>1. /\ pc[p] = "revokeOld" /\ UNCHANGED files /\ End(p, "connected")
        /\ prev[p] \in Tokens /\ got[p] = toml["default"]
    BY <1>0, <1>9, Shapes DEF RevokeReplaced, Holds, Held
  <2>2. CASE Fault /\ UNCHANGED device
    BY <1>3, <2>1, <2>2
  <2>3. CASE Revoke(prev[p])
    <3>1. /\ \A q \in Procs : Holds(q)'
          /\ Lost = LostOf(p)
          /\ Lost' = {u \in Tokens : device'[u] = "live" /\ u \notin Filed'}
      BY <1>0, <2>1, HeldEnded
    <3>2. \A u \in Tokens : device'[u] = "live" => u # prev[p] /\ device[u] = "live"
      BY <1>0, <2>1, <2>3, Shapes DEF Revoke
    <3> QED
      BY <1>14, <2>1, <3>1, <3>2 DEF LostOf, Growth
  <2> QED
    BY <1>9, <2>2, <2>3 DEF RevokeReplaced
<1>10. CASE RevokeDevice(p)
  <2>1. /\ pc[p] = "revoke" /\ UNCHANGED files /\ prev[p] = InUse /\ prev[p] \in Tokens
        /\ got[p] = NoToken
    BY <1>0, <1>10, Shapes DEF RevokeDevice, Holds, Held
  <2>2. /\ \A u \in Tokens : device'[u] = "live" => device[u] = "live"
        /\ (\A u \in Tokens : device'[u] = "live" => u # prev[p]) \/ Fault
    BY <1>0, <1>10, <2>1, Shapes DEF RevokeDevice, Revoke
  <2>3. CASE End(p, "revoked")
    <3>1. /\ \A q \in Procs : Holds(q)'
          /\ Lost = LostOf(p)
          /\ Lost' = {u \in Tokens : device'[u] = "live" /\ u \notin Filed'}
      BY <1>0, <2>1, <2>3, HeldEnded
    <3> QED
      BY <1>14, <2>1, <2>2, <3>1, NoTokenAssumption DEF LostOf, Growth
  <2>4. CASE Goto(p, "erase")
    <3>1. pc' = [pc EXCEPT ![p] = "erase"] /\ UNCHANGED <<prev, got>> /\ pc'[p] = "erase"
      BY <1>0, <2>4, Shapes DEF Goto
    <3>2. Holds(p)'
      BY <1>14, <2>1, <3>1 DEF Holds
    <3>3. /\ \A q \in Procs : Holds(q)'
          /\ Lost = LostOf(p) /\ Lost' = LostOf(p)'
      BY <1>0, <2>1, <3>1, <3>2, HeldOn DEF Places
    <3>4. Lost' \subseteq Lost \union {prev[p]}
      BY <1>14, <2>1, <2>2, <3>1, <3>3 DEF LostOf
    <3>5. prev[p] \in Lost' => Fault
      BY <2>1, <2>2, <3>3 DEF LostOf
    <3> QED
      BY <3>3, <3>4, <3>5 DEF Growth
  <2> QED
    BY <1>10, <2>3, <2>4 DEF RevokeDevice
<1>11. CASE EraseToken(p)
  <2>1. CASE SaveFails(p)
    BY <1>3, <1>11, <2>1 DEF EraseToken, SaveFails
  <2>2. CASE SaveConfig(p, NoToken) /\ Goto(p, "clear")
    <3>1. /\ pc[p] = "erase" /\ UNCHANGED <<plugin, device, prev, got>> /\ prev[p] = InUse
          /\ toml' = [toml EXCEPT !["default"] = NoToken]
          /\ pc' = [pc EXCEPT ![p] = "clear"] /\ got[p] = NoToken
      BY <1>0, <1>11, <2>2 DEF EraseToken, SaveConfig, Goto, Holds
    <3>2. pc'[p] = "clear" /\ Holds(p)'
      BY <1>0, <3>1, Shapes DEF Holds
    <3>3. /\ \A q \in Procs : Holds(q)'
          /\ Lost = LostOf(p) /\ Lost' = LostOf(p)'
      BY <1>0, <3>1, <3>2, HeldOn DEF Places
    <3>4. \A t \in Filed : t \in Filed' \/ t \in {prev[p], NoToken}
      BY <1>0, <3>1, Shapes DEF Filed, InUse, Files
    <3> QED
      BY <3>1, <3>2, <3>3, <3>4, NoTokenAssumption DEF LostOf, Growth
  <2> QED
    BY <1>0, <1>11, <2>1, <2>2 DEF EraseToken
<1>12. CASE ClearPluginToken(p)
  <2>1. CASE Fault /\ UNCHANGED plugin
    BY <1>3, <1>12, <2>1 DEF ClearPluginToken
  <2>2. CASE plugin' = Cleared(prev[p])
    <3>1. /\ pc[p] = "clear" /\ UNCHANGED <<toml, device>> /\ got[p] = NoToken
          /\ \E said : End(p, said)
      BY <1>0, <1>12 DEF ClearPluginToken, Holds
    <3>2. /\ \A q \in Procs : Holds(q)'
          /\ Lost = LostOf(p)
          /\ Lost' = {u \in Tokens : device'[u] = "live" /\ u \notin Filed'}
      BY <1>0, <3>1, HeldEnded
    <3>3. \A t \in Filed : t \in Filed' \/ t = prev[p]
      BY <2>2, <3>1 DEF Filed, Cleared
    <3> QED
      BY <3>1, <3>2, <3>3, NoTokenAssumption DEF LostOf, Growth
  <2> QED
    BY <1>12, <2>1, <2>2 DEF ClearPluginToken
<1>13. CASE Die(p)
  BY <1>3, <1>13 DEF Die
<1> QED
  BY <1>1, <1>2, <1>4, <1>5, <1>6, <1>7, <1>8, <1>9, <1>10, <1>11, <1>12, <1>13 DEF Step

\* The faults of a machine that are used up.
Spent == machine.faults - faults

LEMMA Spending ==
    ASSUME Inv, faults <= machine.faults, [Next]_vars
    PROVE  /\ Spent \in Nat /\ Spent' \in Nat /\ Spent <= Spent'
           /\ Fault => Spent' = Spent + 1
           /\ faults' \in Nat /\ faults' <= machine'.faults
<1>1. faults \in Nat /\ machine.faults \in Nat /\ faults <= machine.faults
  BY MachinesAssumption DEF Inv, TypeOK
<1>2. faults' <= machine'.faults /\ machine' = machine /\ Inv'
  BY <1>1, FaultsFall, InvStep DEF Next
<1>3. PICK left \in Nat : left = faults'
  BY <1>2 DEF Inv, TypeOK
<1>4. left = faults \/ left = faults - 1
  BY <1>1, <1>3 DEF Next, Step, Start, RemovedRemotely, OptOut, LoadConfig,
     BorrowPluginToken, CheckToken, PollApproved, PollFails, SaveToken, SaveFails, ClearReplaced,
     RevokeReplaced, RevokeDevice, EraseToken, ClearPluginToken, Die, Fault
<1>5. Spent' = machine.faults - left
  BY <1>2, <1>3 DEF Spent
<1>6. Fault => left = faults - 1
  BY <1>1, <1>3 DEF Fault
<1> QED
  BY <1>1, <1>2, <1>3, <1>4, <1>5, <1>6 DEF Spent

LEMMA LostNext ==
    ASSUME Inv, Alone, OneAtATime, \A q \in Procs : Holds(q), [Next]_vars
    PROVE  (\A q \in Procs : Holds(q)') /\ Growth
<1>1. CASE UNCHANGED vars
  <2>1. /\ \A q \in Procs : Holds(q)' <=> Holds(q)
        /\ Lost' = Lost
    BY <1>1 DEF Holds, InUse, Lost, Orphans
  <2> QED
    BY <2>1 DEF Growth
<1>2. ASSUME NEW p \in Procs, NEW cmd \in Commands, NEW file \in Files, Start(p, cmd, file)
      PROVE  (\A q \in Procs : Holds(q)') /\ Growth
  <2>1. /\ \A q \in Procs : pc[q] = "idle"
        /\ \A q \in Procs : pc'[q] = IF q = p THEN "load" ELSE "idle"
        /\ UNCHANGED <<files, device, prev, got>>
    BY <1>2, Shapes DEF Start, OneAtATime, Inv
  <2>2. \A q \in Procs : prev[q] = NoToken /\ got[q] = NoToken
    BY <2>1 DEF Holds
  <2>3. \A q \in Procs : Holds(q)'
    BY <2>1, <2>2 DEF Holds
  <2>4. Lost = LostOf(p) /\ Lost' = LostOf(p)' /\ Filed' = Filed
    BY <2>1, Lone DEF Filed
  <2> QED
    BY <2>1, <2>3, <2>4 DEF LostOf, Growth
<1>3. ASSUME NEW p \in Procs, Step(p) PROVE (\A q \in Procs : Holds(q)') /\ Growth
  BY <1>3, LostStep
<1>4. ASSUME NEW t \in Tokens, RemovedRemotely(t)
      PROVE  (\A q \in Procs : Holds(q)') /\ Growth
  <2>1. UNCHANGED <<files, pc, prev, got>>
        /\ \A u \in Tokens : device'[u] = "live" => device[u] = "live"
    BY <1>4, Shapes DEF RemovedRemotely, Inv
  <2>2. \A q \in Procs : Holds(q)' <=> Holds(q)
    BY <2>1 DEF Holds, InUse
  <2>3. Lost' \subseteq Lost
    BY <2>1 DEF Lost, Orphans
  <2> QED
    BY <2>2, <2>3 DEF Growth
<1>5. CASE OptOut
  <2>1. UNCHANGED <<toml, plugin, device, pc, prev, got>>
    BY <1>5 DEF OptOut
  <2>2. /\ \A q \in Procs : Holds(q)' <=> Holds(q)
        /\ Lost' = Lost
    BY <2>1 DEF Holds, InUse, Lost, Orphans
  <2> QED
    BY <2>2 DEF Growth
<1> QED
  BY <1>1, <1>2, <1>3, <1>4, <1>5 DEF Next

LEMMA LostInvNext ==
    ASSUME Inv, AloneInv, LostInv, faults <= machine.faults, [Next]_vars
    PROVE  LostInv'
<1> SUFFICES ASSUME OneAtATime'
             PROVE  /\ \A q \in Procs : Holds(q)'
                    /\ IsFiniteSet(Lost') /\ Cardinality(Lost') <= Spent'
  BY DEF LostInv, Spent
<1>1. OneAtATime
  BY DEF OneAtATime, Next
<1>2. /\ Alone /\ \A q \in Procs : Holds(q)
      /\ IsFiniteSet(Lost) /\ Cardinality(Lost) <= Spent
  BY <1>1 DEF AloneInv, LostInv, Spent
<1>3. (\A q \in Procs : Holds(q)') /\ Growth
  BY <1>1, <1>2, LostNext
<1>4. Spent \in Int /\ Spent' \in Int /\ Spent <= Spent'
  BY Spending
<1>5. CASE Lost' \subseteq Lost
  <2>1. IsFiniteSet(Lost') /\ Cardinality(Lost') <= Spent
    BY <1>2, <1>4, <1>5, NoMore
  <2>2. Cardinality(Lost') \in Nat
    BY <2>1, FS_CardinalityType
  <2> QED
    BY <1>3, <1>4, <2>1, <2>2
<1>6. ASSUME Fault, NEW x, Lost' \subseteq Lost \union {x}
      PROVE  IsFiniteSet(Lost') /\ Cardinality(Lost') <= Spent'
  <2>1. IsFiniteSet(Lost') /\ Cardinality(Lost') <= Spent + 1
    BY <1>2, <1>4, <1>6, OneMore
  <2>2. Spent' = Spent + 1
    BY <1>6, Spending
  <2> QED
    BY <2>1, <2>2
<1> QED
  BY <1>3, <1>5, <1>6 DEF Growth

(***************************************************************************)
(* A device nobody on this machine can give up any more stays in the       *)
(* account only when something failed, one for each failure at most        *)
(* (activate.go: "revoked, so Settings does not keep a device nobody       *)
(* uses"): for any number of commands of the one configuration file, one   *)
(* after another, killed or refused anywhere.                              *)
(***************************************************************************)
THEOREM OrphansAreFew == Spec => []OrphansNeedFaults
<1>1. Init => LostInv /\ faults <= machine.faults
  <2> SUFFICES ASSUME Init PROVE LostInv /\ faults <= machine.faults
    OBVIOUS
  <2>1. faults = machine.faults /\ machine.faults \in Nat
    BY MachinesAssumption DEF Init
  <2>2. \A p \in Procs : Holds(p)
    BY DEF Init, Holds
  <2>3. Lost = {}
    <3>1. \A t \in Tokens : device[t] = "live" => t \in {toml["default"], toml["other"], plugin}
      BY DEF Init, Files
    <3>2. \A p \in Procs : pc[p] = "idle"
      BY DEF Init
    <3> QED
      BY <3>1, <3>2 DEF Lost, Orphans, Files
  <2>4. IsFiniteSet(Lost) /\ Cardinality(Lost) = 0
    BY <2>3, FS_EmptySet
  <2> QED
    BY <2>1, <2>2, <2>4 DEF LostInv
<1>2. Inv /\ LostInv /\ faults <= machine.faults => OrphansNeedFaults
  <2> SUFFICES ASSUME Inv, LostInv, OneAtATime PROVE Cardinality(Orphans) <= Spent
    BY DEF OrphansNeedFaults, Spent
  <2>1. IsFiniteSet(Lost) /\ Cardinality(Lost) <= Spent /\ Orphans \subseteq Lost
    BY DEF LostInv, Lost, Spent
  <2>2. machine.faults \in Nat /\ faults \in Nat
    BY MachinesAssumption DEF Inv, TypeOK
  <2>3. Spent \in Int
    BY <2>2 DEF Spent
  <2> QED
    BY <2>1, <2>3, NoMore
<1>3. Inv /\ AloneInv /\ LostInv /\ faults <= machine.faults /\ [Next]_vars
        => LostInv' /\ (faults <= machine.faults)'
  BY LostInvNext, FaultsFall
<1> QED
  BY InvHolds, AloneHolds, <1>1, <1>2, <1>3, PTL DEF Spec

=============================================================================
