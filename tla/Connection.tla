----------------------------- MODULE Connection -----------------------------
(***************************************************************************)
(* The machine's connection to inlinr: the device token in config.toml,    *)
(* the one an older Claude Code plugin left in claude-code.json, and the   *)
(* devices the server knows.  `inlinr activate` (cmd/inlinr/activate.go)   *)
(* and `inlinr signout` (signout.go) read those files, talk to the server  *)
(* for up to minutes, and write the files back; several may run at once,   *)
(* and each may be killed anywhere.                                        *)
(*                                                                         *)
(* Each file is replaced in one step (config.go: writeAtomic), so a reader *)
(* sees a whole file; nothing orders one command's reading with another's  *)
(* writing.                                                                *)
(***************************************************************************)
EXTENDS Integers, FiniteSets

CONSTANTS
    Procs,        \* slots for commands: how many may run at once
    Tokens,       \* device tokens
    NoToken,      \* an empty device_token
    Machines      \* what a behaviour may start from, and what it may meet:
                  \*   toml, other, plugin  the tokens an earlier history left
                  \*   overlap, overrides   whether commands overlap, and whether
                  \*                        they may be given --config
                  \*   edits                whether the user edits config.toml
                  \*   faults               bound on its faults

Files == {"default", "other"}   \* ~/.inlinr/config.toml, and one for --config
Held == Tokens \union {NoToken}

ASSUME NoTokenAssumption == NoToken \notin Tokens
ASSUME MachinesAssumption ==
    Machines \subseteq [toml : Held, other : Held, plugin : Held,
                        overlap : BOOLEAN, overrides : BOOLEAN, edits : BOOLEAN, faults : Nat]

Commands == {"activate", "replace", "signout", "keep-local"}
NoCommand == [cmd |-> "none", file |-> "default"]
Silence == [said |-> "nothing", file |-> "default"]

VARIABLES
    machine,   \* the member of Machines this behaviour is of
    toml,      \* device_token of each configuration file
    optOut,    \* of each configuration file: behavior.deps_sync = false
    plugin,    \* deviceToken of claude-code.json
    device,    \* what the server knows of each token
    pc, run,   \* of each process: its place, and its command line
    prev,      \* the token Load returned
    borrowed,  \* TokenFrom is set: that token is the plugin's
    loadedOpt, \* the settings Load returned
    got,       \* the token the server issued to this activate
    outcome,   \* what the last command to end said, and of which file
    optedOut,  \* the user has written deps_sync = false   (history)
    faults     \* faults still to come

files == <<toml, optOut, plugin>>
local == <<prev, borrowed, loadedOpt, got>>
vars == <<machine, files, device, pc, run, local, outcome, optedOut, faults>>

Init ==
    /\ machine \in Machines
    /\ toml = [f \in Files |-> IF f = "default" THEN machine.toml ELSE machine.other]
    /\ optOut = [f \in Files |-> FALSE]
    /\ plugin = machine.plugin
    /\ device = [t \in Tokens |->
                   IF t \in {machine.toml, machine.other, machine.plugin}
                   THEN "live" ELSE "unissued"]
    /\ pc = [p \in Procs |-> "idle"]
    /\ run = [p \in Procs |-> NoCommand]
    /\ prev = [p \in Procs |-> NoToken]
    /\ borrowed = [p \in Procs |-> FALSE]
    /\ loadedOpt = [p \in Procs |-> FALSE]
    /\ got = [p \in Procs |-> NoToken]
    /\ outcome = Silence
    /\ optedOut = FALSE
    /\ faults = machine.faults

-----------------------------------------------------------------------------
\* The token every command and plugin of this machine sends with (Load).
InUse == IF toml["default"] # NoToken THEN toml["default"] ELSE plugin

Activates(p) == run[p].cmd \in {"activate", "replace"}

Fault == faults > 0 /\ faults' = faults - 1

\* The process goes on, with what it knew.
Goto(p, place) ==
    /\ pc' = [pc EXCEPT ![p] = place]
    /\ UNCHANGED <<run, prev, borrowed, loadedOpt, got, outcome>>

\* The process ends, telling the user how, and forgets everything.
End(p, said) ==
    /\ pc' = [pc EXCEPT ![p] = "idle"]
    /\ outcome' = [said |-> said, file |-> run[p].file]
    /\ run' = [run EXCEPT ![p] = NoCommand]
    /\ prev' = [prev EXCEPT ![p] = NoToken]
    /\ borrowed' = [borrowed EXCEPT ![p] = FALSE]
    /\ loadedOpt' = [loadedOpt EXCEPT ![p] = FALSE]
    /\ got' = [got EXCEPT ![p] = NoToken]

Revoke(t) == device' = [device EXCEPT ![t] = IF @ = "live" THEN "revoked" ELSE @]

-----------------------------------------------------------------------------
(* Load: the file first; claude-code.json only when it holds no token *)

Start(p, cmd, file) ==
    /\ pc[p] = "idle"
    /\ machine.overlap \/ \A q \in Procs : pc[q] = "idle"
    /\ file = "other" => machine.overrides
    /\ run' = [run EXCEPT ![p] = [cmd |-> cmd, file |-> file]]
    /\ outcome' = Silence
    /\ pc' = [pc EXCEPT ![p] = "load"]
    /\ UNCHANGED <<files, device, prev, borrowed, loadedOpt, got, optedOut, faults>>

\* Mistake: activate asks the server about whatever Load returned.
AlwaysCheck(p, token) ==
    IF ~Activates(p) THEN "revoke"
    ELSE IF run[p].cmd = "activate" THEN "check" ELSE "poll"

\* Mistake: activate connects again without asking.
NeverCheck(p, token) ==
    IF ~Activates(p) THEN "revoke" ELSE "poll"

\* Where a command goes once it has its token.
AfterLoad(p, token) ==
    IF ~Activates(p) THEN "revoke"
    ELSE IF token # NoToken /\ run[p].cmd = "activate" THEN "check" ELSE "poll"

Loaded(p, token, isPlugins, opt) ==
    IF token = NoToken /\ ~Activates(p)
    THEN End(p, "not signed in")
    ELSE /\ pc' = [pc EXCEPT ![p] = AfterLoad(p, token)]
         /\ prev' = [prev EXCEPT ![p] = token]
         /\ borrowed' = [borrowed EXCEPT ![p] = isPlugins]
         /\ loadedOpt' = [loadedOpt EXCEPT ![p] = opt]
         /\ UNCHANGED <<run, got, outcome>>

LoadConfig(p) ==
    /\ pc[p] = "load"
    /\ LET file == run[p].file
       IN IF toml[file] = NoToken /\ file = "default"
          THEN /\ pc' = [pc EXCEPT ![p] = "borrow"]
               /\ loadedOpt' = [loadedOpt EXCEPT ![p] = optOut[file]]
               /\ UNCHANGED <<run, prev, borrowed, got, outcome>>
          ELSE Loaded(p, toml[file], FALSE, optOut[file])
    /\ UNCHANGED <<files, device, optedOut, faults>>

BorrowPluginToken(p) ==
    /\ pc[p] = "borrow"
    /\ Loaded(p, plugin, plugin # NoToken, loadedOpt[p])
    /\ UNCHANGED <<files, device, optedOut, faults>>

-----------------------------------------------------------------------------
(* inlinr activate *)

\* Without --replace: a working connection is kept, a refused one replaced.
CheckToken(p) ==
    /\ pc[p] = "check"
    /\ \/ device[prev[p]] = "live" /\ End(p, "kept") /\ UNCHANGED faults
       \/ device[prev[p]] # "live" /\ Goto(p, "poll") /\ UNCHANGED faults
       \/ Fault /\ End(p, "failed")
    /\ UNCHANGED <<files, device, optedOut>>

\* device.Init and PollUntil: the user approves, and the server issues a
\* token.  Its answer may be lost.
PollApproved(p) ==
    /\ pc[p] = "poll"
    /\ \E t \in Tokens :
         /\ device[t] = "unissued"
         /\ device' = [device EXCEPT ![t] = "live"]
         /\ \/ /\ got' = [got EXCEPT ![p] = t]
               /\ pc' = [pc EXCEPT ![p] = "save"]
               /\ UNCHANGED <<run, prev, borrowed, loadedOpt, outcome, faults>>
            \/ Fault /\ End(p, "failed")
    /\ UNCHANGED <<files, optedOut>>

\* The code expires, is denied, or one poll fails: any error but
\* authorization_pending ends PollUntil.
PollFails(p) ==
    /\ pc[p] = "poll"
    /\ End(p, "failed")
    /\ UNCHANGED <<files, device, optedOut, faults>>

\* config.Save writes ~/.inlinr/config.toml whatever file was loaded, with
\* every setting as Load returned it.
SaveConfig(p, token) ==
    /\ toml' = [toml EXCEPT !["default"] = token]
    /\ optOut' = [optOut EXCEPT !["default"] = loadedOpt[p]]

SaveFails(p) == Fault /\ End(p, "failed") /\ UNCHANGED <<toml, optOut>>

Replacing(p) == Goto(p, IF borrowed[p] THEN "clearOld" ELSE "revokeOld")

\* Mistake: the connection replaced is revoked before the new one is saved.
RevokeThenSave(p) ==
    /\ pc[p] = "save"
    /\ prev[p] # NoToken
    /\ Goto(p, "revokeOld")
    /\ UNCHANGED <<files, device, optedOut, faults>>

\* Mistake: TokenFrom is not reset, so Save drops the new token.
SaveAsBorrowed(p) ==
    /\ pc[p] = "save"
    /\ SaveConfig(p, IF borrowed[p] THEN NoToken ELSE got[p])
    /\ IF prev[p] = NoToken THEN End(p, "connected") ELSE Replacing(p)
    /\ UNCHANGED <<plugin, device, optedOut, faults>>

SaveToken(p) ==
    /\ pc[p] = "save"
    /\ \/ /\ SaveConfig(p, got[p])
          /\ IF prev[p] = NoToken THEN End(p, "connected") ELSE Replacing(p)
          /\ UNCHANGED faults
       \/ SaveFails(p)
    /\ UNCHANGED <<plugin, device, optedOut>>

\* Mistake: the plugin's file is left alone.
KeptInFile(token) == plugin

\* ClearPluginToken: only when the file holds this very token.
Cleared(token) == IF plugin = token THEN NoToken ELSE plugin

ClearReplaced(p) ==
    /\ pc[p] = "clearOld"
    /\ \/ plugin' = Cleared(prev[p]) /\ UNCHANGED faults
       \/ Fault /\ UNCHANGED plugin
    /\ Goto(p, "revokeOld")
    /\ UNCHANGED <<toml, optOut, device, optedOut>>

\* Mistake: the connection replaced is not revoked.
LeaveReplaced(p) ==
    /\ pc[p] = "revokeOld"
    /\ End(p, "connected")
    /\ UNCHANGED <<files, device, optedOut, faults>>

RevokeReplaced(p) ==
    /\ pc[p] = "revokeOld"
    /\ \/ Revoke(prev[p]) /\ UNCHANGED faults
       \/ Fault /\ UNCHANGED device
    /\ End(p, "connected")
    /\ UNCHANGED <<files, optedOut>>

-----------------------------------------------------------------------------
(* inlinr signout *)

\* Whatever the server answers, the command goes on.
RevokeDevice(p) ==
    /\ pc[p] = "revoke"
    /\ \/ Revoke(prev[p]) /\ UNCHANGED faults
       \/ Fault /\ UNCHANGED device
    /\ IF run[p].cmd = "keep-local" THEN End(p, "revoked") ELSE Goto(p, "erase")
    /\ UNCHANGED <<files, optedOut>>

EraseToken(p) ==
    /\ pc[p] = "erase"
    /\ \/ /\ SaveConfig(p, NoToken)
          /\ IF run[p].file = "default" THEN Goto(p, "clear") ELSE End(p, "signed out")
          /\ UNCHANGED faults
       \/ SaveFails(p)
    /\ UNCHANGED <<plugin, device, optedOut>>

ClearPluginToken(p) ==
    /\ pc[p] = "clear"
    /\ \/ plugin' = Cleared(prev[p]) /\ End(p, "signed out") /\ UNCHANGED faults
       \/ Fault /\ End(p, "failed") /\ UNCHANGED plugin
    /\ UNCHANGED <<toml, optOut, device, optedOut>>

-----------------------------------------------------------------------------
(* The rest of the world *)

Die(p) ==
    /\ pc[p] # "idle"
    /\ Fault
    /\ End(p, "failed")
    /\ UNCHANGED <<files, device, optedOut>>

\* A device is removed in the account's settings on inlinr.com.
RemovedRemotely(t) ==
    /\ device[t] = "live"
    /\ device' = [device EXCEPT ![t] = "removed"]
    /\ UNCHANGED <<files, pc, run, local, outcome, optedOut, faults>>

\* The user writes deps_sync = false in config.toml.
OptOut ==
    /\ machine.edits /\ ~optedOut
    /\ optedOut' = TRUE
    /\ optOut' = [optOut EXCEPT !["default"] = TRUE]
    /\ UNCHANGED <<toml, plugin, device, pc, run, local, outcome, faults>>

Step(p) ==
    \/ LoadConfig(p) \/ BorrowPluginToken(p)
    \/ CheckToken(p) \/ PollApproved(p) \/ PollFails(p) \/ SaveToken(p)
    \/ ClearReplaced(p) \/ RevokeReplaced(p)
    \/ RevokeDevice(p) \/ EraseToken(p) \/ ClearPluginToken(p)
    \/ Die(p)

Next ==
    /\ UNCHANGED machine
    /\ \/ \E p \in Procs : \E cmd \in Commands, file \in Files : Start(p, cmd, file)
       \/ \E p \in Procs : Step(p)
       \/ \E t \in Tokens : RemovedRemotely(t)
       \/ OptOut

Spec == Init /\ [][Next]_vars

-----------------------------------------------------------------------------
(* Properties *)

Places == {"idle", "load", "borrow", "check", "poll", "save", "clearOld",
           "revokeOld", "revoke", "erase", "clear"}

TypeOK ==
    /\ machine \in Machines
    /\ toml \in [Files -> Held]
    /\ optOut \in [Files -> BOOLEAN]
    /\ plugin \in Held
    /\ device \in [Tokens -> {"unissued", "live", "removed", "revoked"}]
    /\ pc \in [Procs -> Places]
    /\ run \in [Procs -> [cmd : Commands \union {"none"}, file : Files]]
    /\ prev \in [Procs -> Held]
    /\ borrowed \in [Procs -> BOOLEAN]
    /\ loadedOpt \in [Procs -> BOOLEAN]
    /\ got \in [Procs -> Held]
    /\ outcome \in [said : {"nothing", "failed", "kept", "connected",
                            "not signed in", "revoked", "signed out"},
                    file : Files]
    /\ optedOut \in BOOLEAN
    /\ faults \in Nat
    /\ \A p \in Procs :
         /\ pc[p] \in {"check", "clearOld", "revokeOld", "revoke", "erase", "clear"}
              => prev[p] # NoToken
         /\ pc[p] = "save" => got[p] # NoToken

(***************************************************************************)
(* Replacing a connection revokes the old one, and never the one the       *)
(* machine uses by then: however activations, signouts and crashes         *)
(* overlap, the token an activate is about to revoke is not the one in     *)
(* config.toml (activate.go: "held nowhere on this machine any more").     *)
(***************************************************************************)
NeverRevokesCurrent ==
    \A p \in Procs : pc[p] \in {"clearOld", "revokeOld"} => toml["default"] # prev[p]

\* Commands of the one configuration file, one after another: what they tell
\* the user is about the machine's only connection.
OneAtATime == ~machine.overlap /\ ~machine.overrides

(***************************************************************************)
(* What the user was told is so: after "signed in" or "already connected"  *)
(* every plugin of the machine sends with a token that works, unless its   *)
(* device is removed on inlinr.com.                                        *)
(***************************************************************************)
ConnectedMeansLive ==
    OneAtATime /\ outcome.said \in {"connected", "kept"} =>
        InUse # NoToken /\ device[InUse] \in {"live", "removed"}

(***************************************************************************)
(* After "signed out" nothing on the machine has a token to send with      *)
(* (signout.go: "this signs them all out"; README: "One connection per     *)
(* machine"): as long as nothing failed, which may have left a second one. *)
(***************************************************************************)
SignedOutIsOut ==
    OneAtATime /\ outcome.said = "signed out" /\ faults = machine.faults => InUse = NoToken

(***************************************************************************)
(* And the file the command was given holds no token any more              *)
(* (signout.go: "clears it from local config. The clear always happens").  *)
(***************************************************************************)
ClearedWhereItWas ==
    outcome.said = "signed out" => toml[outcome.file] = NoToken

(***************************************************************************)
(* A device nobody on this machine uses stays in the account only when     *)
(* something failed: each needs a fault of its own (activate.go: "revoked, *)
(* so Settings does not keep a device nobody uses").                       *)
(***************************************************************************)
Orphans ==
    {t \in Tokens : /\ device[t] = "live"
                    /\ t \notin {toml[f] : f \in Files} \union {plugin}
                    /\ \A p \in Procs : pc[p] # "idle" => t \notin {prev[p], got[p]}}

OrphansNeedFaults ==
    OneAtATime => Cardinality(Orphans) <= machine.faults - faults

(***************************************************************************)
(* Without --replace a working connection is never replaced (activate.go:  *)
(* "A machine already connected keeps its connection") by an activate that *)
(* runs alone.                                                             *)
(***************************************************************************)
KeepsLiveConnection ==
    [][\A p \in Procs :
         OneAtATime /\ run[p].cmd = "activate" /\ pc[p] = "save" /\ toml' # toml
           => InUse = NoToken \/ device[InUse] # "live"]_vars

(***************************************************************************)
(* deps_sync = false stays in config.toml once the user wrote it           *)
(* (config.go: "`deps_sync = false` turns the check itself off").          *)
(***************************************************************************)
OptOutSticks == optedOut => optOut["default"]

=============================================================================
