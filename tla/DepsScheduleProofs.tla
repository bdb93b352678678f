------------------------- MODULE DepsScheduleProofs -------------------------
(***************************************************************************)
(* What TLAPS proves of DepsSchedule, for any number of heartbeats and     *)
(* repositories and whatever the server answers.                           *)
(***************************************************************************)
EXTENDS DepsSchedule, TLAPS

USE DEF vars, disk, local

(***************************************************************************)
(* No time on its way to the schedule is far away: not in either file, not *)
(* in what a writer read, not in what it is about to write.                *)
(***************************************************************************)
Soon(time, at) == \E wait \in Waits : time <= at + wait
AllSoonIn(schedule, at) == \A r \in DOMAIN schedule : Soon(schedule[r], at)

AllSoon ==
    /\ AllSoonIn(json, clock)
    /\ AllSoonIn(tmp, clock)
    /\ \A p \in Procs : /\ now[p] <= clock
                        /\ Soon(until[p], clock)
                        /\ AllSoonIn(view[p], clock)

Inv == TypeOK /\ AllSoon

\* The waits are integers, the claims among them.
LEMMA WaitsType == /\ \A wait \in Waits : wait \in Int
                   /\ RetryAfter \in Waits /\ Day \in Waits
                   /\ \A after \in CheckAfters : Wait(after) \in Waits /\ Wait(after) \in Nat
BY TimesAssumption DEF Waits, Wait

LEMMA NothingType == IsSchedule(Nothing) /\ DOMAIN Nothing = {}
BY DEF IsSchedule, Nothing

\* A time that is soon stays so.
LEMMA StaysSoon ==
    ASSUME NEW time \in Int, NEW at \in Nat, NEW later \in Nat, at <= later, Soon(time, at)
    PROVE  Soon(time, later)
<1>1. PICK wait \in Waits : time <= at + wait
  BY DEF Soon
<1>2. wait \in Int
  BY WaitsType
<1>3. time <= later + wait
  BY <1>1, <1>2
<1> QED
  BY <1>3 DEF Soon

LEMMA AllStaySoon ==
    ASSUME NEW s, IsSchedule(s), NEW at \in Nat, NEW later \in Nat, at <= later,
           AllSoonIn(s, at)
    PROVE  AllSoonIn(s, later)
BY StaysSoon DEF AllSoonIn, IsSchedule

\* What Defer puts off from the start of its process is put off to soon.
LEMMA ClaimIsSoon ==
    ASSUME NEW time \in Nat, NEW wait \in Waits, NEW at \in Nat, time <= at
    PROVE  Soon(time + wait, at)
<1>1. wait \in Int
  BY WaitsType
<1> QED
  BY <1>1 DEF Soon

\* A schedule Defer writes, from one it read.
LEMMA DeferredType ==
    ASSUME NEW s, IsSchedule(s), NEW r \in Remotes, NEW time \in Int,
           NEW at, AllSoonIn(s, at), Soon(time, at)
    PROVE  IsSchedule(Deferred(s, r, time)) /\ AllSoonIn(Deferred(s, r, time), at)
BY DEF IsSchedule, Deferred, AllSoonIn

LEMMA OverwritesType ==
    ASSUME NEW old, NEW new, NEW text \in Overwrites(old, new), IsSchedule(new),
           NEW at, AllSoonIn(new, at)
    PROVE  IsSchedule(text) /\ AllSoonIn(text, at)
BY NothingType DEF Overwrites, Torn, AllSoonIn

-----------------------------------------------------------------------------
LEMMA TypeInit == Init => TypeOK
<1> SUFFICES ASSUME Init PROVE TypeOK
  OBVIOUS
<1>1. IsSchedule(json) /\ IsSchedule(tmp) /\ tmpExists \in BOOLEAN /\ ~tmpExists /\ tmp = Torn
  BY NothingType DEF Init, Torn
<1>2. clock \in Nat /\ faults \in Nat /\ overlap \in BOOLEAN
  BY MaxFaultsAssumption, OverlapsAssumption DEF Init
<1>3. /\ pc \in [Procs -> {"idle", "look", "spawn", "check", "ask", "load", "open",
                           "write", "rename"}]
      /\ remote \in [Procs -> Remotes \union {NoRemote}]
      /\ \A p \in Procs : pc[p] = "idle" /\ remote[p] = NoRemote
      /\ next \in [Procs -> {"spawn", "ask", "end"}]
  BY DEF Init
<1>4. /\ now \in [Procs -> Nat] /\ until \in [Procs -> Nat]
  BY DEF Init
<1>5. DOMAIN view = Procs /\ \A p \in Procs : IsSchedule(view[p])
  BY NothingType DEF Init
<1>6. fd \in [Procs -> {"none", "tmp", "json", "gone"}] /\ \A p \in Procs : fd[p] = "none"
  BY DEF Init
<1>7. asked \in [Remotes -> [at : Int, wait : Nat]]
  BY TimesAssumption DEF Init
<1> QED
  BY <1>1, <1>2, <1>3, <1>4, <1>5, <1>6, <1>7 DEF TypeOK

LEMMA InvInit == Init => Inv
<1> SUFFICES ASSUME Init PROVE Inv
  OBVIOUS
<1>1. Soon(0, 0)
  BY WaitsType, TimesAssumption DEF Soon
<1>2. AllSoon
  BY <1>1, NothingType DEF Init, AllSoon, AllSoonIn, Torn
<1> QED
  BY <1>2, TypeInit DEF Inv

-----------------------------------------------------------------------------
(***************************************************************************)
(* Every step keeps the types.                                             *)
(***************************************************************************)
LEMMA TypeHeartbeat ==
    ASSUME TypeOK, NEW p \in Procs, NEW r \in Remotes, Heartbeat(p, r)
    PROVE  TypeOK'
BY NoRemoteAssumption DEF TypeOK, Heartbeat, Goto

LEMMA TypeLook ==
    ASSUME TypeOK, NEW p \in Procs, Look(p)
    PROVE  TypeOK'
<1>1. CASE Due(remote[p], now[p])
  BY <1>1, TimesAssumption DEF TypeOK, Look, CallDefer, Goto
<1>2. CASE ~Due(remote[p], now[p])
  BY <1>2 DEF TypeOK, Look, End, Goto
<1> QED
  BY <1>1, <1>2

LEMMA TypeSpawn ==
    ASSUME TypeOK, NEW p \in Procs, Spawn(p)
    PROVE  TypeOK'
BY DEF TypeOK, Spawn, Goto

LEMMA TypeCheck ==
    ASSUME TypeOK, NEW p \in Procs, Check(p)
    PROVE  TypeOK'
<1>1. CASE CallDefer(p, now[p] + RetryAfter, "end")
  BY <1>1, TimesAssumption DEF TypeOK, Check, CallDefer, Goto
<1>2. CASE CallDefer(p, now[p] + Day, "end")
  BY <1>2, TimesAssumption DEF TypeOK, Check, CallDefer, Goto
<1>3. CASE End(p)
  BY <1>3 DEF TypeOK, Check, End, Goto
<1>4. CASE CallDefer(p, now[p] + RetryAfter, "ask")
  BY <1>4, TimesAssumption DEF TypeOK, Check, CallDefer, Goto
<1> QED
  BY <1>1, <1>2, <1>3, <1>4 DEF Check

LEMMA TypeAskFails ==
    ASSUME TypeOK, NEW p \in Procs, AskFails(p)
    PROVE  TypeOK'
<1>1. asked' \in [Remotes -> [at : Int, wait : Nat]]
  BY TimesAssumption DEF TypeOK, AskFails
<1> QED
  BY <1>1 DEF TypeOK, AskFails, End, Goto

LEMMA TypeAsk ==
    ASSUME TypeOK, NEW p \in Procs, Ask(p)
    PROVE  TypeOK'
<1> PICK after \in CheckAfters :
         /\ asked' = [asked EXCEPT ![remote[p]] = [at |-> now[p], wait |-> Wait(after)]]
         /\ CallDefer(p, now[p] + Wait(after), "end")
  BY DEF Ask
<1>1. Wait(after) \in Nat
  BY WaitsType
<1>2. asked' \in [Remotes -> [at : Int, wait : Nat]]
  <2>1. now[p] \in Nat
    BY DEF TypeOK
  <2>2. [at |-> now[p], wait |-> Wait(after)] \in [at : Int, wait : Nat]
    BY <1>1, <2>1
  <2> QED
    BY <2>2 DEF TypeOK
<1>3. until' \in [Procs -> Nat]
  BY <1>1 DEF TypeOK, CallDefer
<1> QED
  BY <1>2, <1>3 DEF TypeOK, Ask, CallDefer, Goto

LEMMA TypeDie ==
    ASSUME TypeOK, NEW p \in Procs, Die(p)
    PROVE  TypeOK'
<1>1. asked' \in [Remotes -> [at : Int, wait : Nat]]
  BY TimesAssumption DEF TypeOK, Die
<1>2. IsSchedule(view'[p]) /\ DOMAIN view' = Procs
      /\ \A q \in Procs : IsSchedule(view'[q])
  BY NothingType DEF TypeOK, Die
<1>3. faults' \in Nat
  BY DEF TypeOK, Die
<1> QED
  BY <1>1, <1>2, <1>3 DEF TypeOK, Die, End, Goto

LEMMA TypeTick == TypeOK /\ Tick => TypeOK'
BY DEF TypeOK, Tick

LEMMA TypeDeferLoad ==
    ASSUME TypeOK, NEW p \in Procs, DeferLoad(p)
    PROVE  TypeOK'
<1>1. DOMAIN view' = Procs /\ \A q \in Procs : IsSchedule(view'[q])
  BY DEF TypeOK, DeferLoad
<1> QED
  BY <1>1 DEF TypeOK, DeferLoad, Goto

LEMMA TypeDeferOpen ==
    ASSUME TypeOK, NEW p \in Procs, DeferOpen(p)
    PROVE  TypeOK'
<1>1. IsSchedule(tmp')
  BY NothingType DEF DeferOpen, Torn
<1> QED
  BY <1>1 DEF TypeOK, DeferOpen, Goto

LEMMA TypeDeferRename ==
    ASSUME TypeOK, NEW p \in Procs, DeferRename(p)
    PROVE  TypeOK'
<1>1. IsSchedule(json') /\ IsSchedule(tmp') /\ tmpExists' \in BOOLEAN
      /\ (~tmpExists' => tmp' = Torn)
  BY NothingType DEF TypeOK, DeferRename, Torn
<1>2. /\ fd' \in [Procs -> {"none", "tmp", "json", "gone"}]
      /\ \A q \in Procs : fd'[q] = "none" <=> fd[q] = "none"
      /\ ~tmpExists' => \A q \in Procs : fd'[q] # "tmp"
  BY DEF TypeOK, DeferRename, Renamed
<1>3. CASE End(p)
  BY <1>1, <1>2, <1>3 DEF TypeOK, DeferRename, End, Goto
<1>4. CASE /\ next[p] # "end"
           /\ Goto(p, next[p])
           /\ until' = [until EXCEPT ![p] = 0]
           /\ next' = [next EXCEPT ![p] = "end"]
           /\ UNCHANGED <<remote, now>>
  BY <1>1, <1>2, <1>4 DEF TypeOK, DeferRename, Goto
<1> QED
  BY <1>3, <1>4 DEF DeferRename

LEMMA TypeDeferWrite ==
    ASSUME Inv, NEW p \in Procs, DeferWrite(p)
    PROVE  TypeOK' /\ AllSoonIn(json', clock) /\ AllSoonIn(tmp', clock)
<1> DEFINE text == Deferred(view[p], remote[p], until[p])
<1>1. remote[p] \in Remotes /\ IsSchedule(view[p]) /\ until[p] \in Int
  BY DEF Inv, TypeOK, DeferWrite
<1>2. AllSoonIn(view[p], clock) /\ Soon(until[p], clock)
  BY DEF Inv, AllSoon
<1>3. IsSchedule(text) /\ AllSoonIn(text, clock)
  BY <1>1, <1>2, DeferredType
<1> HIDE DEF text
<1>4. IsSchedule(tmp') /\ AllSoonIn(tmp', clock)
  <2>1. CASE fd[p] = "tmp"
    BY <2>1, <1>3, OverwritesType DEF DeferWrite, text
  <2>2. CASE fd[p] # "tmp"
    BY <2>2 DEF DeferWrite, Inv, TypeOK, AllSoon
  <2> QED
    BY <2>1, <2>2
<1>5. IsSchedule(json') /\ AllSoonIn(json', clock)
  <2>1. CASE fd[p] = "json"
    BY <2>1, <1>3, OverwritesType DEF DeferWrite, text
  <2>2. CASE fd[p] # "json"
    BY <2>2 DEF DeferWrite, Inv, TypeOK, AllSoon
  <2> QED
    BY <2>1, <2>2
<1>6. ~tmpExists' => tmp' = Torn /\ \A q \in Procs : fd'[q] # "tmp"
  BY DEF Inv, TypeOK, DeferWrite
<1>7. DOMAIN view' = Procs /\ \A q \in Procs : IsSchedule(view'[q])
  BY NothingType DEF Inv, TypeOK, DeferWrite
<1>8. /\ pc' \in [Procs -> {"idle", "look", "spawn", "check", "ask", "load", "open",
                            "write", "rename"}]
      /\ \A q \in Procs : pc'[q] = "idle" <=> remote'[q] = NoRemote
      /\ fd' \in [Procs -> {"none", "tmp", "json", "gone"}]
      /\ \A q \in Procs : pc'[q] = "write" <=> fd'[q] # "none"
  BY DEF Inv, TypeOK, DeferWrite, Goto
<1>9. TypeOK'
  BY <1>4, <1>5, <1>6, <1>7, <1>8 DEF Inv, TypeOK, DeferWrite
<1> QED
  BY <1>4, <1>5, <1>9

LEMMA TypeNext == Inv /\ [Next]_vars => TypeOK'
<1> SUFFICES ASSUME Inv, [Next]_vars PROVE TypeOK'
  OBVIOUS
<1> USE DEF Inv
<1>1. CASE UNCHANGED vars
  BY <1>1 DEF TypeOK
<1>2. ASSUME NEW p \in Procs, NEW r \in Remotes, Heartbeat(p, r) PROVE TypeOK'
  BY <1>2, TypeHeartbeat
<1>3. ASSUME NEW p \in Procs, Step(p) PROVE TypeOK'
  BY <1>3, TypeLook, TypeSpawn, TypeCheck, TypeAskFails, TypeAsk, TypeDeferLoad,
     TypeDeferOpen, TypeDeferWrite, TypeDeferRename DEF Step, Defer
<1>4. ASSUME NEW p \in Procs, Die(p) PROVE TypeOK'
  BY <1>4, TypeDie
<1>5. CASE Tick
  BY <1>5, TypeTick
<1> QED
  BY <1>1, <1>2, <1>3, <1>4, <1>5 DEF Next

-----------------------------------------------------------------------------
(***************************************************************************)
(* Every step keeps the times soon.  What a step leaves alone stays soon   *)
(* as the clock goes on; p is the process that moves.                      *)
(***************************************************************************)
LEMMA OthersStaySoon ==
    ASSUME Inv, TypeOK', clock <= clock', NEW p \in Procs,
           \A q \in Procs \ {p} :
               now'[q] = now[q] /\ until'[q] = until[q] /\ view'[q] = view[q],
           AllSoonIn(json', clock), AllSoonIn(tmp', clock),
           now'[p] <= clock, Soon(until'[p], clock), AllSoonIn(view'[p], clock)
    PROVE  AllSoon'
<1>1. /\ clock \in Nat /\ clock' \in Nat
      /\ IsSchedule(json') /\ IsSchedule(tmp')
      /\ \A q \in Procs : now'[q] \in Nat /\ until'[q] \in Nat /\ IsSchedule(view'[q])
  BY DEF Inv, TypeOK
<1>2. AllSoonIn(json', clock') /\ AllSoonIn(tmp', clock')
  BY <1>1, AllStaySoon
<1>3. ASSUME NEW q \in Procs
      PROVE  now'[q] <= clock' /\ Soon(until'[q], clock') /\ AllSoonIn(view'[q], clock')
  <2>1. now'[q] <= clock /\ Soon(until'[q], clock) /\ AllSoonIn(view'[q], clock)
    BY DEF Inv, AllSoon
  <2>2. Soon(until'[q], clock')
    BY <2>1, <1>1, StaysSoon
  <2>3. AllSoonIn(view'[q], clock')
    BY <2>1, <1>1, AllStaySoon
  <2> QED
    BY <2>1, <2>2, <2>3, <1>1
<1> QED
  BY <1>2, <1>3 DEF AllSoon

\* Before and after a step: what End and CallDefer do to p.
LEMMA NowIsSoon ==
    ASSUME Inv
    PROVE  /\ clock \in Nat
           /\ Soon(0, clock)
           /\ AllSoonIn(Nothing, clock) /\ AllSoonIn(json, clock) /\ AllSoonIn(tmp, clock)
           /\ \A p \in Procs :
                /\ now[p] \in Nat /\ now[p] <= clock /\ Soon(until[p], clock)
                /\ AllSoonIn(view[p], clock)
                /\ \A wait \in Waits : Soon(now[p] + wait, clock)
<1>1. clock \in Nat /\ \A p \in Procs : now[p] \in Nat /\ now[p] <= clock
  BY DEF Inv, TypeOK, AllSoon
<1>2. Soon(0, clock)
  BY <1>1, WaitsType, TimesAssumption DEF Soon
<1>3. \A p \in Procs : \A wait \in Waits : Soon(now[p] + wait, clock)
  BY <1>1, ClaimIsSoon
<1> QED
  BY <1>1, <1>2, <1>3, NothingType DEF Inv, AllSoon, AllSoonIn

(***************************************************************************)
(* What an action does to the times of p and to the files, said once: the  *)
(* hypotheses of OthersStaySoon.                                           *)
(***************************************************************************)
LEMMA SoonStep ==
    ASSUME Inv, TypeOK', NEW p \in Procs, Step(p)
    PROVE  AllSoon'
<1> USE DEF Inv
<1>0. clock' = clock /\ clock \in Nat
  BY NowIsSoon DEF Step, Look, Spawn, Check, AskFails, Ask, Defer, DeferLoad, DeferOpen,
     DeferWrite, DeferRename
<1>t. \A q \in Procs : now'[q] \in Nat
  BY DEF TypeOK
<1>1. CASE Look(p)
  <2>1. UNCHANGED <<json, tmp, view>> /\ now'[p] <= clock /\ Soon(until'[p], clock)
        /\ \A q \in Procs \ {p} : now'[q] = now[q] /\ until'[q] = until[q]
    BY <1>1, NowIsSoon, WaitsType DEF Look, CallDefer, End, TypeOK
  <2> QED
    BY <2>1, <1>0, NowIsSoon, OthersStaySoon
<1>2. CASE Spawn(p)
  <2>1. UNCHANGED <<json, tmp, view, until>> /\ now'[p] = clock
        /\ \A q \in Procs \ {p} : now'[q] = now[q]
    BY <1>2 DEF Spawn, TypeOK
  <2> QED
    BY <2>1, <1>0, NowIsSoon, OthersStaySoon
<1>3. CASE Check(p)
  <2>1. UNCHANGED <<json, tmp, view>> /\ now'[p] <= clock /\ Soon(until'[p], clock)
        /\ \A q \in Procs \ {p} : now'[q] = now[q] /\ until'[q] = until[q]
    BY <1>3, NowIsSoon, WaitsType DEF Check, CallDefer, End, TypeOK
  <2> QED
    BY <2>1, <1>0, NowIsSoon, OthersStaySoon
<1>4. CASE AskFails(p)
  <2>1. UNCHANGED <<json, tmp, view>> /\ now'[p] <= clock /\ Soon(until'[p], clock)
        /\ \A q \in Procs \ {p} : now'[q] = now[q] /\ until'[q] = until[q]
    BY <1>4, NowIsSoon DEF AskFails, End, TypeOK
  <2> QED
    BY <2>1, <1>0, NowIsSoon, OthersStaySoon
<1>5. CASE Ask(p)
  <2>1. PICK after \in CheckAfters : CallDefer(p, now[p] + Wait(after), "end")
    BY <1>5 DEF Ask
  <2>2. UNCHANGED <<json, tmp, view>> /\ now'[p] <= clock /\ Soon(until'[p], clock)
        /\ \A q \in Procs \ {p} : now'[q] = now[q] /\ until'[q] = until[q]
    BY <2>1, <1>5, NowIsSoon, WaitsType DEF Ask, CallDefer, TypeOK
  <2> QED
    BY <2>2, <1>0, NowIsSoon, OthersStaySoon
<1>6. CASE DeferLoad(p)
  <2>1. UNCHANGED <<json, tmp, now, until>> /\ view'[p] = json
        /\ \A q \in Procs \ {p} : view'[q] = view[q]
    BY <1>6 DEF DeferLoad, TypeOK
  <2> QED
    BY <2>1, <1>0, NowIsSoon, OthersStaySoon
<1>7. CASE DeferOpen(p)
  <2>1. UNCHANGED <<json, view, now, until>> /\ tmp' = Nothing
    BY <1>7 DEF DeferOpen, Torn
  <2> QED
    BY <2>1, <1>0, NowIsSoon, OthersStaySoon
<1>8. CASE DeferWrite(p)
  <2>1. UNCHANGED <<now, until>> /\ view'[p] = Nothing
        /\ \A q \in Procs \ {p} : view'[q] = view[q]
    BY <1>8 DEF DeferWrite, TypeOK
  <2>2. AllSoonIn(json', clock) /\ AllSoonIn(tmp', clock)
    BY <1>8, TypeDeferWrite
  <2> QED
    BY <2>1, <2>2, <1>0, NowIsSoon, OthersStaySoon
<1>9. CASE DeferRename(p)
  <2>1. /\ view' = view
        /\ json' \in {json, tmp} /\ tmp' \in {tmp, Nothing}
    BY <1>9 DEF DeferRename, Torn
  <2>2. now'[p] <= clock /\ Soon(until'[p], clock)
        /\ \A q \in Procs \ {p} : now'[q] = now[q] /\ until'[q] = until[q]
    BY <1>9, NowIsSoon DEF DeferRename, End, TypeOK
  <2> QED
    BY <2>1, <2>2, <1>0, NowIsSoon, OthersStaySoon
<1> QED
  BY <1>1, <1>2, <1>3, <1>4, <1>5, <1>6, <1>7, <1>8, <1>9 DEF Step, Defer

LEMMA SoonNext == Inv /\ TypeOK' /\ [Next]_vars => AllSoon'
<1> SUFFICES ASSUME Inv, TypeOK', [Next]_vars PROVE AllSoon'
  OBVIOUS
<1>0. \A q \in Procs : now[q] \in Nat /\ now[q] <= clock
  BY NowIsSoon
<1>1. CASE UNCHANGED vars
  BY <1>1 DEF Inv, AllSoon, AllSoonIn
<1>2. ASSUME NEW p \in Procs, NEW r \in Remotes, Heartbeat(p, r) PROVE AllSoon'
  <2>1. UNCHANGED <<json, tmp, view, until, clock>> /\ now'[p] = clock
        /\ \A q \in Procs \ {p} : now'[q] = now[q]
    BY <1>2 DEF Heartbeat, Inv, TypeOK
  <2>2. clock <= clock' /\ now'[p] <= clock
    BY <2>1, NowIsSoon
  <2> QED
    BY <2>1, <2>2, NowIsSoon, OthersStaySoon
<1>3. ASSUME NEW p \in Procs, Step(p) PROVE AllSoon'
  BY <1>3, SoonStep
<1>4. ASSUME NEW p \in Procs, Die(p) PROVE AllSoon'
  <2>1. UNCHANGED <<json, tmp, clock>> /\ now'[p] = 0 /\ until'[p] = 0 /\ view'[p] = Nothing
        /\ \A q \in Procs \ {p} :
             now'[q] = now[q] /\ until'[q] = until[q] /\ view'[q] = view[q]
    BY <1>4 DEF Die, End, Inv, TypeOK
  <2>2. clock <= clock' /\ now'[p] <= clock /\ Soon(until'[p], clock)
    BY <2>1, NowIsSoon
  <2> QED
    BY <2>1, <2>2, NowIsSoon, OthersStaySoon
<1>5. CASE Tick
  <2>1. UNCHANGED <<json, tmp, now, until, view>> /\ clock' = clock + 1 /\ clock <= clock'
    BY <1>5, NowIsSoon DEF Tick
  <2>2. ASSUME NEW p \in Procs PROVE AllSoon'
    BY <2>1, NowIsSoon, OthersStaySoon
  <2>3. CASE Procs = {}
    <3>1. IsSchedule(json) /\ IsSchedule(tmp) /\ clock' \in Nat
      BY <2>1, NowIsSoon DEF Inv, TypeOK
    <3> QED
      BY <2>1, <2>3, <3>1, NowIsSoon, AllStaySoon DEF AllSoon
  <2> QED
    BY <2>2, <2>3
<1> QED
  BY <1>1, <1>2, <1>3, <1>4, <1>5 DEF Next

-----------------------------------------------------------------------------
(***************************************************************************)
(* The invariant holds of every behaviour, faults and overlaps included.   *)
(***************************************************************************)
THEOREM InvHolds == Spec => []Inv
<1>1. Inv /\ [Next]_vars => Inv'
  BY TypeNext, SoonNext DEF Inv
<1> QED
  BY InvInit, <1>1, PTL DEF Spec

(***************************************************************************)
(* The state keeps its types (deps/state.go, syncdeps.go).                 *)
(***************************************************************************)
THEOREM TypeCorrect == Spec => []TypeOK
<1>1. Inv => TypeOK
  BY DEF Inv
<1> QED
  BY InvHolds, <1>1, PTL

(***************************************************************************)
(* Whatever writers overwrite, lose or leave half written, the schedule    *)
(* puts no repository off for longer than the longest wait asked for.      *)
(***************************************************************************)
THEOREM NotPutOffForLong == Spec => []NeverPutOffForLong
<1>1. Inv => NeverPutOffForLong
  BY DEF Inv, AllSoon, AllSoonIn, Soon, NeverPutOffForLong
<1> QED
  BY InvHolds, <1>1, PTL

-----------------------------------------------------------------------------
(***************************************************************************)
(* One check at a time.  With heartbeats one after another and a single    *)
(* repository the processes that claim or check are one at most, so the    *)
(* schedule is never torn and a claim, once renamed into place, stands     *)
(* until the check it was made for is over.                                *)
(***************************************************************************)
Active(p) == pc[p] \notin {"idle", "look"}

\* When the server may be asked about a repository again.
LetAloneUntil(r) == asked[r].at + asked[r].wait

OneByOne ==
    /\ \A p, q \in Procs : p # q /\ InHeartbeat(p) => ~InHeartbeat(q)
    /\ \A p, q \in Procs : p # q /\ Active(p) => ~Active(q)
    /\ \A p \in Procs : pc[p] # "idle" => clock <= now[p] + 1

\* What the writer finds, and what it leaves.
DeferAlone(p) ==
    /\ pc[p] = "write" => fd[p] = "tmp" /\ tmp = Torn
    /\ pc[p] = "rename" => tmpExists /\ remote[p] \in DOMAIN tmp /\ tmp[remote[p]] = until[p]
    /\ InDefer(p) => /\ next[p] \in {"spawn", "ask"} => until[p] = now[p] + RetryAfter
                     /\ next[p] = "end" => until[p] >= now[p] + RetryAfter

\* The time written for a repository, at least: a check found it claimed.
Claimed(p) ==
    /\ pc[p] = "spawn" \/ Checking(p) =>
         /\ remote[p] \in DOMAIN json
         /\ json[remote[p]] >= now[p] + RetryAfter - 1
    /\ pc[p] \in {"spawn", "ask"} => json[remote[p]] >= now[p] + RetryAfter

Ending(p) == InDefer(p) /\ next[p] = "end"

\* The wait of the last answer is in the schedule, or on its way there.
Rested ==
    \A r \in Remotes :
        /\ r \notin DOMAIN json => LetAloneUntil(r) <= 0 /\ asked[r].at + RetryAfter <= 0
        /\ r \in DOMAIN json => asked[r].at + RetryAfter <= json[r]
        /\ r \in DOMAIN json /\ (\A p \in Procs : ~Ending(p)) => LetAloneUntil(r) <= json[r]
        /\ asked[r].at = -Day \/ asked[r].wait >= RetryAfter

MayAsk(p) ==
    /\ pc[p] \in {"spawn", "check", "ask"} \/ (InDefer(p) /\ next[p] # "end") =>
           LetAloneUntil(remote[p]) <= now[p]
    /\ Ending(p) => LetAloneUntil(remote[p]) <= until[p]

Fine(p) == DeferAlone(p) /\ Claimed(p) /\ MayAsk(p)

AloneInv == ~overlap => OneByOne /\ (\A p \in Procs : Fine(p)) /\ Rested

\* A process that neither claims nor checks has nothing to keep.
LEMMA RestingIsFine ==
    ASSUME NEW p \in Procs, ~Active(p)
    PROVE  Fine(p) /\ ~Ending(p) /\ ~Checking(p)
BY DEF Active, Fine, DeferAlone, Claimed, MayAsk, InDefer, Checking, Ending

LEMMA CheckingIsActive ==
    ASSUME NEW p \in Procs, Checking(p)
    PROVE  Active(p) /\ ~InHeartbeat(p)
BY DEF Active, Checking

LEMMA AloneInit == Init => AloneInv
<1> SUFFICES ASSUME Init PROVE OneByOne /\ (\A p \in Procs : Fine(p)) /\ Rested
  BY DEF AloneInv
<1>1. \A p \in Procs : ~Active(p) /\ pc[p] = "idle" /\ ~InHeartbeat(p)
  BY DEF Init, Active, InHeartbeat, InDefer
<1>2. OneByOne
  BY <1>1 DEF OneByOne
<1>3. \A p \in Procs : Fine(p)
  BY <1>1, RestingIsFine
<1>4. Rested
  <2>1. DOMAIN json = {} /\ \A r \in Remotes : asked[r].at = -Day /\ asked[r].wait = 0
    BY NothingType DEF Init, Torn
  <2> QED
    BY <2>1, TimesAssumption DEF Rested, LetAloneUntil
<1> QED
  BY <1>2, <1>3, <1>4

\* What an invariant's step may use.
Given == Inv /\ ~overlap /\ OneByOne /\ (\A p \in Procs : Fine(p)) /\ Rested

\* The times are numbers.
LEMMA Numbers ==
    ASSUME Inv
    PROVE  /\ clock \in Nat /\ RetryAfter \in Nat /\ Day \in Nat /\ RetryAfter <= Day
           /\ \A p \in Procs : now[p] \in Nat /\ now[p] <= clock /\ until[p] \in Nat
           /\ \A r \in Remotes : /\ asked[r].at \in Int /\ asked[r].wait \in Nat
                                 /\ LetAloneUntil(r) \in Int
                                 /\ r \in DOMAIN json => json[r] \in Int
BY TimesAssumption DEF Inv, TypeOK, AllSoon, LetAloneUntil, IsSchedule

LEMMA Its ==
    ASSUME Inv, OneRepository, NEW p \in Procs, pc[p] # "idle"
    PROVE  remote[p] \in Remotes /\ \A r \in Remotes : r = remote[p]
BY DEF Inv, TypeOK, OneRepository

-----------------------------------------------------------------------------
\* A process that is at rest before and after its step.
LEMMA RestingStep ==
    ASSUME Given, NEW p \in Procs, ~Active(p), ~Active(p)',
           UNCHANGED <<json, tmp, tmpExists, clock, asked>>,
           \A q \in Procs \ {p} :
               /\ pc'[q] = pc[q] /\ remote'[q] = remote[q] /\ now'[q] = now[q]
               /\ until'[q] = until[q] /\ next'[q] = next[q] /\ fd'[q] = fd[q],
           InHeartbeat(p)' => InHeartbeat(p) \/ \A q \in Procs : ~InHeartbeat(q),
           pc'[p] # "idle" => clock <= now'[p] + 1
    PROVE  OneByOne' /\ (\A q \in Procs : Fine(q)') /\ Rested'
<1>1. \A q \in Procs \ {p} : /\ InHeartbeat(q)' <=> InHeartbeat(q)
                             /\ Active(q)' <=> Active(q)
                             /\ Ending(q)' <=> Ending(q)
                             /\ Fine(q)' <=> Fine(q)
  BY DEF InHeartbeat, InDefer, Active, Ending, Fine, DeferAlone, Claimed, MayAsk, Checking,
     LetAloneUntil
<1>2. Fine(p)' /\ ~Ending(p) /\ ~Ending(p)'
  BY RestingIsFine DEF Active, Fine, DeferAlone, Claimed, MayAsk, InDefer, Checking, Ending
<1>3. OneByOne'
  BY <1>1 DEF Given, OneByOne
<1>4. Rested'
  BY <1>1, <1>2 DEF Given, Rested, LetAloneUntil
<1> QED
  BY <1>1, <1>2, <1>3, <1>4 DEF Given

\* A process that claims or checks: the others are at rest meanwhile.
LEMMA ActiveStep ==
    ASSUME Given, NEW p \in Procs, Active(p), clock' = clock,
           \A q \in Procs \ {p} :
               /\ pc'[q] = pc[q] /\ remote'[q] = remote[q] /\ now'[q] = now[q]
               /\ until'[q] = until[q] /\ next'[q] = next[q],
           InHeartbeat(p)' => InHeartbeat(p),
           pc'[p] # "idle" => clock <= now'[p] + 1,
           Fine(p)'
    PROVE  /\ OneByOne' /\ (\A q \in Procs : Fine(q)')
           /\ \A q \in Procs \ {p} : ~Ending(q) /\ ~Ending(q)'
<1>1. \A q \in Procs \ {p} : /\ ~Active(q) /\ ~Active(q)'
                             /\ InHeartbeat(q)' <=> InHeartbeat(q)
  BY DEF Given, OneByOne, InHeartbeat, InDefer, Active
<1>2. \A q \in Procs \ {p} : Fine(q)' /\ ~Ending(q) /\ ~Ending(q)'
  BY <1>1 DEF Active, Fine, DeferAlone, Claimed, MayAsk, InDefer, Checking, Ending
<1>3. OneByOne'
  BY <1>1 DEF Given, OneByOne
<1> QED
  BY <1>2, <1>3

\* No heartbeat finds its repository due while a check of it runs.
LEMMA NotDueMeanwhile ==
    ASSUME Given, OneRepository, RetryAfter >= 3, NEW p \in Procs, pc[p] = "look",
           Due(remote[p], now[p])
    PROVE  \A q \in Procs : ~Active(q)
<1> SUFFICES ASSUME NEW q \in Procs, Active(q) PROVE FALSE
  OBVIOUS
<1>1. InHeartbeat(p) /\ q # p
  BY DEF InHeartbeat, Active
<1>2. Checking(q) /\ pc[q] # "idle"
  BY <1>1 DEF Given, OneByOne, Checking, Active
<1>3. remote[q] = remote[p]
  BY <1>2, Its DEF Given
<1>4. remote[q] \in DOMAIN json /\ json[remote[q]] >= now[q] + RetryAfter - 1
  BY <1>2 DEF Given, Fine, Claimed
<1>5. clock <= now[q] + 1
  BY <1>2 DEF Given, OneByOne
<1>6. json[remote[q]] \in Int /\ now[q] \in Nat /\ now[p] \in Nat /\ now[p] <= clock
      /\ clock \in Nat /\ RetryAfter \in Nat
  BY <1>2, <1>4, Its, Numbers DEF Given
<1>7. json[remote[q]] > now[p]
  BY <1>4, <1>5, <1>6
<1> QED
  BY <1>3, <1>4, <1>6, <1>7 DEF Due

Kept == OneByOne' /\ (\A q \in Procs : Fine(q)') /\ Rested'

LEMMA HeartbeatAlone ==
    ASSUME Given, NEW p \in Procs, NEW r \in Remotes, Heartbeat(p, r)
    PROVE  Kept
<1>1. pc[p] = "idle" /\ pc'[p] = "look" /\ now'[p] = clock /\ clock \in Nat
  BY Numbers DEF Given, Inv, TypeOK, Heartbeat, Goto
<1>2. \A q \in Procs : ~InHeartbeat(q)
  BY DEF Given, Heartbeat
<1>3. \A q \in Procs \ {p} :
        /\ pc'[q] = pc[q] /\ remote'[q] = remote[q] /\ now'[q] = now[q]
        /\ until'[q] = until[q] /\ next'[q] = next[q] /\ fd'[q] = fd[q]
  BY DEF Given, Inv, TypeOK, Heartbeat, Goto
<1>4. UNCHANGED <<json, tmp, tmpExists, clock, asked>>
  BY DEF Heartbeat
<1>5. ~Active(p) /\ ~Active(p)' /\ clock <= now'[p] + 1
  BY <1>1 DEF Active
<1> QED
  BY <1>2, <1>3, <1>4, <1>5, RestingStep DEF Kept

\* What Defer is called with is what it is to write.
LEMMA LookAlone ==
    ASSUME Given, OneRepository, RetryAfter >= 3, NEW p \in Procs, Look(p)
    PROVE  Kept
<1>0. /\ pc[p] = "look" /\ UNCHANGED <<json, tmp, tmpExists, clock, asked, fd>> /\ InHeartbeat(p)
      /\ ~Active(p)
  BY DEF Look, InHeartbeat, Active
<1>1. CASE ~Due(remote[p], now[p])
  <2>1. pc'[p] = "idle" /\ \A q \in Procs \ {p} :
          /\ pc'[q] = pc[q] /\ remote'[q] = remote[q] /\ now'[q] = now[q]
          /\ until'[q] = until[q] /\ next'[q] = next[q] /\ fd'[q] = fd[q]
    BY <1>1 DEF Given, Inv, TypeOK, Look, End, Goto
  <2>2. ~Active(p)'
    BY <2>1 DEF Active
  <2> QED
    BY <1>0, <2>1, <2>2, RestingStep DEF Kept
<1>2. CASE Due(remote[p], now[p])
  <2>1. /\ pc'[p] = "load" /\ next'[p] = "spawn" /\ until'[p] = now[p] + RetryAfter
        /\ remote' = remote /\ now' = now
        /\ \A q \in Procs \ {p} :
             pc'[q] = pc[q] /\ until'[q] = until[q] /\ next'[q] = next[q]
    BY <1>2 DEF Given, Inv, TypeOK, Look, CallDefer, Goto
  <2>2. \A q \in Procs : ~Active(q)
    BY <1>0, <1>2, NotDueMeanwhile
  <2>3. \A q \in Procs \ {p} : ~Active(q)' /\ (InHeartbeat(q)' <=> InHeartbeat(q))
    BY <2>1, <2>2 DEF Active, InHeartbeat, InDefer
  <2>4. \A q \in Procs \ {p} : Fine(q)'
    BY <2>3 DEF Active, Fine, DeferAlone, Claimed, MayAsk, InDefer, Checking, Ending
  <2>5. \A q \in Procs : ~Ending(q) /\ ~Ending(q)'
    BY <2>1, <2>2, <2>3 DEF Active, Ending, InDefer
  <2>6. LetAloneUntil(remote[p]) <= now[p]
    <3>1. remote[p] \in Remotes
      BY <1>0 DEF Given, Inv, TypeOK
    <3>2. CASE remote[p] \in DOMAIN json
      <4>1. LetAloneUntil(remote[p]) <= json[remote[p]]
        BY <2>5, <3>1, <3>2 DEF Given, Rested
      <4>2. json[remote[p]] <= now[p]
        BY <1>2, <3>1, <3>2, Numbers DEF Due, Given
      <4> QED
        BY <3>1, <3>2, <4>1, <4>2, Numbers DEF Given
    <3>3. CASE remote[p] \notin DOMAIN json
      <4>1. LetAloneUntil(remote[p]) <= 0
        BY <3>1, <3>3 DEF Given, Rested
      <4> QED
        BY <3>1, <4>1, Numbers DEF Given
    <3> QED
      BY <3>2, <3>3
  <2>7. Fine(p)'
    <3>1. DeferAlone(p)'
      BY <2>1 DEF DeferAlone
    <3>2. ~Checking(p)' /\ pc'[p] \notin {"spawn", "ask"}
      BY <2>1 DEF Checking, InHeartbeat, InDefer
    <3>3. MayAsk(p)'
      BY <1>0, <2>1, <2>6 DEF MayAsk, Ending, LetAloneUntil
    <3> QED
      BY <3>1, <3>2, <3>3 DEF Fine, Claimed
  <2>8. OneByOne'
    BY <1>0, <2>1, <2>3 DEF Given, OneByOne
  <2>9. Rested'
    BY <1>0, <2>5 DEF Given, Rested, LetAloneUntil
  <2> QED
    BY <2>4, <2>7, <2>8, <2>9 DEF Kept
<1> QED
  BY <1>1, <1>2

\* While the schedule and the history stay, and no Defer of a check ends or begins.
LEMMA RestedStays ==
    ASSUME Given, UNCHANGED <<json, asked>>, NEW p \in Procs,
           \A q \in Procs \ {p} : ~Ending(q) /\ ~Ending(q)',
           Ending(p) => Ending(p)'
    PROVE  Rested'
BY DEF Given, Rested, LetAloneUntil

LEMMA SpawnAlone ==
    ASSUME Given, NEW p \in Procs, Spawn(p)
    PROVE  Kept
<1>1. /\ pc[p] = "spawn" /\ pc'[p] = "check" /\ now'[p] = clock
      /\ UNCHANGED <<json, tmp, tmpExists, clock, asked, remote, until, next>>
      /\ \A q \in Procs \ {p} : pc'[q] = pc[q] /\ now'[q] = now[q]
  BY DEF Given, Inv, TypeOK, Spawn, Goto
<1>2. Active(p) /\ ~InHeartbeat(p)' /\ ~Ending(p) /\ ~Ending(p)'
  BY <1>1 DEF Active, InHeartbeat, InDefer, Ending
<1>3. /\ remote[p] \in DOMAIN json /\ json[remote[p]] >= now[p] + RetryAfter
      /\ LetAloneUntil(remote[p]) <= now[p] /\ clock <= now[p] + 1
  BY <1>1 DEF Given, Fine, Claimed, MayAsk, OneByOne
<1>4. /\ remote[p] \in Remotes /\ clock \in Nat /\ now[p] \in Nat /\ now[p] <= clock
      /\ RetryAfter \in Nat /\ json[remote[p]] \in Int /\ LetAloneUntil(remote[p]) \in Int
  BY <1>1, <1>3, Numbers DEF Given, Inv, TypeOK
<1>5. /\ json[remote[p]] >= clock + RetryAfter - 1 /\ LetAloneUntil(remote[p]) <= clock
      /\ clock <= clock + 1
  BY <1>3, <1>4
<1>6. Fine(p)'
  BY <1>1, <1>3, <1>5 DEF Fine, DeferAlone, Claimed, MayAsk, Checking, Ending, InDefer, LetAloneUntil
<1>7. /\ OneByOne' /\ (\A q \in Procs : Fine(q)')
      /\ \A q \in Procs \ {p} : ~Ending(q) /\ ~Ending(q)'
  BY <1>1, <1>2, <1>5, <1>6, ActiveStep
<1> QED
  BY <1>1, <1>2, <1>7, RestedStays DEF Kept

\* A process that stops.
LEMMA EndAlone ==
    ASSUME Given, NEW p \in Procs, Active(p), clock' = clock, End(p)
    PROVE  /\ OneByOne' /\ (\A q \in Procs : Fine(q)')
           /\ \A q \in Procs : ~Ending(q)'
           /\ \A q \in Procs \ {p} : ~Ending(q)
<1>1. /\ pc'[p] = "idle"
      /\ \A q \in Procs \ {p} :
           /\ pc'[q] = pc[q] /\ remote'[q] = remote[q] /\ now'[q] = now[q]
           /\ until'[q] = until[q] /\ next'[q] = next[q]
  BY DEF Given, Inv, TypeOK, End, Goto
<1>2. ~InHeartbeat(p)' /\ ~Ending(p)' /\ Fine(p)'
  BY <1>1 DEF InHeartbeat, InDefer, Ending, Fine, DeferAlone, Claimed, MayAsk, Checking
<1> QED
  BY <1>1, <1>2, ActiveStep

\* A check that calls Defer again.
LEMMA CallAlone ==
    ASSUME Given, NEW p \in Procs, pc[p] \in {"check", "ask"},
           UNCHANGED <<json, tmp, tmpExists, clock>>,
           NEW time \in Nat, NEW place \in {"ask", "end"}, CallDefer(p, time, place),
           place = "ask" => time = now[p] + RetryAfter,
           place = "end" => time >= now[p] + RetryAfter,
           LetAloneUntil(remote[p])' <= IF place = "ask" THEN now[p] ELSE time
    PROVE  /\ OneByOne' /\ (\A q \in Procs : Fine(q)')
           /\ ~Ending(p) /\ (Ending(p)' <=> place = "end")
           /\ \A q \in Procs \ {p} : ~Ending(q) /\ ~Ending(q)'
<1>1. /\ pc'[p] = "load" /\ next'[p] = place /\ until'[p] = time
      /\ remote' = remote /\ now' = now
      /\ \A q \in Procs \ {p} :
           pc'[q] = pc[q] /\ until'[q] = until[q] /\ next'[q] = next[q]
  BY DEF Given, Inv, TypeOK, CallDefer, Goto
<1>2. Active(p) /\ Checking(p) /\ ~InHeartbeat(p)' /\ ~Ending(p) /\ (Ending(p)' <=> place = "end")
  BY <1>1 DEF Active, Checking, InHeartbeat, InDefer, Ending
<1>3. remote[p] \in DOMAIN json /\ json[remote[p]] >= now[p] + RetryAfter - 1
      /\ clock <= now[p] + 1
  BY <1>2 DEF Given, Fine, Claimed, OneByOne, Active
<1>4. DeferAlone(p)'
  BY <1>1 DEF DeferAlone
<1>5. Claimed(p)'
  BY <1>1, <1>3 DEF Claimed
<1>6. MayAsk(p)'
  BY <1>1, <1>2 DEF MayAsk, LetAloneUntil
<1>7. Fine(p)'
  BY <1>4, <1>5, <1>6 DEF Fine
<1> QED
  BY <1>1, <1>2, <1>3, <1>7, ActiveStep

LEMMA CheckAlone ==
    ASSUME Given, NEW p \in Procs, Check(p)
    PROVE  Kept
<1>0. /\ pc[p] = "check" /\ UNCHANGED <<json, tmp, tmpExists, clock, asked>>
      /\ now[p] \in Nat /\ RetryAfter \in Nat /\ Day \in Nat /\ RetryAfter <= Day
      /\ remote[p] \in Remotes
  BY Numbers DEF Check, Given, Inv, TypeOK
<1>1. /\ LetAloneUntil(remote[p]) <= now[p]
      /\ LetAloneUntil(remote[p]) \in Int
  BY <1>0, Numbers DEF Given, Fine, MayAsk
<1>2. CASE End(p)
  <2>1. Active(p) /\ ~Ending(p)
    BY <1>0 DEF Active, Ending, InDefer
  <2> QED
    BY <1>0, <1>2, <2>1, EndAlone, RestedStays DEF Kept
<1>3. ASSUME NEW time \in Nat, NEW place \in {"ask", "end"}, CallDefer(p, time, place),
             place = "ask" => time = now[p] + RetryAfter,
             place = "end" => time >= now[p] + RetryAfter
      PROVE  Kept
  <2>1. remote' = remote
    BY <1>3 DEF CallDefer
  <2>2. LetAloneUntil(remote[p])' = LetAloneUntil(remote[p])
    BY <1>0, <2>1 DEF LetAloneUntil
  <2>3. LetAloneUntil(remote[p])' <= IF place = "ask" THEN now[p] ELSE time
    BY <1>0, <1>1, <1>3, <2>2
  <2> QED
    BY <1>0, <1>3, <2>3, CallAlone, RestedStays DEF Kept
<1>4. CASE CallDefer(p, now[p] + RetryAfter, "end")
  BY <1>0, <1>3, <1>4
<1>5. CASE CallDefer(p, now[p] + Day, "end")
  BY <1>0, <1>3, <1>5
<1>6. CASE CallDefer(p, now[p] + RetryAfter, "ask")
  BY <1>0, <1>3, <1>6
<1> QED
  BY <1>2, <1>4, <1>5, <1>6 DEF Check

\* The answer: what it says of the next one is claimed, or about to be written.
LEMMA AskFailsAlone ==
    ASSUME Given, OneRepository, NEW p \in Procs, AskFails(p)
    PROVE  Kept
<1>0. /\ pc[p] = "ask" /\ UNCHANGED <<json, clock>> /\ End(p) /\ Active(p)
      /\ asked' = [asked EXCEPT ![remote[p]] = [at |-> now[p], wait |-> RetryAfter]]
  BY DEF AskFails, Active
<1>1. /\ remote[p] \in Remotes /\ \A r \in Remotes : r = remote[p]
      /\ now[p] \in Nat /\ RetryAfter \in Nat
  BY <1>0, Its, Numbers DEF Given
<1>2. remote[p] \in DOMAIN json /\ json[remote[p]] >= now[p] + RetryAfter
  BY <1>0 DEF Given, Fine, Claimed, Checking, InHeartbeat, InDefer
<1>3. json[remote[p]] \in Int
  BY <1>1, <1>2, Numbers DEF Given
<1>4. asked'[remote[p]].at = now[p] /\ asked'[remote[p]].wait = RetryAfter
  BY <1>0, <1>1 DEF Given, Inv, TypeOK
<1>5. Rested'
  BY <1>0, <1>1, <1>2, <1>3, <1>4 DEF Rested, LetAloneUntil
<1> QED
  BY <1>0, <1>5, EndAlone DEF Kept

LEMMA AskAlone ==
    ASSUME Given, OneRepository, NEW p \in Procs, Ask(p)
    PROVE  Kept
<1> PICK after \in CheckAfters :
         /\ asked' = [asked EXCEPT ![remote[p]] = [at |-> now[p], wait |-> Wait(after)]]
         /\ CallDefer(p, now[p] + Wait(after), "end")
  BY DEF Ask
<1>0. pc[p] = "ask" /\ UNCHANGED <<json, tmp, tmpExists, clock, remote>>
  BY DEF Ask, CallDefer
<1>1. /\ remote[p] \in Remotes /\ \A r \in Remotes : r = remote[p]
      /\ now[p] \in Nat /\ RetryAfter \in Nat
  BY <1>0, Its, Numbers DEF Given
<1>2. Wait(after) \in Nat /\ Wait(after) >= RetryAfter
  BY TimesAssumption, WaitsType DEF Wait
<1>3. remote[p] \in DOMAIN json /\ json[remote[p]] >= now[p] + RetryAfter
  BY <1>0 DEF Given, Fine, Claimed, Checking, InHeartbeat, InDefer
<1>4. json[remote[p]] \in Int
  BY <1>1, <1>3, Numbers DEF Given
<1>5. asked'[remote[p]].at = now[p] /\ asked'[remote[p]].wait = Wait(after)
  BY <1>1 DEF Given, Inv, TypeOK
<1>6. LetAloneUntil(remote[p])' = now[p] + Wait(after)
  BY <1>0, <1>5 DEF LetAloneUntil
<1>7. now[p] + Wait(after) \in Nat /\ now[p] + Wait(after) >= now[p] + RetryAfter
      /\ LetAloneUntil(remote[p])' <= now[p] + Wait(after)
  BY <1>1, <1>2, <1>6
<1>8. OneByOne' /\ (\A q \in Procs : Fine(q)') /\ Ending(p)'
  BY <1>0, <1>7, CallAlone
<1>9. Rested'
  BY <1>0, <1>1, <1>2, <1>3, <1>4, <1>5, <1>8 DEF Rested
<1> QED
  BY <1>8, <1>9 DEF Kept

-----------------------------------------------------------------------------
\* A writer that goes on: it stays the writer for what it was called.
LEMMA DeferGoesOn ==
    ASSUME Given, NEW p \in Procs, InDefer(p), InDefer(p)',
           UNCHANGED <<json, clock, asked, remote, now, until, next>>,
           \A q \in Procs \ {p} : pc'[q] = pc[q],
           pc'[p] = "write" => fd'[p] = "tmp" /\ tmp' = Torn,
           pc'[p] = "rename" =>
               tmpExists' /\ remote[p] \in DOMAIN tmp' /\ tmp'[remote[p]] = until[p]
    PROVE  Kept
<1>1. /\ Active(p) /\ (InHeartbeat(p)' => InHeartbeat(p)) /\ (Ending(p)' <=> Ending(p))
      /\ (Checking(p)' <=> Checking(p))
      /\ pc[p] \notin {"spawn", "check", "ask"} /\ pc'[p] \notin {"spawn", "check", "ask"}
  BY DEF Active, InDefer, InHeartbeat, Ending, Checking
<1>2. clock <= now[p] + 1 /\ DeferAlone(p) /\ Claimed(p) /\ MayAsk(p)
  BY <1>1 DEF Given, OneByOne, Active, Fine
<1>3. DeferAlone(p)'
  BY <1>2 DEF DeferAlone
<1>4. Claimed(p)' /\ MayAsk(p)'
  BY <1>1, <1>2 DEF Claimed, MayAsk, LetAloneUntil
<1>5. /\ OneByOne' /\ (\A q \in Procs : Fine(q)')
      /\ \A q \in Procs \ {p} : ~Ending(q) /\ ~Ending(q)'
  BY <1>1, <1>2, <1>3, <1>4, ActiveStep DEF Fine
<1> QED
  BY <1>1, <1>5, RestedStays DEF Kept

LEMMA LoadAlone ==
    ASSUME Given, NEW p \in Procs, DeferLoad(p)
    PROVE  Kept
<1>1. pc[p] = "load" /\ pc'[p] = "open" /\ \A q \in Procs \ {p} : pc'[q] = pc[q]
  BY DEF Given, Inv, TypeOK, DeferLoad, Goto
<1> QED
  BY <1>1, DeferGoesOn DEF DeferLoad, InDefer

LEMMA OpenAlone ==
    ASSUME Given, NEW p \in Procs, DeferOpen(p)
    PROVE  Kept
<1>1. pc[p] = "open" /\ pc'[p] = "write" /\ \A q \in Procs \ {p} : pc'[q] = pc[q]
  BY DEF Given, Inv, TypeOK, DeferOpen, Goto
<1>2. fd'[p] = "tmp" /\ tmp' = Torn
  BY DEF Given, Inv, TypeOK, DeferOpen
<1> QED
  BY <1>1, <1>2, DeferGoesOn DEF DeferOpen, InDefer

LEMMA WriteAlone ==
    ASSUME Given, NEW p \in Procs, DeferWrite(p)
    PROVE  Kept
<1> DEFINE text == Deferred(view[p], remote[p], until[p])
<1>1. /\ pc[p] = "write" /\ pc'[p] = "rename" /\ \A q \in Procs \ {p} : pc'[q] = pc[q]
      /\ UNCHANGED <<tmpExists, clock, asked, remote, now, until, next>>
  BY DEF Given, Inv, TypeOK, DeferWrite, Goto
<1>2. fd[p] = "tmp" /\ tmp = Torn /\ tmpExists
  BY <1>1 DEF Given, Fine, DeferAlone, Inv, TypeOK
<1>3. json' = json /\ tmp' = text
  BY <1>2, NothingType DEF DeferWrite, Overwrites, Torn
<1>4. remote[p] \in DOMAIN text /\ text[remote[p]] = until[p]
  BY DEF Deferred
<1> HIDE DEF text
<1> QED
  BY <1>1, <1>2, <1>3, <1>4, DeferGoesOn DEF InDefer

\* What the writer wrote is in place.
LEMMA RenameAlone ==
    ASSUME Given, OneRepository, NEW p \in Procs, DeferRename(p)
    PROVE  Kept
<1>1. /\ pc[p] = "rename" /\ Active(p) /\ InDefer(p) /\ tmpExists
      /\ remote[p] \in DOMAIN tmp /\ tmp[remote[p]] = until[p]
  BY DEF Given, Fine, DeferAlone, DeferRename, Active, InDefer
<1>2. json' = tmp /\ UNCHANGED <<clock, asked>>
  BY <1>1 DEF DeferRename
<1>3. /\ remote[p] \in Remotes /\ \A r \in Remotes : r = remote[p]
      /\ now[p] \in Nat /\ RetryAfter \in Nat /\ Day \in Nat /\ RetryAfter <= Day
      /\ until[p] \in Nat
      /\ asked[remote[p]].at \in Int /\ asked[remote[p]].wait \in Nat
      /\ LetAloneUntil(remote[p]) = asked[remote[p]].at + asked[remote[p]].wait
  BY <1>1, Its, Numbers DEF Given, LetAloneUntil
<1>4. /\ next[p] \in {"spawn", "ask"} =>
           until[p] = now[p] + RetryAfter /\ LetAloneUntil(remote[p]) <= now[p]
      /\ next[p] = "end" => LetAloneUntil(remote[p]) <= until[p]
      /\ next[p] \in {"spawn", "ask", "end"}
  BY <1>1 DEF Given, Fine, DeferAlone, MayAsk, Ending, Inv, TypeOK
<1>5. LetAloneUntil(remote[p]) <= until[p]
  BY <1>3, <1>4
<1>6. asked[remote[p]].at = -Day \/ asked[remote[p]].wait >= RetryAfter
  BY <1>3 DEF Given, Rested
<1>7. asked[remote[p]].at + RetryAfter <= until[p]
  BY <1>3, <1>5, <1>6
<1>8. Rested'
  BY <1>1, <1>2, <1>3, <1>5, <1>6, <1>7 DEF Rested, LetAloneUntil
<1>9. CASE next[p] = "end"
  <2>1. End(p)
    BY <1>9 DEF DeferRename
  <2> QED
    BY <1>1, <1>2, <1>8, <2>1, EndAlone DEF Kept
<1>10. CASE next[p] \in {"spawn", "ask"}
  <2>1. /\ pc'[p] = next[p] /\ UNCHANGED <<remote, now>>
        /\ \A q \in Procs \ {p} :
             pc'[q] = pc[q] /\ until'[q] = until[q] /\ next'[q] = next[q]
    BY <1>1, <1>10 DEF DeferRename, Goto, Given, Inv, TypeOK
  <2>2. InHeartbeat(p)' => InHeartbeat(p)
    BY <1>1, <1>10, <2>1 DEF InHeartbeat, InDefer
  <2>3. clock <= now[p] + 1
    BY <1>1 DEF Given, OneByOne
  <2>4. /\ remote[p] \in DOMAIN json' /\ json'[remote[p]] = now[p] + RetryAfter
        /\ LetAloneUntil(remote[p])' <= now[p]
    BY <1>1, <1>2, <1>4, <1>10, <2>1 DEF LetAloneUntil
  <2>5. now[p] + RetryAfter >= now[p] + RetryAfter - 1 /\ now[p] + RetryAfter >= now[p] + RetryAfter
    BY <1>3
  <2>6. ~InDefer(p)' /\ ~Ending(p)'
    BY <1>10, <2>1 DEF InDefer, Ending
  <2>7. Fine(p)'
    <3>1. DeferAlone(p)'
      BY <1>10, <2>1, <2>6 DEF DeferAlone
    <3>2. Claimed(p)'
      BY <2>1, <2>4, <2>5 DEF Claimed
    <3>3. MayAsk(p)'
      BY <2>1, <2>4, <2>6 DEF MayAsk, LetAloneUntil
    <3> QED
      BY <3>1, <3>2, <3>3 DEF Fine
  <2> QED
    BY <1>1, <1>2, <1>8, <2>1, <2>2, <2>3, <2>7, ActiveStep DEF Kept
<1> QED
  BY <1>4, <1>9, <1>10

-----------------------------------------------------------------------------
LEMMA DieAlone ==
    ASSUME Given, OneRepository, NEW p \in Procs, Die(p)
    PROVE  Kept
<1>0. pc[p] # "idle" /\ UNCHANGED <<json, tmp, tmpExists, clock>> /\ End(p)
  BY DEF Die
<1>1. /\ pc'[p] = "idle"
      /\ \A q \in Procs \ {p} :
           /\ pc'[q] = pc[q] /\ remote'[q] = remote[q] /\ now'[q] = now[q]
           /\ until'[q] = until[q] /\ next'[q] = next[q] /\ fd'[q] = fd[q]
  BY DEF Given, Inv, TypeOK, Die, End, Goto
<1>2. CASE ~Active(p)
  <2>1. asked' = asked /\ ~Active(p)' /\ ~InHeartbeat(p)'
    BY <1>1, <1>2 DEF Die, Active, InDefer, InHeartbeat
  <2> QED
    BY <1>0, <1>1, <1>2, <2>1, RestingStep DEF Kept
<1>3. CASE Active(p) /\ ~Ending(p)
  <2>1. asked' = asked
    BY <1>3 DEF Die, Ending
  <2> QED
    BY <1>0, <1>3, <2>1, EndAlone, RestedStays DEF Kept
<1>4. CASE Active(p) /\ Ending(p)
  <2>1. /\ remote[p] \in Remotes /\ \A r \in Remotes : r = remote[p] /\ RetryAfter \in Nat
        /\ asked[remote[p]].at \in Int
    BY <1>0, Its, Numbers DEF Given
  <2>2. remote[p] \in DOMAIN json
    BY <1>4 DEF Given, Fine, Claimed, Checking, Active, Ending, InHeartbeat, InDefer
  <2>3. asked[remote[p]].at + RetryAfter <= json[remote[p]]
    BY <2>1, <2>2 DEF Given, Rested
  <2>4. asked' = [asked EXCEPT ![remote[p]].wait = RetryAfter]
    BY <1>4 DEF Die, Ending
  <2>5. asked'[remote[p]].at = asked[remote[p]].at /\ asked'[remote[p]].wait = RetryAfter
    BY <2>1, <2>4 DEF Given, Inv, TypeOK
  <2>6. Rested'
    BY <1>0, <2>1, <2>2, <2>3, <2>5 DEF Rested, LetAloneUntil
  <2> QED
    BY <1>0, <1>4, <2>6, EndAlone DEF Kept
<1> QED
  BY <1>2, <1>3, <1>4

LEMMA TickAlone == Given /\ Tick => Kept
<1> SUFFICES ASSUME Given, Tick PROVE Kept
  OBVIOUS
<1>1. /\ UNCHANGED <<json, tmp, tmpExists, pc, remote, now, until, next, fd, asked>>
      /\ clock' = clock + 1 /\ \A p \in Procs : pc[p] # "idle" => now[p] = clock
  BY DEF Tick
<1>2. \A p \in Procs : /\ InHeartbeat(p)' <=> InHeartbeat(p)
                       /\ Active(p)' <=> Active(p)
                       /\ Ending(p)' <=> Ending(p)
                       /\ Fine(p)' <=> Fine(p)
  BY <1>1 DEF InHeartbeat, InDefer, Active, Ending, Fine, DeferAlone, Claimed, MayAsk, Checking,
     LetAloneUntil
<1>3. \A p \in Procs : pc[p] # "idle" => clock' <= now'[p] + 1
  BY <1>1, Numbers DEF Given
<1>4. OneByOne'
  BY <1>1, <1>2, <1>3 DEF Given, OneByOne
<1>5. Rested'
  BY <1>1, <1>2 DEF Given, Rested, LetAloneUntil
<1> QED
  BY <1>2, <1>4, <1>5 DEF Given, Kept

LEMMA AloneNext ==
    ASSUME OneRepository, RetryAfter >= 3, Inv, AloneInv, [Next]_vars
    PROVE  AloneInv'
<1>3. overlap' = overlap
  BY DEF Next, Heartbeat, Step, Look, Spawn, Check, AskFails, Ask, Defer,
     DeferLoad, DeferOpen, DeferWrite, DeferRename, Die, Tick
<1> SUFFICES ASSUME ~overlap PROVE Kept
  BY <1>3 DEF AloneInv, Kept
<1>0. Given
  BY DEF AloneInv, Given
<1>1. CASE UNCHANGED vars
  <2>1. \A p \in Procs : /\ InHeartbeat(p)' <=> InHeartbeat(p)
                         /\ Active(p)' <=> Active(p)
                         /\ Ending(p)' <=> Ending(p)
                         /\ Fine(p)' <=> Fine(p)
    BY <1>1 DEF InHeartbeat, InDefer, Active, Ending, Fine, DeferAlone, Claimed, MayAsk, Checking,
       LetAloneUntil
  <2> QED
    BY <1>0, <1>1, <2>1 DEF Given, Kept, OneByOne, Rested, LetAloneUntil
<1>2. ASSUME NEW p \in Procs, Step(p) PROVE Kept
  BY <1>0, <1>2, LookAlone, SpawnAlone, CheckAlone, AskFailsAlone, AskAlone, LoadAlone, OpenAlone,
     WriteAlone, RenameAlone DEF Step, Defer
<1> QED
  BY <1>0, <1>1, <1>2, HeartbeatAlone, DieAlone, TickAlone DEF Next

(***************************************************************************)
(* A repository is not checked twice at the same time (syncdeps.go: "the   *)
(* next heartbeat must not start a second check while this one runs"),     *)
(* whatever dies meanwhile, on a machine where heartbeats come one after   *)
(* another and a single repository is worked on, if the hour claimed is    *)
(* longer than a heartbeat and the check it starts.  With two repositories *)
(* a claim may be lost: the run deps_second_check shows it.                *)
(***************************************************************************)
THEOREM CheckedOnce ==
    ASSUME RetryAfter >= 3
    PROVE  Spec => []OneCheckAtATime
<1>1. CASE OneRepository
  <2>1. AloneInv => OneCheckAtATime
    BY CheckingIsActive DEF AloneInv, OneByOne, OneCheckAtATime, Undisturbed, NoSecondCheck
  <2>2. Inv /\ AloneInv /\ [Next]_vars => AloneInv'
    BY <1>1, AloneNext
  <2> QED
    BY InvHolds, AloneInit, <2>1, <2>2, PTL DEF Spec
<1>2. CASE ~OneRepository
  <2>1. OneCheckAtATime
    BY <1>2 DEF OneCheckAtATime, Undisturbed
  <2> QED
    BY <2>1, PTL
<1> QED
  BY <1>1, <1>2

(***************************************************************************)
(* And the server is asked about it only after the wait it asked for, or   *)
(* an hour when it gave no answer (state.go: "a repository is asked about  *)
(* at most once a day, whatever the editor does").                         *)
(***************************************************************************)
THEOREM AskedAtMostSoOften ==
    ASSUME RetryAfter >= 3
    PROVE  Spec => []AskedSeldom
<1>1. CASE OneRepository
  <2>1. AloneInv => AskedSeldom
    BY DEF AloneInv, Fine, MayAsk, LetAloneUntil, AskedSeldom, Undisturbed, NotAskedTooSoon
  <2>2. Inv /\ AloneInv /\ [Next]_vars => AloneInv'
    BY <1>1, AloneNext
  <2> QED
    BY InvHolds, AloneInit, <2>1, <2>2, PTL DEF Spec
<1>2. CASE ~OneRepository
  <2>1. AskedSeldom
    BY <1>2 DEF AskedSeldom, Undisturbed
  <2> QED
    BY <2>1, PTL
<1> QED
  BY <1>1, <1>2

=============================================================================
