---------------------------- MODULE DepsSchedule ----------------------------
(***************************************************************************)
(* When a repository's dependencies are checked (internal/deps/state.go,   *)
(* cmd/inlinr/syncdeps.go).  Every heartbeat looks in deps-sync.json       *)
(* whether its repository is due, claims the next hour there and starts    *)
(* `inlinr sync-deps`, detached, which claims it again, asks the server    *)
(* and writes down when to ask next.  One file serves every repository;    *)
(* each writer reads it, writes deps-sync.json.tmp and renames that.       *)
(*                                                                         *)
(* The temporary name is the same for all writers, and an open file stays  *)
(* open whatever becomes of its name: a writer that opened the temporary   *)
(* file may find itself writing to deps-sync.json, or to a file no name    *)
(* leads to any more.                                                      *)
(***************************************************************************)
EXTENDS Integers, FiniteSets

CONSTANTS
    Procs,        \* slots for heartbeats, each with the check it starts
    Remotes,      \* repositories
    NoRemote,     \* of a process that is not running
    RetryAfter,   \* retryAfter: an hour
    Day,          \* 24 hours
    CheckAfters,  \* the check_after values the server answers with, none or
                  \* negative ones too
    KeepPast,     \* 30 days: how long Defer keeps an entry that has passed
    Overlaps,     \* whether heartbeats may overlap
    MaxClock,     \* bound on the time passing in a behaviour
    MaxFaults     \* bound on the faults of a behaviour

ASSUME TimesAssumption ==
    /\ RetryAfter \in Nat \ {0} /\ Day \in Nat /\ RetryAfter <= Day
    /\ CheckAfters \subseteq Int /\ KeepPast \in Nat /\ MaxClock \in Nat
ASSUME NoRemoteAssumption == NoRemote \notin Remotes
ASSUME OverlapsAssumption == Overlaps \subseteq BOOLEAN
ASSUME MaxFaultsAssumption == MaxFaults \in Nat

\* When each known repository may be checked again.
IsSchedule(s) == DOMAIN s \subseteq Remotes /\ s \in [DOMAIN s -> Int]
Nothing == [r \in {} |-> 0]

\* Missing, or not JSON: empty, or the remains of two writers.  load returns an
\* empty schedule for it, and no writer writes an empty one.
Torn == Nothing

VARIABLES
    json, tmp,   \* what deps-sync.json and deps-sync.json.tmp hold
    tmpExists,
    clock,
    pc, remote,  \* of each process: its place, its repository
    now,         \* time.Now() when it started
    until, next, \* of its Defer: the time to write, and where to go then
    view, fd,    \* of its Defer: what load returned, where the file it opened is
    asked,       \* of each repository: when the server was last asked, and how
                 \* long it is to be left alone after that        (history)
    overlap, faults

disk == <<json, tmp, tmpExists>>
local == <<pc, remote, now, until, next, view, fd>>
vars == <<disk, clock, local, asked, overlap, faults>>

Init ==
    /\ json = Torn
    /\ tmp = Torn
    /\ tmpExists = FALSE
    /\ clock = 0
    /\ pc = [p \in Procs |-> "idle"]
    /\ remote = [p \in Procs |-> NoRemote]
    /\ now = [p \in Procs |-> 0]
    /\ until = [p \in Procs |-> 0]
    /\ next = [p \in Procs |-> "end"]
    /\ view = [p \in Procs |-> Nothing]
    /\ fd = [p \in Procs |-> "none"]
    /\ asked = [r \in Remotes |-> [at |-> -Day, wait |-> 0]]
    /\ overlap \in Overlaps
    /\ faults = MaxFaults

-----------------------------------------------------------------------------
(* deps-sync.json *)

Due(r, time) == r \in DOMAIN json => time >= json[r]

Goto(p, place) == pc' = [pc EXCEPT ![p] = place]

End(p) == /\ Goto(p, "idle")
          /\ remote' = [remote EXCEPT ![p] = NoRemote]
          /\ now' = [now EXCEPT ![p] = 0]
          /\ until' = [until EXCEPT ![p] = 0]
          /\ next' = [next EXCEPT ![p] = "end"]

\* Calls Defer(remote, time), to go on at `place` after it.
CallDefer(p, time, place) ==
    /\ Goto(p, "load")
    /\ until' = [until EXCEPT ![p] = time]
    /\ next' = [next EXCEPT ![p] = place]
    /\ UNCHANGED <<remote, now>>

\* Mistake: a later check is put off from the time already written.
PutOffFurther(s, r, time) ==
    [k \in DOMAIN s \union {r} |->
        CASE k # r -> s[k]
          [] k = r /\ r \in DOMAIN s -> s[r] + (time - clock)
          [] OTHER -> time]

\* The schedule Defer writes: without what is long past, with its own entry.
Deferred(s, r, time) ==
    LET recent == {k \in DOMAIN s : s[k] >= clock - KeepPast}
    IN [k \in recent \union {r} |-> IF k = r THEN time ELSE s[k]]

\* Mistake: Defer reports the schedule it cannot parse.
LoadOrFail(p) ==
    /\ pc[p] = "load"
    /\ view' = [view EXCEPT ![p] = json]
    /\ Goto(p, IF json = Torn THEN "rename" ELSE "open")
    /\ UNCHANGED <<disk, clock, overlap, remote, now, until, next, fd, asked, faults>>

DeferLoad(p) ==
    /\ pc[p] = "load"
    /\ view' = [view EXCEPT ![p] = json]
    /\ Goto(p, "open")
    /\ UNCHANGED <<disk, clock, overlap, remote, now, until, next, fd, asked, faults>>

\* os.WriteFile opens the temporary name, truncating what it finds there.
DeferOpen(p) ==
    /\ pc[p] = "open"
    /\ tmp' = Torn
    /\ tmpExists' = TRUE
    /\ fd' = [fd EXCEPT ![p] = "tmp"]
    /\ Goto(p, "write")
    /\ UNCHANGED <<json, clock, overlap, remote, now, until, next, view, asked, faults>>

\* Written over another writer's schedule, one that knows less may be shorter
\* and leave the end of the other.
Overwrites(old, new) ==
    IF DOMAIN old \subseteq DOMAIN new THEN {new} ELSE {new, Torn}

DeferWrite(p) ==
    /\ pc[p] = "write"
    /\ LET text == Deferred(view[p], remote[p], until[p])
       IN /\ IF fd[p] = "tmp" THEN tmp' \in Overwrites(tmp, text) ELSE tmp' = tmp
          /\ IF fd[p] = "json" THEN json' \in Overwrites(json, text) ELSE json' = json
    /\ fd' = [fd EXCEPT ![p] = "none"]
    /\ view' = [view EXCEPT ![p] = Nothing]
    /\ Goto(p, "rename")
    /\ UNCHANGED <<tmpExists, clock, overlap, remote, now, until, next, asked, faults>>

\* Where an open file is after the temporary name was renamed.
Renamed(place) == CASE place = "tmp" -> "json"
                    [] place = "json" -> "gone"
                    [] OTHER -> place

\* The name may be gone: then Defer fails, and only the heartbeat minds.
DeferRename(p) ==
    /\ pc[p] = "rename"
    /\ IF tmpExists
       THEN /\ json' = tmp
            /\ tmp' = Torn
            /\ tmpExists' = FALSE
            /\ fd' = [q \in Procs |-> Renamed(fd[q])]
       ELSE UNCHANGED <<disk, fd>>
    /\ IF next[p] = "end" \/ (next[p] = "spawn" /\ ~tmpExists)
       THEN End(p)
       ELSE /\ Goto(p, next[p])
            /\ until' = [until EXCEPT ![p] = 0]
            /\ next' = [next EXCEPT ![p] = "end"]
            /\ UNCHANGED <<remote, now>>
    /\ UNCHANGED <<clock, overlap, view, asked, faults>>

-----------------------------------------------------------------------------
(* maybeSyncDeps, in the heartbeat *)

InDefer(p) == pc[p] \in {"load", "open", "write", "rename"}
InHeartbeat(p) == pc[p] \in {"look", "spawn"} \/ (InDefer(p) /\ next[p] = "spawn")

\* A heartbeat of a file in a git repository, with deps_sync on; the others do
\* not look.
Heartbeat(p, r) ==
    /\ pc[p] = "idle"
    /\ overlap \/ \A q \in Procs : ~InHeartbeat(q)
    /\ remote' = [remote EXCEPT ![p] = r]
    /\ now' = [now EXCEPT ![p] = clock]
    /\ Goto(p, "look")
    /\ UNCHANGED <<disk, clock, overlap, until, next, view, fd, asked, faults>>

\* Mistake: the check is started without a claim.
LookAndSpawn(p) ==
    /\ pc[p] = "look"
    /\ IF Due(remote[p], now[p])
       THEN Goto(p, "spawn") /\ UNCHANGED <<remote, now, until, next>>
       ELSE End(p)
    /\ UNCHANGED <<disk, clock, overlap, view, fd, asked, faults>>

\* Claim the slot before spawning, when due.
Look(p) ==
    /\ pc[p] = "look"
    /\ IF Due(remote[p], now[p])
       THEN CallDefer(p, now[p] + RetryAfter, "spawn")
       ELSE End(p)
    /\ UNCHANGED <<disk, clock, overlap, view, fd, asked, faults>>

\* The heartbeat goes on to its flush; the slot is now its child's.
Spawn(p) ==
    /\ pc[p] = "spawn"
    /\ now' = [now EXCEPT ![p] = clock]
    /\ Goto(p, "check")
    /\ UNCHANGED <<disk, clock, overlap, remote, until, next, view, fd, asked, faults>>

-----------------------------------------------------------------------------
(* runSyncDeps, started with --force *)

\* Not on the default branch, no package.json, no token, or claim and ask.
Check(p) ==
    /\ pc[p] = "check"
    /\ \/ CallDefer(p, now[p] + RetryAfter, "end")
       \/ CallDefer(p, now[p] + Day, "end")
       \/ End(p)
       \/ CallDefer(p, now[p] + RetryAfter, "ask")
    /\ UNCHANGED <<disk, clock, overlap, view, fd, asked, faults>>

\* Mistake: the server's wait is taken as it is.
AsAnswered(after) == after

\* The wait the server asked for, an hour at least.
Wait(after) == IF after < RetryAfter THEN RetryAfter ELSE after

\* GetDepsStatus gets no answer, or the manifests it asks for are not taken:
\* nothing is written down then, and the hour claimed stands.
AskFails(p) ==
    /\ pc[p] = "ask"
    /\ asked' = [asked EXCEPT ![remote[p]] = [at |-> now[p], wait |-> RetryAfter]]
    /\ End(p)
    /\ UNCHANGED <<disk, clock, overlap, view, fd, faults>>

\* Mistake: the check is put off by an hour whatever the server said.
AskHourly(p) ==
    /\ pc[p] = "ask"
    /\ \E after \in CheckAfters :
         /\ asked' = [asked EXCEPT ![remote[p]] = [at |-> now[p], wait |-> Wait(after)]]
         /\ CallDefer(p, now[p] + RetryAfter, "end")
    /\ UNCHANGED <<disk, clock, overlap, view, fd, faults>>

\* It answers, and takes the manifests if it wants them.
Ask(p) ==
    /\ pc[p] = "ask"
    /\ \E after \in CheckAfters :
         /\ asked' = [asked EXCEPT ![remote[p]] = [at |-> now[p], wait |-> Wait(after)]]
         /\ CallDefer(p, now[p] + Wait(after), "end")
    /\ UNCHANGED <<disk, clock, overlap, view, fd, faults>>

-----------------------------------------------------------------------------
\* Of a check that dies with the server's answer, the hour it claimed stands.
Die(p) ==
    /\ pc[p] # "idle"
    /\ faults > 0
    /\ faults' = faults - 1
    /\ asked' = IF InDefer(p) /\ next[p] = "end"
                THEN [asked EXCEPT ![remote[p]].wait = RetryAfter] ELSE asked
    /\ view' = [view EXCEPT ![p] = Nothing]
    /\ fd' = [fd EXCEPT ![p] = "none"]
    /\ End(p)
    /\ UNCHANGED <<disk, clock, overlap>>

\* A process takes less than a unit of time: 60 s for a check.
Tick ==
    /\ clock < MaxClock
    /\ \A p \in Procs : pc[p] # "idle" => now[p] = clock
    /\ clock' = clock + 1
    /\ UNCHANGED <<disk, local, overlap, asked, faults>>

Defer(p) == DeferLoad(p) \/ DeferOpen(p) \/ DeferWrite(p) \/ DeferRename(p)

Step(p) == Look(p) \/ Spawn(p) \/ Check(p) \/ AskFails(p) \/ Ask(p) \/ Defer(p)

Next ==
    \/ \E p \in Procs : \E r \in Remotes : Heartbeat(p, r)
    \/ \E p \in Procs : Step(p) \/ Die(p)
    \/ Tick

Spec == Init /\ [][Next]_vars

\* A started process ends, and the user keeps working in every repository.
FairSpec ==
    /\ Spec
    /\ \A p \in Procs : WF_vars(Step(p))
    /\ \A r \in Remotes : WF_vars(\E p \in Procs : Heartbeat(p, r))

-----------------------------------------------------------------------------
(* Properties *)

TypeOK ==
    /\ IsSchedule(json) /\ IsSchedule(tmp) /\ tmpExists \in BOOLEAN
    /\ ~tmpExists => tmp = Torn
    /\ clock \in Nat
    /\ pc \in [Procs -> {"idle", "look", "spawn", "check", "ask", "load", "open",
                         "write", "rename"}]
    /\ remote \in [Procs -> Remotes \union {NoRemote}]
    /\ \A p \in Procs : pc[p] = "idle" <=> remote[p] = NoRemote
    /\ now \in [Procs -> Nat]
    /\ until \in [Procs -> Nat]
    /\ next \in [Procs -> {"spawn", "ask", "end"}]
    /\ DOMAIN view = Procs /\ \A p \in Procs : IsSchedule(view[p])
    /\ fd \in [Procs -> {"none", "tmp", "json", "gone"}]
    /\ \A p \in Procs : pc[p] = "write" <=> fd[p] # "none"
    /\ ~tmpExists => \A p \in Procs : fd[p] # "tmp"
    /\ asked \in [Remotes -> [at : Int, wait : Nat]]
    /\ overlap \in BOOLEAN
    /\ faults \in Nat

Checking(p) == pc[p] # "idle" /\ pc[p] # "look" /\ ~InHeartbeat(p)

(***************************************************************************)
(* A repository is never checked twice at the same time (syncdeps.go: "the *)
(* next heartbeat must not start a second check while this one runs").     *)
(***************************************************************************)
NoSecondCheck ==
    \A p, q \in Procs : p # q /\ Checking(p) /\ Checking(q) => remote[p] # remote[q]

(***************************************************************************)
(* The server is asked about a repository only after the wait it asked     *)
(* for, or an hour when it got no answer (state.go: "a repository is asked *)
(* about at most once a day, whatever the editor does").                   *)
(***************************************************************************)
NotAskedTooSoon ==
    \A p \in Procs : pc[p] = "ask" =>
        LET last == asked[remote[p]] IN now[p] >= last.at + last.wait

\* On such a machine no writer can lose the entry of another repository, and no
\* two heartbeats find the same one due.
OneRepository == \A r, s \in Remotes : r = s
Undisturbed == ~overlap /\ OneRepository

(***************************************************************************)
(* Both are so, whatever dies, on a machine that works on one repository   *)
(* and where heartbeats, though not the checks they start, come one after  *)
(* another.  With a second repository, or overlapping heartbeats, neither  *)
(* needs to be.                                                            *)
(***************************************************************************)
OneCheckAtATime == Undisturbed => NoSecondCheck
AskedSeldom == Undisturbed => NotAskedTooSoon

Waits == {Wait(after) : after \in CheckAfters} \union {RetryAfter, Day}

(***************************************************************************)
(* However writers collide and die, the schedule never keeps a repository  *)
(* from being checked for longer than the longest wait anybody asked for.  *)
(***************************************************************************)
NeverPutOffForLong ==
    \A r \in DOMAIN json : \E wait \in Waits : json[r] <= clock + wait

(***************************************************************************)
(* A schedule that is missing or does not parse is written anew: what a    *)
(* writer that died left behind does not stay (state.go, load).            *)
(***************************************************************************)
Heals == json = Torn ~> json # Torn

=============================================================================
