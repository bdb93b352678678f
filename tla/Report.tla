------------------------------- MODULE Report -------------------------------
(***************************************************************************)
(* Reports of the CLI's own failures (internal/report/report.go, sent from *)
(* cmd/inlinr/reporting.go).  error-reports.json remembers when each       *)
(* failure was last reported, so that a repeat waits a day; it is read     *)
(* before the report is posted and written in place after.                 *)
(***************************************************************************)
EXTENDS Integers, FiniteSets

CONSTANTS
    Procs,        \* commands that fail
    Failures,     \* the failures, a command and the signature of its message
    Cause,        \* of each failure, its command and the kind of its error
    NoFailure,    \* of a process that does not run
    ResendAfter,  \* resendAfter: 24 hours
    ForgetAfter,  \* forgetAfter: 7 days
    MaxMeetings,  \* bound on the commands that fail beside another
    MaxClock,     \* bound on the time passing in a behaviour
    MaxFaults     \* bound on the faults of a behaviour

ASSUME TimesAssumption ==
    /\ ResendAfter \in Nat \ {0} /\ ForgetAfter \in Nat /\ ResendAfter <= ForgetAfter
    /\ MaxClock \in Nat
ASSUME CauseAssumption == Cause \in [Failures -> [command : STRING, error : STRING]]
ASSUME NoFailureAssumption == NoFailure \notin Failures
ASSUME BoundsAssumption == MaxMeetings \in Nat /\ MaxFaults \in Nat

\* When each known failure was last reported.
IsMemory(m) == DOMAIN m \subseteq Failures /\ m \in [DOMAIN m -> Int]

\* A file that is missing or does not parse is an empty memory, and no writer
\* writes an empty one.
Torn == [f \in {} |-> 0]

VARIABLES
    file,
    clock,
    pc, failure, now, sent,  \* of each process: send's locals
    posted,                  \* when each failure last reached the server (history)
    repeats,                 \* how often one got through again within a day (history)
    meetings,                \* how many commands failed beside another (history)
    faults

local == <<pc, failure, now, sent>>
vars == <<file, clock, local, posted, repeats, meetings, faults>>

Init ==
    /\ file = Torn
    /\ clock = 0
    /\ pc = [p \in Procs |-> "idle"]
    /\ failure = [p \in Procs |-> NoFailure]
    /\ now = [p \in Procs |-> 0]
    /\ sent = [p \in Procs |-> Torn]
    /\ posted = [f \in Failures |-> -ResendAfter]
    /\ repeats = [f \in Failures |-> 0]
    /\ meetings = 0
    /\ faults = MaxFaults

Goto(p, place) == pc' = [pc EXCEPT ![p] = place]

End(p) == /\ Goto(p, "idle")
          /\ failure' = [failure EXCEPT ![p] = NoFailure]
          /\ now' = [now EXCEPT ![p] = 0]
          /\ sent' = [sent EXCEPT ![p] = Torn]

\* Whether the report is still too fresh to be sent again.
Reported(memory, f, time) == f \in DOMAIN memory /\ time - memory[f] < ResendAfter

\* The commands that run unattended, and the errors that are the user's, the
\* server's or the network's: a panic and a message are none of these.
ReportedCommands == {"heartbeat", "sync-deps", "upgrade", "mcp"}
NotWorth == {"quiet", "auth", "bad request", "transient", "deadline", "canceled", "network"}

Worth(f) == Cause[f].command \in ReportedCommands /\ Cause[f].error \notin NotWorth

\* A command fails, on a machine that sends reports: a release build, and
\* error_reports not turned off.  A failure that is not worth it ends there.
Fail(p, f) ==
    /\ pc[p] = "idle"
    /\ Worth(f)
    /\ \/ (\A q \in Procs : pc[q] = "idle") /\ UNCHANGED meetings
       \/ /\ \E q \in Procs : pc[q] # "idle"
          /\ meetings < MaxMeetings
          /\ meetings' = meetings + 1
    /\ Goto(p, "load")
    /\ failure' = [failure EXCEPT ![p] = f]
    /\ now' = [now EXCEPT ![p] = clock]
    /\ UNCHANGED <<file, clock, sent, posted, repeats, faults>>

\* loadState, and the decision.
LoadState(p) ==
    /\ pc[p] = "load"
    /\ IF Reported(file, failure[p], now[p])
       THEN End(p)
       ELSE /\ Goto(p, "post")
            /\ sent' = [sent EXCEPT ![p] = file]
            /\ UNCHANGED <<failure, now>>
    /\ UNCHANGED <<file, clock, meetings, posted, repeats, faults>>

\* The report reaches the server.
Arrive(p) ==
    LET f == failure[p]
        early == now[p] - posted[f] < ResendAfter
    IN /\ posted' = [posted EXCEPT ![f] = IF @ < now[p] THEN now[p] ELSE @]
       /\ repeats' = [repeats EXCEPT ![f] = IF early THEN @ + 1 ELSE @]

\* Any answer counts.
Post(p) ==
    /\ pc[p] = "post"
    /\ Arrive(p)
    /\ Goto(p, "open")
    /\ UNCHANGED <<file, clock, meetings, failure, now, sent, faults>>

\* Mistake: a report that did not get through is remembered like one that did.
SaveAnyway(p) ==
    /\ pc[p] = "post"
    /\ Goto(p, "open")
    /\ UNCHANGED <<file, clock, meetings, failure, now, sent, posted, repeats, faults>>

\* No network, or two seconds pass before the report is there.
PostFails(p) ==
    /\ pc[p] = "post"
    /\ End(p)
    /\ UNCHANGED <<file, clock, meetings, posted, repeats, faults>>

\* It is there, and its answer is lost or late: to send, the same error.
PostUnanswered(p) ==
    /\ pc[p] = "post"
    /\ faults > 0
    /\ faults' = faults - 1
    /\ Arrive(p)
    /\ End(p)
    /\ UNCHANGED <<file, clock, meetings>>

\* os.WriteFile truncates the file that is there,
SaveOpen(p) ==
    /\ pc[p] = "open"
    /\ file' = Torn
    /\ Goto(p, "write")
    /\ UNCHANGED <<clock, meetings, failure, now, sent, posted, repeats, faults>>

\* Mistake: the memory is written without what was loaded.
OnlyThis(memory, f, time) == [k \in {f} |-> time]

\* The memory send writes: with its own failure, without those long past.
Remembered(memory, f, time) ==
    LET all == [k \in DOMAIN memory \union {f} |-> IF k = f THEN time ELSE memory[k]]
    IN [k \in {g \in DOMAIN all : time - all[g] <= ForgetAfter} |-> all[k]]

\* and then writes; over what another writer wrote since, a shorter memory
\* leaves the end of the other.
SaveWrite(p) ==
    /\ pc[p] = "write"
    /\ LET memory == Remembered(sent[p], failure[p], now[p])
       IN file' \in IF DOMAIN file \subseteq DOMAIN memory THEN {memory} ELSE {memory, Torn}
    /\ End(p)
    /\ UNCHANGED <<clock, meetings, posted, repeats, faults>>

Die(p) ==
    /\ pc[p] # "idle"
    /\ faults > 0
    /\ faults' = faults - 1
    /\ End(p)
    /\ UNCHANGED <<file, clock, meetings, posted, repeats>>

\* A report takes less than a unit of time: 2 s.
Tick ==
    /\ clock < MaxClock
    /\ \A p \in Procs : pc[p] # "idle" => now[p] = clock
    /\ clock' = clock + 1
    /\ UNCHANGED <<file, meetings, local, posted, repeats, faults>>

Step(p) ==
    LoadState(p) \/ Post(p) \/ PostFails(p) \/ PostUnanswered(p) \/ SaveOpen(p) \/ SaveWrite(p)

Next ==
    \/ \E p \in Procs : \E f \in Failures : Fail(p, f)
    \/ \E p \in Procs : Step(p) \/ Die(p)
    \/ Tick

Spec == Init /\ [][Next]_vars

-----------------------------------------------------------------------------
(* Properties *)

TypeOK ==
    /\ IsMemory(file)
    /\ clock \in Nat
    /\ pc \in [Procs -> {"idle", "load", "post", "open", "write"}]
    /\ failure \in [Procs -> Failures \union {NoFailure}]
    /\ \A p \in Procs : pc[p] = "idle" <=> failure[p] = NoFailure
    /\ \A p \in Procs : pc[p] # "idle" => Worth(failure[p])
    /\ now \in [Procs -> Nat]
    /\ DOMAIN sent = Procs /\ \A p \in Procs : IsMemory(sent[p])
    /\ posted \in [Failures -> Int]
    /\ \A p \in Procs : pc[p] \in {"open", "write"} => posted[failure[p]] >= now[p]
    /\ repeats \in [Failures -> Nat]
    /\ meetings \in Nat
    /\ faults \in Nat

(***************************************************************************)
(* "The same error is sent once a day per machine" (report.go).  That is   *)
(* so of commands one after another of which nothing fails.  Otherwise a   *)
(* failure gets through again within the day:                              *)
(*   - once for each fault: a death after the post, or within the write,   *)
(*     which loses every failure at once, or an answer that is lost;       *)
(*   - twice for each command that fails beside another: both may send it, *)
(*     and what they write over each other may lose it once more;          *)
(* and for no other reason, however many failures there are.               *)
(***************************************************************************)
OnceADay == \A f \in Failures : repeats[f] <= (MaxFaults - faults) + 2 * meetings

(***************************************************************************)
(* A failure is held back only for a day after a report of it got through, *)
(* whichever commands fail at the same time and whatever they overwrite.   *)
(***************************************************************************)
HeldBackForADay ==
    \A f \in Failures : Reported(file, f, clock) => clock - posted[f] < ResendAfter

=============================================================================
