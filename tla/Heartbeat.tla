----------------------------- MODULE Heartbeat -----------------------------
(***************************************************************************)
(* `inlinr heartbeat` (cmd/inlinr/heartbeat.go) over the SQLite queue of   *)
(* internal/queue/queue.go.  Every plugin event starts a process of its    *)
(* own: it throttles and queues the beats it was given, each statement its *)
(* own transaction, then sends the queue in batches until it is empty or a *)
(* batch fails.  Processes overlap freely, and share nothing but the       *)
(* database and the server.                                                *)
(*                                                                         *)
(* A process that dies (killed, a failing SQL statement, the 30 s context, *)
(* stdin that does not parse) simply stops: what it did is in the          *)
(* database.  The server's answer and its effect are separate: a request   *)
(* may take effect and its answer be lost.                                 *)
(***************************************************************************)
EXTENDS BeatData, Sequences, FiniteSets

CONSTANTS
    Procs,          \* slots for processes: how many may run at once
    Invocations,    \* sequences of beats: the primary, then those of stdin
    Leftover,       \* rows an earlier history left in the table
    LastId,         \* the last id that history gave out
    LeftoverMarks,  \* last_emits as that history left it
    NoMark,         \* no row of last_emits for a key
    Overlaps,       \* whether processes may overlap, in which behaviours
    BatchSize,      \* batchSize
    MaxFaults       \* bound on the faults of a behaviour

Rows == [id : Nat, beat : BeatType]
Ids(rows) == {r.id : r \in rows}

ASSUME InvocationsAssumption ==
    /\ Invocations \subseteq Seq(Beats)
    /\ \A beats \in Invocations : \A i \in DOMAIN beats : beats[i].readable
ASSUME OverlapsAssumption == Overlaps \subseteq BOOLEAN
ASSUME BatchSizeAssumption == BatchSize \in Nat \ {0}
ASSUME MaxFaultsAssumption == MaxFaults \in Nat
ASSUME LeftoverAssumption ==
    /\ LastId \in Nat
    /\ Leftover \subseteq [id : 1 .. LastId, beat : Beats]
    /\ IsFiniteSet(Leftover)
    /\ \A r, s \in Leftover : r.id = s.id => r = s
ASSUME NoMarkAssumption == NoMark \notin Int
ASSUME MarksAssumption == LeftoverMarks \in [Keys -> Int \union {NoMark}]

VARIABLES
    overlap,    \* processes of this behaviour overlap
    table,      \* heartbeats: the queued rows
    seq,        \* sqlite_sequence: the last id AUTOINCREMENT gave out
    marks,      \* last_emits: the time of the last accepted beat of a key
    made,       \* invocations made so far
    pc, todo, batch,  \* of each process: its place, the beats it has still to
                      \* queue, the rows Take returned
    faults,     \* faults still to come
    delivered,  \* of each beat: requests with it that took effect (server)
    log,        \* every row ever inserted             (history)
    answered,   \* rows a process got a 2xx answer for (history)
    refused     \* rows a process got a 400 answer for (history)

database == <<table, seq, marks>>
process == <<pc, todo, batch>>
history == <<log, answered, refused>>
changing == <<database, made, process, faults, delivered, history>>
vars == <<overlap, changing>>

Serials == {b.n : b \in Beats}

Init ==
    /\ overlap \in Overlaps
    /\ table = Leftover
    /\ seq = LastId
    /\ marks = LeftoverMarks
    /\ made = {}
    /\ pc = [p \in Procs |-> "idle"]
    /\ todo = [p \in Procs |-> <<>>]
    /\ batch = [p \in Procs |-> {}]
    /\ faults = MaxFaults
    /\ delivered = [n \in Serials |-> 0]
    /\ log = Leftover
    /\ answered = {}
    /\ refused = {}

-----------------------------------------------------------------------------
(* Small operators *)

\* A process may start.
Free(p) ==
    /\ pc[p] = "idle"
    /\ overlap \/ \A q \in Procs : pc[q] = "idle"

\* ShouldEmit: a beat older than the mark is throttled as well.
ShouldEmit(b) ==
    \/ b.write
    \/ RateLimit <= 0
    \/ marks[b.key] = NoMark
    \/ marks[b.key] # NoMark /\ b.time - marks[b.key] >= RateLimit

\* Mistake: without AUTOINCREMENT, SQLite reuses the ids of deleted rows.
ReusedId == CHOOSE n \in 1 .. seq + 1 :
    /\ \A r \in table : r.id < n
    /\ n = 1 \/ \E r \in table : r.id = n - 1

NextId == seq + 1

\* Mistake: ORDER BY id DESC.
Newest(n) == {r \in table : Cardinality({s \in table : s.id >= r.id}) <= n}

\* SELECT .. ORDER BY id ASC LIMIT n
Oldest(n) == {r \in table : Cardinality({s \in table : s.id <= r.id}) <= n}

Readable(rows) == {r \in rows : r.beat.readable}

\* Mistake: rows that do not parse are skipped and left where they are.
NoneOf(rows) == {}

\* The rows of its window Take deletes.
Corrupt(rows) == rows \ Readable(rows)

\* dedupBeats over the rows of a batch, in id order: see Algorithms!KeptAreSurvivors.
Sendable(rows) ==
    {r \in rows : ~ \E s \in rows :
        /\ r.id < s.id
        /\ \A t \in rows : t.id <= r.id \/ s.id <= t.id
        /\ IsDup(r.beat, s.beat)}

Settled == answered \union refused

-----------------------------------------------------------------------------
(* Queueing the beats of the command line and of stdin *)

\* A plugin runs the command; warnUnknownAITool cleans each beat.
Start(p, beats) ==
    /\ Free(p)
    /\ beats \notin made
    /\ made' = made \union {beats}
    /\ pc' = [pc EXCEPT ![p] = "check"]
    /\ todo' = [todo EXCEPT ![p] = [i \in DOMAIN beats |-> DropUnknownAITool(beats[i])]]
    /\ UNCHANGED <<database, batch, faults, delivered, history>>

\* The editor reports again a beat the throttle suppresses: such a process
\* only flushes.  There is no end of those while the user works.
StartThrottled(p) ==
    /\ Free(p)
    /\ \E b \in Beats : ~ShouldEmit(b)
    /\ pc' = [pc EXCEPT ![p] = "take"]
    /\ UNCHANGED <<database, made, todo, batch, faults, delivered, history>>

Check(p) ==
    /\ pc[p] = "check"
    /\ IF todo[p] = <<>>
       THEN pc' = [pc EXCEPT ![p] = "take"] /\ UNCHANGED todo
       ELSE IF ShouldEmit(Head(todo[p]))
       THEN pc' = [pc EXCEPT ![p] = "enqueue"] /\ UNCHANGED todo
       ELSE todo' = [todo EXCEPT ![p] = Tail(@)] /\ UNCHANGED pc
    /\ UNCHANGED <<database, made, batch, faults, delivered, history>>

\* Mistake: the beat is forgotten before it is marked.
EnqueueAndForget(p) ==
    /\ pc[p] = "enqueue"
    /\ LET row == [id |-> NextId, beat |-> Head(todo[p])]
       IN /\ table' = table \union {row}
          /\ log' = log \union {row}
    /\ seq' = NextId
    /\ todo' = [todo EXCEPT ![p] = Tail(@)]
    /\ pc' = [pc EXCEPT ![p] = "mark"]
    /\ UNCHANGED <<marks, made, batch, faults, delivered, answered, refused>>

Enqueue(p) ==
    /\ pc[p] = "enqueue"
    /\ LET row == [id |-> NextId, beat |-> Head(todo[p])]
       IN /\ table' = table \union {row}
          /\ log' = log \union {row}
    /\ seq' = NextId
    /\ pc' = [pc EXCEPT ![p] = "mark"]
    /\ UNCHANGED <<marks, made, todo, batch, faults, delivered, answered, refused>>

\* Mistake: ON CONFLICT DO NOTHING.
MarkOnce(p) ==
    /\ pc[p] = "mark"
    /\ marks' = [marks EXCEPT ![Head(todo[p]).key] =
                    IF @ = NoMark THEN Head(todo[p]).time ELSE @]
    /\ todo' = [todo EXCEPT ![p] = Tail(@)]
    /\ pc' = [pc EXCEPT ![p] = "check"]
    /\ UNCHANGED <<table, seq, made, batch, faults, delivered, history>>

MarkEmitted(p) ==
    /\ pc[p] = "mark"
    /\ marks' = [marks EXCEPT ![Head(todo[p]).key] = Head(todo[p]).time]
    /\ todo' = [todo EXCEPT ![p] = Tail(@)]
    /\ pc' = [pc EXCEPT ![p] = "check"]
    /\ UNCHANGED <<table, seq, made, batch, faults, delivered, history>>

-----------------------------------------------------------------------------
(* flush *)

\* The rows that no longer parse are deleted on the way; a DELETE that fails
\* is ignored.  A window without a readable row ends the flush.
Take(p) ==
    /\ pc[p] = "take"
    /\ LET window == Oldest(BatchSize)
           readable == Readable(window)
       IN /\ \/ table' = table \ Corrupt(window) /\ UNCHANGED faults
             \/ /\ faults > 0
                /\ faults' = faults - 1
                /\ \E kept \in (SUBSET Corrupt(window)) \ {{}} :
                     table' = table \ (Corrupt(window) \ kept)
          /\ batch' = [batch EXCEPT ![p] = readable]
          /\ pc' = [pc EXCEPT ![p] = IF readable = {} THEN "idle" ELSE "post"]
    /\ UNCHANGED <<seq, marks, made, todo, delivered, history>>

\* What the server does with a request it accepts.
Deliver(rows) ==
    delivered' = [n \in Serials |->
        IF \E r \in Sendable(rows) : r.beat.n = n
        THEN delivered[n] + 1 ELSE delivered[n]]

ServerAccepts(rows) == \A r \in Sendable(rows) : ~Malformed(r.beat)

PostAccepted(p) ==
    /\ pc[p] = "post"
    /\ ServerAccepts(batch[p])
    /\ Deliver(batch[p])
    /\ answered' = answered \union batch[p]
    /\ pc' = [pc EXCEPT ![p] = "ack"]
    /\ UNCHANGED <<database, made, todo, batch, faults, log, refused>>

PostRefused(p) ==
    /\ pc[p] = "post"
    /\ ~ServerAccepts(batch[p])
    /\ refused' = refused \union batch[p]
    /\ pc' = [pc EXCEPT ![p] = "drop"]
    /\ UNCHANGED <<database, made, todo, batch, faults, delivered, log, answered>>

\* 401, 5xx, no connection, no answer in 20 s, an answer that does not parse:
\* the rows stay.  The server may have taken the beats all the same.
PostFailed(p) ==
    /\ pc[p] = "post"
    /\ faults > 0
    /\ faults' = faults - 1
    /\ \/ UNCHANGED delivered
       \/ ServerAccepts(batch[p]) /\ Deliver(batch[p])
    /\ pc' = [pc EXCEPT ![p] = "idle"]
    /\ batch' = [batch EXCEPT ![p] = {}]
    /\ UNCHANGED <<database, made, todo, history>>

\* Mistake: the first placeholder is left out of the list.
WithoutAllButFirst(ids) ==
    {r \in table : r.id \notin ids \/ \A n \in ids : r.id <= n}

\* DELETE .. WHERE id IN (..): by id, whatever the row holds by now.
Without(ids) == {r \in table : r.id \notin ids}

Ack(p) ==
    /\ pc[p] = "ack"
    /\ table' = Without(Ids(batch[p]))
    /\ pc' = [pc EXCEPT ![p] = "take"]
    /\ batch' = [batch EXCEPT ![p] = {}]
    /\ UNCHANGED <<seq, marks, made, todo, faults, delivered, history>>

\* The 400 branch: the rows go, and so does the process.
Drop(p) ==
    /\ pc[p] = "drop"
    /\ table' = Without(Ids(batch[p]))
    /\ pc' = [pc EXCEPT ![p] = "idle"]
    /\ batch' = [batch EXCEPT ![p] = {}]
    /\ UNCHANGED <<seq, marks, made, todo, faults, delivered, history>>

Die(p) ==
    /\ pc[p] # "idle"
    /\ faults > 0
    /\ faults' = faults - 1
    /\ pc' = [pc EXCEPT ![p] = "idle"]
    /\ todo' = [todo EXCEPT ![p] = <<>>]
    /\ batch' = [batch EXCEPT ![p] = {}]
    /\ UNCHANGED <<database, made, delivered, history>>

-----------------------------------------------------------------------------
\* The steps a live process takes by itself.
Run(p) ==
    \/ Check(p) \/ Enqueue(p) \/ MarkEmitted(p)
    \/ Take(p) \/ PostAccepted(p) \/ PostRefused(p) \/ Ack(p) \/ Drop(p)

Next ==
    /\ UNCHANGED overlap
    /\ \E p \in Procs :
         \/ \E beats \in Invocations : Start(p, beats)
         \/ StartThrottled(p)
         \/ Run(p)
         \/ PostFailed(p)
         \/ Die(p)

Spec == Init /\ [][Next]_vars

(***************************************************************************)
(* A started process gets the processor and its statements and requests    *)
(* end (busy_timeout, the 20 s of the client, the 30 s context); and the   *)
(* user goes on working, so the command is run again and again.            *)
(***************************************************************************)
Fairness ==
    /\ \A p \in Procs : WF_changing(Run(p))
    /\ WF_changing(\E p \in Procs : StartThrottled(p))

FairSpec == Spec /\ Fairness

-----------------------------------------------------------------------------
(* Properties *)

TypeOK ==
    /\ overlap \in BOOLEAN
    /\ table \subseteq Rows
    /\ seq \in Nat
    /\ marks \in [Keys -> Int \union {NoMark}]
    /\ made \subseteq Invocations
    /\ pc \in [Procs -> {"idle", "check", "enqueue", "mark", "take", "post",
                         "ack", "drop"}]
    /\ todo \in [Procs -> Seq(Fresh)]
    /\ \A p \in Procs : pc[p] \in {"enqueue", "mark"} => todo[p] # <<>>
    /\ batch \in [Procs -> SUBSET Rows]
    /\ faults \in Nat
    /\ delivered \in [Serials -> Nat]
    /\ log \subseteq Rows
    /\ answered \subseteq Rows
    /\ refused \subseteq Rows

(***************************************************************************)
(* A row leaves the table only when the server answered for it or it no    *)
(* longer parses: no Ack of one process deletes a row another has queued   *)
(* and nobody has sent (queue.go: Ack deletes by id).                      *)
(***************************************************************************)
NothingLost ==
    \A r \in log : r \in table \/ r \in Settled \/ ~r.beat.readable

(***************************************************************************)
(* Beats are settled oldest first, with any number of flushes at work at   *)
(* once (queue.go: Take is FIFO): below a settled row no readable row is   *)
(* left unsettled.                                                         *)
(***************************************************************************)
SettledInOrder ==
    \A r \in Settled : \A s \in log :
        s.id < r.id => s \in Settled \/ ~s.beat.readable

(***************************************************************************)
(* What keeps overlapping flushes from overtaking each other: a batch in   *)
(* flight is the oldest part of what was ever queued and is not settled,   *)
(* and a process that is about to delete its batch holds an answer for     *)
(* all of it.                                                              *)
(***************************************************************************)
BatchesAreOldest ==
    \A p \in Procs :
        /\ batch[p] \subseteq Readable(log)
        /\ \A r \in batch[p] : \A s \in log :
             s.id < r.id => s \in batch[p] \/ s \in Settled \/ ~s.beat.readable
        /\ pc[p] = "ack" => batch[p] \subseteq answered
        /\ pc[p] = "drop" => batch[p] \subseteq refused

\* Each row ever queued has an id of its own, below the next one.
HistoryOK ==
    /\ table \subseteq log /\ answered \subseteq log /\ refused \subseteq log
    /\ IsFiniteSet(log)
    /\ \A r \in log : r.id <= seq
    /\ \A r, s \in log : r.id = s.id => r = s

\* The inductive invariant.
Inv == TypeOK /\ HistoryOK /\ NothingLost /\ SettledInOrder /\ BatchesAreOldest

(***************************************************************************)
(* Every row the client counts as sent is on the server, or a beat of the  *)
(* same key stands for it there.  A run of duplicates collapses into its   *)
(* last beat, so the distance is that of a whole batch, not one window.    *)
(***************************************************************************)
AnsweredIsStored ==
    \A r \in answered : \E s \in answered :
        /\ delivered[s.beat.n] > 0
        /\ s.beat.key = r.beat.key
        /\ s.id >= r.id
        /\ Gap(r.beat, s.beat) <= DedupWindow * (BatchSize - 1)

(***************************************************************************)
(* A beat is stored more than once only when flushes overlap or fail: each *)
(* running process can send it once, each fault allows one more sending.   *)
(***************************************************************************)
BoundedRedelivery ==
    \A n \in Serials :
        delivered[n] <= (IF overlap THEN Cardinality(Procs) ELSE 1)
                          + (MaxFaults - faults)

(***************************************************************************)
(* The 400 branch drops a whole batch, so good beats go with a bad one --  *)
(* but only its neighbours, and never because of an unknown ai_tool, which *)
(* is taken off before the beat is queued (heartbeat.go: "one bad name     *)
(* must not cost the tracked time").                                       *)
(***************************************************************************)
RefusalRadius ==
    \A r \in refused : \E s \in refused :
        /\ ~s.beat.wellFormed
        /\ \A lo, hi \in {r, s} :
             Cardinality({t \in Readable(log) : lo.id <= t.id /\ t.id <= hi.id})
               <= BatchSize

(***************************************************************************)
(* ShouldEmit's promise over the whole history: a beat that is not a save  *)
(* is queued only RateLimit or more after the beat of its key queued       *)
(* before it (queue.go: "suppress if the previous emit for the same key    *)
(* was within rateLimitSec").  So it is of processes that do not overlap   *)
(* and do not die: two that do may both check before either marks.         *)
(***************************************************************************)
Throttled ==
    RateLimit > 0 /\ ~overlap /\ faults = MaxFaults =>
        \A r, s \in log \ Leftover :
            LET between == {t \in log : /\ s.id < t.id /\ t.id < r.id
                                        /\ t.beat.key = r.beat.key}
            IN s.id < r.id /\ s.beat.key = r.beat.key /\ between = {} /\ ~r.beat.write
                 => r.beat.time - s.beat.time >= RateLimit

\* The queue empties for good once faults and new beats end.
EventuallyDrained == <>[](table = {})

\* Heartbeat implements Outbox: what waits is every readable row that no
\* process has an answer for yet.
OutboxOfQueue == INSTANCE Outbox WITH
    Initial <- Ids(Readable(Leftover)),
    FirstFree <- LastId + 1,
    pending <- Ids(Readable(log) \ Settled),
    next <- seq + 1

ImplementsOutbox == OutboxOfQueue!Spec

=============================================================================
