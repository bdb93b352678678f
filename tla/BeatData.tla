------------------------------ MODULE BeatData ------------------------------
(***************************************************************************)
(* Heartbeats, reduced to what the queue, the throttle and the flush tell  *)
(* apart (internal/heartbeat/heartbeat.go, cmd/inlinr/common.go).          *)
(*                                                                         *)
(*   key       the (entity, branch, editor) triple: the primary key of     *)
(*             last_emits, and what isDup compares                         *)
(*   time      the beat's own timestamp, in whole units                    *)
(*   write     is_write: a save                                            *)
(*   aiTool    ai_tool: none, one of AITools, or a name that is not in it  *)
(*   readable  the JSON of a row of this beat still parses                 *)
(*   wellFormed  the server has nothing against its other fields           *)
(*   n         tells apart two beats that agree on everything else         *)
(***************************************************************************)
EXTENDS Integers

CONSTANTS
    Beats,        \* the beats the checked instance can meet
    Keys,         \* the (entity, branch, editor) triples they can have
    DedupWindow,  \* windowSec of dedupBeats
    RateLimit     \* behavior.heartbeat_rate_limit_seconds

BeatType == [n : Nat, key : Keys, time : Int, write : BOOLEAN,
             aiTool : {"none", "known", "unknown"},
             readable : BOOLEAN, wellFormed : BOOLEAN]

\* What Enqueue stores parses: it is what json.Marshal wrote.
Fresh == {b \in BeatType : b.readable}

ASSUME BeatsAssumption == Beats \subseteq BeatType
ASSUME WindowAssumption == DedupWindow \in Nat
ASSUME RateLimitAssumption == RateLimit \in Int

Gap(a, b) == IF b.time < a.time THEN a.time - b.time ELSE b.time - a.time

\* Mistake: the name is passed on as it came.
KeepAITool(b) == b

DropUnknownAITool(b) ==
    IF b.aiTool = "unknown" THEN [b EXCEPT !.aiTool = "none"] ELSE b

\* The server answers 400 to a batch with such a beat (AITools' comment).
Malformed(b) == b.aiTool = "unknown" \/ ~b.wellFormed

\* Mistake: two files edited at the same moment count as one.
IsDupOfAnyKey(a, b) == Gap(a, b) <= DedupWindow

\* isDup: the gap is absolute, so a beat that arrives late is a duplicate too.
IsDup(a, b) == a.key = b.key /\ Gap(a, b) <= DedupWindow

=============================================================================
