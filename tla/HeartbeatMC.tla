---------------------------- MODULE HeartbeatMC ----------------------------
(* Instances of Heartbeat for TLC: two files edited in one editor. *)
EXTENDS Heartbeat

beat(n, key, time) == [n |-> n, key |-> key, time |-> time, write |-> FALSE,
                       aiTool |-> "none", readable |-> TRUE, wellFormed |-> TRUE]

mcKeys == {"a", "b"}

torn   == [beat(1, "a", 0) EXCEPT !.readable = FALSE]
oldA   == beat(2, "a", 1)
saveA  == [beat(3, "a", 2) EXCEPT !.write = TRUE, !.aiTool = "known"]
laterA == beat(4, "a", 4)
b3     == [beat(5, "b", 3) EXCEPT !.aiTool = "unknown"]
badA   == [beat(6, "a", 5) EXCEPT !.wellFormed = FALSE]

mcBeats == {torn, oldA, saveA, laterA, b3, badA}
mcLeftover == {[id |-> 1, beat |-> torn], [id |-> 3, beat |-> oldA]}
mcLastId == 3
mcMarks == [k \in mcKeys |-> IF k = "a" THEN 1 ELSE NoMark]

\* A save and its follow-up in one command, another file, and a malformed beat
\* that comes too soon after the follow-up.
mcInvocations == {<<saveA, laterA>>, <<b3>>, <<badA>>}
=============================================================================
