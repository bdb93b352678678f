-------------------------------- MODULE Dedup --------------------------------
(***************************************************************************)
(* dedupBeats (cmd/inlinr/common.go), the loop of the source, against the  *)
(* two ways the rest of the project describes its result: which positions  *)
(* of the batch survive it, and what a sorted batch looks like afterwards. *)
(***************************************************************************)
EXTENDS BeatData, Sequences, SequencesExt, FiniteSets

\* Mistake: the older beat of a pair stays.
KeepOlder(out, b) ==
    IF out # <<>> /\ IsDup(Last(out), b) THEN out ELSE Append(out, b)

\* Mistake: each beat is compared with every kept one, not with the last.
KeepIfNew(out, b) ==
    IF \E k \in 1 .. Len(out) : IsDup(out[k], b) THEN Append(Front(out), b) ELSE Append(out, b)

\* One turn of the loop: the beat replaces the last kept one or is appended.
Keep(out, b) ==
    IF out # <<>> /\ IsDup(Last(out), b)
    THEN Append(Front(out), b)
    ELSE Append(out, b)

\* The description the queue's model uses: a beat survives unless the beat
\* right after it in the batch is its duplicate.
Survives(batch, i) == i = Len(batch) \/ ~IsDup(batch[i], batch[i + 1])

SortedByTime(beats) == \A i \in 1 .. Len(beats) - 1 : beats[i].time <= beats[i + 1].time

=============================================================================
