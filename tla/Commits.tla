------------------------------- MODULE Commits -------------------------------
(***************************************************************************)
(* The counts sync-commits sends (internal/commits/commits.go), parsed out *)
(* of what `git log --numstat` prints.  A line is the first of a record,   *)
(* with the hash of its commit, or a file's: lines added and deleted, each *)
(* Uncounted ("-") for a binary file, or else blank.                       *)
(***************************************************************************)
EXTENDS Integers, Sequences, SequencesExt, FiniteSets, FiniteSetsExt

Uncounted == -1

Counts == Nat \union {Uncounted}

Atoi(n) == IF n = Uncounted THEN 0 ELSE n

Commit(sha) == [sha |-> sha, files |-> 0, insertions |-> 0, deletions |-> 0]

\* Mistake: a file without counts is not a file changed.
SkipBinary(c, line) ==
    IF line.add = Uncounted THEN c
    ELSE [c EXCEPT !.files = @ + 1, !.insertions = @ + line.add, !.deletions = @ + line.del]

\* A file's line within the record of a commit.
Numstat(c, line) ==
    [c EXCEPT !.files = @ + 1, !.insertions = @ + Atoi(line.add), !.deletions = @ + Atoi(line.del)]

\* A line of git's output, with the commits read so far.
ParseLine(commits, line) ==
    CASE line.kind = "record" -> Append(commits, Commit(line.sha))
      [] line.kind = "file" -> Append(Front(commits), Numstat(Last(commits), line))
      [] line.kind = "blank" -> commits

-----------------------------------------------------------------------------
\* Where the records begin, and the files' lines between one and the next.
Records(lines) == {i \in 1 .. Len(lines) : lines[i].kind = "record"}

FilesOf(lines, r) ==
    {i \in r + 1 .. Len(lines) : /\ lines[i].kind = "file"
                                 /\ Records(lines) \intersect r + 1 .. i = {}}

CommitOf(lines, r) ==
    [sha |-> lines[r].sha,
     files |-> Cardinality(FilesOf(lines, r)),
     insertions |-> SumFunction([i \in FilesOf(lines, r) |-> Atoi(lines[i].add)]),
     deletions |-> SumFunction([i \in FilesOf(lines, r) |-> Atoi(lines[i].del)])]

=============================================================================
