--------------------------- MODULE DepsScheduleMC ---------------------------
(***************************************************************************)
(* Instances of DepsSchedule: an hour is 3 units of time, a day 5, so      *)
(* that a process, which may span two, ends before its claim expires.      *)
(***************************************************************************)
EXTENDS DepsSchedule, TLC

CONSTANTS p1, p2, app, lib

Sym == Permutations(Procs) \union Permutations(Remotes)

\* A wait the server got wrong, and a day.
SoonOrDay == {-1, Day}
OnlyDay == {Day}

=============================================================================
