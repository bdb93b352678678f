------------------------------ MODULE ReportMC ------------------------------
(***************************************************************************)
(* Instances of Report: a day is 2 units of time, the week 3.  Two of the  *)
(* failures are the CLI's own; nobody reports a revoked token, or what the *)
(* user of activate sees.                                                  *)
(***************************************************************************)
EXTENDS Report, TLC

CONSTANTS r1, r2, queue, swap, revoked, declined

mcCause == (queue :> [command |-> "heartbeat", error |-> "other"])
        @@ (swap :> [command |-> "heartbeat", error |-> "other"])
        @@ (revoked :> [command |-> "heartbeat", error |-> "auth"])
        @@ (declined :> [command |-> "activate", error |-> "other"])

Sym == Permutations(Procs) \union Permutations({queue, swap})

=============================================================================
