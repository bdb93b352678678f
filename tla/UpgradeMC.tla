----------------------------- MODULE UpgradeMC ------------------------------
(***************************************************************************)
(* Instances of Upgrade: upgrades one after another, or two at once.        *)
(***************************************************************************)
EXTENDS Upgrade, TLC

CONSTANTS u1, u2

Sym == Permutations(Procs)

Both == BOOLEAN
Elsewhere == {FALSE}
Always == {TRUE}

=============================================================================
