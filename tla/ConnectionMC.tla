---------------------------- MODULE ConnectionMC ----------------------------
(* Instances of Connection for TLC. *)
EXTENDS Connection, TLC

CONSTANTS a, c, fresh1, fresh2

Meets(tokens, overlaps, file, edit, n) ==
    [toml |-> tokens[1], other |-> tokens[2], plugin |-> tokens[3],
     overlap |-> overlaps, overrides |-> file, edits |-> edit, faults |-> n]

\* One command at a time on a machine not connected, connected, or connected
\* by an old Claude Code plugin.
mcAlone(n) == {Meets(m, FALSE, FALSE, TRUE, n) : m \in {<<NoToken, NoToken, NoToken>>,
                        <<a, NoToken, NoToken>>, <<NoToken, NoToken, c>>}}
\* A second configuration file with a connection of its own, beside a
\* connection in config.toml or in the plugin's file.
mcSaved(overlaps, n) == Meets(<<a, c, NoToken>>, overlaps, TRUE, FALSE, n)
mcBorrowed(overlaps, n) == Meets(<<NoToken, c, a>>, overlaps, TRUE, FALSE, n)

mcBoth == mcAlone(2) \union {mcSaved(TRUE, 1), mcBorrowed(TRUE, 1)}
mcNoFault == mcAlone(0)
mcOtherFile == {mcSaved(FALSE, 0), mcBorrowed(FALSE, 0)}

SharedSymmetry == Permutations({fresh1, fresh2}) \union Permutations(Procs)
=============================================================================
