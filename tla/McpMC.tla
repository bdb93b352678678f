------------------------------- MODULE McpMC -------------------------------
(* Instances of Mcp for TLC: one server, one command at a time. *)
EXTENDS Mcp, TLC

CONSTANTS a, fresh

Meets(t, k, n) == [toml |-> t, other |-> NoToken, plugin |-> k,
                   overlap |-> FALSE, overrides |-> FALSE, edits |-> FALSE, faults |-> n]

\* Every kind of line, and those that talk to the server by twos.
mcInputs == {<<"log_time", "log_time">>, <<"package", "account">>,
             <<"garbage", "find_usages">>, <<"notification", "protocol">>,
             <<"overlong", "account">>}
mcTwice == {<<"account", "account">>}

\* Connected or connected by an old Claude Code plugin, and not connected.
mcMachines == {Meets(NoToken, a, 0), Meets(a, NoToken, 1)}
mcNotConnected == {Meets(NoToken, NoToken, 0)}
=============================================================================
