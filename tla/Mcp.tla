-------------------------------- MODULE Mcp --------------------------------
(***************************************************************************)
(* `inlinr mcp` (cmd/inlinr/mcp.go, internal/mcp): the server an AI        *)
(* assistant starts and talks to over stdin and stdout, one JSON-RPC       *)
(* message per line, composed with the connection of the machine it runs   *)
(* on.  It reads the device token once, when it starts, and answers one    *)
(* line after another until its input ends; meanwhile the user may         *)
(* activate and sign out in a terminal.                                    *)
(*                                                                         *)
(* Lines are told apart by what becomes of them, and known by their        *)
(* position in the input.  An interrupt (SIGINT) cancels the context of    *)
(* the calls and does not end the loop.                                    *)
(***************************************************************************)
EXTENDS Connection, Sequences

CONSTANT Inputs   \* what an assistant may write: sequences of lines

\* An empty line is skipped as a notification is.  What needs neither the
\* backend nor the disk is answered at once: initialize, ping and tools/list,
\* and whatever is wrong with a request, a tool's name or its arguments.
Unanswered == {"notification", "overlong"}
AtOnce == {"garbage", "protocol"}
AccountTools == {"account", "log_time"}   \* time_summary and my_upgrades; log_time
Calls == AccountTools \union {"package"}
Kinds == Unanswered \union AtOnce \union Calls \union {"find_usages"}

ASSUME InputsAssumption == Inputs \subseteq Seq(Kinds)

Verdicts == {"at once", "sign in first", "refused", "unreachable", "declined", "data",
             "usages", "some usages"}
Answers == [line : Nat, verdict : Verdicts, connected : BOOLEAN]

VARIABLES
    written,      \* the lines of stdin: one not written yet and one not read
                  \* yet are the same to the server
    closed,       \* stdin is closed after them
    interrupted,  \* ctx is cancelled
    at,           \* where the server is
    heldToken,    \* HTTPBackend.Token
    handled,      \* lines read from stdin
    reply,        \* the answer being made
    stdout,       \* the answers sent
    recorded      \* of each log_time line: the entries the server made of it

input == <<written, closed, interrupted>>
server == <<at, heldToken, handled, reply, stdout, recorded>>
machineVars == <<machine, files, device, pc, run, local, outcome, optedOut>>
mcpVars == <<vars, input, server>>

NoReply == [line |-> 0, verdict |-> "at once", connected |-> FALSE]

McpInit ==
    /\ Init
    /\ written \in Inputs /\ closed = FALSE /\ interrupted = FALSE
    /\ at = "off" /\ heldToken = NoToken /\ handled = 0
    /\ reply = NoReply /\ stdout = <<>>
    /\ recorded = [n \in DOMAIN written |-> 0]

\* The machine has a working connection: noted with the answers that deny it.
Connected == InUse # NoToken /\ device[InUse] = "live"

Advice == {"sign in first", "refused"}   \* to run `inlinr activate`

Answer(n, verdict) ==
    [line |-> n, verdict |-> verdict, connected |-> verdict \in Advice /\ Connected]

-----------------------------------------------------------------------------
(* runMCP: config.Load, then the loop *)

LoadForServer ==
    /\ at = "off"
    /\ \E file \in Files :
         /\ file = "other" => machine.overrides
         /\ IF toml[file] = NoToken /\ file = "default"
            THEN at' = "borrow" /\ UNCHANGED heldToken
            ELSE at' = "scan" /\ heldToken' = toml[file]
    /\ UNCHANGED <<vars, input, handled, reply, stdout, recorded>>

BorrowForServer ==
    /\ at = "borrow"
    /\ heldToken' = plugin
    /\ at' = "scan"
    /\ UNCHANGED <<vars, input, handled, reply, stdout, recorded>>

-----------------------------------------------------------------------------
(* Serve, handle and dispatch: what becomes of the next line *)

Scanned(kinds) ==
    /\ at = "scan"
    /\ handled < Len(written)
    /\ written[handled + 1] \in kinds
    /\ handled' = handled + 1
    /\ UNCHANGED <<vars, input, heldToken, stdout, recorded>>

\* Mistake: a notification is dispatched and answered like a request.
SkipNothing ==
    /\ Scanned({"notification"})
    /\ at' = "send" /\ reply' = Answer(handled + 1, "at once")

Skip == Scanned({"notification"}) /\ UNCHANGED <<at, reply>>

\* Mistake: the loop goes on with a scanner that has stopped.
ScanOn ==
    /\ at = "scan" /\ handled < Len(written)
    /\ written[handled + 1] = "overlong"
    /\ UNCHANGED mcpVars

\* A line past 8 MiB ends the scanner, and Serve with its error.
Overlong == Scanned({"overlong"}) /\ at' = "ended" /\ UNCHANGED reply

\* Mistake: the server ends over a line that does not parse.
EndOnGarbage ==
    \/ Scanned({"garbage"}) /\ at' = "ended" /\ UNCHANGED reply
    \/ /\ Scanned(AtOnce \ {"garbage"})
       /\ at' = "send"
       /\ reply' = Answer(handled + 1, "at once")

AnswerAtOnce ==
    /\ Scanned(AtOnce)
    /\ at' = "send"
    /\ reply' = Answer(handled + 1, "at once")

TurnAway ==
    /\ heldToken = NoToken
    /\ Scanned(AccountTools)
    /\ at' = "send"
    /\ reply' = Answer(handled + 1, "sign in first")

\* Mistake: log_time does not look whether there is a token.
CallAnyway ==
    /\ Scanned(IF heldToken = NoToken THEN {"package", "log_time"} ELSE Calls)
    /\ IF interrupted
       THEN at' = "send" /\ reply' = Answer(handled + 1, "unreachable")
       ELSE at' = "call" /\ UNCHANGED reply

\* A request whose context is cancelled already is not sent.
CallBackend ==
    /\ Scanned(IF heldToken = NoToken THEN {"package"} ELSE Calls)
    /\ IF interrupted
       THEN at' = "send" /\ reply' = Answer(handled + 1, "unreachable")
       ELSE at' = "call" /\ UNCHANGED reply

\* One whose context is cancelled finds nothing.
BeginSearch ==
    /\ Scanned({"find_usages"})
    /\ IF interrupted
       THEN at' = "send" /\ reply' = Answer(handled + 1, "some usages")
       ELSE at' = "search" /\ UNCHANGED reply

EndOfInput ==
    /\ at = "scan"
    /\ handled = Len(written) /\ closed
    /\ at' = "ended"
    /\ UNCHANGED <<vars, input, heldToken, handled, reply, stdout, recorded>>

-----------------------------------------------------------------------------
(* answer and findUsages *)

Kind == written[handled]

TokenWorks == heldToken # NoToken /\ device[heldToken] = "live"

Record == recorded' = [recorded EXCEPT ![handled] = IF Kind = "log_time" THEN @ + 1 ELSE @]

Answered(verdict) ==
    /\ at' = "send"
    /\ reply' = Answer(handled, verdict)
    /\ UNCHANGED <<machineVars, input, heldToken, handled, stdout>>

\* The package tools need no account, and the server may take any token there.
Accepted ==
    /\ at = "call" /\ ~interrupted
    /\ Kind = "package" \/ TokenWorks
    /\ Answered("data")
    /\ Record
    /\ UNCHANGED faults

Refused ==
    /\ at = "call" /\ ~interrupted
    /\ heldToken # NoToken /\ ~TokenWorks
    /\ Answered("refused")
    /\ UNCHANGED <<recorded, faults>>

\* Any other status: an argument the server does not take, or its own failure.
Declined ==
    /\ at = "call" /\ ~interrupted
    /\ Answered("declined")
    /\ UNCHANGED <<recorded, faults>>

TakesEffect == TokenWorks /\ Record

\* Mistake: a call that got no answer is made again.
CallAgain ==
    \/ /\ at = "call" /\ ~interrupted
       /\ Fault
       /\ TakesEffect \/ UNCHANGED recorded
       /\ UNCHANGED <<machineVars, input, at, heldToken, handled, reply, stdout>>
    \/ /\ at = "call" /\ interrupted
       /\ Answered("unreachable")
       /\ UNCHANGED <<recorded, faults>>

\* No connection, no answer within 60 s, or the interrupt: the server may
\* have done what it was asked all the same.
Unreachable ==
    /\ at = "call"
    /\ interrupted \/ faults > 0
    /\ faults' = IF interrupted THEN faults ELSE faults - 1
    /\ Answered("unreachable")
    /\ TakesEffect \/ UNCHANGED recorded

\* FindUsages stops between two files when the context is cancelled; what it
\* has found by then is answered as the whole.
Searched ==
    /\ at = "search"
    /\ at' = "send"
    /\ \E verdict \in IF interrupted THEN {"usages", "some usages"} ELSE {"usages"} :
         reply' = Answer(handled, verdict)
    /\ UNCHANGED <<vars, input, heldToken, handled, stdout, recorded>>

Send ==
    /\ at = "send"
    /\ stdout' = Append(stdout, reply)
    /\ reply' = NoReply
    /\ at' = "scan"
    /\ UNCHANGED <<vars, input, heldToken, handled, recorded>>

-----------------------------------------------------------------------------
(* The assistant, and whoever presses ^C *)

CloseInput ==
    /\ ~closed
    /\ closed' = TRUE
    /\ UNCHANGED <<vars, written, interrupted, server>>

Interrupt ==
    /\ at \notin {"off", "borrow", "ended"} /\ ~interrupted
    /\ interrupted' = TRUE
    /\ UNCHANGED <<vars, written, closed, server>>

-----------------------------------------------------------------------------
Serve ==
    \/ BorrowForServer
    \/ Skip \/ Overlong \/ AnswerAtOnce \/ TurnAway \/ CallBackend \/ BeginSearch
    \/ EndOfInput
    \/ Accepted \/ Refused \/ Declined \/ Unreachable \/ Searched \/ Send

McpNext ==
    \/ LoadForServer
    \/ Serve
    \/ CloseInput
    \/ Interrupt
    \/ Next /\ UNCHANGED <<input, server>>

McpSpec == McpInit /\ [][McpNext]_mcpVars

\* A started server gets the processor, and its calls end (60 s).
McpFairSpec == McpSpec /\ WF_mcpVars(Serve)

-----------------------------------------------------------------------------
(* Properties *)

McpTypeOK ==
    /\ TypeOK
    /\ written \in Seq(Kinds)
    /\ closed \in BOOLEAN /\ interrupted \in BOOLEAN
    /\ at \in {"off", "borrow", "scan", "call", "search", "send", "ended"}
    /\ heldToken \in Held
    /\ handled \in 0 .. Len(written)
    /\ reply \in Answers
    /\ stdout \in Seq(Answers)
    /\ recorded \in [DOMAIN written -> Nat]
    /\ at \in {"call", "search"} => handled > 0
    /\ at = "call" /\ written[handled] # "package" => heldToken # NoToken

Owed == {n \in 1 .. handled : written[n] \notin Unanswered}
Sent == {stdout[i].line : i \in DOMAIN stdout}
InHand == IF at \in {"call", "search", "send"} THEN {handled} ELSE {}

(***************************************************************************)
(* Every request read so far has exactly one answer, in the order of the   *)
(* requests, and nothing else has one (server.go: "A notification (no id)  *)
(* never gets an answer"; "Tools are called one at a time, in the order    *)
(* they arrive"), whatever failed and after an interrupt too.              *)
(***************************************************************************)
AnswersInOrder ==
    /\ \A i, j \in DOMAIN stdout : i < j => stdout[i].line < stdout[j].line
    /\ Sent = Owed \ InHand

(***************************************************************************)
(* The server ends when the assistant closes its stdin (mcp.go: "stops it  *)
(* by closing stdin"), and a line past 8 MiB is the only thing that makes  *)
(* it leave a line unread.                                                 *)
(***************************************************************************)
EndsOnlyWithInput ==
    at = "ended" =>
        \/ closed /\ handled = Len(written)
        \/ handled > 0 /\ written[handled] = "overlong"

EndsWithInput == closed /\ at # "off" ~> at = "ended"

(***************************************************************************)
(* Each log_time request makes at most one entry, and one the assistant    *)
(* was not told of needs a fault of its own, or the interrupt: nothing is  *)
(* sent again by itself (tools.go: "so the assistant can tell the user     *)
(* rather than retry").                                                    *)
(***************************************************************************)
RecordedAsTold ==
    LET told == {stdout[i].line : i \in {j \in DOMAIN stdout : stdout[j].verdict = "data"}}
        untold == {n \in DOMAIN written : recorded[n] > 0} \ (told \union InHand)
    IN /\ \A n \in DOMAIN written : recorded[n] <= 1
       /\ Cardinality(untold) <= (machine.faults - faults) + (IF interrupted THEN 1 ELSE 0)

(***************************************************************************)
(* Between commands, and as long as nothing failed, a server that still    *)
(* reads an account reads the one the machine is connected to: after       *)
(* `activate --replace` or `signout` the token it started with is dead     *)
(* (mcp.go: "the assistant reads the same account the editor sends time    *)
(* to").                                                                   *)
(***************************************************************************)
SameAccount ==
    /\ OneAtATime /\ faults = machine.faults
    /\ \A p \in Procs : pc[p] = "idle"
    /\ TokenWorks
    => heldToken = InUse

(***************************************************************************)
(* tools.go: "Run `inlinr activate` in a terminal, then try again": once   *)
(* the machine is connected, an account tool asked again has an answer.    *)
(***************************************************************************)
TryAgainWorks ==
    \A i, j \in DOMAIN stdout :
        /\ i < j
        /\ stdout[i].verdict \in Advice /\ ~stdout[i].connected
        => ~(stdout[j].verdict \in Advice /\ stdout[j].connected)

=============================================================================
