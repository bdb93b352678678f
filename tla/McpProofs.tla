------------------------------ MODULE McpProofs ------------------------------
(***************************************************************************)
(* What TLAPS proves of Mcp, for any input, any number of commands in the  *)
(* terminal meanwhile and any tokens.                                      *)
(***************************************************************************)
EXTENDS Mcp, ConnectionProofs

USE DEF vars, files, local, input, server, machineVars, mcpVars

\* What the server has in hand is the line it read last, and that a request.
Dispatched ==
    /\ at \in {"call", "search", "send"} => handled \in Owed
    /\ at = "send" => reply.line = handled

McpInv == McpTypeOK /\ Dispatched /\ AnswersInOrder /\ EndsOnlyWithInput

\* The server's variables alone.
ServerTypeOK ==
    /\ written \in Seq(Kinds)
    /\ closed \in BOOLEAN /\ interrupted \in BOOLEAN
    /\ at \in {"off", "borrow", "scan", "call", "search", "send", "ended"}
    /\ heldToken \in Held
    /\ handled \in 0 .. Len(written)
    /\ reply \in Answers
    /\ stdout \in Seq(Answers)
    /\ recorded \in [DOMAIN written -> Nat]
    /\ at \in {"call", "search"} => handled > 0
    /\ at = "call" /\ written[handled] # "package" => heldToken # NoToken

LEMMA Parts ==
    /\ McpTypeOK <=> TypeOK /\ ServerTypeOK
    /\ McpTypeOK' <=> TypeOK' /\ ServerTypeOK'
BY DEF McpTypeOK, ServerTypeOK

LEMMA NoReplyType == NoReply \in Answers
BY DEF NoReply, Answers, Verdicts

LEMMA AnswerType ==
    ASSUME TypeOK, NEW n \in Nat, NEW verdict \in Verdicts
    PROVE  Answer(n, verdict) \in Answers /\ Answer(n, verdict).line = n
BY DEF Answer, Answers, Connected, Advice, InUse

LEMMA McpInvInit == McpInit => McpInv
<1> SUFFICES ASSUME McpInit PROVE McpInv
  OBVIOUS
<1>1. TypeOK
  BY InvInit DEF McpInit, Inv
<1>2. written \in Seq(Kinds) /\ Len(written) \in Nat
  BY InputsAssumption DEF McpInit
<1>3. ServerTypeOK
  <2>1. stdout \in Seq(Answers) /\ recorded \in [DOMAIN written -> Nat]
    BY DEF McpInit
  <2>2. handled \in 0 .. Len(written) /\ at = "off"
    BY <1>2 DEF McpInit
  <2>3. closed \in BOOLEAN /\ interrupted \in BOOLEAN /\ heldToken \in Held
    BY DEF McpInit, Held
  <2>4. reply \in Answers
    BY NoReplyType DEF McpInit
  <2> QED
    BY <1>2, <2>1, <2>2, <2>3, <2>4 DEF ServerTypeOK
<1>4. at = "off" /\ handled = 0 /\ DOMAIN stdout = {}
  BY DEF McpInit
<1>5. Owed = {} /\ Sent = {} /\ InHand = {}
  BY <1>4 DEF Owed, Sent, InHand
<1>6. AnswersInOrder
  BY <1>4, <1>5 DEF AnswersInOrder
<1>7. Dispatched /\ EndsOnlyWithInput
  BY <1>4 DEF Dispatched, EndsOnlyWithInput
<1> QED
  BY <1>1, <1>3, <1>6, <1>7, Parts DEF McpInv

-----------------------------------------------------------------------------
(* Reading a line *)

\* The line read is the next of the input, and was not owed an answer before.
LEMMA NextLine ==
    ASSUME ServerTypeOK, NEW kinds, Scanned(kinds)
    PROVE  /\ handled' = handled + 1 /\ handled' \in 1 .. Len(written)
           /\ written[handled'] \in kinds /\ written[handled'] \in Kinds
           /\ handled' \notin Owed /\ InHand = {}
           /\ Owed' = IF written[handled'] \in Unanswered THEN Owed ELSE Owed \union {handled'}
<1>1. handled \in Nat /\ Len(written) \in Nat /\ handled < Len(written)
      /\ written' = written /\ handled' = handled + 1 /\ at = "scan"
  BY DEF ServerTypeOK, Scanned
<1>2. 1 .. handled' = (1 .. handled) \union {handled'} /\ handled' \notin 1 .. handled
  BY <1>1
<1> QED
  BY <1>1, <1>2 DEF ServerTypeOK, Scanned, Owed, InHand

\* A request: from now on the server has it in hand.
LEMMA RequestRead ==
    ASSUME McpInv, NEW kinds, Scanned(kinds), kinds \cap Unanswered = {}, TypeOK',
           \/ at' = "call" /\ (written[handled'] # "package" => heldToken # NoToken) /\ reply' = reply
           \/ at' = "search" /\ reply' = reply
           \/ at' = "send" /\ \E verdict \in Verdicts : reply' = Answer(handled', verdict)
    PROVE  McpInv'
<1>1. ServerTypeOK /\ TypeOK
  BY Parts DEF McpInv
<1>2. /\ handled' = handled + 1 /\ handled' \in 1 .. Len(written)
      /\ Owed' = Owed \union {handled'} /\ handled' \notin Owed /\ InHand = {}
  BY <1>1, NextLine
<1>3. reply' \in Answers /\ (at' = "send" => reply'.line = handled')
  BY <1>1, <1>2, AnswerType DEF ServerTypeOK
<1>4. UNCHANGED <<written, closed, interrupted, heldToken, stdout, recorded>>
  BY DEF Scanned
<1>5. ServerTypeOK'
  BY <1>1, <1>2, <1>3, <1>4 DEF ServerTypeOK
<1>6. InHand' = {handled'} /\ Sent' = Sent
  BY <1>4 DEF InHand, Sent
<1>7. AnswersInOrder'
  BY <1>2, <1>4, <1>6 DEF McpInv, AnswersInOrder
<1>8. Dispatched' /\ EndsOnlyWithInput'
  BY <1>2, <1>3 DEF Dispatched, EndsOnlyWithInput
<1> QED
  BY <1>5, <1>7, <1>8, Parts DEF McpInv

\* A line that has no answer.
LEMMA OtherRead ==
    ASSUME McpInv, NEW kinds, Scanned(kinds), kinds \subseteq Unanswered, TypeOK', reply' = reply,
           at' = "scan" \/ (at' = "ended" /\ kinds = {"overlong"})
    PROVE  McpInv'
<1>1. ServerTypeOK /\ TypeOK
  BY Parts DEF McpInv
<1>2. /\ handled' = handled + 1 /\ handled' \in 1 .. Len(written) /\ written[handled'] \in kinds
      /\ Owed' = Owed /\ InHand = {}
  BY <1>1, NextLine
<1>3. UNCHANGED <<written, closed, interrupted, heldToken, stdout, recorded>>
  BY DEF Scanned
<1>4. ServerTypeOK'
  BY <1>1, <1>2, <1>3 DEF ServerTypeOK
<1>5. InHand' = {} /\ Sent' = Sent
  BY <1>3 DEF InHand, Sent
<1>6. AnswersInOrder'
  BY <1>2, <1>3, <1>5 DEF McpInv, AnswersInOrder
<1>7. Dispatched' /\ EndsOnlyWithInput'
  BY <1>2, <1>3 DEF Dispatched, EndsOnlyWithInput
<1> QED
  BY <1>4, <1>6, <1>7, Parts DEF McpInv

-----------------------------------------------------------------------------
(* Answering it *)

\* The answer to what the server has in hand is made.
LEMMA AnswerMade ==
    ASSUME McpInv, at \in {"call", "search"}, at' = "send", NEW verdict \in Verdicts,
           reply' = Answer(handled, verdict), TypeOK', recorded' \in [DOMAIN written -> Nat],
           UNCHANGED <<input, heldToken, handled, stdout>>
    PROVE  McpInv'
<1>1. ServerTypeOK /\ TypeOK /\ handled \in Nat
  BY Parts DEF McpInv, ServerTypeOK
<1>2. reply' \in Answers /\ reply'.line = handled
  BY <1>1, AnswerType
<1>3. ServerTypeOK'
  BY <1>1, <1>2 DEF ServerTypeOK
<1>4. Owed' = Owed /\ Sent' = Sent /\ InHand' = InHand
  BY DEF Owed, Sent, InHand
<1> QED
  BY <1>2, <1>3, <1>4, Parts DEF McpInv, Dispatched, AnswersInOrder, EndsOnlyWithInput

LEMMA RecordType ==
    ASSUME ServerTypeOK, Record \/ recorded' = recorded
    PROVE  recorded' \in [DOMAIN written -> Nat]
BY DEF ServerTypeOK, Record

\* A fault spent on a call leaves the machine as it was.
LEMMA FaultType ==
    ASSUME TypeOK, UNCHANGED machineVars, faults' \in Nat
    PROVE  TypeOK'
BY DEF TypeOK

LEMMA SendStep == McpInv /\ Send => McpInv'
<1> SUFFICES ASSUME McpInv, Send PROVE McpInv'
  OBVIOUS
<1>1. ServerTypeOK /\ TypeOK
  BY Parts DEF McpInv
<1>2. TypeOK'
  BY <1>1 DEF Send, TypeOK
<1>3. /\ stdout \in Seq(Answers) /\ reply \in Answers /\ reply.line = handled
      /\ stdout' = Append(stdout, reply) /\ at = "send" /\ at' = "scan"
      /\ handled \in Owed /\ reply' = NoReply
  BY <1>1 DEF Send, ServerTypeOK, McpInv, Dispatched
<1>4. ServerTypeOK'
  BY <1>1, <1>3, NoReplyType DEF ServerTypeOK, Send
<1>5. /\ DOMAIN stdout = 1 .. Len(stdout) /\ Len(stdout) \in Nat
      /\ DOMAIN stdout' = 1 .. (Len(stdout) + 1)
      /\ \A i \in DOMAIN stdout : stdout'[i] = stdout[i]
      /\ stdout'[Len(stdout) + 1] = reply
  BY <1>3
<1>6. Owed' = Owed /\ InHand = {handled} /\ InHand' = {}
  BY <1>3 DEF Owed, InHand, Send
<1>7. Sent' = Sent \union {handled}
  BY <1>3, <1>5 DEF Sent
<1>8. Sent' = Owed' \ InHand'
  BY <1>3, <1>6, <1>7 DEF McpInv, AnswersInOrder
<1>9. \A i \in DOMAIN stdout : stdout[i].line < handled
  <2>1. \A i \in DOMAIN stdout : stdout[i].line \in Owed \ {handled}
    BY <1>6 DEF McpInv, AnswersInOrder, Sent
  <2> QED
    BY <1>1, <2>1 DEF Owed, ServerTypeOK
<1>10. \A i, j \in DOMAIN stdout' : i < j => stdout'[i].line < stdout'[j].line
  BY <1>3, <1>5, <1>9 DEF McpInv, AnswersInOrder
<1> QED
  BY <1>2, <1>3, <1>4, <1>8, <1>10, Parts DEF McpInv, Dispatched, AnswersInOrder, EndsOnlyWithInput

-----------------------------------------------------------------------------
\* What leaves the server where it is.
LEMMA Elsewhere ==
    ASSUME McpInv, TypeOK',
           UNCHANGED <<written, handled, stdout, recorded, reply>>,
           closed' \in BOOLEAN, closed => closed', interrupted' \in BOOLEAN, heldToken' \in Held,
           \/ at' = at /\ heldToken' = heldToken
           \/ at \in {"off", "borrow"} /\ at' \in {"borrow", "scan"}
           \/ at = "scan" /\ handled = Len(written) /\ closed /\ at' = "ended"
    PROVE  McpInv'
<1>1. ServerTypeOK'
  BY Parts DEF McpInv, ServerTypeOK
<1>2. Owed' = Owed /\ Sent' = Sent /\ InHand' = InHand
  BY DEF Owed, Sent, InHand
<1> QED
  BY <1>1, <1>2, Parts DEF McpInv, Dispatched, AnswersInOrder, EndsOnlyWithInput

LEMMA ServeStep == McpInv /\ Serve => McpInv'
<1> SUFFICES ASSUME McpInv, Serve PROVE McpInv'
  OBVIOUS
<1>0. ServerTypeOK /\ TypeOK
  BY Parts DEF McpInv
<1>1. CASE BorrowForServer
  <2>1. TypeOK' /\ plugin \in Held
    BY <1>0, <1>1 DEF BorrowForServer, TypeOK
  <2> QED
    BY <1>0, <1>1, <2>1, Elsewhere DEF BorrowForServer, ServerTypeOK
<1>2. CASE EndOfInput
  <2>1. TypeOK'
    BY <1>0, <1>2 DEF EndOfInput, TypeOK
  <2> QED
    BY <1>0, <1>2, <2>1, Elsewhere DEF EndOfInput, ServerTypeOK
<1>3. ASSUME NEW kinds, Scanned(kinds) PROVE TypeOK' /\ handled' = handled + 1 /\ at = "scan"
  BY <1>0, <1>3 DEF Scanned, TypeOK
<1>4. CASE Skip
  BY <1>3, <1>4, OtherRead DEF Skip, Unanswered, Scanned
<1>5. CASE Overlong
  BY <1>3, <1>5, OtherRead DEF Overlong, Unanswered
<1>6. CASE AnswerAtOnce
  BY <1>3, <1>6, RequestRead DEF AnswerAtOnce, AtOnce, Unanswered, Verdicts
<1>7. CASE TurnAway
  BY <1>3, <1>7, RequestRead DEF TurnAway, AccountTools, Unanswered, Verdicts
<1>8. CASE CallBackend
  <2> DEFINE kinds == IF heldToken = NoToken THEN {"package"} ELSE Calls
  <2>1. Scanned(kinds) /\ kinds \cap Unanswered = {}
    BY <1>8 DEF CallBackend, Calls, AccountTools, Unanswered
  <2>2. TypeOK' /\ handled' = handled + 1 /\ written[handled'] \in kinds
    BY <1>0, <1>3, <2>1, NextLine
  <2>3. \/ at' = "call" /\ (written[handled'] # "package" => heldToken # NoToken) /\ reply' = reply
        \/ at' = "send" /\ reply' = Answer(handled', "unreachable")
    BY <1>8, <2>2 DEF CallBackend
  <2>4. "unreachable" \in Verdicts
    BY DEF Verdicts
  <2> HIDE DEF kinds
  <2> QED
    BY <2>1, <2>2, <2>3, <2>4, RequestRead
<1>9. CASE BeginSearch
  <2>1. /\ Scanned({"find_usages"}) /\ {"find_usages"} \cap Unanswered = {}
        /\ "some usages" \in Verdicts
    BY <1>9 DEF BeginSearch, Unanswered, Verdicts
  <2>2. \/ at' = "search" /\ reply' = reply
        \/ at' = "send" /\ reply' = Answer(handled', "some usages")
    BY <1>3, <1>9, <2>1 DEF BeginSearch
  <2> QED
    BY <1>3, <2>1, <2>2, RequestRead
<1>10. CASE Accepted
  <2>1. TypeOK' /\ recorded' \in [DOMAIN written -> Nat]
    BY <1>0, <1>10, FaultType, RecordType DEF Accepted, Answered, TypeOK
  <2> QED
    BY <1>10, <2>1, AnswerMade DEF Accepted, Answered, Verdicts
<1>11. CASE Refused
  <2>1. TypeOK' /\ recorded' \in [DOMAIN written -> Nat]
    BY <1>0, <1>11, FaultType, RecordType DEF Refused, Answered, TypeOK
  <2> QED
    BY <1>11, <2>1, AnswerMade DEF Refused, Answered, Verdicts
<1>12. CASE Declined
  <2>1. TypeOK' /\ recorded' \in [DOMAIN written -> Nat]
    BY <1>0, <1>12, FaultType, RecordType DEF Declined, Answered, TypeOK
  <2> QED
    BY <1>12, <2>1, AnswerMade DEF Declined, Answered, Verdicts
<1>13. CASE Unreachable
  <2>1. faults \in Nat
    BY <1>0 DEF TypeOK
  <2>2. faults' \in Nat
    BY <1>13, <2>1 DEF Unreachable, Answered
  <2>3. TypeOK' /\ recorded' \in [DOMAIN written -> Nat]
    BY <1>0, <1>13, <2>2, FaultType, RecordType DEF Unreachable, Answered, TakesEffect
  <2> QED
    BY <1>13, <2>3, AnswerMade DEF Unreachable, Answered, Verdicts
<1>14. CASE Searched
  <2>1. TypeOK' /\ recorded' \in [DOMAIN written -> Nat]
    BY <1>0, <1>14, RecordType DEF Searched, TypeOK
  <2> QED
    BY <1>14, <2>1, AnswerMade DEF Searched, Verdicts
<1>15. CASE Send
  BY <1>15, SendStep
<1> QED
  BY <1>1, <1>2, <1>4, <1>5, <1>6, <1>7, <1>8, <1>9, <1>10, <1>11, <1>12, <1>13,
     <1>14, <1>15 DEF Serve

LEMMA McpInvNext == McpInv /\ [McpNext]_mcpVars => McpInv'
<1> SUFFICES ASSUME McpInv, [McpNext]_mcpVars PROVE McpInv'
  OBVIOUS
<1>0. ServerTypeOK /\ TypeOK
  BY Parts DEF McpInv
<1>1. CASE UNCHANGED mcpVars
  <2>1. TypeOK'
    BY <1>0, <1>1, TypeStep
  <2> QED
    BY <1>0, <1>1, <2>1, Elsewhere DEF ServerTypeOK
<1>2. CASE LoadForServer
  <2>1. TypeOK' /\ (\A file \in Files : toml[file] \in Held) /\ heldToken \in Held
    BY <1>0, <1>2 DEF LoadForServer, TypeOK, ServerTypeOK
  <2>2. heldToken' \in Held /\ at = "off" /\ at' \in {"borrow", "scan"}
    BY <1>2, <2>1 DEF LoadForServer
  <2> QED
    BY <1>0, <1>2, <2>1, <2>2, Elsewhere DEF LoadForServer, ServerTypeOK
<1>3. CASE Serve
  BY <1>3, ServeStep
<1>4. CASE CloseInput \/ Interrupt
  <2>1. TypeOK'
    BY <1>0, <1>4, TypeStep DEF CloseInput, Interrupt
  <2> QED
    BY <1>0, <1>4, <2>1, Elsewhere DEF CloseInput, Interrupt, ServerTypeOK
<1>5. CASE Next /\ UNCHANGED <<input, server>>
  <2>1. TypeOK'
    BY <1>0, <1>5, TypeStep
  <2> QED
    BY <1>0, <1>5, <2>1, Elsewhere DEF ServerTypeOK
<1> QED
  BY <1>1, <1>2, <1>3, <1>4, <1>5 DEF McpNext

LEMMA McpInvHolds == McpSpec => []McpInv
  BY McpInvInit, McpInvNext, PTL DEF McpSpec

(***************************************************************************)
(* The server's variables keep their types; in particular a call that      *)
(* needs an account is made with a token.                                  *)
(***************************************************************************)
THEOREM McpTypeCorrect == McpSpec => []McpTypeOK
<1>1. McpInv => McpTypeOK
  BY DEF McpInv
<1> QED
  BY McpInvHolds, <1>1, PTL

(***************************************************************************)
(* Every request read has one answer, in the order of the requests, and    *)
(* nothing else has one (server.go: Serve), whatever becomes of the calls, *)
(* of the account and of the context meanwhile.                            *)
(***************************************************************************)
THEOREM OneAnswerEach == McpSpec => []AnswersInOrder
<1>1. McpInv => AnswersInOrder
  BY DEF McpInv
<1> QED
  BY McpInvHolds, <1>1, PTL

(***************************************************************************)
(* Only the end of its input and a line past 8 MiB end the server.         *)
(***************************************************************************)
THEOREM EndsForNothingElse == McpSpec => []EndsOnlyWithInput
<1>1. McpInv => EndsOnlyWithInput
  BY DEF McpInv
<1> QED
  BY McpInvHolds, <1>1, PTL

-----------------------------------------------------------------------------
(* The account it reads *)

\* Of the machine the server changes the faults still to come alone.
LEMMA ServerStep ==
    McpInv /\ [McpNext]_mcpVars =>
        \/ [Next]_vars
        \/ UNCHANGED machineVars /\ Fault
<1> SUFFICES ASSUME McpInv, [McpNext]_mcpVars PROVE [Next]_vars \/ (UNCHANGED machineVars /\ Fault)
  OBVIOUS
<1>1. CASE Unreachable
  BY <1>1 DEF Unreachable, Answered, Fault
<1>2. CASE UNCHANGED vars
  BY <1>2
<1> QED
  BY <1>1, <1>2 DEF McpNext, Serve, LoadForServer, BorrowForServer, Scanned, Skip, Overlong,
     AnswerAtOnce, TurnAway, CallBackend, BeginSearch, EndOfInput, Accepted, Refused, Declined,
     Answered,
     Searched, Send, CloseInput, Interrupt

LEMMA MachineStep == McpInv /\ Inv /\ [McpNext]_mcpVars => Inv'
<1> SUFFICES ASSUME McpInv, Inv, UNCHANGED machineVars, Fault PROVE Inv'
  BY InvStep, ServerStep
<1>0. faults \in Nat
  BY DEF Inv, TypeOK
<1>1. faults' \in Nat
  BY <1>0 DEF Fault
<1>2. TypeOK'
  BY <1>1, FaultType DEF Inv
<1> QED
  BY <1>2 DEF Inv, UnissuedUnknown, SavedNextIsFresh, NeverRevokesCurrent

Account == Inv /\ AloneInv /\ OneConnectionInv

LEMMA AccountNext == McpInv /\ Account /\ [McpNext]_mcpVars => Account'
<1> SUFFICES ASSUME McpInv, Account, [McpNext]_mcpVars PROVE Account'
  OBVIOUS
<1>1. CASE [Next]_vars
  BY <1>1, InvStep, AloneNext, OneNext DEF Account
<1>2. CASE UNCHANGED machineVars /\ Fault
  <2>1. TypeOK /\ faults \in Nat /\ machine.faults \in Nat /\ faults <= machine.faults
    BY MachinesAssumption DEF Account, Inv, TypeOK, OneConnectionInv
  <2>2. faults' \in Nat /\ faults' <= machine.faults /\ faults' # machine.faults
    BY <1>2, <2>1 DEF Fault
  <2>4. Inv'
    BY MachineStep DEF Account
  <2>5. AloneInv'
    BY <1>2 DEF Account, AloneInv, OneAtATime, Alone, Works, InUse
  <2>6. OneConnectionInv'
    BY <1>2, <2>2 DEF OneConnectionInv, Undisturbed
  <2> QED
    BY <2>4, <2>5, <2>6 DEF Account
<1> QED
  BY <1>1, <1>2, ServerStep

(***************************************************************************)
(* A server whose token still works, between commands and as long as       *)
(* nothing failed, reads the account the machine is connected to (mcp.go:  *)
(* "the assistant reads the same account the editor sends time to"), for   *)
(* a machine that has one connection at most.                              *)
(***************************************************************************)
THEOREM ReadsSameAccount ==
    ASSUME \A m \in Machines : OneToken(m)
    PROVE  McpSpec => []SameAccount
<1>1. McpInit => Account
  <2> SUFFICES ASSUME McpInit PROVE Account
    OBVIOUS
  <2>1. Init
    BY DEF McpInit
  <2> QED
    BY <2>1, InvInit, AloneInit, OneConnectionInit DEF Account
<1>2. McpInv /\ Account => SameAccount
  <2> SUFFICES ASSUME McpInv, Account, OneAtATime, faults = machine.faults,
                      \A p \in Procs : pc[p] = "idle", TokenWorks
               PROVE  heldToken = InUse
    BY DEF SameAccount
  <2>1. OneConnection /\ heldToken \in Tokens /\ device[heldToken] = "live"
    BY DEF Account, OneConnectionInv, Undisturbed, TokenWorks, McpInv, McpTypeOK, Held
  <2> QED
    BY <2>1 DEF OneConnection
<1> QED
  BY McpInvHolds, <1>1, <1>2, AccountNext, PTL DEF McpSpec

-----------------------------------------------------------------------------
(* The entries it makes *)

Told == {stdout[i].line : i \in {j \in DOMAIN stdout : stdout[j].verdict = "data"}}

\* Said in the answer that is on its way.
Telling == IF at = "send" /\ reply.verdict = "data" THEN {handled} ELSE {}

\* What was recorded and is not said.
Unsaid == {n \in DOMAIN written : recorded[n] > 0} \ (Told \union Telling)

\* The call the interrupt cut short is the last one: none is sent after it.
CutShort == IF interrupted /\ at # "call" THEN 1 ELSE 0

RecordInv ==
    /\ faults \in Nat /\ faults <= machine.faults
    /\ \A n \in DOMAIN written :
         /\ recorded[n] <= 1
         /\ n > handled \/ (n = handled /\ at = "call") => recorded[n] = 0
    /\ IsFiniteSet(Unsaid) /\ Cardinality(Unsaid) <= (machine.faults - faults) + CutShort

LEMMA Wording ==
    ASSUME NEW n
    PROVE  /\ \A verdict \in Verdicts : Answer(n, verdict).verdict = verdict
           /\ \A verdict \in Verdicts \ {"data"} : Answer(n, verdict).verdict # "data"
           /\ {"at once", "sign in first", "refused", "unreachable", "declined", "some usages"}
                \subseteq Verdicts \ {"data"}
  BY DEF Answer, Verdicts

LEMMA SpendStep ==
    ASSUME McpInv, Inv, RecordInv, [McpNext]_mcpVars
    PROVE  /\ Spent \in Nat /\ Spent' \in Nat /\ Spent <= Spent'
           /\ Fault => Spent' = Spent + 1
           /\ faults' \in Nat /\ faults' <= machine'.faults
<1>1. faults \in Nat /\ machine.faults \in Nat /\ faults <= machine.faults
  BY MachinesAssumption DEF Inv, TypeOK, RecordInv
<1>2. CASE UNCHANGED machineVars /\ Fault
  <2>1. PICK left \in Nat : left = faults'
    BY <1>1, <1>2 DEF Fault
  <2>2. machine' = machine /\ left = faults - 1
    BY <1>2, <2>1 DEF Fault
  <2>3. Spent' = machine.faults - left
    BY <2>1, <2>2 DEF Spent
  <2> QED
    BY <1>1, <2>1, <2>2, <2>3 DEF Spent
<1>3. CASE [Next]_vars
  BY <1>1, <1>3, Spending
<1> QED
  BY <1>2, <1>3, ServerStep

LEMMA RecordInvInit == McpInit => RecordInv
<1> SUFFICES ASSUME McpInit PROVE RecordInv
  OBVIOUS
<1>1. faults = machine.faults /\ machine.faults \in Nat
  BY MachinesAssumption DEF McpInit, Init
<1>2. \A n \in DOMAIN written : recorded[n] = 0
  BY DEF McpInit
<1>3. Unsaid = {}
  BY <1>2 DEF Unsaid
<1>4. IsFiniteSet(Unsaid) /\ Cardinality(Unsaid) = 0
  BY <1>3, FS_EmptySet
<1>5. CutShort = 0
  BY DEF CutShort, McpInit
<1> QED
  BY <1>1, <1>2, <1>4, <1>5 DEF RecordInv

\* What records nothing and says nothing of what is recorded.
LEMMA NothingRecorded ==
    ASSUME McpInv, RecordInv, Spent \in Nat, Spent' \in Nat, Spent <= Spent',
           faults' \in Nat, faults' <= machine'.faults,
           UNCHANGED <<written, stdout, recorded>>, Telling' = Telling,
           handled' = handled \/ handled' = handled + 1,
           at' = "call" => handled' = handled + 1 \/ at = "call",
           interrupted => interrupted',
           at' = "call" /\ interrupted' => at = "call" \/ ~interrupted
    PROVE  RecordInv'
<1>1. Unsaid' = Unsaid
  BY DEF Unsaid, Told
<1>2. CutShort \in Nat /\ CutShort' \in Nat /\ CutShort <= CutShort'
  BY DEF CutShort
<1>3. IsFiniteSet(Unsaid') /\ Cardinality(Unsaid') <= Spent' + CutShort'
  <2>1. Cardinality(Unsaid) <= Spent + CutShort
    BY DEF RecordInv, Spent
  <2> QED
    BY <1>1, <1>2, <2>1, FS_CardinalityType DEF RecordInv
<1>4. handled \in Nat /\ DOMAIN written \subseteq Nat
  BY Parts DEF McpInv, ServerTypeOK
<1>5. \A n \in DOMAIN written' :
        /\ recorded'[n] <= 1
        /\ n > handled' \/ (n = handled' /\ at' = "call") => recorded'[n] = 0
  BY <1>4 DEF RecordInv
<1> QED
  BY <1>3, <1>5 DEF RecordInv, Spent

LEMMA RecordStep == McpInv /\ Inv /\ RecordInv /\ [McpNext]_mcpVars => RecordInv'
<1> SUFFICES ASSUME McpInv, Inv, RecordInv, [McpNext]_mcpVars PROVE RecordInv'
  OBVIOUS
<1>0. /\ Spent \in Nat /\ Spent' \in Nat /\ Spent <= Spent'
      /\ faults' \in Nat /\ faults' <= machine'.faults
  BY SpendStep
<1>14. Spent \in Int /\ Spent' \in Int /\ Spent <= Spent'
  BY <1>0
<1>1. handled \in Nat /\ DOMAIN written \subseteq Nat /\ recorded \in [DOMAIN written -> Nat]
      /\ stdout \in Seq(Answers)
  BY Parts DEF McpInv, ServerTypeOK
<1>2. ASSUME NEW kinds, Scanned(kinds), at' = "call" => ~interrupted,
             at' = "send" => reply'.verdict # "data"
      PROVE  RecordInv'
  <2>1. /\ UNCHANGED <<written, stdout, recorded, interrupted>> /\ handled' = handled + 1
        /\ at = "scan"
    BY <1>2 DEF Scanned
  <2>2. Telling = {} /\ Telling' = {}
    BY <1>2, <2>1 DEF Telling
  <2> QED
    BY <1>0, <1>2, <2>1, <2>2, NothingRecorded
<1>3. ASSUME UNCHANGED <<written, stdout, recorded, handled>>, interrupted => interrupted',
             at' = "call" => at = "call", Telling' = Telling
      PROVE  RecordInv'
  BY <1>0, <1>3, NothingRecorded
<1>15. CutShort \in Nat /\ CutShort' \in Nat
  BY DEF CutShort
<1>4. CASE Accepted
  <2>1. /\ UNCHANGED <<written, stdout, handled, interrupted>> /\ at = "call" /\ at' = "send"
        /\ ~interrupted /\ reply'.verdict = "data" /\ Record
    BY <1>4 DEF Accepted, Answered, Answer
  <2>2. Told' = Told /\ Telling' = {handled}
    BY <2>1 DEF Told, Telling
  <2>3. \A n \in DOMAIN written : recorded'[n] = recorded[n] \/ (n = handled /\ recorded'[n] = 1)
    BY <1>1, <2>1 DEF Record, RecordInv
  <2>4. Unsaid' \subseteq Unsaid
    BY <2>1, <2>2, <2>3 DEF Unsaid, Telling
  <2>5. CutShort = 0 /\ CutShort' = 0
    BY <2>1 DEF CutShort
  <2>6. Cardinality(Unsaid) <= Spent /\ IsFiniteSet(Unsaid)
    BY <1>0, <2>5 DEF RecordInv, Spent
  <2>7. IsFiniteSet(Unsaid') /\ Cardinality(Unsaid') <= Spent
    BY <1>14, <2>4, <2>6, NoMore
  <2>8. Cardinality(Unsaid') \in Nat
    BY <2>7, FS_CardinalityType
  <2>9. IsFiniteSet(Unsaid') /\ Cardinality(Unsaid') <= Spent' + CutShort'
    BY <1>14, <1>15, <2>5, <2>7, <2>8
  <2>10. \A n \in DOMAIN written' :
          /\ recorded'[n] <= 1
          /\ n > handled' \/ (n = handled' /\ at' = "call") => recorded'[n] = 0
    BY <1>1, <2>1, <2>3 DEF RecordInv
  <2> QED
    BY <1>0, <2>9, <2>10 DEF RecordInv, Spent
<1>5. CASE Unreachable
  <2>1. /\ UNCHANGED <<written, stdout, handled, interrupted>> /\ at = "call" /\ at' = "send"
        /\ reply'.verdict # "data" /\ (Record \/ recorded' = recorded)
    BY <1>5 DEF Unreachable, Answered, Answer, TakesEffect
  <2>2. Told' = Told /\ Telling' = {} /\ Telling = {}
    BY <2>1 DEF Told, Telling
  <2>3. \A n \in DOMAIN written : recorded'[n] = recorded[n] \/ (n = handled /\ recorded'[n] = 1)
    BY <1>1, <2>1 DEF Record, RecordInv
  <2>4. Unsaid' \subseteq Unsaid \union {handled}
    BY <2>1, <2>2, <2>3 DEF Unsaid
  <2>5. IsFiniteSet(Unsaid') /\ Cardinality(Unsaid') <= Spent' + CutShort'
    <3>1. CASE interrupted
      <4>1. CutShort = 0 /\ CutShort' = 1
        BY <2>1, <3>1 DEF CutShort
      <4>2. Cardinality(Unsaid) <= Spent /\ IsFiniteSet(Unsaid)
        BY <1>0, <4>1 DEF RecordInv, Spent
      <4>3. IsFiniteSet(Unsaid') /\ Cardinality(Unsaid') <= Spent + 1
        BY <1>14, <2>4, <4>2, OneMore
      <4>4. Cardinality(Unsaid') \in Nat
        BY <4>3, FS_CardinalityType
      <4> QED
        BY <1>14, <1>15, <4>1, <4>3, <4>4
    <3>2. CASE ~interrupted
      <4>1. Fault /\ CutShort = 0 /\ CutShort' = 0
        BY <1>5, <2>1, <3>2 DEF Unreachable, Fault, CutShort
      <4>2. Spent' = Spent + 1
        BY <4>1, SpendStep
      <4>3. Cardinality(Unsaid) <= Spent /\ IsFiniteSet(Unsaid)
        BY <1>0, <4>1 DEF RecordInv, Spent
      <4>4. IsFiniteSet(Unsaid') /\ Cardinality(Unsaid') <= Spent + 1
        BY <1>14, <2>4, <4>3, OneMore
      <4>5. Cardinality(Unsaid') \in Nat
        BY <4>4, FS_CardinalityType
      <4> QED
        BY <1>14, <1>15, <4>1, <4>2, <4>4, <4>5
    <3> QED
      BY <3>1, <3>2
  <2>8. \A n \in DOMAIN written' :
          /\ recorded'[n] <= 1
          /\ n > handled' \/ (n = handled' /\ at' = "call") => recorded'[n] = 0
    BY <1>1, <2>1, <2>3 DEF RecordInv
  <2> QED
    BY <1>0, <2>5, <2>8 DEF RecordInv, Spent
<1>6. CASE Send
  <2>1. /\ UNCHANGED <<written, handled, recorded, interrupted>> /\ at = "send" /\ at' = "scan"
        /\ stdout' = Append(stdout, reply) /\ reply.line = handled /\ reply \in Answers
    BY <1>6, Parts DEF Send, McpInv, Dispatched, ServerTypeOK
  <2>2. /\ DOMAIN stdout' = 1 .. Len(stdout) + 1 /\ DOMAIN stdout = 1 .. Len(stdout)
        /\ Len(stdout) \in Nat /\ \A i \in DOMAIN stdout : stdout'[i] = stdout[i]
        /\ stdout'[Len(stdout) + 1] = reply
    BY <1>1, <2>1
  <2>3. Told' = Told \union Telling /\ Telling' = {}
    BY <2>1, <2>2 DEF Told, Telling
  <2>4. Unsaid' = Unsaid
    BY <2>1, <2>3 DEF Unsaid
  <2>5. CutShort' = CutShort /\ CutShort \in Nat
    BY <2>1 DEF CutShort
  <2>6. Cardinality(Unsaid) <= Spent + CutShort /\ IsFiniteSet(Unsaid)
    BY DEF RecordInv, Spent
  <2>7. IsFiniteSet(Unsaid') /\ Cardinality(Unsaid') <= Spent' + CutShort'
    BY <1>0, <2>4, <2>5, <2>6, FS_CardinalityType
  <2> QED
    BY <1>0, <2>1, <2>7 DEF RecordInv, Spent
<1>7. CASE Skip \/ Overlong
  BY <1>2, <1>7 DEF Skip, Overlong, Scanned
<1>8. CASE AnswerAtOnce \/ TurnAway
  <2>1. /\ Scanned(AtOnce) \/ Scanned(AccountTools)
        /\ at' = "send" /\ reply'.verdict # "data"
    BY <1>8, Wording DEF AnswerAtOnce, TurnAway
  <2> QED
    BY <1>2, <2>1
<1>9. CASE CallBackend
  <2> DEFINE kinds == IF heldToken = NoToken THEN {"package"} ELSE Calls
  <2>1. Scanned(kinds)
    BY <1>9 DEF CallBackend
  <2>2. \/ interrupted /\ at' = "send" /\ reply' = Answer(handled + 1, "unreachable")
        \/ ~interrupted /\ at' = "call"
    BY <1>9 DEF CallBackend
  <2>3. reply' = Answer(handled + 1, "unreachable") => reply'.verdict # "data"
    BY Wording
  <2> HIDE DEF kinds
  <2> QED
    BY <1>2, <2>1, <2>2, <2>3
<1>10. CASE BeginSearch
  <2>1. /\ Scanned({"find_usages"})
        /\ \/ at' = "send" /\ reply' = Answer(handled + 1, "some usages")
           \/ at' = "search"
    BY <1>10 DEF BeginSearch
  <2>2. reply' = Answer(handled + 1, "some usages") => reply'.verdict # "data"
    BY Wording
  <2> QED
    BY <1>2, <2>1, <2>2
<1>11. CASE Refused \/ Declined \/ Searched
  <2>1. /\ UNCHANGED <<written, stdout, recorded, handled, interrupted>>
        /\ at \in {"call", "search"} /\ at' = "send"
        /\ \E verdict \in Verdicts \ {"data"} : reply' = Answer(handled, verdict)
    BY <1>11 DEF Refused, Declined, Searched, Answered, Verdicts
  <2>2. reply'.verdict # "data"
    BY <2>1, Wording
  <2>3. Telling = {} /\ Telling' = {}
    BY <2>1, <2>2 DEF Telling
  <2> QED
    BY <1>3, <2>1, <2>3
<1>12. CASE BorrowForServer \/ EndOfInput \/ LoadForServer
  <2>1. /\ UNCHANGED <<written, stdout, recorded, handled, interrupted>>
        /\ at # "send" /\ at' \notin {"call", "send"}
    BY <1>12 DEF BorrowForServer, EndOfInput, LoadForServer
  <2>2. Telling = {} /\ Telling' = {}
    BY <2>1 DEF Telling
  <2> QED
    BY <1>3, <2>1, <2>2
<1>13. CASE CloseInput \/ Interrupt \/ (Next /\ UNCHANGED <<input, server>>) \/ UNCHANGED mcpVars
  <2>1. /\ UNCHANGED <<written, stdout, recorded, handled>> /\ at' = at /\ reply' = reply
        /\ interrupted => interrupted'
    BY <1>13 DEF CloseInput, Interrupt
  <2>2. (at' = "call" => at = "call") /\ Telling' = Telling
    BY <2>1 DEF Telling
  <2> QED
    BY <1>3, <2>1, <2>2
<1> QED
  BY <1>4, <1>5, <1>6, <1>7, <1>8, <1>9, <1>10, <1>11, <1>12, <1>13 DEF McpNext, Serve

(***************************************************************************)
(* A log_time request makes one entry at most, and there are never more    *)
(* entries the assistant was not told of than calls that went wrong, the   *)
(* one the interrupt cut short counted (tools.go: "so the assistant can    *)
(* tell the user rather than retry"): for any input and any number of      *)
(* faults.                                                                 *)
(***************************************************************************)
THEOREM EntriesAreTold == McpSpec => []RecordedAsTold
<1>1. McpInit => Inv
  BY InvInit DEF McpInit
<1>2. Inv /\ RecordInv => RecordedAsTold
  <2> SUFFICES ASSUME Inv, RecordInv PROVE RecordedAsTold
    OBVIOUS
  <2> DEFINE untold == {n \in DOMAIN written : recorded[n] > 0} \ (Told \union InHand)
  <2>1. untold \subseteq Unsaid
    BY DEF Unsaid, Telling, InHand
  <2>5. /\ faults \in Nat /\ machine.faults \in Nat
    BY MachinesAssumption DEF Inv, TypeOK
  <2>2. /\ Spent \in Int /\ CutShort \in Nat /\ CutShort <= (IF interrupted THEN 1 ELSE 0)
        /\ IsFiniteSet(Unsaid) /\ Cardinality(Unsaid) <= Spent + CutShort
    BY <2>5 DEF RecordInv, Spent, CutShort
  <2>6. Spent + CutShort \in Int /\ IsFiniteSet(untold) /\ Cardinality(untold) <= Spent + CutShort
    BY <2>1, <2>2, NoMore
  <2> HIDE DEF untold
  <2>3. Cardinality(untold) <= Spent + (IF interrupted THEN 1 ELSE 0)
    BY <2>2, <2>6, FS_CardinalityType
  <2>4. \A n \in DOMAIN written : recorded[n] <= 1
    BY DEF RecordInv
  <2> QED
    BY <2>3, <2>4 DEF RecordedAsTold, untold, Told, Spent
<1> QED
  BY McpInvHolds, RecordInvInit, <1>1, <1>2, MachineStep, RecordStep, PTL DEF McpSpec

=============================================================================
