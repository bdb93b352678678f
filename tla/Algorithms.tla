----------------------------- MODULE Algorithms -----------------------------
(***************************************************************************)
(* The pure algorithms of the CLI over every small input.  A behaviour     *)
(* chooses what is read and then reads it one element at a time, so each   *)
(* state is one input, and a property compares what the source computes of *)
(* it with what it should be.                                              *)
(***************************************************************************)
EXTENDS Dedup, Lockfile, Workspaces, GitContext, Commits

CONSTANTS
    PnpmLines, JsonTokens, ConfigLines, LogLines, \* what the texts are made of
    MaxLength,  \* of each kind of input read in sequence, the bound on its length
    Places,     \* the folders that may hold a package.json
    Declarations \* the sets of workspace patterns a manifest may declare

\* What pnpm writes: two spaces a level, no line without a key, a version's value
\* on its line.
ASSUME PnpmLinesAssumption ==
    /\ PnpmLines \subseteq [indent : Nat, key : STRING, value : STRING]
    /\ \A line \in PnpmLines :
         /\ line.indent % 2 = 0
         /\ line.key # ""
         /\ line.indent = 8 /\ line.key = "version" => line.value # ""
ASSUME JsonTokensAssumption ==
    /\ JsonTokens \subseteq Seq(Byte)
    /\ \A token \in JsonTokens : IsString(token) \/ (Len(token) = 1 /\ token[1] # Quote)
ASSUME PlacesAssumption == IsFiniteSet(Places) /\ Places \subseteq Seq(DOMAIN Rank)
ASSUME DeclarationsAssumption ==
    \A patterns \in Declarations : patterns \subseteq Seq(STRING)
ASSUME ConfigLinesAssumption == ConfigLines \subseteq [key : STRING, value : STRING]
ASSUME LogLinesAssumption ==
    LogLines \subseteq [kind : {"record"}, sha : STRING] \union [kind : {"blank"}]
                      \union [kind : {"file"}, add : Counts, del : Counts]

VARIABLES
    subject, \* the algorithm
    input,   \* what it has read so far
    loop     \* what its loop has made of that

vars == <<subject, input, loop>>

Begin == [batch |-> <<>>, pnpm |-> PnpmBegin, json |-> <<>>, config |-> ConfigBegin,
          log |-> <<>>, tree |-> <<>>]

Init ==
    /\ subject \in DOMAIN Begin
    /\ input = <<>>
    /\ loop = Begin[subject]

Read(x) ==
    /\ Len(input) < MaxLength[subject]
    /\ input' = Append(input, x)
    /\ UNCHANGED subject

\* One turn of dedupBeats' loop.
ReadBeat(b) ==
    /\ subject = "batch" /\ Read(b)
    /\ loop' = Keep(loop, b)

\* One turn of pnpmLookup's; of a lockfile that pnpm wrote.
ReadPnpm(line) ==
    /\ subject = "pnpm" /\ Read(line)
    /\ WellIndented(input')
    /\ loop' = PnpmLine(loop, line)

\* stripTrailingCommas looks ahead: its loop comes after the input.
ReadJson(token) ==
    /\ subject = "json" /\ Read(token)
    /\ UNCHANGED loop

\* One turn of readOriginURL's.
ReadConfig(line) ==
    /\ subject = "config" /\ Read(line)
    /\ loop' = ConfigLine(loop, line)

\* One turn of the parser's; a log begins with a record.
ReadLog(line) ==
    /\ subject = "log" /\ Read(line)
    /\ input'[1].kind = "record"
    /\ loop' = ParseLine(loop, line)

\* A working copy, and the patterns of its root manifest.
CheckOut(tree, patterns) ==
    /\ subject = "tree" /\ input = <<>>
    /\ input' = <<tree, patterns>>
    /\ UNCHANGED <<subject, loop>>

Next ==
    \/ \E b \in Beats : ReadBeat(b)
    \/ \E line \in PnpmLines : ReadPnpm(line)
    \/ \E token \in JsonTokens : ReadJson(token)
    \/ \E line \in ConfigLines : ReadConfig(line)
    \/ \E line \in LogLines : ReadLog(line)
    \/ \E tree \in SUBSET Places : \E patterns \in Declarations : CheckOut(tree, patterns)

Spec == Init /\ [][Next]_vars

-----------------------------------------------------------------------------
(* Properties *)

(***************************************************************************)
(* Comparing with the last KEPT beat, as dedupBeats does, is comparing     *)
(* with the previous beat of the batch: what is sent is exactly the beats  *)
(* whose successor is no duplicate, in the order of the queue.             *)
(***************************************************************************)
KeptAreSurvivors ==
    subject = "batch" =>
        LET survivors == {i \in 1 .. Len(input) : Survives(input, i)}
        IN /\ Len(loop) = Cardinality(survivors)
           /\ \A i \in survivors : loop[Cardinality({j \in survivors : j <= i})] = input[i]

(***************************************************************************)
(* On a batch sorted by time (the precondition dedupBeats states), every   *)
(* beat is represented by a kept beat of its key that is not older, and no *)
(* kept beat is a duplicate of the next one: the newest of each run stays. *)
(***************************************************************************)
NewestOfEachRun ==
    subject = "batch" /\ SortedByTime(input) =>
        /\ \A i \in 1 .. Len(input) : \E k \in 1 .. Len(loop) :
             /\ loop[k].key = input[i].key
             /\ loop[k].time >= input[i].time
             /\ loop[k].time <= input[i].time + DedupWindow * (Len(input) - i)
        /\ \A k \in 1 .. Len(loop) - 1 : ~IsDup(loop[k], loop[k + 1])
        /\ SortedByTime(loop)

(***************************************************************************)
(* pnpmLookup's flags and indents find of every folder and name what the   *)
(* nesting of the lines says is installed there, of lockfiles old and new  *)
(* and whichever blocks come in between; and stripTrailingCommas removes   *)
(* the commas before a closing bracket, of no string's content, whatever   *)
(* the strings escape.                                                     *)
(***************************************************************************)
PnpmAsNested ==
    subject = "pnpm" =>
        LET folders == {Importer(input[i].key) : i \in {j \in 1 .. Len(input) : input[j].indent = 2}}
            names == {input[i].key : i \in {j \in 1 .. Len(input) : input[j].indent = 6}}
        IN \A dir \in folders, name \in names :
             PnpmVersion(loop, dir, name) = InstalledBy(input, dir, name)

LockfileAsNested ==
    /\ PnpmAsNested
    /\ subject = "json" =>
         StripTrailingCommas(FlattenSeq(input)) = FlattenSeq(WithoutTrailingCommas(input))

(***************************************************************************)
(* What leaves the machine is the root manifest and, of the workspaces     *)
(* declared below it, the first ones in order up to the server's ceiling,  *)
(* each once: none of a folder that is skipped, and never the root again.  *)
(***************************************************************************)
WorkspacesAsDeclared ==
    subject = "tree" /\ input # <<>> =>
        LET tree == input[1]
            patterns == input[2]
            sent == Collect(tree, patterns)
            others == {sent[i] : i \in 2 .. Len(sent)}
            declared == Declared(tree, Root(tree), patterns)
        IN IF ~HasRoot(tree) THEN sent = <<>>
           ELSE /\ sent[1] = Root(tree)
                /\ others \subseteq declared
                /\ Cardinality(others) = Len(sent) - 1
                /\ Len(sent) - 1 <= MaxWorkspaceManifests
                /\ \A i \in 2 .. Len(sent) - 1 : Before(sent[i], sent[i + 1])
                /\ \A dir \in declared \ others :
                     /\ Len(sent) - 1 = MaxWorkspaceManifests
                     /\ \A other \in others : Before(other, dir)

(***************************************************************************)
(* A project is attributed by origin's first url, wherever it stands in    *)
(* the file, or else by the first url of any remote; a url key of another  *)
(* kind of section never counts.                                           *)
(***************************************************************************)
RemoteOfConfig ==
    subject = "config" =>
        LET remotes == {input[i].value : i \in {j \in 1 .. Len(input) : IsHeader(input[j])}} \ {""}
            origins == UrlsOf(input, {"origin"})
        IN OriginURL(loop) =
             FirstUrl(input, IF origins # {} THEN origins ELSE UrlsOf(input, remotes))

(***************************************************************************)
(* The counts of the k-th commit are those of the lines between the k-th   *)
(* record and the next: no commit is lost, merged or given the files of    *)
(* another, and a binary file is a file changed with no line.              *)
(***************************************************************************)
CountsAddUp ==
    subject = "log" =>
        /\ Len(loop) = Cardinality(Records(input))
        /\ \A r \in Records(input) :
             loop[Cardinality({h \in Records(input) : h <= r})] = CommitOf(input, r)

=============================================================================
