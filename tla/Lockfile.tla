------------------------------ MODULE Lockfile ------------------------------
(***************************************************************************)
(* Installed versions out of a lockfile (internal/deps/lockfile.go): the   *)
(* line loop that reads pnpm-lock.yaml without a YAML parser, and the pass *)
(* that makes JSON of bun.lock; each against the nesting of the text.      *)
(*                                                                         *)
(* A line of pnpm-lock.yaml is its indent, its key and the value after the *)
(* colon, "" when there is none.                                           *)
(***************************************************************************)
EXTENDS Integers, Sequences, SequencesExt, FiniteSets, FiniteSetsExt

DepBlocks == {"dependencies", "devDependencies", "optionalDependencies"}

\* A folder by the name its importer has: the root's is ".".
Importer(key) == IF key = "." THEN "" ELSE key

\* Mistake: a block that holds no dependencies does not end the one before.
StayInDeps(s, key) == s.inDeps \/ key \in DepBlocks

InDeps(s, key) == key \in DepBlocks

set(versions, importer, entry, version) ==
    [at \in DOMAIN versions \union {<<importer, entry>>} |->
        IF at = <<importer, entry>> THEN version ELSE versions[at]]

\* One turn of pnpmLookup's loop, over a line that is not blank.
PnpmLine(s, line) ==
    CASE line.indent = 0 ->
            [s EXCEPT !.inImporters = line.key = "importers" /\ line.value = "",
                      !.importer = "", !.entry = "", !.inDeps = FALSE]
      [] line.indent # 0 /\ ~s.inImporters -> s
      [] line.indent = 2 /\ s.inImporters ->
            [s EXCEPT !.importer = Importer(line.key), !.inDeps = FALSE, !.entry = ""]
      [] line.indent = 4 /\ s.inImporters ->
            [s EXCEPT !.inDeps = InDeps(s, line.key), !.entry = ""]
      [] line.indent = 6 /\ s.inImporters /\ s.inDeps ->
            [s EXCEPT !.entry = line.key,
                      !.versions = IF line.value = "" THEN @
                                   ELSE set(@, s.importer, line.key, line.value)]
      [] line.indent = 8 /\ s.inImporters /\ s.inDeps /\ s.entry # "" ->
            [s EXCEPT !.versions = IF line.key # "version" THEN @
                                   ELSE set(@, s.importer, s.entry, line.value)]
      [] OTHER -> s

PnpmBegin == [inImporters |-> FALSE, importer |-> "", inDeps |-> FALSE,
              entry |-> "", versions |-> <<>>]

\* What pnpmLookup knows of a name in a folder, after its loop.
PnpmVersion(s, dir, name) ==
    IF <<dir, name>> \in DOMAIN s.versions THEN s.versions[<<dir, name>>] ELSE ""

-----------------------------------------------------------------------------
\* What pnpm writes: a line is at most one level below the line before it, and
\* only below one without a value.
WellIndented(lines) ==
    /\ lines # <<>> => lines[1].indent = 0
    /\ \A i \in 2 .. Len(lines) :
         lines[i].indent <= lines[i - 1].indent + (IF lines[i - 1].value = "" THEN 2 ELSE 0)

\* The keys that enclose a line, its own the last.
PathOf(lines, i) ==
    [d \in 1 .. lines[i].indent \div 2 + 1 |->
        lines[Max({j \in 1 .. i : lines[j].indent = 2 * (d - 1)})].key]

\* What the file says is installed: `importers: <folder>: <block>: <name>:`
\* and then the version, on this line (v5) or under `version:` (v6 and later).
SaysInstalled(lines, i, dir, name) ==
    LET path == PathOf(lines, i)
    IN /\ lines[i].value # ""
       /\ Len(path) \in {4, 5}
       /\ Len(path) = 5 => path[5] = "version"
       /\ path[1] = "importers" /\ Importer(path[2]) = dir
       /\ path[3] \in DepBlocks /\ path[4] = name

InstalledBy(lines, dir, name) ==
    LET says == {i \in 1 .. Len(lines) : SaysInstalled(lines, i, dir, name)}
    IN IF says = {} THEN "" ELSE lines[Max(says)].value

-----------------------------------------------------------------------------
\* A byte is written as a string of its own.
Byte == STRING
Quote == "\""
Backslash == "\\"
Comma == ","
Space == " "
Bracket == "}"

\* stripTrailingCommas' look ahead: only whitespace up to a closing bracket.
ClosesNext(data, i) ==
    \E j \in i + 1 .. Len(data) : data[j] = Bracket /\ \A k \in i + 1 .. j - 1 : data[k] = Space

\* One byte of it: s.inString and s.escaped are of the bytes before.
StripByte(s, data, i) ==
    LET c == data[i]
    IN IF s.inString
       THEN [out |-> Append(s.out, c), inString |-> s.escaped \/ c # Quote,
             escaped |-> ~s.escaped /\ c = Backslash]
       ELSE [out |-> IF c = Comma /\ ClosesNext(data, i) THEN s.out ELSE Append(s.out, c),
             inString |-> c = Quote, escaped |-> FALSE]

StripBegin == [out |-> <<>>, inString |-> FALSE, escaped |-> FALSE]

StripTrailingCommas(data) ==
    LET loop[i \in 0 .. Len(data)] ==
          IF i = 0 THEN StripBegin ELSE StripByte(loop[i - 1], data, i)
    IN loop[Len(data)].out

\* The same of a text already cut into tokens, each the bytes it is made of:
\* the commas whose next token that is not a space closes a bracket go.
Trailing(tokens, i) ==
    /\ tokens[i] = <<Comma>>
    /\ \E j \in i + 1 .. Len(tokens) :
         tokens[j] = <<Bracket>> /\ \A k \in i + 1 .. j - 1 : tokens[k] = <<Space>>

WithoutTrailingCommas(tokens) ==
    [i \in 1 .. Len(tokens) |-> IF Trailing(tokens, i) THEN <<>> ELSE tokens[i]]

\* A string of JSON, as a token: from a quote to the next that is not escaped,
\* a byte being escaped by a backslash before it that is not.
IsString(token) ==
    \E escaped \in [1 .. Len(token) -> BOOLEAN] :
        /\ \A i \in 1 .. Len(token) :
             escaped[i] <=> i > 1 /\ ~escaped[i - 1] /\ token[i - 1] = Backslash
        /\ \A i \in 1 .. Len(token) :
             token[i] = Quote /\ ~escaped[i] <=> i \in {1, Len(token)}
        /\ Len(token) > 1

=============================================================================
