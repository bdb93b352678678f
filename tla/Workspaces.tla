----------------------------- MODULE Workspaces -----------------------------
(***************************************************************************)
(* Which package.json files sync-deps reads (internal/deps/collect.go): the *)
(* repository's root manifest, and those of the workspaces it declares.    *)
(*                                                                         *)
(* A folder is the sequence of its names below the repository's root, and  *)
(* a tree is the set of the folders that hold a package.json.  A pattern   *)
(* is a sequence too: "*" is any one name, and "**" any depth.             *)
(***************************************************************************)
EXTENDS Integers, Sequences, SequencesExt, FiniteSets, FiniteSetsExt

CONSTANTS
    RootFolders,             \* the folders of RootCandidates, in order
    Skipped,                 \* node_modules, and names that begin with a dot
    Rank,                    \* of each name, the order sort.Strings puts them in
    MaxWorkspaceManifests

ASSUME MaxWorkspaceManifestsAssumption == MaxWorkspaceManifests \in Nat
ASSUME RankAssumption ==
    /\ DOMAIN Rank \subseteq STRING
    /\ \A a, b \in DOMAIN Rank : Rank[a] \in Int /\ (Rank[a] = Rank[b] => a = b)
ASSUME RootFoldersAssumption == RootFolders \in Seq(Seq(STRING))

AnyName == "*"
AnyDepth == "**"

\* The deepest levels walkPackages looks at below the pattern's prefix.
WalkLevels == 4

\* Every folder of the repository: those that lead to a manifest.
Folders(tree) == UNION {{SubSeq(dir, 1, n) : n \in 0 .. Len(dir)} : dir \in tree}

Children(folders, dir) == {d \in folders : Len(d) = Len(dir) + 1 /\ IsPrefix(dir, d)}

SkipDir(dir) == \E i \in 1 .. Len(dir) : dir[i] \in Skipped

\* Mistake: the walk ends one level early.
WalkLess(folders, dir) ==
    LET walk[n \in 0 .. WalkLevels - 1] ==
          IF n = 0 THEN {dir}
          ELSE UNION {{c \in Children(folders, d) : ~SkipDir(c)} : d \in walk[n - 1]}
    IN UNION {walk[n] : n \in 1 .. WalkLevels - 1}

\* walkPackages, level by level.
WalkPackages(folders, dir) ==
    LET walk[n \in 0 .. WalkLevels] ==
          IF n = 0 THEN {dir}
          ELSE UNION {{c \in Children(folders, d) : ~SkipDir(c)} : d \in walk[n - 1]}
    IN UNION {walk[n] : n \in 1 .. WalkLevels}

\* filepath.Glob, name by name.
Glob(folders, pattern) ==
    {d \in folders :
        Len(d) = Len(pattern) /\ \A i \in 1 .. Len(d) : pattern[i] \in {AnyName, d[i]}}

\* What comes before the first "**", when there is one.
AnyDepthAt(pattern) == {i \in 1 .. Len(pattern) : pattern[i] = AnyDepth}

Prefix(pattern) == SubSeq(pattern, 1, Min(AnyDepthAt(pattern)) - 1)

\* What one pattern finds below base.  The prefix of a "**" is taken as a
\* folder's name, and what follows it is not looked at.
Found(folders, base, pattern) ==
    LET rel == base \o pattern
    IN IF AnyDepthAt(rel) # {}
       THEN IF Prefix(rel) \in folders THEN WalkPackages(folders, Prefix(rel)) ELSE {}
       ELSE Glob(folders, rel)

\* The order of sort.Strings, between names whose letters follow "/".
Before(a, b) ==
    \/ IsStrictPrefix(a, b)
    \/ \E i \in 1 .. Len(a) :
         /\ i <= Len(b) /\ \A j \in 1 .. i - 1 : a[j] = b[j]
         /\ Rank[a[i]] < Rank[b[i]]

\* Of a set of folders, each after those that come before it.
Sorted(dirs) ==
    [i \in 1 .. Cardinality(dirs) |->
        CHOOSE d \in dirs : Cardinality({e \in dirs : Before(e, d)}) = i - 1]

Capped(dirs) == SubSeq(dirs, 1, IF Len(dirs) < MaxWorkspaceManifests THEN Len(dirs)
                                ELSE MaxWorkspaceManifests)

ExpandWorkspaces(tree, base, patterns) ==
    LET folders == Folders(tree)
        found == (UNION {Found(folders, base, p) : p \in patterns}) \ {base, <<>>}
    IN Capped(Sorted({d \in found : ~SkipDir(d) /\ d \in tree}))

\* Collect: the first candidate there is, then the workspaces; none without it.
HasRoot(tree) == \E i \in 1 .. Len(RootFolders) : RootFolders[i] \in tree

Root(tree) == RootFolders[CHOOSE i \in 1 .. Len(RootFolders) :
                /\ RootFolders[i] \in tree
                /\ \A j \in 1 .. i - 1 : RootFolders[j] \notin tree]

Collect(tree, patterns) ==
    IF HasRoot(tree)
    THEN <<Root(tree)>> \o ExpandWorkspaces(tree, Root(tree), patterns)
    ELSE <<>>

-----------------------------------------------------------------------------
\* What a pattern declares, said of one folder: name by name, or at most
\* WalkLevels levels below the prefix of a "**" that holds no "*".
Declares(base, pattern, dir) ==
    LET rel == base \o pattern
    IN IF AnyDepthAt(rel) # {}
       THEN IsStrictPrefix(Prefix(rel), dir) /\ Len(dir) <= Len(Prefix(rel)) + WalkLevels
       ELSE Len(dir) = Len(rel) /\ \A i \in 1 .. Len(dir) : rel[i] \in {AnyName, dir[i]}

Declared(tree, base, patterns) ==
    {dir \in tree : /\ dir \notin {base, <<>>}
                    /\ ~SkipDir(dir)
                    /\ \E p \in patterns : Declares(base, p, dir)}

=============================================================================
