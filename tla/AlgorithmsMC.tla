---------------------------- MODULE AlgorithmsMC ----------------------------
(* Small alphabets in which every case of each algorithm occurs. *)
EXTENDS Algorithms

mcBeats == [n : {0}, key : {"a", "b"}, time : 0 .. 3, write : {FALSE},
            aiTool : {"none"}, readable : {TRUE}, wellFormed : {TRUE}]

PnpmAt(indent, key, value) == [indent |-> indent, key |-> key, value |-> value]

mcPnpm == {PnpmAt(0, "importers", ""), PnpmAt(0, "packages", ""),
           PnpmAt(2, ".", ""), PnpmAt(2, "app", ""),
           PnpmAt(4, "dependencies", ""), PnpmAt(4, "specifiers", ""),
           PnpmAt(6, "x", ""), PnpmAt(6, "x", "1"),
           PnpmAt(8, "version", "2"), PnpmAt(8, "specifier", "^2")}

\* A comma, a space, a bracket, a number, and strings that hold a comma and a
\* bracket, an escaped quote, an escaped backslash.
mcJson == {<<",">>, <<" ">>, <<"}">>, <<"1">>,
           <<"\"", ",", "}", "\"">>, <<"\"", "\\", "\"", "\"">>, <<"\"", "\\", "\\", "\"">>}

Header(remote) == [key |-> "[", value |-> remote]
mcConfig == {Header("origin"), Header("fork"), Header(""),
             [key |-> "url", value |-> "u"], [key |-> "url", value |-> "v"],
             [key |-> "url", value |-> ""], [key |-> "pushurl", value |-> "w"]}

File(add, del) == [kind |-> "file", add |-> add, del |-> del]
mcLog == {[kind |-> "record", sha |-> "s"], [kind |-> "record", sha |-> "t"],
          File(2, 1), File(0, 3), File(Uncounted, Uncounted), [kind |-> "blank"]}

mcMaxLength == [batch |-> 5, pnpm |-> 7, json |-> 5, config |-> 5, log |-> 6]

Chain(n) == [i \in 1 .. n |-> "p"]
mcPlaces == {Chain(n) : n \in 0 .. 6} \union {<<"p", "s">>, <<"p", "s", "p">>, <<"q">>}
mcPatterns == {<<"*">>, <<"p", "*">>, <<"**">>, <<"p", "**", "q">>, <<"*", "**">>}
mcDeclarations == {{a, b} : a, b \in mcPatterns} \union {{}}
mcRootFolders == <<<<>>, <<"p">>>>
mcRank == [p |-> 1, q |-> 2, s |-> 3]
=============================================================================
