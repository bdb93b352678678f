--------------------------- MODULE AlgorithmsProofs ---------------------------
(***************************************************************************)
(* What TLAPS proves of the loops Algorithms runs, for texts and batches   *)
(* of any length over any lines and beats: after each turn, what a loop    *)
(* has is what its input says.                                             *)
(***************************************************************************)
EXTENDS Algorithms, FiniteSetTheorems, WellFoundedInduction, TLAPS

USE DEF vars

(* Sequences that grow by one, and the least and the greatest number of a set *)

LEMMA Grown ==
    ASSUME NEW S, NEW s \in Seq(S), NEW x \in S
    PROVE  /\ Append(s, x) \in Seq(S) /\ Len(s) \in Nat
           /\ Len(Append(s, x)) = Len(s) + 1
           /\ \A i \in 1 .. Len(s) : Append(s, x)[i] = s[i] /\ s[i] \in S
           /\ Append(s, x)[Len(s) + 1] = x
  OBVIOUS

LEMMA MinOf ==
    ASSUME NEW S \in SUBSET Nat, S # {}
    PROVE  Min(S) \in S /\ \A n \in S : Min(S) <= n
<1> DEFINE less == OpToRel(<, Nat)
<1>1. PICK m \in S : \A n \in S : ~ <<n, m>> \in less
  BY NatLessThanWellFounded, WFMin
<1>2. \A n, k \in Nat : n < k => <<n, k>> \in less
  BY DEF OpToRel
<1> HIDE DEF less
<1>3. \A n \in S : ~ (n < m)
  BY <1>1, <1>2
<1>4. \A n \in S : m <= n
  BY <1>3
<1> QED
  BY <1>4 DEF Min

LEMMA MinOne == ASSUME NEW n \in Nat PROVE Min({n}) = n
<1>1. {n} \in SUBSET Nat /\ {n} # {}
  OBVIOUS
<1>2. Min({n}) \in {n}
  BY <1>1, MinOf
<1> QED
  BY <1>2

LEMMA MaxOf ==
    ASSUME NEW n \in Nat, NEW S \in SUBSET (1 .. n), S # {}
    PROVE  Max(S) \in S /\ \A i \in S : i <= Max(S)
<1> DEFINE Bounds == {m \in Nat : \A i \in S : i <= m}
           m == Min(Bounds)
<1>1. Bounds \in SUBSET Nat /\ n \in Bounds
  OBVIOUS
<1>2. m \in Bounds /\ \A k \in Bounds : m <= k
  BY <1>1, MinOf
<1>3. m \in Nat /\ \A i \in S : i <= m
  BY <1>2
<1>4. \A k \in Nat : (\A i \in S : i <= k) => m <= k
  BY <1>2
<1> HIDE DEF Bounds, m
<1>5. m \in S
  <2> SUFFICES ASSUME m \notin S PROVE FALSE
    OBVIOUS
  <2>0. \A i \in S : i \in Int /\ 1 <= i
    OBVIOUS
  <2>1. \A i \in S : i <= m - 1
    BY <1>3, <2>0
  <2>2. m - 1 \in Nat
    <3>1. PICK i \in S : TRUE
      OBVIOUS
    <3> QED
      BY <1>3, <2>0, <2>1, <3>1
  <2>3. m <= m - 1
    BY <1>4, <2>1, <2>2
  <2> QED
    BY <1>3, <2>3
<1>6. \E x \in S : \A y \in S : x >= y
  BY <1>3, <1>5
<1>7. Max(S) \in S /\ \A y \in S : Max(S) >= y
  BY <1>6 DEF Max
<1> QED
  BY <1>7

-----------------------------------------------------------------------------
(* readOriginURL *)

Values == {""} \union {line.value : line \in ConfigLines}
AnyRemote == Values \ {""}

\* The section that the lines end in is one of these remotes.
EndsIn(lines, remotes) ==
    \E h \in 1 .. Len(lines) :
        /\ IsHeader(lines[h]) /\ lines[h].value \in remotes
        /\ \A k \in h + 1 .. Len(lines) : ~IsHeader(lines[k])

ConfigTypeOK ==
    /\ input \in Seq(ConfigLines)
    /\ loop \in [section : Values, origin : Values, first : Values]

\* Once origin's url is found the loop is over.
ConfigInv ==
    subject = "config" =>
        /\ ConfigTypeOK
        /\ loop.origin = FirstUrl(input, UrlsOf(input, {"origin"}))
        /\ loop.origin = "" =>
             /\ loop.first = FirstUrl(input, UrlsOf(input, AnyRemote))
             /\ \A remotes \in {{"origin"}, AnyRemote} :
                  EndsIn(input, remotes) <=> loop.section \in remotes

\* A section ends where the next one begins.
LEMMA SectionEnds ==
    ASSUME NEW lines \in Seq(ConfigLines), NEW line \in ConfigLines, NEW remotes
    PROVE  EndsIn(Append(lines, line), remotes)
             <=> IF IsHeader(line) THEN line.value \in remotes ELSE EndsIn(lines, remotes)
<1> DEFINE more == Append(lines, line)
<1>0. /\ Len(lines) \in Nat /\ Len(more) = Len(lines) + 1 /\ more[Len(lines) + 1] = line
      /\ \A i \in 1 .. Len(lines) : more[i] = lines[i]
  BY Grown
<1> HIDE DEF more
<1>1. CASE IsHeader(line)
  <2>1. \A h \in 1 .. Len(more) : (\A k \in h + 1 .. Len(more) : ~IsHeader(more[k])) => h = Len(lines) + 1
    BY <1>0, <1>1
  <2> QED
    BY <1>0, <1>1, <2>1 DEF EndsIn, more
<1>2. CASE ~IsHeader(line)
  <2>1. ASSUME EndsIn(lines, remotes) PROVE EndsIn(more, remotes)
    BY <1>0, <1>2, <2>1 DEF EndsIn
  <2>2. ASSUME EndsIn(more, remotes) PROVE EndsIn(lines, remotes)
    BY <1>0, <1>2, <2>2 DEF EndsIn
  <2> QED
    BY <1>2, <2>1, <2>2 DEF more
<1> QED
  BY <1>1, <1>2

\* A line adds a url when it gives one within the section of such a remote.
LEMMA UrlsGrow ==
    ASSUME NEW lines \in Seq(ConfigLines), NEW line \in ConfigLines, NEW remotes
    PROVE  UrlsOf(Append(lines, line), remotes)
             = UrlsOf(lines, remotes) \union
               (IF line.key = "url" /\ line.value # "" /\ EndsIn(lines, remotes)
                THEN {Len(lines) + 1} ELSE {})
<1> DEFINE more == Append(lines, line)
<1>0. /\ Len(lines) \in Nat /\ Len(more) = Len(lines) + 1 /\ more[Len(lines) + 1] = line
      /\ \A i \in 1 .. Len(lines) : more[i] = lines[i]
  BY Grown
<1> HIDE DEF more
<1>1. ASSUME NEW i \in 1 .. Len(lines)
      PROVE  i \in UrlsOf(more, remotes) <=> i \in UrlsOf(lines, remotes)
  <2>1. /\ i \in 1 .. Len(more) /\ more[i] = lines[i]
        /\ \A h \in 1 .. i - 1 : more[h] = lines[h] /\ h \in 1 .. Len(lines)
        /\ \A h \in 1 .. i - 1 : \A k \in h + 1 .. i - 1 : more[k] = lines[k]
    BY <1>0, <1>1
  <2> QED
    BY <2>1 DEF UrlsOf
<1>2. Len(lines) + 1 \in UrlsOf(more, remotes)
        <=> line.key = "url" /\ line.value # "" /\ EndsIn(lines, remotes)
  <2>1. Len(lines) + 1 \in 1 .. Len(more) /\ (Len(lines) + 1) - 1 = Len(lines)
    BY <1>0
  <2>2. \A h \in 1 .. Len(lines) : \A k \in h + 1 .. Len(lines) : more[k] = lines[k]
    BY <1>0
  <2> QED
    BY <1>0, <2>1, <2>2 DEF UrlsOf, EndsIn
<1>3. /\ UrlsOf(more, remotes) \subseteq 1 .. Len(lines) + 1
      /\ UrlsOf(lines, remotes) \subseteq 1 .. Len(lines)
  BY <1>0 DEF UrlsOf
<1>4. 1 .. Len(lines) + 1 = (1 .. Len(lines)) \union {Len(lines) + 1} /\ Len(lines) + 1 \notin 1 .. Len(lines)
  BY <1>0
<1>5. UrlsOf(more, remotes)
             = UrlsOf(lines, remotes) \union
               (IF line.key = "url" /\ line.value # "" /\ EndsIn(lines, remotes)
                THEN {Len(lines) + 1} ELSE {})
  BY <1>1, <1>2, <1>3, <1>4
<1> QED
  BY <1>5 DEF more

\* The first url stays the first.
LEMMA FirstStays ==
    ASSUME NEW lines \in Seq(ConfigLines), NEW line \in ConfigLines, NEW remotes
    PROVE  FirstUrl(Append(lines, line), UrlsOf(Append(lines, line), remotes))
             = IF FirstUrl(lines, UrlsOf(lines, remotes)) = ""
                 /\ line.key = "url" /\ EndsIn(lines, remotes)
               THEN line.value ELSE FirstUrl(lines, UrlsOf(lines, remotes))
<1> DEFINE more == Append(lines, line)
           old == UrlsOf(lines, remotes)
           new == UrlsOf(more, remotes)
<1>0. /\ Len(lines) \in Nat /\ Len(more) = Len(lines) + 1 /\ more[Len(lines) + 1] = line
      /\ \A i \in 1 .. Len(lines) : more[i] = lines[i]
  BY Grown
<1>1. new = old \union (IF line.key = "url" /\ line.value # "" /\ EndsIn(lines, remotes)
                        THEN {Len(lines) + 1} ELSE {})
  BY UrlsGrow
<1>2. \A i \in old : lines[i].value # ""
  BY DEF UrlsOf
<1>5. \A i \in old : i \in 1 .. Len(lines)
  BY DEF UrlsOf
<1> HIDE DEF more, old, new
<1>6. Len(lines) \in Nat
  OBVIOUS
<1>3. CASE old # {}
  <2>0. old \in SUBSET Nat
    <3>1. \A i \in old : i \in Nat
      BY <1>5, <1>6
    <3> QED
      BY <3>1
  <2>1. Min(old) \in old /\ \A i \in old : Min(old) <= i
    BY <1>3, <2>0, MinOf
  <2>2. /\ new # {} /\ Min(old) \in new
        /\ \A i \in new : i \in old \/ i = Len(lines) + 1
    BY <1>1, <2>1
  <2>7. new \in SUBSET Nat
    <3>1. \A i \in new : i \in old \/ i = Len(lines) + 1
      BY <2>2
    <3>2. Len(lines) + 1 \in Nat
      BY <1>6
    <3> QED
      BY <2>0, <3>1, <3>2
  <2>3. Min(new) \in new /\ \A i \in new : Min(new) <= i
    BY <2>2, <2>7, MinOf
  <2>4. Min(new) = Min(old)
    <3> DEFINE a == Min(old)
               b == Min(new)
    <3>1. a \in 1 .. Len(lines)
      BY <1>5, <2>1
    <3>2. b \in Nat
      BY <2>3, <2>7
    <3>3. b <= a /\ (a <= b \/ b = Len(lines) + 1)
      BY <2>1, <2>2, <2>3
    <3> HIDE DEF a, b
    <3>4. a = b
      BY <1>6, <3>1, <3>2, <3>3
    <3> QED
      BY <3>4 DEF a, b
  <2>5. FirstUrl(lines, old) = lines[Min(old)].value /\ FirstUrl(lines, old) # ""
    BY <1>2, <1>3, <2>1 DEF FirstUrl
  <2>6. FirstUrl(more, new) = lines[Min(old)].value
    <3>1. more[Min(old)] = lines[Min(old)]
      BY <1>0, <1>5, <2>1
    <3> QED
      BY <2>2, <2>4, <3>1 DEF FirstUrl
  <2> QED
    BY <2>5, <2>6 DEF more, old, new
<1>4. CASE old = {}
  <2>1. FirstUrl(lines, old) = ""
    BY <1>4 DEF FirstUrl
  <2>2. CASE line.key = "url" /\ line.value # "" /\ EndsIn(lines, remotes)
    <3>1. new = {Len(lines) + 1}
      BY <1>1, <1>4, <2>2
    <3>2. Min(new) = Len(lines) + 1
      <4>1. Len(lines) + 1 \in Nat
        BY <1>6
      <4> QED
        BY <3>1, <4>1, MinOne
    <3> QED
      BY <1>0, <2>1, <2>2, <3>1, <3>2 DEF FirstUrl, more, old, new
  <2>3. CASE ~(line.key = "url" /\ line.value # "" /\ EndsIn(lines, remotes))
    <3>1. new = {}
      BY <1>1, <1>4, <2>3
    <3> QED
      BY <2>1, <2>3, <3>1 DEF FirstUrl, more, old, new
  <2> QED
    BY <2>2, <2>3
<1> QED
  BY <1>3, <1>4

LEMMA ConfigInit == Init => ConfigInv
<1> SUFFICES ASSUME Init, subject = "config" PROVE ConfigInv
  BY DEF ConfigInv
<1>0. input = <<>>
  BY DEF Init
<1>1. loop = [section |-> "", origin |-> "", first |-> ""]
  BY DEF Init, Begin, ConfigBegin
<1>2. ASSUME NEW remotes
      PROVE  UrlsOf(input, remotes) = {} /\ ~EndsIn(input, remotes)
  <2>1. 1 .. Len(input) = {}
    BY <1>0
  <2> QED
    BY <2>1 DEF UrlsOf, EndsIn
<1>3. \A remotes : FirstUrl(input, UrlsOf(input, remotes)) = ""
  BY <1>2 DEF FirstUrl
<1>6. input \in Seq(ConfigLines)
  BY <1>0
<1>4. ConfigTypeOK
  BY <1>1, <1>6 DEF ConfigTypeOK, Values
<1>5. \A remotes \in {{"origin"}, AnyRemote} : loop.section \notin remotes
  BY <1>1 DEF AnyRemote
<1>7. \A remotes \in {{"origin"}, AnyRemote} : EndsIn(input, remotes) <=> loop.section \in remotes
  BY <1>2, <1>5, Zenon
<1> QED
  <2>1. loop.origin = "" /\ loop.first = ""
    BY <1>1
  <2> QED
    BY <1>3, <1>4, <1>7, <2>1 DEF ConfigInv

LEMMA ConfigStep ==
    ASSUME ConfigInv, NEW line \in ConfigLines, ReadConfig(line)
    PROVE  ConfigInv'
<1>0. /\ ConfigTypeOK /\ subject = "config" /\ input' = Append(input, line)
      /\ loop' = ConfigLine(loop, line)
      /\ loop.origin = FirstUrl(input, UrlsOf(input, {"origin"}))
      /\ loop.origin = "" =>
             /\ loop.first = FirstUrl(input, UrlsOf(input, AnyRemote))
             /\ \A remotes \in {{"origin"}, AnyRemote} :
                  EndsIn(input, remotes) <=> loop.section \in remotes
  BY DEF ConfigInv, ReadConfig, Read
<1>1. line.value \in Values /\ "" \in Values
  BY DEF Values
<1>2. ConfigTypeOK'
  BY <1>0, <1>1, Grown DEF ConfigTypeOK, ConfigLine, RemoteSectionName
<1>3. \A remotes : FirstUrl(input', UrlsOf(input', remotes))
             = IF FirstUrl(input, UrlsOf(input, remotes)) = ""
                 /\ line.key = "url" /\ EndsIn(input, remotes)
               THEN line.value ELSE FirstUrl(input, UrlsOf(input, remotes))
  BY <1>0, FirstStays DEF ConfigTypeOK
<1>4. \A remotes : EndsIn(input', remotes)
             <=> IF IsHeader(line) THEN line.value \in remotes ELSE EndsIn(input, remotes)
  BY <1>0, SectionEnds DEF ConfigTypeOK
<1>5. CASE loop.origin # ""
  <2>1. loop' = loop
    BY <1>0, <1>5 DEF ConfigLine
  <2> QED
    BY <1>0, <1>2, <1>3, <1>5, <2>1 DEF ConfigInv
<1>6. CASE loop.origin = "" /\ IsHeader(line)
  <2>1. loop' = [loop EXCEPT !.section = line.value] /\ line.key # "url"
    BY <1>0, <1>6 DEF ConfigLine, RemoteSectionName, IsHeader
  <2>2. loop'.origin = loop.origin /\ loop'.first = loop.first /\ loop'.section = line.value
    BY <1>0, <2>1 DEF ConfigTypeOK
  <2> QED
    BY <1>0, <1>2, <1>3, <1>4, <1>6, <2>1, <2>2 DEF ConfigInv
<1>7. CASE loop.origin = "" /\ ~IsHeader(line)
  <2>1. /\ loop'.section = loop.section
        /\ loop'.origin = IF loop.section = "origin" /\ line.key = "url" THEN line.value ELSE ""
        /\ loop'.origin = "" => loop'.first = IF loop.section # "" /\ line.key = "url" /\ loop.first = ""
                                THEN line.value ELSE loop.first
    BY <1>0, <1>7 DEF ConfigLine, ConfigTypeOK
  <2>2. /\ EndsIn(input, {"origin"}) <=> loop.section = "origin"
        /\ EndsIn(input, AnyRemote) <=> loop.section # ""
    BY <1>0, <1>7 DEF AnyRemote, ConfigTypeOK
  <2>3. \A remotes \in {{"origin"}, AnyRemote} : EndsIn(input', remotes) <=> loop'.section \in remotes
    BY <1>0, <1>4, <1>7, <2>1
  <2>4. loop'.origin = FirstUrl(input', UrlsOf(input', {"origin"}))
    BY <1>0, <1>3, <1>7, <2>1, <2>2
  <2>5. loop'.origin = "" => loop'.first = FirstUrl(input', UrlsOf(input', AnyRemote))
    BY <1>0, <1>3, <1>7, <2>1, <2>2
  <2> QED
    BY <1>2, <2>3, <2>4, <2>5 DEF ConfigInv
<1> QED
  BY <1>5, <1>6, <1>7

(***************************************************************************)
(* The remote found is origin's first url, or else the first of any        *)
(* remote (gitctx.go, readOriginURL), in a git config of any length.       *)
(***************************************************************************)
THEOREM RemoteFound == Spec => []RemoteOfConfig
<1>1. ConfigInv /\ [Next]_vars => ConfigInv'
  <2> SUFFICES ASSUME ConfigInv, [Next]_vars PROVE ConfigInv'
    OBVIOUS
  <2>1. CASE UNCHANGED vars
    BY <2>1 DEF ConfigInv, ConfigTypeOK
  <2>2. ASSUME subject # "config" /\ UNCHANGED subject PROVE ConfigInv'
    BY <2>2 DEF ConfigInv
  <2> QED
    BY <2>1, <2>2, ConfigStep
    DEF Next, ReadBeat, ReadPnpm, ReadJson, ReadLog, CheckOut, Read
<1>2. ConfigInv => RemoteOfConfig
  <2> SUFFICES ASSUME ConfigInv, subject = "config" PROVE RemoteOfConfig
    BY DEF RemoteOfConfig
  <2> DEFINE remotes == {input[i].value : i \in {j \in 1 .. Len(input) : IsHeader(input[j])}} \ {""}
             origins == UrlsOf(input, {"origin"})
             urls == UrlsOf(input, AnyRemote)
  <2>1. /\ loop.origin = FirstUrl(input, origins)
        /\ loop.origin = "" => loop.first = FirstUrl(input, urls)
    BY DEF ConfigInv
  <2>7. input \in Seq(ConfigLines)
    BY DEF ConfigInv, ConfigTypeOK
  <2>6. Len(input) \in Nat /\ \A i \in 1 .. Len(input) : input[i] \in ConfigLines
    BY <2>7
  <2>2. UrlsOf(input, remotes) = urls
    <3>1. \A h \in 1 .. Len(input) :
            IsHeader(input[h]) => (input[h].value \in remotes <=> input[h].value \in AnyRemote)
      BY <2>6 DEF AnyRemote, Values
    <3>2. \A i \in 1 .. Len(input) : \A h \in 1 .. i - 1 : h \in 1 .. Len(input)
      BY <2>6
    <3> HIDE DEF remotes
    <3> QED
      BY <3>1, <3>2 DEF UrlsOf
  <2>3. origins # {} => FirstUrl(input, origins) # ""
    <3>1. \A i \in origins : input[i].value # ""
      BY DEF UrlsOf
    <3>5. \A i \in origins : i \in 1 .. Len(input)
      BY DEF UrlsOf
    <3>6. Len(input) \in Nat
      BY <2>6
    <3>2. \A i \in origins : i \in Nat
      BY <3>5, <3>6
    <3> HIDE DEF origins
    <3>3. origins \in SUBSET Nat
      BY <3>2
    <3>4. origins # {} => Min(origins) \in origins
      BY <3>3, MinOf
    <3> QED
      BY <3>1, <3>4 DEF FirstUrl
  <2>4. origins = {} => FirstUrl(input, origins) = ""
    BY DEF FirstUrl
  <2>5. OriginURL(loop) = FirstUrl(input, IF origins # {} THEN origins ELSE UrlsOf(input, remotes))
    BY <2>1, <2>2, <2>3, <2>4 DEF OriginURL
  <2> QED
    BY <2>5 DEF RemoteOfConfig
<1> QED
  BY ConfigInit, <1>1, <1>2, PTL DEF Spec

-----------------------------------------------------------------------------
(* Lists of what some positions hold *)

\* list holds what `of` says of the members of S, in their order.
Lists(list, S, of) ==
    /\ Len(list) = Cardinality(S)
    /\ \A i \in S : list[Cardinality({j \in S : j <= i})] = of[i]

LEMMA SameFront ==
    ASSUME NEW X, NEW list \in Seq(X), list # <<>>
    PROVE  /\ Front(list) \in Seq(X) /\ Len(list) \in Nat /\ Len(list) > 0
           /\ Len(Front(list)) = Len(list) - 1
           /\ \A k \in 1 .. Len(list) - 1 : Front(list)[k] = list[k]
           /\ Last(list) = list[Len(list)] /\ Last(list) \in X
  BY DEF Front, Last

\* Where a member stands in the list: there is room for it.
LEMMA Standing ==
    ASSUME NEW S \in SUBSET Nat, IsFiniteSet(S), NEW i \in S
    PROVE  Cardinality({j \in S : j <= i}) \in 1 .. Cardinality(S)
<1> DEFINE T == {j \in S : j <= i}
<1>1. T \subseteq S /\ i \in T
  OBVIOUS
<1>2. IsFiniteSet(T) /\ Cardinality(T) <= Cardinality(S)
  BY <1>1, FS_Subset
<1>3. Cardinality(T) # 0
  BY <1>1, <1>2, FS_EmptySet
<1>4. Cardinality(T) \in Nat /\ Cardinality(S) \in Nat
  BY <1>2, FS_CardinalityType
<1> HIDE DEF T
<1>5. Cardinality(T) \in 1 .. Cardinality(S)
  BY <1>2, <1>3, <1>4
<1> QED
  BY <1>5 DEF T

\* A member above all the others comes last.
LEMMA ListsMore ==
    ASSUME NEW X, NEW list \in Seq(X), NEW x \in X, NEW S \in SUBSET Nat, IsFiniteSet(S),
           NEW of, Lists(list, S, of), NEW k \in Nat, \A j \in S : j < k,
           NEW new, \A i \in S : new[i] = of[i], new[k] = x
    PROVE  Lists(Append(list, x), S \union {k}, new)
<1> DEFINE more == Append(list, x)
           T == S \union {k}
<1>0. /\ Len(list) \in Nat /\ Len(more) = Len(list) + 1 /\ more[Len(list) + 1] = x
      /\ \A i \in 1 .. Len(list) : more[i] = list[i]
  BY Grown
<1>1. k \notin S
  OBVIOUS
<1>2. Cardinality(T) = Cardinality(S) + 1
  BY <1>1, FS_AddElement
<1>3. Cardinality(S) = Len(list)
  BY DEF Lists
<1>4. ASSUME NEW i \in S PROVE more[Cardinality({j \in T : j <= i})] = new[i]
  <2>1. {j \in T : j <= i} = {j \in S : j <= i}
    OBVIOUS
  <2>2. Cardinality({j \in S : j <= i}) \in 1 .. Len(list)
    BY <1>3, Standing
  <2>3. list[Cardinality({j \in S : j <= i})] = of[i]
    BY DEF Lists
  <2> QED
    BY <1>0, <2>1, <2>2, <2>3
<1>5. more[Cardinality({j \in T : j <= k})] = new[k]
  <2>1. {j \in T : j <= k} = T
    <3>1. \A j \in T : j <= k
      OBVIOUS
    <3> QED
      BY <3>1, Zenon
  <2> QED
    BY <1>0, <1>2, <1>3, <2>1
<1>6. Len(more) = Cardinality(T)
  BY <1>0, <1>2, <1>3
<1>7. \A i \in T : more[Cardinality({j \in T : j <= i})] = new[i]
  BY <1>4, <1>5
<1> QED
  BY <1>6, <1>7 DEF Lists

\* The greatest member is the last of the list.
LEMMA ListsLast ==
    ASSUME NEW X, NEW list \in Seq(X), NEW S \in SUBSET Nat, IsFiniteSet(S),
           NEW of, Lists(list, S, of), NEW k \in S, \A j \in S : j <= k
    PROVE  Last(list) = of[k]
<1>1. {j \in S : j <= k} = S
  BY Zenon
<1>2. list[Cardinality({j \in S : j <= k})] = of[k] /\ Len(list) = Cardinality(S)
  BY DEF Lists
<1> QED
  BY <1>1, <1>2 DEF Last

\* Without it the list is without its last.
LEMMA ListsLess ==
    ASSUME NEW X, NEW list \in Seq(X), NEW S \in SUBSET Nat, IsFiniteSet(S),
           NEW of, Lists(list, S, of), NEW k \in S, \A j \in S : j <= k
    PROVE  /\ Lists(Front(list), S \ {k}, of)
           /\ list # <<>>
           /\ IsFiniteSet(S \ {k}) /\ \A j \in S \ {k} : j < k
<1> DEFINE T == S \ {k}
<1>1. IsFiniteSet(T) /\ Cardinality(T) = Cardinality(S) - 1
  BY FS_RemoveElement
<1>2. Cardinality(S) = Len(list)
  BY DEF Lists
<1>3. Cardinality(S) # 0
  BY FS_EmptySet
<1>4. list # <<>>
  BY <1>2, <1>3
<1>5. /\ Len(Front(list)) = Len(list) - 1
      /\ \A i \in 1 .. Len(list) - 1 : Front(list)[i] = list[i]
      /\ Last(list) = list[Len(list)]
  BY <1>4, SameFront
<1>6. ASSUME NEW i \in T PROVE Front(list)[Cardinality({j \in T : j <= i})] = of[i]
  <2>1. {j \in T : j <= i} = {j \in S : j <= i}
    OBVIOUS
  <2>2. Cardinality({j \in T : j <= i}) \in 1 .. Len(list) - 1
    BY <1>1, <1>2, Standing
  <2>3. list[Cardinality({j \in S : j <= i})] = of[i]
    BY DEF Lists
  <2> QED
    BY <1>5, <2>1, <2>2, <2>3
<1>8. Len(Front(list)) = Cardinality(T)
  BY <1>1, <1>2, <1>5
<1>9. \A j \in T : j < k
  OBVIOUS
<1>10. Lists(Front(list), T, of)
  BY <1>6, <1>8 DEF Lists
<1> QED
  BY <1>1, <1>4, <1>9, <1>10

-----------------------------------------------------------------------------
(* dedupBeats *)

Survivors == {i \in 1 .. Len(input) : Survives(input, i)}

BatchTypeOK == input \in Seq(Beats) /\ loop \in Seq(Beats)

\* What was read last is kept, for now.
KeptInv ==
    subject = "batch" =>
        /\ BatchTypeOK
        /\ Lists(loop, Survivors, input)

LEMMA SurvivorsType ==
    ASSUME input \in Seq(Beats)
    PROVE  /\ Survivors \in SUBSET Nat /\ IsFiniteSet(Survivors) /\ Len(input) \in Nat
           /\ \A i \in Survivors : i \in 1 .. Len(input)
           /\ input # <<>> => Len(input) \in Survivors
<1>1. Len(input) \in Nat
  OBVIOUS
<1>2. Survivors \subseteq 1 .. Len(input)
  BY DEF Survivors
<1>3. IsFiniteSet(1 .. Len(input))
  BY <1>1, FS_Interval
<1>4. IsFiniteSet(Survivors)
  BY <1>2, <1>3, FS_Subset
<1>5. \A i \in 1 .. Len(input) : i \in Nat
  BY <1>1
<1>6. input # <<>> => Len(input) \in 1 .. Len(input)
  BY <1>1
<1> QED
  BY <1>1, <1>2, <1>4, <1>5, <1>6 DEF Survivors, Survives

\* A beat ends its run, or takes the place of the one before it.
LEMMA SurvivorsStep ==
    ASSUME BatchTypeOK, NEW b \in Beats, input' = Append(input, b)
    PROVE  Survivors' = (Survivors \ {i \in {Len(input)} : input # <<>> /\ IsDup(input[i], b)})
                          \union {Len(input) + 1}
<1>1. /\ Len(input) \in Nat /\ Len(input') = Len(input) + 1 /\ input'[Len(input) + 1] = b
      /\ \A i \in 1 .. Len(input) : input'[i] = input[i]
  BY Grown DEF BatchTypeOK
<1>2. ASSUME NEW i \in 1 .. Len(input) - 1 PROVE i \in Survivors' <=> i \in Survivors
  <2>1. /\ i \in 1 .. Len(input) /\ i + 1 \in 1 .. Len(input) /\ i \in 1 .. Len(input')
        /\ i # Len(input) /\ i # Len(input')
    BY <1>1
  <2>2. input'[i] = input[i] /\ input'[i + 1] = input[i + 1]
    BY <1>1, <2>1
  <2> QED
    BY <2>1, <2>2 DEF Survivors, Survives
<1>3. ASSUME input # <<>>
      PROVE  /\ Len(input) \in Survivors
             /\ Len(input) \in Survivors' <=> ~IsDup(input[Len(input)], b)
  <2>1. Len(input) \in 1 .. Len(input) /\ Len(input) \in 1 .. Len(input') /\ Len(input) # Len(input')
    BY <1>1, <1>3 DEF BatchTypeOK
  <2>2. input'[Len(input)] = input[Len(input)]
    BY <1>1, <2>1
  <2> QED
    BY <1>1, <2>1, <2>2 DEF Survivors, Survives
<1>4. Len(input) + 1 \in Survivors'
  <2>1. Len(input) + 1 \in 1 .. Len(input')
    BY <1>1
  <2> QED
    BY <1>1, <2>1 DEF Survivors, Survives
<1>5. /\ \A i \in Survivors' : i \in 1 .. Len(input) - 1 \/ i = Len(input) + 1
                                \/ (i = Len(input) /\ input # <<>>)
      /\ \A i \in Survivors : i \in 1 .. Len(input) - 1 \/ (i = Len(input) /\ input # <<>>)
  <2>1. input = <<>> => Len(input) = 0
    OBVIOUS
  <2>2. /\ \A i \in 1 .. Len(input') : i \in 1 .. Len(input) - 1 \/ i = Len(input) + 1 \/ (i = Len(input) /\ Len(input) # 0)
        /\ \A i \in 1 .. Len(input) : i \in 1 .. Len(input) - 1 \/ (i = Len(input) /\ Len(input) # 0)
    BY <1>1
  <2> QED
    BY <2>1, <2>2 DEF Survivors
<1>6. Len(input) # Len(input) + 1 /\ Len(input) \notin 1 .. Len(input) - 1
  BY <1>1
<1> QED
  BY <1>2, <1>3, <1>4, <1>5, <1>6

\* What was read last is the last of the list.
LEMMA KeptLast ==
    ASSUME KeptInv, subject = "batch"
    PROVE  /\ loop = <<>> <=> input = <<>>
           /\ input # <<>> =>
                /\ Lists(Front(loop), Survivors \ {Len(input)}, input) /\ loop # <<>>
                /\ IsFiniteSet(Survivors \ {Len(input)}) /\ Last(loop) = input[Len(input)]
<1> DEFINE n == Len(input)
<1>0. BatchTypeOK /\ Lists(loop, Survivors, input)
  BY DEF KeptInv
<1>2. /\ Survivors \in SUBSET Nat /\ IsFiniteSet(Survivors) /\ n \in Nat
      /\ \A i \in Survivors : i \in 1 .. n
      /\ input # <<>> => n \in Survivors
  BY <1>0, SurvivorsType DEF BatchTypeOK
<1>4. \A i \in Survivors : i <= n
  BY <1>2
<1> HIDE DEF n
<1>5. loop = <<>> <=> input = <<>>
  <2>1. loop = <<>> <=> Cardinality(Survivors) = 0
    BY <1>0 DEF Lists, BatchTypeOK
  <2>2. Cardinality(Survivors) = 0 <=> Survivors = {}
    BY <1>2, FS_EmptySet
  <2>3. input = <<>> => Survivors = {}
    BY DEF Survivors
  <2> QED
    BY <1>2, <2>1, <2>2, <2>3
<1>8. ASSUME n \in Survivors
      PROVE  /\ Lists(Front(loop), Survivors \ {n}, input) /\ loop # <<>>
             /\ IsFiniteSet(Survivors \ {n}) /\ Last(loop) = input[n]
  <2>1. loop \in Seq(Beats) /\ Lists(loop, Survivors, input)
    BY <1>0 DEF BatchTypeOK
  <2>2. \A i \in Survivors : i <= n
    BY <1>4
  <2>3. Survivors \in SUBSET Nat /\ IsFiniteSet(Survivors)
    BY <1>2
  <2>4. Last(loop) = input[n]
    BY <1>8, <2>1, <2>2, <2>3, ListsLast
  <2>5. /\ Lists(Front(loop), Survivors \ {n}, input) /\ loop # <<>>
        /\ IsFiniteSet(Survivors \ {n})
    BY <1>8, <2>1, <2>2, <2>3, ListsLess
  <2> QED
    BY <2>4, <2>5
<1> QED
  BY <1>2, <1>5, <1>8 DEF n

LEMMA KeptStep ==
    ASSUME KeptInv, NEW b \in Beats, ReadBeat(b)
    PROVE  KeptInv'
<1>0. /\ BatchTypeOK /\ Lists(loop, Survivors, input) /\ subject' = subject
      /\ input' = Append(input, b) /\ loop' = Keep(loop, b)
  BY DEF KeptInv, ReadBeat, Read
<1> DEFINE n == Len(input)
           gone == {i \in {n} : input # <<>> /\ IsDup(input[i], b)}
<1>1. /\ n \in Nat /\ input' \in Seq(Beats) /\ input'[n + 1] = b
      /\ \A i \in 1 .. n : input'[i] = input[i]
  BY <1>0, Grown DEF BatchTypeOK
<1>2. /\ Survivors \in SUBSET Nat /\ IsFiniteSet(Survivors)
      /\ \A i \in Survivors : i \in 1 .. n
      /\ input # <<>> => n \in Survivors
  BY <1>0, SurvivorsType DEF BatchTypeOK
<1>3. Survivors' = (Survivors \ gone) \union {n + 1}
  BY <1>0, SurvivorsStep
<1>4. \A i \in Survivors : i <= n /\ i < n + 1 /\ input'[i] = input[i]
  BY <1>1, <1>2
<1> HIDE DEF n
<1>5. /\ loop = <<>> <=> input = <<>>
      /\ input # <<>> => /\ Lists(Front(loop), Survivors \ {n}, input) /\ loop # <<>>
                         /\ IsFiniteSet(Survivors \ {n}) /\ Last(loop) = input[n]
  BY KeptLast DEF KeptInv, ReadBeat, n
<1>6. CASE gone = {}
  <2>1. loop' = Append(loop, b)
    <3>1. ASSUME loop # <<>> PROVE Last(loop) = input[n]
      BY <1>5, <3>1
    <3> QED
      BY <1>0, <1>5, <1>6, <3>1 DEF Keep
  <2>2. Survivors' = Survivors \union {n + 1}
    BY <1>3, <1>6
  <2>5. loop \in Seq(Beats) /\ Lists(loop, Survivors, input)
    BY <1>0 DEF BatchTypeOK
  <2>6. /\ n + 1 \in Nat /\ input'[n + 1] = b
        /\ \A i \in Survivors : i < n + 1
        /\ \A i \in Survivors : input'[i] = input[i]
    BY <1>1, <1>4
  <2>7. Survivors \in SUBSET Nat /\ IsFiniteSet(Survivors)
    BY <1>2
  <2>3. Lists(loop', Survivors', input')
    BY <2>1, <2>2, <2>5, <2>6, <2>7, ListsMore
  <2>4. loop' \in Seq(Beats)
    BY <1>0, <2>1, Grown DEF BatchTypeOK
  <2> QED
    BY <1>1, <2>3, <2>4 DEF KeptInv, BatchTypeOK
<1>7. CASE gone # {}
  <2>1. gone = {n} /\ input # <<>> /\ IsDup(input[n], b) /\ n \in Survivors
    BY <1>2, <1>7
  <2> HIDE DEF gone
  <2>2. /\ Lists(Front(loop), Survivors \ {n}, input) /\ loop # <<>> /\ Last(loop) = input[n]
        /\ IsFiniteSet(Survivors \ {n})
    BY <1>5, <2>1
  <2>3. loop' = Append(Front(loop), b)
    BY <1>0, <2>1, <2>2 DEF Keep
  <2>4. Front(loop) \in Seq(Beats)
    BY <1>0, <2>2, SameFront DEF BatchTypeOK
  <2>5. Survivors \ {n} \in SUBSET Nat /\ \A i \in Survivors \ {n} : i < n + 1 /\ input'[i] = input[i]
    BY <1>2, <1>4
  <2>8. n + 1 \in Nat /\ input'[n + 1] = b
    BY <1>1
  <2>9. Survivors' = (Survivors \ {n}) \union {n + 1}
    BY <1>3, <2>1
  <2>6. Lists(loop', Survivors', input')
    BY <2>2, <2>3, <2>4, <2>5, <2>8, <2>9, ListsMore
  <2>7. loop' \in Seq(Beats)
    BY <2>3, <2>4, Grown
  <2> QED
    BY <1>1, <2>6, <2>7 DEF KeptInv, BatchTypeOK
<1> QED
  BY <1>6, <1>7

LEMMA KeptHolds == Spec => []KeptInv
<1>1. Init => KeptInv
  <2> SUFFICES ASSUME Init, subject = "batch" PROVE KeptInv
    BY DEF KeptInv
  <2>1. input = <<>> /\ loop = <<>>
    BY DEF Init, Begin
  <2>2. Survivors = {}
    <3>1. 1 .. Len(input) = {}
      BY <2>1
    <3> QED
      BY <3>1 DEF Survivors
  <2>3. Lists(loop, Survivors, input)
    BY <2>1, <2>2, FS_EmptySet DEF Lists
  <2>4. BatchTypeOK
    BY <2>1 DEF BatchTypeOK
  <2> QED
    BY <2>3, <2>4 DEF KeptInv
<1>2. KeptInv /\ [Next]_vars => KeptInv'
  <2> SUFFICES ASSUME KeptInv, [Next]_vars PROVE KeptInv'
    OBVIOUS
  <2>1. CASE UNCHANGED vars
    BY <2>1 DEF KeptInv, BatchTypeOK, Lists, Survivors, Survives
  <2>2. ASSUME subject # "batch" /\ UNCHANGED subject PROVE KeptInv'
    BY <2>2 DEF KeptInv
  <2> QED
    BY <2>1, <2>2, KeptStep
    DEF Next, ReadPnpm, ReadJson, ReadConfig, ReadLog, CheckOut, Read
<1> QED
  BY <1>1, <1>2, PTL DEF Spec

(***************************************************************************)
(* Comparing with the last beat kept is comparing with the beat before     *)
(* (common.go, dedupBeats), in a batch of any length.                      *)
(***************************************************************************)
THEOREM KeptSurvive == Spec => []KeptAreSurvivors
<1>1. KeptInv => KeptAreSurvivors
  BY DEF KeptInv, KeptAreSurvivors, Lists, Survivors
<1> QED
  BY KeptHolds, <1>1, PTL

\* What stands for a beat of a sorted batch, and how far from it.
StandsFor(k, i) ==
    /\ loop[k].key = input[i].key
    /\ loop[k].time >= input[i].time
    /\ loop[k].time <= input[i].time + DedupWindow * (Len(input) - i)

NewestInv ==
    subject = "batch" /\ SortedByTime(input) =>
        /\ \A i \in 1 .. Len(input) : \E k \in 1 .. Len(loop) : StandsFor(k, i)
        /\ \A k \in 1 .. Len(loop) - 1 : ~IsDup(loop[k], loop[k + 1])
        /\ SortedByTime(loop)

LEMMA TimeType ==
    ASSUME NEW b \in Beats
    PROVE  b.time \in Int
  BY BeatsAssumption DEF BeatType

\* A window more for each beat in between.
LEMMA WindowsMore ==
    ASSUME NEW m \in Nat
    PROVE  /\ DedupWindow * m \in Nat /\ DedupWindow * 0 = 0
           /\ DedupWindow * (m + 1) = DedupWindow * m + DedupWindow
<1> DEFINE w == DedupWindow
<1>1. w \in Nat
  BY WindowAssumption
<1> HIDE DEF w
<1>2. w * m \in Nat /\ w * 0 = 0 /\ w * (m + 1) = w * m + w
  BY <1>1
<1> QED
  BY <1>2 DEF w

\* Of a duplicate that comes later in a sorted batch.
LEMMA LaterDup ==
    ASSUME NEW a \in Beats, NEW b \in Beats, IsDup(a, b), a.time <= b.time
    PROVE  a.key = b.key /\ b.time <= a.time + DedupWindow
  BY TimeType, WindowAssumption DEF IsDup, Gap

LEMMA LaterApart ==
    ASSUME NEW a \in Beats, NEW b \in Beats, NEW c \in Beats,
           ~IsDup(a, b), a.time <= b.time, b.time <= c.time, b.key = c.key
    PROVE  ~IsDup(a, c)
  BY TimeType, WindowAssumption DEF IsDup, Gap

LEMMA NewestStep ==
    ASSUME KeptInv, KeptInv', NewestInv, NEW b \in Beats, ReadBeat(b)
    PROVE  NewestInv'
<1> DEFINE Stands(k, i) ==
             /\ loop'[k].key = input'[i].key
             /\ loop'[k].time >= input'[i].time
             /\ loop'[k].time <= input'[i].time + DedupWindow * (Len(input') - i)
<1> SUFFICES ASSUME SortedByTime(input')
             PROVE  /\ \A i \in 1 .. Len(input') : \E k \in 1 .. Len(loop') : Stands(k, i)
                    /\ \A k \in 1 .. Len(loop') - 1 : ~IsDup(loop'[k], loop'[k + 1])
                    /\ SortedByTime(loop')
  BY DEF NewestInv, StandsFor
<1> DEFINE n == Len(input)
           kept == Len(loop)
<1>0. /\ subject = "batch" /\ input \in Seq(Beats) /\ loop \in Seq(Beats)
      /\ input' = Append(input, b) /\ loop' = Keep(loop, b)
  BY DEF KeptInv, ReadBeat, Read, BatchTypeOK
<1>1. /\ n \in Nat /\ Len(input') = n + 1 /\ input'[n + 1] = b
      /\ \A i \in 1 .. n : input'[i] = input[i] /\ input[i] \in Beats
  BY <1>0, Grown
<1>2. kept \in Nat /\ \A k \in 1 .. kept : loop[k] \in Beats
  BY <1>0
<1>3. /\ kept = 0 <=> n = 0
      /\ n > 0 => loop # <<>> /\ loop[kept] = input[n] /\ Last(loop) = input[n] /\ n \in 1 .. n /\ kept \in 1 .. kept
  BY <1>0, <1>1, <1>2, KeptLast DEF Last
<1>4. SortedByTime(input)
  <2>1. ASSUME NEW i \in 1 .. n - 1 PROVE input[i].time <= input[i + 1].time
    <3>1. i \in 1 .. Len(input') - 1 /\ i \in 1 .. n /\ i + 1 \in 1 .. n
      BY <1>1
    <3>2. input'[i].time <= input'[i + 1].time
      BY <3>1 DEF SortedByTime
    <3> QED
      BY <1>1, <3>1, <3>2
  <2> QED
    BY <2>1 DEF SortedByTime
<1>5. n > 0 => input[n].time <= b.time
  <2> SUFFICES ASSUME n > 0 PROVE input[n].time <= b.time
    OBVIOUS
  <2>1. n \in 1 .. Len(input') - 1 /\ n \in 1 .. n
    BY <1>1
  <2>2. input'[n].time <= input'[n + 1].time
    BY <2>1 DEF SortedByTime
  <2> QED
    BY <1>1, <2>1, <2>2
<1>6. /\ \A i \in 1 .. n : \E k \in 1 .. kept : StandsFor(k, i)
      /\ \A k \in 1 .. kept - 1 : ~IsDup(loop[k], loop[k + 1])
      /\ \A k \in 1 .. kept - 1 : loop[k].time <= loop[k + 1].time
  BY <1>0, <1>4 DEF NewestInv, SortedByTime
<1> HIDE DEF n, kept
<1>7. CASE loop' = Append(loop, b) /\ (n > 0 => ~IsDup(loop[kept], b))
  <2>1. /\ Len(loop') = kept + 1 /\ loop'[kept + 1] = b
        /\ \A k \in 1 .. kept : loop'[k] = loop[k]
    BY <1>0, <1>7, Grown DEF kept
  <2>2. ASSUME NEW i \in 1 .. n PROVE \E k \in 1 .. Len(loop') : Stands(k, i)
    <3>1. PICK k \in 1 .. kept : StandsFor(k, i)
      BY <1>6
    <3>2. k \in 1 .. Len(loop') /\ loop'[k] = loop[k] /\ input'[i] = input[i]
      BY <1>1, <1>2, <2>1
    <3>3. /\ loop[k].time \in Int /\ input[i].time \in Int
          /\ Len(input) - i \in Nat /\ Len(input') - i = (Len(input) - i) + 1
      BY <1>1, <1>2, TimeType DEF n
    <3>4. /\ DedupWindow * (Len(input) - i) \in Nat /\ DedupWindow \in Nat
          /\ DedupWindow * (Len(input') - i) = DedupWindow * (Len(input) - i) + DedupWindow
      BY <3>3, WindowsMore, WindowAssumption
    <3>5. Stands(k, i)
      BY <3>1, <3>2, <3>3, <3>4 DEF StandsFor
    <3> QED
      BY <3>2, <3>5
  <2>3. \E k \in 1 .. Len(loop') : Stands(k, n + 1)
    <3>1. kept + 1 \in 1 .. Len(loop')
      BY <1>2, <2>1
    <3>2. b.time \in Int /\ Len(input') - (n + 1) = 0 /\ DedupWindow * 0 = 0
      BY <1>1, TimeType, WindowsMore
    <3>3. Stands(kept + 1, n + 1)
      BY <1>1, <2>1, <3>2 DEF StandsFor
    <3> QED
      BY <3>1, <3>3
  <2>4. ASSUME NEW k \in 1 .. kept
        PROVE  ~IsDup(loop'[k], loop'[k + 1]) /\ loop'[k].time <= loop'[k + 1].time
    <3>1. CASE k = kept
      BY <1>1, <1>2, <1>3, <1>5, <1>7, <2>1, <3>1
    <3>2. CASE k # kept
      <4>1. k \in 1 .. kept - 1 /\ k + 1 \in 1 .. kept
        BY <1>2, <3>2
      <4> QED
        BY <1>6, <2>1, <4>1
    <3> QED
      BY <3>1, <3>2
  <2>5. 1 .. Len(input') = (1 .. n) \union {n + 1} /\ 1 .. Len(loop') - 1 = 1 .. kept
    BY <1>1, <1>2, <2>1
  <2> QED
    BY <2>2, <2>3, <2>4, <2>5 DEF SortedByTime
<1>8. CASE loop' = Append(Front(loop), b) /\ n > 0 /\ IsDup(loop[kept], b)
  <2>0. kept \in 1 .. kept /\ kept - 1 \in Nat
    BY <1>2, <1>3, <1>8
  <2>1. /\ Len(loop') = kept /\ loop'[kept] = b
        /\ \A k \in 1 .. kept - 1 : loop'[k] = loop[k]
    <3>1. /\ Front(loop) \in Seq(Beats) /\ Len(Front(loop)) = kept - 1
          /\ \A k \in 1 .. kept - 1 : Front(loop)[k] = loop[k]
      BY <1>0, <1>3, <1>8, SameFront DEF kept
    <3>2. /\ Len(loop') = (kept - 1) + 1 /\ loop'[(kept - 1) + 1] = b
          /\ \A k \in 1 .. kept - 1 : loop'[k] = Front(loop)[k]
      BY <1>8, <3>1, Grown
    <3>3. (kept - 1) + 1 = kept
      BY <1>2
    <3> QED
      BY <3>1, <3>2, <3>3
  <2>2. loop[kept].key = b.key /\ loop[kept].time <= b.time /\ b.time <= loop[kept].time + DedupWindow
    BY <1>2, <1>3, <1>5, <1>8, <2>0, LaterDup
  <2>3. ASSUME NEW i \in 1 .. n PROVE \E k \in 1 .. Len(loop') : Stands(k, i)
    <3>1. PICK k \in 1 .. kept : StandsFor(k, i)
      BY <1>6
    <3>2. k \in 1 .. Len(loop') /\ input'[i] = input[i]
      BY <1>1, <2>1
    <3>3. /\ loop[k].time \in Int /\ input[i].time \in Int /\ loop[kept].time \in Int /\ b.time \in Int
          /\ Len(input) - i \in Nat /\ Len(input') - i = (Len(input) - i) + 1
      BY <1>1, <1>2, <2>0, TimeType DEF n
    <3>4. /\ DedupWindow * (Len(input) - i) \in Nat /\ DedupWindow \in Nat
          /\ DedupWindow * (Len(input') - i) = DedupWindow * (Len(input) - i) + DedupWindow
      BY <3>3, WindowsMore, WindowAssumption
    <3>5. /\ loop'[k].key = loop[k].key
          /\ loop[k].time <= loop'[k].time /\ loop'[k].time <= loop[k].time + DedupWindow
          /\ loop'[k].time \in Int
      <4>1. CASE k = kept
        BY <2>1, <2>2, <3>3, <4>1
      <4>2. CASE k # kept
        <5>1. loop'[k] = loop[k]
          BY <1>2, <2>1, <4>2
        <5>2. loop'[k].time = loop[k].time /\ loop'[k].key = loop[k].key
          BY <5>1
        <5> QED
          BY <3>3, <3>4, <5>2
      <4> QED
        BY <4>1, <4>2
    <3>6. /\ loop[k].key = input[i].key /\ loop[k].time >= input[i].time
          /\ loop[k].time <= input[i].time + DedupWindow * (Len(input) - i)
      BY <3>1 DEF StandsFor
    <3>7. loop'[k].time >= input[i].time
      BY <3>3, <3>5, <3>6
    <3>8. loop'[k].time <= input[i].time + (DedupWindow * (Len(input) - i) + DedupWindow)
      <4> DEFINE room == DedupWindow * (Len(input) - i)
      <4>1. room \in Nat /\ DedupWindow \in Nat
        BY <3>4
      <4>2. loop[k].time <= input[i].time + room /\ loop'[k].time <= loop[k].time + DedupWindow
        BY <3>5, <3>6
      <4>3. loop[k].time \in Int /\ input[i].time \in Int /\ loop'[k].time \in Int
        BY <3>3, <3>5
      <4> HIDE DEF room
      <4>4. loop'[k].time <= input[i].time + (room + DedupWindow)
        BY <4>1, <4>2, <4>3
      <4> QED
        BY <4>4 DEF room
    <3>9. Stands(k, i)
      BY <3>2, <3>4, <3>5, <3>6, <3>7, <3>8 DEF StandsFor
    <3> QED
      BY <3>2, <3>9
  <2>4. \E k \in 1 .. Len(loop') : Stands(k, n + 1)
    <3>1. kept \in 1 .. Len(loop')
      BY <2>0, <2>1
    <3>2. b.time \in Int /\ Len(input') - (n + 1) = 0 /\ DedupWindow * 0 = 0
      BY <1>1, TimeType, WindowsMore
    <3>3. Stands(kept, n + 1)
      BY <1>1, <2>1, <3>2 DEF StandsFor
    <3> QED
      BY <3>1, <3>3
  <2>5. ASSUME NEW k \in 1 .. kept - 1
        PROVE  ~IsDup(loop'[k], loop'[k + 1]) /\ loop'[k].time <= loop'[k + 1].time
    <3>0. /\ k \in 1 .. kept /\ k + 1 \in 1 .. kept /\ loop'[k] = loop[k]
          /\ ~IsDup(loop[k], loop[k + 1]) /\ loop[k].time <= loop[k + 1].time
      BY <1>2, <1>6, <2>1
    <3>1. CASE k + 1 = kept
      <4>1. /\ loop[k] \in Beats /\ loop[kept] \in Beats /\ loop'[k + 1] = b
            /\ ~IsDup(loop[k], loop[kept]) /\ loop[k].time <= loop[kept].time
        BY <1>2, <2>0, <2>1, <3>0, <3>1
      <4>2. loop[k].time \in Int /\ loop[kept].time \in Int /\ b.time \in Int
        BY <4>1, TimeType
      <4>3. ~IsDup(loop[k], b)
        BY <2>2, <4>1, LaterApart
      <4>4. loop[k].time <= b.time
        BY <2>2, <4>1, <4>2
      <4> QED
        BY <3>0, <4>1, <4>3, <4>4
    <3>2. CASE k + 1 # kept
      <4>1. k + 1 \in 1 .. kept - 1
        BY <1>2, <3>2
      <4> QED
        BY <2>1, <3>0, <4>1
    <3> QED
      BY <3>1, <3>2
  <2>6. 1 .. Len(input') = (1 .. n) \union {n + 1} /\ Len(loop') - 1 = kept - 1
    BY <1>1, <1>2, <2>1
  <2> QED
    BY <2>3, <2>4, <2>5, <2>6 DEF SortedByTime
<1>9. Keep(loop, b) = IF loop # <<>> /\ IsDup(Last(loop), b)
                      THEN Append(Front(loop), b) ELSE Append(loop, b)
  BY DEF Keep
<1>10. (loop # <<>> <=> n > 0) /\ (n > 0 => Last(loop) = loop[kept])
  BY <1>0, <1>1, <1>3 DEF n, kept
<1> QED
  BY <1>0, <1>7, <1>8, <1>9, <1>10

(***************************************************************************)
(* Of a sorted batch of any length, each beat is stood for by a kept one   *)
(* of its file that is not older, a window further away at most for each   *)
(* beat in between, and no two kept beats in a row are duplicates          *)
(* (common.go: "keeps the newest of each run").                            *)
(***************************************************************************)
THEOREM NewestStays == Spec => []NewestOfEachRun
<1>1. Init => NewestInv
  <2> SUFFICES ASSUME Init, subject = "batch" PROVE NewestInv
    BY DEF NewestInv
  <2>1. input = <<>> /\ loop = <<>>
    BY DEF Init, Begin
  <2>2. 1 .. Len(input) = {} /\ 1 .. Len(loop) - 1 = {}
    BY <2>1
  <2> QED
    BY <2>2 DEF NewestInv, SortedByTime
<1>2. KeptInv /\ KeptInv' /\ NewestInv /\ [Next]_vars => NewestInv'
  <2> SUFFICES ASSUME KeptInv, KeptInv', NewestInv, [Next]_vars PROVE NewestInv'
    OBVIOUS
  <2>1. CASE UNCHANGED vars
    BY <2>1 DEF NewestInv, StandsFor, SortedByTime
  <2>2. ASSUME subject # "batch" /\ UNCHANGED subject PROVE NewestInv'
    BY <2>2 DEF NewestInv
  <2> QED
    BY <2>1, <2>2, NewestStep
    DEF Next, ReadPnpm, ReadJson, ReadConfig, ReadLog, CheckOut, Read
<1>3. NewestInv => NewestOfEachRun
  BY DEF NewestInv, NewestOfEachRun, StandsFor
<1> QED
  BY KeptHolds, <1>1, <1>2, <1>3, PTL DEF Spec

-----------------------------------------------------------------------------
(* pnpmLookup *)

\* The lines of a level up to a line, and the last of them: the line of that
\* level that encloses it, or it itself.
Level(lines, i, d) == {j \in 1 .. i : lines[j].indent = 2 * d}
Enclosing(lines, i, d) == lines[Max(Level(lines, i, d))]
LastOf(lines, d) == Enclosing(lines, Len(lines), d)

\* Every line has lines of all the levels above its own before it.
Nested(lines) ==
    \A i \in 1 .. Len(lines) : \A d \in Nat :
        2 * d <= lines[i].indent => Level(lines, i, d) # {}

\* What the loop knows of the lines that enclose the next one.
Flags(lines, s) ==
    LET k == lines[Len(lines)].indent
    IN /\ s.inImporters <=> LastOf(lines, 0).key = "importers" /\ LastOf(lines, 0).value = ""
       /\ s.inImporters /\ k >= 2 => s.importer = Importer(LastOf(lines, 1).key)
       /\ s.inDeps <=> s.inImporters /\ k >= 4 /\ LastOf(lines, 2).key \in DepBlocks
       /\ s.inDeps /\ k >= 6 => s.entry = LastOf(lines, 3).key
       /\ k > 0 => LastOf(lines, 0).value = ""

PnpmFields(s) == DOMAIN s = {"inImporters", "importer", "inDeps", "entry", "versions"}

\* Of a level that has lines, one encloses.
LEMMA Encloses ==
    ASSUME NEW lines \in Seq(PnpmLines), NEW i \in 0 .. Len(lines), NEW d, Level(lines, i, d) # {}
    PROVE  Max(Level(lines, i, d)) \in Level(lines, i, d)
           /\ \A j \in Level(lines, i, d) : j <= Max(Level(lines, i, d))
<1>1. i \in Nat /\ Level(lines, i, d) \in SUBSET (1 .. i)
  BY DEF Level
<1> QED
  BY <1>1, MaxOf

\* What encloses a line does not change with the lines that follow.
LEMMA EnclosingStays ==
    ASSUME NEW lines \in Seq(PnpmLines), NEW line \in PnpmLines, NEW i \in 0 .. Len(lines), NEW d
    PROVE  /\ Level(Append(lines, line), i, d) = Level(lines, i, d)
           /\ Level(lines, i, d) # {} =>
                /\ Enclosing(Append(lines, line), i, d) = Enclosing(lines, i, d)
                /\ Enclosing(lines, i, d) \in PnpmLines
<1> DEFINE more == Append(lines, line)
<1>0. /\ Len(lines) \in Nat
      /\ \A j \in 1 .. Len(lines) : more[j] = lines[j] /\ lines[j] \in PnpmLines
  BY Grown
<1> HIDE DEF more
<1>1. \A j \in 1 .. i : j \in 1 .. Len(lines) /\ more[j] = lines[j] /\ lines[j] \in PnpmLines
  BY <1>0
<1>2. Level(more, i, d) = Level(lines, i, d)
  BY <1>1 DEF Level
<1>3. ASSUME Level(lines, i, d) # {}
      PROVE  Enclosing(more, i, d) = Enclosing(lines, i, d) /\ Enclosing(lines, i, d) \in PnpmLines
  <2>1. Max(Level(lines, i, d)) \in 1 .. i
    BY <1>3, Encloses DEF Level
  <2> QED
    BY <1>1, <1>2, <2>1 DEF Enclosing
<1> QED
  BY <1>2, <1>3 DEF more

\* A line that is added is the last of its level, and of the others the last stays.
LEMMA LastGrows ==
    ASSUME NEW lines \in Seq(PnpmLines), NEW line \in PnpmLines, NEW d \in Nat
    PROVE  /\ line.indent = 2 * d =>
                /\ Level(Append(lines, line), Len(lines) + 1, d) # {}
                /\ LastOf(Append(lines, line), d) = line
           /\ line.indent # 2 * d /\ Level(lines, Len(lines), d) # {} =>
                /\ Level(Append(lines, line), Len(lines) + 1, d) # {}
                /\ LastOf(Append(lines, line), d) = LastOf(lines, d)
                /\ LastOf(lines, d) \in PnpmLines
<1> DEFINE more == Append(lines, line)
           n == Len(lines)
<1>0. /\ n \in Nat /\ Len(more) = n + 1 /\ more[n + 1] = line /\ n \in 0 .. n /\ more \in Seq(PnpmLines)
      /\ n + 1 \in 0 .. Len(more)
  BY Grown
<1>1. /\ Level(more, n, d) = Level(lines, n, d)
      /\ Level(lines, n, d) # {} => /\ Enclosing(more, n, d) = Enclosing(lines, n, d)
                                    /\ Enclosing(lines, n, d) \in PnpmLines
  BY <1>0, EnclosingStays
<1> HIDE DEF more, n
<1>2. Level(more, n + 1, d) = Level(more, n, d) \union (IF line.indent = 2 * d THEN {n + 1} ELSE {})
  <2>1. 1 .. n + 1 = (1 .. n) \union {n + 1}
    BY <1>0
  <2> QED
    BY <1>0, <2>1 DEF Level
<1>3. ASSUME line.indent = 2 * d
      PROVE  Level(more, n + 1, d) # {} /\ LastOf(more, d) = line
  <2>1. n + 1 \in Level(more, n + 1, d)
    BY <1>2, <1>3
  <2>2. Max(Level(more, n + 1, d)) \in 1 .. n + 1 /\ n + 1 <= Max(Level(more, n + 1, d))
    <3>1. Max(Level(more, n + 1, d)) \in Level(more, n + 1, d) /\ n + 1 <= Max(Level(more, n + 1, d))
      BY <1>0, <2>1, Encloses
    <3> QED
      BY <3>1 DEF Level
  <2>3. Max(Level(more, n + 1, d)) = n + 1
    BY <1>0, <2>2
  <2> QED
    BY <1>0, <2>1, <2>3 DEF Enclosing, LastOf
<1>4. ASSUME line.indent # 2 * d, Level(lines, n, d) # {}
      PROVE  /\ Level(more, n + 1, d) # {} /\ LastOf(more, d) = LastOf(lines, d)
             /\ LastOf(lines, d) \in PnpmLines
  <2>1. Level(more, n + 1, d) = Level(more, n, d)
    BY <1>2, <1>4
  <2> QED
    BY <1>0, <1>1, <1>4, <2>1 DEF Enclosing, LastOf, n
<1> QED
  BY <1>3, <1>4 DEF more, n

\* The keys that enclose a line are those of its enclosing lines.
LEMMA PathOfLine ==
    ASSUME NEW lines \in Seq(PnpmLines), NEW i \in 1 .. Len(lines)
    PROVE  LET k == lines[i].indent \div 2
           IN /\ k \in Nat /\ Len(PathOf(lines, i)) = k + 1
              /\ \A d \in 0 .. k : PathOf(lines, i)[d + 1] = Enclosing(lines, i, d).key
<1> DEFINE k == lines[i].indent \div 2
           path == PathOf(lines, i)
<1>1. lines[i] \in PnpmLines
  OBVIOUS
<1>2. k \in Nat
  <2>1. lines[i].indent \in Nat
    BY <1>1, PnpmLinesAssumption
  <2> QED
    BY <2>1
<1>3. path = [d \in 1 .. k + 1 |-> lines[Max({j \in 1 .. i : lines[j].indent = 2 * (d - 1)})].key]
  BY DEF PathOf
<1>4. ASSUME NEW d \in 0 .. k PROVE path[d + 1] = Enclosing(lines, i, d).key
  <2>1. d + 1 \in 1 .. k + 1 /\ (d + 1) - 1 = d
    BY <1>2
  <2>2. path[d + 1] = lines[Max({j \in 1 .. i : lines[j].indent = 2 * ((d + 1) - 1)})].key
    BY <1>3, <2>1
  <2> QED
    BY <2>1, <2>2 DEF Enclosing, Level
<1>5. Len(path) = k + 1
  <2> HIDE DEF k, path
  <2> QED
    BY <1>2, <1>3
<1> QED
  BY <1>2, <1>4, <1>5

\* What a line of a nested text says, by the lines that enclose it.
SaysBy(lines, i, dir, name) ==
    /\ lines[i].value # "" /\ lines[i].indent \in {6, 8}
    /\ lines[i].indent = 8 => lines[i].key = "version"
    /\ Enclosing(lines, i, 0).key = "importers"
    /\ Importer(Enclosing(lines, i, 1).key) = dir
    /\ Enclosing(lines, i, 2).key \in DepBlocks
    /\ Enclosing(lines, i, 3).key = name

LEMMA SaysByLines ==
    ASSUME NEW lines \in Seq(PnpmLines), Nested(lines), NEW i \in 1 .. Len(lines), NEW dir, NEW name
    PROVE  SaysInstalled(lines, i, dir, name) <=> SaysBy(lines, i, dir, name)
<1> DEFINE path == PathOf(lines, i)
           indent == lines[i].indent
           k == lines[i].indent \div 2
<1>1. lines[i] \in PnpmLines
  OBVIOUS
<1>2. indent \in Nat /\ indent % 2 = 0
  BY <1>1, PnpmLinesAssumption
<1>3. indent = 2 * k /\ k \in Nat
  BY <1>2
<1>4. /\ Len(path) = k + 1
      /\ \A d \in 0 .. k : path[d + 1] = Enclosing(lines, i, d).key
  BY PathOfLine
<1> HIDE DEF path, k
<1>5. CASE k \in {3, 4}
  <2>1. /\ path[1] = Enclosing(lines, i, 0).key /\ path[2] = Enclosing(lines, i, 1).key
        /\ path[3] = Enclosing(lines, i, 2).key /\ path[4] = Enclosing(lines, i, 3).key
    <3>1. path[0 + 1] = Enclosing(lines, i, 0).key
      BY <1>4, <1>5
    <3>2. path[1 + 1] = Enclosing(lines, i, 1).key
      BY <1>4, <1>5
    <3>3. path[2 + 1] = Enclosing(lines, i, 2).key
      BY <1>4, <1>5
    <3>4. path[3 + 1] = Enclosing(lines, i, 3).key
      BY <1>4, <1>5
    <3> QED
      BY <3>1, <3>2, <3>3, <3>4
  <2>2. Len(path) \in {4, 5} /\ indent \in {6, 8} /\ (Len(path) = 5 <=> indent = 8)
    BY <1>3, <1>4, <1>5
  <2>3. Len(path) = 5 => path[5] = lines[i].key
    <3> SUFFICES ASSUME k = 4 PROVE path[5] = lines[i].key
      <4>1. indent = 8 => k = 4
        BY <1>3
      <4> QED
        BY <2>2, <4>1
    <3>1. path[4 + 1] = Enclosing(lines, i, 4).key
      BY <1>4
    <3>2. i \in Level(lines, i, 4)
      BY <1>3 DEF Level
    <3>3. Max(Level(lines, i, 4)) = i
      <4>1. i \in 0 .. Len(lines)
        OBVIOUS
      <4>2. i <= Max(Level(lines, i, 4)) /\ Max(Level(lines, i, 4)) \in Level(lines, i, 4)
        BY <3>2, <4>1, Encloses
      <4>3. Max(Level(lines, i, 4)) \in 1 .. i
        BY <4>2 DEF Level
      <4> QED
        BY <4>2, <4>3
    <3> QED
      BY <3>1, <3>3 DEF Enclosing
  <2> QED
    BY <2>1, <2>2, <2>3 DEF SaysInstalled, SaysBy, path
<1>6. CASE k \notin {3, 4}
  <2>1. Len(path) \notin {4, 5} /\ indent \notin {6, 8}
    BY <1>3, <1>4, <1>6
  <2> QED
    BY <2>1 DEF SaysInstalled, SaysBy, path
<1> QED
  BY <1>5, <1>6

\* What is said of a line does not change with the lines that follow.
LEMMA SaysStays ==
    ASSUME NEW lines \in Seq(PnpmLines), NEW line \in PnpmLines, Nested(lines),
           Nested(Append(lines, line)), NEW i \in 1 .. Len(lines), NEW dir, NEW name
    PROVE  SaysInstalled(Append(lines, line), i, dir, name) <=> SaysInstalled(lines, i, dir, name)
<1> DEFINE more == Append(lines, line)
<1>0. /\ more \in Seq(PnpmLines) /\ i \in 1 .. Len(more) /\ i \in 0 .. Len(lines)
      /\ more[i] = lines[i]
  BY Grown
<1>1. \A d \in {0, 1, 2, 3} : 2 * d <= lines[i].indent => Enclosing(more, i, d) = Enclosing(lines, i, d)
  <2> SUFFICES ASSUME NEW d \in {0, 1, 2, 3}, 2 * d <= lines[i].indent
               PROVE  Enclosing(more, i, d) = Enclosing(lines, i, d)
    OBVIOUS
  <2>1. d \in Nat
    OBVIOUS
  <2>2. Level(lines, i, d) # {}
    BY <2>1 DEF Nested
  <2> QED
    BY <1>0, <2>2, EnclosingStays
<1> HIDE DEF more
<1>2. SaysBy(more, i, dir, name) <=> SaysBy(lines, i, dir, name)
  <2>1. CASE lines[i].indent \in {6, 8}
    <3>1. \A d \in {0, 1, 2, 3} : Enclosing(more, i, d) = Enclosing(lines, i, d)
      BY <1>1, <2>1
    <3> QED
      BY <1>0, <3>1 DEF SaysBy
  <2>2. CASE lines[i].indent \notin {6, 8}
    BY <1>0, <2>2 DEF SaysBy
  <2> QED
    BY <2>1, <2>2
<1> QED
  BY <1>0, <1>2, SaysByLines DEF more

\* What is installed is what the last line that says so says.
LEMMA InstalledGrows ==
    ASSUME NEW lines \in Seq(PnpmLines), NEW line \in PnpmLines, Nested(lines),
           Nested(Append(lines, line)), NEW dir, NEW name
    PROVE  InstalledBy(Append(lines, line), dir, name)
             = IF SaysInstalled(Append(lines, line), Len(lines) + 1, dir, name) THEN line.value
               ELSE InstalledBy(lines, dir, name)
<1> DEFINE more == Append(lines, line)
           n == Len(lines)
           old == {i \in 1 .. n : SaysInstalled(lines, i, dir, name)}
           new == {i \in 1 .. Len(more) : SaysInstalled(more, i, dir, name)}
<1>0. /\ n \in Nat /\ Len(more) = n + 1 /\ more[n + 1] = line
      /\ \A i \in 1 .. n : more[i] = lines[i]
  BY Grown
<1>1. \A i \in 1 .. n : SaysInstalled(more, i, dir, name) <=> SaysInstalled(lines, i, dir, name)
  BY SaysStays
<1>2. /\ InstalledBy(lines, dir, name) = IF old = {} THEN "" ELSE lines[Max(old)].value
      /\ InstalledBy(more, dir, name) = IF new = {} THEN "" ELSE more[Max(new)].value
  BY DEF InstalledBy
<1> HIDE DEF more, n
<1>3. new = old \union (IF SaysInstalled(more, n + 1, dir, name) THEN {n + 1} ELSE {})
  <2>1. 1 .. Len(more) = (1 .. n) \union {n + 1}
    BY <1>0
  <2> QED
    BY <1>1, <2>1
<1>4. old \in SUBSET (1 .. n) /\ new \in SUBSET (1 .. n + 1)
  BY <1>0
<1> HIDE DEF old, new
<1>5. CASE SaysInstalled(more, n + 1, dir, name)
  <2>1. n + 1 \in new /\ n + 1 \in Nat
    BY <1>0, <1>3, <1>5
  <2>2. Max(new) \in new /\ n + 1 <= Max(new)
    BY <1>4, <2>1, MaxOf
  <2>3. Max(new) = n + 1
    <3>1. Max(new) \in 1 .. n + 1
      BY <1>4, <2>2
    <3> QED
      BY <1>0, <2>2, <3>1
  <2> QED
    BY <1>0, <1>2, <1>5, <2>1, <2>3 DEF more, n
<1>6. CASE ~SaysInstalled(more, n + 1, dir, name)
  <2>1. new = old
    BY <1>3, <1>6
  <2>2. old # {} => Max(old) \in 1 .. n
    BY <1>0, <1>4, MaxOf
  <2> QED
    BY <1>0, <1>2, <1>6, <2>1, <2>2 DEF more, n
<1> QED
  BY <1>5, <1>6

\* How far the next line may be indented.
LEMMA NextIndent ==
    ASSUME NEW lines \in Seq(PnpmLines), NEW line \in PnpmLines, WellIndented(Append(lines, line))
    PROVE  /\ lines = <<>> => line.indent = 0
           /\ lines # <<>> =>
                /\ line.indent <= lines[Len(lines)].indent + 2
                /\ lines[Len(lines)].value # "" => line.indent <= lines[Len(lines)].indent
<1> DEFINE more == Append(lines, line)
           n == Len(lines)
<1>0. /\ n \in Nat /\ Len(more) = n + 1 /\ more[n + 1] = line
      /\ \A i \in 1 .. n : more[i] = lines[i]
  BY Grown
<1>1. more[1].indent = 0
  <2>1. more # <<>>
    BY <1>0
  <2> QED
    BY <2>1 DEF WellIndented
<1>2. CASE lines = <<>>
  BY <1>0, <1>1, <1>2
<1>3. CASE lines # <<>>
  <2>1. n \in 1 .. n /\ n + 1 \in 2 .. Len(more) /\ (n + 1) - 1 = n
    BY <1>0, <1>3
  <2>2. more[n + 1].indent <= more[(n + 1) - 1].indent + (IF more[(n + 1) - 1].value = "" THEN 2 ELSE 0)
    BY <2>1 DEF WellIndented
  <2>3. line.indent <= lines[n].indent + (IF lines[n].value = "" THEN 2 ELSE 0)
    BY <1>0, <2>1, <2>2
  <2>4. lines[n].indent \in Nat
    <3>1. lines[n] \in PnpmLines
      BY <2>1, Grown DEF n
    <3> QED
      BY <3>1, PnpmLinesAssumption
  <2>5. /\ line.indent <= lines[n].indent + 2
        /\ lines[n].value # "" => line.indent <= lines[n].indent
    <3>1. \A a, b \in Nat : a <= b + 0 => a <= b /\ a <= b + 2
      OBVIOUS
    <3>2. line.indent \in Nat
      BY PnpmLinesAssumption
    <3>3. lines[n].value = "" => line.indent <= lines[n].indent + 2
      BY <2>3
    <3>4. lines[n].value # "" => line.indent <= lines[n].indent + 0
      BY <2>3
    <3> QED
      BY <2>4, <3>1, <3>2, <3>3, <3>4, Zenon
  <2> QED
    BY <1>3, <2>5 DEF n
<1> QED
  BY <1>2, <1>3

\* The levels above the next line are those of the last one.
LEMMA LevelsAbove ==
    ASSUME NEW lines \in Seq(PnpmLines), NEW line \in PnpmLines, Nested(lines),
           WellIndented(Append(lines, line)), NEW d \in Nat, 2 * d < line.indent
    PROVE  /\ lines # <<>> /\ 2 * d <= lines[Len(lines)].indent
           /\ Level(lines, Len(lines), d) # {}
<1>1. lines # <<>> /\ line.indent <= lines[Len(lines)].indent + 2
  <2>1. line.indent # 0
    <3>1. line.indent \in Nat
      BY PnpmLinesAssumption
    <3> QED
      BY <3>1
  <2> QED
    BY <2>1, NextIndent
<1>2. Len(lines) \in 1 .. Len(lines) /\ lines[Len(lines)] \in PnpmLines
  BY <1>1
<1>3. /\ line.indent \in Nat /\ line.indent % 2 = 0
      /\ lines[Len(lines)].indent \in Nat /\ lines[Len(lines)].indent % 2 = 0
  BY <1>2, PnpmLinesAssumption
<1>4. 2 * d + 2 <= line.indent
  BY <1>3
<1>5. 2 * d <= lines[Len(lines)].indent
  BY <1>1, <1>3, <1>4
<1> QED
  BY <1>1, <1>2, <1>5 DEF Nested

LEMMA NestedGrows ==
    ASSUME NEW lines \in Seq(PnpmLines), NEW line \in PnpmLines, Nested(lines),
           WellIndented(Append(lines, line))
    PROVE  Nested(Append(lines, line))
<1> DEFINE more == Append(lines, line)
           n == Len(lines)
<1>0. /\ n \in Nat /\ Len(more) = n + 1 /\ more[n + 1] = line
      /\ \A i \in 1 .. n : more[i] = lines[i]
  BY Grown
<1>1. ASSUME NEW i \in 1 .. n, NEW d \in Nat, 2 * d <= more[i].indent PROVE Level(more, i, d) # {}
  <2>1. i \in 0 .. n /\ 2 * d <= lines[i].indent
    BY <1>0, <1>1
  <2>2. Level(lines, i, d) # {}
    BY <2>1 DEF Nested
  <2> QED
    BY <2>1, <2>2, EnclosingStays
<1>2. ASSUME NEW d \in Nat, 2 * d <= line.indent PROVE Level(more, n + 1, d) # {}
  <2>1. CASE line.indent = 2 * d
    BY <2>1, LastGrows
  <2>2. CASE line.indent # 2 * d
    <3>1. line.indent \in Nat
      BY PnpmLinesAssumption
    <3>2. 2 * d < line.indent
      BY <1>2, <2>2, <3>1
    <3>3. Level(lines, n, d) # {}
      BY <3>2, LevelsAbove
    <3> QED
      BY <2>2, <3>3, LastGrows
  <2> QED
    BY <2>1, <2>2
<1> HIDE DEF more, n
<1>3. \A i \in 1 .. Len(more) : i \in 1 .. n \/ i = n + 1
  BY <1>0
<1>4. Nested(more)
  BY <1>0, <1>1, <1>2, <1>3 DEF Nested
<1> QED
  BY <1>4 DEF more

-----------------------------------------------------------------------------
\* When a turn of the loop notes a version, and of which name.
Notes(s, line) ==
    /\ s.inImporters /\ s.inDeps
    /\ \/ line.indent = 6 /\ line.value # ""
       \/ line.indent = 8 /\ s.entry # "" /\ line.key = "version"

NameNoted(s, line) == IF line.indent = 6 THEN line.key ELSE s.entry

\* What a turn of the loop makes of the flags.
Turned(s, t, inImporters, importer, inDeps, entry) ==
    /\ PnpmFields(t)
    /\ t.inImporters <=> inImporters
    /\ t.importer = importer
    /\ t.inDeps <=> inDeps
    /\ t.entry = entry

LEMMA PnpmTurn ==
    ASSUME NEW s, PnpmFields(s), NEW line \in PnpmLines
    PROVE  LET t == PnpmLine(s, line)
           IN /\ t.versions = IF Notes(s, line)
                              THEN set(s.versions, s.importer, NameNoted(s, line), line.value)
                              ELSE s.versions
              /\ line.indent = 0 =>
                   Turned(s, t, line.key = "importers" /\ line.value = "", "", FALSE, "")
              /\ line.indent # 0 /\ ~s.inImporters =>
                   Turned(s, t, s.inImporters, s.importer, s.inDeps, s.entry)
              /\ line.indent = 2 /\ s.inImporters =>
                   Turned(s, t, s.inImporters, Importer(line.key), FALSE, "")
              /\ line.indent = 4 /\ s.inImporters =>
                   Turned(s, t, s.inImporters, s.importer, line.key \in DepBlocks, "")
              /\ line.indent = 6 /\ s.inImporters /\ s.inDeps =>
                   Turned(s, t, s.inImporters, s.importer, s.inDeps, line.key)
              /\ line.indent \notin {0, 2, 4} /\ s.inImporters /\ ~(line.indent = 6 /\ s.inDeps) =>
                   Turned(s, t, s.inImporters, s.importer, s.inDeps, s.entry)
<1> DEFINE t == PnpmLine(s, line)
           noted == t.versions = IF Notes(s, line)
                                 THEN set(s.versions, s.importer, NameNoted(s, line), line.value)
                                 ELSE s.versions
<1>0. line.indent \in Nat
  BY PnpmLinesAssumption
<1>1. ASSUME line.indent = 0
      PROVE  noted /\ Turned(s, t, line.key = "importers" /\ line.value = "", "", FALSE, "")
  <2>1. t = [s EXCEPT !.inImporters = line.key = "importers" /\ line.value = "",
                      !.importer = "", !.entry = "", !.inDeps = FALSE]
    BY <1>1 DEF PnpmLine
  <2>2. PnpmFields(t) /\ (t.inImporters <=> line.key = "importers" /\ line.value = "")
    BY <2>1 DEF PnpmFields
  <2>3. t.importer = "" /\ (t.inDeps <=> FALSE) /\ t.entry = ""
    BY <2>1 DEF PnpmFields
  <2>4. t.versions = s.versions
    BY <2>1 DEF PnpmFields
  <2>5. ~Notes(s, line)
    BY <1>1 DEF Notes, NameNoted
  <2>6. noted
    BY <2>4, <2>5
  <2> QED
    BY <2>2, <2>3, <2>6 DEF Turned
<1>2. ASSUME line.indent # 0 /\ ~s.inImporters
      PROVE  noted /\ Turned(s, t, s.inImporters, s.importer, s.inDeps, s.entry)
  <2>1. t = s
    BY <1>2 DEF PnpmLine
  <2>2. PnpmFields(t) /\ (t.inImporters <=> s.inImporters)
    BY <2>1 DEF PnpmFields
  <2>3. t.importer = s.importer /\ (t.inDeps <=> s.inDeps) /\ t.entry = s.entry
    BY <2>1 DEF PnpmFields
  <2>4. t.versions = s.versions
    BY <2>1 DEF PnpmFields
  <2>5. ~Notes(s, line)
    BY <1>2 DEF Notes, NameNoted
  <2>6. noted
    BY <2>4, <2>5
  <2> QED
    BY <2>2, <2>3, <2>6 DEF Turned
<1>3. ASSUME line.indent = 2 /\ s.inImporters
      PROVE  noted /\ Turned(s, t, s.inImporters, Importer(line.key), FALSE, "")
  <2>1. t = [s EXCEPT !.importer = Importer(line.key), !.inDeps = FALSE, !.entry = ""]
    BY <1>3 DEF PnpmLine
  <2>2. PnpmFields(t) /\ (t.inImporters <=> s.inImporters)
    BY <2>1 DEF PnpmFields
  <2>3. t.importer = Importer(line.key) /\ (t.inDeps <=> FALSE) /\ t.entry = ""
    BY <2>1 DEF PnpmFields
  <2>4. t.versions = s.versions
    BY <2>1 DEF PnpmFields
  <2>5. ~Notes(s, line)
    BY <1>3 DEF Notes, NameNoted
  <2>6. noted
    BY <2>4, <2>5
  <2> QED
    BY <2>2, <2>3, <2>6 DEF Turned
<1>4. ASSUME line.indent = 4 /\ s.inImporters
      PROVE  noted /\ Turned(s, t, s.inImporters, s.importer, line.key \in DepBlocks, "")
  <2>1. t = [s EXCEPT !.inDeps = InDeps(s, line.key), !.entry = ""]
    BY <1>4 DEF PnpmLine
  <2>2. PnpmFields(t) /\ (t.inImporters <=> s.inImporters)
    BY <2>1 DEF PnpmFields
  <2>3. t.importer = s.importer /\ (t.inDeps <=> line.key \in DepBlocks) /\ t.entry = ""
    BY <2>1 DEF PnpmFields, InDeps
  <2>4. t.versions = s.versions
    BY <2>1 DEF PnpmFields
  <2>5. ~Notes(s, line)
    BY <1>4 DEF Notes, NameNoted
  <2>6. noted
    BY <2>4, <2>5
  <2> QED
    BY <2>2, <2>3, <2>6 DEF Turned
<1>5. ASSUME line.indent = 6 /\ s.inImporters /\ s.inDeps
      PROVE  noted /\ Turned(s, t, s.inImporters, s.importer, s.inDeps, line.key)
  <2>1. t = [s EXCEPT !.entry = line.key,
                      !.versions = IF line.value = "" THEN @
                                   ELSE set(@, s.importer, line.key, line.value)]
    BY <1>5 DEF PnpmLine
  <2>2. PnpmFields(t) /\ (t.inImporters <=> s.inImporters)
    BY <2>1 DEF PnpmFields
  <2>3. t.importer = s.importer /\ (t.inDeps <=> s.inDeps) /\ t.entry = line.key
    BY <2>1 DEF PnpmFields
  <2>4. t.versions = IF line.value = "" THEN s.versions
                       ELSE set(s.versions, s.importer, line.key, line.value)
    BY <2>1 DEF PnpmFields
  <2>5. (Notes(s, line) <=> line.value # "") /\ NameNoted(s, line) = line.key
    BY <1>5 DEF Notes, NameNoted
  <2>6. noted
    BY <2>4, <2>5
  <2> QED
    BY <2>2, <2>3, <2>6 DEF Turned
<1>6. ASSUME line.indent = 8, s.inImporters, s.inDeps, s.entry # ""
      PROVE  noted /\ Turned(s, t, s.inImporters, s.importer, s.inDeps, s.entry)
  <2>0. line.indent = 8 /\ line.indent \notin {0, 2, 4, 6}
    <3>1. \A k \in Nat : k = 8 => k \notin {0, 2, 4, 6}
      OBVIOUS
    <3> QED
      BY <1>0, <1>6, <3>1, Zenon
  <2>1. t = [s EXCEPT !.versions = IF line.key # "version" THEN @
                                   ELSE set(@, s.importer, s.entry, line.value)]
    BY <1>6, <2>0 DEF PnpmLine
  <2>2. PnpmFields(t) /\ (t.inImporters <=> s.inImporters)
    BY <2>1 DEF PnpmFields
  <2>3. t.importer = s.importer /\ (t.inDeps <=> s.inDeps) /\ t.entry = s.entry
    BY <2>1 DEF PnpmFields
  <2>4. t.versions = IF line.key # "version" THEN s.versions
                       ELSE set(s.versions, s.importer, s.entry, line.value)
    BY <2>1 DEF PnpmFields
  <2>5. (Notes(s, line) <=> line.key = "version") /\ NameNoted(s, line) = s.entry
    BY <1>6, <2>0 DEF Notes, NameNoted
  <2>6. noted
    BY <2>4, <2>5
  <2> QED
    BY <2>2, <2>3, <2>6 DEF Turned
<1>7. ASSUME /\ line.indent \notin {0, 2, 4} /\ s.inImporters
             /\ ~(line.indent = 6 /\ s.inDeps) /\ ~(line.indent = 8 /\ s.inDeps /\ s.entry # "")
      PROVE  noted /\ Turned(s, t, s.inImporters, s.importer, s.inDeps, s.entry)
  <2>1. t = s
    BY <1>7 DEF PnpmLine
  <2>2. ~Notes(s, line)
    BY <1>7 DEF Notes
  <2> QED
    BY <2>1, <2>2 DEF Turned
<1> HIDE DEF t, noted
<1>8. noted
  BY <1>1, <1>2, <1>3, <1>4, <1>5, <1>6, <1>7
<1> QED
  BY <1>1, <1>2, <1>3, <1>4, <1>5, <1>6, <1>7, <1>8 DEF t, noted

LEMMA NotedVersion ==
    ASSUME NEW s, NEW t, NEW importer, NEW entry, NEW version, NEW dir, NEW name,
           t.versions = set(s.versions, importer, entry, version)
    PROVE  PnpmVersion(t, dir, name) = IF <<dir, name>> = <<importer, entry>> THEN version
                                       ELSE PnpmVersion(s, dir, name)
  BY DEF PnpmVersion, set

-----------------------------------------------------------------------------
\* What the loop knows when a line comes, and the lines that enclose that line.
Ready(lines, s) ==
    /\ lines \in Seq(PnpmLines)
    /\ Nested(lines)
    /\ PnpmFields(s)
    /\ lines = <<>> => s = PnpmBegin
    /\ lines # <<>> => Flags(lines, s)

LEMMA LastIsLast ==
    ASSUME NEW lines \in Seq(PnpmLines), lines # <<>>, NEW d \in Nat,
           lines[Len(lines)].indent = 2 * d
    PROVE  LastOf(lines, d) = lines[Len(lines)]
<1> DEFINE n == Len(lines)
<1>1. n \in Nat /\ n \in 1 .. n /\ n \in 0 .. Len(lines)
  OBVIOUS
<1>2. n \in Level(lines, n, d)
  BY <1>1 DEF Level
<1>3. Max(Level(lines, n, d)) \in Level(lines, n, d) /\ n <= Max(Level(lines, n, d))
  BY <1>1, <1>2, Encloses
<1>4. Max(Level(lines, n, d)) \in 1 .. n
  BY <1>3 DEF Level
<1>5. Max(Level(lines, n, d)) = n
  BY <1>1, <1>3, <1>4
<1> QED
  BY <1>5 DEF LastOf, Enclosing

\* The lines that enclose the next one, and its own level.
LEMMA LastBelow ==
    ASSUME NEW lines, NEW s, Ready(lines, s), NEW line \in PnpmLines,
           WellIndented(Append(lines, line)), NEW d \in Nat, 2 * d < line.indent
    PROVE  /\ lines # <<>> /\ 2 * d <= lines[Len(lines)].indent
           /\ LastOf(Append(lines, line), d) = LastOf(lines, d)
           /\ LastOf(lines, d) \in PnpmLines
<1>1. lines \in Seq(PnpmLines) /\ Nested(lines)
  BY DEF Ready
<1>2. /\ lines # <<>> /\ 2 * d <= lines[Len(lines)].indent
      /\ Level(lines, Len(lines), d) # {}
  BY <1>1, LevelsAbove
<1>3. line.indent # 2 * d
  <2>1. line.indent \in Nat
    BY PnpmLinesAssumption
  <2> QED
    BY <2>1
<1> QED
  BY <1>1, <1>2, <1>3, LastGrows

\* A line has another below it only when it has no value.
LEMMA NoValueAbove ==
    ASSUME NEW lines, NEW s, Ready(lines, s), NEW line \in PnpmLines,
           WellIndented(Append(lines, line)), line.indent > 0
    PROVE  LastOf(Append(lines, line), 0).value = ""
<1>0. /\ line.indent \in Nat /\ ~ (line.indent <= 0)
      /\ 2 * 0 < line.indent /\ 0 \in Nat
  <2>1. line.indent \in Nat
    BY PnpmLinesAssumption
  <2> QED
    BY <2>1
<1>1. /\ lines # <<>> /\ LastOf(Append(lines, line), 0) = LastOf(lines, 0)
  BY <1>0, LastBelow
<1>2. lines \in Seq(PnpmLines) /\ Flags(lines, s)
  BY <1>1 DEF Ready
<1>3. lines[Len(lines)].indent \in Nat
  <2>1. lines[Len(lines)] \in PnpmLines
    BY <1>1, <1>2
  <2> QED
    BY <2>1, PnpmLinesAssumption
<1>4. CASE lines[Len(lines)].indent > 0
  BY <1>1, <1>2, <1>4 DEF Flags
<1>5. CASE lines[Len(lines)].indent = 0
  <2>1. lines[Len(lines)].indent = 2 * 0
    BY <1>5
  <2>2. LastOf(lines, 0) = lines[Len(lines)]
    BY <1>0, <1>1, <1>2, <2>1, LastIsLast
  <2>3. lines[Len(lines)].value # "" => line.indent <= 0
    BY <1>1, <1>2, <1>5, NextIndent
  <2>4. lines[Len(lines)].value = ""
    BY <1>0, <2>3, Zenon
  <2> QED
    BY <1>1, <2>2, <2>4
<1>6. lines[Len(lines)].indent > 0 \/ lines[Len(lines)].indent = 0
  BY <1>3
<1> QED
  BY <1>4, <1>5, <1>6

\* A line's own level, and those above it.
LEMMA Around ==
    ASSUME NEW lines, NEW s, Ready(lines, s), NEW line \in PnpmLines,
           WellIndented(Append(lines, line))
    PROVE  LET more == Append(lines, line)
           IN /\ more \in Seq(PnpmLines) /\ more # <<>> /\ more[Len(more)] = line
              /\ line.indent \in {0, 2, 4, 6, 8} \/ line.indent >= 10
              /\ line.indent \in Nat
              /\ line.indent = 0 => LastOf(more, 0) = line
              /\ line.indent = 2 => LastOf(more, 1) = line
              /\ line.indent = 4 => LastOf(more, 2) = line
              /\ line.indent = 6 => LastOf(more, 3) = line
<1>1. lines \in Seq(PnpmLines)
  BY DEF Ready
<1>2. line.indent \in Nat /\ line.indent % 2 = 0
  BY PnpmLinesAssumption
<1>3. line.indent \in {0, 2, 4, 6, 8} \/ line.indent >= 10
  BY <1>2
<1>4. \A d \in Nat : line.indent = 2 * d => LastOf(Append(lines, line), d) = line
  BY <1>1, LastGrows
<1>5. /\ line.indent = 0 => LastOf(Append(lines, line), 0) = line
      /\ line.indent = 2 => LastOf(Append(lines, line), 1) = line
      /\ line.indent = 4 => LastOf(Append(lines, line), 2) = line
      /\ line.indent = 6 => LastOf(Append(lines, line), 3) = line
  <2>1. 0 = 2 * 0 /\ 2 = 2 * 1 /\ 4 = 2 * 2 /\ 6 = 2 * 3
    OBVIOUS
  <2>2. {0, 1, 2, 3} \subseteq Nat
    OBVIOUS
  <2> QED
    BY <1>4, <2>1, <2>2
<1>6. /\ Append(lines, line) \in Seq(PnpmLines) /\ Append(lines, line) # <<>>
      /\ Append(lines, line)[Len(Append(lines, line))] = line
  BY <1>1
<1> QED
  BY <1>2, <1>3, <1>5, <1>6

LEMMA Above ==
    ASSUME NEW lines, NEW s, Ready(lines, s), NEW line \in PnpmLines,
           WellIndented(Append(lines, line)), line.indent > 0
    PROVE  LET more == Append(lines, line)
               k == lines[Len(lines)].indent
           IN /\ Flags(lines, s)
              /\ LastOf(more, 0) = LastOf(lines, 0)
              /\ line.indent > 2 => k >= 2 /\ LastOf(more, 1) = LastOf(lines, 1)
              /\ line.indent > 4 => k >= 4 /\ LastOf(more, 2) = LastOf(lines, 2)
              /\ line.indent > 6 => /\ k >= 6 /\ LastOf(more, 3) = LastOf(lines, 3)
                                    /\ LastOf(lines, 3).key # ""
<1> DEFINE more == Append(lines, line)
           k == lines[Len(lines)].indent
<1>0. \A d \in Nat : 2 * d < line.indent => /\ lines # <<>> /\ 2 * d <= k
                                            /\ LastOf(more, d) = LastOf(lines, d)
                                            /\ LastOf(lines, d) \in PnpmLines
  BY LastBelow
<1>1. line.indent \in Nat
  BY PnpmLinesAssumption
<1> HIDE DEF more, k
<1>2. lines # <<>> /\ LastOf(more, 0) = LastOf(lines, 0)
  <2>1. 0 \in Nat /\ 2 * 0 < line.indent
    OBVIOUS
  <2> QED
    BY <1>0, <2>1
<1>3. line.indent > 2 => k >= 2 /\ LastOf(more, 1) = LastOf(lines, 1)
  <2>1. 1 \in Nat /\ 2 * 1 = 2
    OBVIOUS
  <2>2. 2 * 1 < line.indent => 2 * 1 <= k /\ LastOf(more, 1) = LastOf(lines, 1)
    BY <1>0, <2>1
  <2> QED
    BY <1>1, <2>2
<1>4. line.indent > 4 => k >= 4 /\ LastOf(more, 2) = LastOf(lines, 2)
  <2>1. 2 \in Nat /\ 2 * 2 = 4
    OBVIOUS
  <2>2. 2 * 2 < line.indent => 2 * 2 <= k /\ LastOf(more, 2) = LastOf(lines, 2)
    BY <1>0, <2>1
  <2> QED
    BY <1>1, <2>2
<1>5. line.indent > 6 => /\ k >= 6 /\ LastOf(more, 3) = LastOf(lines, 3)
                         /\ LastOf(lines, 3) \in PnpmLines
  <2>1. 3 \in Nat /\ 2 * 3 = 6
    OBVIOUS
  <2>2. 2 * 3 < line.indent => /\ 2 * 3 <= k /\ LastOf(more, 3) = LastOf(lines, 3)
                               /\ LastOf(lines, 3) \in PnpmLines
    BY <1>0, <2>1
  <2> QED
    BY <1>1, <2>2
<1>6. LastOf(lines, 3) \in PnpmLines => LastOf(lines, 3).key # ""
  BY PnpmLinesAssumption
<1>7. Flags(lines, s)
  BY <1>2 DEF Ready
<1> QED
  BY <1>2, <1>3, <1>4, <1>5, <1>6, <1>7 DEF more, k

LEMMA PnpmFlags ==
    ASSUME NEW lines, NEW s, Ready(lines, s), NEW line \in PnpmLines,
           WellIndented(Append(lines, line))
    PROVE  Ready(Append(lines, line), PnpmLine(s, line))
<1> DEFINE more == Append(lines, line)
           t == PnpmLine(s, line)
<1>1. /\ more \in Seq(PnpmLines) /\ more # <<>> /\ more[Len(more)] = line
      /\ line.indent \in {0, 2, 4, 6, 8} \/ line.indent >= 10
      /\ line.indent \in Nat
      /\ line.indent = 0 => LastOf(more, 0) = line
      /\ line.indent = 2 => LastOf(more, 1) = line
      /\ line.indent = 4 => LastOf(more, 2) = line
      /\ line.indent = 6 => LastOf(more, 3) = line
  BY Around
<1>2. PnpmFields(s) /\ Nested(more)
  BY NestedGrows DEF Ready
<1>4. line.indent > 0 => LastOf(more, 0).value = ""
  BY NoValueAbove
<1>5. line.indent = 0 =>
        Turned(s, t, line.key = "importers" /\ line.value = "", "", FALSE, "")
  BY <1>2, PnpmTurn
<1>6. line.indent # 0 /\ ~s.inImporters =>
        Turned(s, t, s.inImporters, s.importer, s.inDeps, s.entry)
  BY <1>2, PnpmTurn
<1>7. line.indent = 2 /\ s.inImporters =>
        Turned(s, t, s.inImporters, Importer(line.key), FALSE, "")
  BY <1>2, PnpmTurn
<1>8. line.indent = 4 /\ s.inImporters =>
        Turned(s, t, s.inImporters, s.importer, line.key \in DepBlocks, "")
  BY <1>2, PnpmTurn
<1>9. line.indent = 6 /\ s.inImporters /\ s.inDeps =>
        Turned(s, t, s.inImporters, s.importer, s.inDeps, line.key)
  BY <1>2, PnpmTurn
<1>10. line.indent \notin {0, 2, 4} /\ s.inImporters /\ ~(line.indent = 6 /\ s.inDeps) =>
         Turned(s, t, s.inImporters, s.importer, s.inDeps, s.entry)
  BY <1>2, PnpmTurn
<1> DEFINE k == lines[Len(lines)].indent
           kk == more[Len(more)].indent
<1>11. line.indent > 0 =>
        /\ Flags(lines, s)
        /\ LastOf(more, 0) = LastOf(lines, 0)
        /\ line.indent > 2 => k >= 2 /\ LastOf(more, 1) = LastOf(lines, 1)
        /\ line.indent > 4 => k >= 4 /\ LastOf(more, 2) = LastOf(lines, 2)
        /\ line.indent > 6 => k >= 6 /\ LastOf(more, 3) = LastOf(lines, 3)
  BY Above
<1>3. kk = line.indent
  BY <1>1
<1> HIDE DEF more, t, k, kk
<1>12. PnpmFields(t) /\ Flags(more, t)
  <2>1. CASE line.indent = 0
    <3>1. LastOf(more, 0) = line
      BY <1>1, <2>1
    <3>0. ~(kk >= 2) /\ ~(kk >= 4) /\ ~(kk >= 6) /\ ~(kk > 0)
      BY <1>3, <2>1
    <3>2. Turned(s, t, line.key = "importers" /\ line.value = "", "", FALSE, "")
      BY <1>5, <2>1
    <3> QED
      BY <3>0, <3>1, <3>2 DEF Flags, Turned, kk
  <2> DEFINE above == /\ s.inImporters <=> LastOf(more, 0).key = "importers" /\ LastOf(more, 0).value = ""
                      /\ LastOf(more, 0).value = ""
  <2>2. ASSUME line.indent > 0 PROVE above /\ line.indent # 0
    <3>1. /\ LastOf(more, 0).value = "" /\ LastOf(more, 0) = LastOf(lines, 0)
          /\ Flags(lines, s)
      BY <1>4, <1>11, <2>2
    <3>4. s.inImporters <=> LastOf(lines, 0).key = "importers" /\ LastOf(lines, 0).value = ""
      BY <3>1 DEF Flags
    <3>5. LastOf(more, 0).key = LastOf(lines, 0).key /\ LastOf(more, 0).value = LastOf(lines, 0).value
      BY <3>1
    <3>6. LastOf(more, 0).value = ""
      BY <3>1
    <3>2. above
      BY <3>4, <3>5, <3>6 DEF above
    <3>3. line.indent # 0
      BY <1>1, <2>2
    <3> QED
      BY <3>2, <3>3
  <2> HIDE DEF above
  <2>3. CASE line.indent > 0 /\ ~s.inImporters
    <3>1. Turned(s, t, s.inImporters, s.importer, s.inDeps, s.entry)
      BY <1>6, <2>2, <2>3
    <3>2. ~s.inDeps
      BY <1>11, <2>3 DEF Flags
    <3> QED
      BY <2>2, <2>3, <3>1, <3>2 DEF above, Flags, Turned
  <2>4. CASE line.indent = 2 /\ s.inImporters
    <3>1. LastOf(more, 1) = line
      BY <1>1, <2>4
    <3>2. Turned(s, t, s.inImporters, Importer(line.key), FALSE, "")
      BY <1>7, <2>4
    <3>3. above
      BY <2>2, <2>4
    <3>5. kk >= 2 /\ ~(kk >= 4) /\ ~(kk >= 6)
      BY <1>3, <2>4
    <3> QED
      BY <3>1, <3>2, <3>3, <3>5 DEF above, Flags, Turned, kk
  <2>5. CASE line.indent = 4 /\ s.inImporters
    <3>1. LastOf(more, 2) = line
      BY <1>1, <2>5
    <3>2. Turned(s, t, s.inImporters, s.importer, line.key \in DepBlocks, "")
      BY <1>8, <2>5
    <3>3. above
      BY <2>2, <2>5
    <3>4. s.importer = Importer(LastOf(more, 1).key)
      <4>1. line.indent > 0 /\ line.indent > 2
        BY <1>1, <2>5
      <4>2. Flags(lines, s) /\ k >= 2 /\ LastOf(more, 1) = LastOf(lines, 1)
        BY <1>11, <4>1
      <4> QED
        BY <2>5, <4>2 DEF Flags, k
    <3>5. kk >= 2 /\ kk >= 4 /\ ~(kk >= 6)
      BY <1>3, <2>5
    <3> QED
      BY <2>5, <3>1, <3>2, <3>3, <3>4, <3>5 DEF above, Flags, Turned, kk
  <2>6. ASSUME line.indent > 4, s.inImporters
        PROVE  /\ s.importer = Importer(LastOf(more, 1).key)
               /\ s.inDeps <=> LastOf(more, 2).key \in DepBlocks
               /\ above
    <3>1. line.indent > 0 /\ line.indent > 2
      BY <1>1, <2>6
    <3>2. /\ Flags(lines, s) /\ k >= 2 /\ k >= 4
          /\ LastOf(more, 1) = LastOf(lines, 1) /\ LastOf(more, 2) = LastOf(lines, 2)
      BY <1>11, <2>6, <3>1
    <3>3. above
      BY <2>2, <3>1
    <3> QED
      BY <2>6, <3>2, <3>3 DEF Flags, k
  <2>7. CASE line.indent = 6 /\ s.inImporters /\ s.inDeps
    <3>1. LastOf(more, 3) = line
      BY <1>1, <2>7
    <3>2. Turned(s, t, s.inImporters, s.importer, s.inDeps, line.key)
      BY <1>9, <2>7
    <3>3. /\ s.importer = Importer(LastOf(more, 1).key) /\ LastOf(more, 2).key \in DepBlocks
          /\ above
      BY <2>6, <2>7
    <3>5. kk >= 2 /\ kk >= 4 /\ kk >= 6
      BY <1>3, <2>7
    <3> QED
      BY <2>7, <3>1, <3>2, <3>3, <3>5 DEF above, Flags, Turned, kk
  <2>8. CASE line.indent = 6 /\ s.inImporters /\ ~s.inDeps
    <3>1. line.indent \notin {0, 2, 4}
      BY <1>1, <2>8
    <3>2. Turned(s, t, s.inImporters, s.importer, s.inDeps, s.entry)
      BY <1>10, <2>8, <3>1
    <3>3. /\ s.importer = Importer(LastOf(more, 1).key) /\ LastOf(more, 2).key \notin DepBlocks
          /\ above
      BY <2>6, <2>8
    <3>5. kk >= 2 /\ kk >= 4 /\ kk >= 6
      BY <1>3, <2>8
    <3> QED
      BY <2>8, <3>1, <3>2, <3>3, <3>5 DEF above, Flags, Turned, kk
  <2>9. CASE line.indent >= 8 /\ s.inImporters
    <3>1. line.indent > 0 /\ line.indent > 4 /\ line.indent > 6 /\ line.indent \notin {0, 2, 4, 6}
      BY <1>1, <2>9
    <3>2. Turned(s, t, s.inImporters, s.importer, s.inDeps, s.entry)
      BY <1>10, <2>9, <3>1
    <3>3. /\ s.importer = Importer(LastOf(more, 1).key)
          /\ s.inDeps <=> LastOf(more, 2).key \in DepBlocks
          /\ above
      BY <2>6, <2>9, <3>1
    <3>4. s.inDeps => s.entry = LastOf(more, 3).key
      BY <1>11, <3>1 DEF Flags, k
    <3>5. kk >= 2 /\ kk >= 4 /\ kk >= 6
      BY <1>1, <1>3, <2>9
    <3> QED
      BY <2>9, <3>2, <3>3, <3>4, <3>5 DEF above, Flags, Turned, kk
  <2> QED
    BY <1>1, <2>1, <2>3, <2>4, <2>5, <2>7, <2>8, <2>9
<1> QED
  BY <1>1, <1>2, <1>12 DEF Ready, more, t

\* A line says a version exactly when the turn of the loop notes one, and of
\* that folder and name.
LEMMA NotesSays ==
    ASSUME NEW lines, NEW s, Ready(lines, s), NEW line \in PnpmLines,
           WellIndented(Append(lines, line)), NEW dir, NEW name
    PROVE  SaysInstalled(Append(lines, line), Len(lines) + 1, dir, name)
             <=> Notes(s, line) /\ s.importer = dir /\ NameNoted(s, line) = name
<1> DEFINE more == Append(lines, line)
           n == Len(lines) + 1
           k == lines[Len(lines)].indent
<1>1. /\ line.indent \in {0, 2, 4, 6, 8} \/ line.indent >= 10
      /\ line.indent \in Nat
      /\ line.indent = 6 => LastOf(more, 3) = line
  BY Around
<1>2. line.indent > 0 =>
        /\ Flags(lines, s)
        /\ LastOf(more, 0) = LastOf(lines, 0)
        /\ line.indent > 2 => k >= 2 /\ LastOf(more, 1) = LastOf(lines, 1)
        /\ line.indent > 4 => k >= 4 /\ LastOf(more, 2) = LastOf(lines, 2)
        /\ line.indent > 6 => /\ k >= 6 /\ LastOf(more, 3) = LastOf(lines, 3)
                              /\ LastOf(lines, 3).key # ""
  BY Above
<1>3. line.indent > 0 => LastOf(more, 0).value = ""
  BY NoValueAbove
<1>4. /\ lines \in Seq(PnpmLines) /\ more \in Seq(PnpmLines)
      /\ Nested(more) /\ n \in 1 .. Len(more) /\ n = Len(more) /\ more[n] = line
  BY NestedGrows, Grown DEF Ready
<1>5. SaysInstalled(more, n, dir, name) <=> SaysBy(more, n, dir, name)
  BY <1>4, SaysByLines
<1> HIDE DEF more, n, k
<1>6. SaysBy(more, n, dir, name) <=>
        /\ line.value # "" /\ line.indent \in {6, 8}
        /\ line.indent = 8 => line.key = "version"
        /\ LastOf(more, 0).key = "importers"
        /\ Importer(LastOf(more, 1).key) = dir
        /\ LastOf(more, 2).key \in DepBlocks
        /\ LastOf(more, 3).key = name
  BY <1>4 DEF SaysBy, LastOf
<1>7. ASSUME line.indent \in {6, 8}
      PROVE  /\ s.inImporters <=> LastOf(more, 0).key = "importers"
             /\ s.inImporters => s.importer = Importer(LastOf(more, 1).key)
             /\ s.inDeps <=> s.inImporters /\ LastOf(more, 2).key \in DepBlocks
  <2>1. line.indent > 0 /\ line.indent > 2 /\ line.indent > 4
    BY <1>1, <1>7
  <2>2. /\ Flags(lines, s) /\ k >= 2 /\ k >= 4 /\ LastOf(more, 0) = LastOf(lines, 0)
        /\ LastOf(more, 1) = LastOf(lines, 1) /\ LastOf(more, 2) = LastOf(lines, 2)
    BY <1>2, <2>1
  <2>3. LastOf(more, 0).value = ""
    BY <1>3, <2>1
  <2> QED
    BY <2>2, <2>3 DEF Flags, k
<1>8. CASE line.indent = 6
  <2>1. LastOf(more, 3) = line /\ line.indent # 8 /\ line.indent \in {6, 8}
    BY <1>1, <1>8
  <2>2. /\ Notes(s, line) <=> s.inImporters /\ s.inDeps /\ line.value # ""
        /\ NameNoted(s, line) = line.key
    BY <1>8, <2>1 DEF Notes, NameNoted
  <2> QED
    BY <1>5, <1>6, <1>7, <2>1, <2>2 DEF more, n
<1>9. CASE line.indent = 8
  <2>1. line.indent # 6 /\ line.indent \in {6, 8} /\ line.indent > 0 /\ line.indent > 6
    BY <1>1, <1>9
  <2>2. /\ Notes(s, line) <=> s.inImporters /\ s.inDeps /\ s.entry # "" /\ line.key = "version"
        /\ NameNoted(s, line) = s.entry
    BY <1>9, <2>1 DEF Notes, NameNoted
  <2>3. s.inDeps => s.entry = LastOf(more, 3).key /\ s.entry # ""
    <3>1. /\ Flags(lines, s) /\ k >= 6 /\ LastOf(more, 3) = LastOf(lines, 3)
          /\ LastOf(lines, 3).key # ""
      BY <1>2, <2>1
    <3> QED
      BY <3>1 DEF Flags, k
  <2>4. line.key = "version" => line.value # ""
    BY <1>9, PnpmLinesAssumption
  <2> QED
    BY <1>5, <1>6, <1>7, <1>9, <2>1, <2>2, <2>3, <2>4 DEF more, n
<1>10. CASE line.indent \notin {6, 8}
  BY <1>5, <1>6, <1>10 DEF Notes, more, n
<1> QED
  BY <1>8, <1>9, <1>10

PnpmInv ==
    subject = "pnpm" =>
        /\ Ready(input, loop)
        /\ \A dir, name : PnpmVersion(loop, dir, name) = InstalledBy(input, dir, name)

LEMMA PnpmInit == Init => PnpmInv
<1> SUFFICES ASSUME Init, subject = "pnpm" PROVE PnpmInv
  BY DEF PnpmInv
<1>1. input = <<>> /\ loop = PnpmBegin
  BY DEF Init, Begin
<1>2. 1 .. Len(input) = {}
  BY <1>1
<1>3. Ready(input, loop)
  <2>1. input \in Seq(PnpmLines)
    BY <1>1
  <2>2. PnpmFields(loop)
    BY <1>1 DEF PnpmFields, PnpmBegin
  <2> QED
    BY <1>1, <1>2, <2>1, <2>2 DEF Ready, Nested
<1>4. ASSUME NEW dir, NEW name PROVE PnpmVersion(loop, dir, name) = InstalledBy(input, dir, name)
  <2>1. loop.versions = <<>>
    BY <1>1 DEF PnpmBegin
  <2>2. PnpmVersion(loop, dir, name) = ""
    BY <2>1 DEF PnpmVersion
  <2> QED
    BY <1>2, <2>2 DEF InstalledBy
<1> QED
  BY <1>3, <1>4 DEF PnpmInv

LEMMA PnpmStep ==
    ASSUME PnpmInv, NEW line \in PnpmLines, ReadPnpm(line)
    PROVE  PnpmInv'
<1>0. /\ Ready(input, loop) /\ WellIndented(Append(input, line))
      /\ input' = Append(input, line) /\ loop' = PnpmLine(loop, line)
  BY DEF PnpmInv, ReadPnpm, Read
<1>1. \A dir, name : PnpmVersion(loop, dir, name) = InstalledBy(input, dir, name)
  BY DEF PnpmInv, ReadPnpm
<1>2. Ready(Append(input, line), PnpmLine(loop, line))
  BY <1>0, PnpmFlags
<1>3. Ready(input, loop)'
  BY <1>0, <1>2
<1>4. /\ input \in Seq(PnpmLines) /\ Nested(input) /\ Nested(Append(input, line))
      /\ PnpmFields(loop)
  BY <1>0, <1>2 DEF Ready
<1>5. PnpmLine(loop, line).versions =
        IF Notes(loop, line) THEN set(loop.versions, loop.importer, NameNoted(loop, line), line.value)
        ELSE loop.versions
  BY <1>4, PnpmTurn
<1>6. ASSUME NEW dir, NEW name
      PROVE  PnpmVersion(PnpmLine(loop, line), dir, name) = InstalledBy(Append(input, line), dir, name)
  <2>1. InstalledBy(Append(input, line), dir, name)
          = IF SaysInstalled(Append(input, line), Len(input) + 1, dir, name) THEN line.value
            ELSE InstalledBy(input, dir, name)
    BY <1>4, InstalledGrows
  <2>2. SaysInstalled(Append(input, line), Len(input) + 1, dir, name)
          <=> Notes(loop, line) /\ loop.importer = dir /\ NameNoted(loop, line) = name
    BY <1>0, NotesSays
  <2>3. CASE Notes(loop, line)
    <3>1. PnpmVersion(PnpmLine(loop, line), dir, name)
            = IF <<dir, name>> = <<loop.importer, NameNoted(loop, line)>> THEN line.value
              ELSE PnpmVersion(loop, dir, name)
      BY <1>5, <2>3, NotedVersion
    <3>2. <<dir, name>> = <<loop.importer, NameNoted(loop, line)>>
            <=> loop.importer = dir /\ NameNoted(loop, line) = name
      OBVIOUS
    <3> QED
      BY <1>1, <2>1, <2>2, <2>3, <3>1, <3>2
  <2>4. CASE ~Notes(loop, line)
    <3>1. PnpmVersion(PnpmLine(loop, line), dir, name) = PnpmVersion(loop, dir, name)
      BY <1>5, <2>4 DEF PnpmVersion
    <3> QED
      BY <1>1, <2>1, <2>2, <2>4, <3>1
  <2> QED
    BY <2>3, <2>4
<1>7. \A dir, name : PnpmVersion(loop', dir, name) = InstalledBy(input', dir, name)
  BY <1>0, <1>6
<1> QED
  BY <1>3, <1>7 DEF PnpmInv

(***************************************************************************)
(* What pnpmLookup notes of a folder and a name is what the nesting of the *)
(* lines says (lockfile.go, pnpmLookup), in a lockfile of any length, with *)
(* whatever folders, blocks and versions: the part of LockfileAsNested     *)
(* that is about pnpm-lock.yaml.                                           *)
(***************************************************************************)
THEOREM PnpmVersionsFound == Spec => []PnpmAsNested
<1>1. PnpmInv /\ [Next]_vars => PnpmInv'
  <2> SUFFICES ASSUME PnpmInv, [Next]_vars PROVE PnpmInv'
    OBVIOUS
  <2>1. CASE UNCHANGED vars
    BY <2>1 DEF PnpmInv
  <2>2. ASSUME subject # "pnpm" /\ UNCHANGED subject PROVE PnpmInv'
    BY <2>2 DEF PnpmInv
  <2> QED
    BY <2>1, <2>2, PnpmStep
    DEF Next, ReadBeat, ReadConfig, ReadJson, ReadLog, CheckOut, Read
<1>2. PnpmInv => PnpmAsNested
  BY DEF PnpmInv, PnpmAsNested
<1> QED
  BY PnpmInit, <1>1, <1>2, PTL DEF Spec

-----------------------------------------------------------------------------
(* Sums *)

\* What a sum takes first, and what it makes of it with the sums g of fewer.
First(s) == CHOOSE x \in s : TRUE
Summed(f, g, s) == IF s = {} THEN 0 ELSE f[First(s)] + g[s \ {First(s)}]

\* g has the sums of f over the parts of S of up to n members.
SumsUpTo(f, S, g, n) == \A s \in SUBSET S : Cardinality(s) <= n => g[s] = Summed(f, g, s)
Sums(f, S, g) == \A s \in SUBSET S : g[s] = Summed(f, g, s)

\* The least number for which something does not hold is not there.
LEMMA EveryNumber ==
    ASSUME NEW S \in SUBSET Nat, 0 \in S, \A n \in Nat : n \in S => n + 1 \in S
    PROVE  S = Nat
<1> DEFINE bad == Nat \ S
<1> SUFFICES ASSUME bad # {} PROVE FALSE
  OBVIOUS
<1>1. bad \in SUBSET Nat
  OBVIOUS
<1>2. Min(bad) \in bad /\ \A n \in bad : Min(bad) <= n
  BY <1>1, MinOf
<1>3. PICK m \in bad : \A n \in bad : m <= n
  BY <1>2
<1>4. m \in Nat /\ m # 0 /\ m \notin S
  BY <1>3
<1>5. m - 1 \in Nat /\ m - 1 \notin bad
  BY <1>3, <1>4
<1>6. (m - 1) + 1 \in S
  BY <1>5
<1> QED
  BY <1>4, <1>6

\* A part without the member taken first.
LEMMA OneLess ==
    ASSUME NEW S, IsFiniteSet(S), NEW s \in SUBSET S, s # {}
    PROVE  /\ First(s) \in s /\ s \ {First(s)} \in SUBSET S
           /\ Cardinality(s) \in Nat /\ Cardinality(s \ {First(s)}) = Cardinality(s) - 1
<1>1. First(s) \in s
  BY DEF First
<1>2. IsFiniteSet(s)
  BY FS_Subset
<1> QED
  BY <1>1, <1>2, FS_RemoveElement, FS_CardinalityType

LEMMA SumsExist ==
    ASSUME NEW f, NEW S, IsFiniteSet(S)
    PROVE  \E g : g = [s \in SUBSET S |-> Summed(f, g, s)]
<1> DEFINE P == {n \in Nat : \E g : SumsUpTo(f, S, g, n)}
<1>0. \A s \in SUBSET S : /\ IsFiniteSet(s) /\ Cardinality(s) \in Nat
                          /\ Cardinality(s) <= Cardinality(S) /\ (Cardinality(s) = 0 <=> s = {})
  BY FS_Subset, FS_CardinalityType, FS_EmptySet
<1>1. 0 \in P
  <2> DEFINE g == [s \in SUBSET S |-> 0]
  <2>1. ASSUME NEW s \in SUBSET S, Cardinality(s) <= 0 PROVE g[s] = Summed(f, g, s)
    <3>1. s = {}
      BY <1>0, <2>1
    <3> QED
      BY <3>1 DEF Summed
  <2>2. SumsUpTo(f, S, g, 0)
    BY <2>1 DEF SumsUpTo
  <2> QED
    BY <2>2
<1>2. ASSUME NEW n \in Nat, n \in P PROVE n + 1 \in P
  <2>1. PICK g : SumsUpTo(f, S, g, n)
    BY <1>2
  <2> DEFINE h == [s \in SUBSET S |-> Summed(f, g, s)]
  <2>2. \A s \in SUBSET S : Cardinality(s) <= n => h[s] = g[s]
    BY <2>1 DEF SumsUpTo
  <2>3. ASSUME NEW s \in SUBSET S, Cardinality(s) <= n + 1 PROVE h[s] = Summed(f, h, s)
    <3>1. h[s] = Summed(f, g, s)
      OBVIOUS
    <3>2. CASE s = {}
      BY <3>1, <3>2 DEF Summed
    <3>3. CASE s # {}
      <4>1. /\ s \ {First(s)} \in SUBSET S
            /\ Cardinality(s) \in Nat /\ Cardinality(s \ {First(s)}) = Cardinality(s) - 1
        BY <3>3, OneLess
      <4>2. Cardinality(s \ {First(s)}) <= n
        BY <2>3, <4>1
      <4>3. h[s \ {First(s)}] = g[s \ {First(s)}]
        BY <2>2, <4>1, <4>2
      <4> QED
        BY <3>1, <3>3, <4>3 DEF Summed
    <3> QED
      BY <3>2, <3>3
  <2> HIDE DEF h
  <2>4. SumsUpTo(f, S, h, n + 1)
    BY <2>3 DEF SumsUpTo
  <2> QED
    BY <2>4
<1>3. P \in SUBSET Nat
  OBVIOUS
<1> HIDE DEF P
<1>4. P = Nat
  BY <1>1, <1>2, <1>3, EveryNumber
<1>5. Cardinality(S) \in P
  BY <1>4, FS_CardinalityType
<1>6. PICK g : SumsUpTo(f, S, g, Cardinality(S))
  BY <1>5 DEF P
<1>7. \A s \in SUBSET S : g[s] = Summed(f, g, s)
  BY <1>0, <1>6 DEF SumsUpTo
<1> DEFINE h == [s \in SUBSET S |-> g[s]]
<1>8. ASSUME NEW s \in SUBSET S PROVE h[s] = Summed(f, h, s)
  <2>1. CASE s = {}
    BY <1>7, <2>1 DEF Summed
  <2>2. CASE s # {}
    <3>1. s \ {First(s)} \in SUBSET S
      OBVIOUS
    <3> QED
      BY <1>7, <2>2, <3>1 DEF Summed
  <2> QED
    BY <2>1, <2>2
<1>9. h = [s \in SUBSET S |-> Summed(f, h, s)]
  BY <1>8
<1> QED
  BY <1>9

\* A fold over a function is one of the functions that have its sums.
LEMMA TotalSums ==
    ASSUME NEW f, IsFiniteSet(DOMAIN f)
    PROVE  \E g : Sums(f, DOMAIN f, g) /\ SumFunction(f) = g[DOMAIN f]
<1> DEFINE S == DOMAIN f
           h == CHOOSE g : g = [s \in SUBSET S |->
                     IF s = {} THEN 0 ELSE LET x == CHOOSE x \in s : TRUE IN f[x] + g[s \ {x}]]
<1>1. SumFunction(f) = h[S]
  BY DEF SumFunction, SumFunctionOnSet, FoldFunctionOnSet, MapThenFoldSet
<1>2. \E g : g = [s \in SUBSET S |->
                    IF s = {} THEN 0 ELSE LET x == CHOOSE x \in s : TRUE IN f[x] + g[s \ {x}]]
  <2>1. \E g : g = [s \in SUBSET S |-> Summed(f, g, s)]
    BY SumsExist
  <2> QED
    BY <2>1 DEF Summed, First
<1>3. h = [s \in SUBSET S |->
                    IF s = {} THEN 0 ELSE LET x == CHOOSE x \in s : TRUE IN f[x] + h[s \ {x}]]
  BY <1>2
<1> HIDE DEF h
<1>4. Sums(f, S, h)
  BY <1>3 DEF Sums, Summed, First
<1> QED
  BY <1>1, <1>4

\* Two functions have the same sums over what they agree on.
LEMMA SameSums ==
    ASSUME NEW f, NEW g, NEW A, IsFiniteSet(A), Sums(f, A, g),
           NEW e, NEW h, NEW B, Sums(e, B, h), A \subseteq B, \A i \in A : e[i] = f[i]
    PROVE  \A s \in SUBSET A : h[s] = g[s]
<1> DEFINE P == {n \in Nat : \A s \in SUBSET A : Cardinality(s) <= n => h[s] = g[s]}
<1>0. \A s \in SUBSET A : /\ IsFiniteSet(s) /\ Cardinality(s) \in Nat
                          /\ Cardinality(s) <= Cardinality(A) /\ (Cardinality(s) = 0 <=> s = {})
  BY FS_Subset, FS_CardinalityType, FS_EmptySet
<1>1. h[{}] = g[{}]
  BY DEF Sums, Summed
<1>2. 0 \in P
  BY <1>0, <1>1
<1>3. ASSUME NEW n \in Nat, n \in P PROVE n + 1 \in P
  <2> SUFFICES ASSUME NEW s \in SUBSET A, Cardinality(s) <= n + 1 PROVE h[s] = g[s]
    OBVIOUS
  <2>1. CASE s = {}
    BY <1>1, <2>1
  <2>2. CASE s # {}
    <3>1. /\ First(s) \in s /\ s \ {First(s)} \in SUBSET A
          /\ Cardinality(s) \in Nat /\ Cardinality(s \ {First(s)}) = Cardinality(s) - 1
      BY <2>2, OneLess
    <3>2. h[s \ {First(s)}] = g[s \ {First(s)}]
      BY <1>3, <3>1
    <3>3. g[s] = f[First(s)] + g[s \ {First(s)}] /\ h[s] = e[First(s)] + h[s \ {First(s)}]
      BY <2>2 DEF Sums, Summed
    <3>4. e[First(s)] = f[First(s)]
      BY <3>1
    <3> QED
      BY <3>2, <3>3, <3>4
  <2> QED
    BY <2>1, <2>2
<1>4. P \in SUBSET Nat
  OBVIOUS
<1> HIDE DEF P
<1>5. P = Nat
  BY <1>2, <1>3, <1>4, EveryNumber
<1>6. Cardinality(A) \in P
  BY <1>5, FS_CardinalityType
<1> QED
  BY <1>0, <1>6 DEF P

\* In whatever order a sum is taken, a member counts once.
LEMMA AnyOrder ==
    ASSUME NEW f, NEW g, NEW S, IsFiniteSet(S), Sums(f, S, g), \A i \in S : f[i] \in Int
    PROVE  \A s \in SUBSET S : g[s] \in Int /\ \A k \in S \ s : g[s \union {k}] = f[k] + g[s]
<1> DEFINE Adds(s) == g[s] \in Int /\ \A k \in S \ s : g[s \union {k}] = f[k] + g[s]
           P == {n \in Nat : \A s \in SUBSET S : Cardinality(s) <= n => Adds(s)}
<1>0. \A s \in SUBSET S : /\ IsFiniteSet(s) /\ Cardinality(s) \in Nat
                          /\ Cardinality(s) <= Cardinality(S) /\ (Cardinality(s) = 0 <=> s = {})
  BY FS_Subset, FS_CardinalityType, FS_EmptySet
<1>1. Adds({})
  <2>1. g[{}] = 0
    BY DEF Sums, Summed
  <2>2. ASSUME NEW k \in S PROVE g[{} \union {k}] = f[k] + g[{}]
    <3>1. First({k}) = k /\ {k} \ {k} = {} /\ {} \union {k} = {k} /\ {k} \in SUBSET S
      BY DEF First
    <3> QED
      BY <3>1 DEF Sums, Summed
  <2> QED
    BY <2>1, <2>2
<1>2. 0 \in P
  <2>1. \A s \in SUBSET S : Cardinality(s) <= 0 => s = {}
    BY <1>0
  <2> HIDE DEF Adds
  <2> QED
    BY <1>1, <2>1
<1>3. ASSUME NEW n \in Nat, n \in P PROVE n + 1 \in P
  <2> SUFFICES ASSUME NEW s \in SUBSET S, Cardinality(s) <= n + 1 PROVE Adds(s)
    OBVIOUS
  <2>1. CASE s = {}
    BY <1>1, <2>1
  <2>2. CASE s # {}
    <3>1. ASSUME NEW y \in s
          PROVE  s \ {y} \in SUBSET S /\ Adds(s \ {y})
      <4>1. Cardinality(s \ {y}) = Cardinality(s) - 1 /\ Cardinality(s) \in Nat
        BY <1>0, FS_RemoveElement
      <4>2. Cardinality(s \ {y}) <= n /\ s \ {y} \in SUBSET S
        BY <4>1
      <4> QED
        BY <1>3, <4>2
    <3>2. ASSUME NEW y \in s PROVE g[s] = f[y] + g[s \ {y}] /\ g[s \ {y}] \in Int
      <4>1. y \in S \ (s \ {y}) /\ (s \ {y}) \union {y} = s
        OBVIOUS
      <4> QED
        BY <3>1, <4>1
    <3>3. g[s] \in Int
      <4>1. PICK y \in s : TRUE
        BY <2>2
      <4>2. f[y] \in Int /\ g[s \ {y}] \in Int /\ g[s] = f[y] + g[s \ {y}]
        BY <3>2, <4>1
      <4> QED
        BY <4>2
    <3>4. ASSUME NEW k \in S \ s PROVE g[s \union {k}] = f[k] + g[s]
      <4> DEFINE t == s \union {k}
                 x == First(t)
                 u == s \ {x}
      <4>1. x \in t /\ t \in SUBSET S /\ t # {}
        BY DEF First
      <4>2. g[t] = f[x] + g[t \ {x}]
        BY <4>1 DEF Sums, Summed
      <4>3. CASE x = k
        <5>1. t \ {x} = s
          BY <4>3
        <5> QED
          BY <4>2, <4>3, <5>1
      <4>4. CASE x # k
        <5>1. x \in s /\ k \in S \ u
          BY <4>1, <4>4
        <5>2. t \ {x} = u \union {k}
          BY <4>4
        <5>3. g[u \union {k}] = f[k] + g[u]
          BY <3>1, <5>1
        <5>4. g[s] = f[x] + g[u] /\ g[u] \in Int /\ f[x] \in Int /\ f[k] \in Int
          BY <3>2, <5>1
        <5>5. g[t] = f[x] + (f[k] + g[u])
          BY <4>2, <5>2, <5>3
        <5> HIDE DEF t, x, u
        <5>6. g[t] = f[k] + g[s]
          BY <5>4, <5>5
        <5> QED
          BY <5>6 DEF t
      <4> QED
        BY <4>3, <4>4
    <3> QED
      BY <3>3, <3>4
  <2> QED
    BY <2>1, <2>2
<1>4. P \in SUBSET Nat
  OBVIOUS
<1> HIDE DEF P
<1>5. P = Nat
  BY <1>2, <1>3, <1>4, EveryNumber
<1>6. Cardinality(S) \in P
  BY <1>5, FS_CardinalityType
<1> QED
  BY <1>0, <1>6 DEF P

\* What the provers need to know of a sum over a function: nothing adds up to
\* nothing, and one more value adds itself.
LEMMA SumOfNone ==
    ASSUME NEW f, DOMAIN f = {}
    PROVE  SumFunction(f) = 0
<1>1. IsFiniteSet(DOMAIN f)
  BY FS_EmptySet
<1>2. PICK g : Sums(f, DOMAIN f, g) /\ SumFunction(f) = g[DOMAIN f]
  BY <1>1, TotalSums
<1>3. g[DOMAIN f] = Summed(f, g, DOMAIN f)
  BY <1>2 DEF Sums
<1> QED
  BY <1>2, <1>3 DEF Summed

LEMMA SumIsInt ==
    ASSUME NEW f, IsFiniteSet(DOMAIN f), \A i \in DOMAIN f : f[i] \in Int
    PROVE  SumFunction(f) \in Int
<1>1. PICK g : Sums(f, DOMAIN f, g) /\ SumFunction(f) = g[DOMAIN f]
  BY TotalSums
<1>2. \A s \in SUBSET DOMAIN f : g[s] \in Int
  BY <1>1, AnyOrder
<1> QED
  BY <1>1, <1>2

LEMMA SumOfMore ==
    ASSUME NEW T, IsFiniteSet(T), NEW e, DOMAIN e = T, \A i \in T : e[i] \in Int, NEW k \in T
    PROVE  SumFunction(e) = SumFunction([i \in T \ {k} |-> e[i]]) + e[k]
<1> DEFINE S == T \ {k}
           f == [i \in S |-> e[i]]
<1>1. PICK h : Sums(e, T, h) /\ SumFunction(e) = h[T]
  BY TotalSums
<1>2. \A s \in SUBSET T : h[s] \in Int /\ \A j \in T \ s : h[s \union {j}] = e[j] + h[s]
  BY <1>1, AnyOrder
<1>3. S \in SUBSET T /\ k \in T \ S /\ S \union {k} = T /\ e[k] \in Int
  OBVIOUS
<1>4. DOMAIN f = S /\ (\A i \in S : e[i] = f[i])
  OBVIOUS
<1> HIDE DEF S, f
<1>5. IsFiniteSet(S)
  BY <1>3, FS_Subset
<1>6. PICK g : Sums(f, S, g) /\ SumFunction(f) = g[S]
  BY <1>4, <1>5, TotalSums
<1>7. h[S] = g[S]
  BY <1>1, <1>3, <1>4, <1>5, <1>6, SameSums
<1>8. h[S] \in Int /\ h[T] = e[k] + h[S]
  BY <1>2, <1>3
<1>9. SumFunction(e) = SumFunction(f) + e[k]
  BY <1>1, <1>3, <1>6, <1>7, <1>8
<1> QED
  BY <1>9 DEF S, f

-----------------------------------------------------------------------------
(* The counts of a log *)

LEMMA LogLineType ==
    ASSUME NEW line \in LogLines
    PROVE  /\ line.kind \in {"record", "file", "blank"}
           /\ line.kind = "file" => Atoi(line.add) \in Int /\ Atoi(line.del) \in Int
<1>1. /\ line.kind \in {"record", "file", "blank"}
      /\ line.kind = "file" => line.add \in Counts /\ line.del \in Counts
  BY LogLinesAssumption
<1> QED
  BY <1>1 DEF Counts, Uncounted, Atoi

Shas == {line.sha : line \in {x \in LogLines : x.kind = "record"}}

CommitRecords == [sha : Shas, files : Int, insertions : Int, deletions : Int]

\* No record begins after this one.
LastRecord(lines, r) == r \in Records(lines) /\ \A h \in Records(lines) : h <= r

LEMMA RecordsGrow ==
    ASSUME NEW lines \in Seq(LogLines), NEW line \in LogLines
    PROVE  Records(Append(lines, line))
             = Records(lines) \union (IF line.kind = "record" THEN {Len(lines) + 1} ELSE {})
<1> DEFINE more == Append(lines, line)
<1>0. /\ Len(lines) \in Nat /\ Len(more) = Len(lines) + 1 /\ more[Len(lines) + 1] = line
      /\ \A i \in 1 .. Len(lines) : more[i] = lines[i]
  BY Grown
<1> HIDE DEF more
<1>1. 1 .. Len(more) = (1 .. Len(lines)) \union {Len(lines) + 1}
  BY <1>0
<1>2. Records(more) = Records(lines) \union (IF line.kind = "record" THEN {Len(lines) + 1} ELSE {})
  BY <1>0, <1>1 DEF Records
<1> QED
  BY <1>2 DEF more

LEMMA RecordsType ==
    ASSUME NEW lines \in Seq(LogLines)
    PROVE  /\ Records(lines) \in SUBSET Nat /\ IsFiniteSet(Records(lines))
           /\ \A r \in Records(lines) : r \in 1 .. Len(lines)
<1>1. Len(lines) \in Nat
  OBVIOUS
<1>2. IsFiniteSet(1 .. Len(lines))
  BY <1>1, FS_Interval
<1>3. Records(lines) \subseteq 1 .. Len(lines)
  BY DEF Records
<1> QED
  BY <1>1, <1>2, <1>3, FS_Subset

LEMMA FilesType ==
    ASSUME NEW lines \in Seq(LogLines), NEW r \in 1 .. Len(lines)
    PROVE  /\ IsFiniteSet(FilesOf(lines, r))
           /\ \A i \in FilesOf(lines, r) : i \in 1 .. Len(lines) /\ lines[i].kind = "file"
<1>1. Len(lines) \in Nat
  OBVIOUS
<1>2. IsFiniteSet(1 .. Len(lines))
  BY <1>1, FS_Interval
<1>3. \A i \in FilesOf(lines, r) : i \in 1 .. Len(lines) /\ lines[i].kind = "file"
  BY <1>1 DEF FilesOf
<1>4. FilesOf(lines, r) \subseteq 1 .. Len(lines)
  BY <1>3
<1> QED
  BY <1>2, <1>3, <1>4, FS_Subset

\* A file's line is of the last record.
LEMMA FilesGrow ==
    ASSUME NEW lines \in Seq(LogLines), NEW line \in LogLines, NEW r \in Records(lines)
    PROVE  FilesOf(Append(lines, line), r)
             = FilesOf(lines, r) \union
               (IF line.kind = "file" /\ LastRecord(lines, r) THEN {Len(lines) + 1} ELSE {})
<1> DEFINE more == Append(lines, line)
           n == Len(lines)
<1>0. /\ n \in Nat /\ Len(more) = n + 1 /\ more[n + 1] = line
      /\ \A i \in 1 .. n : more[i] = lines[i]
  BY Grown
<1>1. r \in 1 .. n /\ \A h \in Records(lines) : h \in 1 .. n
  BY RecordsType
<1>2. Records(more) = Records(lines) \union (IF line.kind = "record" THEN {n + 1} ELSE {})
  BY RecordsGrow
<1> HIDE DEF more, n
<1>3. ASSUME NEW i \in r + 1 .. n
      PROVE  i \in FilesOf(more, r) <=> i \in FilesOf(lines, r)
  <2>1. i \in 1 .. n /\ i \in r + 1 .. Len(more) /\ n + 1 \notin r + 1 .. i
    BY <1>0, <1>1
  <2>2. Records(more) \intersect r + 1 .. i = Records(lines) \intersect r + 1 .. i
    BY <1>2, <2>1
  <2> QED
    BY <1>0, <2>1, <2>2 DEF FilesOf, n
<1>4. n + 1 \in FilesOf(more, r) <=> line.kind = "file" /\ LastRecord(lines, r)
  <2>1. n + 1 \in r + 1 .. Len(more)
    BY <1>0, <1>1
  <2>2. CASE line.kind = "file"
    <3>1. Records(more) = Records(lines)
      BY <1>2, <2>2
    <3>2. Records(lines) \intersect r + 1 .. n + 1 = {} <=> \A h \in Records(lines) : h <= r
      BY <1>0, <1>1
    <3> QED
      BY <1>0, <2>1, <2>2, <3>1, <3>2 DEF FilesOf, LastRecord
  <2>3. CASE line.kind # "file"
    BY <1>0, <2>3 DEF FilesOf
  <2> QED
    BY <2>2, <2>3
<1>5. /\ \A i \in FilesOf(more, r) : i \in r + 1 .. n \/ i = n + 1
      /\ \A i \in FilesOf(lines, r) : i \in r + 1 .. n
  BY <1>0, <1>1 DEF FilesOf, n
<1>6. FilesOf(more, r) = FilesOf(lines, r) \union
               (IF line.kind = "file" /\ LastRecord(lines, r) THEN {n + 1} ELSE {})
  BY <1>3, <1>4, <1>5
<1> QED
  BY <1>6 DEF more, n

\* Where the counts are found in lines that went on.
LEMMA CountsAppended ==
    ASSUME NEW lines \in Seq(LogLines), NEW line \in LogLines, NEW r \in Records(lines)
    PROVE  /\ Append(lines, line)[r] = lines[r]
           /\ \A i \in FilesOf(lines, r) : Append(lines, line)[i] = lines[i]
           /\ Append(lines, line)[Len(lines) + 1] = line
           /\ Len(lines) + 1 \notin FilesOf(lines, r)
           /\ IsFiniteSet(FilesOf(lines, r))
           /\ \A i \in FilesOf(lines, r) : Atoi(lines[i].add) \in Int /\ Atoi(lines[i].del) \in Int
<1>1. r \in 1 .. Len(lines)
  BY RecordsType
<1>2. /\ Len(lines) \in Nat /\ Append(lines, line)[Len(lines) + 1] = line
      /\ \A i \in 1 .. Len(lines) : Append(lines, line)[i] = lines[i] /\ lines[i] \in LogLines
  BY Grown
<1>3. /\ IsFiniteSet(FilesOf(lines, r))
      /\ \A i \in FilesOf(lines, r) : i \in 1 .. Len(lines) /\ lines[i].kind = "file"
  BY <1>1, FilesType
<1>4. Len(lines) + 1 \notin 1 .. Len(lines)
  BY <1>2
<1>5. \A i \in FilesOf(lines, r) : Atoi(lines[i].add) \in Int /\ Atoi(lines[i].del) \in Int
  BY <1>2, <1>3, LogLineType
<1> QED
  BY <1>1, <1>2, <1>3, <1>4, <1>5

LEMMA CommitType ==
    ASSUME NEW lines \in Seq(LogLines), NEW r \in Records(lines)
    PROVE  CommitOf(lines, r) \in CommitRecords
<1> DEFINE F == FilesOf(lines, r)
           add == [i \in F |-> Atoi(lines[i].add)]
           del == [i \in F |-> Atoi(lines[i].del)]
<1>1. r \in 1 .. Len(lines) /\ lines[r].kind = "record"
  BY RecordsType DEF Records
<1>2. /\ IsFiniteSet(F)
      /\ \A i \in F : i \in 1 .. Len(lines) /\ lines[i].kind = "file"
  BY <1>1, FilesType
<1>3. \A i \in F : Atoi(lines[i].add) \in Int /\ Atoi(lines[i].del) \in Int
  <2>1. \A i \in 1 .. Len(lines) : lines[i] \in LogLines
    OBVIOUS
  <2> QED
    BY <1>2, <2>1, LogLineType
<1>4. SumFunction(add) \in Int
  BY <1>2, <1>3, SumIsInt
<1>5. SumFunction(del) \in Int
  BY <1>2, <1>3, SumIsInt
<1>6. Cardinality(F) \in Int
  BY <1>2, FS_CardinalityType
<1>7. lines[r].sha \in Shas
  <2>1. lines[r] \in LogLines
    BY <1>1
  <2> QED
    BY <1>1, <2>1 DEF Shas
<1> HIDE DEF F, add, del
<1>8. [sha |-> lines[r].sha, files |-> Cardinality(F), insertions |-> SumFunction(add),
       deletions |-> SumFunction(del)] \in CommitRecords
  BY <1>4, <1>5, <1>6, <1>7 DEF CommitRecords
<1> QED
  BY <1>8 DEF CommitOf, F, add, del

\* A line that is not of its files leaves a commit as it is.
LEMMA CommitStays ==
    ASSUME NEW lines \in Seq(LogLines), NEW line \in LogLines, NEW r \in Records(lines),
           line.kind # "file" \/ ~LastRecord(lines, r)
    PROVE  CommitOf(Append(lines, line), r) = CommitOf(lines, r)
<1> DEFINE more == Append(lines, line)
           F == FilesOf(lines, r)
<1>1. FilesOf(more, r) = F
  BY FilesGrow
<1>2. more[r] = lines[r] /\ \A i \in F : more[i] = lines[i]
  BY CountsAppended
<1> HIDE DEF more, F
<1>3. /\ [i \in F |-> Atoi(more[i].add)] = [i \in F |-> Atoi(lines[i].add)]
      /\ [i \in F |-> Atoi(more[i].del)] = [i \in F |-> Atoi(lines[i].del)]
  BY <1>2
<1>4. CommitOf(more, r) = CommitOf(lines, r)
  BY <1>1, <1>2, <1>3 DEF CommitOf, F
<1> QED
  BY <1>4 DEF more

\* A file's line counts for the last record.
LEMMA CommitGrows ==
    ASSUME NEW lines \in Seq(LogLines), NEW line \in LogLines, NEW r \in Records(lines),
           line.kind = "file", LastRecord(lines, r)
    PROVE  CommitOf(Append(lines, line), r) = Numstat(CommitOf(lines, r), line)
<1> DEFINE more == Append(lines, line)
           k == Len(lines) + 1
           F == FilesOf(lines, r)
           G == FilesOf(more, r)
           c == CommitOf(lines, r)
<1>1. G = F \union {k}
  BY FilesGrow
<1>2. /\ more[r] = lines[r] /\ more[k] = line /\ k \notin F /\ IsFiniteSet(F)
      /\ \A i \in F : more[i] = lines[i]
      /\ \A i \in F : Atoi(lines[i].add) \in Int /\ Atoi(lines[i].del) \in Int
  BY CountsAppended
<1>3. Atoi(line.add) \in Int /\ Atoi(line.del) \in Int
  BY LogLineType
<1> HIDE DEF more, k, F, G
<1>4. Cardinality(G) = Cardinality(F) + 1
  BY <1>1, <1>2, FS_AddElement
<1>5. SumFunction([i \in G |-> Atoi(more[i].add)])
        = SumFunction([i \in F |-> Atoi(lines[i].add)]) + Atoi(line.add)
  <2> DEFINE f == [i \in F |-> Atoi(lines[i].add)]
             e == [i \in G |-> Atoi(more[i].add)]
  <2>1. DOMAIN e = G /\ e[k] = Atoi(line.add)
    BY <1>1, <1>2
  <2>2. /\ \A i \in F : f[i] \in Int
        /\ \A i \in F : e[i] = f[i]
        /\ e[k] \in Int
    BY <1>1, <1>2, <1>3
  <2>3. IsFiniteSet(G) /\ k \in G /\ G \ {k} = F
    BY <1>1, <1>2, FS_AddElement
  <2>4. \A i \in G : e[i] \in Int
    BY <1>1, <2>2
  <2>5. [i \in G \ {k} |-> e[i]] = f
    BY <2>2, <2>3
  <2> HIDE DEF f, e
  <2>6. SumFunction(e) = SumFunction([i \in G \ {k} |-> e[i]]) + e[k]
    BY <2>1, <2>3, <2>4, SumOfMore
  <2>7. SumFunction(e) = SumFunction(f) + e[k]
    BY <2>5, <2>6
  <2> QED
    BY <2>1, <2>7 DEF f, e
<1>6. SumFunction([i \in G |-> Atoi(more[i].del)])
        = SumFunction([i \in F |-> Atoi(lines[i].del)]) + Atoi(line.del)
  <2> DEFINE f == [i \in F |-> Atoi(lines[i].del)]
             e == [i \in G |-> Atoi(more[i].del)]
  <2>1. DOMAIN e = G /\ e[k] = Atoi(line.del)
    BY <1>1, <1>2
  <2>2. /\ \A i \in F : f[i] \in Int
        /\ \A i \in F : e[i] = f[i]
        /\ e[k] \in Int
    BY <1>1, <1>2, <1>3
  <2>3. IsFiniteSet(G) /\ k \in G /\ G \ {k} = F
    BY <1>1, <1>2, FS_AddElement
  <2>4. \A i \in G : e[i] \in Int
    BY <1>1, <2>2
  <2>5. [i \in G \ {k} |-> e[i]] = f
    BY <2>2, <2>3
  <2> HIDE DEF f, e
  <2>6. SumFunction(e) = SumFunction([i \in G \ {k} |-> e[i]]) + e[k]
    BY <2>1, <2>3, <2>4, SumOfMore
  <2>7. SumFunction(e) = SumFunction(f) + e[k]
    BY <2>5, <2>6
  <2> QED
    BY <2>1, <2>7 DEF f, e
<1>7. /\ c.sha = lines[r].sha /\ c.files = Cardinality(F)
      /\ c.insertions = SumFunction([i \in F |-> Atoi(lines[i].add)])
      /\ c.deletions = SumFunction([i \in F |-> Atoi(lines[i].del)])
  BY DEF CommitOf, F
<1>9. c \in CommitRecords
  BY CommitType
<1>10. CommitOf(more, r) = [sha |-> c.sha, files |-> c.files + 1,
                           insertions |-> c.insertions + Atoi(line.add),
                           deletions |-> c.deletions + Atoi(line.del)]
  BY <1>2, <1>4, <1>5, <1>6, <1>7 DEF CommitOf, G
<1> HIDE DEF c
<1>11. Numstat(c, line) = [[[c EXCEPT !.files = @ + 1] EXCEPT !.insertions = @ + Atoi(line.add)]
                             EXCEPT !.deletions = @ + Atoi(line.del)]
  BY <1>9 DEF Numstat, CommitRecords
<1>12. Numstat(c, line) = CommitOf(more, r)
  BY <1>9, <1>10, <1>11 DEF CommitRecords
<1> QED
  BY <1>12 DEF more, c

\* A record begins with nothing counted.
LEMMA CommitBegins ==
    ASSUME NEW lines \in Seq(LogLines), NEW line \in LogLines
    PROVE  CommitOf(Append(lines, line), Len(lines) + 1) = Commit(line.sha)
<1> DEFINE more == Append(lines, line)
           k == Len(lines) + 1
<1>1. more[k] = line /\ Len(more) = k /\ k \in Nat
  BY Grown
<1> HIDE DEF more, k
<1>2. FilesOf(more, k) = {}
  BY <1>1 DEF FilesOf
<1>3. \A f : DOMAIN f = {} => SumFunction(f) = 0
  BY SumOfNone
<1>4. Cardinality({}) = 0
  BY FS_EmptySet
<1>5. SumFunction([i \in {} |-> Atoi(more[i].add)]) = 0
  BY <1>3
<1>6. SumFunction([i \in {} |-> Atoi(more[i].del)]) = 0
  BY <1>3
<1>7. CommitOf(more, k) = Commit(line.sha)
  BY <1>1, <1>2, <1>4, <1>5, <1>6 DEF CommitOf, Commit
<1> QED
  BY <1>7 DEF more, k


\* What the lines say of each record.
Counted(lines) == [r \in Records(lines) |-> CommitOf(lines, r)]

LEMMA ListsSame ==
    ASSUME NEW list, NEW S, NEW of, Lists(list, S, of), NEW new, \A i \in S : new[i] = of[i]
    PROVE  Lists(list, S, new)
  BY DEF Lists

\* One turn of the parser's loop, on a line that is not the first of the log or begins a record.
LEMMA ParseTurn ==
    ASSUME NEW lines \in Seq(LogLines), NEW commits \in Seq(CommitRecords), NEW line \in LogLines,
           Lists(commits, Records(lines), Counted(lines)),
           line.kind # "record" => Records(lines) # {}
    PROVE  /\ ParseLine(commits, line) \in Seq(CommitRecords)
           /\ Lists(ParseLine(commits, line),
                    Records(Append(lines, line)), Counted(Append(lines, line)))
<1> DEFINE more == Append(lines, line)
           n == Len(lines)
           S == Records(lines)
           T == Records(more)
           old == Counted(lines)
           new == Counted(more)
           next == ParseLine(commits, line)
<1>1. /\ S \in SUBSET Nat /\ IsFiniteSet(S) /\ n \in Nat
      /\ \A r \in S : r \in 1 .. n
  BY RecordsType
<1>2. T = S \union (IF line.kind = "record" THEN {n + 1} ELSE {})
  BY RecordsGrow
<1>3. ASSUME NEW r \in S, line.kind # "file" \/ ~LastRecord(lines, r)
      PROVE  new[r] = old[r]
  BY <1>2, <1>3, CommitStays DEF Counted
<1>4. ASSUME line.kind = "file", NEW r \in S, LastRecord(lines, r)
      PROVE  new[r] = Numstat(old[r], line)
  BY <1>2, <1>4, CommitGrows DEF Counted
<1>5. line.kind = "record" => new[n + 1] = Commit(line.sha)
  BY <1>2, CommitBegins DEF Counted
<1>6. \A r \in T : new[r] \in CommitRecords
  <2>1. more \in Seq(LogLines)
    BY Grown
  <2> QED
    BY <2>1, CommitType DEF Counted
<1>7. Lists(commits, S, old)
  OBVIOUS
<1>8. line.kind \in {"record", "file", "blank"} /\ (line.kind # "record" => S # {})
  BY LogLineType
<1>9. /\ line.kind = "record" => next = Append(commits, Commit(line.sha))
      /\ line.kind = "file" => next = Append(Front(commits), Numstat(Last(commits), line))
      /\ line.kind = "blank" => next = commits
  BY DEF ParseLine
<1>10. \A r \in S : LastRecord(lines, r) <=> \A h \in S : h <= r
  BY DEF LastRecord
<1> HIDE DEF n, S, T, old, new, next
<1>11. CASE line.kind = "record"
  <2>1. n + 1 \in Nat /\ (\A j \in S : j < n + 1) /\ T = S \union {n + 1}
    BY <1>1, <1>2, <1>11
  <2>2. new[n + 1] = Commit(line.sha) /\ \A i \in S : new[i] = old[i]
    BY <1>3, <1>5, <1>11
  <2>3. Commit(line.sha) \in CommitRecords
    <3>1. n + 1 \in T
      BY <2>1
    <3> QED
      BY <1>6, <2>2, <3>1
  <2>4. next = Append(commits, Commit(line.sha))
    BY <1>9, <1>11
  <2>5. next \in Seq(CommitRecords)
    BY <2>3, <2>4
  <2>6. S \in SUBSET Nat /\ IsFiniteSet(S)
    BY <1>1
  <2>7. Lists(Append(commits, Commit(line.sha)), S \union {n + 1}, new)
    BY <1>7, <2>1, <2>2, <2>3, <2>6, ListsMore
  <2> QED
    BY <2>1, <2>4, <2>5, <2>7 DEF next, T, new, more
<1>12. CASE line.kind = "file"
  <2> DEFINE k == Max(S)
  <2>1. k \in S /\ \A h \in S : h <= k
    <3>1. S \in SUBSET (1 .. n) /\ S # {}
      BY <1>1, <1>8, <1>12
    <3> QED
      BY <1>1, <3>1, MaxOf
  <2> HIDE DEF k
  <2>2. LastRecord(lines, k) /\ \A i \in S \ {k} : ~LastRecord(lines, i)
    <3>1. \A i \in S : (\A h \in S : h <= i) => i = k
      <4>1. \A i \in S : i \in Nat
        BY <1>1
      <4> QED
        BY <2>1, <4>1
    <3> QED
      BY <1>10, <2>1, <3>1
  <2>3. new[k] = Numstat(old[k], line) /\ \A i \in S \ {k} : new[i] = old[i]
    BY <1>3, <1>4, <1>12, <2>1, <2>2
  <2>4. S \in SUBSET Nat /\ IsFiniteSet(S)
    BY <1>1
  <2>5. Last(commits) = old[k]
    BY <1>7, <2>1, <2>4, ListsLast
  <2>6. /\ Lists(Front(commits), S \ {k}, old) /\ commits # <<>>
        /\ IsFiniteSet(S \ {k}) /\ \A j \in S \ {k} : j < k
    BY <1>7, <2>1, <2>4, ListsLess
  <2>7. Front(commits) \in Seq(CommitRecords)
    BY <2>6, SameFront
  <2>8. new[k] \in CommitRecords /\ T = S /\ S = (S \ {k}) \union {k}
    BY <1>2, <1>6, <1>12, <2>1
  <2>9. S \ {k} \in SUBSET Nat /\ k \in Nat
    BY <2>1, <2>4
  <2>10. Lists(Append(Front(commits), new[k]), (S \ {k}) \union {k}, new)
    BY <2>3, <2>6, <2>7, <2>8, <2>9, ListsMore
  <2>11. next = Append(Front(commits), new[k])
    BY <1>9, <1>12, <2>3, <2>5
  <2>12. next \in Seq(CommitRecords)
    BY <2>7, <2>8, <2>11
  <2> QED
    BY <2>8, <2>10, <2>11, <2>12 DEF next, T, new, more
<1>13. CASE line.kind = "blank"
  <2>1. next = commits /\ T = S /\ \A i \in S : new[i] = old[i]
    BY <1>2, <1>3, <1>9, <1>13
  <2>2. Lists(commits, S, new)
    BY <1>7, <2>1, ListsSame
  <2> QED
    BY <2>1, <2>2 DEF next, T, new, more
<1> QED
  BY <1>8, <1>11, <1>12, <1>13

CountsInv ==
    subject = "log" =>
        /\ input \in Seq(LogLines) /\ loop \in Seq(CommitRecords)
        /\ input # <<>> => Records(input) # {}
        /\ Lists(loop, Records(input), Counted(input))

LEMMA CountsInit == Init => CountsInv
<1> SUFFICES ASSUME Init, subject = "log" PROVE CountsInv
  BY DEF CountsInv
<1>1. input = <<>> /\ loop = <<>>
  BY DEF Init, Begin
<1>2. Records(input) = {}
  BY <1>1 DEF Records
<1>3. Lists(loop, Records(input), Counted(input))
  BY <1>1, <1>2, FS_EmptySet DEF Lists
<1>4. input \in Seq(LogLines) /\ loop \in Seq(CommitRecords)
  BY <1>1
<1> QED
  BY <1>1, <1>3, <1>4 DEF CountsInv

LEMMA CountsStep ==
    ASSUME CountsInv, NEW line \in LogLines, ReadLog(line)
    PROVE  CountsInv'
<1>0. /\ input \in Seq(LogLines) /\ loop \in Seq(CommitRecords)
      /\ input # <<>> => Records(input) # {}
      /\ Lists(loop, Records(input), Counted(input))
      /\ input' = Append(input, line) /\ loop' = ParseLine(loop, line)
      /\ input'[1].kind = "record"
  BY DEF CountsInv, ReadLog, Read
<1>1. line.kind # "record" => Records(input) # {}
  <2>1. input = <<>> => input'[1] = line
    BY <1>0
  <2> QED
    BY <1>0, <2>1
<1>2. /\ loop' \in Seq(CommitRecords)
      /\ Lists(loop', Records(input'), Counted(input'))
  BY <1>0, <1>1, ParseTurn
<1>3. input' \in Seq(LogLines)
  BY <1>0
<1>4. Records(input') # {}
  BY <1>0, <1>1, RecordsGrow
<1> QED
  BY <1>2, <1>3, <1>4 DEF CountsInv

(***************************************************************************)
(* Of a log of any length, with whatever counts, each commit found has the *)
(* counts of its own record's lines, and none is lost or made up           *)
(* (commits.go, the loop over git's output).                               *)
(***************************************************************************)
THEOREM CountsFound == Spec => []CountsAddUp
<1>1. CountsInv /\ [Next]_vars => CountsInv'
  <2> SUFFICES ASSUME CountsInv, [Next]_vars PROVE CountsInv'
    OBVIOUS
  <2>1. CASE UNCHANGED vars
    <3>1. input' = input /\ loop' = loop /\ subject' = subject
      BY <2>1
    <3> QED
      BY <3>1, Zenon DEF CountsInv
  <2>2. ASSUME subject # "log" /\ UNCHANGED subject PROVE CountsInv'
    BY <2>2 DEF CountsInv
  <2> QED
    BY <2>1, <2>2, CountsStep
    DEF Next, ReadBeat, ReadPnpm, ReadJson, ReadConfig, CheckOut, Read
<1>2. CountsInv => CountsAddUp
  <2>1. \A r \in Records(input) : Counted(input)[r] = CommitOf(input, r)
    BY DEF Counted
  <2> QED
    BY <2>1 DEF CountsInv, CountsAddUp, Lists
<1> QED
  BY CountsInit, <1>1, <1>2, PTL DEF Spec

-----------------------------------------------------------------------------
(* stripTrailingCommas *)

\* h begins with b, and goes on from each number to the next.
GoesOn(h, b, n, next) == h[0] = b /\ \A i \in 1 .. n : h[i] = next[<<h[i - 1], i>>]

LEMMA Iterates ==
    ASSUME NEW S, NEW b \in S, NEW n \in Nat,
           NEW next, \A s \in S, i \in 1 .. n : next[<<s, i>>] \in S
    PROVE  \E h \in [0 .. n -> S] : GoesOn(h, b, n, next)
<1> DEFINE P == {m \in Nat : m <= n => \E h \in [0 .. m -> S] : GoesOn(h, b, m, next)}
<1>1. 0 \in P
  <2> DEFINE h == [i \in 0 .. 0 |-> b]
  <2>1. h \in [0 .. 0 -> S] /\ h[0] = b /\ \A i \in 1 .. 0 : h[i] = next[<<h[i - 1], i>>]
    OBVIOUS
  <2> QED
    BY <2>1 DEF GoesOn
<1>2. ASSUME NEW m \in Nat, m \in P PROVE m + 1 \in P
  <2> SUFFICES ASSUME m + 1 <= n
               PROVE  \E h \in [0 .. m + 1 -> S] : GoesOn(h, b, m + 1, next)
    OBVIOUS
  <2>0. PICK g \in [0 .. m -> S] : GoesOn(g, b, m, next)
    BY <1>2
  <2>1. g[0] = b /\ \A i \in 1 .. m : g[i] = next[<<g[i - 1], i>>]
    BY <2>0 DEF GoesOn
  <2> DEFINE h == [i \in 0 .. m + 1 |-> IF i = m + 1 THEN next[<<g[m], m + 1>>] ELSE g[i]]
  <2>2. next[<<g[m], m + 1>>] \in S
    <3>1. g[m] \in S /\ m + 1 \in 1 .. n
      OBVIOUS
    <3> QED
      BY <3>1
  <2>3. h \in [0 .. m + 1 -> S]
    BY <2>2
  <2>4. h[0] = b
    BY <2>1
  <2>5. ASSUME NEW i \in 1 .. m + 1 PROVE h[i] = next[<<h[i - 1], i>>]
    <3>1. CASE i = m + 1
      <4>1. i - 1 = m /\ m \in 0 .. m + 1 /\ m # m + 1 /\ i \in 0 .. m + 1
        BY <3>1
      <4>2. h[i - 1] = g[m] /\ h[i] = next[<<g[m], m + 1>>]
        BY <3>1, <4>1
      <4> QED
        BY <3>1, <4>2
    <3>2. CASE i # m + 1
      <4>1. i \in 1 .. m /\ i - 1 \in 0 .. m + 1 /\ i - 1 # m + 1
        BY <3>2
      <4>2. h[i] = g[i] /\ h[i - 1] = g[i - 1]
        BY <4>1
      <4> QED
        BY <2>1, <4>1, <4>2
    <3> QED
      BY <3>1, <3>2
  <2> HIDE DEF h
  <2> QED
    BY <2>3, <2>4, <2>5 DEF GoesOn
<1>3. P \in SUBSET Nat
  OBVIOUS
<1> HIDE DEF P
<1>4. P = Nat
  BY <1>1, <1>2, <1>3, EveryNumber
<1>5. n \in P
  BY <1>4
<1> QED
  BY <1>5 DEF P

\* What FlattenSeq has after each of the sequences.
FlattensTo(seqs, flat) ==
    /\ flat[0] = <<>>
    /\ \A i \in 1 .. Len(seqs) : flat[i] = flat[i - 1] \o seqs[i]
    /\ FlattenSeq(seqs) = flat[Len(seqs)]

LEMMA FlattenByOne ==
    ASSUME NEW X, NEW seqs \in Seq(Seq(X))
    PROVE  \E flat \in [0 .. Len(seqs) -> Seq(X)] : FlattensTo(seqs, flat)
<1> DEFINE n == Len(seqs)
           S == Seq(X)
           next == [x \in S \X (1 .. n) |-> x[1] \o seqs[x[2]]]
<1>1. n \in Nat /\ \A i \in 1 .. n : seqs[i] \in S
  OBVIOUS
<1>2. ASSUME NEW s \in S, NEW i \in 1 .. n
      PROVE  next[<<s, i>>] = s \o seqs[i] /\ next[<<s, i>>] \in S
  <2>1. seqs[i] \in S
    BY <1>1
  <2>2. <<s, i>> \in S \X (1 .. n)
    OBVIOUS
  <2>3. next[<<s, i>>] = s \o seqs[i]
    BY <2>2
  <2>4. s \o seqs[i] \in S
    BY <2>1
  <2> QED
    BY <2>3, <2>4
<1>3. <<>> \in S
  OBVIOUS
<1> HIDE DEF n
<1>4. PICK h \in [0 .. n -> S] : GoesOn(h, <<>>, n, next)
  <2>1. n \in Nat
    BY <1>1
  <2>2. \A s \in S, i \in 1 .. n : next[<<s, i>>] \in S
    BY <1>2
  <2> HIDE DEF S, next
  <2> QED
    BY <1>3, <2>1, <2>2, Iterates
<1>5. ASSUME NEW i \in 1 .. n PROVE h[i] = h[i - 1] \o seqs[i]
  <2>1. h[i - 1] \in S
    BY <1>1
  <2>2. next[<<h[i - 1], i>>] = h[i - 1] \o seqs[i]
    BY <1>2, <2>1
  <2>3. h[i] = next[<<h[i - 1], i>>]
    BY <1>4 DEF GoesOn
  <2> QED
    BY <2>2, <2>3
<1>8. h[0] = <<>>
  BY <1>4 DEF GoesOn
<1> HIDE DEF next
<1>6. CASE n = 0
  <2>1. seqs = <<>> /\ FlattenSeq(seqs) = <<>>
    BY <1>6 DEF FlattenSeq, n
  <2> QED
    BY <1>8, <1>5, <1>6, <2>1 DEF FlattensTo, n
<1>7. CASE n # 0
  <2> DEFINE Is(f) == f = [i \in 1 .. n |-> IF i = 1 THEN seqs[i] ELSE f[i - 1] \o seqs[i]]
             f == CHOOSE f : Is(f)
             g == [i \in 1 .. n |-> h[i]]
  <2>1. Is(g)
    <3>1. ASSUME NEW i \in 1 .. n
          PROVE  g[i] = IF i = 1 THEN seqs[i] ELSE g[i - 1] \o seqs[i]
      <4>1. CASE i = 1
        <5>1. h[i] = h[i - 1] \o seqs[i] /\ seqs[i] \in S
          BY <1>1, <1>5
        <5>2. i - 1 = 0
          BY <4>1
        <5>3. h[i] = <<>> \o seqs[i]
          BY <1>8, <5>1, <5>2
        <5>4. g[i] = seqs[i]
          BY <5>1, <5>3
        <5> QED
          BY <4>1, <5>4
      <4>2. CASE i # 1
        <5>1. i - 1 \in 1 .. n
          BY <1>1, <4>2
        <5> QED
          BY <1>5, <4>2, <5>1
      <4> QED
        BY <4>1, <4>2
    <3> QED
      BY <3>1
  <2>2. Is(f)
    <3> HIDE DEF Is, g
    <3> QED
      BY <2>1
  <2>3. FlattenSeq(seqs) = f[n]
    BY <1>1, <1>7 DEF FlattenSeq, n
  <2> HIDE DEF f
  <2> DEFINE P == {m \in Nat : m \in 1 .. n => f[m] = h[m]}
  <2>4. 0 \in P
    BY <1>1
  <2>5. ASSUME NEW m \in Nat, m \in P PROVE m + 1 \in P
    <3> SUFFICES ASSUME m + 1 \in 1 .. n PROVE f[m + 1] = h[m + 1]
      OBVIOUS
    <3>1. f[m + 1] = IF m + 1 = 1 THEN seqs[m + 1] ELSE f[(m + 1) - 1] \o seqs[m + 1]
      BY <2>2
    <3>5. (m + 1) - 1 = m
      OBVIOUS
    <3>2. h[m + 1] = h[(m + 1) - 1] \o seqs[m + 1]
      BY <1>5
    <3>3. CASE m = 0
      <4>1. h[0] = <<>> /\ seqs[m + 1] \in S
        BY <1>1, <1>8
      <4>2. h[m + 1] = <<>> \o seqs[m + 1]
        BY <3>2, <3>3, <3>5, <4>1
      <4>3. m + 1 = 1
        BY <3>3
      <4>4. f[m + 1] = seqs[m + 1]
        BY <3>1, <4>3
      <4> QED
        BY <4>1, <4>2, <4>4
    <3>4. CASE m # 0
      <4>1. m \in 1 .. n /\ m + 1 # 1
        BY <1>1, <3>4
      <4>2. f[m] = h[m]
        BY <2>5, <4>1
      <4> QED
        BY <3>1, <3>2, <3>5, <4>1, <4>2
    <3> QED
      BY <3>3, <3>4
  <2>6. P \in SUBSET Nat
    OBVIOUS
  <2>9. n \in 1 .. n
    BY <1>1, <1>7
  <2> HIDE DEF P
  <2>7. P = Nat
    BY <2>4, <2>5, <2>6, EveryNumber
  <2>8. f[n] = h[n]
    BY <1>1, <2>7, <2>9 DEF P
  <2> QED
    BY <1>8, <1>5, <2>3, <2>8 DEF FlattensTo, n
<1> QED
  BY <1>6, <1>7

\* What stripTrailingCommas has after each byte.
StripStates(X) == [out : Seq(X), inString : BOOLEAN, escaped : BOOLEAN]

StripsTo(data, st) ==
    /\ st[0] = StripBegin
    /\ \A i \in 1 .. Len(data) : st[i] = StripByte(st[i - 1], data, i)
    /\ StripTrailingCommas(data) = st[Len(data)].out

LEMMA StripByOne ==
    ASSUME NEW X, NEW data \in Seq(X)
    PROVE  \E st \in [0 .. Len(data) -> StripStates(X)] : StripsTo(data, st)
<1> DEFINE n == Len(data)
           S == StripStates(X)
           next == [x \in S \X (1 .. n) |-> StripByte(x[1], data, x[2])]
<1>1. n \in Nat /\ \A i \in 1 .. n : data[i] \in X
  OBVIOUS
<1>2. ASSUME NEW s \in S, NEW i \in 1 .. n
      PROVE  next[<<s, i>>] = StripByte(s, data, i) /\ next[<<s, i>>] \in S
  <2>1. data[i] \in X /\ s.out \in Seq(X)
    BY <1>1 DEF StripStates
  <2>2. Append(s.out, data[i]) \in Seq(X)
    BY <2>1
  <2>3. StripByte(s, data, i) \in S
    BY <2>1, <2>2 DEF StripByte, StripStates
  <2>4. <<s, i>> \in S \X (1 .. n)
    OBVIOUS
  <2>5. next[<<s, i>>] = StripByte(s, data, i)
    BY <2>4
  <2> QED
    BY <2>3, <2>5
<1>3. StripBegin \in S
  BY DEF StripBegin, StripStates
<1> HIDE DEF n
<1>4. PICK h \in [0 .. n -> S] : GoesOn(h, StripBegin, n, next)
  <2>1. n \in Nat
    BY <1>1
  <2>2. \A s \in S, i \in 1 .. n : next[<<s, i>>] \in S
    BY <1>2
  <2> HIDE DEF S, next
  <2> QED
    BY <1>3, <2>1, <2>2, Iterates
<1>5. ASSUME NEW i \in 1 .. n PROVE h[i] = StripByte(h[i - 1], data, i)
  <2>1. h[i - 1] \in S
    BY <1>1
  <2>2. next[<<h[i - 1], i>>] = StripByte(h[i - 1], data, i)
    BY <1>2, <2>1
  <2>3. h[i] = next[<<h[i - 1], i>>]
    BY <1>4 DEF GoesOn
  <2> QED
    BY <2>2, <2>3
<1>6. h[0] = StripBegin
  BY <1>4 DEF GoesOn
<1> HIDE DEF next, S
<1> DEFINE Is(f) == f = [i \in 0 .. n |-> IF i = 0 THEN StripBegin ELSE StripByte(f[i - 1], data, i)]
           f == CHOOSE f : Is(f)
<1>7. Is(h)
  <2>1. \A i \in 0 .. n : i # 0 => i \in 1 .. n
    BY <1>1
  <2>2. ASSUME NEW i \in 0 .. n
        PROVE  h[i] = IF i = 0 THEN StripBegin ELSE StripByte(h[i - 1], data, i)
    BY <1>5, <1>6, <2>1
  <2> QED
    BY <2>2
<1>8. Is(f)
  <2> HIDE DEF Is
  <2> QED
    BY <1>7
<1>9. StripTrailingCommas(data) = f[n].out
  BY DEF StripTrailingCommas, n
<1> HIDE DEF f
<1> DEFINE P == {m \in Nat : m <= n => f[m] = h[m]}
<1>10. 0 \in P
  <2>1. f[0] = StripBegin
    BY <1>1, <1>8
  <2> QED
    BY <1>6, <2>1
<1>11. ASSUME NEW m \in Nat, m \in P PROVE m + 1 \in P
  <2> SUFFICES ASSUME m + 1 <= n PROVE f[m + 1] = h[m + 1]
    OBVIOUS
  <2>1. m + 1 \in 1 .. n /\ m + 1 \in 0 .. n /\ m + 1 # 0 /\ (m + 1) - 1 = m /\ m <= n
    BY <1>1
  <2>2. f[m + 1] = StripByte(f[(m + 1) - 1], data, m + 1)
    BY <1>8, <2>1
  <2>3. h[m + 1] = StripByte(h[(m + 1) - 1], data, m + 1)
    BY <1>5, <2>1
  <2>4. f[m] = h[m]
    BY <1>11, <2>1
  <2> QED
    BY <2>1, <2>2, <2>3, <2>4
<1>12. P \in SUBSET Nat
  OBVIOUS
<1> HIDE DEF P
<1>13. P = Nat
  BY <1>10, <1>11, <1>12, EveryNumber
<1>14. f[n] = h[n]
  BY <1>1, <1>13 DEF P
<1> QED
  BY <1>5, <1>6, <1>9, <1>14 DEF StripsTo, n, S

\* Two sequences, one after the other.
LEMMA Joined ==
    ASSUME NEW X, NEW s \in Seq(X), NEW t \in Seq(X)
    PROVE  /\ s \o t \in Seq(X)
           /\ Len(s) \in Nat /\ Len(t) \in Nat
           /\ Len(s \o t) = Len(s) + Len(t)
           /\ \A i \in 1 .. Len(s) : (s \o t)[i] = s[i]
           /\ \A i \in 1 .. Len(t) : (s \o t)[Len(s) + i] = t[i]
<1>1. s \o t \in Seq(X) /\ Len(s) \in Nat /\ Len(t) \in Nat
  OBVIOUS
<1>2. Len(s \o t) = Len(s) + Len(t)
  OBVIOUS
<1>3. \A i \in 1 .. Len(s) : (s \o t)[i] = s[i]
  OBVIOUS
<1>4. \A i \in 1 .. Len(t) : (s \o t)[Len(s) + i] = t[i]
  <2> SUFFICES ASSUME NEW i \in 1 .. Len(t) PROVE (s \o t)[Len(s) + i] = t[i]
    OBVIOUS
  <2>1. Len(s) + i \in 1 .. Len(s) + Len(t) /\ ~(Len(s) + i <= Len(s)) /\ (Len(s) + i) - Len(s) = i
    BY <1>1
  <2> QED
    BY <2>1
<1> QED
  BY <1>1, <1>2, <1>3, <1>4

\* The first sequences make the first bytes.
LEMMA FlatStays ==
    ASSUME NEW X, NEW seqs \in Seq(Seq(X)), NEW flat \in [0 .. Len(seqs) -> Seq(X)],
           FlattensTo(seqs, flat), NEW k \in 0 .. Len(seqs)
    PROVE  /\ Len(flat[k]) <= Len(FlattenSeq(seqs))
           /\ \A p \in 1 .. Len(flat[k]) : FlattenSeq(seqs)[p] = flat[k][p]
<1> DEFINE n == Len(seqs)
           Within(m) == /\ Len(flat[k]) <= Len(flat[m])
                        /\ \A p \in 1 .. Len(flat[k]) : flat[m][p] = flat[k][p]
           P == {d \in Nat : k + d <= n => Within(k + d)}
<1>1. n \in Nat /\ k \in Nat /\ k <= n
  OBVIOUS
<1>8. \A i \in 0 .. n : flat[i] \in Seq(X)
  OBVIOUS
<1>11. \A i \in 0 .. n : Len(flat[i]) \in Nat
  BY <1>8
<1>9. \A i \in 1 .. n : flat[i] = flat[i - 1] \o seqs[i]
  BY DEF FlattensTo
<1>10. \A i \in 1 .. n : seqs[i] \in Seq(X)
  OBVIOUS
<1> HIDE DEF n
<1>2. 0 \in P
  <2>1. k + 0 = k /\ Len(flat[k]) \in Nat
    BY <1>1, <1>11
  <2>2. Within(k)
    BY <2>1
  <2> QED
    BY <2>1, <2>2
<1>3. ASSUME NEW d \in Nat, d \in P PROVE d + 1 \in P
  <2> SUFFICES ASSUME k + (d + 1) <= n PROVE Within(k + (d + 1))
    OBVIOUS
  <2> DEFINE m == k + d
  <2>1. m + 1 = k + (d + 1) /\ m \in 0 .. n /\ m + 1 \in 1 .. n /\ (m + 1) - 1 = m
    BY <1>1
  <2>2. Within(m)
    BY <1>1, <1>3, <2>1
  <2> HIDE DEF m
  <2>3. flat[m] \in Seq(X) /\ seqs[m + 1] \in Seq(X)
    BY <1>8, <1>10, <2>1
  <2>7. flat[m + 1] = flat[m] \o seqs[m + 1]
    BY <1>9, <2>1
  <2>4. /\ Len(flat[m + 1]) = Len(flat[m]) + Len(seqs[m + 1])
        /\ Len(flat[m]) \in Nat /\ Len(seqs[m + 1]) \in Nat
        /\ \A p \in 1 .. Len(flat[m]) : flat[m + 1][p] = flat[m][p]
    BY <2>3, <2>7, Joined
  <2>5. Len(flat[k]) \in Nat
    BY <1>1, <1>11
  <2>8. \A p \in 1 .. Len(flat[k]) : p \in 1 .. Len(flat[m])
    BY <2>2, <2>4, <2>5
  <2>9. Len(flat[k]) <= Len(flat[m + 1])
    <3> DEFINE a == Len(flat[k])
               b == Len(flat[m])
               c == Len(seqs[m + 1])
    <3>1. a \in Nat /\ b \in Nat /\ c \in Nat /\ a <= b
      BY <2>2, <2>4, <2>5
    <3>2. Len(flat[m + 1]) = b + c
      BY <2>4
    <3> HIDE DEF a, b, c
    <3>3. a <= b + c
      BY <3>1
    <3> QED
      BY <3>2, <3>3 DEF a
  <2>6. Within(m + 1)
    BY <2>2, <2>4, <2>8, <2>9
  <2> QED
    BY <2>1, <2>6
<1>4. P \in SUBSET Nat
  OBVIOUS
<1>5. n - k \in Nat /\ k + (n - k) = n /\ n <= n
  BY <1>1
<1> HIDE DEF Within
<1>6. P = Nat
  <2> HIDE DEF P
  <2> QED
    BY <1>2, <1>3, <1>4, EveryNumber
<1>7. Within(n)
  <2>1. n - k \in P
    BY <1>5, <1>6
  <2> QED
    BY <1>5, <2>1
<1> QED
  BY <1>7 DEF Within, FlattensTo, n

\* Where the bytes of each sequence are.
BytesAt(seqs, flat, k) ==
    /\ Len(flat[k]) = Len(flat[k - 1]) + Len(seqs[k])
    /\ Len(flat[k]) <= Len(FlattenSeq(seqs))
    /\ \A p \in 1 .. Len(seqs[k]) : FlattenSeq(seqs)[Len(flat[k - 1]) + p] = seqs[k][p]

LEMMA BytesOf ==
    ASSUME NEW X, NEW seqs \in Seq(Seq(X)), NEW flat \in [0 .. Len(seqs) -> Seq(X)],
           FlattensTo(seqs, flat), NEW k \in 1 .. Len(seqs)
    PROVE  BytesAt(seqs, flat, k)
<1>1. k - 1 \in 0 .. Len(seqs) /\ k \in 0 .. Len(seqs)
  OBVIOUS
<1>2. seqs[k] \in Seq(X)
  OBVIOUS
<1>7. flat[k - 1] \in Seq(X)
  BY <1>1
<1>6. flat[k] = flat[k - 1] \o seqs[k]
  BY DEF FlattensTo
<1> DEFINE s == flat[k - 1]
           t == seqs[k]
<1> HIDE DEF s, t
<1>8. s \in Seq(X) /\ t \in Seq(X) /\ flat[k] = s \o t
  BY <1>2, <1>6, <1>7 DEF s, t
<1>9. /\ Len(flat[k]) = Len(s) + Len(t)
      /\ Len(s) \in Nat /\ Len(t) \in Nat
  BY <1>8, Joined
<1>10. \A p \in 1 .. Len(t) : flat[k][Len(s) + p] = t[p]
  BY <1>8, Joined
<1>4. /\ Len(flat[k]) <= Len(FlattenSeq(seqs))
      /\ \A p \in 1 .. Len(flat[k]) : FlattenSeq(seqs)[p] = flat[k][p]
  <2> DEFINE j == k
  <2>1. j \in 0 .. Len(seqs)
    BY <1>1
  <2> HIDE DEF j
  <2>2. /\ Len(flat[j]) <= Len(FlattenSeq(seqs))
        /\ \A p \in 1 .. Len(flat[j]) : FlattenSeq(seqs)[p] = flat[j][p]
    BY <2>1, FlatStays
  <2> QED
    BY <2>2 DEF j
<1>5. \A p \in 1 .. Len(t) : Len(s) + p \in 1 .. Len(flat[k])
  <2> DEFINE a == Len(s)
             b == Len(t)
             c == Len(flat[k])
  <2>1. a \in Nat /\ b \in Nat /\ c = a + b
    BY <1>9
  <2> HIDE DEF a, b, c
  <2>2. \A p \in 1 .. b : a + p \in 1 .. c
    BY <2>1
  <2> QED
    BY <2>2 DEF a, b, c
<1>11. \A p \in 1 .. Len(t) : FlattenSeq(seqs)[Len(s) + p] = t[p]
  BY <1>4, <1>5, <1>10
<1> QED
  BY <1>4, <1>9, <1>11 DEF s, t, BytesAt

-----------------------------------------------------------------------------
LEMMA Distinct ==
    /\ Quote # Backslash /\ Quote # Comma /\ Quote # Space /\ Quote # Bracket
    /\ Comma # Space /\ Comma # Bracket /\ Space # Bracket
  BY DEF Quote, Backslash, Comma, Space, Bracket

\* Where each token ends in the text the tokens make.
LaidOut(tokens, data, at) ==
    /\ at \in [0 .. Len(tokens) -> Nat]
    /\ at[0] = 0 /\ at[Len(tokens)] = Len(data)
    /\ \A k \in 1 .. Len(tokens) :
         /\ at[k] = at[k - 1] + Len(tokens[k]) /\ at[k] <= Len(data)
         /\ \A p \in 1 .. Len(tokens[k]) : data[at[k - 1] + p] = tokens[k][p]

LEMMA LaidOutSo ==
    ASSUME NEW seqs \in Seq(Seq(Byte)), NEW flat \in [0 .. Len(seqs) -> Seq(Byte)],
           FlattensTo(seqs, flat)
    PROVE  LaidOut(seqs, FlattenSeq(seqs), [k \in 0 .. Len(seqs) |-> Len(flat[k])])
<1>8. \A k \in 1 .. Len(seqs) : BytesAt(seqs, flat, k)
  BY BytesOf
<1> DEFINE n == Len(seqs)
           at == [k \in 0 .. n |-> Len(flat[k])]
<1>0. n \in Nat /\ 0 \in 0 .. n /\ n \in 0 .. n
  OBVIOUS
<1>7. \A k \in 0 .. n : flat[k] \in Seq(Byte)
  OBVIOUS
<1>1. \A k \in 0 .. n : Len(flat[k]) \in Nat
  BY <1>7
<1>2. at \in [0 .. n -> Nat]
  BY <1>1
<1>3. flat[0] = <<>> /\ FlattenSeq(seqs) = flat[n]
  BY DEF FlattensTo
<1>4. at[0] = 0 /\ at[n] = Len(FlattenSeq(seqs))
  BY <1>0, <1>3
<1>5. ASSUME NEW k \in 1 .. n
      PROVE  /\ at[k] = at[k - 1] + Len(seqs[k]) /\ at[k] <= Len(FlattenSeq(seqs))
             /\ \A p \in 1 .. Len(seqs[k]) : FlattenSeq(seqs)[at[k - 1] + p] = seqs[k][p]
  <2>1. k \in 0 .. n /\ k - 1 \in 0 .. n
    BY <1>0
  <2>2. at[k] = Len(flat[k]) /\ at[k - 1] = Len(flat[k - 1])
    BY <2>1
  <2>3. k \in 1 .. Len(seqs)
    BY DEF n
  <2>4. /\ Len(flat[k]) = Len(flat[k - 1]) + Len(seqs[k])
        /\ Len(flat[k]) <= Len(FlattenSeq(seqs))
        /\ \A p \in 1 .. Len(seqs[k]) : FlattenSeq(seqs)[Len(flat[k - 1]) + p] = seqs[k][p]
    BY <1>8, <2>3 DEF BytesAt
  <2> QED
    BY <2>2, <2>4
<1> QED
  BY <1>2, <1>4, <1>5 DEF LaidOut, n, at

\* A token that does not begin with a quote is one byte.
LEMMA TokenType ==
    ASSUME NEW token \in JsonTokens
    PROVE  /\ token \in Seq(Byte) /\ Len(token) \in Nat /\ Len(token) >= 1
           /\ token[1] = Quote => IsString(token)
           /\ token[1] # Quote => token = <<token[1]>>
<1>1. token \in Seq(Byte) /\ Len(token) \in Nat
  BY JsonTokensAssumption
<1>2. CASE IsString(token)
  <2>1. Len(token) > 1 /\ \E escaped \in [1 .. Len(token) -> BOOLEAN] :
          /\ \A i \in 1 .. Len(token) :
             escaped[i] <=> i > 1 /\ ~escaped[i - 1] /\ token[i - 1] = Backslash
          /\ \A i \in 1 .. Len(token) :
               token[i] = Quote /\ ~escaped[i] <=> i \in {1, Len(token)}
    BY <1>2 DEF IsString
  <2>2. 1 \in 1 .. Len(token) /\ 1 \in {1, Len(token)}
    BY <1>1, <2>1
  <2>3. token[1] = Quote
    BY <2>1, <2>2
  <2> QED
    BY <1>1, <1>2, <2>1, <2>3
<1>3. CASE Len(token) = 1 /\ token[1] # Quote
  <2>1. token = <<token[1]>>
    BY <1>1, <1>3
  <2> QED
    BY <1>1, <1>3, <2>1
<1> QED
  BY <1>2, <1>3, JsonTokensAssumption

\* The byte after a token is the next token, unless it begins a string.
SameNext(tokens, data, at, k, c) ==
    at[k] < Len(data) /\ data[at[k] + 1] = c <=> k < Len(tokens) /\ tokens[k + 1] = <<c>>

LEMMA TokenAt ==
    ASSUME NEW tokens \in Seq(JsonTokens), NEW data \in Seq(Byte), NEW at,
           LaidOut(tokens, data, at), NEW k \in 0 .. Len(tokens), NEW c, c # Quote
    PROVE  SameNext(tokens, data, at, k, c)
<1> DEFINE n == Len(tokens)
           N == Len(data)
<1>1. n \in Nat /\ N \in Nat /\ \A i \in 1 .. n : tokens[i] \in JsonTokens
  OBVIOUS
<1>2. at[k] \in Nat
  BY DEF LaidOut
<1>3. CASE k = n
  BY <1>1, <1>2, <1>3 DEF LaidOut, SameNext
<1>4. CASE k < n
  <2> DEFINE t == tokens[k + 1]
  <2>1. k + 1 \in 1 .. n /\ (k + 1) - 1 = k
    BY <1>1, <1>4
  <2>2. t \in JsonTokens
    BY <1>1, <2>1
  <2>3. /\ Len(t) \in Nat /\ Len(t) >= 1
        /\ t[1] = Quote \/ t = <<t[1]>>
    BY <2>2, TokenType
  <2>4. at[k + 1] = at[(k + 1) - 1] + Len(t) /\ at[k + 1] <= N
    BY <2>1 DEF LaidOut
  <2>5. \A p \in 1 .. Len(t) : data[at[(k + 1) - 1] + p] = t[p]
    BY <2>1 DEF LaidOut
  <2>6. 1 \in 1 .. Len(t)
    BY <2>3
  <2>7. data[at[k] + 1] = t[1]
    BY <2>1, <2>5, <2>6
  <2> HIDE DEF t, n, N
  <2>8. at[k] < N
    BY <1>1, <1>2, <2>1, <2>3, <2>4
  <2>9. t[1] = c <=> t = <<c>>
    BY <2>3
  <2> QED
    BY <1>4, <2>7, <2>8, <2>9 DEF t, n, N, SameNext
<1> QED
  BY <1>1, <1>3, <1>4

\* The m places after the i-th hold b.
Run(seq, i, m, b) == i + m <= Len(seq) /\ \A l \in 1 .. m : seq[i + l] = b

LEMMA RunMore ==
    ASSUME NEW seq, NEW i \in Nat, NEW m \in Nat, NEW b, Len(seq) \in Nat
    PROVE  Run(seq, i, m + 1, b) <=> Run(seq, i, m, b) /\ i + m < Len(seq) /\ seq[(i + m) + 1] = b
<1>1. \A l \in 1 .. m + 1 : l \in 1 .. m \/ l = m + 1
  OBVIOUS
<1>2. m + 1 \in 1 .. m + 1 /\ i + (m + 1) = (i + m) + 1 /\ \A l \in 1 .. m : l \in 1 .. m + 1
  OBVIOUS
<1>3. i + (m + 1) <= Len(seq) <=> i + m < Len(seq)
  OBVIOUS
<1>4. i + m < Len(seq) => i + m <= Len(seq)
  OBVIOUS
<1> QED
  <2>1. ASSUME Run(seq, i, m + 1, b)
        PROVE  Run(seq, i, m, b) /\ i + m < Len(seq) /\ seq[(i + m) + 1] = b
    <3>1. i + (m + 1) <= Len(seq) /\ \A l \in 1 .. m + 1 : seq[i + l] = b
      BY <2>1 DEF Run
    <3>2. seq[i + (m + 1)] = b
      BY <1>2, <3>1
    <3>3. \A l \in 1 .. m : seq[i + l] = b
      BY <1>2, <3>1
    <3> QED
      BY <1>2, <1>3, <1>4, <3>1, <3>2, <3>3 DEF Run
  <2>2. ASSUME Run(seq, i, m, b), i + m < Len(seq), seq[(i + m) + 1] = b
        PROVE  Run(seq, i, m + 1, b)
    <3>1. ASSUME NEW l \in 1 .. m + 1 PROVE seq[i + l] = b
      <4>1. CASE l \in 1 .. m
        BY <2>2, <4>1 DEF Run
      <4>2. CASE l = m + 1
        BY <1>2, <2>2, <4>2
      <4> QED
        BY <1>1, <4>1, <4>2
    <3> QED
      BY <1>3, <2>2, <3>1 DEF Run
  <2> QED
    BY <2>1, <2>2

\* After nothing but b comes c: at a place, or after so many.
ComesNext(seq, i, b, c) ==
    \E j \in i + 1 .. Len(seq) : seq[j] = c /\ \A l \in i + 1 .. j - 1 : seq[l] = b

RunTo(seq, i, m, b, c) == Run(seq, i, m, b) /\ i + m < Len(seq) /\ seq[(i + m) + 1] = c

LEMMA Ahead ==
    ASSUME NEW seq, NEW i \in Nat, NEW b, NEW c, Len(seq) \in Nat
    PROVE  ComesNext(seq, i, b, c) <=> \E m \in Nat : RunTo(seq, i, m, b, c)
<1>1. ASSUME NEW j \in i + 1 .. Len(seq), seq[j] = c, \A l \in i + 1 .. j - 1 : seq[l] = b
      PROVE  \E m \in Nat : Run(seq, i, m, b) /\ i + m < Len(seq) /\ seq[(i + m) + 1] = c
  <2> DEFINE m == (j - i) - 1
  <2>1. /\ m \in Nat /\ i + m < Len(seq) /\ i + m <= Len(seq) /\ (i + m) + 1 = j
        /\ \A l \in 1 .. m : i + l \in i + 1 .. j - 1
    OBVIOUS
  <2> HIDE DEF m
  <2>2. Run(seq, i, m, b)
    BY <1>1, <2>1 DEF Run
  <2> QED
    BY <1>1, <2>1, <2>2
<1>2. ASSUME NEW m \in Nat, Run(seq, i, m, b), i + m < Len(seq), seq[(i + m) + 1] = c
      PROVE  \E j \in i + 1 .. Len(seq) : seq[j] = c /\ \A l \in i + 1 .. j - 1 : seq[l] = b
  <2> DEFINE j == (i + m) + 1
  <2>1. j \in i + 1 .. Len(seq)
    BY <1>2
  <2>2. \A l \in i + 1 .. j - 1 : l - i \in 1 .. m /\ i + (l - i) = l
    OBVIOUS
  <2>3. \A l \in i + 1 .. j - 1 : seq[l] = b
    <3> HIDE DEF j
    <3> QED
      BY <1>2, <2>2 DEF Run
  <2> QED
    BY <1>2, <2>1, <2>3
<1> QED
  BY <1>1, <1>2 DEF ComesNext, RunTo

\* Looking ahead in the bytes is looking ahead in the tokens.
LEMMA Lookahead ==
    ASSUME NEW tokens \in Seq(JsonTokens), NEW data \in Seq(Byte), NEW at,
           LaidOut(tokens, data, at), NEW k \in 1 .. Len(tokens), tokens[k] = <<Comma>>
    PROVE  ClosesNext(data, at[k]) <=> Trailing(tokens, k)
<1>0. \A j \in 0 .. Len(tokens) : \A c : c # Quote => SameNext(tokens, data, at, j, c)
  BY TokenAt
<1>13. Space # Quote /\ Bracket # Quote
  BY Distinct
<1> DEFINE n == Len(tokens)
           N == Len(data)
           A(m) == Run(tokens, k, m, <<Space>>)
           B(m) == Run(data, at[k], m, Space)
           P == {m \in Nat : (A(m) <=> B(m)) /\ (A(m) => at[k + m] = at[k] + m)}
<1>1. n \in Nat /\ N \in Nat /\ k \in Nat /\ at[k] \in Nat
  BY DEF LaidOut
<1>2. 0 \in P
  <2>1. k + 0 = k /\ k <= n /\ at[k] + 0 = at[k] /\ at[k] <= N
    BY <1>1 DEF LaidOut
  <2>2. A(0) /\ B(0)
    BY <2>1 DEF Run
  <2> QED
    BY <2>1, <2>2
<1>9. ASSUME NEW m \in Nat, A(m) <=> B(m), A(m) => at[k + m] = at[k] + m, NEW c, c # Quote
      PROVE  A(m) /\ k + m < n /\ tokens[(k + m) + 1] = <<c>>
               <=> B(m) /\ at[k] + m < N /\ data[(at[k] + m) + 1] = c
  <2> SUFFICES ASSUME A(m)
               PROVE  k + m < n /\ tokens[(k + m) + 1] = <<c>>
                        <=> at[k] + m < N /\ data[(at[k] + m) + 1] = c
    BY <1>9
  <2> DEFINE j == k + m
  <2>1. k + m <= n
    BY DEF Run
  <2>2. j \in 0 .. Len(tokens)
    BY <1>1, <2>1
  <2>3. at[j] = at[k] + m
    BY <1>9
  <2> HIDE DEF j
  <2>4. at[j] < N /\ data[at[j] + 1] = c <=> j < n /\ tokens[j + 1] = <<c>>
    BY <1>0, <1>9, <2>2 DEF SameNext
  <2> QED
    BY <2>3, <2>4 DEF j
<1>3. ASSUME NEW m \in Nat, m \in P PROVE m + 1 \in P
  <2>1. (A(m) <=> B(m)) /\ (A(m) => at[k + m] = at[k] + m)
    BY <1>3
  <2>2. A(m + 1) <=> A(m) /\ k + m < n /\ tokens[(k + m) + 1] = <<Space>>
    BY <1>1, RunMore
  <2>3. B(m + 1) <=> B(m) /\ at[k] + m < N /\ data[(at[k] + m) + 1] = Space
    BY <1>1, RunMore
  <2>4. A(m + 1) <=> B(m + 1)
    <3> HIDE DEF A, B
    <3>1. A(m) /\ k + m < n /\ tokens[(k + m) + 1] = <<Space>>
               <=> B(m) /\ at[k] + m < N /\ data[(at[k] + m) + 1] = Space
      BY <1>9, <1>13, <2>1
    <3> QED
      BY <2>2, <2>3, <3>1
  <2>5. ASSUME A(m + 1) PROVE at[k + (m + 1)] = at[k] + (m + 1)
    <3> DEFINE j == (k + m) + 1
    <3>1. at[k + m] = at[k] + m /\ k + m < n /\ tokens[j] = <<Space>>
      BY <2>1, <2>2, <2>5
    <3>2. j \in 1 .. n /\ j - 1 = k + m /\ j = k + (m + 1)
      BY <1>1, <3>1
    <3>3. at[j] = at[j - 1] + Len(tokens[j])
      <4> HIDE DEF j
      <4> QED
        BY <3>2 DEF LaidOut
    <3>4. Len(tokens[j]) = 1
      BY <3>1
    <3> HIDE DEF j
    <3>5. at[j] = (at[k] + m) + 1
      BY <3>1, <3>2, <3>3, <3>4
    <3>6. (at[k] + m) + 1 = at[k] + (m + 1)
      BY <1>1
    <3> QED
      BY <3>2, <3>5, <3>6
  <2> QED
    BY <2>4, <2>5
<1>4. P \in SUBSET Nat
  OBVIOUS
<1>5. P = Nat
  <2> HIDE DEF P
  <2> QED
    BY <1>2, <1>3, <1>4, EveryNumber
<1>10. \A m \in Nat : (A(m) <=> B(m)) /\ (A(m) => at[k + m] = at[k] + m)
  BY <1>5
<1> HIDE DEF P, A, B
<1>6. ASSUME NEW m \in Nat
      PROVE  A(m) /\ k + m < n /\ tokens[(k + m) + 1] = <<Bracket>>
               <=> B(m) /\ at[k] + m < N /\ data[(at[k] + m) + 1] = Bracket
  <2>1. (A(m) <=> B(m)) /\ (A(m) => at[k + m] = at[k] + m)
    BY <1>10
  <2> QED
    BY <1>9, <1>13, <2>1
<1>7. Trailing(tokens, k) <=> \E m \in Nat : RunTo(tokens, k, m, <<Space>>, <<Bracket>>)
  <2>1. ComesNext(tokens, k, <<Space>>, <<Bracket>>)
             <=> \E m \in Nat : RunTo(tokens, k, m, <<Space>>, <<Bracket>>)
    BY <1>1, Ahead
  <2>2. Trailing(tokens, k) <=> ComesNext(tokens, k, <<Space>>, <<Bracket>>)
    BY Zenon DEF Trailing, ComesNext
  <2> QED
    BY <2>1, <2>2
<1>8. ClosesNext(data, at[k]) <=> \E m \in Nat : RunTo(data, at[k], m, Space, Bracket)
  <2>1. ComesNext(data, at[k], Space, Bracket)
             <=> \E m \in Nat : RunTo(data, at[k], m, Space, Bracket)
    BY <1>1, Ahead
  <2>2. ClosesNext(data, at[k]) <=> ComesNext(data, at[k], Space, Bracket)
    BY Zenon DEF ClosesNext, ComesNext
  <2> QED
    BY <2>1, <2>2
<1>11. \A m \in Nat : RunTo(tokens, k, m, <<Space>>, <<Bracket>>) <=> RunTo(data, at[k], m, Space, Bracket)
  BY <1>6 DEF RunTo, A, B
<1> QED
  BY <1>7, <1>8, <1>11

\* What one byte does within a string.
LEMMA ByteWithin ==
    ASSUME NEW s, NEW data, NEW i, s.inString
    PROVE  /\ StripByte(s, data, i).out = Append(s.out, data[i])
           /\ StripByte(s, data, i).inString = (s.escaped \/ data[i] # Quote)
           /\ StripByte(s, data, i).escaped = (~s.escaped /\ data[i] = Backslash)
  BY DEF StripByte

\* s is o and then the first m of t.
HoldsSo(s, o, t, m) ==
    /\ Len(s) = Len(o) + m
    /\ \A i \in 1 .. Len(o) : s[i] = o[i]
    /\ \A i \in 1 .. m : s[Len(o) + i] = t[i]

LEMMA HoldsMore ==
    ASSUME NEW X, NEW s \in Seq(X), NEW o \in Seq(X), NEW t, NEW m \in Nat,
           HoldsSo(s, o, t, m), NEW x \in X, x = t[m + 1]
    PROVE  HoldsSo(Append(s, x), o, t, m + 1)
<1> DEFINE a == Len(o)
           more == Append(s, x)
<1>1. a \in Nat /\ Len(s) = a + m
  BY DEF HoldsSo
<1>2. /\ Len(more) = Len(s) + 1 /\ more[Len(s) + 1] = x
      /\ \A i \in 1 .. Len(s) : more[i] = s[i]
  BY Grown
<1>3. (\A i \in 1 .. a : s[i] = o[i]) /\ \A i \in 1 .. m : s[a + i] = t[i]
  BY DEF HoldsSo
<1> HIDE DEF a, more
<1>4. Len(more) = a + (m + 1)
  BY <1>1, <1>2
<1>5. ASSUME NEW i \in 1 .. a PROVE more[i] = o[i]
  <2>1. i \in 1 .. Len(s)
    BY <1>1
  <2> QED
    BY <1>2, <1>3, <2>1
<1>6. ASSUME NEW i \in 1 .. m + 1 PROVE more[a + i] = t[i]
  <2>1. CASE i \in 1 .. m
    <3>1. a + i \in 1 .. Len(s)
      BY <1>1, <2>1
    <3> QED
      BY <1>2, <1>3, <2>1, <3>1
  <2>2. CASE i = m + 1
    <3>1. a + i = Len(s) + 1
      BY <1>1, <2>2
    <3> QED
      BY <1>2, <2>2, <3>1
  <2>3. i \in 1 .. m \/ i = m + 1
    OBVIOUS
  <2> QED
    BY <2>1, <2>2, <2>3
<1> QED
  BY <1>4, <1>5, <1>6 DEF HoldsSo, a, more

LEMMA HoldsAll ==
    ASSUME NEW X, NEW s \in Seq(X), NEW o \in Seq(X), NEW t \in Seq(X), HoldsSo(s, o, t, Len(t))
    PROVE  s = o \o t
<1> DEFINE a == Len(o)
           b == Len(t)
           u == o \o t
<1>1. /\ u \in Seq(X) /\ a \in Nat /\ b \in Nat /\ Len(u) = a + b
      /\ \A i \in 1 .. a : u[i] = o[i]
      /\ \A i \in 1 .. b : u[a + i] = t[i]
  BY Joined
<1>2. /\ Len(s) = a + b
      /\ \A i \in 1 .. a : s[i] = o[i]
      /\ \A i \in 1 .. b : s[a + i] = t[i]
  BY DEF HoldsSo
<1> HIDE DEF a, b, u
<1>3. ASSUME NEW i \in 1 .. Len(s) PROVE s[i] = u[i]
  <2>1. CASE i <= a
    <3>1. i \in 1 .. a
      BY <1>1, <1>2, <2>1
    <3> QED
      BY <1>1, <1>2, <3>1
  <2>2. CASE ~(i <= a)
    <3> DEFINE j == i - a
    <3>1. j \in 1 .. b /\ a + j = i
      BY <1>1, <1>2, <2>2
    <3> HIDE DEF j
    <3>2. s[a + j] = t[j] /\ u[a + j] = t[j]
      BY <1>1, <1>2, <3>1
    <3> QED
      BY <3>1, <3>2
  <2> QED
    BY <2>1, <2>2
<1>4. Len(s) = Len(u)
  BY <1>1, <1>2
<1>5. s = u
  BY <1>1, <1>3, <1>4
<1> QED
  BY <1>5 DEF u

\* From a string's first byte to its last all is kept.
Passed(st, q, t) ==
    /\ st[q + Len(t)].out = st[q].out \o t
    /\ ~st[q + Len(t)].inString /\ ~st[q + Len(t)].escaped

LEMMA StringPassed ==
    ASSUME NEW data \in Seq(Byte), NEW st \in [0 .. Len(data) -> StripStates(Byte)],
           StripsTo(data, st), NEW q \in Nat, NEW t \in Seq(Byte), IsString(t),
           q + Len(t) <= Len(data), \A p \in 1 .. Len(t) : data[q + p] = t[p],
           ~st[q].inString, ~st[q].escaped
    PROVE  Passed(st, q, t)
<1> DEFINE n == Len(t)
<1>1. n \in Nat /\ Len(data) \in Nat /\ n > 1
  BY DEF IsString
<1>2. PICK esc \in [1 .. n -> BOOLEAN] :
        /\ \A i \in 1 .. n : esc[i] <=> i > 1 /\ ~esc[i - 1] /\ t[i - 1] = Backslash
        /\ \A i \in 1 .. n : t[i] = Quote /\ ~esc[i] <=> i \in {1, n}
  BY DEF IsString
<1> DEFINE Goes(m) == /\ HoldsSo(st[q + m].out, st[q].out, t, m)
                      /\ st[q + m].inString <=> 0 < m /\ m < n
                      /\ st[q + m].escaped <=> m < n /\ esc[m + 1]
           P == {m \in Nat : m <= n => Goes(m)}
<1>3. \A m \in Nat : m <= n => q + m \in 0 .. Len(data)
  BY <1>1
<1>4. \A m \in Nat : m <= n => st[q + m] \in StripStates(Byte)
  BY <1>3
<1>5. \A m \in Nat : m <= n => st[q + m].out \in Seq(Byte)
  BY <1>4 DEF StripStates
<1>10. q + 0 = q /\ 0 <= n
  BY <1>1
<1>15. st[q].out \in Seq(Byte)
  BY <1>5, <1>10
<1>14. n <= n
  BY <1>1
<1>16. ~esc[1]
  <2>1. 1 \in 1 .. n /\ ~(1 > 1)
    BY <1>1
  <2> QED
    BY <1>2, <2>1
<1>6. 0 \in P
  <2>1. HoldsSo(st[q].out, st[q].out, t, 0)
    BY <1>15 DEF HoldsSo
  <2>2. 0 + 1 = 1 /\ ~(0 < 0)
    OBVIOUS
  <2>3. Goes(0)
    BY <1>10, <1>16, <2>1, <2>2
  <2> QED
    BY <2>3
<1> HIDE DEF n
<1>7. ASSUME NEW m \in Nat, m \in P PROVE m + 1 \in P
  <2> SUFFICES ASSUME m + 1 <= n PROVE Goes(m + 1)
    OBVIOUS
  <2> DEFINE i == q + (m + 1)
             s == st[q + m]
             c == t[m + 1]
  <2>18. m + 1 \in 1 .. n /\ m <= n /\ m < n
    BY <1>1
  <2>19. i \in 1 .. Len(data) /\ i - 1 = q + m
    <3>1. q + (m + 1) \in 0 .. Len(data)
      BY <1>3
    <3> QED
      BY <1>1, <3>1
  <2>1. /\ i \in 1 .. Len(data) /\ i - 1 = q + m /\ m + 1 \in 1 .. n /\ m <= n /\ m < n
        /\ (m + 1) + 1 = m + 2 /\ (m + 2) - 1 = m + 1 /\ m + 2 > 1 /\ m + 1 <= n /\ 0 < m + 1
    BY <2>18, <2>19
  <2>2. Goes(m)
    BY <1>7, <2>1
  <2>3. st[i] = StripByte(s, data, i)
    BY <2>1 DEF StripsTo
  <2>4. data[i] = c
    BY <2>1 DEF n
  <2>5. c \in Byte /\ s.out \in Seq(Byte)
    BY <1>5, <2>1 DEF n
  <2>6. HoldsSo(Append(s.out, c), st[q].out, t, m + 1)
    BY <1>15, <2>2, <2>5, HoldsMore
  <2>7. s.inString <=> 0 < m
    BY <2>1, <2>2
  <2>8. s.escaped <=> esc[m + 1]
    BY <2>1, <2>2
  <2>9. c = Quote /\ ~esc[m + 1] <=> m + 1 \in {1, n}
    BY <1>2, <2>1
  <2>10. (m + 1 < n /\ esc[(m + 1) + 1]) <=> (m + 1 < n /\ ~esc[m + 1] /\ c = Backslash)
    <3>1. CASE m + 1 < n
      <4>1. m + 2 \in 1 .. n
        BY <1>1, <3>1
      <4> QED
        BY <1>2, <2>1, <4>1
    <3> QED
      BY <3>1
  <2>11. Quote # Backslash /\ Quote # Comma
    BY Distinct
  <2>17. ~(m + 1 < n) <=> m + 1 = n
    BY <1>1, <2>1
  <2> HIDE DEF i, s, c
  <2>12. /\ st[i].out = Append(s.out, c)
         /\ st[i].inString <=> m + 1 < n
         /\ st[i].escaped <=> m + 1 < n /\ ~esc[m + 1] /\ c = Backslash
    <3>1. CASE m = 0
      <4>1. m + 1 = 1 /\ m + 1 < n /\ ~s.inString
        BY <1>1, <2>7, <3>1
      <4>2. c = Quote
        BY <2>9, <4>1
      <4>4. /\ st[i].out = IF c = Comma /\ ClosesNext(data, i) THEN s.out ELSE Append(s.out, c)
            /\ st[i].inString = (c = Quote) /\ st[i].escaped = FALSE
        <5>1. ~s.inString
          BY <4>1
        <5>2. /\ StripByte(s, data, i).out
                   = IF data[i] = Comma /\ ClosesNext(data, i) THEN s.out ELSE Append(s.out, data[i])
              /\ StripByte(s, data, i).inString = (data[i] = Quote)
              /\ StripByte(s, data, i).escaped = FALSE
          BY <5>1 DEF StripByte
        <5> QED
          BY <2>3, <2>4, <5>2
      <4>3. st[i].out = Append(s.out, c) /\ st[i].inString = TRUE /\ st[i].escaped = FALSE
        BY <2>11, <4>2, <4>4
      <4> QED
        BY <2>11, <4>1, <4>2, <4>3
    <3>2. CASE m # 0
      <4>1. m + 1 # 1 /\ s.inString
        BY <2>7, <3>2
      <4>2. st[i].out = Append(s.out, c)
        BY <2>3, <2>4, <4>1, ByteWithin
      <4>3. st[i].inString = (s.escaped \/ c # Quote)
        BY <2>3, <2>4, <4>1, ByteWithin
      <4>4. st[i].escaped = (~s.escaped /\ c = Backslash)
        BY <2>3, <2>4, <4>1, ByteWithin
      <4>5. c = Quote /\ ~esc[m + 1] <=> ~(m + 1 < n)
        BY <2>9, <2>17, <4>1
      <4>6. st[i].inString <=> m + 1 < n
        BY <2>8, <4>3, <4>5, Zenon
      <4>7. st[i].escaped <=> m + 1 < n /\ ~esc[m + 1] /\ c = Backslash
        BY <2>8, <2>11, <4>4, <4>5, Zenon
      <4> QED
        BY <4>2, <4>6, <4>7
    <3> QED
      BY <3>1, <3>2
  <2>13. HoldsSo(st[i].out, st[q].out, t, m + 1)
    BY <2>6, <2>12
  <2>14. st[i].inString <=> 0 < m + 1 /\ m + 1 < n
    BY <2>1, <2>12
  <2>15. st[i].escaped <=> m + 1 < n /\ esc[(m + 1) + 1]
    BY <2>10, <2>12, Zenon
  <2> QED
    BY <2>13, <2>14, <2>15 DEF i
<1>8. P \in SUBSET Nat
  OBVIOUS
<1>9. P = Nat
  <2> HIDE DEF P
  <2> QED
    BY <1>6, <1>7, <1>8, EveryNumber
<1>11. Goes(n)
  <2>1. n \in P
    <3> HIDE DEF P
    <3> QED
      BY <1>1, <1>9
  <2> QED
    BY <1>14, <2>1
<1>12. ~st[q + n].inString /\ ~st[q + n].escaped
  BY <1>1, <1>11
<1>13. st[q + n].out = st[q].out \o t
  <2>1. HoldsSo(st[q + n].out, st[q].out, t, n) /\ st[q + n].out \in Seq(Byte)
    BY <1>1, <1>5, <1>11, <1>14
  <2> QED
    BY <1>15, <2>1, HoldsAll DEF n
<1> QED
  BY <1>12, <1>13 DEF Passed, n

\* stripTrailingCommas drops the commas that the tokens say are trailing.
LEMMA StripsTrailing ==
    ASSUME NEW tokens \in Seq(JsonTokens)
    PROVE  StripTrailingCommas(FlattenSeq(tokens)) = FlattenSeq(WithoutTrailingCommas(tokens))
<1> DEFINE n == Len(tokens)
           data == FlattenSeq(tokens)
           kept == WithoutTrailingCommas(tokens)
<1>1. n \in Nat /\ \A i \in 1 .. n : tokens[i] \in JsonTokens
  OBVIOUS
<1>2. tokens \in Seq(Seq(Byte))
  BY JsonTokensAssumption
<1>3. /\ kept \in Seq(Seq(Byte)) /\ Len(kept) = n
      /\ \A i \in 1 .. n : kept[i] = IF Trailing(tokens, i) THEN <<>> ELSE tokens[i]
  <2>1. \A i \in 1 .. n : tokens[i] \in Seq(Byte) /\ <<>> \in Seq(Byte)
    BY <1>2
  <2>2. kept = [i \in 1 .. n |-> IF Trailing(tokens, i) THEN <<>> ELSE tokens[i]]
    BY DEF WithoutTrailingCommas
  <2> QED
    BY <1>1, <2>1, <2>2
<1>4. PICK flat \in [0 .. n -> Seq(Byte)] : FlattensTo(tokens, flat)
  BY <1>2, FlattenByOne
<1>5. PICK rest \in [0 .. n -> Seq(Byte)] : FlattensTo(kept, rest)
  <2>1. \E rest \in [0 .. Len(kept) -> Seq(Byte)] : FlattensTo(kept, rest)
    <3>1. kept \in Seq(Seq(Byte))
      BY <1>3
    <3> HIDE DEF kept
    <3> QED
      BY <3>1, FlattenByOne
  <2> QED
    BY <1>3, <2>1
<1> DEFINE at == [k \in 0 .. n |-> Len(flat[k])]
<1>6. LaidOut(tokens, data, at)
  BY <1>2, <1>4, LaidOutSo
<1>7. data \in Seq(Byte)
  <2>1. data = flat[n] /\ n \in 0 .. n
    BY <1>1, <1>4 DEF FlattensTo
  <2> QED
    BY <2>1
<1>8. PICK st \in [0 .. Len(data) -> StripStates(Byte)] : StripsTo(data, st)
  BY <1>7, StripByOne
<1>20. Len(data) \in Nat
  BY <1>7
<1> HIDE DEF n, data, kept, at
<1>9. \A k \in 0 .. n : at[k] \in Nat /\ rest[k] \in Seq(Byte)
  BY <1>6 DEF LaidOut, n
<1> DEFINE Goes(k) == /\ st[at[k]].out = rest[k]
                      /\ ~st[at[k]].inString /\ ~st[at[k]].escaped
           P == {k \in Nat : k <= n => Goes(k)}
<1>10. 0 \in P
  <2>1. at[0] = 0 /\ rest[0] = <<>> /\ st[0] = StripBegin
    BY <1>5, <1>6, <1>8 DEF LaidOut, FlattensTo, StripsTo
  <2>2. Goes(0)
    BY <2>1 DEF StripBegin
  <2> QED
    BY <2>2
<1>11. ASSUME NEW k \in Nat, k \in P PROVE k + 1 \in P
  <2> SUFFICES ASSUME k + 1 <= n PROVE Goes(k + 1)
    OBVIOUS
  <2> DEFINE j == k + 1
             t == tokens[j]
             q == at[k]
  <2>1. j \in 1 .. n /\ j - 1 = k /\ k \in 0 .. n /\ k <= n
    BY <1>1
  <2>2. Goes(k)
    BY <1>11, <2>1
  <2>3. t \in JsonTokens /\ q \in Nat
    BY <1>1, <1>9, <2>1
  <2>4. /\ t \in Seq(Byte) /\ Len(t) \in Nat /\ Len(t) >= 1
        /\ t[1] = Quote => IsString(t)
        /\ t[1] # Quote => t = <<t[1]>>
    BY <2>3, TokenType
  <2> HIDE DEF j, t
  <2>5. at[j] = q + Len(t) /\ at[j] <= Len(data) /\ \A p \in 1 .. Len(t) : data[q + p] = t[p]
    BY <1>6, <2>1 DEF LaidOut, n, t
  <2>6. kept[j] = IF Trailing(tokens, j) THEN <<>> ELSE t
    BY <1>3, <2>1 DEF t
  <2>7. rest[j] = rest[k] \o kept[j] /\ rest[k] \in Seq(Byte)
    BY <1>3, <1>5, <1>9, <2>1 DEF FlattensTo
  <2>8. /\ st[q].out = rest[k] /\ ~st[q].inString /\ ~st[q].escaped
    BY <2>2
  <2> HIDE DEF q
  <2>9. CASE t[1] = Quote
    <3>1. IsString(t)
      BY <2>4, <2>9
    <3>2. Passed(st, q, t)
      <4>1. q + Len(t) <= Len(data) /\ \A p \in 1 .. Len(t) : data[q + p] = t[p]
        BY <2>5
      <4> QED
        BY <1>7, <1>8, <2>3, <2>4, <2>8, <3>1, <4>1, StringPassed DEF q
    <3>3. t # <<Comma>>
      <4>1. Quote # Comma
        BY Distinct
      <4> QED
        BY <2>9, <4>1
    <3>4. kept[j] = t
      BY <2>6, <3>3 DEF Trailing, t
    <3> QED
      BY <2>5, <2>7, <2>8, <3>2, <3>4 DEF Passed, j
  <2>10. CASE t[1] # Quote
    <3> DEFINE c == t[1]
               i == q + 1
    <3>1. t = <<c>> /\ Len(t) = 1
      BY <2>4, <2>10
    <3>2. c \in Byte
      BY <2>4
    <3> HIDE DEF c
    <3>3. at[j] = i /\ i <= Len(data) /\ data[i] = c
      BY <2>5, <3>1 DEF c
    <3>4. i \in 1 .. Len(data) /\ i - 1 = q
      BY <1>20, <2>3, <3>3
    <3>5. st[i] = StripByte(st[q], data, i)
      BY <1>8, <3>4 DEF StripsTo
    <3> HIDE DEF i
    <3>6. /\ st[i].out = IF data[i] = Comma /\ ClosesNext(data, i) THEN st[q].out
                         ELSE Append(st[q].out, data[i])
          /\ st[i].inString = (data[i] = Quote) /\ st[i].escaped = FALSE
      BY <2>8, <3>5 DEF StripByte
    <3>7. c # Quote
      BY <2>10 DEF c
    <3>8. ~st[i].inString /\ ~st[i].escaped
      BY <3>3, <3>6, <3>7
    <3>9. c = Comma => (ClosesNext(data, i) <=> Trailing(tokens, j))
      <4> SUFFICES ASSUME c = Comma PROVE ClosesNext(data, i) <=> Trailing(tokens, j)
        OBVIOUS
      <4>1. tokens[j] = <<Comma>> /\ j \in 1 .. Len(tokens)
        BY <2>1, <3>1 DEF t, n
      <4>2. ClosesNext(data, at[j]) <=> Trailing(tokens, j)
        BY <1>6, <1>7, <4>1, Lookahead
      <4> QED
        BY <3>3, <4>2
    <3>10. Trailing(tokens, j) => c = Comma
      <4>1. Trailing(tokens, j) => t = <<Comma>>
        BY DEF Trailing, t
      <4> QED
        BY <3>1, <4>1
    <3>11. st[i].out = rest[j]
      <4>1. CASE Trailing(tokens, j)
        <5>1. kept[j] = <<>> /\ rest[j] = rest[k]
          BY <2>6, <2>7, <4>1
        <5> QED
          BY <2>8, <3>3, <3>6, <3>9, <3>10, <4>1, <5>1
      <4>2. CASE ~Trailing(tokens, j)
        <5>1. kept[j] = <<c>>
          BY <2>6, <3>1, <4>2
        <5>2. rest[j] = Append(rest[k], c)
          BY <2>7, <3>2, <5>1
        <5>3. st[i].out = Append(st[q].out, data[i])
          BY <3>3, <3>6, <3>9, <4>2
        <5> QED
          BY <2>8, <3>3, <5>2, <5>3
      <4> QED
        BY <4>1, <4>2
    <3> QED
      BY <3>3, <3>8, <3>11 DEF j
  <2> QED
    BY <2>9, <2>10
<1>12. P \in SUBSET Nat
  OBVIOUS
<1>13. P = Nat
  <2> HIDE DEF P
  <2> QED
    BY <1>10, <1>11, <1>12, EveryNumber
<1>14. n <= n
  BY <1>1
<1>15. Goes(n)
  <2>1. n \in P
    <3> HIDE DEF P
    <3> QED
      BY <1>1, <1>13
  <2> QED
    BY <1>14, <2>1
<1>16. at[n] = Len(data)
  BY <1>6 DEF LaidOut, n
<1>17. StripTrailingCommas(data) = st[Len(data)].out
  BY <1>8 DEF StripsTo
<1>18. FlattenSeq(kept) = rest[n]
  BY <1>3, <1>5 DEF FlattensTo
<1>19. StripTrailingCommas(data) = FlattenSeq(kept)
  BY <1>15, <1>16, <1>17, <1>18
<1> QED
  BY <1>19 DEF data, kept

JsonInv == subject = "json" => input \in Seq(JsonTokens)

LEMMA JsonHolds == Spec => []JsonInv
<1>1. Init => JsonInv
  BY DEF Init, JsonInv
<1>2. JsonInv /\ [Next]_vars => JsonInv'
  <2> SUFFICES ASSUME JsonInv, [Next]_vars PROVE JsonInv'
    OBVIOUS
  <2>1. CASE UNCHANGED vars
    BY <2>1 DEF JsonInv, vars
  <2>2. ASSUME subject # "json" /\ UNCHANGED subject PROVE JsonInv'
    BY <2>2 DEF JsonInv
  <2>3. ASSUME NEW token \in JsonTokens, ReadJson(token) PROVE JsonInv'
    <3>1. input \in Seq(JsonTokens) /\ input' = Append(input, token)
      BY <2>3 DEF ReadJson, Read, JsonInv
    <3>2. input' \in Seq(JsonTokens)
      BY <3>1, Grown
    <3> QED
      BY <3>2 DEF JsonInv
  <2> QED
    BY <2>1, <2>2, <2>3
    DEF Next, ReadBeat, ReadPnpm, ReadConfig, ReadLog, CheckOut, Read
<1> QED
  BY <1>1, <1>2, PTL DEF Spec

(***************************************************************************)
(* What is read of a lockfile is what it says: of pnpm's by its nesting,   *)
(* and of bun's no byte but the trailing commas goes, of a text of any     *)
(* length (lockfile.go, pnpmLookup and stripTrailingCommas).               *)
(***************************************************************************)
THEOREM LockfileFound == Spec => []LockfileAsNested
<1>1. JsonInv /\ PnpmAsNested => LockfileAsNested
  BY StripsTrailing DEF JsonInv, LockfileAsNested
<1> QED
  BY <1>1, JsonHolds, PnpmVersionsFound, PTL

-----------------------------------------------------------------------------
(* Collect *)

Paths == Seq(DOMAIN Rank)

\* A prefix, place by place.
LEMMA PrefixSo ==
    ASSUME NEW X, NEW a \in Seq(X), NEW b \in Seq(X)
    PROVE  IsPrefix(a, b) <=> Len(a) <= Len(b) /\ \A i \in 1 .. Len(a) : a[i] = b[i]
<1> DEFINE n == Len(a)
<1>1. n \in Nat /\ Len(b) \in Nat
  OBVIOUS
<1>2. SUFFICES ASSUME n <= Len(b)
               PROVE  SubSeq(a, 1, n) = SubSeq(b, 1, n) <=> \A i \in 1 .. n : a[i] = b[i]
  BY DEF IsPrefix
<1>3. SubSeq(a, 1, n) = [i \in 1 .. n |-> a[i]]
  BY <1>1
<1>4. SubSeq(b, 1, n) = [i \in 1 .. n |-> b[i]]
  BY <1>1, <1>2
<1> HIDE DEF n
<1> QED
  BY <1>3, <1>4

LEMMA StrictSo ==
    ASSUME NEW X, NEW a \in Seq(X), NEW b \in Seq(X)
    PROVE  IsStrictPrefix(a, b) <=> Len(a) < Len(b) /\ \A i \in 1 .. Len(a) : a[i] = b[i]
<1>1. IsPrefix(a, b) <=> Len(a) <= Len(b) /\ \A i \in 1 .. Len(a) : a[i] = b[i]
  BY PrefixSo
<1>2. Len(a) = Len(b) /\ (\A i \in 1 .. Len(a) : a[i] = b[i]) => a = b
  OBVIOUS
<1>3. Len(a) \in Nat /\ Len(b) \in Nat
  OBVIOUS
<1> QED
  BY <1>1, <1>2, <1>3 DEF IsStrictPrefix

\* Where two folders differ first: the first ends there, or has the lesser name.
DiffersAt(a, b, i) ==
    /\ i \in 1 .. Len(b) /\ i <= Len(a) + 1
    /\ \A j \in 1 .. i - 1 : a[j] = b[j]
    /\ i = Len(a) + 1 \/ (i <= Len(a) /\ Rank[a[i]] < Rank[b[i]])

LEMMA BeforeSo ==
    ASSUME NEW a \in Paths, NEW b \in Paths
    PROVE  Before(a, b) <=> \E i \in Nat : DiffersAt(a, b, i)
<1>1. Len(a) \in Nat /\ Len(b) \in Nat
  BY DEF Paths
<1>2. IsStrictPrefix(a, b) <=> DiffersAt(a, b, Len(a) + 1)
  <2>1. IsStrictPrefix(a, b) <=> Len(a) < Len(b) /\ \A i \in 1 .. Len(a) : a[i] = b[i]
    BY StrictSo DEF Paths
  <2>2. (Len(a) + 1) - 1 = Len(a) /\ (Len(a) + 1 \in 1 .. Len(b) <=> Len(a) < Len(b))
    BY <1>1
  <2> QED
    BY <1>1, <2>1, <2>2 DEF DiffersAt
<1>3. ASSUME Before(a, b) PROVE \E i \in Nat : DiffersAt(a, b, i)
  <2>1. CASE IsStrictPrefix(a, b)
    BY <1>1, <1>2, <2>1
  <2>2. ASSUME NEW i \in 1 .. Len(a), i <= Len(b), \A j \in 1 .. i - 1 : a[j] = b[j],
               Rank[a[i]] < Rank[b[i]]
        PROVE  \E k \in Nat : DiffersAt(a, b, k)
    <3>1. i \in Nat /\ i \in 1 .. Len(b) /\ i <= Len(a) + 1 /\ i <= Len(a)
      BY <1>1, <2>2
    <3>2. DiffersAt(a, b, i)
      BY <2>2, <3>1 DEF DiffersAt
    <3> QED
      BY <3>1, <3>2
  <2> QED
    BY <1>3, <2>1, <2>2 DEF Before
<1>4. ASSUME NEW i \in Nat, DiffersAt(a, b, i) PROVE Before(a, b)
  <2>1. CASE i = Len(a) + 1
    BY <1>2, <1>4, <2>1 DEF Before
  <2>2. CASE i <= Len(a) /\ Rank[a[i]] < Rank[b[i]]
    <3>1. i \in 1 .. Len(a) /\ i <= Len(b) /\ \A j \in 1 .. i - 1 : a[j] = b[j]
      BY <1>1, <1>4, <2>2 DEF DiffersAt
    <3> QED
      BY <2>2, <3>1 DEF Before
  <2> QED
    BY <1>4, <2>1, <2>2 DEF DiffersAt
<1> QED
  BY <1>3, <1>4

LEMMA RankSo ==
    ASSUME NEW a \in Paths, NEW i \in 1 .. Len(a)
    PROVE  Rank[a[i]] \in Int /\ a[i] \in DOMAIN Rank
<1>1. a[i] \in DOMAIN Rank
  BY DEF Paths
<1> QED
  BY <1>1, RankAssumption

\* The order is strict.
LEMMA NotBefore ==
    ASSUME NEW a \in Paths PROVE ~Before(a, a)
<1> SUFFICES ASSUME NEW i \in Nat, DiffersAt(a, a, i) PROVE FALSE
  BY BeforeSo
<1>1. Len(a) \in Nat
  BY DEF Paths
<1>2. i \in 1 .. Len(a) /\ (i = Len(a) + 1 \/ Rank[a[i]] < Rank[a[i]])
  BY DEF DiffersAt
<1>3. Rank[a[i]] \in Int
  BY <1>2, RankSo
<1> QED
  BY <1>1, <1>2, <1>3

LEMMA BeforeOnwards ==
    ASSUME NEW a \in Paths, NEW b \in Paths, NEW c \in Paths, Before(a, b), Before(b, c)
    PROVE  Before(a, c)
<1>1. PICK i \in Nat : DiffersAt(a, b, i)
  BY BeforeSo
<1>2. PICK k \in Nat : DiffersAt(b, c, k)
  BY BeforeSo
<1>3. Len(a) \in Nat /\ Len(b) \in Nat /\ Len(c) \in Nat
  BY DEF Paths
<1>4. /\ i \in 1 .. Len(b) /\ i <= Len(a) + 1
      /\ \A j \in 1 .. i - 1 : a[j] = b[j]
      /\ i = Len(a) + 1 \/ (i <= Len(a) /\ Rank[a[i]] < Rank[b[i]])
  BY <1>1 DEF DiffersAt
<1>5. /\ k \in 1 .. Len(c) /\ k <= Len(b) + 1
      /\ \A j \in 1 .. k - 1 : b[j] = c[j]
      /\ k = Len(b) + 1 \/ (k <= Len(b) /\ Rank[b[k]] < Rank[c[k]])
  BY <1>2 DEF DiffersAt
<1>6. CASE i < k
  <2>1. i \in 1 .. Len(c) /\ i \in 1 .. k - 1 /\ \A j \in 1 .. i - 1 : j \in 1 .. k - 1
    BY <1>3, <1>4, <1>5, <1>6
  <2>2. b[i] = c[i] /\ \A j \in 1 .. i - 1 : a[j] = c[j]
    BY <1>4, <1>5, <2>1
  <2>3. DiffersAt(a, c, i)
    BY <1>4, <2>1, <2>2 DEF DiffersAt
  <2> QED
    BY <2>3, BeforeSo
<1>7. CASE i = k
  <2>1. i # Len(b) + 1
    BY <1>3, <1>4
  <2>2. i <= Len(b) /\ Rank[b[i]] < Rank[c[i]]
    BY <1>5, <1>7, <2>1
  <2>3. \A j \in 1 .. i - 1 : a[j] = c[j]
    BY <1>4, <1>5, <1>7
  <2>4. i <= Len(a) => Rank[a[i]] \in Int /\ Rank[b[i]] \in Int /\ Rank[c[i]] \in Int
    <3>1. i <= Len(a) => i \in 1 .. Len(a) /\ i \in 1 .. Len(b) /\ i \in 1 .. Len(c)
      BY <1>3, <1>4, <1>5, <1>7
    <3> QED
      BY <3>1, RankSo
  <2>5. i = Len(a) + 1 \/ (i <= Len(a) /\ Rank[a[i]] < Rank[c[i]])
    BY <1>4, <2>2, <2>4
  <2>6. DiffersAt(a, c, i)
    BY <1>4, <1>5, <1>7, <2>3, <2>5 DEF DiffersAt
  <2> QED
    BY <2>6, BeforeSo
<1>8. CASE k < i
  <2>1. k \in 1 .. i - 1 /\ k # Len(b) + 1 /\ k <= Len(a) /\ \A j \in 1 .. k - 1 : j \in 1 .. i - 1
    BY <1>3, <1>4, <1>5, <1>8
  <2>2. a[k] = b[k] /\ Rank[b[k]] < Rank[c[k]] /\ \A j \in 1 .. k - 1 : a[j] = c[j]
    BY <1>4, <1>5, <2>1
  <2>4. k <= Len(a) + 1
    BY <1>3, <2>1
  <2>3. DiffersAt(a, c, k)
    BY <1>5, <2>1, <2>2, <2>4 DEF DiffersAt
  <2> QED
    BY <2>3, BeforeSo
<1>9. i < k \/ i = k \/ k < i
  OBVIOUS
<1> QED
  BY <1>6, <1>7, <1>8, <1>9

LEMMA BeforeOrAfter ==
    ASSUME NEW a \in Paths, NEW b \in Paths, a # b
    PROVE  Before(a, b) \/ Before(b, a)
<1>1. Len(a) \in Nat /\ Len(b) \in Nat
  BY DEF Paths
<1> DEFINE D == {i \in Nat : 1 <= i /\ i <= Len(a) /\ i <= Len(b) /\ a[i] # b[i]}
<1>2. CASE D = {}
  <2>1. \A i \in Nat : 1 <= i /\ i <= Len(a) /\ i <= Len(b) => a[i] = b[i]
    BY <1>2
  <2>2. CASE Len(a) = Len(b)
    <3>1. \A i \in 1 .. Len(a) : a[i] = b[i]
      BY <1>1, <2>1, <2>2
    <3>2. a = b
      BY <1>1, <2>2, <3>1 DEF Paths
    <3> QED
      BY <3>2
  <2>3. CASE Len(a) < Len(b)
    <3>1. \A i \in 1 .. Len(a) : a[i] = b[i]
      BY <1>1, <2>1, <2>3
    <3>2. IsStrictPrefix(a, b)
      BY <2>3, <3>1, StrictSo DEF Paths
    <3> QED
      BY <3>2 DEF Before
  <2>4. CASE Len(b) < Len(a)
    <3>1. \A i \in 1 .. Len(b) : b[i] = a[i]
      BY <1>1, <2>1, <2>4
    <3>2. IsStrictPrefix(b, a)
      BY <2>4, <3>1, StrictSo DEF Paths
    <3> QED
      BY <3>2 DEF Before
  <2> QED
    BY <1>1, <2>2, <2>3, <2>4
<1>3. CASE D # {}
  <2> DEFINE i == Min(D)
  <2>0. D \in SUBSET Nat
    OBVIOUS
  <2>1. i \in D /\ \A n \in D : i <= n
    <3> HIDE DEF D
    <3> QED
      BY <1>3, <2>0, MinOf
  <2> HIDE DEF i
  <2>2. i \in Nat /\ 1 <= i /\ i <= Len(a) /\ i <= Len(b) /\ a[i] # b[i]
    BY <2>1
  <2>3. \A j \in 1 .. i - 1 : a[j] = b[j]
    BY <1>1, <2>1, <2>2
  <2>4. i \in 1 .. Len(a) /\ i \in 1 .. Len(b)
    BY <1>1, <2>2
  <2>5. a[i] \in DOMAIN Rank /\ b[i] \in DOMAIN Rank
    BY <2>4, RankSo
  <2>6. Rank[a[i]] \in Int /\ Rank[b[i]] \in Int /\ Rank[a[i]] # Rank[b[i]]
    BY <2>2, <2>5, RankAssumption
  <2>7. Rank[a[i]] < Rank[b[i]] \/ Rank[b[i]] < Rank[a[i]]
    BY <2>6
  <2>8. CASE Rank[a[i]] < Rank[b[i]]
    BY <2>2, <2>3, <2>4, <2>8 DEF Before
  <2>9. CASE Rank[b[i]] < Rank[a[i]]
    BY <2>2, <2>3, <2>4, <2>9 DEF Before
  <2> QED
    BY <2>7, <2>8, <2>9
<1> QED
  BY <1>2, <1>3

\* How many folders come before one.
Earlier(dirs, d) == {e \in dirs : Before(e, d)}

\* A later folder has more before it, and none has all.
LEMMA EarlierSo ==
    ASSUME NEW dirs \in SUBSET Paths, IsFiniteSet(dirs), NEW d \in dirs
    PROVE  /\ IsFiniteSet(Earlier(dirs, d))
           /\ Cardinality(Earlier(dirs, d)) \in 0 .. Cardinality(dirs) - 1
<1> DEFINE E == Earlier(dirs, d)
           rest == dirs \ {d}
<1>1. d \notin E /\ E \subseteq dirs
  BY NotBefore DEF Earlier
<1>2. E \in SUBSET rest
  BY <1>1
<1>3. IsFiniteSet(rest) /\ Cardinality(rest) = Cardinality(dirs) - 1
  BY FS_RemoveElement
<1>5. Cardinality(dirs) \in Nat
  BY FS_CardinalityType
<1> HIDE DEF E, rest
<1>4. IsFiniteSet(E) /\ Cardinality(E) <= Cardinality(rest)
  BY <1>2, <1>3, FS_Subset
<1>6. Cardinality(E) \in Nat
  BY <1>4, FS_CardinalityType
<1>7. Cardinality(E) \in 0 .. Cardinality(dirs) - 1
  BY <1>3, <1>4, <1>5, <1>6
<1> QED
  BY <1>4, <1>7 DEF E

LEMMA EarlierMore ==
    ASSUME NEW dirs \in SUBSET Paths, IsFiniteSet(dirs), NEW c \in dirs, NEW d \in dirs, Before(c, d)
    PROVE  Cardinality(Earlier(dirs, c)) < Cardinality(Earlier(dirs, d))
<1> DEFINE C == Earlier(dirs, c)
           D == Earlier(dirs, d)
<1>1. c \in D /\ c \notin C
  BY NotBefore DEF Earlier
<1>2. C \in SUBSET D
  <2>1. ASSUME NEW e \in dirs, Before(e, c) PROVE Before(e, d)
    <3>1. e \in Paths /\ c \in Paths /\ d \in Paths
      OBVIOUS
    <3> QED
      BY <2>1, <3>1, BeforeOnwards
  <2> QED
    BY <2>1 DEF Earlier
<1>3. /\ IsFiniteSet(C) /\ Cardinality(C) \in Nat
      /\ IsFiniteSet(D) /\ Cardinality(D) \in Nat
  <2>1. IsFiniteSet(C) /\ IsFiniteSet(D)
    BY EarlierSo
  <2> HIDE DEF C, D
  <2> QED
    BY <2>1, FS_CardinalityType
<1> HIDE DEF C, D
<1>4. Cardinality(C) <= Cardinality(D) /\ (Cardinality(D) = Cardinality(C) => D = C)
  BY <1>2, <1>3, FS_Subset
<1>5. Cardinality(C) # Cardinality(D)
  BY <1>1, <1>4
<1>6. Cardinality(C) < Cardinality(D)
  BY <1>3, <1>4, <1>5
<1> QED
  BY <1>6 DEF C, D

\* Sorted lists every folder once, in order.
InOrder(list, dirs) ==
    /\ list \in Seq(dirs) /\ Len(list) = Cardinality(dirs)
    /\ \A i, k \in 1 .. Cardinality(dirs) : i < k => Before(list[i], list[k])
    /\ \A d \in dirs : \E i \in 1 .. Cardinality(dirs) : list[i] = d

LEMMA SortedSo ==
    ASSUME NEW dirs \in SUBSET Paths, IsFiniteSet(dirs)
    PROVE  InOrder(Sorted(dirs), dirs)
<1> DEFINE n == Cardinality(dirs)
           count == [d \in dirs |-> Cardinality(Earlier(dirs, d))]
           T == 0 .. n - 1
<1>1. n \in Nat
  BY FS_CardinalityType
<1>2. \A d \in dirs : count[d] \in T
  BY EarlierSo
<1>3. \A c, d \in dirs : Before(c, d) => count[c] < count[d]
  BY EarlierMore
<1>4. count \in [dirs -> T]
  BY <1>2
<1> HIDE DEF n, count, T
<1>5. ASSUME NEW c \in dirs, NEW d \in dirs, count[c] = count[d] PROVE c = d
  <2> SUFFICES ASSUME c # d PROVE FALSE
    OBVIOUS
  <2>1. Before(c, d) \/ Before(d, c)
    <3>1. c \in Paths /\ d \in Paths
      OBVIOUS
    <3> QED
      BY <3>1, BeforeOrAfter
  <2>2. count[c] \in Int /\ count[d] \in Int
    BY <1>1, <1>2 DEF T
  <2>3. count[c] < count[d] \/ count[d] < count[c]
    BY <1>3, <2>1
  <2> QED
    BY <1>5, <2>2, <2>3
<1>6. count \in Injection(dirs, T)
  BY <1>4, <1>5 DEF Injection, IsInjective
<1>7. IsFiniteSet(T) /\ Cardinality(T) = n
  <2>1. 0 \in Int /\ n - 1 \in Int
    BY <1>1
  <2>2. IsFiniteSet(T) /\ Cardinality(T) = IF 0 > n - 1 THEN 0 ELSE ((n - 1) - 0) + 1
    BY <2>1, FS_Interval DEF T
  <2>3. (IF 0 > n - 1 THEN 0 ELSE ((n - 1) - 0) + 1) = n
    BY <1>1
  <2> QED
    BY <2>2, <2>3
<1>8. count \in Surjection(dirs, T)
  <2>1. Cardinality(dirs) = Cardinality(T)
    BY <1>7 DEF n
  <2> QED
    BY <1>6, <1>7, <2>1, FS_Injection
<1>9. \A i \in 1 .. n : i - 1 \in T
  BY <1>1 DEF T
<1>10. \A i \in 1 .. n : \E d \in dirs : count[d] = i - 1
  BY <1>8, <1>9 DEF Surjection
<1> DEFINE list == [i \in 1 .. n |-> CHOOSE d \in dirs : count[d] = i - 1]
<1>11. Sorted(dirs) = list
  <2>1. ASSUME NEW i \in 1 .. n
        PROVE  (CHOOSE d \in dirs : Cardinality({e \in dirs : Before(e, d)}) = i - 1)
                 = CHOOSE d \in dirs : count[d] = i - 1
    <3>1. \A d \in dirs : count[d] = Cardinality({e \in dirs : Before(e, d)})
      BY DEF count, Earlier
    <3> QED
      BY <3>1
  <2> QED
    <3> DEFINE F(i) == CHOOSE d \in dirs : Cardinality({e \in dirs : Before(e, d)}) = i - 1
               G(i) == CHOOSE d \in dirs : count[d] = i - 1
    <3>1. Sorted(dirs) = [i \in 1 .. n |-> F(i)]
      BY DEF Sorted, n
    <3>2. list = [i \in 1 .. n |-> G(i)]
      OBVIOUS
    <3>3. \A i \in 1 .. n : F(i) = G(i)
      BY <2>1
    <3> HIDE DEF F, G, list
    <3> QED
      BY <3>1, <3>2, <3>3
<1>12. \A i \in 1 .. n : list[i] \in dirs /\ count[list[i]] = i - 1
  BY <1>10
<1>17. list = [i \in 1 .. n |-> list[i]]
  OBVIOUS
<1> HIDE DEF list
<1>13. list \in Seq(dirs) /\ Len(list) = n
  BY <1>1, <1>12, <1>17
<1>14. ASSUME NEW i \in 1 .. n, NEW k \in 1 .. n, i < k PROVE Before(list[i], list[k])
  <2> DEFINE c == list[i]
             d == list[k]
  <2>1. c \in dirs /\ d \in dirs /\ count[c] = i - 1 /\ count[d] = k - 1
    BY <1>12
  <2> HIDE DEF c, d
  <2>2. c # d /\ ~(count[d] < count[c])
    BY <1>14, <2>1
  <2>3. Before(c, d) \/ Before(d, c)
    <3>1. c \in Paths /\ d \in Paths
      BY <2>1
    <3> QED
      BY <2>2, <3>1, BeforeOrAfter
  <2>4. Before(c, d)
    BY <1>3, <2>1, <2>2, <2>3
  <2> QED
    BY <2>4 DEF c, d
<1>15. ASSUME NEW d \in dirs PROVE \E i \in 1 .. n : list[i] = d
  <2> DEFINE i == count[d] + 1
  <2>1. i \in 1 .. n /\ i - 1 = count[d]
    <3>1. count[d] \in 0 .. n - 1
      BY <1>2 DEF T
    <3> QED
      BY <1>1, <3>1
  <2> HIDE DEF i
  <2>2. list[i] = d
    BY <1>5, <1>12, <2>1
  <2> QED
    BY <2>1, <2>2
<1> QED
  BY <1>11, <1>13, <1>14, <1>15 DEF InOrder, n

\* The folders that lead to a manifest are the prefixes of its path.
LEMMA FrontOf ==
    ASSUME NEW X, NEW s \in Seq(X), NEW n \in 0 .. Len(s)
    PROVE  /\ SubSeq(s, 1, n) \in Seq(X) /\ Len(SubSeq(s, 1, n)) = n
           /\ \A i \in 1 .. n : SubSeq(s, 1, n)[i] = s[i]
<1>1. Len(s) \in Nat /\ n \in Nat /\ n <= Len(s)
  OBVIOUS
<1>2. SubSeq(s, 1, n) = [i \in 1 .. n |-> s[i]]
  BY <1>1
<1>3. \A i \in 1 .. n : s[i] \in X
  BY <1>1
<1> QED
  BY <1>1, <1>2, <1>3

LEMMA PrefixOf ==
    ASSUME NEW X, NEW d \in Seq(X), NEW s \in Seq(X), IsPrefix(d, s)
    PROVE  Len(d) \in 0 .. Len(s) /\ d = SubSeq(s, 1, Len(d))
<1> DEFINE n == Len(d)
           u == SubSeq(s, 1, n)
<1>1. n \in Nat /\ Len(s) \in Nat /\ n <= Len(s) /\ \A i \in 1 .. n : d[i] = s[i]
  BY PrefixSo
<1>2. n \in 0 .. Len(s)
  BY <1>1
<1>3. u \in Seq(X) /\ Len(u) = n /\ \A i \in 1 .. n : u[i] = s[i]
  BY <1>2, FrontOf
<1> HIDE DEF u
<1>4. d = u
  BY <1>1, <1>3
<1> QED
  BY <1>2, <1>4 DEF u

LEMMA PrefixOnwards ==
    ASSUME NEW X, NEW a \in Seq(X), NEW b \in Seq(X), NEW c \in Seq(X),
           IsPrefix(a, b), IsPrefix(b, c)
    PROVE  IsPrefix(a, c)
<1>1. Len(a) <= Len(b) /\ \A i \in 1 .. Len(a) : a[i] = b[i]
  BY PrefixSo
<1>2. Len(b) <= Len(c) /\ \A i \in 1 .. Len(b) : b[i] = c[i]
  BY PrefixSo
<1>3. Len(a) \in Nat /\ Len(b) \in Nat /\ Len(c) \in Nat
  OBVIOUS
<1>4. \A i \in 1 .. Len(a) : i \in 1 .. Len(b)
  BY <1>1, <1>3
<1>5. Len(a) <= Len(c) /\ \A i \in 1 .. Len(a) : a[i] = c[i]
  BY <1>1, <1>2, <1>3, <1>4
<1> QED
  BY <1>5, PrefixSo

\* What is a prefix of the same is one of the other, when it is shorter.
LEMMA PrefixBoth ==
    ASSUME NEW X, NEW a \in Seq(X), NEW b \in Seq(X), NEW c \in Seq(X),
           IsPrefix(a, c), IsPrefix(b, c), Len(a) <= Len(b)
    PROVE  IsPrefix(a, b)
<1>1. Len(a) <= Len(c) /\ \A i \in 1 .. Len(a) : a[i] = c[i]
  BY PrefixSo
<1>2. Len(b) <= Len(c) /\ \A i \in 1 .. Len(b) : b[i] = c[i]
  BY PrefixSo
<1>3. Len(a) \in Nat /\ Len(b) \in Nat /\ Len(c) \in Nat
  OBVIOUS
<1>4. \A i \in 1 .. Len(a) : i \in 1 .. Len(b)
  BY <1>3
<1>5. \A i \in 1 .. Len(a) : a[i] = b[i]
  BY <1>1, <1>2, <1>4
<1> QED
  BY <1>5, PrefixSo

LEMMA FoldersSo ==
    ASSUME NEW X, NEW tree \in SUBSET Seq(X), NEW d
    PROVE  d \in Folders(tree) <=> d \in Seq(X) /\ \E dir \in tree : IsPrefix(d, dir)
<1>1. ASSUME NEW dir \in tree, NEW n \in 0 .. Len(dir), d = SubSeq(dir, 1, n)
      PROVE  d \in Seq(X) /\ IsPrefix(d, dir)
  <2>1. d \in Seq(X) /\ Len(d) = n /\ \A i \in 1 .. n : d[i] = dir[i]
    BY <1>1, FrontOf
  <2>2. n <= Len(dir) /\ dir \in Seq(X)
    OBVIOUS
  <2>3. Len(d) <= Len(dir) /\ \A i \in 1 .. Len(d) : d[i] = dir[i]
    BY <2>1, <2>2
  <2> QED
    BY <2>1, <2>2, <2>3, PrefixSo
<1>2. ASSUME d \in Seq(X), NEW dir \in tree, IsPrefix(d, dir)
      PROVE  \E n \in 0 .. Len(dir) : d = SubSeq(dir, 1, n)
  <2>1. dir \in Seq(X)
    OBVIOUS
  <2>2. Len(d) \in 0 .. Len(dir) /\ d = SubSeq(dir, 1, Len(d))
    BY <1>2, <2>1, PrefixOf
  <2> QED
    BY <2>2
<1>3. d \in Folders(tree) <=> \E dir \in tree : \E n \in 0 .. Len(dir) : d = SubSeq(dir, 1, n)
  BY DEF Folders
<1> QED
  BY <1>1, <1>2, <1>3

\* A folder below one that is skipped is skipped.
LEMMA SkipOnwards ==
    ASSUME NEW X, NEW d \in Seq(X), NEW c \in Seq(X), IsPrefix(d, c), SkipDir(d)
    PROVE  SkipDir(c)
<1>1. Len(d) <= Len(c) /\ \A i \in 1 .. Len(d) : d[i] = c[i]
  BY PrefixSo
<1>2. PICK i \in 1 .. Len(d) : d[i] \in Skipped
  BY DEF SkipDir
<1>3. Len(d) \in Nat /\ Len(c) \in Nat
  OBVIOUS
<1>4. i \in 1 .. Len(c) /\ c[i] \in Skipped
  BY <1>1, <1>2, <1>3
<1> QED
  BY <1>4 DEF SkipDir

\* The folders so many levels below one.
DownBy(folders, dir, n) ==
    {d \in folders : IsPrefix(dir, d) /\ Len(d) = Len(dir) + n /\ ~SkipDir(d)}

\* What a turn of the walk finds below some folders.
Below(folders, dirs) == UNION {{c \in Children(folders, d) : ~SkipDir(c)} : d \in dirs}

LEMMA DownByMore ==
    ASSUME NEW X, NEW folders \in SUBSET Seq(X), NEW dir \in Seq(X), NEW n \in Nat,
           \A c \in folders : \A d \in Seq(X) : IsPrefix(d, c) => d \in folders
    PROVE  Below(folders, DownBy(folders, dir, n)) = DownBy(folders, dir, n + 1)
<1>0. Len(dir) \in Nat /\ \A d \in folders : Len(d) \in Nat
  OBVIOUS
<1>1. ASSUME NEW d \in DownBy(folders, dir, n), NEW c \in Children(folders, d), ~SkipDir(c)
      PROVE  c \in DownBy(folders, dir, n + 1)
  <2>1. /\ d \in folders /\ c \in folders /\ IsPrefix(dir, d) /\ IsPrefix(d, c)
        /\ Len(d) = Len(dir) + n /\ Len(c) = Len(d) + 1
    BY DEF DownBy, Children
  <2>2. d \in Seq(X) /\ c \in Seq(X)
    BY <2>1
  <2>3. IsPrefix(dir, c)
    BY <2>1, <2>2, PrefixOnwards
  <2>4. Len(c) = Len(dir) + (n + 1)
    BY <1>0, <2>1
  <2> QED
    BY <1>1, <2>1, <2>3, <2>4 DEF DownBy
<1>2. ASSUME NEW c \in DownBy(folders, dir, n + 1)
      PROVE  \E d \in DownBy(folders, dir, n) : c \in Children(folders, d) /\ ~SkipDir(c)
  <2>1. c \in folders /\ IsPrefix(dir, c) /\ Len(c) = Len(dir) + (n + 1) /\ ~SkipDir(c)
    BY DEF DownBy
  <2>2. c \in Seq(X)
    BY <2>1
  <2> DEFINE m == Len(dir) + n
             d == SubSeq(c, 1, m)
  <2>3. m \in 0 .. Len(c) /\ Len(c) = m + 1 /\ Len(dir) <= m
    BY <1>0, <2>1
  <2> HIDE DEF m
  <2>4. d \in Seq(X) /\ Len(d) = m /\ \A i \in 1 .. m : d[i] = c[i]
    BY <2>2, <2>3, FrontOf
  <2> HIDE DEF d
  <2>5. IsPrefix(d, c)
    <3>1. Len(d) <= Len(c) /\ \A i \in 1 .. Len(d) : d[i] = c[i]
      BY <2>3, <2>4
    <3> QED
      BY <2>2, <2>4, <3>1, PrefixSo
  <2>6. d \in folders
    BY <2>1, <2>4, <2>5
  <2>7. IsPrefix(dir, d)
    <3>1. Len(dir) <= Len(d)
      BY <2>3, <2>4
    <3> QED
      BY <2>1, <2>2, <2>4, <2>5, <3>1, PrefixBoth
  <2>8. ~SkipDir(d)
    BY <2>1, <2>2, <2>4, <2>5, SkipOnwards
  <2>9. d \in DownBy(folders, dir, n)
    BY <2>4, <2>6, <2>7, <2>8 DEF DownBy, m
  <2>10. c \in Children(folders, d)
    BY <2>1, <2>3, <2>4, <2>5 DEF Children
  <2> QED
    BY <2>1, <2>9, <2>10
<1>3. \A c : c \in Below(folders, DownBy(folders, dir, n))
        <=> \E d \in DownBy(folders, dir, n) : c \in Children(folders, d) /\ ~SkipDir(c)
  BY DEF Below
<1> QED
  BY <1>1, <1>2, <1>3

\* walkPackages finds what is up to WalkLevels levels below, and not skipped.
LEMMA WalkSo ==
    ASSUME NEW X, NEW folders \in SUBSET Seq(X), NEW dir \in Seq(X),
           \A c \in folders : \A d \in Seq(X) : IsPrefix(d, c) => d \in folders, NEW e
    PROVE  e \in WalkPackages(folders, dir)
             <=> /\ e \in folders /\ ~SkipDir(e)
                 /\ IsStrictPrefix(dir, e) /\ Len(e) <= Len(dir) + WalkLevels
<1> DEFINE Is(f) == f = [n \in 0 .. WalkLevels |-> IF n = 0 THEN {dir} ELSE Below(folders, f[n - 1])]
           f == CHOOSE f : Is(f)
           L(n) == DownBy(folders, dir, n)
           g == [n \in 0 .. WalkLevels |-> IF n = 0 THEN {dir} ELSE L(n)]
<1>1. WalkPackages(folders, dir) = UNION {f[n] : n \in 1 .. WalkLevels}
  BY DEF WalkPackages, Below
<1>0. WalkLevels = 4
  BY DEF WalkLevels
<1>2. Below(folders, {dir}) = L(1)
  BY DEF Below, DownBy, Children
<1>3. \A n \in Nat : Below(folders, L(n)) = L(n + 1)
  BY DownByMore
<1> HIDE DEF L
<1>4. Is(g)
  <2>1. ASSUME NEW n \in 0 .. WalkLevels
        PROVE  g[n] = IF n = 0 THEN {dir} ELSE Below(folders, g[n - 1])
    <3>1. CASE n = 0
      BY <3>1
    <3>2. CASE n = 1
      <4>1. n - 1 = 0 /\ 0 \in 0 .. WalkLevels /\ n # 0
        BY <1>0, <3>2
      <4>2. g[n - 1] = {dir} /\ g[n] = L(n)
        BY <4>1
      <4> QED
        BY <1>2, <3>2, <4>1, <4>2
    <3>3. CASE n # 0 /\ n # 1
      <4>1. n - 1 \in 0 .. WalkLevels /\ n - 1 # 0 /\ n - 1 \in Nat /\ (n - 1) + 1 = n
        BY <1>0, <3>3
      <4>2. g[n - 1] = L(n - 1) /\ g[n] = L(n)
        BY <3>3, <4>1
      <4>3. Below(folders, L(n - 1)) = L(n)
        BY <1>3, <4>1
      <4> QED
        BY <3>3, <4>2, <4>3
    <3> QED
      BY <3>1, <3>2, <3>3
  <2> HIDE DEF L
  <2> QED
    BY <2>1
<1>5. Is(f)
  <2> HIDE DEF Is, g
  <2> QED
    BY <1>4
<1> HIDE DEF f, g
<1>15. \A n \in 0 .. 4 : f[n] = IF n = 0 THEN {dir} ELSE Below(folders, f[n - 1])
  BY <1>0, <1>5
<1>6. /\ f[0] = {dir} /\ f[1] = Below(folders, f[0]) /\ f[2] = Below(folders, f[1])
      /\ f[3] = Below(folders, f[2]) /\ f[4] = Below(folders, f[3])
  <2>1. 1 - 1 = 0 /\ 2 - 1 = 1 /\ 3 - 1 = 2 /\ 4 - 1 = 3
    OBVIOUS
  <2>2. 0 \in 0 .. 4 /\ 1 \in 0 .. 4 /\ 2 \in 0 .. 4 /\ 3 \in 0 .. 4 /\ 4 \in 0 .. 4
    OBVIOUS
  <2> HIDE DEF Is
  <2>3. f[1] = Below(folders, f[1 - 1]) /\ f[2] = Below(folders, f[2 - 1])
    BY <1>15, <2>2
  <2>4. f[3] = Below(folders, f[3 - 1]) /\ f[4] = Below(folders, f[4 - 1])
    BY <1>15, <2>2
  <2> QED
    BY <1>15, <2>1, <2>2, <2>3, <2>4
<1>7. f[1] = L(1)
  BY <1>2, <1>6
<1>8. f[2] = L(2)
  BY <1>3, <1>6, <1>7
<1>9. f[3] = L(3)
  BY <1>3, <1>6, <1>8
<1>10. f[4] = L(4)
  BY <1>3, <1>6, <1>9
<1>11. \A n \in 1 .. WalkLevels : f[n] = L(n)
  <2>1. \A n \in 1 .. WalkLevels : n = 1 \/ n = 2 \/ n = 3 \/ n = 4
    BY <1>0
  <2> QED
    BY <1>7, <1>8, <1>9, <1>10, <2>1
<1>12. e \in WalkPackages(folders, dir) <=> \E n \in 1 .. WalkLevels : e \in L(n)
  BY <1>1, <1>11
<1>13. ASSUME e \in folders
       PROVE  IsStrictPrefix(dir, e) <=> IsPrefix(dir, e) /\ Len(dir) < Len(e)
  <2>1. e \in Seq(X) /\ Len(e) \in Nat /\ Len(dir) \in Nat
    BY <1>13
  <2>2. IsPrefix(dir, e) <=> Len(dir) <= Len(e) /\ \A i \in 1 .. Len(dir) : dir[i] = e[i]
    BY <2>1, PrefixSo
  <2>3. IsStrictPrefix(dir, e) <=> Len(dir) < Len(e) /\ \A i \in 1 .. Len(dir) : dir[i] = e[i]
    BY <2>1, StrictSo
  <2> QED
    BY <2>1, <2>2, <2>3
<1>14. ASSUME e \in folders
       PROVE  (\E n \in 1 .. WalkLevels : Len(e) = Len(dir) + n)
                <=> Len(dir) < Len(e) /\ Len(e) <= Len(dir) + WalkLevels
  <2>1. Len(e) \in Nat /\ Len(dir) \in Nat
    BY <1>14
  <2>2. ASSUME Len(dir) < Len(e), Len(e) <= Len(dir) + WalkLevels
        PROVE  \E n \in 1 .. WalkLevels : Len(e) = Len(dir) + n
    <3> DEFINE n == Len(e) - Len(dir)
    <3>1. n \in 1 .. WalkLevels /\ Len(e) = Len(dir) + n
      BY <1>0, <2>1, <2>2
    <3> QED
      BY <3>1
  <2>3. ASSUME NEW n \in 1 .. WalkLevels, Len(e) = Len(dir) + n
        PROVE  Len(dir) < Len(e) /\ Len(e) <= Len(dir) + WalkLevels
    BY <1>0, <2>1, <2>3
  <2> QED
    BY <2>2, <2>3
<1> QED
  BY <1>12, <1>13, <1>14 DEF L, DownBy

Names == STRING

LEMMA PathNames == Paths \subseteq Seq(Names)
<1> DEFINE R == DOMAIN Rank
<1>1. R \subseteq Names
  BY RankAssumption DEF Names
<1> HIDE DEF R
<1>2. \A s \in Seq(R) : s \in Seq(Names)
  BY <1>1
<1> QED
  BY <1>2 DEF Paths, R

\* Of the folders that are not skipped, a pattern finds what it declares.
LEMMA PrefixType ==
    ASSUME NEW X, NEW rel \in Seq(X), AnyDepthAt(rel) # {}
    PROVE  Prefix(rel) \in Seq(X)
<1> DEFINE S == AnyDepthAt(rel)
           n == Min(S) - 1
<1>1. Len(rel) \in Nat
  OBVIOUS
<1>2. S \in SUBSET Nat /\ \A i \in S : i \in 1 .. Len(rel)
  BY <1>1 DEF AnyDepthAt
<1>3. Min(S) \in S
  <2>1. S # {}
    OBVIOUS
  <2> HIDE DEF S
  <2> QED
    BY <1>2, <2>1, MinOf
<1>4. n \in 0 .. Len(rel)
  <2>1. Min(S) \in 1 .. Len(rel)
    BY <1>2, <1>3
  <2> HIDE DEF S
  <2> QED
    BY <1>1, <2>1
<1>5. Prefix(rel) = SubSeq(rel, 1, n)
  BY DEF Prefix
<1> HIDE DEF n
<1> QED
  BY <1>4, <1>5, FrontOf

LEMMA FoundSo ==
    ASSUME NEW X, NEW tree \in SUBSET Seq(X), NEW base \in Seq(X), NEW p \in Seq(X),
           NEW d \in tree, ~SkipDir(d)
    PROVE  d \in Found(Folders(tree), base, p) <=> Declares(base, p, d)
<1> DEFINE folders == Folders(tree)
           rel == base \o p
           front == Prefix(rel)
<1>1. rel \in Seq(X)
  BY Joined
<1> HIDE DEF rel, front
<1>3. d \in Seq(X) /\ Len(d) \in Nat
  OBVIOUS
<1>4. \A e : e \in folders <=> e \in Seq(X) /\ \E dir \in tree : IsPrefix(e, dir)
  BY FoldersSo
<1>5. d \in folders
  <2>1. IsPrefix(d, d)
    BY <1>3, PrefixSo
  <2> HIDE DEF folders
  <2> QED
    BY <1>3, <1>4, <2>1
<1>6. ASSUME NEW c \in folders, NEW e \in Seq(X), IsPrefix(e, c) PROVE e \in folders
  <2>1. PICK dir \in tree : IsPrefix(c, dir)
    BY <1>4
  <2>2. c \in Seq(X) /\ dir \in Seq(X)
    BY <1>4
  <2>3. IsPrefix(e, dir)
    BY <1>6, <2>1, <2>2, PrefixOnwards
  <2> QED
    BY <1>4, <1>6, <2>3
<1>7. folders \in SUBSET Seq(X)
  BY <1>4
<1> HIDE DEF folders
<1>8. CASE AnyDepthAt(rel) # {}
  <2>1. Declares(base, p, d) <=> IsStrictPrefix(front, d) /\ Len(d) <= Len(front) + WalkLevels
    BY <1>8 DEF Declares, rel, front
  <2>2. d \in Found(folders, base, p) <=> front \in folders /\ d \in WalkPackages(folders, front)
    BY <1>8 DEF Found, rel, front
  <2>4. front \in Seq(X)
    BY <1>1, <1>8, PrefixType DEF front
  <2>3. d \in WalkPackages(folders, front)
          <=> /\ d \in folders /\ ~SkipDir(d)
              /\ IsStrictPrefix(front, d) /\ Len(d) <= Len(front) + WalkLevels
    BY <1>6, <1>7, <2>4, WalkSo
  <2>5. IsStrictPrefix(front, d) => front \in folders
    BY <1>4, <2>4 DEF IsStrictPrefix
  <2> QED
    BY <1>5, <2>1, <2>2, <2>3, <2>5 DEF folders
<1>9. CASE AnyDepthAt(rel) = {}
  <2>1. Declares(base, p, d)
          <=> Len(d) = Len(rel) /\ \A i \in 1 .. Len(d) : rel[i] \in {AnyName, d[i]}
    BY <1>9 DEF Declares, rel
  <2>2. d \in Found(folders, base, p) <=> d \in Glob(folders, rel)
    BY <1>9 DEF Found, rel
  <2> QED
    BY <1>5, <2>1, <2>2 DEF Glob, folders
<1> QED
  BY <1>8, <1>9

LEMMA ExpandSo ==
    ASSUME NEW X, NEW tree \in SUBSET Seq(X), NEW base \in Seq(X),
           NEW patterns \in SUBSET Seq(X)
    PROVE  ExpandWorkspaces(tree, base, patterns) = Capped(Sorted(Declared(tree, base, patterns)))
<1> DEFINE folders == Folders(tree)
           all == UNION {Found(folders, base, p) : p \in patterns}
           found == all \ {base, <<>>}
           kept == {d \in found : ~SkipDir(d) /\ d \in tree}
<1>1. ASSUME NEW d \in tree, ~SkipDir(d), NEW p \in patterns
      PROVE  d \in Found(folders, base, p) <=> Declares(base, p, d)
  <2>1. p \in Seq(X)
    OBVIOUS
  <2> QED
    BY <1>1, <2>1, FoundSo
<1>2. \A d : d \in found <=> d \notin {base, <<>>} /\ \E p \in patterns : d \in Found(folders, base, p)
  <2>1. \A d : d \in all <=> \E p \in patterns : d \in Found(folders, base, p)
    <3> HIDE DEF folders
    <3> QED
      BY Zenon
  <2> HIDE DEF all
  <2> QED
    BY <2>1
<1>3. \A d : d \in kept <=> d \in found /\ ~SkipDir(d) /\ d \in tree
  OBVIOUS
<1>4. ExpandWorkspaces(tree, base, patterns) = Capped(Sorted(kept))
  BY DEF ExpandWorkspaces
<1> HIDE DEF folders, all, found, kept
<1>5. \A d : d \in kept <=> d \in Declared(tree, base, patterns)
  BY <1>1, <1>2, <1>3 DEF Declared
<1>6. kept = Declared(tree, base, patterns)
  BY <1>5
<1> QED
  BY <1>4, <1>6

\* The root is one of the candidates.
LEMMA RootSo ==
    ASSUME NEW tree, HasRoot(tree)
    PROVE  \E i \in 1 .. Len(RootFolders) : Root(tree) = RootFolders[i]
<1> DEFINE S == {i \in 1 .. Len(RootFolders) : RootFolders[i] \in tree}
           Least(i) == /\ RootFolders[i] \in tree
                       /\ \A j \in 1 .. i - 1 : RootFolders[j] \notin tree
<1>1. Len(RootFolders) \in Nat
  BY RootFoldersAssumption
<1>2. S # {}
  BY DEF HasRoot
<1>3. S \in SUBSET Nat
  BY <1>1
<1>4. Min(S) \in S /\ \A n \in S : Min(S) <= n
  <2> HIDE DEF S
  <2> QED
    BY <1>2, <1>3, MinOf
<1>5. \E i \in 1 .. Len(RootFolders) : Least(i)
  <2> DEFINE m == Min(S)
  <2>1. m \in 1 .. Len(RootFolders) /\ RootFolders[m] \in tree
    BY <1>4
  <2>2. \A j \in 1 .. Len(RootFolders) : RootFolders[j] \in tree => m <= j
    BY <1>4
  <2> HIDE DEF m, S
  <2>3. \A j \in 1 .. m - 1 : j \in 1 .. Len(RootFolders) /\ ~(m <= j)
    BY <1>1, <2>1
  <2> QED
    BY <2>1, <2>2, <2>3
<1> DEFINE i == CHOOSE i \in 1 .. Len(RootFolders) : Least(i)
<1>6. Root(tree) = RootFolders[i]
  BY DEF Root
<1> HIDE DEF Least
<1>7. i \in 1 .. Len(RootFolders)
  BY <1>5
<1> HIDE DEF i
<1> QED
  BY <1>6, <1>7

\* What Capped leaves of a list.
LEMMA CappedSo ==
    ASSUME NEW S, NEW list \in Seq(S)
    PROVE  /\ Len(list) \in Nat
           /\ Capped(list) \in Seq(S)
           /\ Len(Capped(list)) \in Nat /\ Len(Capped(list)) <= Len(list)
           /\ Len(Capped(list)) <= MaxWorkspaceManifests
           /\ Len(Capped(list)) < Len(list) => Len(Capped(list)) = MaxWorkspaceManifests
           /\ \A i \in 1 .. Len(Capped(list)) : Capped(list)[i] = list[i]
<1> DEFINE m == IF Len(list) < MaxWorkspaceManifests THEN Len(list) ELSE MaxWorkspaceManifests
<1>1. Len(list) \in Nat /\ MaxWorkspaceManifests \in Nat
  BY MaxWorkspaceManifestsAssumption
<1>2. m \in 0 .. Len(list) /\ m \in Nat /\ m <= Len(list) /\ m <= MaxWorkspaceManifests
      /\ (m < Len(list) => m = MaxWorkspaceManifests)
  BY <1>1
<1>3. Capped(list) = SubSeq(list, 1, m)
  BY DEF Capped
<1> HIDE DEF m
<1>4. /\ Capped(list) \in Seq(S) /\ Len(Capped(list)) = m
      /\ \A i \in 1 .. m : Capped(list)[i] = list[i]
  BY <1>2, <1>3, FrontOf
<1> QED
  BY <1>1, <1>2, <1>4

\* What Collect sends of a tree, as WorkspacesAsDeclared says it.
AsDeclared(tree, patterns) ==
    LET sent == Collect(tree, patterns)
        others == {sent[i] : i \in 2 .. Len(sent)}
        declared == Declared(tree, Root(tree), patterns)
    IN IF ~HasRoot(tree) THEN sent = <<>>
       ELSE /\ sent[1] = Root(tree)
            /\ others \subseteq declared
            /\ Cardinality(others) = Len(sent) - 1
            /\ Len(sent) - 1 <= MaxWorkspaceManifests
            /\ \A i \in 2 .. Len(sent) - 1 : Before(sent[i], sent[i + 1])
            /\ \A dir \in declared \ others :
                 /\ Len(sent) - 1 = MaxWorkspaceManifests
                 /\ \A other \in others : Before(other, dir)

\* The members of a list that has none twice.
LEMMA AsMany ==
    ASSUME NEW S, NEW list \in Seq(S),
           \A i, k \in 1 .. Len(list) : list[i] = list[k] => i = k
    PROVE  Cardinality({list[i] : i \in 1 .. Len(list)}) = Len(list)
<1> DEFINE n == Len(list)
           T == {list[i] : i \in 1 .. n}
           f == [i \in 1 .. n |-> list[i]]
<1>1. n \in Nat
  OBVIOUS
<1>2. f \in [1 .. n -> T]
  OBVIOUS
<1>3. \A i, k \in 1 .. n : f[i] = f[k] => i = k
  OBVIOUS
<1>4. \A t \in T : \E i \in 1 .. n : f[i] = t
  OBVIOUS
<1> HIDE DEF n, T, f
<1>5. f \in Injection(1 .. n, T)
  BY <1>2, <1>3 DEF Injection, IsInjective
<1>6. f \in Surjection(1 .. n, T)
  BY <1>2, <1>4 DEF Surjection
<1>7. ExistsBijection(1 .. n, T)
  BY <1>5, <1>6 DEF ExistsBijection, Bijection
<1>8. Cardinality(T) = n
  BY <1>1, <1>7, FS_CountingElements
<1> QED
  BY <1>8 DEF n, T

LEMMA CollectSo ==
    ASSUME NEW tree \in SUBSET Places, NEW patterns \in Declarations
    PROVE  AsDeclared(tree, patterns)
<1>1. CASE ~HasRoot(tree)
  <2>1. Collect(tree, patterns) = <<>>
    BY <1>1 DEF Collect
  <2> QED
    BY <1>1, <2>1, Zenon DEF AsDeclared
<1>2. CASE HasRoot(tree)
  <2> DEFINE base == Root(tree)
             dirs == Declared(tree, base, patterns)
             list == Sorted(dirs)
             first == Capped(list)
             sent == <<base>> \o first
             m == Len(first)
             others == {sent[i] : i \in 2 .. Len(sent)}
  <2>1. tree \in SUBSET Paths /\ IsFiniteSet(tree)
    <3>1. tree \in SUBSET Places
      OBVIOUS
    <3>2. IsFiniteSet(Places) /\ Places \subseteq Paths
      BY PlacesAssumption DEF Paths
    <3>3. IsFiniteSet(tree)
      BY <3>1, <3>2, FS_Subset
    <3> QED
      BY <3>2, <3>3
  <2>2. dirs \in SUBSET tree
    BY DEF Declared
  <2>3. dirs \in SUBSET Paths /\ IsFiniteSet(dirs)
    <3> HIDE DEF dirs
    <3>1. IsFiniteSet(dirs)
      BY <2>1, <2>2, FS_Subset
    <3> QED
      BY <2>1, <2>2, <3>1
  <2>4. tree \in SUBSET Seq(Names)
    BY <2>1, PathNames
  <2>5. base \in Seq(Names)
    <3>1. RootFolders \in Seq(Seq(Names))
      BY RootFoldersAssumption DEF Names
    <3>2. PICK i \in 1 .. Len(RootFolders) : base = RootFolders[i]
      BY <1>2, RootSo
    <3>3. RootFolders[i] \in Seq(Names)
      BY <3>1
    <3> QED
      BY <3>2, <3>3
  <2>6. patterns \in SUBSET Seq(Names)
    BY DeclarationsAssumption DEF Names
  <2>7. Collect(tree, patterns) = sent
    <3>1. ExpandWorkspaces(tree, base, patterns) = first
      BY <2>4, <2>5, <2>6, ExpandSo
    <3> QED
      BY <1>2, <3>1 DEF Collect
  <2>8. InOrder(list, dirs)
    <3> HIDE DEF dirs
    <3> QED
      BY <2>3, SortedSo
  <2> HIDE DEF dirs, list
  <2>9. /\ list \in Seq(dirs) /\ Len(list) = Cardinality(dirs) /\ Len(list) \in Nat
        /\ \A i, k \in 1 .. Len(list) : i < k => Before(list[i], list[k])
        /\ \A d \in dirs : \E i \in 1 .. Len(list) : list[i] = d
    BY <2>8 DEF InOrder
  <2>10. /\ first \in Seq(dirs) /\ m \in Nat /\ m <= Len(list) /\ m <= MaxWorkspaceManifests
         /\ m < Len(list) => m = MaxWorkspaceManifests
         /\ \A i \in 1 .. m : first[i] = list[i]
    BY <2>9, CappedSo
  <2> HIDE DEF first, m
  <2>18. \A i \in 1 .. m : i \in 1 .. Len(list)
    BY <2>9, <2>10
  <2>11. \A i, k \in 1 .. m : i < k => Before(first[i], first[k])
    BY <2>9, <2>10, <2>18
  <2>19. \A i \in 1 .. m : first[i] \in dirs
    BY <2>10 DEF m
  <2>20. \A i \in 1 .. m : ~Before(first[i], first[i])
    <3>1. \A i \in 1 .. m : first[i] \in Paths
      BY <2>3, <2>19
    <3> QED
      BY <3>1, NotBefore
  <2>21. \A i, k \in 1 .. m : first[i] = first[k] => i = k
    <3> SUFFICES ASSUME NEW i \in 1 .. m, NEW k \in 1 .. m, first[i] = first[k], i # k PROVE FALSE
      OBVIOUS
    <3>1. i < k \/ k < i
      BY <2>10
    <3> QED
      BY <2>11, <2>20, <3>1
  <2>12. /\ Len(sent) = m + 1 /\ sent[1] = base
         /\ \A i \in 1 .. m : sent[i + 1] = first[i]
    <3> DEFINE U == dirs \union {base}
    <3>1. <<base>> \in Seq(U) /\ first \in Seq(U) /\ Len(<<base>>) = 1 /\ <<base>>[1] = base
      BY <2>10
    <3>2. /\ Len(sent) = Len(<<base>>) + Len(first)
          /\ \A i \in 1 .. Len(<<base>>) : sent[i] = <<base>>[i]
          /\ \A i \in 1 .. Len(first) : sent[Len(<<base>>) + i] = first[i]
      <4> HIDE DEF U
      <4> QED
        BY <3>1, Joined
    <3> HIDE DEF sent
    <3>3. 1 \in 1 .. 1 /\ 1 + m = m + 1 /\ \A i \in 1 .. m : 1 + i = i + 1
      BY <2>10
    <3> QED
      BY <3>1, <3>2, <3>3 DEF m
  <2> HIDE DEF sent
  <2>13. others = {first[i] : i \in 1 .. m}
    <3>1. ASSUME NEW i \in 2 .. Len(sent) PROVE \E k \in 1 .. m : sent[i] = first[k]
      <4>1. i - 1 \in 1 .. m /\ (i - 1) + 1 = i
        BY <2>10, <2>12
      <4> QED
        BY <2>12, <4>1
    <3>2. ASSUME NEW k \in 1 .. m PROVE \E i \in 2 .. Len(sent) : sent[i] = first[k]
      <4>1. k + 1 \in 2 .. Len(sent)
        BY <2>10, <2>12
      <4> QED
        BY <2>12, <4>1
    <3> QED
      BY <3>1, <3>2
  <2>14. Cardinality(others) = m
    <3>1. Cardinality({first[i] : i \in 1 .. Len(first)}) = Len(first)
      <4>1. first \in Seq(dirs) /\ \A i, k \in 1 .. Len(first) : first[i] = first[k] => i = k
        BY <2>10, <2>21 DEF m
      <4> QED
        BY <4>1, AsMany
    <3> QED
      BY <2>13, <3>1 DEF m
  <2> HIDE DEF others
  <2>15. others \subseteq dirs
    BY <2>13, <2>19
  <2>16. ASSUME NEW i \in 2 .. Len(sent) - 1 PROVE Before(sent[i], sent[i + 1])
    <3> DEFINE k == i - 1
    <3>1. k \in 1 .. m /\ k + 1 \in 1 .. m /\ k + 1 = i /\ k < k + 1
      BY <2>10, <2>12
    <3> HIDE DEF k
    <3>2. sent[k + 1] = first[k] /\ sent[(k + 1) + 1] = first[k + 1]
      BY <2>12, <3>1
    <3>3. Before(first[k], first[k + 1])
      BY <2>11, <3>1
    <3> QED
      BY <3>1, <3>2, <3>3
  <2>17. ASSUME NEW dir \in dirs \ others
         PROVE  m = MaxWorkspaceManifests /\ \A other \in others : Before(other, dir)
    <3>1. PICK k \in 1 .. Len(list) : list[k] = dir
      BY <2>9
    <3>2. k \notin 1 .. m
      BY <2>10, <2>13, <3>1
    <3>3. m < k /\ m < Len(list)
      BY <2>9, <2>10, <3>2
    <3>4. \A i \in 1 .. m : i < k
      BY <2>9, <2>10, <3>3
    <3>5. \A i \in 1 .. m : Before(first[i], dir)
      BY <2>9, <2>10, <2>18, <3>1, <3>4
    <3> QED
      BY <2>10, <2>13, <3>3, <3>5
  <2>22. Len(sent) - 1 = m
    BY <2>10, <2>12
  <2>23. /\ sent[1] = base /\ others \subseteq dirs /\ Cardinality(others) = Len(sent) - 1
         /\ Len(sent) - 1 <= MaxWorkspaceManifests
         /\ \A i \in 2 .. Len(sent) - 1 : Before(sent[i], sent[i + 1])
         /\ \A dir \in dirs \ others :
              /\ Len(sent) - 1 = MaxWorkspaceManifests
              /\ \A other \in others : Before(other, dir)
    BY <2>10, <2>12, <2>14, <2>15, <2>16, <2>17, <2>22
  <2>24. others = {Collect(tree, patterns)[i] : i \in 2 .. Len(Collect(tree, patterns))}
    BY <2>7 DEF others
  <2> HIDE DEF base
  <2> QED
    BY <1>2, <2>7, <2>23, <2>24, Zenon DEF AsDeclared, dirs, base
<1> QED
  BY <1>1, <1>2

TreeInv ==
    subject = "tree" /\ input # <<>> =>
        \E tree \in SUBSET Places : \E patterns \in Declarations : input = <<tree, patterns>>

(***************************************************************************)
(* The manifests sent are the root's and, in order and no more than the    *)
(* ceiling, those the workspaces declare (collect.go, Collect), in any     *)
(* finite tree, of any names and depth, and with any patterns.             *)
(***************************************************************************)
THEOREM WorkspacesFound == Spec => []WorkspacesAsDeclared
<1>1. Init => TreeInv
  BY DEF Init, TreeInv
<1>2. TreeInv /\ [Next]_vars => TreeInv'
  <2> SUFFICES ASSUME TreeInv, [Next]_vars PROVE TreeInv'
    OBVIOUS
  <2>1. CASE UNCHANGED vars
    BY <2>1 DEF TreeInv, vars
  <2>2. ASSUME subject # "tree" /\ UNCHANGED subject PROVE TreeInv'
    BY <2>2 DEF TreeInv
  <2>3. ASSUME NEW tree \in SUBSET Places, NEW patterns \in Declarations, CheckOut(tree, patterns)
        PROVE  TreeInv'
    BY <2>3 DEF CheckOut, TreeInv
  <2> QED
    BY <2>1, <2>2, <2>3
    DEF Next, ReadBeat, ReadPnpm, ReadJson, ReadConfig, ReadLog, Read
<1>3. TreeInv => WorkspacesAsDeclared
  <2> SUFFICES ASSUME TreeInv, subject = "tree", input # <<>> PROVE WorkspacesAsDeclared
    BY DEF WorkspacesAsDeclared
  <2>1. PICK tree \in SUBSET Places, patterns \in Declarations : input = <<tree, patterns>>
    BY DEF TreeInv
  <2>2. input[1] = tree /\ input[2] = patterns
    BY <2>1
  <2>3. AsDeclared(input[1], input[2])
    BY <2>2, CollectSo
  <2> QED
    BY <2>3, Zenon DEF AsDeclared, WorkspacesAsDeclared
<1> QED
  BY <1>1, <1>2, <1>3, PTL DEF Spec

===============================================================================
