----------------------------- MODULE GitContext -----------------------------
(***************************************************************************)
(* The remote of a repository, read out of its git config line by line     *)
(* (internal/gitctx/gitctx.go), against the sections of the file.          *)
(*                                                                         *)
(* A line is a section header, with the remote's name or "" for a section  *)
(* of another kind, or a key and its value.                                *)
(***************************************************************************)
EXTENDS Integers, Sequences, SequencesExt, FiniteSets, FiniteSetsExt

IsHeader(line) == line.key = "["

\* Mistake: only the header of another remote ends a section.
RemotesOnly(line, section) == IF line.value = "" THEN section ELSE line.value

\* remoteSectionName, of a header that ends the section before it.
RemoteSectionName(line, section) == line.value

\* One turn of readOriginURL's loop; s.origin is the url it returned with.
ConfigLine(s, line) ==
    IF s.origin # "" THEN s
    ELSE IF IsHeader(line) THEN [s EXCEPT !.section = RemoteSectionName(line, @)]
    ELSE IF s.section = "" \/ line.key # "url" \/ line.value = "" THEN s
    ELSE IF s.section = "origin" THEN [s EXCEPT !.origin = line.value]
    ELSE IF s.first = "" THEN [s EXCEPT !.first = line.value]
    ELSE s

ConfigBegin == [section |-> "", origin |-> "", first |-> ""]

\* What readOriginURL returns.
OriginURL(s) == IF s.origin # "" THEN s.origin ELSE s.first

-----------------------------------------------------------------------------
\* The lines that give a url of one of these remotes.
UrlsOf(lines, remotes) ==
    {i \in 1 .. Len(lines) :
        /\ lines[i].key = "url" /\ lines[i].value # ""
        /\ \E h \in 1 .. i - 1 :
             /\ IsHeader(lines[h]) /\ lines[h].value \in remotes
             /\ \A k \in h + 1 .. i - 1 : ~IsHeader(lines[k])}

FirstUrl(lines, urls) == IF urls = {} THEN "" ELSE lines[Min(urls)].value

=============================================================================
