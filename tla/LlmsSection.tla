---------------------------- MODULE LlmsSection ----------------------------
(***************************************************************************)
(* tryLlmsTxtFetch once the llms-full.txt is there: extractSection finds   *)
(* the requested page in a document that holds many.                       *)
(*                                                                         *)
(* A document is a sequence of lines.  Only four things matter of a line:  *)
(* whether it is a separator ("---"), a page's "url:" line, a heading, and *)
(* of a heading its level and whether it is a link.  A section is the      *)
(* interval of line numbers that is cut out.                               *)
(***************************************************************************)
EXTENDS Naturals, Sequences, SequencesExt

CONSTANTS
    Layouts,    \* the documents: sequences of pages, a page its path and its lines
    Paths       \* the paths of pages and of requests, sequences of segments

VARIABLES
    layout,     \* the pages of the document
    want,       \* the path of the requested URL
    listed,     \* is the host on the allowlist?
    section     \* Unasked, then what extractSection found

Text == [kind |-> "text"]
Sep == [kind |-> "sep"]
UrlLine(path) == [kind |-> "url", path |-> path]
Heading(level) == [kind |-> "heading", level |-> level]
HeadingLink(level, path) == [kind |-> "link", level |-> level, path |-> path]

Line == {Text, Sep} \union {UrlLine(p) : p \in Paths} \union {Heading(l) : l \in 1..6}
            \union {HeadingLink(l, p) : l \in 1..6, p \in Paths}

(* A page that a separator and its url: line introduce, separators of its  *)
(* own behind it or not; no linked headings, which are searched for when   *)
(* no url: line matches.                                                   *)
UrlPage(p) ==
    /\ \E k \in DOMAIN p.lines \ {1} :
          /\ p.lines[1] = Sep /\ p.lines[k] = UrlLine(p.path)
          /\ \A j \in DOMAIN p.lines : /\ p.lines[j].kind = "url" => j = k
                                       /\ p.lines[j].kind = "sep" /\ j < k => j = 1
    /\ \A j \in DOMAIN p.lines : p.lines[j].kind # "link"

(* A page under a linked heading, none of whose own headings is as high.   *)
LinkPage(p, level) ==
    /\ p.lines # <<>> /\ p.lines[1] = HeadingLink(level, p.path)
    /\ \A j \in DOMAIN p.lines \ {1} :
          /\ p.lines[j].kind \notin {"url", "link"}
          /\ p.lines[j].kind = "heading" => p.lines[j].level > level

(* A generator writes all pages of a document alike.                       *)
ASSUME SectionAssumption ==
    \A doc \in Layouts :
        /\ doc \in Seq([path : Paths, lines : Seq(Line)])
        /\ \/ \A i \in DOMAIN doc : UrlPage(doc[i])
           \/ \E level \in 1..6 : \A i \in DOMAIN doc : LinkPage(doc[i], level)

sectionVars == <<layout, want, listed, section>>

NoSection == [from |-> 0, to |-> 0]      \* null
Unasked == [from |-> 1, to |-> 0]
content == FlattenSeq([i \in DOMAIN layout |-> layout[i].lines])

SectionInit ==
    /\ layout \in Layouts /\ want \in Paths /\ listed \in BOOLEAN
    /\ section = Unasked

(* Two paths match if they are equal or one ends with the other; "/" has   *)
(* no segment and matches only itself.                                     *)
pathsMatch(p, q) ==
    \/ p = q
    \/ <<>> \notin {p, q} /\ (IsSuffix(p, q) \/ IsSuffix(q, p))

LinesOf(lines, kinds) == {i \in DOMAIN lines : lines[i].kind \in kinds}

(* Fault: a page begins at its url: line.                                  *)
FaultyStartOf(lines, i) == i

(* A page runs from the separator before its url: line, or from the first  *)
(* line, ...                                                               *)
StartOf(lines, i) == Max({1} \union {j \in LinesOf(lines, {"sep"}) : j < i})

(* ... to the separator that introduces the next url: line if it comes     *)
(* after this one, or else to that line, or to the end.                    *)
EndOf(lines, i) ==
    LET later == {j \in LinesOf(lines, {"url"}) : j > i}
        next == Min(later)
        seps == {j \in LinesOf(lines, {"sep"}) : i < j /\ j < next}
    IN CASE later = {}                -> Len(lines)
         [] later # {} /\ seps # {}   -> Max(seps) - 1
         [] OTHER                     -> next - 1

FirstMatch(lines, kind, path) ==
    LET matching == {i \in LinesOf(lines, {kind}) : pathsMatch(lines[i].path, path)}
    IN IF matching = {} THEN 0 ELSE Min(matching)

extractByUrlLine(lines, path) ==
    LET i == FirstMatch(lines, "url", path)
    IN IF i = 0 THEN NoSection ELSE [from |-> StartOf(lines, i), to |-> EndOf(lines, i)]

(* A page under a linked heading ends before the next heading that is not  *)
(* below it.                                                               *)
extractByHeadingLink(lines, path) ==
    LET i == FirstMatch(lines, "link", path)
        closing == {j \in LinesOf(lines, {"heading", "link"}) :
                       j > i /\ lines[j].level <= lines[i].level}
    IN IF i = 0 THEN NoSection
       ELSE [from |-> i, to |-> IF closing = {} THEN Len(lines) ELSE Min(closing) - 1]

extractSection(lines, path) ==
    LET byUrl == extractByUrlLine(lines, path)
    IN IF byUrl # NoSection THEN byUrl ELSE extractByHeadingLink(lines, path)

tryLlmsTxtFetch ==
    /\ section = Unasked
    /\ section' = IF listed THEN extractSection(content, want) ELSE NoSection
    /\ UNCHANGED <<layout, want, listed>>

SectionSpec == SectionInit /\ [][tryLlmsTxtFetch]_sectionVars

-----------------------------------------------------------------------------
(* The lines of page p, by the layout and not by looking at the lines.     *)
PageSpan(p) ==
    LET Upto(q) == Len(FlattenSeq([i \in 1..q |-> layout[i].lines]))
    IN [from |-> Upto(p - 1) + 1, to |-> Upto(p)]

(* In a document of well-formed pages, separators of their own inside them *)
(* or not, what is served is a whole page, the first whose path matches,   *)
(* without a line of another; and a page that is there is found.           *)
ServesOneWholePage ==
    section # Unasked =>
        LET matching == {p \in DOMAIN layout : listed /\ pathsMatch(layout[p].path, want)}
        IN section = IF matching = {} THEN NoSection ELSE PageSpan(Min(matching))
=============================================================================
