---------------------------- MODULE MCFetchPage ----------------------------
(***************************************************************************)
(* Instances of FetchPage, and of what tryLlmsTxtFetch, the fast path that *)
(* it asks first, rests on: LlmsFullTxt and LlmsSection.  The three share  *)
(* no state; a behaviour is about the one in focus, the others keep still. *)
(* Fetches of different URLs share none either: a behaviour of FetchPage   *)
(* is about a GitHub URL or about one of an ordinary host.                 *)
(***************************************************************************)
EXTENDS FetchPage, LlmsFullTxt, LlmsSection, TLC

CONSTANTS
    Focus,      \* a subset of {"fetch", "github", "llms", "section"}
    r1, r2, page, repo,
    c1, c2, o1, o2,
    guide, api, docs

VARIABLE focus

-----------------------------------------------------------------------------
(* An ordinary host for which two fast paths apply, and a GitHub URL.      *)
FastPaths == [u \in {page, repo} |-> IF u = page THEN <<"kiwix", "hister">> ELSE <<>>]

(* Paths of which one is the end of another, and the root.                 *)
SomePaths == {<<>>, <<guide>>, <<docs, guide>>, <<api>>}

(* Pages with and without separators of their own; sub-headings.           *)
UrlPages(p) ==
    {[path |-> p, lines |-> lines] :
        lines \in {<<Sep, Text, UrlLine(p), Sep, Text>>, <<Sep, UrlLine(p)>>,
                   <<Sep, UrlLine(p), Heading(1), Sep, Text, Sep>>}}
LinkPages(p) ==
    {[path |-> p, lines |-> lines] :
        lines \in {<<HeadingLink(2, p), Text, Heading(3), Text>>, <<HeadingLink(2, p)>>}}

Documents(Pages) == BoundedSeq(Pages, 3)
SomeLayouts == Documents(UNION {UrlPages(p) : p \in SomePaths})
                  \union Documents(UNION {LinkPages(p) : p \in SomePaths})

Alike == Permutations(Req) \union Permutations(Lookup) \union Permutations(Origin)

(* What was recorded in the last step is read by no step and no property.  *)
Seen == <<cache, req, hist, llmsVars, sectionVars, focus>>

-----------------------------------------------------------------------------
Blank == layout = <<>> /\ want = <<>> /\ listed = FALSE /\ section = Unasked

MCInit ==
    /\ focus \in Focus
    /\ Init /\ LlmsInit
    /\ IF focus = "section" THEN SectionInit ELSE Blank

MCNext ==
    /\ \/ /\ focus \in {"fetch", "github"} /\ Next /\ UNCHANGED <<llmsVars, sectionVars>>
          /\ \A r \in Req : req'[r].url \in {None, IF focus = "github" THEN repo ELSE page}
       \/ focus = "llms" /\ LlmsNext /\ UNCHANGED <<vars, sectionVars>>
       \/ focus = "section" /\ tryLlmsTxtFetch /\ UNCHANGED <<vars, llmsVars>>
       \/ focus = "section" /\ section # Unasked /\ UNCHANGED <<vars, llmsVars, sectionVars>>
    /\ UNCHANGED focus

MCSpec == MCInit /\ [][MCNext]_<<vars, llmsVars, sectionVars, focus>>
=============================================================================
