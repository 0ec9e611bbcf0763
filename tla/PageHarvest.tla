------------------------------ MODULE PageHarvest ------------------------------
(***************************************************************************)
(* harvestDispatch: the reply of one dispatch, from its reply file or else *)
(* from the rollout.  A reply file is served whatever the rollout says,    *)
(* with a caution unless the rollout shows that it still stands; a body    *)
(* from the rollout is served only from a page that has kept its           *)
(* authority.  The look at the reply file, the search, the read, the look  *)
(* at the bound page, the listing and each candidate are steps of their    *)
(* own: Codex writes on, pages appear and are continued between any two.   *)
(***************************************************************************)
EXTENDS RolloutPages

CONSTANTS Dispatches,    \* what a correlator can make of a page, see DispatchCorrelator
          Follows,       \* which of them one more line can lead to
          Directories,   \* what the sessions root may hold at the start
          NewFiles,      \* the first records a new page may get
          Requests,      \* the --rollout-path of the call, None for a search
          MaxChanges

\* Why there is no body.
Reasons == {"pending", "unavailable", "ambiguous", "unparseable"}

ASSUME PageHarvestAssumption ==
  /\ Dispatches \subseteq [certified : BOOLEAN, reason : Reasons, superseding : BOOLEAN,
                           fresh : {"settled", "pending", "unavailable"},
                           duplicates : Nat, marker : Nat \cup {None}]
  /\ Follows \in [Dispatches -> SUBSET Dispatches] /\ MaxChanges \in Nat
  /\ Requests \subseteq Paths \cup {None} /\ NewFiles \subseteq File

\* Paths that name one file find the same in it.
ASSUME DirectoriesAssumption ==
  \A d \in Directories :
    /\ d \in [Paths -> File \cup {None}]
    /\ \A p \in Present(d) : d[p].inode <= Cardinality(Paths)
    /\ \A p, q \in Present(d) : d[p].inode = d[q].inode => d[p] = d[q]

VARIABLES
  dir, says,    \* the pages, and what a correlator makes of each
  oddity, reply, changes,
  pc, choice,
  primary,      \* is there a reply file to serve?
  page,         \* the located page, with what was seen of it: its file and verdict
  todo, known,  \* candidates left, files seen
  broken, successors,
  answer,       \* what is returned
  listed,       \* history: the directory when its names were read
  judged        \* history: the bound page when it was looked at again

world == <<dir, says, oddity, reply, changes>>
assessing == <<todo, known, broken, successors>>
vars == <<world, pc, choice, primary, page, assessing, answer, listed, judged>>

NoPage == [path |-> None]
NoAnswer == [source |-> "", status |-> "", caution |-> FALSE]

-----------------------------------------------------------------------------
(***************************************************************************)
(* The world around the harvester.                                         *)
(***************************************************************************)

\* Before the search every state is an initial one, and after the last look a
\* change is not seen any more.
Change == /\ changes < MaxChanges /\ changes' = changes + 1
          /\ pc \in {"locate", "read", "bound", "list", "check"}
          /\ UNCHANGED <<pc, choice, primary, page, assessing, answer, listed, judged>>

\* The number of a file made now, and the paths that name one file.
FreshInode == Cardinality(Paths) + changes + 1
Links(p) == {q \in Present(dir) : dir[q].inode = dir[p].inode}

\* A new page appears, its first record half written, and is finished.
NewPage ==
  /\ Change
  /\ \E p \in Paths \ Present(dir), file \in NewFiles :
       dir' = [dir EXCEPT ![p] = [file EXCEPT !.inode = FreshInode]]
  /\ UNCHANGED <<says, oddity, reply>>

Finished(file) ==
  IF file.header = "torn" THEN [file EXCEPT !.header = "unterminated"]
  ELSE [file EXCEPT !.header = "terminated", !.size = @ + 1]

FinishHeader ==
  /\ Change
  /\ \E p \in Present(dir) :
       /\ dir[p].header # "terminated"
       /\ dir' = [q \in Paths |-> IF q \in Links(p) THEN Finished(dir[q]) ELSE dir[q]]
  /\ UNCHANGED <<says, oddity, reply>>

\* A page gets a line, or the first half of one.
Grow ==
  /\ Change
  /\ \E p \in Present(dir), more \in {1, 2} :
       /\ dir[p].header = "terminated"
       /\ more = 2 => dir[p].size % 2 = 0
       /\ dir' = [q \in Paths |-> IF q \in Links(p) THEN [dir[q] EXCEPT !.size = @ + more]
                                 ELSE dir[q]]
       /\ IF (dir[p].size + more) % 2 = 0
          THEN \E next \in Follows[says[p]] :
                 says' = [q \in Paths |-> IF q \in Links(p) THEN next ELSE says[q]]
          ELSE UNCHANGED says
  /\ UNCHANGED <<oddity, reply>>

\* Another file, with the same lines, takes the path of the page being read.
Replace ==
  /\ Change
  /\ page # NoPage
  /\ dir' = [dir EXCEPT ![page.path] = [@ EXCEPT !.inode = FreshInode]]
  /\ UNCHANGED <<says, oddity, reply>>

\* A link, an unreadable directory or a strange name turns up below the root.
Disturb ==
  /\ Change
  /\ ~oddity /\ oddity' = TRUE
  /\ UNCHANGED <<dir, says, reply>>

-----------------------------------------------------------------------------
(***************************************************************************)
(* The harvester.                                                          *)
(***************************************************************************)

Return(source, status, caution) ==
  /\ pc' = "done"
  /\ answer' = [source |-> source, status |-> status, caution |-> caution]

\* supersessionAssessment beside a reply file, none without one.
Withhold(reason) ==
  IF primary THEN Return("reply-file", IF reason = "pending" THEN "pending" ELSE "unavailable", TRUE)
  ELSE Return("none", reason, FALSE)

\* primaryReply: a regular file; a link, a directory or one that cannot be
\* opened is as good as absent.
LookForReply ==
  /\ pc = "start"
  /\ primary' = (reply = "regular") /\ pc' = "locate"
  /\ UNCHANGED <<world, choice, page, assessing, answer, listed, judged>>

Locate ==
  /\ pc = "locate"
  /\ LET found == IF choice = None THEN Located(dir, oddity) ELSE LocatedAt(dir, choice)
     IN IF found.status = "found"
        THEN /\ page' = [path |-> found.path, inode |-> dir[found.path].inode]
             /\ pc' = "read" /\ UNCHANGED answer
        ELSE Withhold(found.status) /\ UNCHANGED page
  /\ UNCHANGED <<world, choice, primary, assessing, listed, judged>>

\* readRolloutFile and the correlator; see RolloutReader for the read itself.
\* A read that another write follows at once does not end at the end of the file.
Read ==
  /\ pc = "read"
  /\ LET file == dir[page.path] IN
     IF file.inode # page.inode THEN Withhold("unparseable") /\ UNCHANGED page
     ELSE IF file.size % 2 = 1 THEN Withhold("pending") /\ UNCHANGED page
     ELSE /\ page' = [path |-> page.path, inode |-> page.inode, size |-> file.size,
                      says |-> says[page.path]]
          /\ pc' = "bound" /\ UNCHANGED answer
  /\ UNCHANGED <<world, choice, primary, assessing, listed, judged>>

\* assessBoundPage.  First the bound page again,
LookAtBound ==
  /\ pc = "bound"
  /\ judged' = [file |-> dir[page.path], says |-> says[page.path]]
  /\ broken' = ~BoundUnchanged(dir, page.path, page.inode, page.size)
  /\ pc' = IF broken' THEN "decide" ELSE "list"
  /\ UNCHANGED <<world, choice, primary, page, todo, known, successors, answer, listed>>

\* then the names below the root,
List ==
  /\ pc = "list"
  /\ listed' = dir
  /\ broken' = oddity
  /\ todo' = IF oddity THEN {} ELSE Rivals(Matches(dir), page.path)
  /\ known' = {page.inode} /\ successors' = {}
  /\ pc' = "check"
  /\ UNCHANGED <<world, choice, primary, page, answer, judged>>

\* then each candidate; the first broken one ends the look.
Check ==
  /\ pc = "check" /\ todo # {}
  /\ LET p == Min(todo)
         bound == [page |-> PageId(dir, page.path), size |-> page.size]
         claim == IF ~Valid(dir, p) THEN "broken"
                  ELSE IF dir[p].inode \in known THEN "same" ELSE Claim(dir, bound, p)
     IN /\ broken' = (claim = "broken")
        /\ todo' = IF broken' THEN {} ELSE todo \ {p}
        /\ known' = IF Valid(dir, p) THEN known \cup {dir[p].inode} ELSE known
        /\ successors' = IF claim = "successor"
                         THEN successors \cup {<<dir[p].inode, dir[p].cutoff>>} ELSE successors
  /\ UNCHANGED <<world, pc, choice, primary, page, answer, listed, judged>>

Checked ==
  /\ pc = "check" /\ todo = {}
  /\ pc' = "decide"
  /\ UNCHANGED <<world, choice, primary, page, assessing, answer, listed, judged>>

\* Fault: a completion followed by activity that is not understood still counts.
AnyCompletion(verdict) == verdict.certified
Settled(verdict) == verdict.certified /\ verdict.fresh = "settled"

Unsettled(verdict) == IF verdict.fresh = "pending" THEN "pending" ELSE "unavailable"

Decide ==
  /\ pc = "decide"
  /\ LET verdict == page.says
         status == Verdict(broken, successors, verdict.marker)
     IN IF verdict.duplicates > 1 \/ status # "current" THEN Withhold("unavailable")
        ELSE IF ~verdict.certified THEN Withhold(verdict.reason)
        ELSE IF primary /\ verdict.superseding
          THEN Return("reply-file", "confirmed", ~Settled(verdict))
        ELSE IF ~Settled(verdict) THEN Withhold(Unsettled(verdict))
        ELSE IF primary THEN Return("reply-file", "not-seen", FALSE)
        ELSE Return("rollout-fallback", "", FALSE)
  /\ UNCHANGED <<world, choice, primary, page, assessing, listed, judged>>

-----------------------------------------------------------------------------

Init ==
  /\ dir \in Directories /\ choice \in Requests
  /\ \E verdict \in Dispatches : says = [p \in Paths |-> verdict]
  /\ oddity = FALSE /\ reply \in {"absent", "regular"} /\ changes = 0
  /\ pc = "start" /\ primary = FALSE /\ page = NoPage
  /\ todo = {} /\ known = {} /\ broken = FALSE /\ successors = {}
  /\ answer = NoAnswer /\ listed = dir /\ judged = NoPage

HarvestStep ==
  \/ LookForReply \/ Locate \/ Read \/ LookAtBound \/ List
  \/ Check \/ Checked \/ Decide

Next == NewPage \/ FinishHeader \/ Grow \/ Replace \/ Disturb \/ HarvestStep

Spec == Init /\ [][Next]_vars

-----------------------------------------------------------------------------
(***************************************************************************)
(* Properties.                                                             *)
(***************************************************************************)

\* What may be returned: only a reply file is served with a caution.
Answers ==
  {NoAnswer, [source |-> "rollout-fallback", status |-> "", caution |-> FALSE]}
  \cup [source : {"none"}, caution : {FALSE}, status : Reasons]
  \cup [source : {"reply-file"}, caution : BOOLEAN,
        status : {"pending", "unavailable", "confirmed", "not-seen"}]

\* The variables hold what harvestDispatch and its callees keep.
TypeOK ==
  /\ dir \in [Paths -> File \cup {None}] /\ says \in [Paths -> Dispatches]
  /\ oddity \in BOOLEAN /\ reply \in {"absent", "regular"} /\ changes \in Nat
  /\ primary \in BOOLEAN /\ broken \in BOOLEAN
  /\ pc \in {"start", "locate", "read", "bound", "list", "check", "decide", "done"}
  /\ todo \subseteq Paths /\ known \subseteq Nat /\ successors \subseteq Nat \X Nat
  /\ answer \in Answers

\* Some page continues this one, be its first record finished or not.
Continued(d, path) ==
  \E q \in Matches(d) \ {path} :
    Paginated(q) /\ d[q].inode # page.inode /\ d[q].base = PageId(d, path)

\* A body is taken from the rollout only if, when the bound page was looked at
\* again, it still said just that, completely and with nothing unsettled after
\* it, and no page continued it when the root was listed (harvestDispatch).
FallbackIsCurrent ==
  answer.source = "rollout-fallback" =>
    /\ ~Continued(listed, page.path)
    /\ judged.says = page.says /\ judged.file.inode = page.inode
    /\ judged.says.certified /\ judged.says.fresh = "settled" /\ judged.says.duplicates < 2

\* A reply file is served without a caution only if the same is true of the
\* page, and REPLY-SUPERSEDED is reported exactly if the page ends with it.
SilenceIsEarned ==
  answer.source = "reply-file" /\ ~answer.caution =>
    /\ ~Continued(listed, page.path)
    /\ judged.says.certified /\ judged.says.fresh = "settled" /\ judged.says.duplicates < 2
    /\ (answer.status = "confirmed") = judged.says.superseding

\* Every page after the first names another one, with a cutoff that page has,
\* and none is named twice.
Lineage(d) ==
  LET pages == Matches(d)
      continues(q, p) == p # q /\ Paginated(q) /\ d[q].base = PageId(d, p)
  IN /\ pages # {}
     /\ \A p \in pages : Valid(d, p) /\ d[p].header = "terminated"
     /\ \A p, q \in pages : p # q => PageId(d, p) # PageId(d, q) /\ d[p].inode # d[q].inode
     /\ Cardinality({p \in pages : ~Paginated(p)}) = 1
     /\ \A p \in pages : Cardinality({q \in pages : continues(q, p)}) <= 1
     /\ \A q \in pages : Paginated(q) =>
          \E p \in pages : continues(q, p) /\ CutoffSound(d[q].cutoff, d[p].size)

\* In a directory where every link is sound, exactly one page keeps its
\* authority, whatever else its links form (assessRolloutPageSupersession).
OnePageKeepsAuthority ==
  Lineage(dir) =>
    Cardinality({p \in Matches(dir) :
      Assess(dir, FALSE, p, dir[p].inode, dir[p].size, None) = "current"}) = 1
=============================================================================
