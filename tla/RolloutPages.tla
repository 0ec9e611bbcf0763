------------------------------ MODULE RolloutPages ------------------------------
(***************************************************************************)
(* The pages of one thread.  A thread's rollout may be continued in a new  *)
(* page file whose first record names the page it continues and the offset *)
(* up to which that page counts.  A page once chosen is never left for its *)
(* successor; it can only lose its authority.                              *)
(*                                                                         *)
(* A directory maps paths to files.  Sizes and offsets count half lines,   *)
(* so that an even offset is the end of a record.                          *)
(***************************************************************************)
EXTENDS Naturals, FiniteSets, FiniteSetsExt

CONSTANTS Paths,      \* the paths below the sessions root, in the order of their names
          Names,      \* what the name at a path says: a thread and a page
          Thread,     \* the thread that is looked for
          Ids, None

\* A file, and None for a path without one.  The header is "torn" while its
\* record cannot be parsed and "unterminated" while only its line feed is missing.
File == [inode : Nat, header : {"torn", "unterminated", "terminated"}, owner : Ids,
         session : Ids, base : Ids \cup {None}, cutoff : Nat \cup {None}, size : Nat]

ASSUME RolloutPagesAssumption ==
  /\ Paths \subseteq Nat /\ IsFiniteSet(Paths)
  /\ None \notin Ids /\ None \notin Nat /\ None \notin File /\ Thread \in Ids
  /\ Names \in [Paths -> [root : Ids, page : Ids \cup {None}]]

Present(dir) == {p \in Paths : dir[p] # None}

-----------------------------------------------------------------------------
(***************************************************************************)
(* Candidates.                                                             *)
(***************************************************************************)

\* parseRolloutBasename.
Paginated(p) == Names[p].page # None

\* validateCandidate: the name and the first record agree on the thread, and a
\* page names its session and the page it continues.
Valid(dir, p) ==
  LET file == dir[p] IN
  /\ file # None /\ file.header # "torn"
  /\ Names[p].root = Thread /\ file.owner = Thread
  /\ Paginated(p) => file.session = Thread /\ file.base # None

\* findUuidCandidates: the paths with the thread's name.  Names are read from
\* the directories, the files are not opened.
Matches(dir) == {p \in Present(dir) : Names[p].root = Thread}

\* One path of each physical file.
OnePerFile(dir, paths) ==
  {p \in paths : \A q \in paths : dir[q].inode = dir[p].inode => p <= q}

\* locateRollout without a path.  An oddity is whatever discovery leaves a
\* diagnostic for: an excluded link, an unreadable directory, a strange name.
Located(dir, oddity) ==
  LET matches == Matches(dir)
      valid == {p \in matches : Valid(dir, p)}
      candidates == OnePerFile(dir, valid)
  IN IF candidates = {} THEN [status |-> "unavailable", path |-> None]
     ELSE IF valid # matches \/ oddity \/ Cardinality(candidates) > 1
       THEN [status |-> "ambiguous", path |-> None]
     ELSE [status |-> "found", path |-> Min(candidates)]

\* And with one.
LocatedAt(dir, path) ==
  IF Valid(dir, path) THEN [status |-> "found", path |-> path]
  ELSE [status |-> "unavailable", path |-> None]

-----------------------------------------------------------------------------
(***************************************************************************)
(* Which page has a successor.                                             *)
(***************************************************************************)

PageId(dir, p) == IF Paginated(p) THEN Names[p].page ELSE dir[p].owner

\* cutoffIsRecordBoundary, within the page.
CutoffSound(cutoff, size) == cutoff # None /\ cutoff <= size /\ cutoff % 2 = 0

\* The first looks of assessRolloutPageSupersession, at the bound page alone.
BoundUnchanged(dir, p, inode, size) ==
  /\ Valid(dir, p) /\ dir[p].header = "terminated"
  /\ dir[p].inode = inode /\ dir[p].size = size

\* Fault: a page whose first record is not finished is passed over.
PassUnfinished(dir, bound, p) ==
  IF dir[p].header # "terminated" THEN "other"
  ELSE IF Names[p].page = bound.page THEN "broken"
  ELSE IF dir[p].base # bound.page THEN "other"
  ELSE IF ~CutoffSound(dir[p].cutoff, bound.size) THEN "broken" ELSE "successor"

\* Fault: a page continued at its very end has lost nothing and stays current.
PassWhole(dir, bound, p) ==
  IF dir[p].header # "terminated" THEN "broken"
  ELSE IF Names[p].page = bound.page THEN "broken"
  ELSE IF dir[p].base # bound.page \/ dir[p].cutoff = bound.size THEN "other"
  ELSE IF ~CutoffSound(dir[p].cutoff, bound.size) THEN "broken" ELSE "successor"

\* What a valid candidate, another file than the bound page, claims about it.
Claim(dir, bound, p) ==
  IF dir[p].header # "terminated" THEN "broken"
  ELSE IF Names[p].page = bound.page THEN "broken"
  ELSE IF dir[p].base # bound.page THEN "other"
  ELSE IF ~CutoffSound(dir[p].cutoff, bound.size) THEN "broken" ELSE "successor"

\* Only a paginated name can continue a page.
Rivals(matches, boundPath) == {p \in matches \ {boundPath} : Paginated(p)}

\* The verdict over all claims; a successor is known by its file and cutoff.
Verdict(broken, successors, marker) ==
  IF broken \/ Cardinality(successors) > 1 THEN "unproven"
  ELSE IF successors = {} THEN "current"
  ELSE IF marker # None /\ \A s \in successors : marker >= s[2] THEN "abandoned"
  ELSE "superseded"

\* The whole assessment, when nothing changes while it is made.  An alias of a
\* file already seen is not looked at again.
Assess(dir, oddity, p, inode, size, marker) ==
  LET bound == [page |-> PageId(dir, p), size |-> size]
      rivals == Rivals(Matches(dir), p)
      others == OnePerFile(dir, {q \in rivals : dir[q].inode # inode})
      claims == [q \in others |-> Claim(dir, bound, q)]
  IN IF ~BoundUnchanged(dir, p, inode, size) \/ oddity THEN "unproven"
     ELSE IF \E q \in rivals : ~Valid(dir, q) THEN "unproven"
     ELSE Verdict(\E q \in others : claims[q] = "broken",
                  {<<dir[q].inode, dir[q].cutoff>> : q \in {r \in others : claims[r] = "successor"}},
                  marker)
=============================================================================
