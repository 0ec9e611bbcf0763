--------------------------- MODULE SessionInspector ---------------------------
(***************************************************************************)
(* codex_ipc_session_inspect.mjs and what the wrapper makes of its answer. *)
(* The inspector keeps nothing between two calls: it reads one row of the  *)
(* database, looks for the thread's page, parses that page with a parser   *)
(* of its own, and says what kind of thread it is.  Its parser decides a   *)
(* third time what RolloutHistory decides twice: whose a record is.  Here  *)
(* it is a fold over the lines of the page, and the rest are functions of  *)
(* what was found.                                                         *)
(***************************************************************************)
EXTENDS RolloutHistory

-----------------------------------------------------------------------------
(***************************************************************************)
(* parseRollout.  "pushed" are the lines handed to the accumulator, "sound"*)
(* that nothing was said against the owner; "lines" leaves out blank ones. *)
(***************************************************************************)

Unread ==
  [lines |-> 0, parsed |-> 0, who |-> NoOwner, scope |-> NoScope, meta |-> FALSE,
   sound |-> TRUE, forked |-> TRUE, pushed |-> <<>>]

\* The lineage is advanced with the thread that was asked for, and without the
\* claims of earlier records.
InspectLineage(line, who, thread) ==
  IF line.kind = "session_meta" /\ line.id # None /\ who.owner = None /\ line.id # thread
  THEN [status |-> "mismatch", who |-> who]
  ELSE advanceRolloutOwnerLineage(line, who, {})

\* A record whose claim names somebody else; inherited ones are not asked.
ClaimsOther(line, who, thread) ==
  /\ line.claims # {}
  /\ \/ recordThreadIdentity(line) # "valid"
     \/ line.claims # {thread}
     \/ who.owner \notin {None} \cup line.claims

\* Fault: a record of the copied history is taken for one of the fork's own.
InspectInherited(line, s, at, thread) ==
  LET owner == InspectLineage(line, s.who, thread)
      history == advanceRolloutHistoryScope(line, s.scope, s.parsed = 0)
      declared == owner.status \notin {"invalid", "mismatch"}
      forked == s.forked /\ history.status \notin {"missing", "invalid"}
      strange == declared /\ forked /\ ClaimsOther(line, owner.who, thread)
  IN [s EXCEPT !.lines = @ + 1, !.parsed = @ + 1, !.who = owner.who,
               !.scope = IF forked THEN history.scope ELSE @,
               !.meta = @ \/ (owner.status = "accepted" /\ line.id = owner.who.owner),
               !.forked = forked,
               !.sound = @ /\ declared /\ forked /\ ~strange,
               !.pushed = IF forked THEN Append(@, [at |-> at, line |-> line]) ELSE @]

InspectRecord(line, s, at, thread) ==
  LET owner == InspectLineage(line, s.who, thread)
      history == advanceRolloutHistoryScope(line, s.scope, s.parsed = 0)
      declared == owner.status \notin {"invalid", "mismatch"}
      forked == s.forked /\ history.status \notin {"missing", "invalid"}
      own == forked /\ history.status # "skip"
      strange == declared /\ own /\ ClaimsOther(line, owner.who, thread)
  IN [s EXCEPT !.lines = @ + 1, !.parsed = @ + 1, !.who = owner.who,
               !.scope = IF forked THEN history.scope ELSE @,
               !.meta = @ \/ (owner.status = "accepted" /\ line.id = owner.who.owner),
               !.forked = forked,
               !.sound = @ /\ declared /\ forked /\ ~strange,
               !.pushed = IF own THEN Append(@, [at |-> at, line |-> line]) ELSE @]

\* A line that is no UTF-8 is read with replacement characters: here as a line
\* that is no JSON; it may also be one.
InspectLine(line, s, at, thread) ==
  CASE line.kind = "blank" -> s
    [] line.kind \in {"malformed", "undecodable"} ->
         [s EXCEPT !.lines = @ + 1, !.pushed = Append(@, [at |-> at, line |-> line])]
    [] OTHER -> InspectRecord(line, s, at, thread)

\* Fault: a page may end before its history's boundary.
AnyBoundary(s) == s.meta
\* What is said against the owner when the page is at its end.
EndsWell(s) ==
  s.meta /\ (s.forked /\ s.scope.mode = "producer-ordinal" => s.scope.seen)

parseRollout(lines, thread) ==
  LET after[n \in 0..Len(lines)] ==
        IF n = 0 THEN Unread ELSE InspectLine(lines[n], after[n - 1], n, thread)
      s == after[Len(lines)]
  IN [parsedOk |-> s.parsed > 0 /\ s.parsed = s.lines,
      sound |-> s.sound /\ EndsWell(s), pushed |-> s.pushed]

-----------------------------------------------------------------------------
(***************************************************************************)
(* What else is found about a target.                                      *)
(***************************************************************************)

\* The row and the edges of readDbThread; then the page the row names, the
\* files found under the sessions root and whether anything there with the
\* thread's name was rejected or unreadable; then the parent the page names.
\* "strange" is a value the inspector does not know.
Parent == Threads \cup {None, Invalid}
Target ==
  [db : {"absent", "unreadable", "read"}, exists : BOOLEAN,
   archived : {"no", "yes", "strange"}, model : BOOLEAN,
   threadSource : {"absent", "root", "child", "strange"},
   source : {"absent", "benign", "internal", "subagent", "strange"}, spawner : Parent,
   agent : {"absent", "present", "strange"},
   edges : SUBSET (Threads \cup {Invalid}), edgesReadable : BOOLEAN,
   page : {"none", "valid", "invalid"}, found : 0..2, rejected : BOOLEAN, parent : Parent]

\* findRolloutCandidates: the page the row names is the page or there is none;
\* without one, the search must be complete and find exactly one file.
findRolloutCandidates(t) ==
  CASE t.page = "invalid" -> [status |-> "unavailable", authority |-> "db"]
    [] t.page = "valid" -> [status |-> "found", authority |-> "db"]
    [] t.page = "none" /\ (t.rejected \/ t.found > 1) ->
         [status |-> "ambiguous", authority |-> "root"]
    [] t.page = "none" /\ ~t.rejected /\ t.found = 1 ->
         [status |-> "found", authority |-> "root"]
    [] OTHER -> [status |-> "unavailable", authority |-> "none"]

Selected(t) == findRolloutCandidates(t).status = "found"

\* The page is part of the evidence unless there is none at all.
PageStrange(t, page) ==
  CASE Selected(t) -> ~page.parsedOk \/ ~page.sound
    [] ~Selected(t) -> findRolloutCandidates(t).authority # "none"

Spawner(t) == IF t.source = "subagent" THEN t.spawner ELSE None
PageParent(t) == IF Selected(t) THEN t.parent ELSE None

\* Fault: the edges are only asked who the parent is.
SpawnedByRow(t) ==
  \/ t.threadSource = "child" \/ t.source \in {"internal", "subagent"}
  \/ t.agent = "present" \/ PageParent(t) \in Threads
SaysChild(t) ==
  \/ t.threadSource = "child" \/ t.source \in {"internal", "subagent"}
  \/ t.agent = "present" \/ t.edges \cap Threads # {} \/ PageParent(t) \in Threads

Parents(t) == (t.edges \cup {Spawner(t), PageParent(t)}) \cap Threads

SaysNothingClear(t, page) ==
  \/ PageStrange(t, page)
  \/ "strange" \in {t.threadSource, t.source, t.agent}
  \/ ~t.edgesReadable
  \/ Invalid \in t.edges \cup {Spawner(t), PageParent(t)}

classifyTarget(t, page) ==
  IF t.db # "read" \/ ~t.exists \/ SaysNothingClear(t, page) THEN "ambiguous"
  ELSE IF Cardinality(Parents(t)) > 1 \/ (t.threadSource = "root" /\ SaysChild(t))
    THEN "ambiguous"
  ELSE IF SaysChild(t) THEN "non-root"
  ELSE IF t.threadSource = "root" THEN "root" ELSE "legacy-root-assumed"

-----------------------------------------------------------------------------
(***************************************************************************)
(* The wrapper's reading of the document, and of the exit status: a        *)
(* document about nothing that was found comes with a failure.             *)
(***************************************************************************)

InspectOk(t, page) == (t.db = "read" /\ t.exists) \/ (Selected(t) /\ page.parsedOk)

ClassOf(t, page) ==
  LET kind == classifyTarget(t, page)
  IN IF t.db # "read" THEN "ambiguous"
     ELSE IF ~t.exists THEN IF InspectOk(t, page) THEN "ambiguous" ELSE "missing"
     ELSE IF t.archived = "yes" THEN "archived"
     ELSE IF t.archived = "strange" \/ kind = "ambiguous" THEN "ambiguous"
     ELSE IF kind = "non-root" THEN "non-root"
     ELSE IF ~t.model THEN "model-empty"
     ELSE IF kind = "root" THEN "active" ELSE kind

Eligible(t, page) == ClassOf(t, page) \in {"active", "legacy-root-assumed"}

\* The page that is handed to the waiter.
NamesPage(t, page) ==
  Selected(t) /\ findRolloutCandidates(t).authority = "db" /\ page.parsedOk
=============================================================================
