---------------------------- MODULE RolloutHistory ----------------------------
(***************************************************************************)
(* Whose records a rollout holds.  The first record names the owner.  A    *)
(* forked rollout may begin with a copy of its parent's history: the       *)
(* records before the ordinal its first record declares are inherited and  *)
(* are skipped.  The reader decides this line by line, twice in its code:  *)
(* once while it reads, once when it replays what an earlier read had      *)
(* consumed.  The two copies are the operators ParseLine and ReplayLine.   *)
(*                                                                         *)
(* A line is what the two copies tell apart.  "claims" holds the values of *)
(* the thread_id fields a record carries, Invalid for one that is no id;   *)
(* "start" is the declared boundary and None a field that is absent.       *)
(***************************************************************************)
EXTENDS Naturals, Sequences, FiniteSets

CONSTANTS Threads, Invalid, None, Lines

Kinds == {"session_meta", "thread_settings_applied", "record",
          "malformed", "undecodable", "blank"}

ASSUME RolloutHistoryAssumption ==
  /\ Invalid \notin Threads /\ None \notin Threads /\ Invalid # None /\ None \notin Nat
  /\ Lines \subseteq [kind : Kinds, id : Threads \cup {None},
                      fork : Threads \cup {None, Invalid}, start : Nat \cup {None},
                      ordinal : Nat \cup {None}, claims : SUBSET (Threads \cup {Invalid})]
  /\ \A line \in Lines : IsFiniteSet(line.claims)

-----------------------------------------------------------------------------
(***************************************************************************)
(* The owner and the lineage: the ids a session_meta record may declare.   *)
(***************************************************************************)

NoOwner == [owner |-> None, lineage |-> {}]

recordThreadIdentity(line) ==
  IF line.claims = {} THEN "absent"
  ELSE IF Invalid \in line.claims THEN "invalid"
  ELSE IF Cardinality(line.claims) = 1 THEN "valid" ELSE "conflict"

Lineage(who) == who.lineage \cup ({who.owner} \ {None})

\* May a session_meta line declare its id, given the owners of the records
\* read so far?
Declares(line, who, observed) ==
  IF who.owner = None THEN observed \subseteq {line.id}
  ELSE line.id \in Lineage(who) /\ observed \subseteq {who.owner}

\* Fault: the parent of a fork is not added.
LineageOfOne(line, who) ==
  [owner |-> IF who.owner = None THEN line.id ELSE who.owner,
   lineage |-> Lineage(who) \cup {line.id}]
\* Fault: whatever the field of the parent holds is added.
LineageOfAny(line, who) ==
  [owner |-> IF who.owner = None THEN line.id ELSE who.owner,
   lineage |-> Lineage(who) \cup {line.id, line.fork}]
Accepted(line, who) ==
  [owner |-> IF who.owner = None THEN line.id ELSE who.owner,
   lineage |-> Lineage(who) \cup {line.id} \cup ({line.fork} \cap Threads)]

advanceRolloutOwnerLineage(line, who, observed) ==
  IF line.kind # "session_meta" THEN [status |-> "absent", who |-> who]
  ELSE IF line.id = None THEN [status |-> "invalid", who |-> who]
  ELSE IF ~Declares(line, who, observed) THEN [status |-> "mismatch", who |-> who]
  ELSE [status |-> "accepted", who |-> Accepted(line, who)]

-----------------------------------------------------------------------------
(***************************************************************************)
(* The history scope: which records are inherited.                         *)
(***************************************************************************)

NoScope == [mode |-> "none", parent |-> None, start |-> 0, next |-> 0, seen |-> FALSE]
NonFork == [NoScope EXCEPT !.mode = "nonfork"]

forkHistoryStateValid(scope) ==
  \/ scope.mode = "nonfork"
  \/ /\ scope.mode = "producer-ordinal" /\ scope.start >= 1 /\ scope.next >= 1
     /\ scope.seen = (scope.next > scope.start)

\* With requireBoundary.
BoundaryKnown(scope) ==
  forkHistoryStateValid(scope) /\ (scope.mode = "nonfork" \/ scope.seen)

FirstScope(line) ==
  IF line.fork = None THEN [status |-> "admit", scope |-> NonFork]
  ELSE IF line.fork = Invalid \/ line.id = None \/ line.fork = line.id
    THEN [status |-> "invalid", scope |-> NoScope]
  ELSE IF line.start = None
    THEN IF line.ordinal = None THEN [status |-> "admit", scope |-> NonFork]
         ELSE [status |-> "missing", scope |-> NoScope]
  ELSE IF line.start = 0 \/ line.ordinal # 0 THEN [status |-> "invalid", scope |-> NoScope]
  ELSE [status |-> "skip",
        scope |-> [mode |-> "producer-ordinal", parent |-> line.fork,
                   start |-> line.start, next |-> 1, seen |-> FALSE]]

\* Fault: the boundary record itself is taken for an inherited one.
BoundarySkipped(line, scope) ==
  LET next == [scope EXCEPT !.next = line.ordinal + 1, !.seen = line.ordinal >= scope.start]
  IN IF line.ordinal <= scope.start THEN [status |-> "skip", scope |-> next]
     ELSE [status |-> "admit", scope |-> next]

OrdinalScope(line, scope) ==
  LET next == [scope EXCEPT !.next = line.ordinal + 1]
  IN IF line.ordinal < scope.start THEN [status |-> "skip", scope |-> next]
     ELSE IF line.ordinal = scope.start
       THEN IF line.kind = "thread_settings_applied"
              THEN [status |-> "admit", scope |-> [next EXCEPT !.seen = TRUE]]
              ELSE [status |-> "invalid", scope |-> next]
     ELSE IF scope.seen THEN [status |-> "admit", scope |-> next]
     ELSE [status |-> "invalid", scope |-> next]

advanceRolloutHistoryScope(line, scope, first) ==
  IF first THEN FirstScope(line)
  ELSE IF ~forkHistoryStateValid(scope) THEN [status |-> "invalid", scope |-> NoScope]
  ELSE IF scope.mode = "nonfork" THEN [status |-> "admit", scope |-> scope]
  ELSE IF line.ordinal # scope.next THEN [status |-> "invalid", scope |-> scope]
  ELSE OrdinalScope(line, scope)

-----------------------------------------------------------------------------
(***************************************************************************)
(* One line.  The state is what both copies keep; "verdict" is "" or the   *)
(* reason the file is refused, "out" what the line is delivered as.        *)
(***************************************************************************)

Fresh(who) ==
  [first |-> TRUE, who |-> who, observed |-> {}, scope |-> NoScope,
   lineNumber |-> 0, lastTimestamp |-> 0, verdict |-> "", out |-> "nothing"]

NextLine(state) ==
  [state EXCEPT !.lineNumber = @ + 1, !.first = FALSE, !.out = "nothing"]

Refused(state, reason) == [NextLine(state) EXCEPT !.verdict = reason]

\* Each record has a timestamp of its own, so the number of its line stands
\* for it.
Admitted(line, state, who, scope) ==
  [NextLine(state) EXCEPT !.who = who, !.scope = scope,
                          !.observed = @ \cup line.claims,
                          !.lastTimestamp = state.lineNumber + 1, !.out = "record"]
Skipped(state, who, scope) == [NextLine(state) EXCEPT !.who = who, !.scope = scope]

\* Why parseLine refuses a record, in the order of its checks.  The claims of
\* an inherited record are not looked at.
RecordRefusal(line, state, owner, history) ==
  LET claim == recordThreadIdentity(line)
      strange == claim = "valid" /\ owner.who.owner \notin {None} \cup line.claims
  IN IF state.first /\ line.kind # "session_meta" THEN "rollout-owner-missing"
     ELSE IF owner.status = "invalid" THEN "rollout-owner-invalid"
     ELSE IF owner.status = "mismatch" THEN "rollout-owner-mismatch"
     ELSE IF history.status = "missing" THEN "rollout-history-boundary-missing"
     ELSE IF history.status = "invalid" THEN "rollout-history-boundary-invalid"
     ELSE IF history.status = "skip" THEN ""
     ELSE IF claim = "invalid" THEN "rollout-owner-invalid"
     ELSE IF claim = "conflict" \/ strange THEN "rollout-owner-mismatch"
     ELSE ""

ParseRecord(line, state) ==
  LET owner == advanceRolloutOwnerLineage(line, state.who, state.observed)
      history == advanceRolloutHistoryScope(line, state.scope, state.first)
      refusal == RecordRefusal(line, state, owner, history)
  IN IF refusal # "" THEN Refused(state, refusal)
     ELSE IF history.status = "skip" THEN Skipped(state, owner.who, history.scope)
     ELSE Admitted(line, state, owner.who, history.scope)

\* parseLine: a line that is no JSON is delivered as a parse error, wherever
\* it stands after the first.
ParseLine(line, state) ==
  IF line.kind = "undecodable" THEN Refused(state, "invalid-utf8")
  ELSE IF line.kind \notin {"blank", "malformed"} THEN ParseRecord(line, state)
  ELSE IF state.first THEN Refused(state, "rollout-owner-missing")
  ELSE IF line.kind = "blank" THEN NextLine(state)
  ELSE [NextLine(state) EXCEPT !.out = "parse-error"]

\* replayLine: nothing is delivered, and what the first read would have
\* refused, or could not have passed, ends the replay.
ReplayLine(line, state) ==
  LET owner == advanceRolloutOwnerLineage(line, state.who, state.observed)
      history == advanceRolloutHistoryScope(line, state.scope, state.first)
      claim == recordThreadIdentity(line)
      ours == claim = "valid" => owner.who.owner \in {None} \cup line.claims
  IN IF state.first /\ line.kind # "session_meta" THEN Refused(state, "prefix")
     ELSE IF line.kind \in {"blank", "malformed", "undecodable"} THEN NextLine(state)
     ELSE IF owner.status \in {"invalid", "mismatch"} \/ history.status \in {"missing", "invalid"}
       THEN Refused(state, "prefix")
     ELSE IF history.status = "skip" THEN Skipped(state, owner.who, history.scope)
     ELSE IF claim \in {"invalid", "conflict"} \/ ~ours THEN Refused(state, "prefix")
     ELSE Admitted(line, state, owner.who, history.scope)

-----------------------------------------------------------------------------
(***************************************************************************)
(* What a file says, told without a reader: which sequences of lines are a *)
(* rollout of the thread, and which of its lines are its own.              *)
(***************************************************************************)

Records(lines) ==
  {k \in DOMAIN lines : lines[k].kind \notin {"blank", "malformed", "undecodable"}}
Metas(lines) == {k \in DOMAIN lines : lines[k].kind = "session_meta"}

\* The first record declares where the inherited history ends.
Ordinal(lines) == lines[1].fork # None /\ lines[1].start # None
Inherited(lines, k) ==
  /\ Ordinal(lines) /\ k \in Records(lines) /\ lines[k].ordinal < lines[1].start

DeclaredBefore(lines, k) ==
  {lines[1].id} \cup ({lines[j].fork : j \in Metas(lines) \cap 1..(k - 1)} \cap Threads)

\* The records count up from 0 and the one at the boundary applies the settings.
CountsUp(lines) ==
  \A k \in Records(lines) :
    /\ lines[k].ordinal = Cardinality(Records(lines) \cap 1..(k - 1))
    /\ lines[k].ordinal = lines[1].start => lines[k].kind = "thread_settings_applied"

ForkIsDeclared(lines) ==
  LET meta == lines[1]
  IN /\ meta.fork # None => meta.fork \in Threads \ {meta.id}
     /\ meta.fork # None /\ meta.start = None => meta.ordinal = None
     /\ Ordinal(lines) => meta.start >= 1 /\ CountsUp(lines)

WellFormed(lines, thread) ==
  /\ lines[1].kind = "session_meta" /\ lines[1].id = thread
  /\ \A k \in DOMAIN lines : lines[k].kind # "undecodable"
  /\ \A k \in Metas(lines) : lines[k].id \in DeclaredBefore(lines, k)
  /\ ForkIsDeclared(lines)
  /\ \A k \in Records(lines) : ~Inherited(lines, k) => lines[k].claims \subseteq {thread}

\* The copy of the parent's history is complete.
BoundaryReached(lines) ==
  Ordinal(lines) => \E k \in Records(lines) : lines[k].ordinal = lines[1].start

OwnLines(lines) ==
  {k \in DOMAIN lines : lines[k].kind # "blank" /\ ~Inherited(lines, k)}

\* The list has the thread's own lines, each once and in order.
IsListing(list, lines) ==
  /\ {list[i].at : i \in DOMAIN list} = OwnLines(lines)
  /\ \A i \in DOMAIN list : list[i] = [at |-> list[i].at, line |-> lines[list[i].at]]
  /\ \A i, j \in DOMAIN list : i < j => list[i].at < list[j].at
=============================================================================
