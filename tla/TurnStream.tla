----------------------------- MODULE TurnStream -----------------------------
(***************************************************************************)
(* Turns read off a stream of records as a whole, without an accumulator:  *)
(* the reference against which the accumulator and the projections built   *)
(* on it are checked.  "str" is a sequence of records with at least a      *)
(* "kind" and an "id"; a reader does not see the kinds in "hidden".        *)
(***************************************************************************)
EXTENDS TurnBoundary

IsStart(r) == r.kind = "task_started"
IsMessage(r) == r.kind \in {"user_message", "agent_message"}
IsTerminal(r) == r.kind \in TerminalKinds

\* Lines the parser reports, as schema drift or as any diagnostic.
DriftOf(str) == {k \in DOMAIN str : str[k].kind = "drift"}
GapsOf(str) == {k \in DOMAIN str : str[k].kind \in {"malformed", "drift"}}

\* Line k, after the start s, leaves the turn started there open and clean:
\* a message may not name another turn, and a terminal record must be a late
\* one of an earlier turn.
Harmless(str, s, k) ==
  /\ ~IsStart(str[k]) /\ str[k].kind \notin {"malformed", "drift"}
  /\ IsMessage(str[k]) => NoId \in {str[s].id, str[k].id} \/ str[k].id = str[s].id
  /\ IsTerminal(str[k]) =>
       /\ str[k].id \notin {NoId, str[s].id}
       /\ \E j \in 1 .. s - 1 : IsStart(str[j]) /\ str[j].id = str[k].id

CleanBetween(str, hidden, s, e) ==
  \A k \in DOMAIN str :
    s < k /\ k < e => str[k].kind \in hidden \/ Harmless(str, s, k)

\* The turns of the stream that have their end, and the start of the one
\* that is still open, in both cases with nothing that disturbs them.
CleanTurns(str, hidden) ==
  {w \in (DOMAIN str) \X (DOMAIN str) :
     /\ w[1] < w[2]
     /\ IsStart(str[w[1]]) /\ IsTerminal(str[w[2]])
     /\ str[w[2]].id = str[w[1]].id
     /\ CleanBetween(str, hidden, w[1], w[2])}

OpenStarts(str, hidden) ==
  {s \in DOMAIN str : IsStart(str[s]) /\ CleanBetween(str, hidden, s, Len(str) + 1)}
=============================================================================
