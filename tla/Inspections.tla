------------------------------ MODULE Inspections ------------------------------
(***************************************************************************)
(* The inspector beside the reader.  A thread is chosen for a dispatch on  *)
(* the word of the inspector, and its page is then read, by the observer,  *)
(* the waiter and the harvester, with the reader: two parsers that must    *)
(* tell one story of one page.                                             *)
(***************************************************************************)
EXTENDS RolloutReader, SessionInspector

CONSTANT Targets    \* what may be found about the thread, but for its page

\* The edges are rows that one query has answered.
ASSUME InspectionsAssumption ==
  Targets \subseteq Target /\ \A t \in Targets : IsFiniteSet(t.edges)

\* The lines the reader's last read ended on, good or refused, while they are
\* a page the inspector would have selected: the first record names the thread.
\* Where a line is no UTF-8 the two differ: the reader refuses it.
Comparable ==
  LET lines == LinesOf(witness)
  IN /\ pc = "idle" /\ lines # <<>>
     /\ lines[1].kind = "session_meta" /\ lines[1].id = Expected
     /\ \A k \in DOMAIN lines : lines[k].kind # "undecodable"
     /\ outcome \in ContentReasons \cup {"ok"}

Inspected == parseRollout(LinesOf(witness), Expected)

\* The inspector trusts a page exactly when the reader certifies it, and then
\* hands its accumulator the very lines the reader delivers, so that both see
\* one turn activity (parseRollout against readRolloutFile; a write is gated on
\* the one, its baseline and its proof on the other).
InspectorAgrees ==
  Comparable =>
    LET page == Inspected
    IN /\ page.sound <=> outcome = "ok"
       /\ page.sound => page.pushed = delivered

\* A thread is written to only if its row is there and live, no source says
\* that it is another's child, and its page, if one was selected, is one the
\* reader certifies; and what is called a child has one parent at most
\* (classifyTarget and classify_inspected_target).
EligibleIsProven ==
  Comparable =>
    LET page == Inspected
    IN \A t \in Targets :
         /\ Eligible(t, page) =>
              /\ t.db = "read" /\ t.exists /\ t.archived = "no" /\ t.model
              /\ t.threadSource \in {"absent", "root"} /\ t.source \in {"absent", "benign"}
              /\ t.agent = "absent" /\ t.edgesReadable /\ t.edges = {}
              /\ Selected(t) => t.parent = None /\ outcome = "ok"
              /\ ~Selected(t) => t.page = "none" /\ t.found = 0 /\ ~t.rejected
         /\ ClassOf(t, page) = "non-root" => Cardinality(Parents(t)) <= 1
         /\ Eligible(t, page) /\ NamesPage(t, page) => t.page = "valid" /\ outcome = "ok"
=============================================================================
