---------------------------- MODULE MCRolloutReader ----------------------------
EXTENDS Inspections

CONSTANTS T, P, X

Line(kind, id, fork, start, ordinal, claims) ==
  [kind |-> kind, id |-> id, fork |-> fork, start |-> start, ordinal |-> ordinal,
   claims |-> claims]

Meta == Line("session_meta", T, None, None, None, {})
Fork(start) == Line("session_meta", T, P, start, 0, {})
OldFork == Line("session_meta", T, P, None, None, {})
DriftedFork == Line("session_meta", T, P, None, 0, {})
Settings(n) == Line("thread_settings_applied", None, None, None, n, {})
ParentMeta(n) == Line("session_meta", P, X, None, n, {})
Record(n, claims) == Line("record", None, None, None, n, claims)
Plain(kind) == Line(kind, None, None, None, None, {})

MCTorn == Plain("malformed")

\* A file of its own, one that is not the thread's, forks with and without a
\* boundary, and an empty file.
MCFiles ==
  {<<>>, <<Meta>>, <<ParentMeta(None)>>, <<OldFork, ParentMeta(None)>>, <<DriftedFork>>,
   <<Fork(1)>>, <<Fork(2), ParentMeta(1)>>, <<Fork(2), Record(1, {P})>>,
   <<Fork(1), Settings(1), Record(2, {T})>>, <<Plain("undecodable")>>}

MCWritten ==
  {Settings(1), Settings(2), Record(2, {T}), Record(2, {P}), Record(None, {P, T}),
   Record(None, {Invalid}), Plain("malformed"), Plain("blank"), Plain("undecodable"),
   ParentMeta(None)}

MCReplacements == {<<Meta>>, <<Fork(1), Settings(1), Record(2, {T})>>}
MCRewritten == {Meta, Record(1, {T})}

MCLines == MCWritten \cup MCRewritten \cup UNION {{file[k] : k \in DOMAIN file} : file \in MCFiles}

\* Roots, declared and old, found in each way; and each piece of evidence that
\* speaks against one, alone or with one that contradicts it.
Root ==
  [db |-> "read", exists |-> TRUE, archived |-> "no", model |-> TRUE,
   threadSource |-> "root", source |-> "benign", spawner |-> None, agent |-> "absent",
   edges |-> {}, edgesReadable |-> TRUE, page |-> "valid", found |-> 1,
   rejected |-> FALSE, parent |-> None]
Old == [Root EXCEPT !.threadSource = "absent", !.source = "absent"]
Child == [Old EXCEPT !.source = "subagent", !.spawner = P]

MCTargets ==
  {Root, Old, Child,
   [Root EXCEPT !.page = "none"], [Root EXCEPT !.page = "none", !.found = 0],
   [Root EXCEPT !.page = "none", !.found = 2], [Root EXCEPT !.page = "none", !.rejected = TRUE],
   [Root EXCEPT !.page = "invalid"],
   [Root EXCEPT !.db = "absent", !.exists = FALSE],
   [Root EXCEPT !.exists = FALSE], [Root EXCEPT !.exists = FALSE, !.page = "none", !.found = 0],
   [Root EXCEPT !.archived = "yes"], [Root EXCEPT !.archived = "strange"],
   [Root EXCEPT !.model = FALSE], [Root EXCEPT !.threadSource = "strange"],
   [Root EXCEPT !.source = "strange"], [Root EXCEPT !.edgesReadable = FALSE],
   [Root EXCEPT !.edges = {P}], [Root EXCEPT !.parent = P], [Old EXCEPT !.agent = "present"],
   [Old EXCEPT !.edges = {P}], [Old EXCEPT !.edges = {Invalid}], [Old EXCEPT !.parent = P],
   [Old EXCEPT !.source = "internal"], [Child EXCEPT !.spawner = Invalid],
   [Child EXCEPT !.edges = {X}], [Child EXCEPT !.edges = {P}, !.parent = P],
   [Child EXCEPT !.parent = X, !.page = "none", !.found = 0]}
=============================================================================
