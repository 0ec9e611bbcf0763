------------------------------ MODULE MCTransport ------------------------------
EXTENDS Transport

CONSTANTS d1, d2, p0, p1, c1

\* Both processes were given one path, which no two dispatches should have,
\* in a channel that an earlier dispatch used.
MCDest == [d \in {d1, d2} |-> p1]
MCChannel == [p \in {p0, p1} |-> c1]

Task(written) == [kind |-> "file", by |-> None, day |-> written]
Past(task, written) ==
  [envelopes |-> [p \in Paths |-> IF p = p0 THEN task ELSE Nothing],
   replies |-> [p \in Paths |-> IF p = p0 THEN written ELSE None],
   dirs |-> [c \in Channels |-> 0],
   answered |-> IF written # None THEN {p0} ELSE {}]

\* An aged task with an aged reply, with a recent one, with none; an empty
\* aged directory.
MCPasts == {Past(Task(0), 0), Past(Task(0), 1), Past(Task(0), None), Past(Nothing, None)}
=============================================================================
