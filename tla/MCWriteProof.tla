----------------------------- MODULE MCWriteProof -----------------------------
EXTENDS WriteProof

CONSTANTS T1, T2, A, I1

Start(id) == [kind |-> "task_started", id |-> id]
Task(text, item) == [kind |-> "user_message", id |-> NoId, text |-> text, item |-> item]
Final == [kind |-> "agent_message", id |-> NoId, final |-> TRUE, body |-> A]
Complete(id, last) == [kind |-> "task_complete", id |-> id, last |-> last]
Drift == [kind |-> "drift", id |-> NoId]

\* The thread has an earlier turn that is over, is still open, or has a line
\* that cannot be read.
MCHistories ==
  {<<Start(T2), Complete(T2, NoBody)>>, <<Start(T2)>>, <<Start(T2), Drift>>}
MCIdle == {<<Start(T2), Complete(T2, NoBody)>>}

MCOurTurn == <<Start(T1), Task("task", I1), Final, Complete(T1, A)>>

\* Others start a turn, end it, and say something; records nobody knows.
MCForeign == {Start(T2), Task("other", NoItem), Drift}

MCStarts == {Start(T2)}

MCLines == UNION {{h[k] : k \in DOMAIN h} : h \in MCHistories \cup {MCOurTurn}} \cup MCForeign

\* --allow-mid-turn, leave for the other row to change, or neither.
MCStrict == {[midTurn |-> FALSE, allowOther |-> FALSE]}
MCLenient == {[midTurn |-> FALSE, allowOther |-> TRUE]}
MCOptions == [midTurn : BOOLEAN, allowOther : {FALSE}] \cup MCLenient
=============================================================================
