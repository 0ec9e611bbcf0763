------------------------------- MODULE MCWaiter -------------------------------
EXTENDS Waiter

CONSTANTS T1, A

Start == [kind |-> "task_started", id |-> T1]
Task == [kind |-> "user_message", id |-> NoId, text |-> "task", item |-> NoItem]
Final == [kind |-> "agent_message", id |-> NoId, final |-> TRUE, body |-> A]
Complete(body) == [kind |-> "task_complete", id |-> T1, last |-> body]
Aborted == [kind |-> "turn_aborted", id |-> T1]
Drift == [kind |-> "drift", id |-> NoId]

MCLines == {Start, Task, Final, Complete(A), Complete(NoBody), Aborted, Drift}
MCWritten == {Start, Task, Complete(A), Aborted, Drift}

\* A turn that has its answer but not its end, one that has both, and one
\* that ended without an answer.
MCHistories ==
  {<<Start, Task, Final>>, <<Start, Task, Final, Complete(A)>>,
   <<Start, Task, Complete(NoBody)>>}

\* The command the wrapper prints, polling; a scan for page and reply; and a
\* single look.
MCOptions ==
  {[budget |-> 3, explicit |-> TRUE, scan |-> FALSE, fallback |-> TRUE],
   [budget |-> 2, explicit |-> FALSE, scan |-> TRUE, fallback |-> FALSE],
   [budget |-> 0, explicit |-> TRUE, scan |-> FALSE, fallback |-> TRUE]}
=============================================================================
