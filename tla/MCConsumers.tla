------------------------------ MODULE MCConsumers ------------------------------
EXTENDS Consumers

CONSTANTS T1, T2, A, B, I1

MCLines ==
  [kind : {"task_started"}, id : {T1, NoId}]
  \cup [kind : {"user_message"}, id : {NoId}, text : {"task"}, item : {I1, NoItem}]
  \cup [kind : {"user_message"}, id : {NoId}, text : {"other"}, item : {NoItem}]
  \cup [kind : {"agent_message"}, id : {NoId}, final : {TRUE}, body : {A, B}]
  \cup [kind : {"agent_message"}, id : {NoId}, final : {FALSE}, body : {A}]
  \cup [kind : {"agent_message"}, id : {T2}, final : {TRUE}, body : {A}]
  \cup [kind : {"task_complete"}, id : {T1}, last : {A, B, NoBody}]
  \cup [kind : {"task_complete"}, id : {NoId}, last : {A}]
  \cup [kind : {"turn_aborted"}, id : {T1}]
  \cup [kind : {"malformed", "drift"}, id : {NoId}]

\* A rollout that is empty, two in the middle of a turn, and one that holds
\* an answered dispatch already.
Start == [kind |-> "task_started", id |-> T1]
Task == [kind |-> "user_message", id |-> NoId, text |-> "task", item |-> I1]
Final == [kind |-> "agent_message", id |-> NoId, final |-> TRUE, body |-> A]
Complete == [kind |-> "task_complete", id |-> T1, last |-> A]
MCHistories ==
  {<<>>, <<Start>>, <<Start, Task>>, <<Start, Task, Final, Complete>>}
=============================================================================
