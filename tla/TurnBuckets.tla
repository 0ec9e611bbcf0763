----------------------------- MODULE TurnBuckets -----------------------------
(***************************************************************************)
(* What the consumers of a turn accumulator share.  Each keeps the lines   *)
(* of a turn that is not yet finalized in a bucket, and judges the bucket  *)
(* when the accumulator finalizes the turn: the dispatch correlator looks  *)
(* for the answer to a dispatch, the marker proof for that to a marker.    *)
(*                                                                         *)
(* A user message has the text "task" if it names the dispatch's task      *)
(* file, or includes the marker.                                           *)
(***************************************************************************)
EXTENDS TurnCuts, FiniteSets, SequencesExt

CONSTANTS Bodies,     \* bodies of agent messages, empty ones left out
          NoBody,     \* no last_agent_message, or an empty one
          Items,      \* item ids of user messages
          NoItem

ASSUME ContentsAssumption == NoBody \notin Bodies /\ NoItem \notin Items

UserLines == [kind : {"user_message"}, id : TurnIds \cup {NoId},
              text : {"task", "other"}, item : Items \cup {NoItem}]
AgentLines == [kind : {"agent_message"}, id : TurnIds \cup {NoId},
               final : BOOLEAN, body : Bodies]
CompleteLines == [kind : {"task_complete"}, id : TurnIds \cup {NoId},
                  last : Bodies \cup {NoBody}]
AllLines == UserLines \cup AgentLines \cup CompleteLines
            \cup [kind : {"task_started", "turn_aborted"}, id : TurnIds \cup {NoId}]
            \cup [kind : {"malformed", "drift", "other"}, id : {NoId}]

-----------------------------------------------------------------------------
\* Fault: the record is filed under the turn that was current before it.
TurnBefore(acc, acc2, r) == IF acc.current # 0 THEN acc.current ELSE acc2.current

\* The turn the accumulator says a record belongs to, 0 for none; acc and
\* acc2 are the accumulator before and after it is pushed.
TurnOf(acc, acc2, r) ==
  CASE r.kind \in {"malformed", "task_started", "user_message"} -> acc2.current
    [] r.kind = "agent_message" -> IF InTurn(acc) THEN acc.current ELSE 0
    [] r.kind \in TerminalKinds ->
         LET target == TerminalTarget(acc, r.id)
         IN IF target # 0 /\ ~acc.turns[target].emitted THEN target ELSE 0
    [] OTHER -> 0

\* appendSemanticOnce: an agent message that says the same in the same phase
\* as an earlier one of the turn is not kept.
IsRepeat(str, bucket, r) ==
  \E k \in bucket : /\ str[k].kind = "agent_message"
                    /\ str[k].final = r.final /\ str[k].body = r.body

Ingest(str, buckets, turn, r) ==
  IF turn = 0 \/ (r.kind = "agent_message" /\ IsRepeat(str, buckets[turn], r))
  THEN buckets
  ELSE [buckets EXCEPT ![turn] = @ \cup {Len(str) + 1}]

\* The turns finalized between two accumulators, one of them at most by a
\* push.
NewlyFinal(acc, acc2) ==
  {k \in DOMAIN acc2.turns :
     acc2.turns[k].emitted /\ ~(k \in DOMAIN acc.turns /\ acc.turns[k].emitted)}

-----------------------------------------------------------------------------
OfKind(str, bucket, kind) == {k \in bucket : str[k].kind = kind}

TaskLines(str, bucket) ==
  {k \in OfKind(str, bucket, "user_message") : str[k].text = "task"}

SameDelivery(left, right) ==
  left.text = right.text /\ left.item = right.item /\ left.item # NoItem

-----------------------------------------------------------------------------
(***************************************************************************)
(* The same, read off the stream as a whole.                               *)
(***************************************************************************)

IsTask(r) == r.kind = "user_message" /\ r.text = "task"

\* Line m hands over the task in the turn that starts at s: the first to do
\* so, and no other input follows up to line e.
IsHandover(str, s, m, e) ==
  /\ s < m /\ m < e
  /\ IsTask(str[m])
  /\ \A k \in s + 1 .. e - 1 : str[k].kind = "user_message" =>
       /\ k < m => ~IsTask(str[k])
       /\ k > m => SameDelivery(str[m], str[k])

\* No message between s and k said what line k says, in the same phase.
IsNews(str, s, k) ==
  \A j \in s + 1 .. k - 1 : str[j].kind = "agent_message" =>
    str[j].final # str[k].final \/ str[j].body # str[k].body

\* Agent messages between the handover and the end that the turn started at
\* s had not made before.
Said(str, s, m, e) ==
  {k \in m + 1 .. e - 1 : str[k].kind = "agent_message" /\ IsNews(str, s, k)}

-----------------------------------------------------------------------------
(***************************************************************************)
(* The strengthening the proofs use: the bucket of a turn that is clean so *)
(* far holds its start, all user messages and all news.  Every turn that   *)
(* has an id was started under it.                                         *)
(***************************************************************************)
KeptLines(str, s) ==
  {k \in s .. Len(str) :
     \/ k = s \/ str[k].kind = "user_message"
     \/ str[k].kind = "agent_message" /\ IsNews(str, s, k)}

BucketInv(acc, buckets, str) ==
  /\ buckets \in [DOMAIN acc.turns -> SUBSET DOMAIN str]
  /\ acc.current # 0 /\ Clean(Current(acc)) =>
       buckets[acc.current] = KeptLines(str, Current(acc).startLine)
  /\ \A k \in DOMAIN acc.turns : acc.turns[k].mode = "turn-id" <=> acc.turns[k].turnId # NoId
=============================================================================
