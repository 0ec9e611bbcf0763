---------------------------- MODULE MarkerConsumer ----------------------------
(***************************************************************************)
(* createMarkerProofConsumer with an expected turn: does the rollout show  *)
(* that one write arrived and was answered?  The writer put a marker into  *)
(* the task and was told the id of the turn it started; the consumer is    *)
(* fed what the poll reads after the write.                                *)
(*                                                                         *)
(* Like the correlator it is a data type: "con" is what has been made of   *)
(* the lines of "str", those read since the baseline.  The reader feeds    *)
(* the retained records only, and reports the others as diagnostics.       *)
(***************************************************************************)
EXTENDS TurnBuckets

CONSTANTS Expected,   \* the turn id the router answered with
          Marked      \* the bodies that include the marker

ASSUME MarkerAssumption == Expected \in TurnIds /\ Marked \subseteq Bodies

-----------------------------------------------------------------------------
NoCandidate == [start |-> 0, agent |-> 0, terminal |-> 0]
EmptyConsumer == [acc |-> EmptyAccumulator, buckets |-> <<>>, candidate |-> NoCandidate]

\* completionBodyDecision without phase-less messages: the explicit final
\* message that the terminal record repeats, if the turn made one.
Served(str, bucket, last) ==
  {k \in OfKind(str, bucket, "agent_message") : str[k].final /\ str[k].body = last}

\* Fault: any marked user message before the answer will do.
MarkedBefore(str, bucket, agent, turn) ==
  \E m \in TaskLines(str, bucket) : m < agent

\* The first user message with the marker comes before the answer, and no
\* other input follows it.
AnswersMarker(str, bucket, agent, turn) ==
  LET marked == {m \in TaskLines(str, bucket) : m < agent}
  IN /\ marked # {}
     /\ \A k \in OfKind(str, bucket, "user_message") :
          k > Min(marked) /\ k < turn.terminalLine => SameDelivery(str[Min(marked)], str[k])

\* processSnapshot: the candidate a finalized turn makes, if any.
Candidates(str, bucket, turn) ==
  IF ~(/\ turn.terminal = "task_complete" /\ Activity(turn) = "closed"
       /\ turn.mode = "turn-id" /\ turn.turnId = Expected)
  THEN {}
  ELSE {[start |-> turn.startLine, agent |-> k, terminal |-> turn.terminalLine] :
          k \in {j \in Served(str, bucket, str[turn.terminalLine].last) :
                   /\ str[j].body \in Marked
                   /\ AnswersMarker(str, bucket, j, turn)
                   /\ j < turn.terminalLine}}

\* push of record r, the line after those of str.
ConsumeRecord(con, str, r) ==
  LET acc2 == Push(con.acc, Len(str) + 1, r)
      known == [k \in DOMAIN acc2.turns |->
                  IF k \in DOMAIN con.buckets THEN con.buckets[k] ELSE {}]
      buckets2 == Ingest(str, known, TurnOf(con.acc, acc2, r), r)
      finals == NewlyFinal(con.acc, acc2)
      candidates == UNION {Candidates(Append(str, r), buckets2[k], acc2.turns[k]) : k \in finals}
  IN [acc |-> acc2,
      buckets |-> [k \in DOMAIN buckets2 |-> IF k \in finals THEN {} ELSE buckets2[k]],
      candidate |-> IF candidates = {} THEN con.candidate ELSE CHOOSE c \in candidates : TRUE]

\* retainForCorrelation: a record of no known pair does not reach push.
ConsumeLine(con, str, r) == IF r.kind = "drift" THEN con ELSE ConsumeRecord(con, str, r)

Consumed(str) ==
  LET upTo[n \in 0 .. Len(str)] ==
        IF n = 0 THEN EmptyConsumer
        ELSE ConsumeLine(upTo[n - 1], SubSeq(str, 1, n - 1), str[n])
  IN upTo[Len(str)]

\* Fault: a line between hand-over and answer counts, a later one does not.
ViolatedUpToAnswer(con, str) ==
  \E k \in GapsOf(str) : k > con.candidate.start /\ k < con.candidate.agent

\* observe: a diagnostic inside the turn of the candidate.
IntegrityViolation(con, str) ==
  \E k \in GapsOf(str) : k > con.candidate.start /\ k < con.candidate.terminal

\* observe: taskCompleteAfterAgentMarker.
Proven(con, str) == con.candidate # NoCandidate /\ ~IntegrityViolation(con, str)

-----------------------------------------------------------------------------
\* The ends of the turns that prove the write: a clean turn of the expected
\* id was handed the marker and nothing else, then gave a final answer that
\* includes the marker and that it had not given before, and its end repeats
\* that answer.
ProvingEnds(str, hidden) ==
  {e \in DOMAIN str :
     /\ str[e].kind = "task_complete" /\ str[e].last \in Marked
     /\ \E s \in 1 .. e - 1 :
          /\ IsStart(str[s]) /\ str[s].id = Expected
          /\ <<s, e>> \in CleanTurns(str, hidden)
          /\ \E m \in s + 1 .. e - 1 :
               /\ IsHandover(str, s, m, e)
               /\ \E k \in Said(str, s, m, e) : str[k].final /\ str[k].body = str[e].last}

-----------------------------------------------------------------------------
(***************************************************************************)
(* The strengthening the proofs use: the candidate is the last proof of    *)
(* the stream the consumer sees, which has no records of unknown pairs.    *)
(***************************************************************************)
IsProof(c, str, hidden) ==
  /\ <<c.start, c.terminal>> \in CleanTurns(str, hidden)
  /\ str[c.start].id = Expected
  /\ str[c.terminal].kind = "task_complete" /\ str[c.terminal].last \in Marked
  /\ \E m \in c.start + 1 .. c.terminal - 1 :
       /\ IsHandover(str, c.start, m, c.terminal)
       /\ c.agent \in Said(str, c.start, m, c.terminal)
       /\ str[c.agent].final /\ str[c.agent].body = str[c.terminal].last

CandidateInv(c, str) ==
  LET ends == ProvingEnds(str, {"drift"})
  IN \/ c = NoCandidate /\ ends = {}
     \/ IsProof(c, str, {"drift"}) /\ c.terminal \in ends /\ \A f \in ends : f <= c.terminal

ConsumerInv(con, str) ==
  /\ FeedInv(con.acc, str, {"drift"})
  /\ BucketInv(con.acc, con.buckets, str)
  /\ CandidateInv(con.candidate, str)
=============================================================================
