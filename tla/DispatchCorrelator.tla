-------------------------- MODULE DispatchCorrelator --------------------------
(***************************************************************************)
(* createDispatchCorrelator: what the records of a rollout say about one   *)
(* dispatch.  The turn whose user message names the task is the dispatch's *)
(* own turn; its end, and the final message its terminal record repeats,   *)
(* become an "occurrence" when the turn is finalized.  finish projects the *)
(* occurrences for the harvester (harvest), the waiter (lifecycle) and     *)
(* both (freshness).                                                       *)
(*                                                                         *)
(* A correlator does no I/O and shares nothing, so it is a data type here: *)
(* "cor" is what has been made of the lines of "str".  Waiter and          *)
(* harvester correlate all records read so far at every end of file, so    *)
(* the projections are functions of both.  The reader's refusals (owner,   *)
(* read failure) never reach them and are modelled with the waiter.        *)
(***************************************************************************)
EXTENDS TurnBuckets

-----------------------------------------------------------------------------
(***************************************************************************)
(* The correlator: its accumulator, a bucket of line numbers per turn, and *)
(* the occurrences of the turns finalized so far.                          *)
(***************************************************************************)

EmptyCorrelator == [acc |-> EmptyAccumulator, buckets |-> <<>>, occurrences |-> {}]

-----------------------------------------------------------------------------
(***************************************************************************)
(* computeOccurrence, on the bucket of a finalized turn.                   *)
(***************************************************************************)

\* Fault: what the turn said before it was given the task counts too.
AllMessages(str, bucket, marker, turn) == OfKind(str, bucket, "agent_message")

\* The agent messages between the marker and the terminal record.
MessagesAfter(str, bucket, marker, turn) ==
  {k \in OfKind(str, bucket, "agent_message") : k > marker /\ k < turn.terminalLine}

\* completionBodyDecision with requireTerminalCopy: the body served, NoBody
\* if the turn carried none; "refused" if the terminal record repeats none.
Decision(str, messages, last) ==
  LET explicit == {str[k].body : k \in {j \in messages : str[j].final}}
      legacy == {str[k].body : k \in {j \in messages : str[j].body = last}}
      finals == IF explicit # {} THEN explicit ELSE legacy
  IN CASE finals = {} -> [refused |-> FALSE, body |-> NoBody]
       [] finals # {} /\ last \in finals -> [refused |-> FALSE, body |-> last]
       [] OTHER -> [refused |-> TRUE, body |-> NoBody]

\* Malformed lines of the bucket inside the turn, counted from the marker
\* where the turn has no start record.
InWindowErrors(str, bucket, marker, turn) ==
  LET starts == OfKind(str, bucket, "task_started")
      from == IF starts = {} THEN marker ELSE Max(starts)
  IN {k \in OfKind(str, bucket, "malformed") :
        k > from /\ (turn.terminal = "none" \/ k < turn.terminalLine)}

Occurrence(str, bucket, turn) ==
  LET marker == Min(TaskLines(str, bucket))
      starts == OfKind(str, bucket, "task_started")
      decision == Decision(str, MessagesAfter(str, bucket, marker, turn),
                           str[turn.terminalLine].last)
      outcome(status, reason, text) ==
        [marker |-> marker, start |-> IF starts = {} THEN 0 ELSE Max(starts),
         terminal |-> turn.terminalLine, status |-> status, reason |-> reason,
         text |-> text]
      interrupted == \E k \in OfKind(str, bucket, "user_message") :
                       k > marker /\ ~SameDelivery(str[marker], str[k])
  IN IF turn.superseded THEN outcome("superseded", "unavailable", NoBody)
     ELSE IF turn.errors # {} \/ InWindowErrors(str, bucket, marker, turn) # {}
     THEN outcome("unavailable", "unparseable", NoBody)
     ELSE IF interrupted THEN outcome("unavailable", "ambiguous", NoBody)
     ELSE IF turn.terminal = "none" THEN outcome("pending", "pending", NoBody)
     ELSE IF Activity(turn) # "closed" THEN outcome("unavailable", "unparseable", NoBody)
     ELSE IF turn.terminal = "turn_aborted" THEN outcome("aborted", "unavailable", NoBody)
     ELSE IF decision.refused THEN outcome("unavailable", "unavailable", NoBody)
     ELSE outcome("complete", IF decision.body = NoBody THEN "unavailable" ELSE "none",
                  decision.body)

Certifiable(occ) == occ.text # NoBody

-----------------------------------------------------------------------------
\* processSnapshot of the turns just finalized: one that was given the task
\* leaves an occurrence.
OccurrencesOf(str, buckets, turns, finals) ==
  {Occurrence(str, buckets[k], turns[k]) : k \in {j \in finals : TaskLines(str, buckets[j]) # {}}}

\* push: line r follows the lines of str.
CorrelateRecord(cor, str, r) ==
  LET acc2 == Push(cor.acc, Len(str) + 1, r)
      known == [k \in DOMAIN acc2.turns |->
                  IF k \in DOMAIN cor.buckets THEN cor.buckets[k] ELSE {}]
      buckets2 == Ingest(str, known, TurnOf(cor.acc, acc2, r), r)
      finals == NewlyFinal(cor.acc, acc2)
  IN [acc |-> acc2,
      buckets |-> [k \in DOMAIN buckets2 |-> IF k \in finals THEN {} ELSE buckets2[k]],
      occurrences |-> cor.occurrences \cup
                        OccurrencesOf(Append(str, r), buckets2, acc2.turns, finals)]

\* retainForCorrelation: a record of no known pair does not reach push.
CorrelateLine(cor, str, r) ==
  IF r.kind = "drift" THEN cor ELSE CorrelateRecord(cor, str, r)

\* correlateDispatch over the lines of a stream.
Correlated(str) ==
  LET upTo[n \in 0 .. Len(str)] ==
        IF n = 0 THEN EmptyCorrelator
        ELSE CorrelateLine(upTo[n - 1], SubSeq(str, 1, n - 1), str[n])
  IN upTo[Len(str)]

-----------------------------------------------------------------------------
(***************************************************************************)
(* finish and its projections.                                             *)
(***************************************************************************)

\* Fault: any gap after the start counts, also one after the turn's end.
OpenEndedIntegrity(str, occ) ==
  IF /\ occ.status \in {"complete", "pending", "aborted"} /\ occ.start # 0
     /\ \E d \in DriftOf(str) : d > occ.start
  THEN [occ EXCEPT !.status = "unavailable", !.reason = "unparseable", !.text = NoBody]
  ELSE occ

\* Fault: a turn that is still open is left to the accumulator.
SettledIntegrity(str, occ) ==
  IF /\ occ.status \in {"complete", "aborted"} /\ occ.start # 0
     /\ \E d \in DriftOf(str) : d > occ.start /\ (occ.terminal = 0 \/ d < occ.terminal)
  THEN [occ EXCEPT !.status = "unavailable", !.reason = "unparseable", !.text = NoBody]
  ELSE occ

\* applySchemaIntegrity
SchemaIntegrity(str, occ) ==
  IF /\ occ.status \in {"complete", "pending", "aborted"} /\ occ.start # 0
     /\ \E d \in DriftOf(str) : d > occ.start /\ (occ.terminal = 0 \/ d < occ.terminal)
  THEN [occ EXCEPT !.status = "unavailable", !.reason = "unparseable", !.text = NoBody]
  ELSE occ

\* The occurrences at the end of the lines read so far.
Occurrences(cor, str) ==
  LET acc2 == Finish(cor.acc, DriftOf(str))
      occs == cor.occurrences \cup
                OccurrencesOf(str, cor.buckets, acc2.turns, NewlyFinal(cor.acc, acc2))
  IN {SchemaIntegrity(str, o) : o \in occs}

CertifiedOf(cor, str) == {o \in Occurrences(cor, str) : Certifiable(o)}

LastBy(occs, line(_)) ==
  CHOOSE o \in occs : \A p \in occs : line(p) <= line(o)
TerminalOf(o) == o.terminal
MarkerOf(o) == o.marker

\* The order in which reasons hide each other.
ReasonRank(reason) ==
  CASE reason = "unparseable" -> 1 [] reason = "ambiguous" -> 2
    [] reason = "pending" -> 3 [] OTHER -> 4

\* projectHarvest
Harvest(cor, str) ==
  LET occs == Occurrences(cor, str)
      served == {o \in occs : Certifiable(o)}
      reasons == {o.reason : o \in occs}
      none(reason) == [status |-> "none", reason |-> reason, text |-> NoBody]
  IN IF served # {}
     THEN [status |-> "complete", reason |-> "none",
           text |-> LastBy(served, TerminalOf).text]
     ELSE IF reasons # {}
     THEN none(CHOOSE r \in reasons : \A q \in reasons : ReasonRank(r) <= ReasonRank(q))
     ELSE none(IF GapsOf(str) = {} THEN "pending" ELSE "unparseable")

\* projectLifecycle
Lifecycle(cor, str) ==
  LET occs == Occurrences(cor, str)
      with(status) == {o \in occs : o.status = status}
  IN IF with("complete") # {}
     THEN [status |-> "complete",
           certifiable |-> Certifiable(LastBy(with("complete"), TerminalOf))]
     ELSE [certifiable |-> FALSE,
           status |-> IF with("unavailable") # {} THEN "unavailable"
                      ELSE IF with("pending") # {} THEN "pending"
                      ELSE IF occs # {} THEN LastBy(occs, MarkerOf).status
                      ELSE IF GapsOf(str) # {} THEN "unavailable" ELSE "pending"]

\* Fault: gaps after the latest occurrence are not looked at.
FreshnessOfOccurrence(cor, str) ==
  LET occs == Occurrences(cor, str)
      latest == LastBy(occs, MarkerOf)
  IN IF occs = {} THEN "not-seen"
     ELSE IF Certifiable(latest) THEN "complete"
     ELSE IF latest.status = "pending" THEN "pending" ELSE "unavailable"

\* projectDispatchFreshness; "complete" is the only settled one.
Freshness(cor, str) ==
  LET occs == Occurrences(cor, str)
      latest == LastBy(occs, MarkerOf)
      boundary == IF latest.terminal # 0 THEN latest.terminal ELSE latest.marker
  IN IF occs = {} THEN "not-seen"
     ELSE IF ~Certifiable(latest)
     THEN IF latest.status = "pending" THEN "pending" ELSE "unavailable"
     ELSE IF \E k \in GapsOf(str) : k > boundary THEN "unavailable"
     ELSE "complete"

-----------------------------------------------------------------------------
(***************************************************************************)
(* What was said to the dispatch, read off the stream as a whole.          *)
(***************************************************************************)

\* One of the messages is final and has that body; a message of no phase is
\* final if none of them is.
SaidFinally(str, messages, body) ==
  \E k \in messages : /\ str[k].body = body
                      /\ str[k].final \/ \A j \in messages : ~str[j].final

\* The answers of the stream: a clean turn was handed the task, then made
\* the final message its terminal record repeats.
Answers(str) ==
  {a \in (DOMAIN str) \X (DOMAIN str) \X Bodies :
     LET m == a[1]
         e == a[2]
     IN /\ str[e].kind = "task_complete" /\ str[e].last = a[3]
        /\ \E s \in DOMAIN str :
             /\ IsHandover(str, s, m, e)
             /\ <<s, e>> \in CleanTurns(str, {})
             /\ SaidFinally(str, Said(str, s, m, e), a[3])}

-----------------------------------------------------------------------------
(***************************************************************************)
(* The strengthening the proofs use.  The occurrences that can be          *)
(* certified are the answers of the stream the correlator sees, which has  *)
(* no records of unknown pairs; occurrences follow each other, and the     *)
(* bucket of the current turn follows them all; that bucket has all that   *)
(* counts against the turn; a complete occurrence is a clean turn, whether *)
(* it can be certified or not; and no task line is lost.                   *)
(***************************************************************************)
IsAnswer(o, str, hidden) ==
  /\ <<o.start, o.terminal>> \in CleanTurns(str, hidden)
  /\ str[o.terminal].kind = "task_complete" /\ str[o.terminal].last = o.text
  /\ IsHandover(str, o.start, o.marker, o.terminal)
  /\ SaidFinally(str, Said(str, o.start, o.marker, o.terminal), o.text)

AnswerOccurrences(str, hidden) ==
  {o \in [marker : DOMAIN str, start : DOMAIN str, terminal : DOMAIN str,
          status : {"complete"}, reason : {"none"}, text : Bodies] : IsAnswer(o, str, hidden)}

CertifiedInv(cor, str) ==
  {o \in cor.occurrences : Certifiable(o)} = AnswerOccurrences(str, {"drift"})

LinesOf(acc, buckets) == IF acc.current = 0 THEN {} ELSE buckets[acc.current]

\* o ends before line k.
Before(o, k) == o.marker < k /\ o.terminal < k

IsOccurrence(o) ==
  o = [marker |-> o.marker, start |-> o.start, terminal |-> o.terminal, status |-> o.status,
       reason |-> o.reason, text |-> o.text]

OrderInv(cor, str) ==
  LET occs == cor.occurrences
  IN /\ \A o \in occs :
          /\ IsOccurrence(o)
          /\ o.marker \in DOMAIN str /\ IsTask(str[o.marker])
          /\ o.terminal \in 0 .. Len(str)
          /\ o.status # "pending" /\ (o.status = "complete" => o.terminal # 0)
          /\ \A k \in LinesOf(cor.acc, cor.buckets) : Before(o, k)
     /\ \A o, p \in occs : Certifiable(o) =>
          p = o \/ p.marker < o.marker \/ p.marker > o.terminal
     /\ \A o \in occs : Certifiable(o) =>
          \A k \in DOMAIN str : k > o.terminal /\ IsTask(str[k]) =>
            k \in LinesOf(cor.acc, cor.buckets) \/ \E p \in occs : p.marker > o.terminal

OpenInv(acc, bucket, str) ==
  LET turn == Current(acc)
      start == turn.startLine
  IN acc.current # 0 =>
       /\ start \in bucket /\ bucket \subseteq start .. Len(str)
       /\ \A k \in start .. Len(str) : str[k].kind \in {"malformed", "user_message"} => k \in bucket
       /\ \A k \in start + 1 .. Len(str) : ~IsStart(str[k])
       /\ turn.errors = {} => str[start].kind \in {"task_started", "malformed"}
       /\ turn.parseGap => \E k \in bucket : str[k].kind = "malformed"

\* A clean turn of the stream, handed the task and completed.
IsWhole(o, str, hidden) ==
  /\ <<o.start, o.terminal>> \in CleanTurns(str, hidden)
  /\ str[o.terminal].kind = "task_complete"
  /\ IsHandover(str, o.start, o.marker, o.terminal)

HandedInv(cor, str) ==
  /\ \A o \in cor.occurrences : o.status = "complete" => IsWhole(o, str, {"drift"})
  /\ \A k \in DOMAIN str : IsTask(str[k]) =>
       \/ k \in LinesOf(cor.acc, cor.buckets)
       \/ \E o \in cor.occurrences : o.marker <= k /\ (o.terminal = 0 \/ k <= o.terminal)

CorrelatorInv(cor, str) ==
  /\ FeedInv(cor.acc, str, {"drift"})
  /\ BucketInv(cor.acc, cor.buckets, str)
  /\ CertifiedInv(cor, str)
  /\ OrderInv(cor, str)
  /\ OpenInv(cor.acc, LinesOf(cor.acc, cor.buckets), str)
  /\ HandedInv(cor, str)
=============================================================================
