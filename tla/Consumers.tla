------------------------------- MODULE Consumers -------------------------------
(***************************************************************************)
(* The two consumers of one record stream: the dispatch correlator, which  *)
(* serves the answer to a dispatch, and the marker proof, which certifies  *)
(* one write.  They keep their own accumulators and buckets and are fed    *)
(* the same records in the same order.                                     *)
(***************************************************************************)
EXTENDS DispatchCorrelator, MarkerConsumer

CONSTANTS Lines,      \* the records that may be read
          Histories,  \* what the rollout may hold when the first read starts
          MaxLines    \* how many lines it may grow by

ASSUME ConsumersAssumption ==
  /\ Lines \subseteq AllLines /\ Histories \subseteq Seq(Lines) /\ MaxLines \in Nat

VARIABLES stream,      \* the records of the lines read so far
          correlator,  \* what the correlator has made of them
          consumer     \* and the marker proof

vars == <<stream, correlator, consumer>>

-----------------------------------------------------------------------------

Init ==
  /\ stream \in Histories
  /\ correlator = Correlated(stream)
  /\ consumer = Consumed(stream)

ReadLine ==
  \E h \in Histories :
    /\ IsPrefix(h, stream)
    /\ Len(stream) < Len(h) + MaxLines
    /\ \E r \in Lines :
         /\ stream' = Append(stream, r)
         /\ correlator' = CorrelateLine(correlator, stream, r)
         /\ consumer' = ConsumeLine(consumer, stream, r)

Spec == Init /\ [][ReadLine]_vars

-----------------------------------------------------------------------------
(***************************************************************************)
(* Properties.                                                             *)
(***************************************************************************)

TypeOK ==
  /\ stream \in Seq(Lines)
  /\ IsAccumulator(correlator.acc) /\ IsAccumulator(consumer.acc)
  /\ DOMAIN correlator.buckets = DOMAIN correlator.acc.turns
  /\ DOMAIN consumer.buckets = DOMAIN consumer.acc.turns
  /\ \A k \in DOMAIN correlator.buckets : correlator.buckets[k] \subseteq DOMAIN stream
  /\ \A k \in DOMAIN consumer.buckets : consumer.buckets[k] \subseteq DOMAIN stream
  /\ consumer.candidate # NoCandidate =>
       /\ consumer.candidate.start < consumer.candidate.agent
       /\ consumer.candidate.agent < consumer.candidate.terminal
       /\ consumer.candidate.terminal \in DOMAIN stream

\* After every line the answers certified are exactly those of the stream,
\* though the correlator closed its buckets one by one (pushBoundary,
\* finalizeTurn): none that another turn, an unreadable line or a second
\* input casts doubt on, and none missed.
CertifiedExactly ==
  {<<o.marker, o.terminal, o.text>> : o \in CertifiedOf(correlator, stream)}
    = Answers(stream)

\* Settled freshness is what the rollout fallback rests on: it is reported
\* exactly if some answer is followed by no further mention of the task in a
\* user message and by no unreadable line, and that answer is the one served
\* (selectOccurrence).
SettledServesLatest ==
  LET current == {a \in Answers(stream) : \A k \in a[2] + 1 .. Len(stream) :
                    ~IsTask(stream[k]) /\ k \notin GapsOf(stream)}
  IN /\ Freshness(correlator, stream) = "complete" <=> current # {}
     /\ \A a \in current : /\ Harvest(correlator, stream).status = "complete"
                           /\ Harvest(correlator, stream).text = a[3]

\* "pending" makes the waiter wait.  Before the task is seen, nothing may be
\* unreadable; after that, the turn it was handed over in must still be open
\* and able to answer.  The exception is a turn whose start may have been a
\* malformed line: the code waits for its end before it gives up on it.
PendingIsOpen ==
  Lifecycle(correlator, stream).status = "pending" =>
    \/ Occurrences(correlator, stream) = {} /\ GapsOf(stream) = {}
    \/ \E s \in OpenStarts(stream, {}), m \in DOMAIN stream :
         IsHandover(stream, s, m, Len(stream) + 1)
    \/ \E g, m \in DOMAIN stream :
         /\ g < m /\ stream[g].kind = "malformed" /\ IsTask(stream[m])
         /\ \A k \in g + 1 .. Len(stream) : ~IsStart(stream[k])
         /\ \A k \in m + 1 .. Len(stream) :
              /\ stream[k].kind # "malformed"
              /\ stream[k].kind = "user_message" => SameDelivery(stream[m], stream[k])

\* An answer once certified is never withdrawn, and a dispatch once complete
\* stays so, whatever is written later.
AnswersStay ==
  [][/\ CertifiedOf(correlator, stream) \subseteq CertifiedOf(correlator, stream)'
     /\ Lifecycle(correlator, stream).status = "complete" =>
          Lifecycle(correlator, stream)'.status = "complete"]_vars

\* The write is proven exactly if the stream has a proof: a turn that was
\* handed the marker, closed by the expected turn's end after an answer; and
\* no later turn under the same id would have been one but for records of no
\* known pair (createMarkerProofConsumer).
ProvenExactly ==
  Proven(consumer, stream) <=>
    \E e \in ProvingEnds(stream, {}) : \A f \in ProvingEnds(stream, {"drift"}) : f <= e

\* Two accumulators fed alike cut the stream into the same turns: a write that
\* is proven was answered in a turn that the correlator counts as a completed
\* occurrence of the task, with that answer.
ConsumersAgree ==
  Proven(consumer, stream) =>
    \E o \in Occurrences(correlator, stream) :
      /\ o.start = consumer.candidate.start /\ o.terminal = consumer.candidate.terminal
      /\ o.status = "complete" /\ o.text = stream[consumer.candidate.agent].body
================================================================================
