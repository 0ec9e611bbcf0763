----------------------------- MODULE StreamProofs -----------------------------
(***************************************************************************)
(* What is made of one stream of records, whatever the records: by the two *)
(* accumulators of TurnFeeds, of which the full one sees every record and  *)
(* the retained one not the drift, and by the two consumers of Consumers.  *)
(* Both rest on the lemmas about one accumulator in TurnBoundaryProofs.    *)
(***************************************************************************)
EXTENDS TurnFeeds, Consumers, TurnBoundaryProofs

-----------------------------------------------------------------------------
(***************************************************************************)
(* The two feeds.                                                          *)
(***************************************************************************)

LEMMA RecordsAreRecords == RecordSet(Records)
  BY DEF RecordSet, Records

\* In the initial state both feeds are empty.
LEMMA InitFeeds == FeedsInit => FeedsInv
<1> SUFFICES ASSUME FeedsInit PROVE FeedsInv
  OBVIOUS
<1>1. feed = <<>> /\ ~finished /\ finished \in BOOLEAN /\ feed \in Seq(Records)
  <2>1. feed = <<>> /\ finished = FALSE
    BY DEF FeedsInit
  <2>2. feed \in Seq(Records)
    BY <2>1
  <2>3. ~finished /\ finished \in BOOLEAN
    BY <2>1, Zenon
  <2> QED BY <2>1, <2>2, <2>3
<1>2. /\ FeedInv(full, feed, {}) /\ FeedInv(kept, feed, {"drift"})
      /\ TailInv(full, feed)
  BY <1>1, FeedInvInit, TailInit DEF FeedsInit
<1>3. Drift = DriftOf(feed)
  BY DEF Drift
<1>4. /\ IsAccumulator(full) /\ IsAccumulator(kept)
      /\ HasOneOpenTurn(full) /\ HasOneOpenTurn(kept)
      /\ Windows(full.turns, "closed") = CleanTurns(feed, {})
      /\ {w \in Windows(kept.turns, "closed") :
            ~\E d \in DriftOf(feed) : w[1] < d /\ (w[2] = 0 \/ d < w[2])} =
           Windows(full.turns, "closed")
  <2>1. feed \in Seq(Records)
    BY <1>1
  <2> QED BY <2>1, <1>2, ReadingFacts, Zenon
<1> QED BY <1>1, <1>2, <1>3, <1>4
    DEF FeedsInv, FeedsTypeOK, OneOpenTurn, ClosedExactly, FeedsAgree, ActivityExact,
        AdapterWindows, Undrifted

\* One more line, seen by both feeds or by the full one only.
LEMMA ReadLineFeeds == FeedsInv /\ FeedLine => FeedsInv'
<1> SUFFICES ASSUME FeedsInv, FeedLine PROVE FeedsInv'
  OBVIOUS
<1>1. /\ feed \in Seq(Records) /\ ~finished /\ finished' = finished
      /\ FeedInv(full, feed, {}) /\ FeedInv(kept, feed, {"drift"})
      /\ TailInv(full, feed)
  BY DEF FeedsInv, FeedsTypeOK, FeedLine
<1>2. PICK r \in Records :
        /\ feed' = Append(feed, r)
        /\ full' = Push(full, Len(feed) + 1, r)
        /\ kept' = IF Retained(r) THEN Push(kept, Len(feed) + 1, r) ELSE kept
  BY DEF FeedLine
<1>3. feed' \in Seq(Records)
  BY <1>1, <1>2
<1>4. FeedInv(full', feed', {})
  BY <1>1, <1>2, RecordsAreRecords, PushPreserves
<1>5. FeedInv(kept', feed', {"drift"})
  BY <1>1, <1>2, RecordsAreRecords, PushPreserves, HiddenPreserves DEF Retained
<1>6. Drift' = DriftOf(feed') /\ TailInv(full', feed')
  BY <1>1, <1>2, RecordsAreRecords, TailPreserved DEF Drift
<1>7. /\ IsAccumulator(full') /\ IsAccumulator(kept')
      /\ HasOneOpenTurn(full') /\ HasOneOpenTurn(kept')
      /\ Windows(full'.turns, "closed") = CleanTurns(feed', {})
      /\ {w \in Windows(kept'.turns, "closed") :
            ~\E d \in DriftOf(feed') : w[1] < d /\ (w[2] = 0 \/ d < w[2])} =
           Windows(full'.turns, "closed")
  BY <1>3, <1>4, <1>5, ReadingFacts
<1> QED BY <1>1, <1>3, <1>4, <1>5, <1>6, <1>7
    DEF FeedsInv, FeedsTypeOK, OneOpenTurn, ClosedExactly, FeedsAgree, ActivityExact,
        AdapterWindows, Undrifted

LEMMA EndOfReadFeeds == FeedsInv /\ EndOfFeed => FeedsInv'
<1> SUFFICES ASSUME FeedsInv, EndOfFeed PROVE FeedsInv'
  OBVIOUS
<1>1. /\ feed \in Seq(Records) /\ feed' = feed /\ finished'
      /\ finished' \in BOOLEAN
      /\ FeedInv(full, feed, {}) /\ FeedInv(kept, feed, {"drift"})
      /\ TailInv(full, feed)
      /\ full' = Finish(full, Drift) /\ kept' = Finish(kept, Drift)
  BY DEF FeedsInv, FeedsTypeOK, EndOfFeed
<1>2. Drift = DriftOf(feed) /\ Drift' = DriftOf(feed)
  BY <1>1 DEF Drift
<1>3. /\ IsAccumulator(full') /\ IsAccumulator(kept')
      /\ HasOneOpenTurn(full') /\ HasOneOpenTurn(kept')
      /\ Windows(full'.turns, "closed") = CleanTurns(feed, {})
      /\ {w \in Windows(kept'.turns, "closed") :
            ~\E d \in DriftOf(feed) : w[1] < d /\ (w[2] = 0 \/ d < w[2])} =
           Windows(full'.turns, "closed")
      /\ {w \in Windows(kept'.turns, "open") :
            ~\E d \in DriftOf(feed) : w[1] < d /\ (w[2] = 0 \/ d < w[2])} =
           Windows(full'.turns, "open")
  BY <1>1, <1>2, FinishedFacts
<1>4. /\ LatestActivity(full'.turns) = "closed" <=> IdleAfter(feed)
      /\ LatestActivity(full'.turns) = "open" <=> OpenStarts(feed, {}) # {}
  BY <1>1, <1>2, ActivityFacts
<1>5. TurnActivity' = LatestActivity(full'.turns)
  BY <1>1 DEF TurnActivity
<1> QED BY <1>1, <1>2, <1>3, <1>4, <1>5
    DEF FeedsInv, FeedsTypeOK, OneOpenTurn, ClosedExactly, FeedsAgree, ActivityExact,
        AdapterWindows, Undrifted

LEMMA NextFeeds == FeedsInv /\ [FeedsNext]_feedVars => FeedsInv'
<1>1. CASE UNCHANGED feedVars
  BY <1>1 DEF feedVars, FeedsInv, FeedsTypeOK, OneOpenTurn, ClosedExactly, FeedsAgree,
              ActivityExact, TurnActivity, AdapterWindows, Undrifted, Drift
<1> QED BY <1>1, ReadLineFeeds, EndOfReadFeeds DEF FeedsNext

\* The strengthened invariant holds in every state.
THEOREM FeedsInvariant == FeedsSpec => []FeedsInv
<1> QED BY InitFeeds, NextFeeds, PTL DEF FeedsSpec

\* Both accumulators stay well typed: the current turn and every turn an id
\* leads to exist, for every stream of records.
THEOREM FeedsTypeCorrect == FeedsSpec => []FeedsTypeOK
<1>1. FeedsInv => FeedsTypeOK
  BY DEF FeedsInv
<1> QED BY <1>1, FeedsInvariant, PTL

\* At most one turn is open at any time, in either feed.
THEOREM OpenTurnUnique == FeedsSpec => []OneOpenTurn
<1>1. FeedsInv => OneOpenTurn
  BY DEF FeedsInv
<1> QED BY <1>1, FeedsInvariant, PTL

\* The turns reported closed are exactly the clean turns of the stream.
THEOREM ClosedCorrect == FeedsSpec => []ClosedExactly
<1>1. FeedsInv => ClosedExactly
  BY DEF FeedsInv
<1> QED BY <1>1, FeedsInvariant, PTL

\* What dispatch correlation makes of the retained records, after the check
\* against drift diagnostics, is what thread activity makes of all of them.
THEOREM FeedsAgreement == FeedsSpec => []FeedsAgree
<1>1. FeedsInv => FeedsAgree
  BY DEF FeedsInv
<1> QED BY <1>1, FeedsInvariant, PTL

\* At the end of the read, the activity of the last turn says "closed" exactly
\* if the last turn of the stream is over and "open" exactly if it goes on.
THEOREM ActivityCorrect == FeedsSpec => []ActivityExact
<1>1. FeedsInv => ActivityExact
  BY DEF FeedsInv
<1> QED BY <1>1, FeedsInvariant, PTL

\* No step changes a finalized turn.
THEOREM SnapshotsNeverChange == FeedsSpec => SnapshotsFinal
<1> DEFINE A == /\ \A k \in DOMAIN full.turns :
                     full.turns[k].emitted => full'.turns[k] = full.turns[k]
                /\ \A k \in DOMAIN kept.turns :
                     kept.turns[k].emitted => kept'.turns[k] = kept.turns[k]
<1>1. FeedsInv /\ FeedLine => A
  <2> SUFFICES ASSUME FeedsInv, FeedLine PROVE A
    OBVIOUS
  <2>1. /\ feed \in Seq(Records)
        /\ FeedInv(full, feed, {}) /\ FeedInv(kept, feed, {"drift"})
    BY DEF FeedsInv, FeedsTypeOK, FeedLine
  <2>2. PICK r \in Records :
          /\ full' = Push(full, Len(feed) + 1, r)
          /\ kept' = IF Retained(r) THEN Push(kept, Len(feed) + 1, r) ELSE kept
    BY DEF FeedLine
  <2>3. \A k \in DOMAIN full.turns : full.turns[k].emitted => full'.turns[k] = full.turns[k]
    BY <2>1, <2>2, RecordsAreRecords, PushFinal
  <2>4. \A k \in DOMAIN kept.turns : kept.turns[k].emitted => kept'.turns[k] = kept.turns[k]
    BY <2>1, <2>2, RecordsAreRecords, PushFinal
  <2> QED BY <2>3, <2>4
<1>2. EndOfFeed => A
  BY FinishFinal DEF EndOfFeed
<1>3. FeedsInv /\ [FeedsNext]_feedVars => [A]_feedVars
  BY <1>1, <1>2 DEF FeedsNext
<1> QED BY <1>3, FeedsInvariant, PTL DEF FeedsSpec, SnapshotsFinal

-----------------------------------------------------------------------------
(***************************************************************************)
(* The records the consumers read.                                         *)
(***************************************************************************)

\* The records that may be read are records.
LEMMA LinesAreRecords == RecordSet(Lines)
<1>1. Lines \subseteq AllLines
  BY ConsumersAssumption
<1>2. ASSUME NEW r \in AllLines
      PROVE  /\ r.kind \in BoundaryKinds \cup {"malformed", "drift", "other"}
             /\ r.id \in TurnIds \cup {NoId}
  BY DEF AllLines, UserLines, AgentLines, CompleteLines, BoundaryKinds, TerminalKinds
<1> QED BY <1>1, <1>2 DEF RecordSet

-----------------------------------------------------------------------------
(***************************************************************************)
(* The marker consumer.                                                    *)
(***************************************************************************)

\* The recursion that Consumed is defined by has a solution.
LEMMA ConsumptionExists ==
  ASSUME NEW str, Len(str) \in Nat
  PROVE  \E f : f = [n \in 0 .. Len(str) |->
                       IF n = 0 THEN EmptyConsumer
                       ELSE ConsumeLine(f[n - 1], SubSeq(str, 1, n - 1), str[n])]
<1> DEFINE step(f, m) == [n \in 0 .. m |->
                            IF n = 0 THEN EmptyConsumer
                       ELSE ConsumeLine(f[n - 1], SubSeq(str, 1, n - 1), str[n])]
           Good == {m \in Nat : \E f : f = step(f, m)}
<1>1. 0 \in Good
  <2> DEFINE f == [n \in 0 .. 0 |-> EmptyConsumer]
  <2>1. \A n \in 0 .. 0 : n = 0
    OBVIOUS
  <2>2. f = step(f, 0)
    BY <2>1
  <2> QED BY <2>2
<1>2. ASSUME NEW m \in 1 .. Len(str), m - 1 \in Good
      PROVE  m \in Good
  <2>1. PICK f : f = step(f, m - 1)
    BY <1>2
  <2> DEFINE g == [n \in 0 .. m |-> 
                 IF n = m THEN ConsumeLine(f[m - 1], SubSeq(str, 1, m - 1), str[m]) ELSE f[n]]
  <2>2. \A n \in 0 .. m - 1 :
          f[n] = IF n = 0 THEN EmptyConsumer
                 ELSE ConsumeLine(f[n - 1], SubSeq(str, 1, n - 1), str[n])
    BY <2>1
  <2>3. \A n \in 0 .. m - 1 : g[n] = f[n]
    BY <1>2
  <2>4. g[m] = ConsumeLine(f[m - 1], SubSeq(str, 1, m - 1), str[m])
    BY <1>2
  <2>5. ASSUME NEW n \in 0 .. m
        PROVE  g[n] = IF n = 0 THEN EmptyConsumer
                 ELSE ConsumeLine(g[n - 1], SubSeq(str, 1, n - 1), str[n])
    <3> HIDE DEF g
    <3>1. CASE n = m
      <4>1. m # 0 /\ m - 1 \in 0 .. m - 1
        BY <1>2
      <4> QED BY <2>3, <2>4, <3>1, <4>1
    <3>2. CASE n # m
      <4>1. n \in 0 .. m - 1 /\ (n # 0 => n - 1 \in 0 .. m - 1)
        BY <1>2, <3>2
      <4> QED BY <2>2, <2>3, <4>1
    <3> QED BY <3>1, <3>2
  <2>6. g = step(g, m)
    BY <2>5
  <2>7. \E h : h = step(h, m)
    <3> HIDE DEF g, step
    <3> QED BY <2>6
  <2>8. m \in Nat
    BY <1>2
  <2> QED BY <2>7, <2>8
<1>3. \A m \in 0 .. Len(str) : m \in Good
  <2> HIDE DEF Good
  <2> QED BY <1>1, <1>2, UpTo
<1>4. Len(str) \in Good
  BY <1>3
<1> QED BY <1>4

\* What is consumed, line by line.
LEMMA ConsumedUnfolds ==
  ASSUME NEW S, NEW str \in Seq(S)
  PROVE  \E f : /\ f[0] = EmptyConsumer
                /\ \A n \in 1 .. Len(str) : f[n] = ConsumeLine(f[n - 1], SubSeq(str, 1, n - 1), str[n])
                /\ Consumed(str) = f[Len(str)]
<1> DEFINE F == CHOOSE f : f = [n \in 0 .. Len(str) |->
                  IF n = 0 THEN EmptyConsumer
                 ELSE ConsumeLine(f[n - 1], SubSeq(str, 1, n - 1), str[n])]
<1>1. Len(str) \in Nat
  OBVIOUS
<1>2. F = [n \in 0 .. Len(str) |->
             IF n = 0 THEN EmptyConsumer
                 ELSE ConsumeLine(F[n - 1], SubSeq(str, 1, n - 1), str[n])]
  BY <1>1, ConsumptionExists
<1>3. Consumed(str) = F[Len(str)]
  BY DEF Consumed
<1> HIDE DEF F
<1>4. F[0] = EmptyConsumer
  BY <1>1, <1>2
<1>5. \A n \in 1 .. Len(str) : F[n] = ConsumeLine(F[n - 1], SubSeq(str, 1, n - 1), str[n])
  BY <1>1, <1>2
<1> QED BY <1>3, <1>4, <1>5

\* What the consumer knows after the lines of a whole stream.
LEMMA ConsumedFacts ==
  ASSUME NEW S, RecordSet(S), NEW str \in Seq(S)
  PROVE  ConsumerInv(Consumed(str), str)
<1> DEFINE P(f, n) == ConsumerInv(f[n], SubSeq(str, 1, n))
<1>1. PICK f : /\ f[0] = EmptyConsumer
               /\ \A n \in 1 .. Len(str) :
                    f[n] = ConsumeLine(f[n - 1], SubSeq(str, 1, n - 1), str[n])
               /\ Consumed(str) = f[Len(str)]
  BY ConsumedUnfolds
<1>2. Len(str) \in Nat
  OBVIOUS
<1>3. /\ SubSeq(str, 1, 0) = <<>> /\ SubSeq(str, 1, Len(str)) = str
      /\ \A n \in 1 .. Len(str) :
           /\ SubSeq(str, 1, n - 1) \in Seq(S) /\ Len(SubSeq(str, 1, n - 1)) + 1 = n
           /\ str[n] \in S
           /\ SubSeq(str, 1, n) = Append(SubSeq(str, 1, n - 1), str[n])
  BY PrefixFacts
<1>4. P(f, 0)
  BY <1>1, <1>3, ConsumerInit
<1>5. ASSUME NEW n \in 1 .. Len(str), P(f, n - 1)
      PROVE  P(f, n)
  <2> DEFINE pre == SubSeq(str, 1, n - 1)
             con == f[n - 1]
  <2>1. /\ pre \in Seq(S) /\ str[n] \in S
        /\ SubSeq(str, 1, n) = Append(pre, str[n])
        /\ f[n] = ConsumeLine(con, pre, str[n])
    BY <1>1, <1>3
  <2>2. ConsumerInv(con, pre)
    BY <1>5
  <2> HIDE DEF pre, con
  <2>3. ConsumerInv(ConsumeLine(con, pre, str[n]), Append(pre, str[n]))
    BY <2>1, <2>2, ConsumeStep
  <2> QED BY <2>1, <2>3
<1> HIDE DEF P
<1>6. \A n \in 0 .. Len(str) : P(f, n)
  <2> DEFINE Good == {n \in Nat : P(f, n)}
  <2>1. 0 \in Good
    BY <1>4
  <2>2. \A n \in 1 .. Len(str) : n - 1 \in Good => n \in Good
    BY <1>5
  <2> HIDE DEF Good
  <2>3. \A n \in 0 .. Len(str) : n \in Good
    BY <1>2, <2>1, <2>2, UpTo
  <2> QED BY <2>3 DEF Good
<1>7. P(f, Len(str))
  BY <1>2, <1>6
<1> QED BY <1>1, <1>3, <1>7 DEF P

-----------------------------------------------------------------------------
(***************************************************************************)
(* The dispatch correlator.                                                *)
(***************************************************************************)

\* The recursion that Correlated is defined by has a solution.
LEMMA CorrelationExists ==
  ASSUME NEW str, Len(str) \in Nat
  PROVE  \E f : f = [n \in 0 .. Len(str) |->
                       IF n = 0 THEN EmptyCorrelator
                       ELSE CorrelateLine(f[n - 1], SubSeq(str, 1, n - 1), str[n])]
<1> DEFINE step(f, m) == [n \in 0 .. m |->
                            IF n = 0 THEN EmptyCorrelator
                       ELSE CorrelateLine(f[n - 1], SubSeq(str, 1, n - 1), str[n])]
           Good == {m \in Nat : \E f : f = step(f, m)}
<1>1. 0 \in Good
  <2> DEFINE f == [n \in 0 .. 0 |-> EmptyCorrelator]
  <2>1. \A n \in 0 .. 0 : n = 0
    OBVIOUS
  <2>2. f = step(f, 0)
    BY <2>1
  <2> QED BY <2>2
<1>2. ASSUME NEW m \in 1 .. Len(str), m - 1 \in Good
      PROVE  m \in Good
  <2>1. PICK f : f = step(f, m - 1)
    BY <1>2
  <2> DEFINE g == [n \in 0 .. m |-> 
                 IF n = m THEN CorrelateLine(f[m - 1], SubSeq(str, 1, m - 1), str[m]) ELSE f[n]]
  <2>2. \A n \in 0 .. m - 1 :
          f[n] = IF n = 0 THEN EmptyCorrelator
                 ELSE CorrelateLine(f[n - 1], SubSeq(str, 1, n - 1), str[n])
    BY <2>1
  <2>3. \A n \in 0 .. m - 1 : g[n] = f[n]
    BY <1>2
  <2>4. g[m] = CorrelateLine(f[m - 1], SubSeq(str, 1, m - 1), str[m])
    BY <1>2
  <2>5. ASSUME NEW n \in 0 .. m
        PROVE  g[n] = IF n = 0 THEN EmptyCorrelator
                 ELSE CorrelateLine(g[n - 1], SubSeq(str, 1, n - 1), str[n])
    <3> HIDE DEF g
    <3>1. CASE n = m
      <4>1. m # 0 /\ m - 1 \in 0 .. m - 1
        BY <1>2
      <4> QED BY <2>3, <2>4, <3>1, <4>1
    <3>2. CASE n # m
      <4>1. n \in 0 .. m - 1 /\ (n # 0 => n - 1 \in 0 .. m - 1)
        BY <1>2, <3>2
      <4> QED BY <2>2, <2>3, <4>1
    <3> QED BY <3>1, <3>2
  <2>6. g = step(g, m)
    BY <2>5
  <2>7. \E h : h = step(h, m)
    <3> HIDE DEF g, step
    <3> QED BY <2>6
  <2>8. m \in Nat
    BY <1>2
  <2> QED BY <2>7, <2>8
<1>3. \A m \in 0 .. Len(str) : m \in Good
  <2> HIDE DEF Good
  <2> QED BY <1>1, <1>2, UpTo
<1>4. Len(str) \in Good
  BY <1>3
<1> QED BY <1>4

\* What is correlated, line by line.
LEMMA CorrelatedUnfolds ==
  ASSUME NEW S, NEW str \in Seq(S)
  PROVE  \E f : /\ f[0] = EmptyCorrelator
                /\ \A n \in 1 .. Len(str) : f[n] = CorrelateLine(f[n - 1], SubSeq(str, 1, n - 1), str[n])
                /\ Correlated(str) = f[Len(str)]
<1> DEFINE F == CHOOSE f : f = [n \in 0 .. Len(str) |->
                  IF n = 0 THEN EmptyCorrelator
                 ELSE CorrelateLine(f[n - 1], SubSeq(str, 1, n - 1), str[n])]
<1>1. Len(str) \in Nat
  OBVIOUS
<1>2. F = [n \in 0 .. Len(str) |->
             IF n = 0 THEN EmptyCorrelator
                 ELSE CorrelateLine(F[n - 1], SubSeq(str, 1, n - 1), str[n])]
  BY <1>1, CorrelationExists
<1>3. Correlated(str) = F[Len(str)]
  BY DEF Correlated
<1> HIDE DEF F
<1>4. F[0] = EmptyCorrelator
  BY <1>1, <1>2
<1>5. \A n \in 1 .. Len(str) : F[n] = CorrelateLine(F[n - 1], SubSeq(str, 1, n - 1), str[n])
  BY <1>1, <1>2
<1> QED BY <1>3, <1>4, <1>5

\* What the correlator knows after the lines of a whole stream.
LEMMA CorrelatedFacts ==
  ASSUME NEW S, S \subseteq AllLines, NEW str \in Seq(S)
  PROVE  CorrelatorInv(Correlated(str), str)
<1> DEFINE P(f, n) == CorrelatorInv(f[n], SubSeq(str, 1, n))
<1>1. PICK f : /\ f[0] = EmptyCorrelator
               /\ \A n \in 1 .. Len(str) :
                    f[n] = CorrelateLine(f[n - 1], SubSeq(str, 1, n - 1), str[n])
               /\ Correlated(str) = f[Len(str)]
  BY CorrelatedUnfolds
<1>2. Len(str) \in Nat
  OBVIOUS
<1>3. /\ SubSeq(str, 1, 0) = <<>> /\ SubSeq(str, 1, Len(str)) = str
      /\ \A n \in 1 .. Len(str) :
           /\ SubSeq(str, 1, n - 1) \in Seq(S) /\ Len(SubSeq(str, 1, n - 1)) + 1 = n
           /\ str[n] \in S
           /\ SubSeq(str, 1, n) = Append(SubSeq(str, 1, n - 1), str[n])
  BY PrefixFacts
<1>4. P(f, 0)
  BY <1>1, <1>3, CorrelatorInit
<1>5. ASSUME NEW n \in 1 .. Len(str), P(f, n - 1)
      PROVE  P(f, n)
  <2> DEFINE pre == SubSeq(str, 1, n - 1)
             con == f[n - 1]
  <2>1. /\ pre \in Seq(S) /\ str[n] \in S
        /\ SubSeq(str, 1, n) = Append(pre, str[n])
        /\ f[n] = CorrelateLine(con, pre, str[n])
    BY <1>1, <1>3
  <2>2. CorrelatorInv(con, pre)
    BY <1>5
  <2> HIDE DEF pre, con
  <2>3. CorrelatorInv(CorrelateLine(con, pre, str[n]), Append(pre, str[n]))
    BY <2>1, <2>2, CorrelateLineStep
  <2> QED BY <2>1, <2>3
<1> HIDE DEF P
<1>6. \A n \in 0 .. Len(str) : P(f, n)
  <2> DEFINE Good == {n \in Nat : P(f, n)}
  <2>1. 0 \in Good
    BY <1>4
  <2>2. \A n \in 1 .. Len(str) : n - 1 \in Good => n \in Good
    BY <1>5
  <2> HIDE DEF Good
  <2>3. \A n \in 0 .. Len(str) : n \in Good
    BY <1>2, <2>1, <2>2, UpTo
  <2> QED BY <2>3 DEF Good
<1>7. P(f, Len(str))
  BY <1>2, <1>6
<1> QED BY <1>1, <1>3, <1>7 DEF P

-----------------------------------------------------------------------------
(***************************************************************************)
(* The specification.                                                      *)
(***************************************************************************)

\* The stream, and what the two consumers have made of it.
ReadInv ==
  /\ stream \in Seq(Lines)
  /\ ConsumerInv(consumer, stream)
  /\ CorrelatorInv(correlator, stream)

\* It holds of whatever the rollout held when the first read started.
LEMMA ReadInit == Init => ReadInv
<1> SUFFICES ASSUME Init PROVE ReadInv
  OBVIOUS
<1>1. stream \in Seq(Lines)
  BY ConsumersAssumption DEF Init
<1>2. ConsumerInv(consumer, stream)
  BY <1>1, LinesAreRecords, ConsumedFacts DEF Init
<1>3. CorrelatorInv(correlator, stream)
  BY <1>1, ConsumersAssumption, CorrelatedFacts DEF Init
<1> QED BY <1>1, <1>2, <1>3 DEF ReadInv

\* And one line more does not change that.
LEMMA ReadStep == ReadInv /\ [ReadLine]_vars => ReadInv'
<1> SUFFICES ASSUME ReadInv, [ReadLine]_vars PROVE ReadInv'
  OBVIOUS
<1>1. CASE ReadLine
  <2>1. PICK r \in Lines : /\ stream' = Append(stream, r)
                           /\ correlator' = CorrelateLine(correlator, stream, r)
                           /\ consumer' = ConsumeLine(consumer, stream, r)
    BY <1>1 DEF ReadLine
  <2>2. ConsumerInv(consumer', stream')
    BY <2>1, LinesAreRecords, ConsumeStep DEF ReadInv
  <2>3. CorrelatorInv(correlator', stream')
    BY <2>1, ConsumersAssumption, CorrelateLineStep DEF ReadInv
  <2>4. stream' \in Seq(Lines)
    BY <2>1 DEF ReadInv
  <2> QED BY <2>2, <2>3, <2>4 DEF ReadInv
<1>2. CASE UNCHANGED vars
  BY <1>2 DEF vars, ReadInv
<1> QED BY <1>1, <1>2

\* The two consumers agree with the stream in every state.
THEOREM ReadInvariant == Spec => []ReadInv
BY ReadInit, ReadStep, PTL DEF Spec

\* Both consumers keep one bucket of lines of the rollout for every turn of
\* their accumulators, and the candidate's three lines are in order.
THEOREM ReadTypes == Spec => []TypeOK
<1>1. ASSUME ReadInv PROVE TypeOK
  <2>1. /\ stream \in Seq(Lines)
        /\ IsAccumulator(correlator.acc) /\ IsAccumulator(consumer.acc)
    BY <1>1 DEF ReadInv, ConsumerInv, CorrelatorInv, FeedInv, AccInv
  <2>2. /\ correlator.buckets \in [DOMAIN correlator.acc.turns -> SUBSET DOMAIN stream]
        /\ consumer.buckets \in [DOMAIN consumer.acc.turns -> SUBSET DOMAIN stream]
    BY <1>1 DEF ReadInv, ConsumerInv, CorrelatorInv, BucketInv
  <2>3. consumer.candidate # NoCandidate => IsProof(consumer.candidate, stream, {"drift"})
    BY <1>1 DEF ReadInv, ConsumerInv, CandidateInv
  <2>4. consumer.candidate # NoCandidate =>
          /\ consumer.candidate.start < consumer.candidate.agent
          /\ consumer.candidate.agent < consumer.candidate.terminal
          /\ consumer.candidate.terminal \in DOMAIN stream
    <3> DEFINE c == consumer.candidate
    <3> SUFFICES ASSUME c # NoCandidate
                 PROVE  c.start < c.agent /\ c.agent < c.terminal /\ c.terminal \in DOMAIN stream
      OBVIOUS
    <3> HIDE DEF c
    <3>1. IsProof(c, stream, {"drift"})
      BY <2>3 DEF c
    <3>2. <<c.start, c.terminal>> \in (DOMAIN stream) \X (DOMAIN stream)
      BY <3>1 DEF IsProof, CleanTurns
    <3>3. c.start \in DOMAIN stream /\ c.terminal \in DOMAIN stream
      BY <3>2
    <3>4. PICK m \in c.start + 1 .. c.terminal - 1 :
            c.agent \in Said(stream, c.start, m, c.terminal)
      BY <3>1 DEF IsProof
    <3>5. c.agent \in m + 1 .. c.terminal - 1
      BY <3>4 DEF Said
    <3>6. c.start \in Nat /\ c.terminal \in Nat
      BY <2>1, <3>3
    <3> QED BY <3>3, <3>4, <3>5, <3>6
  <2>5. /\ DOMAIN correlator.buckets = DOMAIN correlator.acc.turns
        /\ DOMAIN consumer.buckets = DOMAIN consumer.acc.turns
        /\ \A k \in DOMAIN correlator.buckets : correlator.buckets[k] \subseteq DOMAIN stream
        /\ \A k \in DOMAIN consumer.buckets : consumer.buckets[k] \subseteq DOMAIN stream
    BY <2>2
  <2> QED BY <2>1, <2>4, <2>5 DEF TypeOK
<1> QED BY <1>1, ReadInvariant, PTL

\* The marker consumer, which keeps one candidate and a bucket for each turn
\* that is open, proves the write exactly for the streams that have a proof
\* (createMarkerProofConsumer).
THEOREM ProvenCorrect == Spec => []ProvenExactly
<1>1. ReadInv => ProvenExactly
  BY ConsumerProven DEF ReadInv, ProvenExactly
<1> QED BY <1>1, ReadInvariant, PTL

\* The correlator, which judges each bucket once, when its turn is finalized,
\* certifies exactly the answers of the stream (finalizeTurn, finish).
THEOREM CertifiedCorrect == Spec => []CertifiedExactly
<1>1. ReadInv => CertifiedExactly
  BY ConsumersAssumption, CertifiedFacts, AnswersFacts DEF ReadInv, CertifiedExactly
<1> QED BY <1>1, ReadInvariant, PTL

\* Freshness is settled exactly if nothing casts doubt on some answer, and
\* that answer is the one served (projectDispatchFreshness, projectHarvest).
THEOREM SettledCorrect == Spec => []SettledServesLatest
<1>1. ReadInv => SettledServesLatest
  BY ConsumersAssumption, SettledFacts DEF ReadInv, SettledServesLatest
<1> QED BY <1>1, ReadInvariant, PTL

\* A pending dispatch may still be answered (projectLifecycle).
THEOREM PendingCorrect == Spec => []PendingIsOpen
<1>1. ReadInv => PendingIsOpen
  BY ConsumersAssumption, PendingFacts DEF ReadInv, PendingIsOpen
<1> QED BY <1>1, ReadInvariant, PTL

\* A write that is proven is one whose answer the correlator certifies.
THEOREM AgreeCorrect == Spec => []ConsumersAgree
<1>1. ReadInv => ConsumersAgree
  BY ConsumersAssumption, AgreeFacts DEF ReadInv, ConsumersAgree
<1> QED BY <1>1, ReadInvariant, PTL

\* No line takes back an answer, or the completion of a dispatch.
THEOREM StayCorrect == Spec => AnswersStay
<1> DEFINE A == /\ CertifiedOf(correlator, stream) \subseteq CertifiedOf(correlator, stream)'
                /\ Lifecycle(correlator, stream).status = "complete" =>
                     Lifecycle(correlator, stream)'.status = "complete"
<1>1. ReadInv /\ ReadLine => A
  <2> SUFFICES ASSUME ReadInv, ReadLine PROVE A
    OBVIOUS
  <2>1. PICK r \in Lines : /\ stream' = Append(stream, r)
                           /\ correlator' = CorrelateLine(correlator, stream, r)
    BY DEF ReadLine
  <2>2. /\ CertifiedOf(correlator, stream) \subseteq CertifiedOf(correlator', stream')
        /\ Lifecycle(correlator, stream).status = "complete" =>
             Lifecycle(correlator', stream').status = "complete"
    BY <2>1, ConsumersAssumption, StayFacts DEF ReadInv
  <2> QED BY <2>2
<1>2. ReadInv /\ [ReadLine]_vars => [A]_vars
  BY <1>1
<1> QED BY <1>2, ReadInvariant, PTL DEF Spec, AnswersStay
=============================================================================
