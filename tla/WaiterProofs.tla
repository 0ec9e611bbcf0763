----------------------------- MODULE WaiterProofs -----------------------------
(***************************************************************************)
(* Theorems about the waiter, from what the correlator knows of the lines  *)
(* it has read.                                                            *)
(***************************************************************************)
EXTENDS Waiter, TurnBoundaryProofs, FiniteSetTheorems

-----------------------------------------------------------------------------
(***************************************************************************)
(* The occurrences of a dispatch.                                          *)
(***************************************************************************)

\* The image of a finite set is finite.
LEMMA FiniteImage ==
  ASSUME NEW T, IsFiniteSet(T), NEW f, DOMAIN f = T
  PROVE  IsFiniteSet({f[x] : x \in T})
<1> DEFINE U == {f[x] : x \in T}
           g == [x \in T |-> f[x]]
<1>1. g \in Surjection(T, U)
  BY DEF Surjection
<1> HIDE DEF U, g
<1>2. IsFiniteSet(U)
  BY <1>1, FS_Surjection
<1> QED BY <1>2 DEF U

\* A turn leaves an occurrence of one of the five statuses.
LEMMA OccurrenceStatus ==
  ASSUME NEW str, NEW bucket, NEW turn
  PROVE  Occurrence(str, bucket, turn).status \in Statuses
BY DEF Occurrence, Statuses

\* The turns that a line finalizes are among those the accumulator has.
LEMMA FinalsFinite ==
  ASSUME NEW acc, NEW acc2, IsAccumulator(acc2)
  PROVE  IsFiniteSet(NewlyFinal(acc, acc2))
<1>1. DOMAIN acc2.turns = 1 .. Len(acc2.turns) /\ Len(acc2.turns) \in Nat
  BY DEF IsAccumulator
<1>2. IsFiniteSet(1 .. Len(acc2.turns))
  BY <1>1, FS_Interval
<1>3. NewlyFinal(acc, acc2) \in SUBSET (1 .. Len(acc2.turns))
  BY <1>1 DEF NewlyFinal
<1> QED BY <1>2, <1>3, FS_Subset

\* They leave finitely many occurrences.
LEMMA OccurrencesOfFinite ==
  ASSUME NEW str, NEW buckets, NEW turns, NEW finals, IsFiniteSet(finals)
  PROVE  /\ IsFiniteSet(OccurrencesOf(str, buckets, turns, finals))
         /\ \A o \in OccurrencesOf(str, buckets, turns, finals) : o.status \in Statuses
<1> DEFINE T == {j \in finals : TaskLines(str, buckets[j]) # {}}
           f == [k \in T |-> Occurrence(str, buckets[k], turns[k])]
<1>1. IsFiniteSet(T)
  BY FS_Subset
<1>2. OccurrencesOf(str, buckets, turns, finals) = {f[k] : k \in T}
  BY DEF OccurrencesOf
<1>3. \A k \in T : f[k].status \in Statuses
  BY OccurrenceStatus
<1>4. DOMAIN f = T
  OBVIOUS
<1> HIDE DEF f, T
<1>5. IsFiniteSet({f[k] : k \in T})
  BY <1>1, <1>4, FiniteImage
<1> QED BY <1>2, <1>3, <1>5

\* A line that is correlated adds finitely many.
LEMMA CorrelateFinite ==
  ASSUME NEW S, S \subseteq AllLines, NEW str \in Seq(S), NEW r \in S,
         NEW cor, CorrelatorInv(cor, str), IsFiniteSet(cor.occurrences),
         \A o \in cor.occurrences : o.status \in Statuses
  PROVE  /\ IsFiniteSet(CorrelateLine(cor, str, r).occurrences)
         /\ \A o \in CorrelateLine(cor, str, r).occurrences : o.status \in Statuses
<1> DEFINE cor2 == CorrelateLine(cor, str, r)
<1>1. CASE r.kind = "drift"
  BY <1>1 DEF CorrelateLine
<1>2. CASE r.kind # "drift"
  <2>1. PICK buckets, turns, finals :
          /\ cor2.occurrences = cor.occurrences \cup OccurrencesOf(Append(str, r), buckets, turns, finals)
          /\ finals = NewlyFinal(cor.acc, cor2.acc)
    BY <1>2 DEF CorrelateLine, CorrelateRecord
  <2>2. IsAccumulator(cor2.acc)
    BY CorrelateLineStep DEF CorrelatorInv, FeedInv, AccInv
  <2> HIDE DEF cor2
  <2>3. IsFiniteSet(finals)
    BY <2>1, <2>2, FinalsFinite
  <2> DEFINE more == OccurrencesOf(Append(str, r), buckets, turns, finals)
  <2>4. IsFiniteSet(more) /\ \A o \in more : o.status \in Statuses
    BY <2>3, OccurrencesOfFinite
  <2> HIDE DEF more
  <2>5. IsFiniteSet(cor.occurrences \cup more)
    BY <2>4, FS_Union
  <2>6. IsFiniteSet(cor2.occurrences) /\ \A o \in cor2.occurrences : o.status \in Statuses
    BY <2>1, <2>4, <2>5 DEF more
  <2> QED BY <2>6 DEF cor2
<1> QED BY <1>1, <1>2

\* So are those reported at the end of a read, and their summary.
LEMMA OccurrencesFinite ==
  ASSUME NEW S, S \subseteq AllLines, NEW str \in Seq(S), NEW cor, CorrelatorInv(cor, str),
         IsFiniteSet(cor.occurrences), \A o \in cor.occurrences : o.status \in Statuses
  PROVE  /\ IsFiniteSet(Occurrences(cor, str))
         /\ Lifecycle(cor, str).status \in Statuses
<1> DEFINE occs == Occurrences(cor, str)
           all == Collected(cor, str)
           f == [o \in all |-> SchemaIntegrity(str, o)]
<1>1. occs = {f[o] : o \in all}
  BY OpenFacts
<1>2. IsFiniteSet(all) /\ \A o \in all : o.status \in Statuses
  <2>1. OpenOccurrence(cor, str).status \in Statuses
    BY OccurrenceStatus DEF OpenOccurrence
  <2>2. IsFiniteSet(cor.occurrences \cup {OpenOccurrence(cor, str)})
    BY FS_AddElement
  <2>3. all = cor.occurrences \/ all = cor.occurrences \cup {OpenOccurrence(cor, str)}
    BY DEF Collected
  <2> HIDE DEF all
  <2> QED BY <2>1, <2>2, <2>3
<1>3. \A o \in all : f[o].status \in Statuses
  <2> SUFFICES ASSUME NEW o \in all PROVE f[o].status \in Statuses
    OBVIOUS
  <2>1. IsOccurrence(o) /\ o.status \in Statuses
    BY <1>2, CollectedFacts
  <2>2. SchemaIntegrity(str, o) = o \/ SchemaIntegrity(str, o).status = "unavailable"
    BY <2>1, IntegrityFacts
  <2> QED BY <2>1, <2>2 DEF Statuses
<1>4. DOMAIN f = all
  OBVIOUS
<1> HIDE DEF f, all, occs
<1>5. IsFiniteSet(occs) /\ \A x \in occs : x.status \in Statuses
  BY <1>1, <1>2, <1>3, <1>4, FiniteImage
<1>6. Lifecycle(cor, str).status \in Statuses
  <2>1. occs # {} => LastBy(occs, MarkerOf) \in occs
    BY LatestFacts DEF occs
  <2>2. \/ Lifecycle(cor, str).status \in {"complete", "unavailable", "pending"}
        \/ occs # {} /\ Lifecycle(cor, str).status = LastBy(occs, MarkerOf).status
    BY DEF Lifecycle, occs
  <2> QED BY <1>5, <2>1, <2>2 DEF Statuses
<1> QED BY <1>5, <1>6 DEF occs

\* A dispatch that has one occurrence, and that a complete one, is the clean
\* turn that was handed the task, and no user message outside it names the task.
SoleTurn(cor, str, x) ==
  /\ x.marker \in DOMAIN str /\ IsWhole(x, str, {})
  /\ \A k \in DOMAIN str : IsTask(str[k]) => k > x.start /\ k < x.terminal
  /\ Lifecycle(cor, str).certifiable <=> Certifiable(x)
  /\ (\E body \in Bodies : <<x.marker, x.terminal, body>> \in Answers(str)) => Certifiable(x)
  /\ Certifiable(x) => \E body \in Bodies : <<x.marker, x.terminal, body>> \in Answers(str)
  /\ Freshness(cor, str) = IF ~Certifiable(x) THEN "unavailable"
                           ELSE IF \E k \in GapsOf(str) : k > x.terminal THEN "unavailable"
                           ELSE "complete"

LEMMA SoleFacts ==
  ASSUME NEW S, S \subseteq AllLines, NEW str \in Seq(S), NEW cor, CorrelatorInv(cor, str),
         \A x, y \in Occurrences(cor, str) : x = y,
         Lifecycle(cor, str).status = "complete"
  PROVE  \E x : SoleTurn(cor, str, x)
<1> DEFINE occs == Occurrences(cor, str)
<1>1. PICK x \in occs : x.status = "complete"
  BY LifecycleFacts
<1>2. occs = {x}
  BY <1>1
<1>3. occs = {SchemaIntegrity(str, p) : p \in Collected(cor, str)}
  BY OpenFacts
<1>4. PICK o \in Collected(cor, str) : x = SchemaIntegrity(str, o)
  BY <1>1, <1>3
<1>5. /\ x = o /\ o \in cor.occurrences /\ x.terminal \in 1 .. Len(str)
      /\ x.start = 0 \/ ~\E d \in DriftOf(str) : d > x.start /\ (x.terminal = 0 \/ d < x.terminal)
  <2>1. IsOccurrence(o)
    BY CollectedFacts
  <2>2. x = o
    BY <1>1, <1>4, <2>1, IntegrityFacts
  <2>3. o \in cor.occurrences /\ o.terminal \in 1 .. Len(str)
    BY <1>1, <2>2, CollectedFacts
  <2>4. ~(x.start # 0 /\ \E d \in DriftOf(str) : d > x.start /\ (x.terminal = 0 \/ d < x.terminal))
    BY <1>1, <1>4, <2>1, <2>2, IntegrityFacts
  <2> QED BY <2>2, <2>3, <2>4
<1> HIDE DEF occs
<1>6. IsWhole(x, str, {"drift"})
  BY <1>1, <1>5 DEF CorrelatorInv, HandedInv
<1>7. /\ x.start \in 1 .. Len(str) /\ x.terminal \in 1 .. Len(str) /\ Len(str) \in Nat
      /\ <<x.start, x.terminal>> \in CleanTurns(str, {"drift"})
      /\ str[x.terminal].kind = "task_complete"
      /\ IsHandover(str, x.start, x.marker, x.terminal)
  BY <1>6 DEF IsWhole, CleanTurns
<1>8. IsWhole(x, str, {})
  <2> DEFINE w == <<x.start, x.terminal>>
  <2>1. /\ DriftOf(str) \in SUBSET Nat
        /\ CleanTurns(str, {}) =
             {v \in CleanTurns(str, {"drift"}) :
                ~\E d \in DriftOf(str) : v[1] < d /\ (v[2] = 0 \/ d < v[2])}
    BY DriftCut
  <2>2. ~\E d \in DriftOf(str) : x.start < d /\ (x.terminal = 0 \/ d < x.terminal)
    BY <1>5, <1>7, <2>1
  <2>3. w[1] = x.start /\ w[2] = x.terminal /\ w \in CleanTurns(str, {"drift"})
    BY <1>7
  <2> HIDE DEF w
  <2>4. w \in CleanTurns(str, {})
    BY <2>1, <2>2, <2>3
  <2> QED BY <1>7, <2>4 DEF IsWhole, w
<1>9. x.marker \in 1 .. Len(str) /\ x.start < x.marker /\ x.marker < x.terminal
  <2>1. x.marker \in 1 .. Len(str)
    BY <1>5 DEF CorrelatorInv, OrderInv
  <2> QED BY <1>7, <2>1 DEF IsHandover
\* A task line elsewhere would make an occurrence of its own.
<1>10. ASSUME NEW k \in DOMAIN str, IsTask(str[k])
       PROVE  k > x.start /\ k < x.terminal
  <2>1. k \notin LinesOf(cor.acc, cor.buckets)
    <3> SUFFICES ASSUME k \in LinesOf(cor.acc, cor.buckets) PROVE FALSE
      OBVIOUS
    <3> DEFINE q == OpenOccurrence(cor, str)
    <3>1. HasOpen(cor, str)
      BY <1>10 DEF HasOpen, LinesOf, TaskLines, OfKind, IsTask
    <3>2. IsOccurrence(q) /\ q.marker \in DOMAIN str /\ x.marker < q.marker
      BY <1>5, <3>1, OpenOccurrenceFacts DEF Before
    <3>3. SchemaIntegrity(str, q) \in occs
      BY <1>3, <3>1 DEF Collected
    <3> HIDE DEF q
    <3>4. q.marker = x.marker
      BY <1>2, <3>2, <3>3, IntegrityFacts
    <3> QED BY <1>9, <3>2, <3>4
  <2>2. PICK p \in cor.occurrences : p.marker <= k /\ (p.terminal = 0 \/ k <= p.terminal)
    BY <1>10, <2>1 DEF CorrelatorInv, HandedInv
  <2>3. p.marker = x.marker /\ p.terminal = x.terminal
    <3>1. p \in Collected(cor, str)
      BY DEF Collected
    <3>2. SchemaIntegrity(str, p) = x /\ IsOccurrence(p)
      BY <1>2, <1>3, <3>1, CollectedFacts
    <3> QED BY <3>2, IntegrityFacts
  <2>4. k # x.terminal
    BY <1>7, <1>10 DEF IsTask
  <2>5. k \in 1 .. Len(str)
    BY <1>10
  <2> QED BY <1>7, <1>9, <2>2, <2>3, <2>4, <2>5
\* An answer of the turn is its own.
<1>11. Certifiable(x) => \E body \in Bodies : <<x.marker, x.terminal, body>> \in Answers(str)
  <2> SUFFICES ASSUME Certifiable(x)
               PROVE  \E body \in Bodies : <<x.marker, x.terminal, body>> \in Answers(str)
    OBVIOUS
  <2>1. x \in AnswerOccurrences(str, {})
    BY <1>1, CertifiedFacts DEF CertifiedOf, occs
  <2>2. <<x.marker, x.terminal, x.text>> \in Answers(str) /\ x.text \in Bodies
    BY <2>1, AnswersFacts DEF AnswerOccurrences
  <2> QED BY <2>2
<1>12. (\E body \in Bodies : <<x.marker, x.terminal, body>> \in Answers(str)) => Certifiable(x)
  <2> SUFFICES ASSUME NEW body, <<x.marker, x.terminal, body>> \in Answers(str)
               PROVE  Certifiable(x)
    OBVIOUS
  <2>1. AnswerOccurrences(str, {}) # {}
    BY AnswersFacts
  <2>2. CertifiedOf(cor, str) # {}
    BY <2>1, CertifiedFacts
  <2> QED BY <1>2, <2>2 DEF CertifiedOf, occs
<1>13. Lifecycle(cor, str).certifiable <=> Certifiable(x)
  <2> DEFINE done == {y \in occs : y.status = "complete"}
  <2>1. done = {x}
    BY <1>1, <1>2
  <2>2. LastBy({x}, TerminalOf) = x
    <3>1. x.terminal <= x.terminal
      BY <1>7
    <3>2. LastBy({x}, TerminalOf) = CHOOSE z \in {x} : \A p \in {x} : p.terminal <= z.terminal
      BY DEF LastBy, TerminalOf
    <3> QED BY <3>1, <3>2
  <2>3. done # {} => Lifecycle(cor, str) = [status |-> "complete",
                        certifiable |-> Certifiable(LastBy(done, TerminalOf))]
    BY DEF Lifecycle, occs
  <2> HIDE DEF done
  <2>4. Lifecycle(cor, str) = [status |-> "complete",
                        certifiable |-> Certifiable(LastBy(done, TerminalOf))]
    BY <2>1, <2>3
  <2>5. LastBy(done, TerminalOf) = x
    BY <2>1, <2>2
  <2>6. Lifecycle(cor, str).certifiable = Certifiable(LastBy(done, TerminalOf))
    BY <2>4
  <2> QED BY <2>5, <2>6
<1>14. Freshness(cor, str) = IF ~Certifiable(x) THEN "unavailable"
                             ELSE IF \E k \in GapsOf(str) : k > x.terminal THEN "unavailable"
                             ELSE "complete"
  <2> DEFINE latest == LastBy(occs, MarkerOf)
  <2>1. latest = x
    <3>1. LastBy(Occurrences(cor, str), MarkerOf) \in Occurrences(cor, str)
      BY <1>1, LatestFacts DEF occs
    <3> QED BY <1>2, <3>1 DEF occs
  <2>2. x.terminal # 0 /\ occs # {} /\ x.status # "pending"
    BY <1>1, <1>7
  <2>3. Freshness(cor, str) =
          IF occs = {} THEN "not-seen"
          ELSE IF ~Certifiable(latest)
          THEN IF latest.status = "pending" THEN "pending" ELSE "unavailable"
          ELSE IF \E k \in GapsOf(str) :
                    k > (IF latest.terminal # 0 THEN latest.terminal ELSE latest.marker)
               THEN "unavailable" ELSE "complete"
    BY DEF Freshness, occs
  <2> HIDE DEF latest
  <2> QED BY <2>1, <2>2, <2>3
<1>15. x.marker \in DOMAIN str
  BY <1>9
<1> QED BY <1>8, <1>10, <1>11, <1>12, <1>13, <1>14, <1>15 DEF SoleTurn

-----------------------------------------------------------------------------
(***************************************************************************)
(* The waiter: first what others do to it.                                 *)
(***************************************************************************)

\* What the constants say of the values in the state.
LEMMA OptionTypes ==
  TypeOK => /\ options.budget \in Nat /\ clock \in Nat /\ iteration \in Nat /\ started \in Nat
            /\ options.explicit \in BOOLEAN /\ options.scan \in BOOLEAN
            /\ options.fallback \in BOOLEAN
BY WaiterAssumption DEF TypeOK

LEMMA WaiterInit == Init => WaiterInv
<1> SUFFICES ASSUME Init PROVE WaiterInv
  OBVIOUS
<1>1. /\ records = <<>> /\ correlator = EmptyCorrelator /\ pc = "loop" /\ token = "none"
      /\ options.budget \in Nat /\ options \in Options /\ disk \in Seq(Lines)
      /\ candidate = 0 /\ cursor = NoCursor /\ certified = FALSE
  BY WaiterAssumption DEF Init
<1>2. CorrelatorInv(correlator, records)
  BY <1>1, CorrelatorInit
<1>3. IsFiniteSet(correlator.occurrences) /\ correlator.occurrences = {}
  BY <1>1, FS_EmptySet DEF EmptyCorrelator
<1>4. /\ cursor \in [offset : Nat, part : {0, 1}, size : Nat]
      /\ opened \in [lines : Seq(Lines), size : Nat]
      /\ looked \in [lines : Seq(Lines), file : 0 .. 2, successor : BOOLEAN]
      /\ ~looked.successor /\ ~certified /\ cursor.offset <= cursor.size
  BY <1>1 DEF Init, NoCursor, NotOpen, NoLook
<1>5. RecordsInv
  BY <1>2, <1>3, <1>4 DEF RecordsInv
<1>6. TypeOK
  <2>1. records \in Seq(Lines)
    BY <1>1
  <2>2. /\ torn \in BOOLEAN /\ successor \in BOOLEAN /\ rival \in BOOLEAN
        /\ moved \in BOOLEAN /\ certified \in BOOLEAN /\ readable \in BOOLEAN
        /\ timedOut \in BOOLEAN
    BY Zenon DEF Init
  <2>3. /\ changes \in 0 .. MaxChanges /\ clock \in 0 .. options.budget
        /\ iteration \in 0 .. options.budget /\ started \in 0 .. clock /\ candidate \in 0 .. 2
        /\ file \in 0 .. 2
    BY <1>1, WaiterAssumption DEF Init
  <2>4. /\ reply \in {"absent", "regular", "other"} /\ resolution = "missing"
        /\ seen = "absent" /\ source = "none" /\ pc \in Labels
    BY DEF Init, Labels
  <2> QED BY <1>1, <1>4, <2>1, <2>2, <2>3, <2>4 DEF TypeOK
<1>7. StageInv /\ LookInv /\ TimeInv
  BY <1>1, <1>4 DEF Init, StageInv, LookInv, TimeInv, Checking, Resolving
<1>8. VerdictIsCurrent /\ DoneIsOwnTurn /\ PendingIsHonest
  BY <1>1 DEF VerdictIsCurrent, DoneIsOwnTurn, PendingIsHonest, Determinations
<1> QED BY <1>5, <1>6, <1>7, <1>8 DEF WaiterInv

\* Others change the files, and time passes; the waiter is where it was.
Others ==
  /\ pc # "done"
  /\ disk' \in Seq(Lines) /\ torn' \in BOOLEAN /\ file' \in 0 .. 2
  /\ successor' \in BOOLEAN /\ (successor => successor')
  /\ reply' \in {"absent", "regular", "other"} /\ rival' \in BOOLEAN /\ moved' \in BOOLEAN
  /\ changes' \in 0 .. MaxChanges
  /\ clock' \in 0 .. options.budget /\ clock <= clock'
  /\ pc' = pc /\ iteration' = iteration /\ started' = started
  /\ candidate' = candidate /\ options' = options
  /\ records' = records /\ correlator' = correlator /\ cursor' = cursor /\ opened' = opened
  /\ readable' = readable /\ timedOut' = timedOut /\ certified' = certified
  /\ resolution' = resolution /\ seen' = seen
  /\ token' = token /\ source' = source /\ looked' = looked

LEMMA WorldFacts == TypeOK /\ World => Others
<1> SUFFICES ASSUME TypeOK, World PROVE Others
  OBVIOUS
<1> USE DEF files, location, reading, answering, result
<1>1. /\ disk \in Seq(Lines) /\ torn \in BOOLEAN /\ file \in 0 .. 2
      /\ successor \in BOOLEAN /\ reply \in {"absent", "regular", "other"} /\ rival \in BOOLEAN
      /\ changes \in 0 .. MaxChanges /\ clock \in 0 .. options.budget
      /\ moved \in BOOLEAN /\ options.budget \in Nat /\ MaxChanges \in Nat
      /\ Written \subseteq Lines
  BY OptionTypes, WaiterAssumption DEF TypeOK
<1>2. ASSUME Change PROVE changes' \in 0 .. MaxChanges /\ pc # "done"
  BY <1>1, <1>2 DEF Change
<1>3. ASSUME Undisturbed, Change,
             UNCHANGED <<file, successor, reply, rival, moved>>,
             disk' \in Seq(Lines), torn' \in BOOLEAN
      PROVE  Others
  BY <1>1, <1>2, <1>3 DEF Undisturbed, Others
<1>4. ASSUME Undisturbed, Change, UNCHANGED disk,
             torn' \in BOOLEAN, file' \in 0 .. 2, successor' \in BOOLEAN,
             successor => successor', reply' \in {"absent", "regular", "other"},
             rival' \in BOOLEAN, moved' \in BOOLEAN
      PROVE  Others
  BY <1>1, <1>2, <1>4 DEF Undisturbed, Others
<1>5. CASE AppendLine
  <2>1. PICK r \in Written : disk' = Append(disk, r)
    BY <1>5 DEF AppendLine
  <2>2. disk' \in Seq(Lines)
    BY <1>1, <2>1
  <2>3. torn' \in BOOLEAN
    BY <1>5, Zenon DEF AppendLine
  <2> QED BY <1>3, <1>5, <2>2, <2>3 DEF AppendLine
<1>6. CASE AppendPart
  BY <1>1, <1>3, <1>6 DEF AppendPart
<1>7. CASE CreatePage \/ ReplacePage
  <2>1. Change /\ Undisturbed /\ file' \in 0 .. 2
        /\ UNCHANGED <<disk, torn, successor, reply, rival, moved>>
    BY <1>7 DEF CreatePage, ReplacePage
  <2> QED BY <1>1, <1>4, <2>1
<1>8. CASE TruncatePage
  <2>1. disk # <<>> => Front(disk) \in Seq(Lines)
    BY <1>1 DEF Front
  <2> QED BY <1>1, <1>3, <1>8, <2>1 DEF TruncatePage
<1>9. CASE RewritePage
  <2>1. \A k \in DOMAIN disk, r \in Written : [disk EXCEPT ![k] = r] \in Seq(Lines)
    BY <1>1
  <2> QED BY <1>1, <1>3, <1>9, <2>1 DEF RewritePage
<1>10. CASE NewPage
  BY <1>1, <1>4, <1>10 DEF NewPage
<1>11. CASE ReplyChanges
  <2>1. moved' \in BOOLEAN
    BY <1>11 DEF ReplyChanges
  <2> QED BY <1>1, <1>4, <1>11, <2>1 DEF ReplyChanges
<1>12. CASE RivalReply
  BY <1>1, <1>4, <1>12 DEF RivalReply
<1>13. CASE Tick
  BY <1>1, <1>13 DEF Tick, Others
<1> QED BY <1>5, <1>6, <1>7, <1>8, <1>9, <1>10, <1>11, <1>12, <1>13 DEF World

LEMMA WorldStep == WaiterInv /\ World => WaiterInv'
<1> SUFFICES ASSUME WaiterInv, World PROVE WaiterInv'
  OBVIOUS
<1>1. Others /\ TypeOK
  BY WorldFacts DEF WaiterInv
<1>2. TypeOK'
  <2>1. started \in 0 .. clock /\ options.budget \in Nat /\ clock \in Nat
    BY <1>1, OptionTypes DEF TypeOK
  <2>2. started' \in 0 .. clock'
    BY <1>1, <2>1 DEF Others
  <2> QED BY <1>1, <2>2 DEF TypeOK, Others
<1>3. RecordsInv'
  BY <1>1 DEF WaiterInv, RecordsInv, Others
<1>4. StageInv'
  BY <1>1 DEF WaiterInv, StageInv, Others, Standing, SingleShot
<1>5. LookInv'
  BY <1>1 DEF WaiterInv, LookInv, Others
<1>6. TimeInv'
  <2>1. clock <= clock' /\ clock' \in Nat /\ clock \in Nat /\ iteration \in Nat
    BY <1>1, OptionTypes DEF Others, TypeOK
  <2> QED BY <1>1, <2>1 DEF WaiterInv, TimeInv, Others
<1>7. VerdictIsCurrent' /\ DoneIsOwnTurn' /\ PendingIsHonest'
  <2>1. token' = "none"
    BY <1>1 DEF Others, TypeOK
  <2> QED BY <2>1 DEF VerdictIsCurrent, DoneIsOwnTurn, PendingIsHonest, Determinations
<1> QED BY <1>2, <1>3, <1>4, <1>5, <1>6, <1>7 DEF WaiterInv

-----------------------------------------------------------------------------
(***************************************************************************)
(* The steps of the waiter.                                                *)
(***************************************************************************)

\* What is decided, when the standing is known.
LEMMA VerdictFacts ==
  ASSUME WaiterInv, Standing.status # "unavailable"
  PROVE  /\ Verdict.token \in Determinations \cup {"pending", "unavailable"}
         /\ Verdict.source \in {"none", "reply-file", "rollout-fallback"}
         /\ Verdict.token = "pending" => Standing.status = "pending"
         /\ Verdict.token = "done" =>
              \E x : /\ SoleTurn(correlator, records, x)
                     /\ Certifiable(x) => Freshness(correlator, records) # "unavailable"
                     /\ Verdict.source = "rollout-fallback" => Certifiable(x)
<1>1. /\ records \in Seq(Lines) /\ Lines \subseteq AllLines /\ CorrelatorInv(correlator, records)
      /\ IsFiniteSet(correlator.occurrences)
      /\ \A o \in correlator.occurrences : o.status \in Statuses
      /\ seen \in {"absent", "invalid", "valid"}
  BY WaiterAssumption DEF WaiterInv, RecordsInv, TypeOK
<1>2. IsFiniteSet(Occurred) /\ Standing.status \in Statuses
  BY <1>1, OccurrencesFinite DEF Occurred, Standing
<1>3. ASSUME ~Reused PROVE \A x, y \in Occurred : x = y
  <2>1. Cardinality(Occurred) \in Nat /\ ~(Cardinality(Occurred) > 1)
    BY <1>2, <1>3, FS_CardinalityType DEF Reused
  <2>2. CASE Cardinality(Occurred) = 0
    BY <1>2, <2>2, FS_EmptySet
  <2>3. CASE Cardinality(Occurred) = 1
    BY <1>2, <2>3, FS_Singleton
  <2> QED BY <2>1, <2>2, <2>3
<1>4. ASSUME ~Reused, Standing.status = "complete"
      PROVE  \E x : SoleTurn(correlator, records, x)
  BY <1>1, <1>3, <1>4, SoleFacts DEF Occurred, Standing
<1> DEFINE says(t) == [token |-> t, source |-> "none"]
           unresolved == resolution \in {"ambiguous", "unavailable"}
           fresh == Freshness(correlator, records)
<1>5. CASE Reused
  <2>1. Verdict = says("unavailable")
    BY <1>5 DEF Verdict
  <2> QED BY <2>1 DEF Determinations
<1>6. CASE ~Reused /\ Standing.status \in {"aborted", "superseded"}
  <2>1. Verdict = says(Standing.status)
    BY <1>6 DEF Verdict
  <2> QED BY <1>6, <2>1 DEF Determinations
<1>7. CASE ~Reused /\ Standing.status = "pending"
  <2>1. Verdict = says(IF unresolved THEN "unavailable" ELSE "pending")
    BY <1>7 DEF Verdict
  <2> QED BY <1>7, <2>1 DEF Determinations
<1>8. CASE ~Reused /\ Standing.status = "complete"
  <2>1. Verdict =
          IF unresolved THEN says("unavailable")
          ELSE IF seen = "valid"
          THEN IF OpaqueTail THEN says("unavailable")
               ELSE [token |-> "done", source |-> "reply-file"]
          ELSE IF seen = "invalid" THEN says("reply-missing")
          ELSE IF options.fallback /\ Standing.certifiable THEN Fallback
          ELSE says("reply-missing")
    BY <1>8 DEF Verdict
  <2>2. PICK x : SoleTurn(correlator, records, x)
    BY <1>4, <1>8
  <2>3. /\ Standing.certifiable <=> Certifiable(x)
        /\ fresh \in {"unavailable", "complete"}
        /\ fresh = "complete" => Certifiable(x)
    BY <2>2 DEF SoleTurn, Standing
  <2>4. Fallback = IF fresh = "complete" THEN [token |-> "done", source |-> "rollout-fallback"]
                   ELSE says("unavailable")
    BY <2>3 DEF Fallback
  <2>5. OpaqueTail <=> Certifiable(x) /\ fresh = "unavailable"
    BY <2>3 DEF OpaqueTail
  <2>6. /\ Verdict.token \in {"done", "unavailable", "reply-missing"}
        /\ Verdict.source \in {"none", "reply-file", "rollout-fallback"}
    BY <2>1, <2>4
  <2>7. Verdict.token = "done" =>
          /\ Certifiable(x) => fresh # "unavailable"
          /\ Verdict.source = "rollout-fallback" => Certifiable(x)
    BY <2>1, <2>3, <2>4, <2>5
  <2> QED BY <2>2, <2>6, <2>7 DEF Determinations
<1> QED BY <1>2, <1>5, <1>6, <1>7, <1>8 DEF Statuses

\* What every step leaves alone, and what holds where it starts.
LEMMA StepStays ==
  ASSUME TypeOK, Step
  PROVE  /\ UNCHANGED <<disk, torn, file, successor, reply, rival, changes, clock, options>>
         /\ pc # "done" /\ token = "none"
         /\ pc' # "done" => token' = "none" /\ source' = source
<1> USE DEF FilesStay, files, location, reading, answering, result
<1>1. pc # "done" => token = "none"
  BY DEF TypeOK
<1>2. \A t, s : Report(t, s) => pc' = "done"
  BY DEF Report
<1>3. \A label : Goto(label) => token' = token /\ source' = source
  BY DEF Goto
<1>4. CASE StartIteration
  BY <1>1, <1>2, <1>3, <1>4 DEF StartIteration, OutOfLoop
<1>5. CASE Locate
  BY <1>1, <1>2, <1>3, <1>5 DEF Locate
<1>6. CASE Poll
  BY <1>1, <1>2, <1>3, <1>6 DEF Poll
<1>7. CASE OpenRead \/ ReadLine \/ EndRead \/ ReadFails \/ ReadTimesOut
  BY <1>1, <1>2, <1>3, <1>7 DEF OpenRead, ReadLine, EndRead, ReadFails, ReadTimesOut
<1>8. CASE AssessPage \/ AssessSuccessors
  BY <1>1, <1>2, <1>3, <1>8 DEF AssessPage, AssessSuccessors
<1>9. CASE Resolve \/ StatReply \/ OpenReply \/ Decide
  BY <1>1, <1>2, <1>3, <1>9 DEF Resolve, StatReply, OpenReply, Decide
<1>10. CASE EndIteration \/ Wake
  BY <1>1, <1>2, <1>3, <1>10 DEF EndIteration, Wake, OutOfLoop
<1> QED BY <1>4, <1>5, <1>6, <1>7, <1>8, <1>9, <1>10 DEF Step

\* The types, action by action.
LEMMA StepTypes == WaiterInv /\ Step => TypeOK'
<1> SUFFICES ASSUME WaiterInv, Step PROVE TypeOK'
  OBVIOUS
<1> USE DEF FilesStay, files, location, reading, answering, result, Goto, Report
<1>1. TypeOK /\ RecordsInv /\ TimeInv
  BY DEF WaiterInv
<1>2. /\ UNCHANGED <<disk, torn, file, successor, reply, rival, changes, clock, options>>
      /\ pc # "done" /\ token = "none"
  BY <1>1, StepStays
<1>3. /\ options.budget \in Nat /\ clock \in Nat /\ iteration \in Nat /\ started \in Nat
  BY <1>1, OptionTypes
\* It is enough to look at what may have changed.
<1> DEFINE Rest ==
      /\ pc' \in Labels
      /\ iteration' \in 0 .. options.budget /\ started' \in 0 .. clock
      /\ candidate' \in 0 .. 2 /\ records' \in Seq(Lines)
      /\ (cursor' # NoCursor /\ pc' \notin {"reading", "done"} =>
            cursor'.offset = 2 * (Len(records') + 1) + cursor'.part)
      /\ cursor'.offset <= cursor'.size
      /\ certified' \in BOOLEAN /\ readable' \in BOOLEAN /\ timedOut' \in BOOLEAN
      /\ resolution' \in {"main", "rival", "missing", "ambiguous", "unavailable"}
      /\ moved' \in BOOLEAN /\ seen' \in {"absent", "invalid", "valid"}
      /\ token' \in Determinations \cup {"none", "pending", "unavailable"}
      /\ source' \in {"none", "reply-file", "rollout-fallback"}
      /\ (pc' = "done" <=> token' # "none")
<1>4. SUFFICES Rest
  BY <1>1, <1>2 DEF TypeOK
<1>5. /\ iteration \in 0 .. options.budget /\ started \in 0 .. clock
      /\ candidate \in 0 .. 2 /\ records \in Seq(Lines) /\ disk \in Seq(Lines)
      /\ (cursor # NoCursor /\ pc # "reading" =>
            cursor.offset = 2 * (Len(records) + 1) + cursor.part)
      /\ cursor.offset <= cursor.size
      /\ certified \in BOOLEAN /\ readable \in BOOLEAN /\ timedOut \in BOOLEAN
      /\ resolution \in {"main", "rival", "missing", "ambiguous", "unavailable"}
      /\ moved \in BOOLEAN /\ seen \in {"absent", "invalid", "valid"}
      /\ source \in {"none", "reply-file", "rollout-fallback"}
      /\ file \in 0 .. 2
  BY <1>1, <1>2 DEF TypeOK
<1>6. ASSUME UNCHANGED <<records, cursor>>, pc = "reading" => pc' = "done"
      PROVE  /\ records' \in Seq(Lines) /\ cursor'.offset <= cursor'.size
             /\ (cursor' # NoCursor /\ pc' \notin {"reading", "done"} =>
                   cursor'.offset = 2 * (Len(records') + 1) + cursor'.part)
  BY <1>5, <1>6
<1> USE DEF Labels, Determinations
<1>7. CASE StartIteration
  BY <1>2, <1>3, <1>5, <1>6, <1>7 DEF StartIteration, OutOfLoop
<1>8. CASE Locate
  BY <1>2, <1>5, <1>6, <1>8 DEF Locate
<1>9. CASE Poll
  <2>1. certified' \in BOOLEAN
    BY <1>5, <1>9, Zenon DEF Poll
  <2> QED BY <1>2, <1>5, <1>6, <1>9, <2>1 DEF Poll
<1>10. CASE OpenRead
  BY <1>2, <1>5, <1>10 DEF OpenRead
<1>11. CASE ReadLine
  <2>1. records' \in Seq(Lines)
    BY <1>2, <1>5, <1>11 DEF ReadLine
  <2> QED BY <1>2, <1>5, <1>11, <2>1 DEF ReadLine
<1>12. CASE EndRead
  <2>1. PICK part \in {0, 1} : cursor' = CursorAt(part)
    BY <1>12 DEF EndRead
  <2>2. cursor'.offset = 2 * (Len(records) + 1) + part /\ cursor'.part = part /\ cursor'.size = Size
    BY <2>1 DEF CursorAt
  <2>3. cursor'.offset <= cursor'.size
    <3>1. Size \in Nat /\ opened.size \in Nat
      BY <1>1, <1>5 DEF Size, RecordsInv
    <3> QED BY <1>12, <2>2, <3>1 DEF EndRead
  <2>4. certified' \in BOOLEAN /\ readable' \in BOOLEAN
    <3>1. certified' = AtCompleteEof(cursor') /\ readable' = TRUE
      BY <1>12 DEF EndRead
    <3> QED BY <3>1, Zenon DEF AtCompleteEof
  <2>5. pc' \in {"page", "tail"} /\ token' = token /\ source' = source
    BY <1>12 DEF EndRead
  <2> QED BY <1>2, <1>5, <1>12, <2>2, <2>3, <2>4, <2>5 DEF EndRead
<1>13. CASE ReadFails
  BY <1>2, <1>5, <1>6, <1>13 DEF ReadFails
<1>14. CASE ReadTimesOut
  <2>1. timedOut' \in BOOLEAN
    BY <1>14, Zenon DEF ReadTimesOut
  <2> QED BY <1>2, <1>5, <1>6, <1>14, <2>1 DEF ReadTimesOut
<1>15. CASE AssessPage
  BY <1>2, <1>5, <1>6, <1>15 DEF AssessPage
<1>16. CASE AssessSuccessors
  <2>1. /\ UNCHANGED <<iteration, started, location, reading, certified, answering, moved>>
        /\ \/ pc' \in {"resolve", "tail"} /\ token' = token /\ source' = source
           \/ pc' = "done" /\ token' = "unavailable" /\ source' = "none"
    BY <1>16 DEF AssessSuccessors, Goto, Report
  <2>2. pc = "reading" => pc' = "done"
    BY <1>16 DEF AssessSuccessors
  <2> QED BY <1>2, <1>5, <1>6, <2>1, <2>2
<1>17. CASE Resolve
  <2>1. Resolutions \subseteq {"main", "rival", "missing", "ambiguous", "unavailable"}
    BY DEF Resolutions
  <2> QED BY <1>2, <1>5, <1>6, <1>17, <2>1 DEF Resolve
<1>18. CASE StatReply
  <2>1. moved' \in BOOLEAN
    BY <1>18, Zenon DEF StatReply
  <2> QED BY <1>2, <1>5, <1>6, <1>18, <2>1 DEF StatReply
<1>19. CASE OpenReply
  BY <1>2, <1>5, <1>6, <1>19 DEF OpenReply
<1>20. CASE Decide
  <2>1. Standing.status # "unavailable"
    BY <1>20 DEF WaiterInv, StageInv, Decide
  <2>2. /\ Verdict.token \in Determinations \cup {"pending", "unavailable"}
        /\ Verdict.source \in {"none", "reply-file", "rollout-fallback"}
    BY <2>1, VerdictFacts
  <2>3. \/ pc' = "tail" /\ token' = token /\ source' = source
        \/ pc' = "done" /\ token' = Verdict.token /\ source' = Verdict.source
    BY <1>20 DEF Decide
  <2> QED BY <1>2, <1>5, <1>6, <1>20, <2>2, <2>3 DEF Decide
<1>21. CASE EndIteration
  <2>1. moved' \in BOOLEAN /\ certified' \in BOOLEAN
    BY <1>21, Zenon DEF EndIteration
  <2> QED BY <1>2, <1>3, <1>5, <1>6, <1>21, <2>1 DEF EndIteration, OutOfLoop
<1>22. CASE Wake
  <2>1. iteration' \in 0 .. options.budget
    BY <1>1, <1>3, <1>22 DEF Wake, TimeInv
  <2> QED BY <1>2, <1>5, <1>6, <1>22, <2>1 DEF Wake
<1> QED BY <1>7, <1>8, <1>9, <1>10, <1>11, <1>12, <1>13, <1>14, <1>15, <1>16, <1>17, <1>18,
           <1>19, <1>20, <1>21, <1>22 DEF Step

\* What has been read and correlated, and where the read stands.
LEMMA StepRecords == WaiterInv /\ Step => RecordsInv'
<1> SUFFICES ASSUME WaiterInv, Step PROVE RecordsInv'
  OBVIOUS
<1> USE DEF FilesStay, files, location, reading, answering, result
<1>1. TypeOK /\ RecordsInv
  BY DEF WaiterInv
<1>2. UNCHANGED <<disk, torn, file, successor, reply, rival, changes, clock, options>>
  BY <1>1, StepStays
<1>3. /\ disk \in Seq(Lines) /\ records \in Seq(Lines) /\ torn \in BOOLEAN
      /\ file \in 0 .. 2 /\ successor \in BOOLEAN
      /\ Size \in Nat /\ Lines \subseteq AllLines
  BY <1>1, WaiterAssumption DEF TypeOK, Size
<1>4. ASSUME UNCHANGED <<cursor, opened, looked, records, correlator>>
      PROVE  RecordsInv'
  BY <1>1, <1>4 DEF RecordsInv
<1>5. CASE OpenRead
  <2>1. opened' \in [lines : Seq(Lines), size : Nat]
    BY <1>3, <1>5 DEF OpenRead
  <2> QED BY <1>1, <1>5, <2>1 DEF RecordsInv, OpenRead
<1>6. CASE ReadLine
  <2> DEFINE r == disk[Len(records) + 1]
  <2>1. r \in Lines
    BY <1>3, <1>6 DEF ReadLine
  <2>2. /\ records' = Append(records, r) /\ correlator' = CorrelateLine(correlator, records, r)
        /\ UNCHANGED <<cursor, opened, looked>>
    BY <1>6 DEF ReadLine
  <2>3. /\ CorrelatorInv(correlator, records) /\ IsFiniteSet(correlator.occurrences)
        /\ \A o \in correlator.occurrences : o.status \in Statuses
    BY <1>1 DEF RecordsInv
  <2> HIDE DEF r
  <2>4. CorrelatorInv(correlator', records')
    BY <1>3, <2>1, <2>2, <2>3, CorrelateLineStep
  <2>5. /\ IsFiniteSet(CorrelateLine(correlator, records, r).occurrences)
        /\ \A o \in CorrelateLine(correlator, records, r).occurrences : o.status \in Statuses
    BY <1>3, <2>1, <2>3, CorrelateFinite
  <2>6. /\ IsFiniteSet(correlator'.occurrences)
        /\ \A o \in correlator'.occurrences : o.status \in Statuses
    BY <2>2, <2>5
  <2> QED BY <1>1, <2>2, <2>4, <2>6 DEF RecordsInv
<1>7. CASE EndRead
  <2>1. PICK part \in {0, 1} : cursor' = CursorAt(part)
    BY <1>7 DEF EndRead
  <2>2. cursor' \in [offset : Nat, part : {0, 1}, size : Nat]
    BY <1>3, <2>1 DEF CursorAt
  <2>3. opened' \in [lines : Seq(Lines), size : Nat]
    BY <1>7 DEF EndRead, NotOpen
  <2> QED BY <1>1, <1>7, <2>2, <2>3 DEF RecordsInv, EndRead
<1>8. CASE AssessPage
  <2>1. looked' \in [lines : Seq(Lines), file : 0 .. 2, successor : BOOLEAN]
    BY <1>3, <1>8 DEF AssessPage
  <2> QED BY <1>1, <1>8, <2>1 DEF RecordsInv, AssessPage
<1>9. CASE EndIteration
  <2>1. looked' \in [lines : Seq(Lines), file : 0 .. 2, successor : BOOLEAN]
    BY <1>9 DEF EndIteration, NoLook
  <2> QED BY <1>1, <1>9, <2>1 DEF RecordsInv, EndIteration
<1>10. CASE \/ StartIteration \/ Locate \/ Poll \/ ReadFails \/ ReadTimesOut
            \/ AssessSuccessors \/ Resolve \/ StatReply \/ OpenReply \/ Decide \/ Wake
  BY <1>4, <1>10 DEF StartIteration, Locate, Poll, ReadFails, ReadTimesOut, AssessSuccessors,
                     Resolve, StatReply, OpenReply, Decide, Wake
<1> QED BY <1>5, <1>6, <1>7, <1>8, <1>9, <1>10 DEF Step

\* Each stage of an iteration is reached from the one before it only.
LEMMA StepStage == WaiterInv /\ Step => StageInv'
<1> SUFFICES ASSUME WaiterInv, Step PROVE StageInv'
  OBVIOUS
<1> USE DEF FilesStay, files, location, reading, answering, result, Goto, Report,
            Checking, Resolving
<1>1. TypeOK /\ RecordsInv /\ StageInv
  BY DEF WaiterInv
<1>2. UNCHANGED <<disk, torn, file, successor, reply, rival, changes, clock, options>>
  BY <1>1, StepStays
<1>3. SingleShot' <=> SingleShot
  BY <1>2 DEF SingleShot
<1>4. UNCHANGED <<correlator, records>> => Standing' = Standing
  BY DEF Standing
<1>5. NoCursor = NoCursor' /\ ~AtCompleteEof(NoCursor)
  BY DEF NoCursor, AtCompleteEof
<1> USE DEF StageInv
<1>6. CASE StartIteration
  <2>1. pc' \in {"locate", "poll", "done"} /\ UNCHANGED <<candidate, cursor, certified>>
        /\ pc = "loop"
    BY <1>6 DEF StartIteration, OutOfLoop
  <2>2. (pc' = "locate" => candidate = 0) /\ (pc' = "poll" => candidate # 0)
    BY <1>6 DEF StartIteration, OutOfLoop
  <2> QED BY <1>1, <2>1, <2>2
<1>7. CASE Locate
  <2>1. cursor = NoCursor /\ ~certified /\ UNCHANGED <<cursor, certified>>
    BY <1>1, <1>7 DEF Locate
  <2>2. \/ pc' = "tail" /\ candidate' = 0
        \/ pc' = "done" /\ candidate' = 0
        \/ pc' = "poll" /\ candidate' # 0
    BY <1>1, <1>7 DEF Locate
  <2> QED BY <1>5, <2>1, <2>2
<1>8. CASE Poll
  <2>1. UNCHANGED <<candidate, cursor>> /\ candidate # 0 /\ ~certified
    BY <1>1, <1>8 DEF Poll
  <2>2. \/ ~certified' /\ pc' = "page" /\ ~SingleShot /\ AtCompleteEof(cursor)
        \/ certified' = certified /\ pc' = "read"
    BY <1>8 DEF Poll, MustRead, Unchanged
  <2> QED BY <1>3, <1>5, <2>1, <2>2
<1>9. CASE OpenRead \/ ReadLine
  BY <1>1, <1>9 DEF OpenRead, ReadLine
<1>10. CASE EndRead
  <2>1. /\ candidate # 0 /\ UNCHANGED candidate
        /\ certified' = AtCompleteEof(cursor')
        /\ pc' = IF AtCompleteEof(cursor') THEN "page" ELSE "tail"
    BY <1>1, <1>10 DEF EndRead
  <2>2. certified' <=> AtCompleteEof(cursor')
    BY <2>1
  <2>3. AtCompleteEof(cursor)' <=> AtCompleteEof(cursor')
    BY DEF AtCompleteEof, NoCursor
  <2> QED BY <2>1, <2>2, <2>3
<1>11. CASE ReadFails \/ ReadTimesOut
  BY <1>1, <1>11 DEF ReadFails, ReadTimesOut
<1>12. CASE AssessPage
  <2>1. /\ pc' \in {"successors", "done"} /\ pc = "page"
        /\ UNCHANGED <<candidate, cursor, certified, records, correlator>>
    BY <1>12 DEF AssessPage
  <2> QED BY <1>1, <1>3, <1>5, <2>1
<1>13. CASE AssessSuccessors
  <2>1. /\ \/ pc' = "done"
           \/ pc' = "resolve" /\ certified
           \/ pc' = "tail" /\ ~certified
        /\ pc = "successors"
        /\ UNCHANGED <<candidate, cursor, certified, records, correlator>>
    BY <1>13 DEF AssessSuccessors
  <2> QED BY <1>1, <1>3, <1>5, <2>1
<1>14. CASE Resolve
  <2>1. /\ pc' = "done" \/ (pc' \in {"stat", "decide"} /\ Standing.status # "unavailable")
        /\ pc = "resolve"
        /\ UNCHANGED <<candidate, cursor, certified, records, correlator>>
    BY <1>14 DEF Resolve
  <2> QED BY <1>1, <1>3, <1>4, <1>5, <2>1
<1>15. CASE StatReply \/ OpenReply
  <2>1. /\ pc' \in {"open", "decide"} /\ pc \in {"stat", "open"}
        /\ UNCHANGED <<candidate, cursor, certified, records, correlator>>
    BY <1>15 DEF StatReply, OpenReply
  <2> QED BY <1>1, <1>3, <1>4, <1>5, <2>1
<1>16. CASE Decide
  <2>1. /\ pc' = "done" \/ (pc' = "tail" /\ Verdict.token = "pending")
        /\ pc = "decide"
        /\ UNCHANGED <<candidate, cursor, certified, records, correlator>>
    BY <1>16 DEF Decide
  <2>2. Verdict.token = "pending" => Standing.status = "pending"
    BY <1>1, <2>1, VerdictFacts
  <2> QED BY <1>1, <1>3, <1>4, <1>5, <2>1, <2>2
<1>17. CASE EndIteration
  <2>1. /\ pc' \in {"sleep", "done"} /\ ~certified'
        /\ UNCHANGED <<candidate, cursor, records, correlator>>
    BY <1>17 DEF EndIteration, OutOfLoop
  <2> QED BY <1>1, <1>5, <2>1
<1>18. CASE Wake
  <2>1. /\ pc' = "loop" /\ pc = "sleep"
        /\ UNCHANGED <<candidate, cursor, certified, records, correlator>>
    BY <1>18 DEF Wake
  <2> QED BY <1>1, <1>5, <2>1
<1> QED BY <1>6, <1>7, <1>8, <1>9, <1>10, <1>11, <1>12, <1>13, <1>14, <1>15, <1>16, <1>17,
           <1>18 DEF Step

\* What the page check saw.
LEMMA StepLook == WaiterInv /\ Step => LookInv'
<1> SUFFICES ASSUME WaiterInv, Step PROVE LookInv'
  OBVIOUS
<1> USE DEF FilesStay, files, location, reading, answering, result, Goto, Report, Resolving
<1>1. TypeOK /\ LookInv
  BY DEF WaiterInv
<1>2. UNCHANGED <<disk, torn, file, successor, reply, rival, changes, clock, options>>
  BY <1>1, StepStays
<1>3. ASSUME UNCHANGED looked, pc' \notin {"successors"} \cup Resolving
      PROVE  LookInv'
  BY <1>1, <1>2, <1>3 DEF LookInv
<1>4. CASE \/ StartIteration \/ Locate \/ Poll \/ OpenRead \/ ReadLine \/ EndRead \/ ReadFails
           \/ ReadTimesOut \/ Wake
  BY <1>3, <1>4 DEF StartIteration, OutOfLoop, Locate, Poll, OpenRead, ReadLine, EndRead,
                    ReadFails, ReadTimesOut, Wake
<1>5. CASE AssessPage
  <2>1. /\ looked'.lines = disk /\ looked'.file = file /\ looked'.successor = successor
        /\ UNCHANGED <<candidate, cursor>>
        /\ pc' = "done" \/ (pc' = "successors" /\ file = candidate /\ Size = cursor.size)
    BY <1>5 DEF AssessPage
  <2>2. Size - 2 * (Len(disk) + 1) \in {0, 1}
    <3>1. Len(disk) \in Nat
      BY <1>1 DEF TypeOK
    <3> QED BY <3>1 DEF Size
  <2>3. pc' = "successors" => cursor'.size - 2 * (Len(looked'.lines) + 1) \in {0, 1}
    BY <2>1, <2>2
  <2> QED BY <1>2, <2>1, <2>3 DEF LookInv
<1>6. CASE AssessSuccessors
  <2>1. /\ pc' \in {"done", "tail"} \/ (pc' = "resolve" /\ ~successor)
        /\ UNCHANGED <<candidate, cursor, looked>> /\ pc = "successors"
    BY <1>6 DEF AssessSuccessors
  <2> QED BY <1>1, <1>2, <2>1 DEF LookInv
<1>7. CASE Resolve \/ StatReply \/ OpenReply \/ Decide
  <2>1. UNCHANGED <<candidate, cursor, looked>> /\ pc \in Resolving
    BY <1>7 DEF Resolve, StatReply, OpenReply, Decide
  <2>2. pc' \in Resolving \cup {"done", "tail"}
    BY <1>7 DEF Resolve, StatReply, OpenReply, Decide
  <2> QED BY <1>1, <1>2, <2>1, <2>2 DEF LookInv
<1>8. CASE EndIteration
  <2>1. ~looked'.successor /\ pc' \in {"sleep", "done"}
    BY <1>8 DEF EndIteration, OutOfLoop, NoLook
  <2> QED BY <2>1 DEF LookInv
<1> QED BY <1>4, <1>5, <1>6, <1>7, <1>8 DEF Step

\* An iteration takes an interval at least.
LEMMA StepTime == WaiterInv /\ Step => TimeInv'
<1> SUFFICES ASSUME WaiterInv, Step PROVE TimeInv'
  OBVIOUS
<1> USE DEF FilesStay, files, location, reading, answering, result, Goto, Report
<1>1. TypeOK /\ TimeInv
  BY DEF WaiterInv
<1>2. UNCHANGED <<disk, torn, file, successor, reply, rival, changes, clock, options>>
  BY <1>1, StepStays
<1>3. /\ options.budget \in Nat /\ clock \in Nat /\ iteration \in Nat /\ started \in Nat
  BY <1>1, OptionTypes
<1>4. ASSUME UNCHANGED iteration, pc' # "sleep"
      PROVE  TimeInv'
  BY <1>1, <1>2, <1>4 DEF TimeInv
<1>5. CASE EndIteration
  <2>1. \/ pc' = "done" /\ UNCHANGED iteration
        \/ pc' = "sleep" /\ UNCHANGED iteration /\ started' = clock /\ ~LastIteration
    BY <1>5 DEF EndIteration, OutOfLoop
  <2> QED BY <1>1, <1>2, <1>3, <2>1 DEF TimeInv, LastIteration
<1>6. CASE Wake
  BY <1>1, <1>2, <1>3, <1>6 DEF Wake, TimeInv
<1>7. CASE \/ StartIteration \/ Locate \/ Poll \/ OpenRead \/ ReadLine \/ EndRead \/ ReadFails
           \/ ReadTimesOut \/ AssessPage \/ AssessSuccessors
  BY <1>4, <1>7 DEF StartIteration, OutOfLoop, Locate, Poll, OpenRead, ReadLine, EndRead,
                    ReadFails, ReadTimesOut, AssessPage, AssessSuccessors
<1>8. CASE Resolve \/ StatReply \/ OpenReply \/ Decide
  BY <1>4, <1>8 DEF Resolve, StatReply, OpenReply, Decide
<1> QED BY <1>5, <1>6, <1>7, <1>8 DEF Step

-----------------------------------------------------------------------------
(***************************************************************************)
(* What is printed.                                                        *)
(***************************************************************************)

\* Where a determination is printed.
LEMMA WhereDetermined ==
  ASSUME TypeOK, Step, token' \in Determinations
  PROVE  Decide /\ token' = Verdict.token /\ source' = Verdict.source
<1> USE DEF result, Goto, Report, Determinations
<1>1. token = "none" /\ (pc' # "done" => token' = "none")
  BY StepStays
<1>2. CASE StartIteration \/ EndIteration
  BY <1>1, <1>2 DEF StartIteration, EndIteration, OutOfLoop
<1>3. CASE \/ Locate \/ Poll \/ OpenRead \/ ReadLine \/ EndRead \/ ReadFails
           \/ ReadTimesOut \/ AssessPage \/ AssessSuccessors
  BY <1>1, <1>3 DEF Locate, Poll, OpenRead, ReadLine, EndRead,
                    ReadFails, ReadTimesOut, AssessPage, AssessSuccessors
<1>4. CASE Resolve \/ StatReply \/ OpenReply \/ Wake
  BY <1>1, <1>4 DEF Resolve, StatReply, OpenReply, Wake
<1>5. CASE Decide
  BY <1>1, <1>5 DEF Decide
<1> QED BY <1>2, <1>3, <1>4, <1>5 DEF Step

\* Of sequences of one length, one is a prefix of the other only if they are
\* the same.
LEMMA SamePrefix ==
  ASSUME NEW S, NEW s \in Seq(S), NEW t \in Seq(S), IsPrefix(s, t), Len(s) = Len(t)
  PROVE  s = t
<1>1. SubSeq(s, 1, Len(s)) = s /\ SubSeq(t, 1, Len(t)) = t
  BY PrefixFacts
<1> QED BY <1>1 DEF IsPrefix

\* The page checked was read to its end, and is as long as what was read.
LEMMA StepCurrent == WaiterInv /\ Step => VerdictIsCurrent'
<1> SUFFICES ASSUME WaiterInv, Step, token' \in Determinations
             PROVE  /\ looked'.file = candidate' /\ ~looked'.successor
                    /\ IsPrefix(records', looked'.lines) => looked'.lines = records'
  BY DEF VerdictIsCurrent
<1>1. TypeOK /\ RecordsInv /\ StageInv /\ LookInv
  BY DEF WaiterInv
<1>2. Decide
  BY <1>1, WhereDetermined
<1>3. pc = "decide" /\ UNCHANGED <<candidate, records, cursor, looked>>
  BY <1>2 DEF Decide, location, reading
<1>4. /\ looked.file = candidate /\ ~looked.successor
      /\ cursor.size - 2 * (Len(looked.lines) + 1) \in {0, 1}
  BY <1>1, <1>3 DEF LookInv, Resolving
<1>5. /\ cursor # NoCursor /\ cursor.part = 0 /\ cursor.size = cursor.offset
      /\ cursor.offset = 2 * (Len(records) + 1) + cursor.part
  BY <1>1, <1>3 DEF StageInv, Resolving, AtCompleteEof, TypeOK
<1>6. looked.lines \in Seq(Lines) /\ records \in Seq(Lines)
  BY <1>1 DEF RecordsInv, TypeOK
<1>7. Len(looked.lines) = Len(records)
  <2>1. Len(looked.lines) \in Nat /\ Len(records) \in Nat
    BY <1>6
  <2> QED BY <1>4, <1>5, <2>1
<1>8. IsPrefix(records, looked.lines) => looked.lines = records
  BY <1>6, <1>7, SamePrefix
<1> QED BY <1>3, <1>4, <1>8

\* "done" rests on the only turn that was handed the task.
LEMMA StepDone == WaiterInv /\ Step => DoneIsOwnTurn'
<1> SUFFICES ASSUME WaiterInv, Step, token' = "done" PROVE DoneIsOwnTurn'
  BY DEF DoneIsOwnTurn
<1>1. TypeOK /\ StageInv
  BY DEF WaiterInv
<1>2. Decide /\ Verdict.token = "done" /\ source' = Verdict.source
  BY <1>1, WhereDetermined DEF Determinations
<1>3. records' = records /\ Standing.status # "unavailable"
  BY <1>1, <1>2 DEF Decide, reading, StageInv
<1>4. PICK x : /\ SoleTurn(correlator, records, x)
               /\ Certifiable(x) => Freshness(correlator, records) # "unavailable"
               /\ Verdict.source = "rollout-fallback" => Certifiable(x)
  BY <1>2, <1>3, VerdictFacts
<1> DEFINE s == x.start
           e == x.terminal
           m == x.marker
           turn == <<s, e>>
           answered == \E body \in Bodies : <<m, e, body>> \in Answers(records)
<1>5. /\ turn \in CleanTurns(records, {})
      /\ records[e].kind = "task_complete" /\ IsHandover(records, s, m, e)
  BY <1>4 DEF SoleTurn, IsWhole
<1>6. m \in DOMAIN records
  BY <1>4 DEF SoleTurn
<1>7. \A k \in DOMAIN records : IsTask(records[k]) => k > s /\ k < e
  BY <1>4 DEF SoleTurn
<1>8. answered <=> Certifiable(x)
  BY <1>4 DEF SoleTurn
<1>9. ASSUME Certifiable(x), NEW g \in GapsOf(records)
      PROVE  g < e
  <2>1. ~(g > e)
    BY <1>4, <1>9 DEF SoleTurn
  <2>2. g # e
    BY <1>5 DEF GapsOf
  <2>3. g \in Nat /\ e \in Nat
    <3>1. g \in DOMAIN records /\ e \in DOMAIN records
      BY <1>5 DEF GapsOf, CleanTurns
    <3>2. DOMAIN records = 1 .. Len(records) /\ Len(records) \in Nat
      BY <1>1 DEF TypeOK
    <3> QED BY <3>1, <3>2
  <2> QED BY <2>1, <2>2, <2>3
<1>10. turn[1] = s /\ turn[2] = e
  OBVIOUS
<1> HIDE DEF answered, turn
<1>11. \E t \in CleanTurns(records, {}), n \in DOMAIN records :
         /\ records[t[2]].kind = "task_complete"
         /\ IsHandover(records, t[1], n, t[2])
         /\ \A k \in DOMAIN records : IsTask(records[k]) => k > t[1] /\ k < t[2]
         /\ (\E body \in Bodies : <<n, t[2], body>> \in Answers(records)) =>
              \A g \in GapsOf(records) : g < t[2]
         /\ source' = "rollout-fallback" =>
              \E body \in Bodies : <<n, t[2], body>> \in Answers(records)
  <2> turn \in CleanTurns(records, {}) /\ m \in DOMAIN records
    BY <1>5, <1>6
  <2> WITNESS turn \in CleanTurns(records, {}), m \in DOMAIN records
  <2> QED BY <1>2, <1>4, <1>5, <1>7, <1>8, <1>9, <1>10 DEF answered
<1> QED BY <1>3, <1>11 DEF DoneIsOwnTurn

\* "pending" is printed when the time is over, or after a single look at a
\* dispatch that is pending.
LEMMA StepPending == WaiterInv /\ Step => PendingIsHonest'
<1> SUFFICES ASSUME WaiterInv, Step, token' = "pending" PROVE PendingIsHonest'
  BY DEF PendingIsHonest
<1> USE DEF files, location, reading, answering, result, Goto, Report
<1>1. TypeOK /\ StageInv /\ TimeInv
  BY DEF WaiterInv
<1>2. /\ UNCHANGED <<disk, torn, file, successor, reply, rival, changes, clock, options>>
      /\ token = "none" /\ (pc' # "done" => token' = "none")
  BY <1>1, StepStays
<1>3. /\ options.budget \in Nat /\ clock \in Nat /\ iteration \in Nat /\ started \in Nat
  BY <1>1, OptionTypes
<1>4. (SingleShot' <=> SingleShot) /\ (DeadlinePassed' <=> DeadlinePassed)
  BY <1>2 DEF SingleShot, DeadlinePassed
<1>5. DeadlinePassed => ~SingleShot
  BY DEF DeadlinePassed
<1>6. ASSUME candidate' # 0, DeadlinePassed PROVE PendingIsHonest'
  BY <1>4, <1>5, <1>6 DEF PendingIsHonest
<1>7. CASE StartIteration
  BY <1>2, <1>6, <1>7 DEF StartIteration, OutOfLoop
<1>8. CASE ReadTimesOut
  BY <1>1, <1>6, <1>8 DEF ReadTimesOut, StageInv
<1>9. CASE EndIteration
  <2>1. /\ pc = "tail" /\ candidate # 0 /\ UNCHANGED <<candidate, records, correlator, cursor>>
        /\ SingleShot \/ DeadlinePassed \/ LastIteration
    BY <1>2, <1>9 DEF EndIteration, OutOfLoop
  <2>2. CASE DeadlinePassed
    BY <1>6, <2>1, <2>2
  <2>3. CASE LastIteration /\ ~SingleShot
    <3>1. DeadlinePassed
      BY <1>1, <1>3, <2>3 DEF LastIteration, TimeInv, DeadlinePassed
    <3> QED BY <1>6, <2>1, <3>1
  <2>4. CASE SingleShot
    <3>1. AtCompleteEof(cursor) => Standing.status = "pending"
      BY <1>1, <2>1, <2>4 DEF StageInv
    <3>2. Standing' = Standing /\ (AtCompleteEof(cursor)' <=> AtCompleteEof(cursor))
      BY <2>1 DEF Standing, AtCompleteEof, NoCursor
    <3> QED BY <1>4, <2>1, <2>4, <3>1, <3>2 DEF PendingIsHonest
  <2> QED BY <2>1, <2>2, <2>3, <2>4
<1>10. CASE \/ Locate \/ Poll \/ OpenRead \/ ReadLine \/ EndRead \/ ReadFails
            \/ AssessPage \/ AssessSuccessors
  BY <1>2, <1>10 DEF Locate, Poll, OpenRead, ReadLine, EndRead,
                     ReadFails, AssessPage, AssessSuccessors
<1>11. CASE Resolve \/ StatReply \/ OpenReply \/ Wake
  BY <1>2, <1>11 DEF Resolve, StatReply, OpenReply, Wake
<1>12. CASE Decide
  BY <1>2, <1>12 DEF Decide
<1> QED BY <1>7, <1>8, <1>9, <1>10, <1>11, <1>12 DEF Step

-----------------------------------------------------------------------------
LEMMA WaiterStep == WaiterInv /\ [Next]_vars => WaiterInv'
<1> SUFFICES ASSUME WaiterInv, [Next]_vars PROVE WaiterInv'
  OBVIOUS
<1>1. CASE World
  BY <1>1, WorldStep
<1>2. CASE Step
  BY <1>2, StepTypes, StepRecords, StepStage, StepLook, StepTime, StepCurrent, StepDone,
     StepPending DEF WaiterInv
<1>3. CASE UNCHANGED vars
  <2> USE DEF vars, files, location, reading, answering, result
  <2>1. TypeOK' /\ RecordsInv'
    BY <1>3 DEF WaiterInv, TypeOK, RecordsInv
  <2>2. StageInv' /\ LookInv' /\ TimeInv'
    BY <1>3 DEF WaiterInv, StageInv, LookInv, TimeInv, Standing, SingleShot
  <2>3. VerdictIsCurrent' /\ DoneIsOwnTurn' /\ PendingIsHonest'
    BY <1>3 DEF WaiterInv, VerdictIsCurrent, DoneIsOwnTurn, PendingIsHonest, Standing,
                SingleShot, DeadlinePassed
  <2> QED BY <2>1, <2>2, <2>3 DEF WaiterInv
<1> QED BY <1>1, <1>2, <1>3 DEF Next

\* The strengthened invariant holds in every state of every wait.
THEOREM WaiterInvariant == Spec => []WaiterInv
BY WaiterInit, WaiterStep, PTL DEF Spec

\* Every variable of the waiter keeps its type; it is done exactly when it has
\* printed a token.
THEOREM TypesKept == Spec => []TypeOK
<1>1. WaiterInv => TypeOK
  BY DEF WaiterInv
<1> QED BY <1>1, WaiterInvariant, PTL

\* A determination rests on the whole of the page that was current when it was
\* checked (assessRolloutPageSupersession).
THEOREM CurrentCorrect == Spec => []VerdictIsCurrent
<1>1. WaiterInv => VerdictIsCurrent
  BY DEF WaiterInv
<1> QED BY <1>1, WaiterInvariant, PTL

\* "done" is said of the one clean turn that was handed the task and completed
\* (resolveCompletion).
THEOREM DoneCorrect == Spec => []DoneIsOwnTurn
<1>1. WaiterInv => DoneIsOwnTurn
  BY DEF WaiterInv
<1> QED BY <1>1, WaiterInvariant, PTL

\* "pending" is said when the time is over, or after a single look at a
\* dispatch that is pending.
THEOREM PendingHonest == Spec => []PendingIsHonest
<1>1. WaiterInv => PendingIsHonest
  BY DEF WaiterInv
<1> QED BY <1>1, WaiterInvariant, PTL
=============================================================================
