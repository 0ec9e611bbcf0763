----------------------------- MODULE ObserverProofs -----------------------------
(***************************************************************************)
(* Proofs about Observer, for rollouts of any length, any number of        *)
(* changes to them, and any budget and interval.                           *)
(***************************************************************************)
EXTENDS Observer, SequenceTheorems, TLAPS

USE ObserverAssumption

\* The program's labels.
Labels == {"loop", "locate", "attempt", "open", "reading", "page", "successors",
           "tail", "sleep", "done"}
Tokens == {"rollout-hit", "rollout-pending", "rollout-unavailable"}

-----------------------------------------------------------------------------
(***************************************************************************)
(* Lemmas about lines.                                                     *)
(***************************************************************************)

LEMMA HoldsAt ==
  ASSUME NEW s \in Seq(Kinds), NEW kind
  PROVE  Holds(s, kind) <=> \E k \in 1 .. Len(s) : s[k] = kind
BY DEF Holds

\* What the front of a front and the rest of it hold, the whole of it holds.
LEMMA HoldsJoined ==
  ASSUME NEW s \in Seq(Kinds), NEW front \in Seq(Kinds), NEW rest \in Seq(Kinds), NEW kind,
         Len(s) = Len(front) + Len(rest),
         \A k \in 1 .. Len(front) : s[k] = front[k],
         \A k \in 1 .. Len(rest) : s[Len(front) + k] = rest[k]
  PROVE  Holds(s, kind) <=> Holds(front, kind) \/ Holds(rest, kind)
<1>1. ASSUME NEW k \in 1 .. Len(s), s[k] = kind
      PROVE  Holds(front, kind) \/ Holds(rest, kind)
  <2>1. CASE k <= Len(front)
    BY <1>1, <2>1, HoldsAt
  <2>2. CASE k > Len(front)
    <3>1. k - Len(front) \in 1 .. Len(rest) /\ Len(front) + (k - Len(front)) = k
      BY <2>2
    <3>2. rest[k - Len(front)] = kind
      BY <1>1, <3>1
    <3> QED BY <3>1, <3>2, HoldsAt
  <2> QED BY <2>1, <2>2
<1>2. Holds(s, kind) => Holds(front, kind) \/ Holds(rest, kind)
  BY <1>1, HoldsAt
<1>3. ASSUME NEW k \in 1 .. Len(rest), rest[k] = kind PROVE Holds(s, kind)
  <2>1. Len(front) + k \in 1 .. Len(s) /\ s[Len(front) + k] = kind
    BY <1>3
  <2> QED BY <2>1, HoldsAt
<1>4. ASSUME NEW k \in 1 .. Len(front), front[k] = kind PROVE Holds(s, kind)
  <2>1. k \in 1 .. Len(s) /\ s[k] = kind
    BY <1>4
  <2> QED BY <2>1, HoldsAt
<1>5. Holds(front, kind) \/ Holds(rest, kind) => Holds(s, kind)
  BY <1>3, <1>4, HoldsAt
<1> QED BY <1>2, <1>5

LEMMA FrontType ==
  ASSUME NEW s \in Seq(Kinds), NEW m \in Nat, NEW n \in Nat, n <= Len(s)
  PROVE  /\ SubSeq(s, m + 1, n) \in Seq(Kinds)
         /\ Len(SubSeq(s, m + 1, n)) = IF m <= n THEN n - m ELSE 0
         /\ \A k \in 1 .. n - m : SubSeq(s, m + 1, n)[k] = s[m + k]
<1>1. \A i \in m + 1 .. n : s[i] \in Kinds
  BY ElementOfSeq
<1>2. \A i \in 1 .. n - m : (m + 1) + i - 1 = m + i
  OBVIOUS
<1>3. /\ SubSeq(s, m + 1, n) \in Seq(Kinds)
      /\ Len(SubSeq(s, m + 1, n)) = IF m + 1 <= n THEN n - (m + 1) + 1 ELSE 0
      /\ \A i \in 1 .. n - (m + 1) + 1 : SubSeq(s, m + 1, n)[i] = s[(m + 1) + i - 1]
  BY <1>1, SubSeqProperties
<1> QED BY <1>2, <1>3

LEMMA HoldsParts ==
  ASSUME NEW s \in Seq(Kinds), NEW n \in Nat, NEW m \in 0 .. n, n <= Len(s), NEW kind
  PROVE  Holds(SubSeq(s, 1, n), kind)
           <=> Holds(SubSeq(s, 1, m), kind) \/ Holds(SubSeq(s, m + 1, n), kind)
<1>1. /\ SubSeq(s, 1, n) \in Seq(Kinds) /\ Len(SubSeq(s, 1, n)) = n
      /\ \A k \in 1 .. n : SubSeq(s, 1, n)[k] = s[k]
  BY FrontType, 0 + 1 = 1
<1>2. /\ SubSeq(s, 1, m) \in Seq(Kinds) /\ Len(SubSeq(s, 1, m)) = m
      /\ \A k \in 1 .. m : SubSeq(s, 1, m)[k] = s[k]
  BY FrontType, 0 + 1 = 1
<1>3. /\ SubSeq(s, m + 1, n) \in Seq(Kinds) /\ Len(SubSeq(s, m + 1, n)) = n - m
      /\ \A k \in 1 .. n - m : SubSeq(s, m + 1, n)[k] = s[m + k]
  BY FrontType
<1>4. /\ Len(SubSeq(s, 1, n)) = Len(SubSeq(s, 1, m)) + Len(SubSeq(s, m + 1, n))
      /\ \A k \in 1 .. Len(SubSeq(s, 1, m)) : SubSeq(s, 1, n)[k] = SubSeq(s, 1, m)[k]
      /\ \A k \in 1 .. Len(SubSeq(s, m + 1, n)) :
           SubSeq(s, 1, n)[Len(SubSeq(s, 1, m)) + k] = SubSeq(s, m + 1, n)[k]
  BY <1>1, <1>2, <1>3
<1> DEFINE whole == SubSeq(s, 1, n)
           front == SubSeq(s, 1, m)
           rest == SubSeq(s, m + 1, n)
<1>5. /\ whole \in Seq(Kinds) /\ front \in Seq(Kinds) /\ rest \in Seq(Kinds)
      /\ Len(whole) = Len(front) + Len(rest)
      /\ \A k \in 1 .. Len(front) : whole[k] = front[k]
      /\ \A k \in 1 .. Len(rest) : whole[Len(front) + k] = rest[k]
  BY <1>1, <1>2, <1>3, <1>4
<1> HIDE DEF whole, front, rest
<1>6. Holds(whole, kind) <=> Holds(front, kind) \/ Holds(rest, kind)
  BY <1>5, HoldsJoined
<1> QED BY <1>6 DEF whole, front, rest

\* Lines read once and found again at the front of the file are its front.
LEMMA PrefixIsFront ==
  ASSUME NEW s \in Seq(Kinds), NEW t \in Seq(Kinds), IsPrefix(s, t)
  PROVE  Len(s) <= Len(t) /\ s = SubSeq(t, 1, Len(s))
<1>1. SubSeq(s, 1, Len(s)) = s
  BY SubSeqFull
<1> QED BY <1>1 DEF IsPrefix

LEMMA EqualPrefix ==
  ASSUME NEW s \in Seq(Kinds), NEW t \in Seq(Kinds), IsPrefix(s, t), Len(s) = Len(t)
  PROVE  s = t
BY PrefixIsFront, SubSeqFull

LEMMA SizeType ==
  ASSUME NEW s \in Seq(Kinds), NEW part \in {0, 1}
  PROVE  SizeOf(s, part) \in Nat
BY DEF SizeOf

\* The lines of a read, from where the one before stopped.
LEMMA ReadLines ==
  ASSUME TypeOK, IsPrefix(records, disk), NEW n \in Len(records) .. Len(disk)
  PROVE  /\ SubSeq(disk, 1, n) \in Seq(Kinds) /\ Len(SubSeq(disk, 1, n)) = n
         /\ \A kind : Holds(SubSeq(disk, 1, n), kind)
              <=> Holds(records, kind) \/ Holds(SubSeq(disk, Len(records) + 1, n), kind)
<1>1. records \in Seq(Kinds) /\ disk \in Seq(Kinds)
  BY DEF TypeOK
<1>2. /\ Len(records) \in 0 .. n /\ n \in Nat /\ n <= Len(disk)
      /\ records = SubSeq(disk, 1, Len(records))
  BY <1>1, PrefixIsFront
<1>3. SubSeq(disk, 1, n) \in Seq(Kinds) /\ Len(SubSeq(disk, 1, n)) = n
  BY <1>1, <1>2, FrontType, 0 + 1 = 1
<1>4. ASSUME NEW kind
      PROVE  Holds(SubSeq(disk, 1, n), kind)
               <=> Holds(records, kind) \/ Holds(SubSeq(disk, Len(records) + 1, n), kind)
  <2>1. Holds(SubSeq(disk, 1, n), kind)
          <=> Holds(SubSeq(disk, 1, Len(records)), kind)
              \/ Holds(SubSeq(disk, Len(records) + 1, n), kind)
    BY <1>1, <1>2, HoldsParts
  <2> QED BY <1>2, <2>1, Zenon
<1> QED BY <1>3, <1>4

-----------------------------------------------------------------------------
(***************************************************************************)
(* Types.                                                                  *)
(***************************************************************************)

\* The types of the world's part of the state and of the program's.
FilesType ==
  /\ disk \in Seq(Kinds) /\ torn \in BOOLEAN /\ file \in 0 .. 2 /\ successor \in BOOLEAN
  /\ changes \in Nat /\ clock \in Nat

ProgramType ==
  /\ options \in Options /\ pc \in Labels
  /\ iteration \in Nat /\ started \in Nat /\ candidate \in 0 .. 2
  /\ records \in Seq(Kinds) /\ attempt \in {"read", "skipped"}
  /\ cursor \in [offset : Nat, part : {0, 1}, size : Nat]
  /\ opened \in [lines : Seq(Kinds), size : Nat]
  /\ admitted \in BOOLEAN /\ hardReadFailure \in BOOLEAN /\ softSchemaDrift \in BOOLEAN
  /\ token \in {"none"} \cup Tokens
  /\ looked \in [lines : Seq(Kinds), file : 0 .. 2, successor : BOOLEAN]
  /\ seen \in [lines : Seq(Kinds), at : Nat] /\ failed \in BOOLEAN

LEMMA TypeParts == TypeOK <=> FilesType /\ ProgramType
BY DEF TypeOK, FilesType, ProgramType, Labels, Tokens

LEMMA InitType == Init => TypeOK
<1> SUFFICES ASSUME Init PROVE TypeOK
  OBVIOUS
<1>1. <<>> \in Seq(Kinds)
  OBVIOUS
<1>2. FilesType
  <2>1. disk \in Seq(Kinds) /\ file \in 0 .. 2 /\ changes \in Nat /\ clock \in Nat
    BY DEF Init
  <2>2. torn \in BOOLEAN /\ successor \in BOOLEAN
    BY DEF Init
  <2> QED BY <2>1, <2>2 DEF FilesType
<1>3. cursor \in [offset : Nat, part : {0, 1}, size : Nat]
  BY DEF Init, NoCursor
<1>4. opened \in [lines : Seq(Kinds), size : Nat]
  BY <1>1 DEF Init, NotOpen
<1>5. looked \in [lines : Seq(Kinds), file : 0 .. 2, successor : BOOLEAN]
  BY <1>1 DEF Init, NoLook
<1>6. seen \in [lines : Seq(Kinds), at : Nat]
  BY <1>1 DEF Init, NothingSeen
<1>7. /\ options \in Options /\ pc \in Labels
      /\ iteration \in Nat /\ started \in Nat /\ candidate \in 0 .. 2
      /\ records \in Seq(Kinds) /\ attempt \in {"read", "skipped"}
  BY <1>1 DEF Init, Labels
<1>8. /\ admitted \in BOOLEAN /\ hardReadFailure \in BOOLEAN /\ softSchemaDrift \in BOOLEAN
      /\ token \in {"none"} \cup Tokens /\ failed \in BOOLEAN
  BY DEF Init
<1>9. ProgramType
  BY <1>3, <1>4, <1>5, <1>6, <1>7, <1>8 DEF ProgramType
<1> QED BY <1>2, <1>9, TypeParts

\* The world changes files and time only, and time goes on.
LEMMA WorldStep ==
  ASSUME TypeOK, World
  PROVE  /\ TypeOK' /\ clock <= clock'
         /\ UNCHANGED <<pc, loop, reading, flags, token, looked, seen, failed>>
<1>1. FilesType /\ ProgramType
  BY TypeParts
<1>2. UNCHANGED <<pc, loop, reading, flags, token, looked, seen, failed>>
  BY DEF World, AppendLine, AppendPart, Create, Replace, Rewrite, Truncate, NewPage, Change, Tick
<1>3. ProgramType'
  BY <1>1, <1>2 DEF ProgramType, loop, reading, flags
<1>4. clock' = clock \/ clock' = clock + 1
  BY DEF World, AppendLine, AppendPart, Create, Replace, Rewrite, Truncate, NewPage, Change, Tick
<1>5. changes' = changes \/ changes' = changes + 1
  BY DEF World, AppendLine, AppendPart, Create, Replace, Rewrite, Truncate, NewPage, Change, Tick,
         files
<1>6. disk' \in Seq(Kinds)
  <2>1. ASSUME NEW line \in Written, disk' = Append(disk, line) PROVE disk' \in Seq(Kinds)
    BY <1>1, <2>1, AppendProperties DEF FilesType
  <2>2. ASSUME NEW k \in DOMAIN disk, NEW line \in Written, disk' = [disk EXCEPT ![k] = line]
        PROVE  disk' \in Seq(Kinds)
    BY <1>1, <2>2, ExceptSeq DEF FilesType
  <2>3. CASE Truncate
    <3>1. Len(disk) - 1 \in Nat /\ disk' = SubSeq(disk, 1, Len(disk) - 1)
      BY <1>1, <2>3 DEF Truncate, Front, FilesType
    <3> QED BY <1>1, <3>1, FrontType, 0 + 1 = 1 DEF FilesType
  <2> QED BY <1>1, <2>1, <2>2, <2>3
      DEF World, AppendLine, AppendPart, Create, Replace, Rewrite, NewPage, Tick, files, FilesType
<1>7. torn' \in BOOLEAN /\ successor' \in BOOLEAN
  BY <1>1 DEF FilesType, World, AppendLine, AppendPart, Create, Replace, Rewrite, Truncate,
              NewPage, Tick, files
<1>8. file' \in 0 .. 2
  BY <1>1 DEF FilesType, World, AppendLine, AppendPart, Create, Replace, Rewrite, Truncate,
              NewPage, Tick, files
<1>9. FilesType' /\ clock <= clock'
  BY <1>1, <1>4, <1>5, <1>6, <1>7, <1>8 DEF FilesType
<1>10. TypeOK'
  BY <1>3, <1>9 DEF TypeOK, FilesType, ProgramType, Labels, Tokens
<1> QED BY <1>2, <1>9, <1>10

LEMMA SizeIsNat == TypeOK => Size \in Nat
BY SizeType DEF TypeOK, Size

\* What a report or a jump does to the labels and tokens.
LEMMA ReportType ==
  ASSUME TypeOK, NEW t \in Tokens, Report(t)
  PROVE  pc' = "done" /\ token' = t
BY DEF Report

LEMMA OutOfLoopType ==
  ASSUME NEW hard, NEW soft, OutOfLoop(hard, soft)
  PROVE  /\ pc' = "done"
         /\ token' \in {"rollout-unavailable", "rollout-pending"}
         /\ token' = "rollout-pending" => ~hard /\ ~soft /\ candidate # 0
BY DEF OutOfLoop, Report

LEMMA StepType == TypeOK /\ Step => TypeOK'
<1> SUFFICES ASSUME TypeOK, Step PROVE TypeOK'
  OBVIOUS
<1>. USE DEF TypeOK, FilesStay, files, flags, loop, reading
<1>1. CASE StartIteration
  BY <1>1, OutOfLoopType DEF StartIteration, Goto
<1>2. CASE Locate
  <2>1. \/ pc' \in {"tail", "attempt"} /\ token' = token
        \/ pc' = "done" /\ token' = "rollout-unavailable"
    BY <1>2 DEF Locate, Goto, Report
  <2>2. candidate' \in 0 .. 2 /\ started' \in Nat
    BY <1>2 DEF Locate
  <2>3. FilesStay /\ UNCHANGED <<options, iteration, reading, flags, looked, seen, failed>>
    BY <1>2 DEF Locate
  <2> QED BY <2>1, <2>2, <2>3
<1>3. CASE Attempt
  <2>1. seen' \in [lines : Seq(Kinds), at : Nat]
    BY <1>3 DEF Attempt, NothingSeen
  <2>2. pc' \in {"page", "open"} /\ attempt' \in {"read", "skipped"} /\ token' = token
    BY <1>3 DEF Attempt, Goto
  <2> QED BY <1>3, <2>1, <2>2 DEF Attempt
<1>4. CASE OpenRead
  BY <1>4, SizeIsNat DEF OpenRead, Goto
<1>5. CASE EndRead
  <2>1. PICK n \in Len(records) .. Len(disk), part \in {0, 1} :
          /\ records' = SubSeq(disk, 1, n)
          /\ cursor' = [offset |-> SizeOf(records', part), part |-> part, size |-> Size]
          /\ admitted' = (admitted \/ Holds(SubSeq(disk, Len(records) + 1, n), "task"))
          /\ hardReadFailure' = Veto(hardReadFailure, Holds(SubSeq(disk, Len(records) + 1, n), "bad"))
          /\ softSchemaDrift' = (softSchemaDrift \/ Holds(SubSeq(disk, Len(records) + 1, n), "drift"))
    BY <1>5 DEF EndRead
  <2>2. records' \in Seq(Kinds)
    BY <1>5, <2>1, ReadLines DEF EndRead, Intact
  <2>3. SizeOf(records', part) \in Nat
    BY <2>2, SizeType
  <2>4. cursor' \in [offset : Nat, part : {0, 1}, size : Nat]
    BY <2>1, <2>3, SizeIsNat
  <2>5. admitted' \in BOOLEAN /\ hardReadFailure' \in BOOLEAN /\ softSchemaDrift' \in BOOLEAN
    BY <2>1 DEF Veto, Holds
  <2>6. opened' \in [lines : Seq(Kinds), size : Nat]
    <3>1. <<>> \in Seq(Kinds)
      OBVIOUS
    <3> QED BY <1>5, <3>1 DEF EndRead, NotOpen
  <2>7. /\ pc' \in Labels /\ UNCHANGED <<token, disk, torn, file, successor, changes, clock,
           options, iteration, started, candidate, attempt, looked, seen, failed>>
    BY <1>5 DEF EndRead, Goto, Labels
  <2> QED BY <2>2, <2>4, <2>5, <2>6, <2>7 DEF Labels
<1>6. CASE ReadFails
  <2>1. opened' \in [lines : Seq(Kinds), size : Nat] /\ seen' \in [lines : Seq(Kinds), at : Nat]
    BY <1>6 DEF ReadFails, NotOpen, NothingSeen
  <2> QED BY <1>6, <2>1 DEF ReadFails, Goto
<1>7. CASE ReadTimesOut
  <2>1. opened' \in [lines : Seq(Kinds), size : Nat] /\ seen' \in [lines : Seq(Kinds), at : Nat]
    BY <1>7 DEF ReadTimesOut, NotOpen, NothingSeen
  <2>2. hardReadFailure' \in BOOLEAN /\ softSchemaDrift' \in BOOLEAN
    BY <1>7 DEF ReadTimesOut, Veto, Holds
  <2>3. pc' = "done" /\ token' \in {"rollout-unavailable", "rollout-pending"}
    BY <1>7, OutOfLoopType DEF ReadTimesOut
  <2>4. UNCHANGED <<disk, torn, file, successor, changes, clock, options, iteration, started,
                    candidate, records, cursor, attempt, admitted, looked, failed>>
    BY <1>7 DEF ReadTimesOut
  <2> QED BY <2>1, <2>2, <2>3, <2>4
<1>8. CASE AssessPage
  <2>1. looked' \in [lines : Seq(Kinds), file : 0 .. 2, successor : BOOLEAN]
    BY <1>8 DEF AssessPage
  <2>2. \/ pc' = "successors" /\ token' = token
        \/ pc' = "done" /\ token' = "rollout-unavailable"
    BY <1>8 DEF AssessPage, Goto, Report
  <2>3. FilesStay /\ UNCHANGED <<loop, reading, flags, seen, failed>>
    BY <1>8 DEF AssessPage
  <2> QED BY <2>1, <2>2, <2>3
<1>9. CASE AssessSuccessors
  <2>1. looked' \in [lines : Seq(Kinds), file : 0 .. 2, successor : BOOLEAN]
    BY <1>9 DEF AssessSuccessors
  <2>2. \/ pc' = "tail" /\ token' = token
        \/ pc' = "done" /\ token' \in {"rollout-unavailable", "rollout-hit"}
    BY <1>9 DEF AssessSuccessors, Goto, Report
  <2>3. FilesStay /\ UNCHANGED <<loop, reading, flags, seen, failed>>
    BY <1>9 DEF AssessSuccessors
  <2> QED BY <2>1, <2>2, <2>3
<1>10. CASE EndIteration
  <2>1. looked' \in [lines : Seq(Kinds), file : 0 .. 2, successor : BOOLEAN]
    BY <1>10 DEF EndIteration, NoLook
  <2> QED BY <1>10, <2>1, OutOfLoopType DEF EndIteration, Goto
<1>11. CASE Wake
  BY <1>11 DEF Wake, Goto
<1> QED BY <1>1, <1>2, <1>3, <1>4, <1>5, <1>6, <1>7, <1>8, <1>9, <1>10, <1>11 DEF Step

LEMMA TypeStep == TypeOK /\ [Next]_vars => TypeOK'
<1>1. TypeOK /\ UNCHANGED vars => TypeOK'
  BY DEF TypeOK, vars, files, loop, reading, flags
<1> QED BY <1>1, WorldStep, StepType DEF Next

-----------------------------------------------------------------------------
(***************************************************************************)
(* What the observer knows.                                                *)
(***************************************************************************)

\* The flags tell what the reads went through and what the records hold.
FlagsAreTrue ==
  /\ (failed => hardReadFailure) /\ (Holds(records, "bad") => hardReadFailure)
  /\ (Holds(records, "drift") => softSchemaDrift)
  /\ (admitted <=> Holds(records, "task"))

\* A cursor stands where its records end, and a page is checked only with one
\* that stands at the end of a line and of the file.
CursorMeetsRecords ==
  /\ cursor # NoCursor => cursor.offset = SizeOf(records, cursor.part)
  /\ pc \in {"page", "successors"} => isCompleteReaderCursor(cursor)

\* Between the two checks: the page was the one that was read, to its end.
LookedAtRecords ==
  pc = "successors" =>
    looked.file = candidate /\ (IsPrefix(records, looked.lines) => looked.lines = records)

\* The hand-over read to the end of the page is a hit, unless a read failed,
\* or the check after that read is still to come or has refused the page.
AdmittedIsChecked ==
  /\ pc \in {"open", "reading"} => attempt = "read"
  /\ isCompleteReaderCursor(cursor) /\ admitted /\ ~hardReadFailure =>
       \/ pc \in {"page", "successors"} /\ attempt = "read"
       \/ pc = "done" /\ token # "rollout-pending"

\* What was on the page when a look began is among the records once the look
\* has ended, unless it was skipped with time for another.
SeenIsRead ==
  /\ pc = "reading" => opened.lines = seen.lines /\ opened.size >= 2 * (Len(opened.lines) + 1)
  /\ pc # "reading" => seen.at + Interval < options.budget \/ IsPrefix(seen.lines, records)

\* The k-th look begins no earlier than k intervals after the first.
OnSchedule ==
  \/ DeadlinePassed
  \/ /\ started <= clock
     /\ IF pc = "loop" THEN iteration * Interval <= clock ELSE iteration * Interval <= started

\* A token is there at the end and only there, and is true.
TokenIsTrue == (token = "none" <=> pc # "done") /\ HitIsCertified /\ PendingIsLastLook

ObserverInv ==
  /\ TypeOK /\ FlagsAreTrue /\ CursorMeetsRecords /\ LookedAtRecords /\ AdmittedIsChecked
  /\ SeenIsRead /\ OnSchedule /\ TokenIsTrue

-----------------------------------------------------------------------------
(***************************************************************************)
(* The last iteration ends after the deadline.                             *)
(***************************************************************************)

\* ceil(b / i) intervals are no shorter than b.
LEMMA CeilingCovers ==
  ASSUME NEW b \in Nat, NEW i \in Nat \ {0}, NEW n \in Nat, n >= (b + i - 1) \div i
  PROVE  n * i >= b
<1> DEFINE q == (b + i - 1) \div i
           r == (b + i - 1) % i
<1>1. b + i - 1 \in Nat
  OBVIOUS
<1>2. q \in Nat /\ r \in 0 .. i - 1 /\ b + i - 1 = i * q + r
  BY <1>1
<1>3. PICK k \in Nat : n = q + k
  <2>1. n - q \in Nat /\ n = q + (n - q)
    BY <1>2
  <2> QED BY <2>1
<1> HIDE DEF q, r
<1>4. k * i \in Nat /\ q * i \in Nat /\ n * i = q * i + k * i /\ i * q = q * i
  BY <1>2, <1>3
<1> QED BY <1>2, <1>4

LEMMA LastLookIsLate ==
  ASSUME TypeOK, OnSchedule, pc = "tail", LastIteration
  PROVE  DeadlinePassed
<1>1. options.budget \in Nat /\ iteration \in Nat /\ started \in Nat /\ clock \in Nat
  BY DEF TypeOK
<1>2. iteration >= (options.budget + Interval - 1) \div Interval
  <2>1. (options.budget + Interval - 1) \div Interval \in Nat
    BY <1>1
  <2> QED BY <1>1, <2>1 DEF LastIteration, MaxIterations
<1>3. iteration * Interval >= options.budget
  BY <1>1, <1>2, CeilingCovers
<1>4. iteration * Interval \in Nat
  BY <1>1
<1> QED BY <1>1, <1>3, <1>4 DEF OnSchedule, DeadlinePassed

-----------------------------------------------------------------------------
(***************************************************************************)
(* The steps of the program.                                               *)
(***************************************************************************)

\* EndRead with its witnesses named, and what its lines add.
LEMMA EndReadFacts ==
  ASSUME TypeOK, EndRead
  PROVE  \E n \in Len(records) .. Len(disk), part \in {0, 1} :
           /\ records' = SubSeq(disk, 1, n) /\ records' \in Seq(Kinds) /\ Len(records') = n
           /\ cursor' = [offset |-> SizeOf(records', part), part |-> part, size |-> Size]
           /\ admitted' <=> admitted \/ Holds(SubSeq(disk, Len(records) + 1, n), "task")
           /\ hardReadFailure'
                <=> hardReadFailure \/ Holds(SubSeq(disk, Len(records) + 1, n), "bad")
           /\ softSchemaDrift'
                <=> softSchemaDrift \/ Holds(SubSeq(disk, Len(records) + 1, n), "drift")
           /\ \A kind : Holds(records', kind)
                <=> Holds(records, kind) \/ Holds(SubSeq(disk, Len(records) + 1, n), kind)
<1>1. PICK n \in Len(records) .. Len(disk), part \in {0, 1} :
        /\ records' = SubSeq(disk, 1, n)
        /\ cursor' = [offset |-> SizeOf(records', part), part |-> part, size |-> Size]
        /\ admitted' = (admitted \/ Holds(SubSeq(disk, Len(records) + 1, n), "task"))
        /\ hardReadFailure' = Veto(hardReadFailure, Holds(SubSeq(disk, Len(records) + 1, n), "bad"))
        /\ softSchemaDrift' = (softSchemaDrift \/ Holds(SubSeq(disk, Len(records) + 1, n), "drift"))
  BY DEF EndRead
<1>2. /\ records' \in Seq(Kinds) /\ Len(records') = n
      /\ \A kind : Holds(records', kind)
           <=> Holds(records, kind) \/ Holds(SubSeq(disk, Len(records) + 1, n), kind)
  BY <1>1, ReadLines DEF EndRead, Intact
<1> QED BY <1>1, <1>2, Zenon DEF Veto

LEMMA FlagsStep == TypeOK /\ FlagsAreTrue /\ Step => FlagsAreTrue'
<1> SUFFICES ASSUME TypeOK, FlagsAreTrue, Step PROVE FlagsAreTrue'
  OBVIOUS
<1>1. CASE EndRead
  <2>1. failed' = failed
    BY <1>1 DEF EndRead
  <2>2. PICK n \in Len(records) .. Len(disk) :
          /\ admitted' <=> admitted \/ Holds(SubSeq(disk, Len(records) + 1, n), "task")
          /\ hardReadFailure'
               <=> hardReadFailure \/ Holds(SubSeq(disk, Len(records) + 1, n), "bad")
          /\ softSchemaDrift'
               <=> softSchemaDrift \/ Holds(SubSeq(disk, Len(records) + 1, n), "drift")
          /\ \A kind : Holds(records', kind)
               <=> Holds(records, kind) \/ Holds(SubSeq(disk, Len(records) + 1, n), kind)
    BY <1>1, EndReadFacts
  <2>3. /\ Holds(records', "bad")
             <=> Holds(records, "bad") \/ Holds(SubSeq(disk, Len(records) + 1, n), "bad")
        /\ Holds(records', "drift")
             <=> Holds(records, "drift") \/ Holds(SubSeq(disk, Len(records) + 1, n), "drift")
        /\ Holds(records', "task")
             <=> Holds(records, "task") \/ Holds(SubSeq(disk, Len(records) + 1, n), "task")
    BY <2>2, Zenon
  <2>4. /\ (failed => hardReadFailure) /\ (Holds(records, "bad") => hardReadFailure)
        /\ Holds(records, "drift") => softSchemaDrift
        /\ admitted <=> Holds(records, "task")
    BY Zenon DEF FlagsAreTrue
  <2>5. /\ (failed' => hardReadFailure') /\ (Holds(records', "bad") => hardReadFailure')
        /\ Holds(records', "drift") => softSchemaDrift'
        /\ admitted' <=> Holds(records', "task")
    BY <2>1, <2>2, <2>3, <2>4, Zenon
  <2> QED BY <2>5, Zenon DEF FlagsAreTrue
<1>2. CASE ReadFails
  BY <1>2 DEF ReadFails, FlagsAreTrue
<1>3. CASE ReadTimesOut
  <2>1. /\ UNCHANGED <<records, admitted, failed>>
        /\ hardReadFailure => hardReadFailure'
        /\ softSchemaDrift => softSchemaDrift'
    BY <1>3 DEF ReadTimesOut, Veto
  <2> QED BY <2>1 DEF FlagsAreTrue
<1>4. CASE ~EndRead /\ ~ReadFails /\ ~ReadTimesOut
  <2>1. UNCHANGED <<records, flags, failed>>
    BY <1>4 DEF Step, StartIteration, Locate, Attempt, OpenRead, AssessPage, AssessSuccessors,
                EndIteration, Wake, reading
  <2> QED BY <2>1 DEF FlagsAreTrue, flags
<1> QED BY <1>1, <1>2, <1>3, <1>4

LEMMA CursorStep == TypeOK /\ CursorMeetsRecords /\ Step => CursorMeetsRecords'
<1> SUFFICES ASSUME TypeOK, CursorMeetsRecords, Step PROVE CursorMeetsRecords'
  OBVIOUS
<1>1. CASE EndRead
  <2>1. PICK part \in {0, 1} :
          cursor' = [offset |-> SizeOf(records', part), part |-> part, size |-> Size]
    BY <1>1 DEF EndRead
  <2>2. pc' \in {"page", "successors"} => isCompleteReaderCursor(cursor')
    BY <1>1 DEF EndRead, Goto
  <2> QED BY <2>1, <2>2 DEF CursorMeetsRecords, isCompleteReaderCursor
<1>2. CASE ~EndRead
  <2>1. UNCHANGED <<records, cursor>>
    BY <1>2 DEF Step, StartIteration, Locate, Attempt, OpenRead, ReadFails, ReadTimesOut,
                AssessPage, AssessSuccessors, EndIteration, Wake, reading
  <2>2. pc' \in {"page", "successors"} =>
          pc \in {"page", "successors"} \/ isCompleteReaderCursor(cursor)
    BY <1>2 DEF Step, StartIteration, Locate, Attempt, MaySkip, OpenRead, ReadFails, ReadTimesOut,
                AssessPage, AssessSuccessors, EndIteration, Wake, Goto, Report, OutOfLoop
  <2> QED BY <2>1, <2>2 DEF CursorMeetsRecords, isCompleteReaderCursor
<1> QED BY <1>1, <1>2

LEMMA LookStep ==
  TypeOK /\ CursorMeetsRecords /\ LookedAtRecords /\ Step => LookedAtRecords'
<1> SUFFICES ASSUME TypeOK, CursorMeetsRecords, LookedAtRecords, Step PROVE LookedAtRecords'
  OBVIOUS
<1>1. CASE AssessPage
  <2> SUFFICES ASSUME pc' = "successors"
               PROVE  looked'.file = candidate /\ (IsPrefix(records, disk) => disk = records)
    BY <1>1 DEF AssessPage, LookedAtRecords, loop, reading
  <2>1. BoundUnchanged /\ looked'.file = file /\ isCompleteReaderCursor(cursor)
    BY <1>1 DEF AssessPage, Report, CursorMeetsRecords
  <2>2. records \in Seq(Kinds) /\ disk \in Seq(Kinds)
    BY DEF TypeOK
  <2>3. Len(records) = Len(disk)
    BY <2>1, <2>2 DEF BoundUnchanged, isCompleteReaderCursor, CursorMeetsRecords, Size, SizeOf
  <2>4. IsPrefix(records, disk) => disk = records
    BY <2>2, <2>3, EqualPrefix
  <2> QED BY <2>1, <2>4 DEF BoundUnchanged
<1>2. CASE ~AssessPage
  BY <1>2 DEF Step, StartIteration, Locate, Attempt, OpenRead, EndRead, ReadFails, ReadTimesOut,
              AssessSuccessors, EndIteration, Wake, Goto, Report, OutOfLoop, LookedAtRecords
<1> QED BY <1>1, <1>2

LEMMA AdmittedStep ==
  TypeOK /\ AdmittedIsChecked /\ Step => AdmittedIsChecked'
<1> SUFFICES ASSUME TypeOK, AdmittedIsChecked, Step PROVE AdmittedIsChecked'
  OBVIOUS
<1>1. pc' \in {"open", "reading"} => attempt' = "read"
  BY DEF AdmittedIsChecked, Step, StartIteration, Locate, Attempt, OpenRead, EndRead, ReadFails,
         ReadTimesOut, AssessPage, AssessSuccessors, EndIteration, Wake, Goto, Report, OutOfLoop,
         reading
<1>2. ASSUME isCompleteReaderCursor(cursor'), admitted', ~hardReadFailure'
      PROVE  \/ pc' \in {"page", "successors"} /\ attempt' = "read"
             \/ pc' = "done" /\ token' # "rollout-pending"
  <2>1. CASE AssessPage \/ AssessSuccessors
    <3>1. UNCHANGED <<cursor, admitted, hardReadFailure, attempt>> /\ pc \in {"page", "successors"}
      BY <2>1 DEF AssessPage, AssessSuccessors, reading, flags
    <3>2. attempt = "read"
      BY <1>2, <3>1 DEF AdmittedIsChecked
    <3> QED BY <1>2, <2>1, <3>1, <3>2 DEF AssessPage, AssessSuccessors, Goto, Report
  <2>2. CASE EndRead
    <3>1. pc' = "page" /\ attempt' = attempt /\ pc = "reading"
      BY <1>2, <2>2 DEF EndRead, Goto
    <3> QED BY <3>1 DEF AdmittedIsChecked
  <2>3. CASE ReadTimesOut
    <3>1. hardReadFailure => hardReadFailure'
      BY <2>3 DEF ReadTimesOut, Veto
    <3>2. UNCHANGED <<cursor, admitted>> /\ pc \in {"open", "reading"}
      BY <2>3 DEF ReadTimesOut
    <3> QED BY <1>2, <3>1, <3>2 DEF AdmittedIsChecked
  <2>4. CASE ~AssessPage /\ ~AssessSuccessors /\ ~EndRead /\ ~ReadTimesOut
    <3>1. UNCHANGED <<cursor, admitted>> /\ (ReadFails \/ hardReadFailure' = hardReadFailure)
      BY <2>4 DEF Step, StartIteration, Locate, Attempt, OpenRead, ReadFails, EndIteration, Wake,
                  reading, flags
    <3>3. ReadFails => hardReadFailure'
      BY DEF ReadFails
    <3>2. pc \notin {"page", "successors", "done"}
      BY <2>4 DEF Step, StartIteration, Locate, Attempt, OpenRead, ReadFails, EndIteration, Wake
    <3> QED BY <1>2, <3>1, <3>2, <3>3 DEF AdmittedIsChecked
  <2> QED BY <2>1, <2>2, <2>3, <2>4
<1> QED BY <1>1, <1>2 DEF AdmittedIsChecked, isCompleteReaderCursor

\* A front of a list is one of any longer list with the same beginning.
LEMMA FrontOfFront ==
  ASSUME NEW s \in Seq(Kinds), NEW t \in Seq(Kinds), IsPrefix(s, t),
         NEW n \in Len(s) .. Len(t)
  PROVE  IsPrefix(s, SubSeq(t, 1, n))
<1>1. Len(s) <= Len(t) /\ s = SubSeq(t, 1, Len(s)) /\ Len(s) \in Nat /\ n \in Nat
  BY PrefixIsFront
<1>2. /\ SubSeq(t, 1, n) \in Seq(Kinds) /\ Len(SubSeq(t, 1, n)) = n
      /\ \A k \in 1 .. n : SubSeq(t, 1, n)[k] = t[k]
  BY <1>1, FrontType, 0 + 1 = 1
<1> DEFINE longer == SubSeq(t, 1, n)
<1> HIDE DEF longer
<1>3. /\ SubSeq(longer, 1, Len(s)) \in Seq(Kinds) /\ Len(SubSeq(longer, 1, Len(s))) = Len(s)
      /\ \A k \in 1 .. Len(s) : SubSeq(longer, 1, Len(s))[k] = longer[k]
  BY <1>1, <1>2, FrontType, 0 + 1 = 1 DEF longer
<1>4. \A k \in 1 .. Len(s) : s[k] = t[k]
  BY <1>1, FrontType, 0 + 1 = 1
<1>5. \A k \in 1 .. Len(s) : SubSeq(longer, 1, Len(s))[k] = s[k]
  BY <1>1, <1>2, <1>3, <1>4 DEF longer
<1>6. SubSeq(longer, 1, Len(s)) = s
  BY <1>3, <1>5, SeqEqual
<1>7. SubSeq(s, 1, Len(s)) = s
  BY SubSeqFull
<1> QED BY <1>1, <1>2, <1>6, <1>7 DEF IsPrefix, longer

LEMMA NothingIsPrefix ==
  ASSUME NEW s \in Seq(Kinds)
  PROVE  IsPrefix(<<>>, s)
<1>1. SubSeq(s, 1, 0) = <<>> /\ SubSeq(<<>>, 1, 0) = <<>>
  BY SubSeqEmpty
<1> QED BY <1>1 DEF IsPrefix

LEMMA SeenStep == TypeOK /\ TypeOK' /\ SeenIsRead /\ Step => SeenIsRead'
<1> SUFFICES ASSUME TypeOK, TypeOK', SeenIsRead, Step PROVE SeenIsRead'
  OBVIOUS
<1>1. CASE Attempt
  <2>1. pc' # "reading" /\ UNCHANGED <<started, options, records>> /\ records \in Seq(Kinds)
    BY <1>1 DEF Attempt, Goto, loop, TypeOK
  <2>2. CASE MaySkip
    <3>1. seen'.at = started /\ ~(started + Interval >= options.budget)
      BY <1>1, <2>2 DEF Attempt, MaySkip, forceFullRead
    <3>2. started \in Nat /\ options \in Options
      BY DEF TypeOK
    <3>3. options.budget \in Nat /\ Interval \in Nat
      BY <3>2
    <3>4. started + Interval < options.budget
      BY <3>1, <3>2, <3>3
    <3> QED BY <2>1, <3>1, <3>4 DEF SeenIsRead
  <2>3. CASE ~MaySkip
    BY <1>1, <2>1, <2>3, NothingIsPrefix DEF Attempt, NothingSeen, SeenIsRead
  <2> QED BY <2>2, <2>3
<1>2. CASE OpenRead
  <2>1. /\ pc' = "reading" /\ opened'.lines = disk /\ seen'.lines = disk
        /\ opened'.size = SizeOf(disk, IF torn THEN 1 ELSE 0)
    BY <1>2 DEF OpenRead, Goto, Size
  <2>2. Len(disk) \in Nat
    BY DEF TypeOK
  <2> QED BY <2>1, <2>2 DEF SeenIsRead, SizeOf
<1>3. CASE EndRead
  <2>1. PICK n \in Len(records) .. Len(disk), part \in {0, 1} :
          /\ SizeOf(SubSeq(disk, 1, n), part) \in opened.size .. Size
          /\ records' = SubSeq(disk, 1, n)
    BY <1>3 DEF EndRead
  <2>2. /\ disk \in Seq(Kinds) /\ opened.lines \in Seq(Kinds) /\ opened.size \in Nat
        /\ Len(records) \in Nat /\ Len(disk) \in Nat /\ Len(opened.lines) \in Nat
    <3>1. /\ disk \in Seq(Kinds) /\ records \in Seq(Kinds)
          /\ opened \in [lines : Seq(Kinds), size : Nat]
      BY DEF TypeOK
    <3>2. opened.lines \in Seq(Kinds) /\ opened.size \in Nat
      BY <3>1
    <3> QED BY <3>1, <3>2, LenProperties
  <2>3. /\ pc = "reading" /\ pc' # "reading" /\ UNCHANGED <<seen, options>>
        /\ IsPrefix(opened.lines, disk)
    BY <1>3 DEF EndRead, Intact, Goto, loop
  <2>4. opened.lines = seen.lines /\ opened.size >= 2 * (Len(opened.lines) + 1)
    BY <2>3 DEF SeenIsRead
  <2>5. Len(SubSeq(disk, 1, n)) = n /\ n \in Nat
    BY <2>2, FrontType, 0 + 1 = 1
  <2>6. 2 * (n + 1) + part >= opened.size
    BY <2>1, <2>2, <2>5, SizeIsNat DEF SizeOf
  <2>7. n \in Len(opened.lines) .. Len(disk)
    BY <2>2, <2>4, <2>5, <2>6
  <2>8. IsPrefix(opened.lines, records')
    BY <2>1, <2>2, <2>3, <2>7, FrontOfFront
  <2> QED BY <2>3, <2>4, <2>8 DEF SeenIsRead
<1>4. CASE ReadFails \/ ReadTimesOut
  <2>1. pc' # "reading"
    BY <1>4 DEF ReadFails, ReadTimesOut, Goto, OutOfLoop, Report
  <2>2. seen'.lines = <<>>
    BY <1>4 DEF ReadFails, ReadTimesOut, NothingSeen
  <2>3. records' \in Seq(Kinds)
    BY DEF TypeOK
  <2> QED BY <2>1, <2>2, <2>3, NothingIsPrefix DEF SeenIsRead
<1>5. CASE ~Attempt /\ ~OpenRead /\ ~EndRead /\ ~ReadFails /\ ~ReadTimesOut
  <2>1. pc # "reading" /\ pc' # "reading" /\ UNCHANGED <<seen, options, records>>
    BY <1>5 DEF Step, StartIteration, Locate, AssessPage, AssessSuccessors, EndIteration, Wake,
                Goto, Report, OutOfLoop, loop, reading
  <2> QED BY <2>1 DEF SeenIsRead
<1> QED BY <1>1, <1>2, <1>3, <1>4, <1>5

LEMMA ScheduleStep == TypeOK /\ OnSchedule /\ Step => OnSchedule'
<1> SUFFICES ASSUME TypeOK, OnSchedule, Step PROVE OnSchedule'
  OBVIOUS
<1>1. /\ options.budget \in Nat /\ iteration \in Nat /\ started \in Nat /\ clock \in Nat
      /\ iteration * Interval \in Nat
  BY DEF TypeOK
<1>2. clock' = clock /\ options' = options
  BY DEF Step, StartIteration, Locate, Attempt, OpenRead, EndRead, ReadFails, ReadTimesOut,
         AssessPage, AssessSuccessors, EndIteration, Wake, FilesStay, loop
<1>3. CASE DeadlinePassed
  BY <1>2, <1>3 DEF OnSchedule, DeadlinePassed
<1>4. CASE ~DeadlinePassed
  <2>1. /\ started <= clock
        /\ iteration * Interval <= clock /\ (pc # "loop" => iteration * Interval <= started)
    BY <1>1, <1>4 DEF OnSchedule
  <2>2. CASE Wake
    <3>1. clock < options.budget
      BY <1>1, <1>4 DEF DeadlinePassed
    <3>2. started + Interval <= clock
      BY <1>1, <2>2, <3>1 DEF Wake, WakeTime
    <3>3. iteration' = iteration + 1 /\ started' = started /\ pc' = "loop" /\ pc = "sleep"
      BY <2>2 DEF Wake, Goto
    <3>4. (iteration + 1) * Interval = iteration * Interval + Interval
      BY <1>1
    <3>5. (iteration + 1) * Interval <= clock
      BY <1>1, <2>1, <3>2, <3>3, <3>4
    <3> QED BY <1>1, <1>2, <2>1, <3>3, <3>5 DEF OnSchedule
  <2>3. CASE ~Wake
    <3>1. /\ iteration' = iteration
          /\ started' = clock \/ (started' = started /\ pc # "loop")
          /\ pc' # "loop"
      BY <1>4, <2>3 DEF Step, StartIteration, Locate, Attempt, OpenRead, EndRead, ReadFails,
              ReadTimesOut, AssessPage, AssessSuccessors, EndIteration, Goto, Report, OutOfLoop, loop
    <3> QED BY <1>1, <1>2, <2>1, <3>1 DEF OnSchedule
  <2> QED BY <2>2, <2>3
<1> QED BY <1>3, <1>4

\* What a token rests on when it is reported.
LEMMA PendingGrounds ==
  ASSUME TypeOK, TypeOK', FlagsAreTrue', AdmittedIsChecked', SeenIsRead', DeadlinePassed',
         pc' = "done", token' = "rollout-pending", candidate' # 0, ~hardReadFailure', ~softSchemaDrift'
  PROVE  PendingIsLastLook'
<1>1. ~failed' /\ (~Holds(records, "bad"))' /\ (~Holds(records, "drift"))'
  BY DEF FlagsAreTrue
<1>2. (isCompleteReaderCursor(cursor) => ~admitted)'
  BY DEF AdmittedIsChecked
<1>3. (isCompleteReaderCursor(cursor) => ~Holds(records, "task"))'
  BY <1>2 DEF FlagsAreTrue
<1>4. (seen.at + Interval < options.budget \/ IsPrefix(seen.lines, records))'
  BY DEF SeenIsRead
<1> QED BY <1>1, <1>3, <1>4 DEF PendingIsLastLook

LEMMA TokenStep ==
  ObserverInv /\ TypeOK' /\ FlagsAreTrue' /\ AdmittedIsChecked' /\ SeenIsRead' /\ Step
    => TokenIsTrue'
<1> SUFFICES ASSUME ObserverInv, TypeOK', FlagsAreTrue', AdmittedIsChecked', SeenIsRead', Step
             PROVE  TokenIsTrue'
  OBVIOUS
<1>1. /\ TypeOK /\ FlagsAreTrue /\ CursorMeetsRecords /\ LookedAtRecords /\ AdmittedIsChecked
      /\ OnSchedule /\ TokenIsTrue
  BY DEF ObserverInv
<1>2. pc # "done" /\ token = "none"
  BY <1>1 DEF TokenIsTrue, Step, StartIteration, Locate, Attempt, OpenRead, EndRead, ReadFails,
              ReadTimesOut, AssessPage, AssessSuccessors, EndIteration, Wake
<1>3. \/ pc' # "done" /\ token' = "none"
      \/ pc' = "done" /\ token' = "rollout-unavailable"
      \/ pc' = "done" /\ token' = "rollout-pending"
      \/ pc' = "done" /\ token' = "rollout-hit"
  BY <1>2 DEF Step, StartIteration, Locate, Attempt, OpenRead, EndRead, ReadFails, ReadTimesOut,
              AssessPage, AssessSuccessors, EndIteration, Wake, Goto, Report, OutOfLoop
<1>4. CASE token' \notin {"rollout-hit", "rollout-pending"}
  BY <1>3, <1>4 DEF TokenIsTrue, HitIsCertified, PendingIsLastLook
<1>5. CASE token' = "rollout-hit"
  <2>1. AssessSuccessors /\ ~successor /\ admitted /\ ~hardReadFailure
    BY <1>2, <1>5 DEF Step, StartIteration, Locate, Attempt, OpenRead, EndRead, ReadFails,
              ReadTimesOut, AssessPage, AssessSuccessors, EndIteration, Wake, Goto, Report, OutOfLoop
  <2>2. /\ UNCHANGED <<records, candidate, failed>> /\ pc = "successors"
        /\ looked'.lines = looked.lines /\ looked'.file = looked.file /\ looked'.successor = FALSE
    BY <1>1, <2>1 DEF AssessSuccessors, loop, reading, TypeOK
  <2>3. ~failed /\ ~Holds(records, "bad") /\ Holds(records, "task")
    BY <1>1, <2>1 DEF FlagsAreTrue
  <2>4. looked.file = candidate /\ (IsPrefix(records, looked.lines) => looked.lines = records)
    BY <1>1, <2>2 DEF LookedAtRecords
  <2>5. HitIsCertified'
    BY <2>2, <2>3, <2>4 DEF HitIsCertified, Holds, IsPrefix
  <2> QED BY <1>3, <1>5, <2>5 DEF TokenIsTrue, PendingIsLastLook
<1>6. CASE token' = "rollout-pending"
  <2>1. CASE StartIteration
    <3>1. /\ DeadlinePassed /\ OutOfLoop(hardReadFailure, softSchemaDrift)
          /\ UNCHANGED <<clock, options, candidate, flags>>
      BY <1>2, <1>6, <2>1 DEF StartIteration, Goto, FilesStay
    <3> QED BY <1>1, <1>3, <1>6, <3>1, OutOfLoopType, PendingGrounds
            DEF DeadlinePassed, TokenIsTrue, HitIsCertified, flags
  <2>2. CASE EndIteration
    <3>1. /\ DeadlinePassed \/ LastIteration
          /\ OutOfLoop(hardReadFailure, softSchemaDrift) /\ pc = "tail"
          /\ UNCHANGED <<clock, options, candidate, flags>>
      BY <1>2, <1>6, <2>2 DEF EndIteration, Goto, FilesStay
    <3>2. DeadlinePassed
      BY <1>1, <3>1, LastLookIsLate
    <3> QED BY <1>1, <1>3, <1>6, <3>1, <3>2, OutOfLoopType, PendingGrounds
            DEF DeadlinePassed, TokenIsTrue, HitIsCertified, flags
  <2>3. CASE ReadTimesOut
    <3>1. /\ DeadlinePassed /\ OutOfLoop(hardReadFailure', softSchemaDrift')
          /\ UNCHANGED <<clock, options, candidate>>
      BY <2>3 DEF ReadTimesOut, FilesStay, loop
    <3> QED BY <1>1, <1>3, <1>6, <3>1, OutOfLoopType, PendingGrounds
            DEF DeadlinePassed, TokenIsTrue, HitIsCertified
  <2>4. StartIteration \/ EndIteration \/ ReadTimesOut
    BY <1>2, <1>6 DEF Step, Locate, Attempt, OpenRead, EndRead, ReadFails, AssessPage,
                      AssessSuccessors, Wake, Goto, Report
  <2> QED BY <2>1, <2>2, <2>3, <2>4
<1> QED BY <1>4, <1>5, <1>6

-----------------------------------------------------------------------------
(***************************************************************************)
(* The invariant.                                                          *)
(***************************************************************************)

LEMMA InitInv == Init => ObserverInv
<1> SUFFICES ASSUME Init PROVE ObserverInv
  OBVIOUS
<1>1. TypeOK
  BY InitType
<1>2. FlagsAreTrue
  BY DEF Init, FlagsAreTrue, Holds
<1>3. CursorMeetsRecords /\ LookedAtRecords
  BY DEF Init, CursorMeetsRecords, LookedAtRecords
<1>4. AdmittedIsChecked
  BY DEF Init, AdmittedIsChecked
<1>5. OnSchedule
  BY DEF Init, OnSchedule
<1>6. SeenIsRead
  <2>1. records \in Seq(Kinds) /\ seen.lines = <<>> /\ pc # "reading"
    BY <1>1 DEF Init, NothingSeen, TypeOK
  <2> QED BY <2>1, NothingIsPrefix DEF SeenIsRead
<1>7. TokenIsTrue
  BY DEF Init, TokenIsTrue, HitIsCertified, PendingIsLastLook
<1> QED BY <1>1, <1>2, <1>3, <1>4, <1>5, <1>6, <1>7 DEF ObserverInv

\* A change of the world leaves what the observer knows as it is.
LEMMA WorldInv == ObserverInv /\ World => ObserverInv'
<1> SUFFICES ASSUME ObserverInv, World PROVE ObserverInv'
  OBVIOUS
<1>1. /\ TypeOK /\ FlagsAreTrue /\ CursorMeetsRecords /\ LookedAtRecords /\ AdmittedIsChecked
      /\ OnSchedule /\ TokenIsTrue
  BY DEF ObserverInv
<1>2. /\ TypeOK' /\ clock <= clock'
      /\ UNCHANGED <<pc, loop, reading, flags, token, looked, seen, failed>>
  BY <1>1, WorldStep
<1>3. UNCHANGED <<pc, options, iteration, started, candidate, records, cursor, opened, attempt,
                  admitted, hardReadFailure, softSchemaDrift, token, looked, seen, failed>>
  BY <1>2 DEF loop, reading, flags
<1>4. FlagsAreTrue' /\ AdmittedIsChecked'
  BY <1>1, <1>3 DEF FlagsAreTrue, AdmittedIsChecked, isCompleteReaderCursor
<1>5. CursorMeetsRecords' /\ LookedAtRecords'
  BY <1>1, <1>3 DEF CursorMeetsRecords, LookedAtRecords, isCompleteReaderCursor
<1>6. /\ options.budget \in Nat /\ clock \in Nat /\ clock' \in Nat /\ started \in Nat
      /\ iteration * Interval \in Nat
  BY <1>1, <1>2 DEF TypeOK
<1>7. SeenIsRead'
  BY <1>3 DEF ObserverInv, SeenIsRead
<1>8. DeadlinePassed => DeadlinePassed'
  BY <1>2, <1>3, <1>6 DEF DeadlinePassed
<1>9. OnSchedule'
  BY <1>1, <1>2, <1>3, <1>6, <1>8 DEF OnSchedule
<1>10. TokenIsTrue'
  BY <1>1, <1>3, <1>8 DEF TokenIsTrue, HitIsCertified, PendingIsLastLook, isCompleteReaderCursor
<1> QED BY <1>2, <1>4, <1>5, <1>7, <1>9, <1>10 DEF ObserverInv

LEMMA InvStep == ObserverInv /\ [Next]_vars => ObserverInv'
<1> SUFFICES ASSUME ObserverInv, [Next]_vars PROVE ObserverInv'
  OBVIOUS
<1>1. CASE World
  BY <1>1, WorldInv
<1>2. CASE Step
  <2>1. /\ TypeOK /\ FlagsAreTrue /\ CursorMeetsRecords /\ LookedAtRecords /\ AdmittedIsChecked
        /\ OnSchedule /\ TokenIsTrue
    BY DEF ObserverInv
  <2>2. TypeOK' /\ FlagsAreTrue' /\ AdmittedIsChecked'
    BY <1>2, <2>1, StepType, FlagsStep, AdmittedStep
  <2>3. SeenIsRead'
    BY <1>2, <2>2, SeenStep DEF ObserverInv
  <2>4. CursorMeetsRecords' /\ LookedAtRecords' /\ OnSchedule'
    BY <1>2, <2>1, CursorStep, LookStep, ScheduleStep
  <2>5. TokenIsTrue'
    BY <1>2, <2>2, <2>3, TokenStep
  <2> QED BY <2>2, <2>3, <2>4, <2>5 DEF ObserverInv
<1>3. CASE UNCHANGED vars
  <2>1. UNCHANGED <<disk, torn, file, successor, changes, clock>>
    BY <1>3 DEF vars, files
  <2>2. UNCHANGED <<pc, options, iteration, started, candidate, records, cursor, opened, attempt,
                    admitted, hardReadFailure, softSchemaDrift, token, looked, seen, failed>>
    BY <1>3 DEF vars, loop, reading, flags
  <2>3. TypeOK'
    BY <1>3, TypeStep DEF ObserverInv
  <2> QED BY <2>1, <2>2, <2>3
      DEF ObserverInv, FlagsAreTrue, CursorMeetsRecords, LookedAtRecords, AdmittedIsChecked,
          SeenIsRead, OnSchedule, TokenIsTrue, HitIsCertified, PendingIsLastLook, DeadlinePassed,
          isCompleteReaderCursor
<1> QED BY <1>1, <1>2, <1>3 DEF Next

THEOREM Invariance == Spec => []ObserverInv
BY InitInv, InvStep, PTL DEF Spec

-----------------------------------------------------------------------------
\* The types of Observer.
THEOREM ObserverTypeOK == Spec => []TypeOK
<1>1. ObserverInv => TypeOK
  BY DEF ObserverInv
<1> QED BY <1>1, Invariance, PTL

\* A hit is reported only of a page that was read to its end without a
\* failure, held the hand-over and was checked afterwards (observeRollout:173-191).
THEOREM HitsAreCertified == Spec => []HitIsCertified
<1>1. ObserverInv => HitIsCertified
  BY DEF ObserverInv, TokenIsTrue
<1> QED BY <1>1, Invariance, PTL

\* Pending is reported only when the budget is used up, of a page that was
\* found and read without failure or drift, and whose end, if it was reached,
\* held no hand-over; what the last finished look found there is among what was
\* read, if no other look was due (observeRollout:67, 123-136, 204-207).
THEOREM PendingIsLastWord == Spec => []PendingIsLastLook
<1>1. ObserverInv => PendingIsLastLook
  BY DEF ObserverInv, TokenIsTrue
<1> QED BY <1>1, Invariance, PTL
=============================================================================
