--------------------------- MODULE WriteProofProofs ---------------------------
(***************************************************************************)
(* What the report of a write says, for any number of lines, changes and   *)
(* attempts, and for any records Codex and others may write.               *)
(***************************************************************************)
EXTENDS WriteProof, TurnBoundaryProofs

USE DEF page, rows, world, gates, snapshots, polling, Harness, Goto, Refuse

\* The records a rollout may hold are records.
LEMMA LinesAreRecords == RecordSet(Lines)
<1>1. Lines \subseteq AllLines
  BY WriteProofAssumption
<1>2. ASSUME NEW r \in AllLines
      PROVE  /\ r.kind \in BoundaryKinds \cup {"malformed", "drift", "other"}
             /\ r.id \in TurnIds \cup {NoId}
  BY DEF AllLines, UserLines, AgentLines, CompleteLines, BoundaryKinds, TerminalKinds
<1> QED BY <1>1, <1>2 DEF RecordSet

-----------------------------------------------------------------------------
(***************************************************************************)
(* Types.                                                                  *)
(***************************************************************************)

\* Initially every variable has its type.
LEMMA TypeInit == Init => TypeInv
<1> SUFFICES ASSUME Init PROVE TypeInv
  OBVIOUS
<1>1. disk \in Seq(Lines) /\ options \in Options /\ Attempts \in Nat \ {0} /\ MaxChanges \in Nat
  BY WriteProofAssumption DEF Init
<1>2. Len(OurTurn) \in Nat
  BY WriteProofAssumption
<1>3. disk \in Seq(Lines) /\ baseline.lines \in Seq(Lines) /\ records \in Seq(Lines)
  BY <1>1 DEF Init, NoBaseline
<1>4. /\ turn \in 0 .. Len(OurTurn) /\ changes \in 0 .. MaxChanges /\ clock \in 0 .. Attempts
      /\ attempt \in 1 .. Attempts /\ started \in 0 .. clock
  BY <1>1, <1>2 DEF Init
<1>5. pc = "inspect" /\ report = "none" /\ doc = "none" /\ frame = "unsent" /\ turn = 0
  BY DEF Init
<1>6. torn = FALSE /\ options \in Options
  BY Zenon DEF Init
<1>7. file \in 0 .. 2 /\ candidate \in 0 .. 2
  BY DEF Init
<1>8. TypeOK
  BY <1>3, <1>4, <1>5, <1>6, <1>7 DEF TypeOK, Labels, Reports
<1> QED BY <1>1, <1>8 DEF Init, TypeInv, NoBaseline, NoSnapshot

\* A step of the world leaves every variable of its type.
LEMMA TypeWorld == ASSUME TypeInv, World PROVE TypeInv'
<1>0. /\ Attempts \in Nat \ {0} /\ MaxChanges \in Nat /\ Foreign \subseteq Lines
      /\ OurTurn \in Seq(Lines) /\ Len(OurTurn) \in Nat
  BY WriteProofAssumption
<1>1. CASE ForeignLine
  <2>1. disk' \in Seq(Lines)
    BY <1>0, <1>1 DEF ForeignLine, TypeInv, TypeOK
  <2>2. torn' = FALSE /\ changes' \in 0 .. MaxChanges
    BY <1>0, <1>1 DEF ForeignLine, Change, TypeInv, TypeOK
  <2>3. UNCHANGED <<file, rows, clock, frame, turn, Harness>>
    BY <1>1 DEF ForeignLine, Change
  <2> QED BY <2>1, <2>2, <2>3 DEF TypeInv, TypeOK
<1>2. CASE TearLine
  BY <1>0, <1>2 DEF TearLine, Change, TypeInv, TypeOK
<1>3. CASE RewriteLine
  <2>1. disk' \in Seq(Lines)
    <3>1. disk \in Seq(Lines)
      BY DEF TypeInv, TypeOK
    <3>2. PICK k \in DOMAIN disk, r \in Foreign : disk' = [disk EXCEPT ![k] = r]
      BY <1>3 DEF RewriteLine
    <3>3. r \in Lines
      BY <1>0, <3>2
    <3> QED BY <3>1, <3>2, <3>3
  <2>2. changes' \in 0 .. MaxChanges
    <3>1. changes \in 0 .. MaxChanges
      BY DEF TypeInv, TypeOK
    <3>2. changes < MaxChanges /\ changes' = changes + 1
      BY <1>3 DEF RewriteLine, Change
    <3> QED BY <1>0, <3>1, <3>2
  <2>3. UNCHANGED <<torn, file, rows, clock, frame, turn, Harness>>
    BY <1>3 DEF RewriteLine, Change
  <2> QED BY <2>1, <2>2, <2>3 DEF TypeInv, TypeOK
<1>4. CASE MoveFile
  BY <1>0, <1>4 DEF MoveFile, Change, TypeInv, TypeOK
<1>5. CASE ChangeRow
  <2>1. UNCHANGED <<page, other, config, clock, frame, turn, Harness>>
    BY <1>5 DEF ChangeRow, Change
  <2>2. changes' \in 0 .. MaxChanges
    BY <1>0, <1>5 DEF ChangeRow, Change, TypeInv, TypeOK
  <2> QED BY <2>1, <2>2 DEF TypeInv, TypeOK
<1>6. CASE ChangeOther
  BY <1>0, <1>6 DEF ChangeOther, Change, TypeInv, TypeOK
<1>7. CASE ChangeConfig
  BY <1>0, <1>7 DEF ChangeConfig, Change, TypeInv, TypeOK
<1>8. CASE RouteFrame
  BY <1>0, <1>8 DEF RouteFrame, TypeInv, TypeOK
<1>9. CASE WriteOurTurn
  <2>1. OurTurn[turn + 1] \in Lines /\ turn' \in 0 .. Len(OurTurn)
    <3>1. turn \in 0 .. Len(OurTurn)
      BY DEF TypeInv, TypeOK
    <3>2. turn < Len(OurTurn) /\ turn' = turn + 1
      BY <1>9 DEF WriteOurTurn
    <3>3. turn + 1 \in 1 .. Len(OurTurn) /\ turn' \in 0 .. Len(OurTurn)
      BY <1>0, <3>1, <3>2
    <3> QED BY <1>0, <3>3
  <2>2. disk' \in Seq(Lines)
    <3>1. disk \in Seq(Lines) /\ disk' \in {disk, Append(disk, OurTurn[turn + 1])}
      BY <1>9 DEF WriteOurTurn, TypeInv, TypeOK
    <3> QED BY <2>1, <3>1
  <2>3. torn' \in BOOLEAN /\ frame' = "taken"
    BY <1>9 DEF WriteOurTurn, TypeInv, TypeOK
  <2>4. UNCHANGED <<file, other, config, changes, clock, Harness>>
    BY <1>9 DEF WriteOurTurn
  <2> QED BY <1>9, <2>1, <2>2, <2>3, <2>4 DEF WriteOurTurn, TypeInv, TypeOK
<1>10. CASE Tick
  BY <1>0, <1>10 DEF Tick, TypeInv, TypeOK
<1> QED BY <1>1, <1>2, <1>3, <1>4, <1>5, <1>6, <1>7, <1>8, <1>9, <1>10 DEF World

\* A snapshot of a configuration, and not yet of the rows.
LEMMA Taken ==
  ASSUME NEW taken, taken = [NoSnapshot EXCEPT !.ok = TRUE, !.config = config]
  PROVE  /\ taken.ok /\ taken.config = config /\ taken.other.version = 0
         /\ DOMAIN taken = DOMAIN NoSnapshot
BY DEF NoSnapshot

\* The rows added.
LEMMA Completed ==
  ASSUME NEW taken, DOMAIN taken = DOMAIN NoSnapshot,
         NEW full, full = [taken EXCEPT !.row = row, !.other = other]
  PROVE  /\ full.ok = taken.ok /\ full.config = taken.config /\ full.other = other
         /\ DOMAIN full = DOMAIN NoSnapshot
<1>1. DOMAIN taken = {"ok", "config", "row", "other"}
  BY DEF NoSnapshot
<1> QED BY <1>1

\* And so does a step of the harness.
LEMMA TypeStep == ASSUME TypeInv, SendInv, Step PROVE TypeInv'
<1>0. Attempts \in Nat \ {0} /\ MaxChanges \in Nat
  BY WriteProofAssumption
<1>1. CASE InspectTarget
  BY <1>0, <1>1 DEF InspectTarget, TypeInv, TypeOK, Labels, Reports
<1>2. CASE RevalidateRuntime
  BY <1>0, <1>2 DEF RevalidateRuntime, TypeInv, TypeOK, Labels, Reports
<1>3. CASE Locate
  BY <1>0, <1>3 DEF Locate, TypeInv, TypeOK, Labels, Reports
<1>4. CASE ReadBaseline
  <2>1. baseline' = NoBaseline \/ baseline' = [ok |-> TRUE, lines |-> disk]
    BY <1>4 DEF ReadBaseline
  <2>2. disk \in Seq(Lines) /\ NoBaseline.lines \in Seq(Lines)
    BY DEF NoBaseline, TypeInv, TypeOK
  <2>3. [ok |-> TRUE, lines |-> disk].lines = disk
    OBVIOUS
  <2>4. baseline'.lines \in Seq(Lines)
    BY <2>1, <2>2, <2>3, Zenon
  <2>5. UNCHANGED <<world, options, candidate, snapshots, doc, polling, report>>
        /\ pc = "baseline" /\ pc' = "before-config"
    BY <1>4 DEF ReadBaseline
  <2> QED BY <2>4, <2>5 DEF TypeInv, TypeOK, Labels
<1>5. CASE SnapshotConfig
  <2>1. /\ before'.config \in Nat /\ before'.other.version \in Nat
        /\ DOMAIN before' = DOMAIN NoSnapshot
    BY <1>5, Taken DEF SnapshotConfig, TypeInv
  <2>2. /\ UNCHANGED <<world, gates, after, doc, polling>> /\ pc = "before-config"
        /\ Refuse \/ Goto("before-rows")
    BY <1>5 DEF SnapshotConfig
  <2> QED BY <2>1, <2>2 DEF TypeInv, TypeOK, Labels, Reports
<1>6. CASE SnapshotRows
  <2>1. /\ before'.config \in Nat /\ before'.other.version \in Nat
        /\ DOMAIN before' = DOMAIN NoSnapshot
    BY <1>6, Completed DEF SnapshotRows, TypeInv
  <2>2. /\ UNCHANGED <<world, gates, after, doc, polling>> /\ pc = "before-rows"
        /\ Refuse \/ Goto("authorize")
    BY <1>6 DEF SnapshotRows
  <2> QED BY <2>1, <2>2 DEF TypeInv, TypeOK, Labels, Reports
<1>7. CASE Authorize
  BY <1>0, <1>7 DEF Authorize, TypeInv, TypeOK, Labels, Reports
<1>8. CASE Reread
  BY <1>0, <1>8 DEF Reread, TypeInv, TypeOK, Labels, Reports
<1>9. CASE ClientFails
  BY <1>0, <1>9 DEF ClientFails, TypeInv, TypeOK, Labels, Reports
<1>10. CASE WriteFrame
  <2>1. frame = "unsent" /\ turn = 0
    BY <1>10 DEF WriteFrame, SendInv, BeforeWrite, TypeInv, TypeOK
  <2> QED BY <1>10, <2>1 DEF WriteFrame, TypeInv, TypeOK, Labels
<1>11. CASE ClientReturns
  BY <1>0, <1>11 DEF ClientReturns, TypeInv, TypeOK, Labels, Reports
<1>12. CASE StartEvidence
  BY <1>0, <1>12 DEF StartEvidence, TypeInv, TypeOK, Labels, Reports
<1>13. CASE Poll
  BY <1>0, <1>13 DEF Poll, TypeInv, TypeOK, Labels, Reports
<1>14. CASE OpenRead
  BY <1>0, <1>14 DEF OpenRead, TypeInv, TypeOK, Labels, Reports
<1>15. CASE ReadLine
  BY <1>0, <1>15 DEF ReadLine, TypeInv, TypeOK, Labels, Reports, Verified
<1>16. CASE EndRead
  BY <1>0, <1>16 DEF EndRead, TypeInv, TypeOK, Labels, Reports, Proven
<1>17. CASE ReadMissing
  BY <1>0, <1>17 DEF ReadMissing, TypeInv, TypeOK, Labels, Reports
<1>18. CASE ReadFails
  BY <1>0, <1>18 DEF ReadFails, TypeInv, TypeOK, Labels, Reports
<1>19. CASE Pause
  BY <1>0, <1>19 DEF Pause, TypeInv, TypeOK, Labels, Reports
<1>20. CASE Wake
  BY <1>0, <1>20 DEF Wake, TypeInv, TypeOK, Labels, Reports
<1>21. CASE AfterConfig
  <2>1. after'.config \in Nat /\ DOMAIN after' = DOMAIN NoSnapshot
    BY <1>21, Taken DEF AfterConfig, TypeInv
  <2>2. /\ UNCHANGED <<world, gates, before, doc, polling>> /\ pc = "after-config"
        /\ Goto("after-rows") \/ Goto("judge")
    BY <1>21 DEF AfterConfig
  <2> QED BY <2>1, <2>2 DEF TypeInv, TypeOK, Labels
<1>22. CASE AfterRows
  <2>1. NoSnapshot.config \in Nat
    BY DEF NoSnapshot
  <2>2. after' = NoSnapshot \/ after' = [after EXCEPT !.row = row, !.other = other]
    BY <1>22 DEF AfterRows
  <2>3. after'.config \in Nat /\ DOMAIN after' = DOMAIN NoSnapshot
    BY <2>1, <2>2, Completed DEF TypeInv
  <2>4. /\ UNCHANGED <<world, gates, before, doc, polling>> /\ pc = "after-rows"
        /\ Goto("judge")
    BY <1>22 DEF AfterRows
  <2> QED BY <2>3, <2>4 DEF TypeInv, TypeOK, Labels
<1>23. CASE Judge
  BY <1>0, <1>23 DEF Judge, TypeInv, TypeOK, Labels, Reports
<1> QED BY <1>1, <1>2, <1>3, <1>4, <1>5, <1>6, <1>7, <1>8, <1>9, <1>10, <1>11, <1>12, <1>13, <1>14, <1>15, <1>16, <1>17, <1>18, <1>19, <1>20, <1>21, <1>22, <1>23 DEF Step

-----------------------------------------------------------------------------
(***************************************************************************)
(* What is sent, and what is said of it.                                   *)
(***************************************************************************)

\* The world leaves the harness alone; it may route the frame, and what
\* Codex writes, it writes for a frame that was taken.
LEMMA WorldLeaves ==
  ASSUME World
  PROVE  /\ UNCHANGED Harness
         /\ \/ frame' = frame /\ turn' = turn
            \/ frame = "piped" /\ frame' \in {"taken", "dropped"} /\ turn' = turn
            \/ frame = "taken" /\ frame' = frame /\ turn' = turn + 1
<1>1. CASE ForeignLine
  BY <1>1 DEF ForeignLine, Change
<1>2. CASE TearLine
  BY <1>2 DEF TearLine, Change
<1>3. CASE RewriteLine
  BY <1>3 DEF RewriteLine, Change
<1>4. CASE MoveFile
  BY <1>4 DEF MoveFile, Change
<1>5. CASE ChangeRow
  BY <1>5 DEF ChangeRow, Change
<1>6. CASE ChangeOther
  BY <1>6 DEF ChangeOther, Change
<1>7. CASE ChangeConfig
  BY <1>7 DEF ChangeConfig, Change
<1>8. CASE RouteFrame
  BY <1>8 DEF RouteFrame
<1>9. CASE WriteOurTurn
  BY <1>9 DEF WriteOurTurn
<1>10. CASE Tick
  BY <1>10 DEF Tick
<1> QED BY <1>1, <1>2, <1>3, <1>4, <1>5, <1>6, <1>7, <1>8, <1>9, <1>10 DEF World

\* The harness leaves the page, the rows and our turn alone, and writes one
\* frame.
LEMMA StepLeaves ==
  ASSUME Step
  PROVE  /\ UNCHANGED <<page, rows, changes, turn, meddled, options>>
         /\ frame' = frame \/ WriteFrame
<1>1. CASE InspectTarget
  BY <1>1 DEF InspectTarget
<1>2. CASE RevalidateRuntime
  BY <1>2 DEF RevalidateRuntime
<1>3. CASE Locate
  BY <1>3 DEF Locate
<1>4. CASE ReadBaseline
  BY <1>4 DEF ReadBaseline
<1>5. CASE SnapshotConfig
  BY <1>5 DEF SnapshotConfig
<1>6. CASE SnapshotRows
  BY <1>6 DEF SnapshotRows
<1>7. CASE Authorize
  BY <1>7 DEF Authorize
<1>8. CASE Reread
  BY <1>8 DEF Reread
<1>9. CASE ClientFails
  BY <1>9 DEF ClientFails
<1>10. CASE WriteFrame
  BY <1>10 DEF WriteFrame
<1>11. CASE ClientReturns
  BY <1>11 DEF ClientReturns
<1>12. CASE StartEvidence
  BY <1>12 DEF StartEvidence
<1>13. CASE Poll
  BY <1>13 DEF Poll
<1>14. CASE OpenRead
  BY <1>14 DEF OpenRead
<1>15. CASE ReadLine
  BY <1>15 DEF ReadLine
<1>16. CASE EndRead
  BY <1>16 DEF EndRead
<1>17. CASE ReadMissing
  BY <1>17 DEF ReadMissing
<1>18. CASE ReadFails
  BY <1>18 DEF ReadFails
<1>19. CASE Pause
  BY <1>19 DEF Pause
<1>20. CASE Wake
  BY <1>20 DEF Wake
<1>21. CASE AfterConfig
  BY <1>21 DEF AfterConfig
<1>22. CASE AfterRows
  BY <1>22 DEF AfterRows
<1>23. CASE Judge
  BY <1>23 DEF Judge
<1> QED BY <1>1, <1>2, <1>3, <1>4, <1>5, <1>6, <1>7, <1>8, <1>9, <1>10, <1>11, <1>12, <1>13, <1>14, <1>15, <1>16, <1>17, <1>18, <1>19, <1>20, <1>21, <1>22, <1>23 DEF Step

\* Nothing has been sent at first.
LEMMA SendInit == Init => SendInv
BY DEF Init, SendInv, BeforeWrite, Polling, AfterPoll, ReportIsTrue

\* What the world does to the frame is what the client may learn of it.
LEMMA SendWorld == ASSUME TypeInv, SendInv, World PROVE SendInv'
BY WorldLeaves DEF SendInv, ReportIsTrue, BeforeWrite, TypeInv, TypeOK

\* A refusal comes before the write, and a document after it.
LEMMA SendStep == ASSUME TypeInv, SendInv, Step PROVE SendInv'
<1>0. /\ frame # "taken" => turn = 0
      /\ report = "none" \/ pc = "done"
      /\ doc \in {"none", "garbled", "error", "success", "nameless"}
  BY DEF TypeInv, TypeOK
<1>l. UNCHANGED turn
  BY StepLeaves
<1> USE DEF SendInv, ReportIsTrue, BeforeWrite, Polling, AfterPoll
<1>1. CASE InspectTarget
  BY <1>0, <1>l, <1>1 DEF InspectTarget
<1>2. CASE RevalidateRuntime
  BY <1>0, <1>l, <1>2 DEF RevalidateRuntime
<1>3. CASE Locate
  BY <1>0, <1>l, <1>3 DEF Locate
<1>4. CASE ReadBaseline
  BY <1>0, <1>l, <1>4 DEF ReadBaseline
<1>5. CASE SnapshotConfig
  BY <1>0, <1>l, <1>5 DEF SnapshotConfig
<1>6. CASE SnapshotRows
  BY <1>0, <1>l, <1>6 DEF SnapshotRows
<1>7. CASE Authorize
  BY <1>0, <1>l, <1>7 DEF Authorize
<1>8. CASE Reread
  BY <1>0, <1>l, <1>8 DEF Reread
<1>9. CASE ClientFails
  BY <1>0, <1>l, <1>9 DEF ClientFails
<1>10. CASE WriteFrame
  BY <1>0, <1>l, <1>10 DEF WriteFrame
<1>11. CASE ClientReturns
  BY <1>0, <1>l, <1>11 DEF ClientReturns
<1>12. CASE StartEvidence
  BY <1>0, <1>l, <1>12 DEF StartEvidence
<1>13. CASE Poll
  BY <1>0, <1>l, <1>13 DEF Poll
<1>14. CASE OpenRead
  BY <1>0, <1>l, <1>14 DEF OpenRead
<1>15. CASE ReadLine
  BY <1>0, <1>l, <1>15 DEF ReadLine
<1>16. CASE EndRead
  BY <1>0, <1>l, <1>16 DEF EndRead
<1>17. CASE ReadMissing
  BY <1>0, <1>l, <1>17 DEF ReadMissing
<1>18. CASE ReadFails
  BY <1>0, <1>l, <1>18 DEF ReadFails
<1>19. CASE Pause
  BY <1>0, <1>l, <1>19 DEF Pause
<1>20. CASE Wake
  BY <1>0, <1>l, <1>20 DEF Wake
<1>21. CASE AfterConfig
  BY <1>0, <1>l, <1>21 DEF AfterConfig
<1>22. CASE AfterRows
  BY <1>0, <1>l, <1>22 DEF AfterRows
<1>23. CASE Judge
  BY <1>0, <1>l, <1>23 DEF Judge, SendOccurrence, Certified
<1> QED BY <1>1, <1>2, <1>3, <1>4, <1>5, <1>6, <1>7, <1>8, <1>9, <1>10, <1>11, <1>12, <1>13, <1>14, <1>15, <1>16, <1>17, <1>18, <1>19, <1>20, <1>21, <1>22, <1>23 DEF Step

-----------------------------------------------------------------------------
(***************************************************************************)
(* The thread is idle when it is written to.                               *)
(***************************************************************************)

\* The activity of a page, and what the page as a whole says of the thread.
LEMMA AdmittedPages ==
  ASSUME NEW str \in Seq(Lines), Admitted(ThreadActivity(str))
  PROVE  IdleAfter(str) \/ (options.midTurn /\ OpenStarts(str, {}) # {})
<1> DEFINE activity == LatestActivity(Finish(Fed(str), DriftOf(str)).turns)
<1>1. (activity = "closed" <=> IdleAfter(str)) /\ (activity = "open" <=> OpenStarts(str, {}) # {})
  BY LinesAreRecords, FedActivity
<1>2. ThreadActivity(str) = activity
  BY DEF ThreadActivity
<1> HIDE DEF activity
<1> QED BY <1>1, <1>2 DEF Admitted

\* Nothing is known of the thread at first.
LEMMA LookInit == Init => LookInv
BY DEF Init, LookInv

\* What the harness knew does not change.
LEMMA LookWorld == ASSUME LookInv, World PROVE LookInv'
<1>1. UNCHANGED <<pc, options, baseline, sentTo>> /\ (frame' # "unsent" => frame # "unsent")
  BY WorldLeaves
<1> QED BY <1>1 DEF LookInv, Admitted

\* Authorize judges the page of the baseline, and Reread finds it unchanged.
LEMMA LookStep == ASSUME TypeInv, SendInv, LookInv, Step PROVE LookInv'
<1>0. UNCHANGED options
  BY StepLeaves
<1>1. CASE Authorize
  BY <1>0, <1>1 DEF Authorize, LookInv, Admitted, SendInv, BeforeWrite
<1>2. CASE Reread
  <2>1. CASE Refuse
    <3>1. frame = "unsent" /\ frame' = frame /\ pc' = "done"
      BY <1>2, <2>1 DEF Reread, SendInv, BeforeWrite
    <3> QED BY <3>1 DEF LookInv
  <2>2. CASE Goto("connect") /\ sentTo' = disk /\ disk = baseline.lines
    <3>1. Admitted(ThreadActivity(sentTo')) /\ sentTo' \in Seq(Lines)
      BY <1>2, <2>2 DEF Reread, LookInv, TypeInv, TypeOK
    <3>2. IdleAfter(sentTo') \/ (options.midTurn /\ OpenStarts(sentTo', {}) # {})
      BY <3>1, AdmittedPages
    <3> QED BY <1>0, <2>2, <3>2 DEF LookInv
  <2> QED BY <1>2, <2>1, <2>2 DEF Reread
<1>3. CASE WriteFrame
  BY <1>0, <1>3 DEF WriteFrame, LookInv
<1>4. ASSUME ~Authorize, ~Reread, ~WriteFrame
      PROVE  UNCHANGED <<sentTo, frame>> /\ pc' \notin {"reread", "connect"}
  <2>1. CASE InspectTarget
    BY <2>1 DEF InspectTarget
  <2>2. CASE RevalidateRuntime
    BY <2>2 DEF RevalidateRuntime
  <2>3. CASE Locate
    BY <2>3 DEF Locate
  <2>4. CASE ReadBaseline
    BY <2>4 DEF ReadBaseline
  <2>5. CASE SnapshotConfig
    BY <2>5 DEF SnapshotConfig
  <2>6. CASE SnapshotRows
    BY <2>6 DEF SnapshotRows
  <2>7. CASE ClientFails
    BY <2>7 DEF ClientFails
  <2>8. CASE ClientReturns
    BY <2>8 DEF ClientReturns
  <2>9. CASE StartEvidence
    BY <2>9 DEF StartEvidence
  <2>10. CASE Poll
    BY <2>10 DEF Poll
  <2>11. CASE OpenRead
    BY <2>11 DEF OpenRead
  <2>12. CASE ReadLine
    BY <2>12 DEF ReadLine
  <2>13. CASE EndRead
    BY <2>13 DEF EndRead
  <2>14. CASE ReadMissing
    BY <2>14 DEF ReadMissing
  <2>15. CASE ReadFails
    BY <2>15 DEF ReadFails
  <2>16. CASE Pause
    BY <2>16 DEF Pause
  <2>17. CASE Wake
    BY <2>17 DEF Wake
  <2>18. CASE AfterConfig
    BY <2>18 DEF AfterConfig
  <2>19. CASE AfterRows
    BY <2>19 DEF AfterRows
  <2>20. CASE Judge
    BY <2>20 DEF Judge
  <2> QED BY <1>4, <2>1, <2>2, <2>3, <2>4, <2>5, <2>6, <2>7, <2>8, <2>9, <2>10, <2>11, <2>12, <2>13, <2>14, <2>15, <2>16, <2>17, <2>18, <2>19, <2>20 DEF Step
<1>5. CASE ~Authorize /\ ~Reread /\ ~WriteFrame
  BY <1>0, <1>4, <1>5 DEF LookInv
<1> QED BY <1>1, <1>2, <1>3, <1>5

-----------------------------------------------------------------------------
(***************************************************************************)
(* What the poll reads.                                                    *)
(***************************************************************************)

\* What the world adds to the page, or puts in the place of a line.
LEMMA WorldLines ==
  ASSUME TypeInv, World
  PROVE  /\ NewLines \subseteq NewLines'
         /\ \A k \in DOMAIN disk' :
              (k \in DOMAIN disk /\ disk'[k] = disk[k]) \/ disk'[k] \in NewLines'
<1>0. /\ OurTurn \in Seq(Lines) /\ Len(OurTurn) \in Nat /\ turn \in 0 .. Len(OurTurn)
      /\ disk \in Seq(Lines) /\ Foreign \subseteq Lines
  BY WriteProofAssumption DEF TypeInv, TypeOK
<1>1. CASE WriteOurTurn
  <2>1. turn' = turn + 1 /\ (disk' = disk \/ disk' = Append(disk, OurTurn[turn + 1]))
    BY <1>1 DEF WriteOurTurn
  <2>2. NewLines \subseteq NewLines' /\ OurTurn[turn + 1] \in NewLines'
    BY <1>0, <2>1 DEF NewLines
  <2>3. \A k \in DOMAIN disk' : (k \in DOMAIN disk /\ disk'[k] = disk[k])
                                \/ disk'[k] = OurTurn[turn + 1]
    <3>1. OurTurn[turn + 1] \in Lines
      BY <1>0, <1>1 DEF WriteOurTurn
    <3> QED BY <1>0, <2>1, <3>1, Appended
  <2> QED BY <2>2, <2>3
<1>2. CASE ForeignLine
  <2>1. PICK r \in Foreign : disk' = Append(disk, r)
    BY <1>2 DEF ForeignLine
  <2>2. turn' = turn
    BY <1>2 DEF ForeignLine, Change
  <2>3. \A k \in DOMAIN disk' : (k \in DOMAIN disk /\ disk'[k] = disk[k]) \/ disk'[k] = r
    BY <1>0, <2>1, Appended
  <2> QED BY <2>2, <2>3 DEF NewLines
<1>3. CASE RewriteLine
  <2>1. PICK j \in DOMAIN disk, r \in Foreign : disk' = [disk EXCEPT ![j] = r]
    BY <1>3 DEF RewriteLine
  <2>2. turn' = turn
    BY <1>3 DEF RewriteLine, Change
  <2>3. \A k \in DOMAIN disk' : (k \in DOMAIN disk /\ disk'[k] = disk[k]) \/ disk'[k] = r
    BY <1>0, <2>1
  <2> QED BY <2>2, <2>3 DEF NewLines
<1>4. CASE UNCHANGED <<disk, turn>>
  BY <1>4 DEF NewLines
<1>5. UNCHANGED <<disk, turn>> \/ WriteOurTurn \/ ForeignLine \/ RewriteLine
  BY DEF World, TearLine, MoveFile, ChangeRow, ChangeOther, ChangeConfig, RouteFrame, Tick, Change
<1> QED BY <1>1, <1>2, <1>3, <1>4, <1>5

\* Nothing has been read at first.
LEMMA PollInit == Init => PollInv
<1> SUFFICES ASSUME Init PROVE PollInv
  OBVIOUS
<1>1. /\ pc = "inspect" /\ records = <<>> /\ consumer = EmptyConsumer
      /\ proven = FALSE /\ report = "none"
  BY Zenon DEF Init
<1>2. ConsumerInv(consumer, records)
  BY <1>1, ConsumerInit
<1>3. DOMAIN records = {}
  BY <1>1
<1> QED BY <1>1, <1>2, <1>3 DEF PollInv, Polling, AfterPoll

\* The world adds new lines only.
LEMMA PollWorld == ASSUME TypeInv, SendInv, PollInv, World PROVE PollInv'
<1>1. UNCHANGED Harness /\ (frame = "taken" => frame' = "taken")
  BY WorldLeaves
<1>2. /\ NewLines \subseteq NewLines'
      /\ \A k \in DOMAIN disk' :
           (k \in DOMAIN disk /\ disk'[k] = disk[k]) \/ disk'[k] \in NewLines'
  BY WorldLines
<1>3. pc \in {"connect", "await", "evidence"} \cup Polling \cup AfterPoll =>
        \A k \in DOMAIN disk' : k > Len(baseline.lines) => disk'[k] \in NewLines'
  BY <1>2 DEF PollInv
<1>4. \A k \in DOMAIN records : records[k] \in NewLines'
  BY <1>2 DEF PollInv
<1>5. Verified' = Verified
  BY <1>1 DEF Verified
<1> QED BY <1>1, <1>3, <1>4, <1>5 DEF PollInv

\* The next line the reader reads is one after the baseline.
LEMMA NextLine ==
  ASSUME TypeInv, PollInv, ReadLine
  PROVE  disk[Len(Verified) + 1] \in NewLines \cap Lines
<1>1. /\ disk \in Seq(Lines) /\ Len(disk) \in Nat /\ DOMAIN disk = 1 .. Len(disk)
      /\ baseline.lines \in Seq(Lines) /\ Len(baseline.lines) \in Nat
      /\ records \in Seq(Lines) /\ Len(records) \in Nat
  BY DEF TypeInv, TypeOK
<1>2. Len(Verified) = Len(baseline.lines) + Len(records) /\ Len(Verified) < Len(disk)
  BY <1>1 DEF Verified, ReadLine
<1>3. Len(Verified) + 1 \in DOMAIN disk /\ Len(Verified) + 1 > Len(baseline.lines)
  BY <1>1, <1>2
<1>4. disk[Len(Verified) + 1] \in Lines
  BY <1>1, <1>3
<1>5. pc = "reading"
  BY DEF ReadLine
<1> QED BY <1>3, <1>4, <1>5 DEF PollInv, Polling

\* A read that ends at the end of the page has verified it.
LEMMA ReadToEnd ==
  ASSUME TypeInv, SameFile, Len(Verified) = Len(disk)
  PROVE  disk = Verified
<1>1. disk \in Seq(Lines) /\ Verified \in Seq(Lines)
  BY DEF TypeInv, TypeOK, Verified
<1>2. SubSeq(Verified, 1, Len(Verified)) = SubSeq(disk, 1, Len(Verified))
  BY DEF SameFile, IsPrefix
<1>3. SubSeq(Verified, 1, Len(Verified)) = Verified /\ SubSeq(disk, 1, Len(disk)) = disk
  BY <1>1
<1> QED BY <1>2, <1>3

\* What is read is consumed; a proof ends the poll with all of the page read.
LEMMA PollStep == ASSUME TypeInv, SendInv, PollInv, Step PROVE PollInv'
<1>0. UNCHANGED <<disk, turn>> /\ NewLines' = NewLines
  BY StepLeaves DEF NewLines
<1>1. CASE Reread
  <2>1. UNCHANGED <<baseline, records, consumer, proven, lastRead>> /\ ~proven
    BY <1>1 DEF Reread, PollInv, AfterPoll
  <2>2. \/ pc' = "done" /\ report' = "refused"
        \/ disk = baseline.lines /\ report' = report
    BY <1>1 DEF Reread
  <2>3. disk \in Seq(Lines)
    BY DEF TypeInv, TypeOK
  <2>4. disk = baseline.lines => \A k \in DOMAIN disk : ~(k > Len(baseline.lines))
    BY <2>3
  <2> QED BY <1>0, <2>1, <2>2, <2>4 DEF PollInv, Polling, AfterPoll
<1>2. CASE ReadLine
  <2> DEFINE r == disk[Len(Verified) + 1]
  <2>1. /\ UNCHANGED <<baseline, proven, lastRead, report>> /\ pc' = "reading" /\ ~proven
        /\ records' = Append(records, r) /\ consumer' = ConsumeLine(consumer, records, r)
    BY <1>2 DEF ReadLine, PollInv, AfterPoll
  <2>2. r \in NewLines /\ r \in Lines /\ records \in Seq(Lines)
    BY <1>2, NextLine DEF TypeInv, TypeOK
  <2> HIDE DEF r
  <2>3. ConsumerInv(consumer', records')
    BY <2>1, <2>2, LinesAreRecords, ConsumeStep DEF PollInv
  <2>4. \A k \in DOMAIN records' : records'[k] \in NewLines
    BY <2>1, <2>2, Appended DEF PollInv
  <2>5. pc = "reading"
    BY <1>2 DEF ReadLine
  <2> QED BY <1>0, <2>1, <2>3, <2>4, <2>5 DEF PollInv, Polling
<1>3. CASE EndRead
  <2>1. /\ UNCHANGED <<baseline, records, consumer, report>> /\ pc = "reading" /\ ~proven
        /\ lastRead' = disk /\ pc' = IF proven' THEN "after-config" ELSE "pause"
    BY <1>3 DEF EndRead, PollInv, AfterPoll
  <2>2. ASSUME proven'
        PROVE  lastRead' = Verified /\ ProvingEnds(records, {}) # {}
    <3>1. SameFile /\ Len(Verified) = Len(disk) /\ Proven(consumer, records)
      BY <1>3, <2>2 DEF EndRead
    <3>2. records \in Seq(Lines) /\ ConsumerInv(consumer, records)
      BY DEF PollInv, TypeInv, TypeOK
    <3>3. ProvingEnds(records, {}) # {}
      BY <3>1, <3>2, ConsumerProven
    <3> QED BY <2>1, <3>1, <3>3, ReadToEnd
  <2>3. Verified' = Verified
    BY <2>1 DEF Verified
  <2> QED BY <1>0, <2>1, <2>2, <2>3 DEF PollInv, Polling, AfterPoll
<1>4. CASE Judge
  <2>1. /\ UNCHANGED <<baseline, records, consumer, proven, lastRead>>
        /\ pc = "judge" /\ pc' = "done" /\ frame' = frame
    BY <1>4 DEF Judge
  <2>2. report' = "turn-bound" => proven /\ frame = "taken"
    BY <1>4 DEF Judge, Certified, SendOccurrence, SendInv
  <2>3. Verified' = Verified
    BY <2>1 DEF Verified
  <2> QED BY <1>0, <2>1, <2>2, <2>3 DEF PollInv, Polling, AfterPoll
<1>5. CASE ReadBaseline
  <2>1. UNCHANGED <<records, consumer, proven, report>> /\ ~proven /\ pc' = "before-config"
        /\ report # "turn-bound"
    BY <1>5 DEF ReadBaseline, PollInv, AfterPoll
  <2> QED BY <1>0, <2>1 DEF PollInv, Polling, AfterPoll
<1> DEFINE Started == {"connect", "await", "evidence"} \cup Polling \cup AfterPoll
           Ended == AfterPoll \cup {"done"}
<1>6. ASSUME ~Reread, ~ReadLine, ~EndRead, ~Judge, ~ReadBaseline
      PROVE  /\ UNCHANGED <<baseline, records, consumer, proven, lastRead>>
             /\ pc' \in Started => pc \in Started
             /\ pc \in Ended => pc' \in Ended
             /\ report' \in {report, "refused"} /\ (frame = "taken" => frame' = frame)
  <2> USE DEF Polling, AfterPoll
  <2>1. CASE InspectTarget
    BY <2>1 DEF InspectTarget
  <2>2. CASE RevalidateRuntime
    BY <2>2 DEF RevalidateRuntime
  <2>3. CASE Locate
    BY <2>3 DEF Locate
  <2>4. CASE SnapshotConfig
    BY <2>4 DEF SnapshotConfig
  <2>5. CASE SnapshotRows
    BY <2>5 DEF SnapshotRows
  <2>6. CASE Authorize
    BY <2>6 DEF Authorize
  <2>7. CASE ClientFails
    BY <2>7 DEF ClientFails
  <2>8. CASE WriteFrame
    BY <2>8 DEF WriteFrame, SendInv, BeforeWrite
  <2>9. CASE ClientReturns
    BY <2>9 DEF ClientReturns
  <2>10. CASE StartEvidence
    BY <2>10 DEF StartEvidence
  <2>11. CASE Poll
    BY <2>11 DEF Poll
  <2>12. CASE OpenRead
    BY <2>12 DEF OpenRead
  <2>13. CASE ReadMissing
    BY <2>13 DEF ReadMissing
  <2>14. CASE ReadFails
    BY <2>14 DEF ReadFails
  <2>15. CASE Pause
    BY <2>15 DEF Pause
  <2>16. CASE Wake
    BY <2>16 DEF Wake
  <2>17. CASE AfterConfig
    BY <2>17 DEF AfterConfig
  <2>18. CASE AfterRows
    BY <2>18 DEF AfterRows
  <2> QED BY <1>6, <2>1, <2>2, <2>3, <2>4, <2>5, <2>6, <2>7, <2>8, <2>9, <2>10, <2>11, <2>12, <2>13, <2>14, <2>15, <2>16, <2>17, <2>18 DEF Step
<1>7. CASE ~Reread /\ ~ReadLine /\ ~EndRead /\ ~Judge /\ ~ReadBaseline
  <2>1. Verified' = Verified
    BY <1>6, <1>7 DEF Verified
  <2> QED BY <1>0, <1>6, <1>7, <2>1 DEF PollInv
<1> QED BY <1>1, <1>2, <1>3, <1>4, <1>5, <1>7

-----------------------------------------------------------------------------
(***************************************************************************)
(* What the snapshots show.                                                *)
(***************************************************************************)

\* No snapshot has been taken at first.
LEMMA WatchInit == Init => WatchInv
BY DEF Init, WatchInv, NoSnapshot

\* What others change between the snapshots shows in the second.
LEMMA WatchWorld == ASSUME TypeInv, WatchInv, World PROVE WatchInv'
<1>0. /\ UNCHANGED Harness /\ config \in Nat /\ before.config \in Nat
      /\ other.version \in Nat /\ before.other.version \in Nat
      /\ (report = "turn-bound" => pc = "done")
  BY WorldLeaves DEF TypeInv, TypeOK
<1>1. CASE ChangeOther
  <2>a. other'.version = other.version + 1
    BY <1>1 DEF ChangeOther
  <2>b. meddled' <=> meddled \/ (RowsWatched /\ ~(options.allowOther /\ other'.exists))
    BY <1>1, Zenon DEF ChangeOther, Change
  <2>1. /\ other.exists /\ other'.version = other.version + 1 /\ config' = config /\ pc # "done"
        /\ meddled' <=> meddled \/ (RowsWatched /\ ~(options.allowOther /\ other'.exists))
    BY <1>1, <2>a, <2>b DEF ChangeOther, Change
  <2>2. SeenConfig' = SeenConfig
    BY <1>0, <2>1 DEF SeenConfig
  <2>3. CASE RowsWatched
    <3>1. SeenOther = other /\ SeenOther' = other'
      BY <1>0, <2>3 DEF RowsWatched, SeenOther
    <3> QED BY <1>0, <2>1, <2>2, <2>3, <3>1 DEF WatchInv, RowsWatched
  <2>4. CASE ~RowsWatched
    <3>1. ~before.ok \/ pc \in {"before-rows", "judge"}
      BY <2>1, <2>4 DEF RowsWatched
    <3>2. pc = "judge" => SeenOther' = SeenOther
      BY <1>0 DEF SeenOther
    <3> QED BY <1>0, <2>1, <2>2, <2>4, <3>1, <3>2 DEF WatchInv
  <2> QED BY <2>3, <2>4
<1>2. CASE ChangeConfig
  <2>1. /\ config' = config + 1 /\ other' = other /\ pc # "done"
        /\ meddled' <=> meddled \/ ConfigWatched
    BY <1>2 DEF ChangeConfig, Change
  <2>2. SeenOther' = SeenOther
    BY <1>0, <2>1 DEF SeenOther
  <2>3. CASE ConfigWatched
    <3>1. SeenConfig = config /\ SeenConfig' = config'
      BY <1>0, <2>3 DEF ConfigWatched, SeenConfig
    <3> QED BY <1>0, <2>1, <2>2, <2>3, <3>1 DEF WatchInv, ConfigWatched
  <2>4. CASE ~ConfigWatched
    <3>1. ~before.ok \/ pc \in {"before-config", "after-rows", "judge"}
      BY <2>1, <2>4 DEF ConfigWatched
    <3>2. pc \in {"after-rows", "judge"} => SeenConfig' = SeenConfig
      BY <1>0 DEF SeenConfig
    <3> QED BY <1>0, <2>1, <2>2, <2>4, <3>1, <3>2 DEF WatchInv
  <2> QED BY <2>3, <2>4
<1>3. CASE UNCHANGED <<other, config>> /\ (meddled' <=> meddled)
  <2>1. SeenConfig' = SeenConfig /\ SeenOther' = SeenOther
    BY <1>0, <1>3 DEF SeenConfig, SeenOther
  <2> QED BY <1>0, <1>3, <2>1 DEF WatchInv
<1>4. \/ UNCHANGED <<other, config>> /\ (meddled' <=> meddled)
      \/ ChangeOther \/ ChangeConfig
  <2>1. CASE ForeignLine
    BY <2>1 DEF ForeignLine, Change
  <2>2. CASE TearLine
    BY <2>2 DEF TearLine, Change
  <2>3. CASE RewriteLine
    BY <2>3 DEF RewriteLine, Change
  <2>4. CASE MoveFile
    BY <2>4 DEF MoveFile, Change
  <2>5. CASE ChangeRow
    BY <2>5 DEF ChangeRow, Change
  <2>6. CASE RouteFrame
    BY <2>6 DEF RouteFrame
  <2>7. CASE WriteOurTurn
    BY <2>7 DEF WriteOurTurn
  <2>8. CASE Tick
    BY <2>8 DEF Tick
  <2> QED BY <2>1, <2>2, <2>3, <2>4, <2>5, <2>6, <2>7, <2>8 DEF World
<1> QED BY <1>1, <1>2, <1>3, <1>4

\* The snapshots are taken of what is there, and compared.
LEMMA WatchStep == ASSUME TypeInv, WatchInv, Step PROVE WatchInv'
<1>0. /\ UNCHANGED <<other, config, meddled, options>> /\ config \in Nat
      /\ (report = "turn-bound" => pc = "done")
      /\ DOMAIN before = DOMAIN NoSnapshot /\ DOMAIN after = DOMAIN NoSnapshot
  BY StepLeaves DEF TypeInv, TypeOK
<1>1. CASE SnapshotConfig
  <2>1. /\ pc = "before-config" /\ after' = after
        /\ \/ before' = before /\ pc' = "done" /\ report' = "refused"
           \/ before'.config = config /\ pc' = "before-rows" /\ report' = report
    BY <1>1, Taken DEF SnapshotConfig
  <2>2. ~meddled /\ ~after.ok /\ ~before.ok
    BY <2>1 DEF WatchInv
  <2> QED BY <1>0, <2>1, <2>2 DEF WatchInv
<1>2. CASE SnapshotRows
  <2>1. /\ pc = "before-rows" /\ after' = after
        /\ \/ before' = before /\ pc' = "done" /\ report' = "refused"
           \/ /\ before'.ok = before.ok /\ before'.config = before.config
              /\ before'.other = other
              /\ pc' = "authorize" /\ report' = report
    BY <1>0, <1>2, Completed DEF SnapshotRows
  <2>2. meddled => before.config < config
    BY <2>1 DEF WatchInv, SeenConfig
  <2>3. other.version \in Nat
    BY DEF TypeInv
  <2> QED BY <1>0, <2>1, <2>2, <2>3 DEF WatchInv, SeenConfig
<1>3. CASE AfterConfig
  <2>1. /\ pc = "after-config" /\ before' = before /\ report' = report /\ report # "turn-bound"
        /\ \/ after' = after /\ pc' = "judge"
           \/ after'.ok /\ after'.config = config /\ pc' = "after-rows"
    BY <1>0, <1>3, Taken DEF AfterConfig
  <2>2. ~after.ok /\ SeenConfig = config /\ SeenOther = other
    BY <2>1 DEF WatchInv, SeenConfig, SeenOther
  <2>3. pc' = "after-rows" => SeenConfig' = config /\ SeenOther' = other
    BY <1>0, <2>1 DEF SeenConfig, SeenOther
  <2> QED BY <1>0, <2>1, <2>2, <2>3 DEF WatchInv
<1>4. CASE AfterRows
  <2>0. ~NoSnapshot.ok
    BY DEF NoSnapshot
  <2>1. /\ pc = "after-rows" /\ before' = before /\ report' = report /\ report # "turn-bound"
        /\ pc' = "judge"
        /\ \/ ~after'.ok
           \/ after'.ok = after.ok /\ after'.config = after.config /\ after'.other = other
    BY <1>0, <1>4, <2>0, Completed DEF AfterRows
  <2>2. SeenConfig = after.config /\ SeenOther = other
    BY <2>1 DEF SeenConfig, SeenOther
  <2>3. SeenConfig' = after'.config /\ SeenOther' = after'.other
    BY <2>1 DEF SeenConfig, SeenOther
  <2> QED BY <1>0, <2>1, <2>2, <2>3 DEF WatchInv
<1>5. CASE Judge
  <2>1. pc = "judge" /\ pc' = "done" /\ before' = before /\ after' = after
    BY <1>5 DEF Judge
  <2>2. ASSUME report' = "turn-bound"
        PROVE  ~meddled
    <3>1. Isolated
      BY <1>5, <2>2 DEF Judge, SendOccurrence
    <3>2. SeenConfig = after.config /\ SeenOther = after.other
      BY <2>1 DEF SeenConfig, SeenOther
    <3> QED BY <2>1, <3>1, <3>2 DEF Isolated, WatchInv, TypeInv
  <2> QED BY <1>0, <2>1, <2>2 DEF WatchInv
<1> DEFINE Early == {"inspect", "revalidate", "locate", "baseline", "before-config"}
           Late == {"before-rows", "after-rows", "judge"}
<1>6. ASSUME ~SnapshotConfig, ~SnapshotRows, ~AfterConfig, ~AfterRows, ~Judge
      PROVE  /\ UNCHANGED <<before, after>> /\ report' \in {report, "refused"}
             /\ pc' \in Early => pc \in Early
             /\ pc \notin Late /\ pc' \notin Late /\ pc # "done"
  <2>1. CASE InspectTarget
    BY <2>1 DEF InspectTarget
  <2>2. CASE RevalidateRuntime
    BY <2>2 DEF RevalidateRuntime
  <2>3. CASE Locate
    BY <2>3 DEF Locate
  <2>4. CASE ReadBaseline
    BY <2>4 DEF ReadBaseline
  <2>5. CASE Authorize
    BY <2>5 DEF Authorize
  <2>6. CASE Reread
    BY <2>6 DEF Reread
  <2>7. CASE ClientFails
    BY <2>7 DEF ClientFails
  <2>8. CASE WriteFrame
    BY <2>8 DEF WriteFrame
  <2>9. CASE ClientReturns
    BY <2>9 DEF ClientReturns
  <2>10. CASE StartEvidence
    BY <2>10 DEF StartEvidence
  <2>11. CASE Poll
    BY <2>11 DEF Poll
  <2>12. CASE OpenRead
    BY <2>12 DEF OpenRead
  <2>13. CASE ReadLine
    BY <2>13 DEF ReadLine
  <2>14. CASE EndRead
    BY <2>14 DEF EndRead
  <2>15. CASE ReadMissing
    BY <2>15 DEF ReadMissing
  <2>16. CASE ReadFails
    BY <2>16 DEF ReadFails
  <2>17. CASE Pause
    BY <2>17 DEF Pause
  <2>18. CASE Wake
    BY <2>18 DEF Wake
  <2> QED BY <1>6, <2>1, <2>2, <2>3, <2>4, <2>5, <2>6, <2>7, <2>8, <2>9, <2>10, <2>11, <2>12, <2>13, <2>14, <2>15, <2>16, <2>17, <2>18 DEF Step
<1>7. CASE ~SnapshotConfig /\ ~SnapshotRows /\ ~AfterConfig /\ ~AfterRows /\ ~Judge
  <2>1. /\ UNCHANGED <<before, after>> /\ report' \in {report, "refused"}
        /\ pc' \in Early => pc \in Early
        /\ pc \notin Late /\ pc' \notin Late /\ pc # "done"
    BY <1>6, <1>7
  <2>2. /\ SeenConfig = config /\ SeenConfig' = config
        /\ SeenOther = other /\ SeenOther' = other
    BY <1>0, <2>1 DEF SeenConfig, SeenOther
  <2> QED BY <1>0, <2>1, <2>2 DEF WatchInv
<1> QED BY <1>1, <1>2, <1>3, <1>4, <1>5, <1>7

-----------------------------------------------------------------------------
(***************************************************************************)
(* The theorems.                                                           *)
(***************************************************************************)

\* The invariant holds throughout.
LEMMA Invariant == Spec => []WriteProofInv
<1>1. Init => WriteProofInv
  BY TypeInit, SendInit, LookInit, PollInit, WatchInit DEF WriteProofInv
<1>2. WriteProofInv /\ [Next]_vars => WriteProofInv'
  <2> SUFFICES ASSUME WriteProofInv, [Next]_vars PROVE WriteProofInv'
    OBVIOUS
  <2>1. TypeInv /\ SendInv /\ LookInv /\ PollInv /\ WatchInv
    BY DEF WriteProofInv
  <2>2. CASE World
    BY <2>1, <2>2, TypeWorld, SendWorld, LookWorld, PollWorld, WatchWorld DEF WriteProofInv
  <2>3. CASE Step
    BY <2>1, <2>3, TypeStep, SendStep, LookStep, PollStep, WatchStep DEF WriteProofInv
  <2>4. CASE UNCHANGED vars
    <3>1. /\ TypeInv' <=> TypeInv
          /\ SendInv' <=> SendInv
          /\ LookInv' <=> LookInv
      BY <2>4 DEF vars, TypeInv, TypeOK, SendInv, ReportIsTrue, LookInv, Admitted
    <3>2. PollInv' <=> PollInv
      BY <2>4 DEF vars, PollInv, NewLines, Verified
    <3>3. WatchInv' <=> WatchInv
      BY <2>4 DEF vars, WatchInv, SeenConfig, SeenOther
    <3> QED BY <2>1, <3>1, <3>2, <3>3 DEF WriteProofInv
  <2> QED BY <2>2, <2>3, <2>4 DEF Next
<1> QED BY <1>1, <1>2, PTL DEF Spec

\* Every variable of the write keeps its type, and a report is there exactly
\* when the harness has come to its end.
THEOREM TypeCorrect == Spec => []TypeOK
<1>1. WriteProofInv => TypeOK
  BY DEF WriteProofInv, TypeInv
<1> QED BY <1>1, Invariant, PTL

\* Never is an ambiguous thread written to, whatever others do to it between
\* the looks: the write follows a look that found the page of the baseline,
\* and that page was idle, or open with leave (authorizeBaselineAndSend).
THEOREM SendCorrect == Spec => []SendsToIdleThread
<1>1. WriteProofInv => SendsToIdleThread
  BY DEF WriteProofInv, LookInv, SendsToIdleThread
<1> QED BY <1>1, Invariant, PTL

\* A refusal means that nothing was or will be written, and a report of a
\* write that the frame was (sendMarkerTask, finalizeWriteProof).
THEOREM ReportCorrect == Spec => []ReportIsTrue
<1>1. WriteProofInv => ReportIsTrue
  BY DEF WriteProofInv, SendInv
<1> QED BY <1>1, Invariant, PTL

\* A proving end is the end of a turn of the expected id.
LEMMA OurEnds ==
  ASSUME NEW e \in ProvingEnds(records, {})
  PROVE  e \in DOMAIN records /\ IsOurEnd(records[e])
BY DEF ProvingEnds, CleanTurns, IsOurEnd

\* "turn-bound" means what it says, whatever Codex and others do meanwhile:
\* the turn of the expected id that answers the marker has been written to
\* its end, the page was last seen to be what was verified of it, and the
\* configuration and the other row did not change between the snapshots.
THEOREM TurnBoundCorrect == Spec => []TurnBoundIsOurs
<1>1. WriteProofInv => TurnBoundIsOurs
  <2> SUFFICES ASSUME WriteProofInv, report = "turn-bound"
               PROVE  /\ frame = "taken" /\ turn = Len(OurTurn) /\ lastRead = Verified
                      /\ ProvingEnds(records, {}) # {} /\ ~meddled
    BY DEF TurnBoundIsOurs
  <2>1. /\ frame = "taken" /\ lastRead = Verified /\ ProvingEnds(records, {}) # {} /\ ~meddled
        /\ \A k \in DOMAIN records : records[k] \in NewLines
    BY DEF WriteProofInv, PollInv, WatchInv
  <2>2. PICK e \in ProvingEnds(records, {}) : TRUE
    BY <2>1
  <2>3. records[e] \in NewLines /\ IsOurEnd(records[e])
    BY <2>1, OurEnds
  <2>4. PICK k \in 1 .. turn : IsOurEnd(OurTurn[k])
    BY <2>3, OursIsMarked DEF NewLines
  <2>5. turn \in 0 .. Len(OurTurn) /\ Len(OurTurn) \in Nat
    BY WriteProofAssumption DEF WriteProofInv, TypeInv, TypeOK
  <2>6. turn = Len(OurTurn)
    BY <2>4, <2>5, OursIsMarked
  <2> QED BY <2>1, <2>6
<1> QED BY <1>1, Invariant, PTL
=============================================================================
