---------------------------- MODULE DispatchProofs ----------------------------
(***************************************************************************)
(* Proofs about the two halves of handoff_to_codex.sh: the envelope's way  *)
(* to its path (Transport), and what becomes of the task after that        *)
(* (Delivery).  They share no state.                                       *)
(*                                                                         *)
(* Delivery, for a retry window of any length: DeliveryInv is inductive.   *)
(* Four lemmas show it, one for each group of its conjuncts, each with one *)
(* step per action; the theorems after them read the promised properties   *)
(* off the invariant.                                                      *)
(***************************************************************************)
EXTENDS Delivery, Transport, FiniteSetTheorems, TLAPS

USE PollWindowAssumption

\* Every RESULT line is one of the lines the type names.
LEMMA ReportType ==
  ASSUME NEW class, NEW confirmation, NEW offer \in BOOLEAN,
         [class |-> class, confirmation |-> confirmation] \in Lines,
         lines \in Nat,
         Report(class, confirmation, offer)
  PROVE  /\ pc' \in Control
         /\ line' \in Lines
         /\ lines' \in Nat
         /\ pickup' \in BOOLEAN
BY DEF Report, Control

\* The RESULT lines of the taxonomy.
LEMMA Taxonomy ==
  /\ [class |-> "gui-delivered", confirmation |-> "rollout"] \in Lines
  /\ \A c \in {"gui-unowned", "failed-closed"} :
       [class |-> c, confirmation |-> "not-attempted"] \in Lines
  /\ [class |-> "failed-closed", confirmation |-> "unknown"] \in Lines
BY DEF Lines

\* One more send fits in the window once a poll interval left it.
LEMMA WindowShrinks ==
  ASSUME NEW t \in Nat, NEW w \in Nat, NEW v \in 0 .. w - 1,
         t + w <= PollWindow + 1
  PROVE  t + v <= PollWindow /\ t + v <= PollWindow + 1
OBVIOUS

LEMMA TypeStep ==
  ASSUME TypeOK, ControlInv, [Next]_vars
  PROVE  TypeOK'
<1>. USE DEF TypeOK, vars, settings, printed, clientVars, peerVars
<1>1. CASE Publish
  BY <1>1 DEF Publish, Control, Eligible, Ineligible, Wire, Answers, Documents
<1>2. CASE FileDrop
  BY <1>2 DEF FileDrop, Control, Eligible, Ineligible, Wire, Answers, Documents
<1>3. CASE CheckPolicy
  <2>1. /\ pc' \in Control
        /\ line' \in Lines \cup {NoLine}
        /\ lines' \in Nat
        /\ pickup' \in BOOLEAN
    BY <1>3, ReportType, Taxonomy DEF CheckPolicy, Control
  <2>. QED BY <1>3, <2>1 DEF CheckPolicy
<1>4. CASE NodeMissing
  <2>1. /\ pc' \in Control
        /\ line' \in Lines \cup {NoLine}
        /\ lines' \in Nat
        /\ pickup' \in BOOLEAN
    BY <1>4, ReportType, Taxonomy DEF NodeMissing, Refuse, Control
  <2>. QED BY <1>4, <2>1 DEF NodeMissing
<1>5. CASE InspectTarget
  <2>1. /\ pc' \in Control
        /\ line' \in Lines \cup {NoLine}
        /\ lines' \in Nat
        /\ pickup' \in BOOLEAN
    BY <1>5, ReportType, Taxonomy DEF InspectTarget, Refuse, Control
  <2>. QED BY <1>5, <2>1 DEF InspectTarget, Eligible, Ineligible
<1>6. CASE SendLive
  BY <1>6 DEF SendLive, Control, Eligible, Ineligible, Wire, Answers, Documents, ControlInv, Attempts
<1>7. CASE HostRefused
  <2>1. /\ pc' \in Control
        /\ line' \in Lines \cup {NoLine}
        /\ lines' \in Nat
        /\ pickup' \in BOOLEAN
    BY <1>7, ReportType, Taxonomy DEF HostRefused, Control
  <2>. QED BY <1>7, <2>1 DEF HostRefused
<1>8. CASE Accepted
  <2>1. /\ pc' \in Control
        /\ line' \in Lines \cup {NoLine}
        /\ lines' \in Nat
        /\ pickup' \in BOOLEAN
    BY <1>8, ReportType, Taxonomy DEF Accepted, Control
  <2>. QED BY <1>8, <2>1 DEF Accepted
<1>9. CASE Ambiguous
  <2>1. /\ pc' \in Control
        /\ line' \in Lines \cup {NoLine}
        /\ lines' \in Nat
        /\ pickup' \in BOOLEAN
    BY <1>9, ReportType, Taxonomy DEF Ambiguous, Control
  <2>. QED BY <1>9, <2>1 DEF Ambiguous
<1>10. CASE NotLoaded
  <2>1. /\ pc' \in Control
        /\ line' \in Lines \cup {NoLine}
        /\ lines' \in Nat
        /\ pickup' \in BOOLEAN
    BY <1>10, ReportType, Taxonomy DEF NotLoaded, Control
  <2>. QED BY <1>10, <2>1 DEF NotLoaded
<1>11. CASE StillNotLoaded
  BY <1>11 DEF StillNotLoaded, Control
<1>12. CASE AutoloadReturns
  <2>1. CASE pc' = "poll" /\ window' = PollWindow /\ UNCHANGED <<line, lines, pickup>>
    BY <1>12, <2>1 DEF AutoloadReturns, Control
  <2>2. ASSUME NEW class \in {"gui-unowned", "failed-closed"},
               Report(class, "not-attempted", TRUE), UNCHANGED window
        PROVE  TypeOK'
    <3>1. /\ pc' \in Control
          /\ line' \in Lines
          /\ lines' \in Nat
          /\ pickup' \in BOOLEAN
      BY <2>2, ReportType, Taxonomy
    <3>. QED BY <1>12, <2>2, <3>1 DEF AutoloadReturns
  <2>. QED BY <1>12, <2>1, <2>2 DEF AutoloadReturns
<1>13. CASE PollAgain
  BY <1>13 DEF PollAgain, Control, Eligible, Ineligible, Wire, Answers, Documents
<1>14. CASE PollExpired
  <2>1. /\ pc' \in Control
        /\ line' \in Lines \cup {NoLine}
        /\ lines' \in Nat
        /\ pickup' \in BOOLEAN
    BY <1>14, ReportType, Taxonomy DEF PollExpired, Control
  <2>. QED BY <1>14, <2>1 DEF PollExpired
<1>15. CASE Kill
  BY <1>15 DEF Kill, Control, Eligible, Ineligible, Wire, Answers, Documents
<1>16. CASE Connect
  BY <1>16 DEF Connect, Control, Eligible, Ineligible, Wire, Answers, Documents
<1>17. CASE WriteFollower
  <2>1. wire' \in [Attempts -> Wire]
    BY <1>17 DEF WriteFollower, Wire
  <2>. QED BY <1>17, <2>1 DEF WriteFollower
<1>18. CASE Answered
  BY <1>18 DEF Answered, Control, Eligible, Ineligible, Wire, Answers, Documents
<1>19. CASE ClientThrows
  BY <1>19 DEF ClientThrows, Control, Eligible, Ineligible, Wire, Answers, Documents
<1>20. CASE Peer
  BY <1>20 DEF Peer, RouterForwards, RouterRefuses, PeerDrops, RendererTimesOut, RendererAdmits, Answer, Control, Eligible, Ineligible, Wire, Answers, Documents
<1>21. CASE Paste
  BY <1>21 DEF Paste, Control, Eligible, Ineligible, Wire, Answers, Documents
<1>22. CASE UNCHANGED vars
  BY <1>22
<1>. QED BY <1>1, <1>2, <1>3, <1>4, <1>5, <1>6, <1>7, <1>8, <1>9, <1>10, <1>11, <1>12, <1>13, <1>14, <1>15, <1>16, <1>17, <1>18, <1>19, <1>20, <1>21, <1>22 DEF Next, Wrapper, Client

\* The frames and the answers change only by the client, by the peers and
\* when a new client is spawned.
LEMMA WireStep ==
  ASSUME TypeOK, WireInv, AnswerInv, ControlInv, [Next]_vars
  PROVE  WireInv' /\ AnswerInv'
<1>1. CASE UNCHANGED <<clientVars, peerVars>>
  BY <1>1 DEF WireInv, AnswerInv, clientVars, peerVars
<1>2. CASE SendLive
  <2>1. tries' = tries + 1 /\ tries' \in Attempts /\ tries \in Nat
    BY <1>2 DEF SendLive, TypeOK, ControlInv, Attempts
  <2>2. wire[tries'] = "unsent"
    BY <2>1 DEF WireInv
  <2>3. \A n \in Attempts : n < tries' => wire[n] = "refused"
    BY <1>2, <2>1 DEF SendLive, ControlInv, Attempts
  <2>4. \A n \in Attempts : n > tries' => wire[n] = "unsent"
    BY <2>1 DEF WireInv, Attempts
  <2>. QED BY <1>2, <2>1, <2>2, <2>3, <2>4 DEF SendLive, WireInv, AnswerInv
<1>3. CASE Connect
  BY <1>3 DEF Connect, WireInv, AnswerInv, TypeOK, Attempts, clientVars, peerVars
<1>4. CASE WriteFollower
  BY <1>4 DEF WriteFollower, WireInv, AnswerInv, TypeOK, Attempts, clientVars, peerVars
<1>5. CASE Answered
  BY <1>5 DEF Answered, WireInv, AnswerInv, TypeOK, Attempts, clientVars, peerVars
<1>6. CASE ClientThrows
  BY <1>6 DEF ClientThrows, WireInv, AnswerInv, TypeOK, Attempts, clientVars, peerVars
<1>7. CASE Peer
  BY <1>7 DEF Peer, RouterForwards, RouterRefuses, PeerDrops, RendererTimesOut, RendererAdmits, Answer, WireInv, AnswerInv, TypeOK, Attempts, clientVars, peerVars
<1>8. \/ UNCHANGED <<clientVars, peerVars>>
      \/ SendLive \/ Client \/ Peer
  BY DEF Next, Wrapper, vars, Publish, FileDrop, CheckPolicy, NodeMissing,
         InspectTarget, HostRefused, Accepted, Ambiguous, NotLoaded,
         StillNotLoaded, AutoloadReturns, PollAgain, PollExpired, Kill, Paste
<1>. QED BY <1>1, <1>2, <1>3, <1>4, <1>5, <1>6, <1>7, <1>8 DEF Client

LEMMA ControlStep ==
  ASSUME TypeOK, WireInv, AnswerInv, ControlInv, [Next]_vars
  PROVE  ControlInv'
<1>. USE DEF ControlInv, settings, printed, clientVars, peerVars
<1>1. CASE Publish
  BY <1>1 DEF Publish, TypeOK, Quiet, Eligible, Ineligible, NoLine, Attempts, WireInv, AnswerInv, Modes
<1>2. CASE FileDrop
  BY <1>2 DEF FileDrop, TypeOK, Quiet, Eligible, Ineligible, NoLine, Attempts, WireInv, AnswerInv, Modes
<1>3. CASE CheckPolicy
  BY <1>3 DEF CheckPolicy, Report, TypeOK, Quiet, Eligible, Ineligible, NoLine, Attempts, WireInv, AnswerInv, Modes
<1>4. CASE NodeMissing
  BY <1>4 DEF NodeMissing, Refuse, Report, TypeOK, Quiet, Eligible, Ineligible, NoLine, Attempts, WireInv, AnswerInv, Modes
<1>5. CASE InspectTarget
  BY <1>5 DEF InspectTarget, Refuse, Report, TypeOK, Quiet, Eligible, Ineligible, NoLine, Attempts, WireInv, AnswerInv, Modes
<1>6. CASE SendLive
  BY <1>6 DEF SendLive, TypeOK, Quiet, Eligible, Ineligible, NoLine, Attempts, WireInv, AnswerInv, Modes
<1>7. CASE HostRefused
  BY <1>7 DEF HostRefused, Report, TypeOK, Quiet, Eligible, Ineligible, NoLine, Attempts, WireInv, AnswerInv, Modes
<1>8. CASE Accepted
  BY <1>8 DEF Accepted, ClientExited, Report, TypeOK, Quiet, Eligible, Ineligible, NoLine, Attempts, WireInv, AnswerInv, Modes
<1>9. CASE Ambiguous
  BY <1>9 DEF Ambiguous, ClientExited, Report, TypeOK, Quiet, Eligible, Ineligible, NoLine, Attempts, WireInv, AnswerInv, Modes
<1>10. CASE NotLoaded
  BY <1>10 DEF NotLoaded, ClientExited, Report, TypeOK, Quiet, Eligible, Ineligible, NoLine, Attempts, WireInv, AnswerInv, Modes
<1>11. CASE StillNotLoaded
  BY <1>11 DEF StillNotLoaded, ClientExited, TypeOK, Quiet, Eligible, Ineligible, NoLine, Attempts, WireInv, AnswerInv, Modes
<1>12. CASE AutoloadReturns
  BY <1>12 DEF AutoloadReturns, Report, TypeOK, Quiet, Eligible, Ineligible, NoLine, Attempts, WireInv, AnswerInv, Modes
<1>13. CASE PollAgain
  <2>1. /\ window \in Nat /\ tries \in Nat /\ tries + window <= PollWindow + 1
        /\ window' \in 0 .. window - 1
    BY <1>13 DEF PollAgain, TypeOK
  <2>2. tries + window' <= PollWindow /\ tries + window' <= PollWindow + 1
    BY <2>1, WindowShrinks
  <2>. QED BY <1>13, <2>2 DEF PollAgain, Quiet
<1>14. CASE PollExpired
  BY <1>14 DEF PollExpired, Report, TypeOK, Quiet, Eligible, Ineligible, NoLine, Attempts, WireInv, AnswerInv, Modes
<1>15. CASE Kill
  BY <1>15 DEF Kill, TypeOK, Quiet, Eligible, Ineligible, NoLine, Attempts, WireInv, AnswerInv, Modes
<1>16. CASE Connect
  BY <1>16 DEF Connect, TypeOK, Quiet, Eligible, Ineligible, NoLine, Attempts, WireInv, AnswerInv, Modes
<1>17. CASE WriteFollower
  BY <1>17 DEF WriteFollower, TypeOK, Quiet, Eligible, Ineligible, NoLine, Attempts, WireInv, AnswerInv, Modes
<1>18. CASE Answered
  BY <1>18 DEF Answered, TypeOK, Quiet, Eligible, Ineligible, NoLine, Attempts, WireInv, AnswerInv, Modes
<1>19. CASE ClientThrows
  BY <1>19 DEF ClientThrows, TypeOK, Quiet, Eligible, Ineligible, NoLine, Attempts, WireInv, AnswerInv, Modes
<1>20. CASE Peer
  BY <1>20 DEF Peer, RouterForwards, RouterRefuses, PeerDrops, RendererTimesOut, RendererAdmits, Answer, TypeOK, Quiet, Eligible, Ineligible, NoLine, Attempts, WireInv, AnswerInv, Modes
<1>21. CASE Paste
  BY <1>21 DEF Paste, TypeOK, Quiet, Eligible, Ineligible, NoLine, Attempts, WireInv, AnswerInv, Modes
<1>22. CASE UNCHANGED vars
  BY <1>22 DEF vars, Quiet
<1>. QED BY <1>1, <1>2, <1>3, <1>4, <1>5, <1>6, <1>7, <1>8, <1>9, <1>10, <1>11, <1>12, <1>13, <1>14, <1>15, <1>16, <1>17, <1>18, <1>19, <1>20, <1>21, <1>22 DEF Next, Wrapper, Client

LEMMA ReportStep ==
  ASSUME TypeOK, WireInv, AnswerInv, ControlInv, ReportInv, OneResultLine,
         PickupIsSafe, [Next]_vars
  PROVE  ReportInv' /\ OneResultLine' /\ PickupIsSafe'
<1>. USE DEF ReportInv, OneResultLine, PickupIsSafe, ControlInv,
             settings, printed, clientVars, peerVars
<1>1. CASE Publish
  BY <1>1 DEF Publish, TypeOK, WireInv, AnswerInv, Quiet, NoLine, Admitted, Attempts, Eligible
<1>2. CASE FileDrop
  BY <1>2 DEF FileDrop, TypeOK, WireInv, AnswerInv, Quiet, NoLine, Admitted, Attempts, Eligible
<1>3. CASE CheckPolicy
  BY <1>3 DEF CheckPolicy, Report, TypeOK, WireInv, AnswerInv, Quiet, NoLine, Admitted, Attempts, Eligible
<1>4. CASE NodeMissing
  BY <1>4 DEF NodeMissing, Refuse, Report, TypeOK, WireInv, AnswerInv, Quiet, NoLine, Admitted, Attempts, Eligible
<1>5. CASE InspectTarget
  BY <1>5 DEF InspectTarget, Refuse, Report, TypeOK, WireInv, AnswerInv, Quiet, NoLine, Admitted, Attempts, Eligible
<1>6. CASE SendLive
  BY <1>6 DEF SendLive, TypeOK, WireInv, AnswerInv, Quiet, NoLine, Admitted, Attempts, Eligible
<1>7. CASE HostRefused
  BY <1>7 DEF HostRefused, Report, TypeOK, WireInv, AnswerInv, Quiet, NoLine, Admitted, Attempts, Eligible
<1>8. CASE Accepted
  BY <1>8 DEF Accepted, ClientExited, Report, TypeOK, WireInv, AnswerInv, Quiet, NoLine, Admitted, Attempts, Eligible
<1>9. CASE Ambiguous
  BY <1>9 DEF Ambiguous, ClientExited, Report, TypeOK, WireInv, AnswerInv, Quiet, NoLine, Admitted, Attempts, Eligible
<1>10. CASE NotLoaded
  BY <1>10 DEF NotLoaded, ClientExited, Report, TypeOK, WireInv, AnswerInv, Quiet, NoLine, Admitted, Attempts, Eligible
<1>11. CASE StillNotLoaded
  BY <1>11 DEF StillNotLoaded, ClientExited, TypeOK, WireInv, AnswerInv, Quiet, NoLine, Admitted, Attempts, Eligible
<1>12. CASE AutoloadReturns
  BY <1>12 DEF AutoloadReturns, Report, TypeOK, WireInv, AnswerInv, Quiet, NoLine, Admitted, Attempts, Eligible
<1>13. CASE PollAgain
  BY <1>13 DEF PollAgain, TypeOK, WireInv, AnswerInv, Quiet, NoLine, Admitted, Attempts, Eligible
<1>14. CASE PollExpired
  BY <1>14 DEF PollExpired, Report, TypeOK, WireInv, AnswerInv, Quiet, NoLine, Admitted, Attempts, Eligible
<1>15. CASE Kill
  BY <1>15 DEF Kill, TypeOK, WireInv, AnswerInv, Quiet, NoLine, Admitted, Attempts, Eligible
<1>16. CASE Connect
  BY <1>16 DEF Connect, TypeOK, WireInv, AnswerInv, Quiet, NoLine, Admitted, Attempts, Eligible
<1>17. CASE WriteFollower
  BY <1>17 DEF WriteFollower, TypeOK, WireInv, AnswerInv, Quiet, NoLine, Admitted, Attempts, Eligible
<1>18. CASE Answered
  BY <1>18 DEF Answered, TypeOK, WireInv, AnswerInv, Quiet, NoLine, Admitted, Attempts, Eligible
<1>19. CASE ClientThrows
  BY <1>19 DEF ClientThrows, TypeOK, WireInv, AnswerInv, Quiet, NoLine, Admitted, Attempts, Eligible
<1>20. CASE Peer
  BY <1>20 DEF Peer, RouterForwards, RouterRefuses, PeerDrops, RendererTimesOut, RendererAdmits, Answer, TypeOK, WireInv, AnswerInv, Quiet, NoLine, Admitted, Attempts, Eligible
<1>21. CASE Paste
  BY <1>21 DEF Paste, TypeOK, WireInv, AnswerInv, Quiet, NoLine, Admitted, Attempts, Eligible
<1>22. CASE UNCHANGED vars
  BY <1>22 DEF vars, Quiet, Admitted
<1>. QED BY <1>1, <1>2, <1>3, <1>4, <1>5, <1>6, <1>7, <1>8, <1>9, <1>10, <1>11, <1>12, <1>13, <1>14, <1>15, <1>16, <1>17, <1>18, <1>19, <1>20, <1>21, <1>22 DEF Next, Wrapper, Client

LEMMA InvInductive == DeliveryInv /\ [Next]_vars => DeliveryInv'
BY TypeStep, WireStep, ControlStep, ReportStep DEF DeliveryInv

LEMMA InvInit == Init => DeliveryInv
<1>. SUFFICES ASSUME Init PROVE DeliveryInv
  OBVIOUS
<1>1. TypeOK
  <2>1. wire \in [Attempts -> Wire]
    BY DEF Init, Wire
  <2>2. window \in 0 .. PollWindow /\ tries \in 0 .. PollWindow + 1 /\ lines \in Nat
    BY DEF Init
  <2>. QED BY <2>1, <2>2 DEF Init, TypeOK, Control, Documents, Answers
<1>2. WireInv /\ AnswerInv
  BY DEF Init, WireInv, AnswerInv, Attempts
<1>3. ControlInv
  BY DEF Init, ControlInv, Quiet, Attempts
<1>4. ReportInv /\ OneResultLine /\ PickupIsSafe
  BY DEF Init, ReportInv, OneResultLine, PickupIsSafe, NoLine
<1>. QED BY <1>1, <1>2, <1>3, <1>4 DEF DeliveryInv

THEOREM Invariance == Spec => []DeliveryInv
BY InvInit, InvInductive, PTL DEF Spec

\* Type correctness.
THEOREM TypeCorrect == Spec => []TypeOK
<1>1. DeliveryInv => TypeOK
  BY DEF DeliveryInv
<1>. QED BY <1>1, Invariance, PTL

\* After the pickup line or a "not-attempted" report, no frame of this
\* dispatch is in the pipe, with an owner, or admitted.
THEOREM NonAdmission == Spec => []NonAdmissionProven
<1>1. DeliveryInv => NonAdmissionProven
  BY DEF DeliveryInv, ReportInv, Quiet, NonAdmissionProven
<1>. QED BY <1>1, Invariance, PTL

\* Only the frame of the current client can be the admitted one.
LEMMA OnlyCurrentAdmitted ==
  ASSUME DeliveryInv
  PROVE  /\ Admitted \subseteq {tries}
         /\ pasted => Admitted = {}
<1>1. \A n \in Attempts : wire[n] = "admitted" => n = tries
  BY DEF DeliveryInv, TypeOK, WireInv, Attempts
<1>2. pasted => \A n \in Attempts : wire[n] # "admitted"
  BY DEF DeliveryInv, ReportInv, Quiet
<1>. QED BY <1>1, <1>2 DEF Admitted

LEMMA ExecutionCount ==
  ASSUME DeliveryInv
  PROVE  Executions = (IF Admitted = {} /\ ~pasted THEN 0 ELSE 1)
<1>1. Admitted = {} \/ Admitted = {tries}
  BY OnlyCurrentAdmitted
<1>2. Cardinality({}) = 0 /\ Cardinality({tries}) = 1
  BY FS_EmptySet, FS_Singleton
<1>. QED BY <1>1, <1>2, OnlyCurrentAdmitted DEF Executions

\* The task of one dispatch starts at most once, whatever the length of the
\* retry window and however late the peers act on a frame.
THEOREM AtMostOnce == Spec => []AtMostOneExecution
<1>1. DeliveryInv => AtMostOneExecution
  BY ExecutionCount DEF AtMostOneExecution
<1>. QED BY <1>1, Invariance, PTL

\* A client is spawned only after every earlier frame was refused.
THEOREM NoRetryAfterDoubt == Spec => NoSendAfterDoubt
<1>1. DeliveryInv /\ [Next]_vars
        => [tries' # tries => \A n \in 1 .. tries : wire[n] = "refused"]_vars
  <2>. SUFFICES ASSUME DeliveryInv, [Next]_vars, tries' # tries
                PROVE  \A n \in 1 .. tries : wire[n] = "refused"
    OBVIOUS
  <2>1. SendLive
    BY DEF Next, Wrapper, Client, Publish, FileDrop, CheckPolicy, NodeMissing,
           InspectTarget, HostRefused, Accepted, Ambiguous, NotLoaded,
           StillNotLoaded, AutoloadReturns, PollAgain, PollExpired, Kill,
           Connect, WriteFollower, Answered, ClientThrows, Peer, Paste, vars,
           clientVars
  <2>2. \A n \in Attempts : n <= tries => wire[n] = "refused"
    BY <2>1 DEF SendLive, DeliveryInv, ControlInv
  <2>3. \A n \in 1 .. tries : n \in Attempts /\ n <= tries
    BY DEF DeliveryInv, TypeOK, Attempts
  <2>. QED BY <2>2, <2>3
<1>. QED BY <1>1, Invariance, PTL DEF NoSendAfterDoubt, Spec

\* No more than one RESULT line, and exactly one when a live run that
\* published its envelope has ended.
THEOREM OneResult == Spec => []OneResultLine
<1>1. DeliveryInv => OneResultLine
  BY DEF DeliveryInv
<1>. QED BY <1>1, Invariance, PTL

\* The pickup line is bound to a published envelope and an eligible target.
THEOREM SafePickup == Spec => []PickupIsSafe
<1>1. DeliveryInv => PickupIsSafe
  BY DEF DeliveryInv
<1>. QED BY <1>1, Invariance, PTL

-----------------------------------------------------------------------------
(***************************************************************************)
(* Delivery implements AtMostOnceDelivery.                                 *)
(***************************************************************************)

\* The abstract variables, read off the concrete ones.
StartedIs ==
  started = IF pasted THEN "paste" ELSE IF Admitted = {} THEN "none" ELSE "pipe"
ClaimIs ==
  /\ claim = "pickup" <=> pickup
  /\ claim = "none" <=> ~pickup /\ line = NoLine
  /\ claim = "delivered" <=> ~pickup /\ line.class = "gui-delivered"
  /\ claim = "unknown" <=> ~pickup /\ line.confirmation = "unknown"
  /\ claim = "refused" <=> ~pickup /\ line.confirmation = "not-attempted"
  /\ claim \in Promise!Claims

LEMMA StartedValue == DeliveryInv => StartedIs
<1>. SUFFICES ASSUME DeliveryInv PROVE StartedIs
  OBVIOUS
<1>1. Executions = (IF Admitted = {} /\ ~pasted THEN 0 ELSE 1)
  BY ExecutionCount
<1>. QED BY <1>1 DEF started, StartedIs

LEMMA ClaimValue == DeliveryInv => ClaimIs
BY DEF DeliveryInv, TypeOK, Lines, NoLine, claim, ClaimIs, Promise!Claims

\* A RESULT line, with or without the pickup line, is one abstract claim.
LEMMA ReportIsClaim ==
  ASSUME DeliveryInv, DeliveryInv', pc \notin {"start", "done", "killed"},
         NEW class, NEW confirmation, NEW offer \in BOOLEAN,
         [class |-> class, confirmation |-> confirmation] \in Lines,
         Report(class, confirmation, offer),
         UNCHANGED <<envelope, wire, pasted>>
  PROVE  Promise!Next
<1>1. /\ envelope = "ours" /\ line = NoLine /\ ~pickup /\ ~pasted
      /\ line' = [class |-> class, confirmation |-> confirmation]
      /\ line' # NoLine
  BY DEF DeliveryInv, ControlInv, ReportInv, Report, Lines, NoLine
<1>2. ClaimIs /\ ClaimIs' /\ StartedIs /\ StartedIs'
  BY ClaimValue, StartedValue, PTL
<1>3. claim = "none" /\ claim' \in Promise!Claims \ {"none"}
  BY <1>1, <1>2 DEF ClaimIs
<1>4. started = (IF Admitted = {} THEN "none" ELSE "pipe") /\ started' = started
  BY <1>1, <1>2 DEF StartedIs, Admitted
<1>5. claim' = "delivered" => started = "pipe"
  <2>1. line'.class = "gui-delivered" => tries' \in Attempts /\ wire[tries'] = "admitted"
    BY DEF DeliveryInv, ReportInv, TypeOK, Attempts
  <2>. QED BY <1>2, <1>4, <2>1 DEF ClaimIs, Admitted
<1>6. claim' \in {"pickup", "refused"} => started = "none"
  BY <1>2, <1>4 DEF ClaimIs, DeliveryInv, ReportInv, Quiet, Admitted
<1>. QED BY <1>1, <1>3, <1>4, <1>5, <1>6 DEF Promise!Next, Promise!MakeClaim

\* So is the pickup line alone, in the two modes that send nothing.
LEMMA PickupIsClaim ==
  ASSUME DeliveryInv, DeliveryInv', pc \notin {"start", "done", "killed"}, Quiet,
         pickup' = TRUE, UNCHANGED <<line, envelope, wire, pasted>>
  PROVE  Promise!Next
<1>1. ClaimIs /\ ClaimIs' /\ StartedIs /\ StartedIs'
  BY ClaimValue, StartedValue, PTL
<1>2. envelope = "ours" /\ line = NoLine /\ ~pickup /\ ~pasted /\ Admitted = {}
  BY DEF DeliveryInv, ControlInv, ReportInv, Quiet, Admitted
<1>3. started = "none" /\ started' = "none"
  BY <1>1, <1>2 DEF StartedIs, Admitted
<1>4. claim = "none" /\ claim' = "pickup"
  BY <1>1, <1>2 DEF ClaimIs
<1>. QED BY <1>2, <1>3, <1>4 DEF Promise!Next, Promise!MakeClaim, Promise!Claims

\* Steps that change neither what is printed nor what is admitted.
LEMMA Stutter ==
  ASSUME UNCHANGED <<envelope, printed, pasted>>, Admitted' = Admitted
  PROVE  UNCHANGED Promise!vars
BY DEF Promise!vars, claim, started, Executions, printed

LEMMA PromiseStep ==
  ASSUME DeliveryInv, DeliveryInv', [Next]_vars
  PROVE  [Promise!Next]_Promise!vars
<1>. USE DEF settings, printed, clientVars, peerVars
<1>0. ClaimIs /\ ClaimIs' /\ StartedIs /\ StartedIs'
  BY ClaimValue, StartedValue, PTL
<1>1. CASE Publish
  <2>1. CASE envelope = "absent" /\ envelope' = "ours"
    <3>1. UNCHANGED <<claim, started>>
      BY <1>1 DEF Publish, claim, started, Executions, Admitted
    <3>. QED BY <2>1, <3>1 DEF Promise!Next, Promise!Publish
  <2>2. CASE UNCHANGED envelope
    BY <1>1, <2>2, Stutter DEF Publish, Admitted
  <2>. QED BY <1>1, <2>1, <2>2 DEF Publish
<1>2. CASE FileDrop
  BY <1>2, PickupIsClaim DEF FileDrop, DeliveryInv, ControlInv
<1>3. CASE CheckPolicy
  BY <1>3, ReportIsClaim, Taxonomy, Stutter DEF CheckPolicy, Admitted
<1>4. CASE NodeMissing
  BY <1>4, ReportIsClaim, Taxonomy, Stutter DEF NodeMissing, Refuse, Admitted
<1>5. CASE InspectTarget
  <2>1. CASE Refuse /\ UNCHANGED waitHint
    BY <1>5, <2>1, ReportIsClaim, Taxonomy, Stutter DEF InspectTarget, Refuse, Admitted
  <2>2. CASE pickup' = TRUE /\ UNCHANGED <<line, lines>>
    BY <1>5, <2>2, PickupIsClaim DEF InspectTarget, DeliveryInv, ControlInv
  <2>3. CASE UNCHANGED printed
    BY <1>5, <2>3, Stutter DEF InspectTarget, Admitted
  <2>. QED BY <1>5, <2>1, <2>2, <2>3 DEF InspectTarget
<1>6. CASE SendLive
  BY <1>6, Stutter DEF SendLive, Admitted
<1>7. CASE HostRefused
  BY <1>7, ReportIsClaim, Taxonomy DEF HostRefused
<1>8. CASE Accepted
  BY <1>8, ReportIsClaim, Taxonomy DEF Accepted, ClientExited
<1>9. CASE Ambiguous
  BY <1>9, ReportIsClaim, Taxonomy DEF Ambiguous, ClientExited
<1>10. CASE NotLoaded
  BY <1>10, ReportIsClaim, Taxonomy, Stutter DEF NotLoaded, ClientExited, Admitted
<1>11. CASE StillNotLoaded
  BY <1>11, Stutter DEF StillNotLoaded, Admitted
<1>12. CASE AutoloadReturns
  BY <1>12, ReportIsClaim, Taxonomy, Stutter DEF AutoloadReturns, Admitted
<1>13. CASE PollAgain
  BY <1>13, Stutter DEF PollAgain, Admitted
<1>14. CASE PollExpired
  BY <1>14, ReportIsClaim, Taxonomy DEF PollExpired
<1>15. CASE Kill
  BY <1>15, Stutter DEF Kill, Admitted
<1>16. CASE Connect \/ Answered \/ ClientThrows
  BY <1>16, Stutter DEF Connect, Answered, ClientThrows, Admitted
<1>17. CASE WriteFollower
  <2>1. wire[tries] = "unsent"
    BY <1>17 DEF WriteFollower, DeliveryInv, WireInv
  <2>2. Admitted' = Admitted
    BY <1>17, <2>1 DEF WriteFollower, DeliveryInv, TypeOK, Admitted
  <2>. QED BY <1>17, <2>2, Stutter DEF WriteFollower
<1>18. CASE Peer
  <2>. PICK n \in Attempts :
         \/ RouterForwards(n) \/ RouterRefuses(n) \/ PeerDrops(n)
         \/ RendererTimesOut(n) \/ RendererAdmits(n)
    BY <1>18 DEF Peer
  <2>1. CASE ~RendererAdmits(n)
    <3>1. Admitted' = Admitted
      BY <2>1 DEF RouterForwards, RouterRefuses, PeerDrops, RendererTimesOut,
                  DeliveryInv, TypeOK, Admitted
    <3>. QED BY <1>18, <3>1, Stutter DEF Peer
  <2>2. CASE RendererAdmits(n)
    <3>1. n = tries /\ wire[n] = "owner" /\ wire'[n] = "admitted"
      BY <2>2 DEF RendererAdmits, DeliveryInv, WireInv, TypeOK, Attempts
    <3>2. ~pickup /\ line.confirmation # "not-attempted" /\ line.class # "gui-delivered"
      BY <3>1 DEF DeliveryInv, ReportInv, Quiet
    <3>3. Admitted = {} /\ Admitted' # {} /\ ~pasted
      BY <3>1, <3>2, OnlyCurrentAdmitted DEF Admitted, DeliveryInv, ReportInv
    <3>4. started = "none" /\ started' = "pipe"
      BY <1>0, <1>18, <3>3 DEF StartedIs, Peer
    <3>5. claim \in {"none", "unknown"} /\ UNCHANGED claim
      BY <1>0, <1>18, <3>2 DEF ClaimIs, Promise!Claims, Peer, claim
    <3>6. envelope = "ours" /\ UNCHANGED envelope
      BY <1>18, <3>1 DEF Peer, DeliveryInv, WireInv, ControlInv, TypeOK, Attempts
    <3>. QED BY <3>4, <3>5, <3>6 DEF Promise!Next, Promise!StartByPipe
  <2>. QED BY <2>1, <2>2
<1>19. CASE Paste
  <2>1. Admitted = {} /\ UNCHANGED <<envelope, claim>>
    BY <1>19 DEF Paste, DeliveryInv, ReportInv, Quiet, Admitted, claim
  <2>2. claim = "pickup" /\ started = "none" /\ started' = "paste"
    BY <1>0, <1>19, <2>1 DEF Paste, ClaimIs, StartedIs
  <2>. QED BY <2>1, <2>2 DEF Promise!Next, Promise!StartByPaste
<1>20. CASE UNCHANGED vars
  BY <1>20, Stutter DEF vars, Admitted
<1>. QED BY <1>1, <1>2, <1>3, <1>4, <1>5, <1>6, <1>7, <1>8, <1>9, <1>10, <1>11,
            <1>12, <1>13, <1>14, <1>15, <1>16, <1>17, <1>18, <1>19, <1>20
         DEF Next, Wrapper, Client

\* The wrapper keeps the promise of AtMostOnceDelivery: what it tells the
\* operator and how the task starts is a behaviour the promise allows.
THEOREM Refinement == Spec => PromiseSpec
<1>1. Init => Promise!Init
  <2>. SUFFICES ASSUME Init PROVE Promise!Init
    OBVIOUS
  <2>1. DeliveryInv /\ ClaimIs /\ StartedIs
    BY InvInit, ClaimValue, StartedValue
  <2>2. Admitted = {}
    BY DEF Init, Admitted
  <2>. QED BY <2>1, <2>2 DEF Init, ClaimIs, StartedIs, Promise!Init
<1>. QED BY <1>1, PromiseStep, Invariance, PTL DEF Spec, PromiseSpec, Promise!Spec

-----------------------------------------------------------------------------
(***************************************************************************)
(* Transport, for any number of processes, paths and days.  The invariant  *)
(* adds two facts to the types: an envelope with a reply was replied to,   *)
(* and a process that has linked its envelope finds it at its path until   *)
(* then, unless a directory had taken the path.                            *)
(***************************************************************************)
USE TransportAssumption

Labels == {"start", "tasks", "replies", "dirs", "mkdir", "write", "check",
           "stage", "fill", "link", "verify", "published", "failed", "killed"}

\* A reply is only ever written as the answer to its envelope.
RepliesAreAnswers == \A p \in Paths : replies[p] # None => p \in answered

\* Only files carry the name of a process.
OwnedAreFiles == \A p \in Paths : envelopes[p].by \in Dispatchers => envelopes[p].kind = "file"

\* A process that is past its link: see the head of the module.
LinkedStays ==
  \A d \in Dispatchers :
    /\ at[d] = "published" => envelopes[Dest[d]].by = d \/ Dest[d] \in answered
    /\ at[d] = "verify" =>
         \/ envelopes[Dest[d]].by = d \/ Dest[d] \in answered
         \/ envelopes[Dest[d]].kind = "directory"

TransportInv == TransportTypes /\ RepliesAreAnswers /\ OwnedAreFiles /\ LinkedStays

LEMMA InitTransport == TransportInit => TransportInv
<1> SUFFICES ASSUME TransportInit PROVE TransportInv
  OBVIOUS
<1>1. PICK past \in Pasts :
        /\ envelopes = past.envelopes /\ replies = past.replies
       /\ dirs = past.dirs /\ answered = past.answered
  BY DEF TransportInit
<1>2. TransportTypes
  BY <1>1, PastsAssumption DEF TransportInit, TransportTypes
<1>3. RepliesAreAnswers /\ OwnedAreFiles
  BY <1>1, PastsAssumption DEF RepliesAreAnswers, OwnedAreFiles
<1>4. LinkedStays
  BY DEF TransportInit, LinkedStays
<1> QED BY <1>2, <1>3, <1>4 DEF TransportInv

\* A label of the program moves only the process that takes it.
LEMMA GotoType ==
  ASSUME TransportTypes, NEW d \in Dispatchers, NEW label \in Labels, Goto(d, label)
  PROVE  /\ at' \in [Dispatchers -> Labels] /\ at'[d] = label
         /\ \A e \in Dispatchers \ {d} : at'[e] = at[e]
BY DEF TransportTypes, Goto, Labels

\* The day is a day.
LEMMA TouchType ==
  ASSUME TransportTypes, NEW p \in Paths, Touch(p)
  PROVE  dirs' \in [Channels -> Nat \cup {None}]
BY DEF TransportTypes, Touch

LEMMA RemoveType ==
  ASSUME TransportTypes, NEW p \in Paths, Remove(p)
  PROVE  /\ envelopes' \in [Paths -> Envelope] /\ envelopes'[p].by = None
         /\ \A q \in Paths \ {p} : envelopes'[q] = envelopes[q]
         /\ dirs' \in [Channels -> Nat \cup {None}]
<1>1. Nothing \in Envelope /\ Nothing.by = None
  BY DEF Nothing, Envelope
<1> QED BY <1>1, TouchType DEF TransportTypes, Remove

\* Every step of one process keeps the types.
LEMMA DispatchType ==
  ASSUME TransportTypes, NEW d \in Dispatchers, Dispatch(d)
  PROVE  TransportTypes'
<1>. USE DEF TransportTypes, disk
<1>0. USE DEF Labels
<1>1. CASE StartSweep(d)
  BY <1>1, GotoType DEF StartSweep
<1>2. CASE StartReplies(d) \/ StartDirs(d) \/ EndSweep(d)
  BY <1>2, GotoType DEF StartReplies, StartDirs, EndSweep
<1>3. ASSUME NEW p \in Paths, SweepTask(d, p) PROVE TransportTypes'
  BY <1>3, RemoveType DEF SweepTask
<1>4. ASSUME NEW p \in Paths, SweepReply(d, p) PROVE TransportTypes'
  BY <1>4, TouchType DEF SweepReply
<1>5. ASSUME NEW c \in Channels, SweepDir(d, c) PROVE TransportTypes'
  BY <1>5 DEF SweepDir
<1>6. CASE MakeDir(d)
  BY <1>6, GotoType, TouchType DEF MakeDir
<1>7. CASE CheckDest(d)
  BY <1>7, GotoType DEF CheckDest
<1>8. CASE Stage(d) \/ Fill(d)
  BY <1>8, GotoType, TouchType DEF Stage, Fill
<1>9. CASE Link(d)
  <2>1. [kind |-> "file", by |-> d, day |-> day] \in Envelope
    BY DEF Envelope
  <2> QED BY <1>9, <2>1, GotoType, TouchType DEF Link
<1>10. CASE Verify(d) \/ Killed(d)
  BY <1>10, GotoType, TouchType DEF Verify, Killed
<1> QED BY <1>1, <1>2, <1>3, <1>4, <1>5, <1>6, <1>7, <1>8, <1>9, <1>10 DEF Dispatch

\* What others do keeps the types as well.
LEMMA WorldType ==
  ASSUME TransportTypes, NextDay \/ \E p \in Paths : Reply(p) \/ Occupy(p)
  PROVE  TransportTypes'
<1>1. CASE NextDay
  BY <1>1 DEF NextDay, TransportTypes, disk
<1>2. ASSUME NEW p \in Paths, Reply(p) PROVE TransportTypes'
  BY <1>2, TouchType DEF Reply, TransportTypes
<1>3. ASSUME NEW p \in Paths, Occupy(p) PROVE TransportTypes'
  <2>1. PICK kind \in {"file", "directory"} :
          envelopes' = [envelopes EXCEPT ![p] = [kind |-> kind, by |-> Foreign, day |-> day]]
    BY <1>3 DEF Occupy
  <2>2. [kind |-> kind, by |-> Foreign, day |-> day] \in Envelope
    BY DEF Envelope, TransportTypes
  <2> QED BY <1>3, <2>1, <2>2, TouchType DEF Occupy, TransportTypes
<1> QED BY <1>1, <1>2, <1>3

LEMMA TransportTypeStep == TransportTypes /\ [TransportNext]_transportVars => TransportTypes'
BY DispatchType, WorldType DEF TransportNext, transportVars, disk, TransportTypes

-----------------------------------------------------------------------------
\* What a step may do to the path of an envelope: nothing, link the envelope
\* of the process there, put something of another's there, or remove a file
\* that was replied to.
EnvelopeStep(p) ==
  \/ envelopes'[p] = envelopes[p]
  \/ \E d \in Dispatchers :
       /\ p = Dest[d] /\ at[d] = "link" /\ envelopes[p].kind = "none"
       /\ envelopes'[p].kind = "file" /\ envelopes'[p].by = d
  \/ envelopes[p].kind = "none" /\ envelopes'[p].by = Foreign
  \/ /\ envelopes[p].kind = "file" /\ p \in answered
     /\ envelopes'[p].kind = "none" /\ envelopes'[p].by = None

LEMMA EnvelopeSteps ==
  ASSUME TransportTypes, RepliesAreAnswers, [TransportNext]_transportVars, NEW p \in Paths
  PROVE  EnvelopeStep(p)
<1>1. CASE UNCHANGED envelopes
  BY <1>1 DEF EnvelopeStep
<1>2. ASSUME NEW d \in Dispatchers, NEW q \in Paths, SweepTask(d, q), ~UNCHANGED envelopes
      PROVE  EnvelopeStep(p)
  <2>1. envelopes[q].kind = "file" /\ q \in answered /\ Remove(q)
    BY <1>2 DEF SweepTask, RepliesAreAnswers
  <2> QED BY <2>1 DEF Remove, Nothing, TransportTypes, EnvelopeStep
<1>3. ASSUME NEW d \in Dispatchers, Link(d), ~UNCHANGED envelopes
      PROVE  EnvelopeStep(p)
  <2>1. /\ at[d] = "link" /\ envelopes[Dest[d]].kind = "none"
        /\ envelopes' = [envelopes EXCEPT ![Dest[d]] = [kind |-> "file", by |-> d, day |-> day]]
    BY <1>3 DEF Link
  <2> QED BY <2>1 DEF TransportTypes, EnvelopeStep
<1>4. ASSUME NEW q \in Paths, Occupy(q)
      PROVE  EnvelopeStep(p)
  BY <1>4 DEF Occupy, TransportTypes, EnvelopeStep
<1>5. CASE [TransportNext]_transportVars
  BY <1>1, <1>2, <1>3, <1>4, <1>5
  DEF TransportNext, transportVars, disk, Dispatch, NextDay, Reply, StartSweep, StartReplies,
      SweepReply, StartDirs, SweepDir, EndSweep, MakeDir, CheckDest, Stage, Fill, Verify, Killed
<1> QED BY <1>5

\* Replies and answers grow together, and answers are never taken back.
LEMMA AnswerSteps ==
  ASSUME TransportTypes, [TransportNext]_transportVars
  PROVE  /\ answered \subseteq answered'
         /\ \A p \in Paths : replies'[p] # None => replies[p] # None \/ p \in answered'
<1>1. ASSUME NEW d \in Dispatchers, Dispatch(d)
      PROVE  answered' = answered /\ \A p \in Paths : replies'[p] # None => replies[p] # None
  <2>1. ASSUME NEW q \in Paths, SweepReply(d, q)
        PROVE  answered' = answered /\ \A p \in Paths : replies'[p] # None => replies[p] # None
    BY <2>1 DEF SweepReply, TransportTypes
  <2> QED BY <1>1, <2>1
      DEF disk, Dispatch, StartSweep, SweepTask, StartReplies, StartDirs, SweepDir, EndSweep,
          MakeDir, CheckDest, Stage, Fill, Link, Verify, Killed
<1>2. ASSUME NEW q \in Paths, Reply(q) \/ Occupy(q)
      PROVE  /\ answered \subseteq answered'
             /\ \A p \in Paths : replies'[p] # None => replies[p] # None \/ p \in answered'
  BY <1>2 DEF Reply, Occupy, TransportTypes
<1> QED BY <1>1, <1>2 DEF TransportNext, NextDay, disk, transportVars

\* A process comes to "verify" by its link only, and to "published" only from
\* there, when its path holds a file.
LEMMA ControlSteps ==
  ASSUME TransportTypes, [TransportNext]_transportVars, NEW d \in Dispatchers
  PROVE  /\ at'[d] = "published" =>
              \/ at[d] = "published"
              \/ at[d] = "verify" /\ envelopes[Dest[d]].kind = "file" /\ UNCHANGED envelopes
         /\ at'[d] = "verify" =>
              \/ at[d] = "verify" \/ envelopes'[Dest[d]].by = d
              \/ envelopes[Dest[d]].kind = "directory" /\ UNCHANGED envelopes
<1>1. CASE UNCHANGED at
  BY <1>1
<1>2. ASSUME NEW e \in Dispatchers, NEW label \in Labels \ {"verify", "published"}, Goto(e, label)
      PROVE  (at'[d] = "published" => at[d] = "published")
             /\ (at'[d] = "verify" => at[d] = "verify")
  BY <1>2, GotoType
<1>3. ASSUME NEW e \in Dispatchers, Verify(e)
      PROVE  /\ at'[d] = "published" =>
                  \/ at[d] = "published"
                  \/ at[d] = "verify" /\ envelopes[Dest[d]].kind = "file" /\ UNCHANGED envelopes
             /\ at'[d] = "verify" => at[d] = "verify"
  BY <1>3 DEF Verify, Goto, TransportTypes
<1>4. ASSUME NEW e \in Dispatchers, Link(e)
      PROVE  /\ at'[d] = "published" => at[d] = "published"
             /\ at'[d] = "verify" =>
                  \/ at[d] = "verify" \/ envelopes'[Dest[d]].by = d
                  \/ envelopes[Dest[d]].kind = "directory" /\ UNCHANGED envelopes
  BY <1>4 DEF Link, Goto, TransportTypes
<1>5. ASSUME NEW e \in Dispatchers, Dispatch(e)
      PROVE  \/ UNCHANGED at \/ Verify(e) \/ Link(e)
             \/ \E label \in Labels \ {"verify", "published"} : Goto(e, label)
  BY <1>5
  DEF Dispatch, StartSweep, SweepTask, StartReplies, SweepReply, StartDirs, SweepDir, EndSweep,
      MakeDir, CheckDest, Stage, Fill, Killed, Labels
<1> QED BY <1>1, <1>2, <1>3, <1>4, <1>5 DEF TransportNext, NextDay, Reply, Occupy, transportVars

LEMMA StepTransport == TransportInv /\ [TransportNext]_transportVars => TransportInv'
<1> SUFFICES ASSUME TransportInv, [TransportNext]_transportVars PROVE TransportInv'
  OBVIOUS
<1>1. TransportTypes /\ RepliesAreAnswers /\ OwnedAreFiles /\ LinkedStays
  BY DEF TransportInv
<1>2. TransportTypes'
  BY <1>1, TransportTypeStep
<1>3. RepliesAreAnswers'
  BY <1>1, AnswerSteps DEF RepliesAreAnswers
<1>4. OwnedAreFiles'
  BY <1>1, EnvelopeSteps DEF OwnedAreFiles, EnvelopeStep
<1>5. LinkedStays'
  <2>1. ASSUME NEW d \in Dispatchers, envelopes[Dest[d]].by = d \/ Dest[d] \in answered
        PROVE  envelopes'[Dest[d]].by = d \/ Dest[d] \in answered'
    <3>1. Dest[d] \in Paths /\ answered \subseteq answered' /\ EnvelopeStep(Dest[d])
      BY <1>1, EnvelopeSteps, AnswerSteps
    <3> QED BY <1>1, <2>1, <3>1 DEF OwnedAreFiles, EnvelopeStep
  <2>2. ASSUME NEW d \in Dispatchers, envelopes[Dest[d]].kind = "directory"
        PROVE  envelopes'[Dest[d]] = envelopes[Dest[d]]
    <3>1. Dest[d] \in Paths /\ EnvelopeStep(Dest[d])
      BY <1>1, EnvelopeSteps
    <3> QED BY <2>2, <3>1 DEF EnvelopeStep
  <2>3. ASSUME NEW d \in Dispatchers, at'[d] = "published"
        PROVE  envelopes'[Dest[d]].by = d \/ Dest[d] \in answered'
    <3>1. \/ at[d] = "published"
          \/ at[d] = "verify" /\ envelopes[Dest[d]].kind = "file"
      BY <1>1, <2>3, ControlSteps
    <3>2. envelopes[Dest[d]].by = d \/ Dest[d] \in answered
      BY <1>1, <3>1 DEF LinkedStays
    <3> QED BY <2>1, <3>2
  <2>4. ASSUME NEW d \in Dispatchers, at'[d] = "verify"
        PROVE  \/ envelopes'[Dest[d]].by = d \/ Dest[d] \in answered'
               \/ envelopes'[Dest[d]].kind = "directory"
    <3>1. CASE at[d] = "verify"
      BY <1>1, <2>1, <2>2, <3>1 DEF LinkedStays
    <3>2. CASE at[d] # "verify"
      BY <1>1, <2>4, <3>2, ControlSteps
    <3> QED BY <3>1, <3>2
  <2> QED BY <2>3, <2>4 DEF LinkedStays
<1> QED BY <1>2, <1>3, <1>4, <1>5 DEF TransportInv

THEOREM TransportInvariance == TransportSpec => []TransportInv
BY InitTransport, StepTransport, PTL DEF TransportSpec

-----------------------------------------------------------------------------
\* The types of Transport, for any number of processes, paths and days.
THEOREM TransportTypeOK == TransportSpec => []TransportTypes
<1>1. TransportInv => TransportTypes
  BY DEF TransportInv
<1> QED BY <1>1, TransportInvariance, PTL

\* No sweep of any process takes an envelope that has never been replied to
\* (handoff_to_codex.sh:484-491).
THEOREM SweepKeepsUnreplied == TransportSpec => UnrepliedKept
<1>1. ASSUME TransportInv, [TransportNext]_transportVars
      PROVE  \A p \in Paths :
               envelopes[p].kind = "file" /\ envelopes'[p].kind # "file" => p \in answered
  BY <1>1, EnvelopeSteps DEF TransportInv, EnvelopeStep
<1> QED BY <1>1, TransportInvariance, PTL DEF TransportSpec, UnrepliedKept

\* What a process reports as published is its own envelope, at its path, until
\* it is replied to (atomic_write).
THEOREM PublishedEnvelope == TransportSpec => []PublishedIsOurs
<1>1. TransportInv => PublishedIsOurs
  BY DEF TransportInv, LinkedStays, PublishedIsOurs
<1> QED BY <1>1, TransportInvariance, PTL
=============================================================================
