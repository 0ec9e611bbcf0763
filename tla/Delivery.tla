------------------------------ MODULE Delivery ------------------------------
(***************************************************************************)
(* One invocation of handoff_to_codex.sh, from the envelope to the line    *)
(* that tells the operator what happened, with the pipe client it spawns,  *)
(* the router and renderer at the other end of the pipe, and the operator  *)
(* who may paste the pickup line.                                          *)
(*                                                                         *)
(* The client writes the follower frame before it waits for an answer, so  *)
(* from that moment the wrapper cannot know whether the task runs unless   *)
(* the answer says so.  The router and the renderer act on a frame in      *)
(* their own time: after the client timed out, after the wrapper exited,   *)
(* after either was killed.                                                *)
(*                                                                         *)
(* Modelled elsewhere: the text of the envelope, the host inventory behind *)
(* a host check and the foreground logic of the activation helper (here a  *)
(* nondeterministic verdict and exit status), the bounded observation of   *)
(* the rollout after an accepted send (a nondeterministic token).          *)
(***************************************************************************)
EXTENDS Naturals, FiniteSets

CONSTANT PollWindow    \* poll intervals that fit in the retry window

ASSUME PollWindowAssumption == PollWindow \in Nat \ {0}

VARIABLES
  mode,       \* "filedrop", "manual" or "live": how the wrapper was called
  config,     \* settings in force: foreground policy, its acknowledgement,
              \* the autoload mode and the kind of the intended host
  pc,         \* control point of the wrapper
  envelope,   \* "absent", "ours", or "foreign": the path was occupied
  target,     \* class the one inspection snapshot gave the target thread
  window,     \* poll intervals left in the retry window
  line,       \* the last RESULT line printed
  lines,      \* how many RESULT lines were printed
  pickup,     \* TRUE once the pickup line was printed
  waitHint,   \* TRUE once the WAIT line was printed
  tries,      \* clients spawned so far
  client,     \* state of the current client process
  doc,        \* what the last client left: its exit status and document
  wire,       \* wire[n]: what became of the n-th client's follower frame
  reply,      \* answer travelling back to the current client
  pasted      \* TRUE once the operator pasted the pickup line

settings == <<mode, config>>
printed == <<line, lines, pickup, waitHint>>
clientVars == <<tries, client, doc>>
peerVars == <<wire, reply>>
vars == <<settings, pc, envelope, target, window, printed, clientVars,
          peerVars, pasted>>

-----------------------------------------------------------------------------
Attempts == 1 .. PollWindow + 1

Modes == {"filedrop", "manual", "live"}
Configs == [policy : {"defer", "switch", "restore-if-known", "invalid"},
            ack : BOOLEAN,
            autoload : {"off", "codex-uri"},
            intended : {"package", "alternate"}]
Eligible == {"active", "legacy-root-assumed"}
Ineligible == {"archived", "non-root", "model-empty", "missing", "ambiguous"}
Wire == {"unsent", "piped", "owner", "admitted", "refused", "dropped"}
Answers == {"none", "success", "no-client", "error"}
Documents == {"success", "no-client", "error", "garbled", "none"}
Control == {"start", "file-drop", "policy", "inspect", "host-check", "client",
            "autoload", "poll", "done", "killed"}
NoLine == [class |-> "none", confirmation |-> "none"]
Lines == [class : {"gui-delivered"}, confirmation : {"rollout"}]
         \cup [class : {"gui-unowned", "failed-closed"}, confirmation : {"not-attempted"}]
         \cup [class : {"failed-closed"}, confirmation : {"unknown"}]

TypeOK ==
  /\ mode \in Modes
  /\ config \in Configs
  /\ pc \in Control
  /\ envelope \in {"absent", "ours", "foreign"}
  /\ target \in Eligible \cup Ineligible \cup {"unknown"}
  /\ window \in 0 .. PollWindow
  /\ line \in Lines \cup {NoLine}
  /\ lines \in Nat
  /\ pickup \in BOOLEAN
  /\ waitHint \in BOOLEAN
  /\ tries \in 0 .. PollWindow + 1
  /\ client \in {"idle", "connecting", "initializing", "awaiting"}
  /\ doc \in Documents
  /\ wire \in [Attempts -> Wire]
  /\ reply \in Answers
  /\ pasted \in BOOLEAN

Init ==
  /\ mode \in Modes
  /\ config \in Configs
  /\ pc = "start"
  /\ envelope \in {"absent", "foreign"}
  /\ target = "unknown"
  /\ window = 0
  /\ line = NoLine
  /\ lines = 0
  /\ pickup = FALSE
  /\ waitHint = FALSE
  /\ tries = 0
  /\ client = "idle"
  /\ doc = "none"
  /\ wire = [n \in Attempts |-> "unsent"]
  /\ reply = "none"
  /\ pasted = FALSE

-----------------------------------------------------------------------------
(***************************************************************************)
(* The wrapper.                                                            *)
(***************************************************************************)

\* The wrapper prints a RESULT line and exits.  fallback() adds the pickup
\* line; fallback_ambiguous() and the retained-envelope notices do not.
Report(class, confirmation, offer) ==
  /\ pc' = "done"
  /\ line' = [class |-> class, confirmation |-> confirmation]
  /\ lines' = lines + 1
  /\ pickup' = offer

\* Nothing is written for a dispatch whose path is taken; a failed link
\* (permission, quota) leaves nothing either.
Publish ==
  /\ pc = "start"
  /\ \/ /\ envelope = "absent"
        /\ envelope' = "ours"
        /\ pc' = CASE mode = "filedrop" -> "file-drop"
                   [] mode = "manual" -> "inspect"
                   [] OTHER -> "policy"
     \/ /\ pc' = "done"
        /\ UNCHANGED envelope
  /\ UNCHANGED <<settings, target, window, printed, clientVars, peerVars, pasted>>

FileDrop ==
  /\ pc = "file-drop"
  /\ pickup' = TRUE
  /\ pc' = "done"
  /\ UNCHANGED <<settings, envelope, target, window, line, lines, waitHint,
                 clientVars, peerVars, pasted>>

\* Foreground settings are judged only after the envelope exists.
CheckPolicy ==
  /\ pc = "policy"
  /\ \/ /\ config.policy = "invalid"
        /\ Report("failed-closed", "not-attempted", FALSE)
     \/ /\ config.policy = "switch" /\ ~config.ack
        /\ Report("gui-unowned", "not-attempted", FALSE)
     \/ /\ config.policy # "invalid"
        /\ config.policy = "switch" => config.ack
        /\ pc' = "inspect"
        /\ UNCHANGED <<line, lines, pickup>>
  /\ UNCHANGED <<settings, envelope, target, window, waitHint, clientVars,
                 peerVars, pasted>>

\* Fault: the refusal of an ineligible target prints the pickup line too.
RefuseWithPickup ==
  IF mode = "live"
  THEN Report("failed-closed", "not-attempted", TRUE)
  ELSE pc' = "done" /\ pickup' = TRUE /\ UNCHANGED <<line, lines>>

\* A live refusal prints a RESULT line, a manual one only an error.
Refuse ==
  IF mode = "live"
  THEN Report("failed-closed", "not-attempted", FALSE)
  ELSE pc' = "done" /\ UNCHANGED <<line, lines, pickup>>

NodeMissing ==
  /\ pc = "inspect"
  /\ Refuse
  /\ UNCHANGED <<settings, envelope, target, window, waitHint, clientVars,
                 peerVars, pasted>>

\* One snapshot of the target decides both modes, and every later retry.
InspectTarget ==
  /\ pc = "inspect"
  /\ target' \in Eligible \cup Ineligible
  /\ \/ /\ target' \in Ineligible
        /\ Refuse
        /\ UNCHANGED waitHint
     \/ /\ target' \in Eligible /\ mode = "manual"
        /\ pickup' = TRUE
        /\ waitHint' = TRUE
        /\ pc' = "done"
        /\ UNCHANGED <<line, lines>>
     \/ /\ target' \in Eligible /\ mode = "live"
        /\ pc' = "host-check"
        /\ UNCHANGED printed
  /\ UNCHANGED <<settings, envelope, window, clientVars, peerVars, pasted>>

\* send_live: a fresh host check, then one client.
SendLive ==
  /\ pc = "host-check"
  /\ pc' = "client"
  /\ tries' = tries + 1
  /\ client' = "connecting"
  /\ doc' = "none"
  /\ reply' = "none"
  /\ UNCHANGED <<settings, envelope, target, window, printed, wire, pasted>>

HostRefused ==
  /\ pc = "host-check"
  /\ Report("gui-unowned", "not-attempted", TRUE)
  /\ UNCHANGED <<settings, envelope, target, window, waitHint, clientVars,
                 peerVars, pasted>>

ClientExited == pc = "client" /\ client = "idle"

\* Fault: the accepted branch forgets to exit.
AcceptedFallsThrough ==
  /\ ClientExited
  /\ doc = "success"
  /\ line' = [class |-> "gui-delivered", confirmation |-> "rollout"]
  /\ lines' = lines + 1
  /\ waitHint' = TRUE
  /\ doc' = "garbled"
  /\ UNCHANGED <<settings, pc, envelope, target, window, pickup, tries, client,
                 peerVars, pasted>>

\* authoritative_success: the parsed document of a client that exited 0.
Accepted ==
  /\ ClientExited
  /\ doc = "success"
  /\ Report("gui-delivered", "rollout", FALSE)
  /\ waitHint' = TRUE
  /\ UNCHANGED <<settings, envelope, target, window, clientVars, peerVars, pasted>>

\* Fault: an ambiguous outcome offers the file-drop fallback.
AmbiguousWithPickup ==
  /\ ClientExited
  /\ doc \notin {"success", "no-client"}
  /\ Report("failed-closed", "unknown", TRUE)
  /\ UNCHANGED <<settings, envelope, target, window, waitHint, clientVars,
                 peerVars, pasted>>

\* Any answer that is neither an exact success nor an exact no-client.
Ambiguous ==
  /\ ClientExited
  /\ doc \notin {"success", "no-client"}
  /\ Report("failed-closed", "unknown", FALSE)
  /\ UNCHANGED <<settings, envelope, target, window, waitHint, clientVars,
                 peerVars, pasted>>

\* Fault: every error answer is read as the router's no-client-found.
NotLoadedOnAnyError ==
  /\ ClientExited
  /\ doc \in {"no-client", "error"}
  /\ tries = 1
  /\ IF config.autoload = "codex-uri" /\ config.intended = "package"
     THEN pc' = "autoload" /\ UNCHANGED <<line, lines, pickup>>
     ELSE Report("gui-unowned", "not-attempted", TRUE)
  /\ UNCHANGED <<settings, envelope, target, window, waitHint, clientVars,
                 peerVars, pasted>>

\* authoritative_no_client on the first client: activate the host, or stop.
NotLoaded ==
  /\ ClientExited
  /\ doc = "no-client"
  /\ tries = 1
  /\ IF config.autoload = "codex-uri" /\ config.intended = "package"
     THEN pc' = "autoload" /\ UNCHANGED <<line, lines, pickup>>
     ELSE Report("gui-unowned", "not-attempted", TRUE)
  /\ UNCHANGED <<settings, envelope, target, window, waitHint, clientVars,
                 peerVars, pasted>>

\* Fault: a retry that fails in any way is retried again.
RetryAnyFailure ==
  /\ ClientExited
  /\ doc # "success"
  /\ tries > 1
  /\ pc' = "poll"
  /\ UNCHANGED <<settings, envelope, target, window, printed, clientVars,
                 peerVars, pasted>>

\* The same answer on a retry goes back to the head of the poll loop.
StillNotLoaded ==
  /\ ClientExited
  /\ doc = "no-client"
  /\ tries > 1
  /\ pc' = "poll"
  /\ UNCHANGED <<settings, envelope, target, window, printed, clientVars,
                 peerVars, pasted>>

\* Exit statuses of the activation helper: 0 and 1 went through, 2 to 6 are
\* its contract's refusals, anything else is outside the contract.
AutoloadReturns ==
  /\ pc = "autoload"
  /\ \/ /\ pc' = "poll"
        /\ window' = PollWindow
        /\ UNCHANGED <<line, lines, pickup>>
     \/ /\ \E class \in {"gui-unowned", "failed-closed"} :
             Report(class, "not-attempted", TRUE)
        /\ UNCHANGED window
  /\ UNCHANGED <<settings, envelope, target, waitHint, clientVars, peerVars, pasted>>

\* Fault: the loop runs once more when the deadline is already reached.
PollPastDeadline ==
  /\ pc = "poll"
  /\ window' \in 0 .. window
  /\ pc' = "host-check"
  /\ UNCHANGED <<settings, envelope, target, printed, clientVars, peerVars, pasted>>

\* One sleep, and whatever time the previous send took, leaves the window.
PollAgain ==
  /\ pc = "poll"
  /\ window > 0
  /\ window' \in 0 .. window - 1
  /\ pc' = "host-check"
  /\ UNCHANGED <<settings, envelope, target, printed, clientVars, peerVars, pasted>>

PollExpired ==
  /\ pc = "poll"
  /\ window = 0
  /\ Report("gui-unowned", "not-attempted", TRUE)
  /\ UNCHANGED <<settings, envelope, target, window, waitHint, clientVars,
                 peerVars, pasted>>

\* The operator interrupts the wrapper; its client may live on.
Kill ==
  /\ pc \notin {"done", "killed"}
  /\ pc' = "killed"
  /\ UNCHANGED <<settings, envelope, target, window, printed, clientVars,
                 peerVars, pasted>>

Wrapper ==
  \/ Publish \/ FileDrop \/ CheckPolicy \/ NodeMissing \/ InspectTarget
  \/ SendLive \/ HostRefused \/ Accepted \/ Ambiguous \/ NotLoaded
  \/ StillNotLoaded \/ AutoloadReturns \/ PollAgain \/ PollExpired

-----------------------------------------------------------------------------
(***************************************************************************)
(* The client process of the current attempt (codex_ipc_client.mjs).       *)
(***************************************************************************)

Connect ==
  /\ client = "connecting"
  /\ client' = "initializing"
  /\ UNCHANGED <<settings, pc, envelope, target, window, printed, tries, doc,
                 peerVars, pasted>>

\* The initialize answer names a client id: the follower frame is written.
WriteFollower ==
  /\ client = "initializing"
  /\ client' = "awaiting"
  /\ wire' = [wire EXCEPT ![tries] = "piped"]
  /\ UNCHANGED <<settings, pc, envelope, target, window, printed, tries, doc,
                 reply, pasted>>

\* The response with our request id: the client prints one document and
\* exits by its resultType; a document cut short is no longer exact.
Answered ==
  /\ client = "awaiting"
  /\ reply # "none"
  /\ client' = "idle"
  /\ doc' \in {reply, "garbled"}
  /\ UNCHANGED <<settings, pc, envelope, target, window, printed, tries,
                 peerVars, pasted>>

\* Fault: the wait for the follower response has no timer.
ThrowsOnlyBeforeWrite ==
  /\ client \in {"connecting", "initializing"}
  /\ client' = "idle"
  /\ doc' = "none"
  /\ UNCHANGED <<settings, pc, envelope, target, window, printed, tries,
                 peerVars, pasted>>

\* A timeout, a socket error or close, a failed initialize: the client
\* throws before it prints a document.  Each wait has its own timer.
ClientThrows ==
  /\ client # "idle"
  /\ client' = "idle"
  /\ doc' = "none"
  /\ UNCHANGED <<settings, pc, envelope, target, window, printed, tries,
                 peerVars, pasted>>

Client == Connect \/ WriteFollower \/ Answered \/ ClientThrows

-----------------------------------------------------------------------------
(***************************************************************************)
(* The router and the renderer that owns the thread (external).            *)
(***************************************************************************)

\* An answer reaches the client only while it still waits for that frame.
Answer(n, a) ==
  reply' = IF n = tries /\ client = "awaiting" /\ reply = "none" THEN a ELSE reply

RouterForwards(n) ==
  /\ wire[n] = "piped"
  /\ wire' = [wire EXCEPT ![n] = "owner"]
  /\ UNCHANGED reply

\* "no-client-found": the router knows no owner and drops the frame for good.
RouterRefuses(n) ==
  /\ wire[n] = "piped"
  /\ wire' = [wire EXCEPT ![n] = "refused"]
  /\ Answer(n, "no-client")

PeerDrops(n) ==
  /\ wire[n] \in {"piped", "owner"}
  /\ wire' = [wire EXCEPT ![n] = "dropped"]
  /\ Answer(n, "error")

\* thread-follower-start-turn-timeout: an error while the turn may still start.
RendererTimesOut(n) ==
  /\ wire[n] = "owner"
  /\ Answer(n, "error")
  /\ UNCHANGED wire

RendererAdmits(n) ==
  /\ wire[n] = "owner"
  /\ wire' = [wire EXCEPT ![n] = "admitted"]
  /\ Answer(n, "success")

Peer ==
  /\ \E n \in Attempts : \/ RouterForwards(n) \/ RouterRefuses(n) \/ PeerDrops(n)
                         \/ RendererTimesOut(n) \/ RendererAdmits(n)
  /\ UNCHANGED <<settings, pc, envelope, target, window, printed, clientVars, pasted>>

\* An operator who follows the printed instruction pastes the line once.
Paste ==
  /\ pickup
  /\ ~pasted
  /\ pasted' = TRUE
  /\ UNCHANGED <<settings, pc, envelope, target, window, printed, clientVars, peerVars>>

Next == Wrapper \/ Kill \/ Client \/ Peer \/ Paste

\* The wrapper is a sequential script and each client wait has a timer, so
\* both always go on; the router, the renderer and the operator need not.
Fairness == WF_vars(Wrapper) /\ WF_vars(Client)

Spec == Init /\ [][Next]_vars /\ Fairness

-----------------------------------------------------------------------------
(***************************************************************************)
(* Properties.                                                             *)
(***************************************************************************)

Admitted == {n \in Attempts : wire[n] = "admitted"}
Executions == Cardinality(Admitted) + (IF pasted THEN 1 ELSE 0)

\* The task of one dispatch is started at most once, by the pipe or by the
\* operator who pastes what the wrapper printed, however late a frame is
\* acted on (references/architecture.md: ambiguous outcomes are never retried).
AtMostOneExecution == Executions <= 1

\* "not-attempted" and the pickup line both say the pipe did not start the
\* task and never will: no frame is in the pipe or with an owner.
NonAdmissionProven ==
  (pickup \/ line.confirmation = "not-attempted")
    => \A n \in Attempts : wire[n] \in {"unsent", "refused"}

\* The pickup line is only printed for a published envelope and, when it is
\* bound to a thread, for a target the inspection found eligible; the WAIT
\* line only for a task that was or can still be started.
PickupIsSafe ==
  /\ pickup => envelope = "ours" /\ (mode = "filedrop" \/ target \in Eligible)
  /\ waitHint => pickup \/ Admitted # {}

\* A new client is spawned only when every earlier frame was refused.
NoSendAfterDoubt ==
  [][tries' # tries => \A n \in 1 .. tries : wire[n] = "refused"]_vars

\* ARCHITECTURE.md:231: exactly one RESULT line follows every post-envelope
\* live outcome, unless the wrapper is killed first.
OneResultLine ==
  lines <= 1 /\ (pc = "done" /\ mode = "live" /\ envelope = "ours" => lines = 1)

\* Every wrapper that published comes to an end by itself.
WrapperEnds == envelope = "ours" ~> pc \in {"done", "killed"}

\* The strengthening that makes the safety properties inductive.  It ties
\* each control point to what the wire can still do:
\*   - before and between attempts nothing is in flight (Quiet), which is
\*     what lets a report that follows print the pickup line;
\*   - an answer, and the document made of it, says what became of the
\*     current frame;
\*   - only the current frame is not refused.
Quiet == client = "idle" /\ \A n \in Attempts : wire[n] \in {"unsent", "refused"}

WireInv ==
  /\ \A n \in Attempts : n < tries => wire[n] = "refused"
  /\ \A n \in Attempts : n > tries => wire[n] = "unsent"
  /\ client # "idle" => tries > 0
  /\ client \in {"connecting", "initializing"} => wire[tries] = "unsent"

AnswerInv ==
  /\ reply # "none" => tries > 0
  /\ reply = "no-client" => wire[tries] = "refused"
  /\ reply = "success" => wire[tries] = "admitted"
  /\ doc \in {"success", "no-client"} => tries > 0 /\ client = "idle"
  /\ doc = "no-client" => wire[tries] = "refused"
  /\ doc = "success" => wire[tries] = "admitted"

ControlInv ==
  /\ pc \in {"start", "file-drop", "policy", "inspect", "host-check",
             "autoload", "poll"} => Quiet
  /\ pc \in {"host-check", "autoload", "poll"} =>
       \A n \in Attempts : n <= tries => wire[n] = "refused"
  /\ pc \in {"start", "file-drop", "policy", "inspect"} => tries = 0
  /\ pc = "start" => envelope # "ours"
  /\ tries > 0 => envelope = "ours"
  /\ pc = "client" => tries > 0
  /\ pc \notin {"start", "done", "killed"} => envelope = "ours"
  /\ pc = "file-drop" => mode = "filedrop"
  /\ pc \in {"policy", "host-check", "client", "autoload", "poll"} => mode = "live"
  /\ pc = "inspect" => mode \in {"live", "manual"}
  /\ pc \in {"host-check", "client", "autoload", "poll"} => target \in Eligible
  /\ pc # "done" => line = NoLine /\ lines = 0 /\ ~pickup /\ ~waitHint
  /\ pc \in {"host-check", "poll"} => tries + window <= PollWindow + 1
  /\ pc = "host-check" => tries + window <= PollWindow
  /\ pc = "client" => tries + window <= PollWindow + 1
  /\ pc = "autoload" => tries = 1

ReportInv ==
  /\ pickup \/ line.confirmation = "not-attempted" => Quiet
  /\ line.class = "gui-delivered" => tries > 0 /\ wire[tries] = "admitted"
  /\ pasted => pickup

DeliveryInv ==
  TypeOK /\ WireInv /\ AnswerInv /\ ControlInv /\ ReportInv /\ OneResultLine
         /\ PickupIsSafe

\* The promise to the operator, as the abstract specification states it.
claim == IF pickup THEN "pickup"
         ELSE CASE line = NoLine -> "none"
                [] line.class = "gui-delivered" -> "delivered"
                [] line.confirmation = "unknown" -> "unknown"
                [] line.confirmation = "not-attempted" -> "refused"
started == CASE Executions = 0 -> "none"
             [] Executions = 1 -> IF pasted THEN "paste" ELSE "pipe"
             [] OTHER -> "twice"

Promise == INSTANCE AtMostOnceDelivery WITH published <- envelope = "ours"
PromiseSpec == Promise!Spec
=============================================================================
