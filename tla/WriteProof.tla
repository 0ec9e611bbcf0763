------------------------------ MODULE WriteProof ------------------------------
(***************************************************************************)
(* codex_ipc_write_proof: one marked write to a live thread, and the       *)
(* evidence that it arrived, was answered, and touched nothing else.  The  *)
(* harness looks at the thread several times before it writes, spawns one  *)
(* client, polls the rollout for the turn the router named, looks again    *)
(* and compares.  Codex, other users of the thread and of the Desktop, and *)
(* time itself go on between any two of these steps.                       *)
(*                                                                         *)
(* The unit of time is the poll interval; time counts while the harness    *)
(* polls.  A hash stands for the content it is taken of.                   *)
(***************************************************************************)
EXTENDS MarkerConsumer, TurnCuts

CONSTANTS Lines,       \* the records a rollout may hold
          Histories,   \* what the rollout may hold before
          OurTurn,     \* the lines Codex writes for our write
          Foreign,     \* the lines others may cause meanwhile
          Options,     \* the ways the harness may be called
          Attempts,    \* --poll-attempts
          MaxChanges   \* how often others change something meanwhile

ASSUME WriteProofAssumption ==
  /\ Attempts \in Nat \ {0} /\ MaxChanges \in Nat
  /\ Lines \subseteq AllLines /\ Histories \subseteq Seq(Lines)
  /\ Foreign \subseteq Lines /\ OurTurn \in Seq(Lines)
  /\ Options \subseteq [midTurn : BOOLEAN, allowOther : BOOLEAN]

\* A line by which our turn is completed with the marker in its answer.
IsOurEnd(r) == r.kind = "task_complete" /\ r.id = Expected /\ r.last \in Marked

\* The marker is a random name and a turn id is used once, so that only the
\* last line of our own turn can be such a line.
ASSUME OursIsMarked ==
  /\ \A r \in Foreign : ~IsOurEnd(r)
  /\ \A k \in 1 .. Len(OurTurn) - 1 : ~IsOurEnd(OurTurn[k])

VARIABLES
  \* the target thread, its page, and what the write must not touch
  disk,        \* the complete lines of the page
  torn,        \* is an unfinished line after them?
  file,        \* which file the page's path names, 0 for none
  row,         \* the target's row: version, archived, moved to another page
  other,       \* the row of another thread: is it there, and its version
  config,      \* the version of config.toml; no content recurs
  changes, clock,
  \* the write
  frame,       \* the follower frame: "unsent", "piped", "taken", "dropped"
  turn,        \* how many lines of our turn have been written
  \* the harness
  pc, options,
  candidate,   \* identity of the file located
  baseline,    \* what the baseline read certified
  before, after,   \* the two snapshots
  doc,         \* what the client left
  attempt, started,             \* the poll
  goal,        \* how many lines the page had when the read began
  complete,    \* did the last read reach the end of the page?
  records, consumer,            \* what it read after the baseline
  proven,
  report,
  sentTo,      \* history: the page at the last look before the write
  lastRead,    \* history: the page when a read last ended
  meddled      \* history: did others change something between the snapshots?

page == <<disk, torn, file>>
rows == <<row, other, config>>
world == <<page, rows, changes, clock, frame, turn, meddled>>
gates == <<options, candidate, baseline>>
snapshots == <<before, after>>
polling == <<attempt, started, goal, complete, records, consumer, proven>>
vars == <<world, pc, gates, snapshots, doc, polling, report, sentTo, lastRead>>

NoBaseline == [ok |-> FALSE, lines |-> <<>>]
NoSnapshot == [ok |-> FALSE, config |-> 0, row |-> [version |-> 0, archived |-> FALSE, moved |-> FALSE],
               other |-> [exists |-> FALSE, version |-> 0]]

\* The rollout as far as it has been verified.
Verified == baseline.lines \o records

-----------------------------------------------------------------------------
(***************************************************************************)
(* What others do to the page, the rows and the configuration.             *)
(***************************************************************************)

\* The snapshots look at the configuration first, then at the rows.
ConfigWatched == before.ok /\ pc \notin {"before-config", "after-rows", "judge", "done"}
RowsWatched == before.ok /\ pc \notin {"before-rows", "judge", "done"}

Harness == <<pc, gates, snapshots, doc, polling, report, sentTo, lastRead>>

Change(watched) ==
  /\ changes < MaxChanges /\ pc # "done"
  /\ changes' = changes + 1
  /\ meddled' = (meddled \/ watched)
  /\ UNCHANGED <<clock, frame, turn, Harness>>

ForeignLine ==
  /\ Change(FALSE) /\ file # 0
  /\ \E r \in Foreign : disk' = Append(disk, r)
  /\ torn' = FALSE
  /\ UNCHANGED <<file, rows>>

TearLine ==
  /\ Change(FALSE) /\ file # 0 /\ ~torn
  /\ torn' = TRUE
  /\ UNCHANGED <<disk, file, rows>>

RewriteLine ==
  /\ Change(FALSE) /\ file # 0
  /\ \E k \in DOMAIN disk, r \in Foreign : disk' = [disk EXCEPT ![k] = r]
  /\ UNCHANGED <<torn, file, rows>>

\* The path names another file, or none, or the first one again.
MoveFile ==
  /\ Change(FALSE)
  /\ file' \in {0, 1, 2} \ {file}
  /\ UNCHANGED <<disk, torn, rows>>

\* The thread is renamed, archived, or goes on on another page.
ChangeRow ==
  /\ Change(FALSE)
  /\ row' \in {[version |-> row.version + 1, archived |-> a, moved |-> m] :
                 a \in BOOLEAN, m \in {row.moved, pc # "inspect"}}
  /\ UNCHANGED <<page, other, config>>

\* The harness may be called with leave for the other row to change, but
\* not to go.  A row that is gone does not come back.
ChangeOther ==
  /\ other.exists
  /\ other' \in {[exists |-> e, version |-> other.version + 1] : e \in BOOLEAN}
  /\ Change(RowsWatched /\ ~(options.allowOther /\ other'.exists))
  /\ UNCHANGED <<page, row, config>>

ChangeConfig ==
  /\ Change(ConfigWatched)
  /\ config' = config + 1
  /\ UNCHANGED <<page, row, other>>

\* The router forwards the frame to Codex, or has nobody to forward it to.
RouteFrame ==
  /\ frame = "piped"
  /\ frame' \in {"taken", "dropped"}
  /\ UNCHANGED <<page, rows, changes, clock, turn, meddled, Harness>>

\* Codex writes our turn, a line at a time; its beginning changes the row.
WriteOurTurn ==
  /\ frame = "taken" /\ turn < Len(OurTurn) /\ file # 0
  /\ turn' = turn + 1
  /\ disk' = IF row.moved THEN disk ELSE Append(disk, OurTurn[turn + 1])
  /\ torn' = (torn /\ row.moved)
  /\ row' = IF turn = 0 THEN [row EXCEPT !.version = @ + 1] ELSE row
  /\ UNCHANGED <<file, other, config, changes, clock, frame, meddled, Harness>>

Tick ==
  /\ pc \in {"poll", "read", "reading", "pause", "sleep"} /\ clock < Attempts
  /\ clock' = clock + 1
  /\ UNCHANGED <<page, rows, changes, frame, turn, meddled, Harness>>

World == \/ ForeignLine \/ TearLine \/ RewriteLine \/ MoveFile \/ ChangeRow \/ ChangeOther
         \/ ChangeConfig \/ RouteFrame \/ WriteOurTurn \/ Tick

-----------------------------------------------------------------------------
(***************************************************************************)
(* Before the write.  Each look is a process or a read that may fail, and  *)
(* a failure ends the harness before it has written.                       *)
(***************************************************************************)

Goto(label) == pc' = label /\ UNCHANGED report

Refuse == pc' = "done" /\ report' = "refused"

\* The activity of the latest turn, as readRolloutActivity has it.
ThreadActivity(str) == LatestActivity(Finish(Fed(str), DriftOf(str)).turns)

\* Fault: --allow-mid-turn overrides an ambiguous activity too.
AdmittedMidTurn(activity) == activity = "closed" \/ options.midTurn

\* turnActivityFailure
Admitted(activity) == activity = "closed" \/ (activity = "open" /\ options.midTurn)

InspectTarget ==
  /\ pc = "inspect"
  /\ \/ Refuse
     \/ /\ file # 0 /\ ~torn /\ ~row.archived /\ Admitted(ThreadActivity(disk))
        /\ Goto("revalidate")
  /\ UNCHANGED <<world, gates, snapshots, doc, polling, sentTo, lastRead>>

RevalidateRuntime ==
  /\ pc = "revalidate"
  /\ Refuse \/ Goto("locate")
  /\ UNCHANGED <<world, gates, snapshots, doc, polling, sentTo, lastRead>>

\* locateRollout on the path the inspection found.
Locate ==
  /\ pc = "locate"
  /\ \/ Refuse /\ UNCHANGED candidate
     \/ file # 0 /\ candidate' = file /\ Goto("baseline")
  /\ UNCHANGED <<world, options, baseline, snapshots, doc, polling, sentTo, lastRead>>

\* The baseline is judged only after the snapshot; a read that is cut short,
\* or during which the page grows, certifies nothing.
ReadBaseline ==
  /\ pc = "baseline"
  /\ \/ baseline' = NoBaseline
     \/ /\ file = candidate /\ ~torn
        /\ baseline' = [ok |-> TRUE, lines |-> disk]
  /\ Goto("before-config")
  /\ UNCHANGED <<world, options, candidate, snapshots, doc, polling, sentTo, lastRead>>

\* The snapshot before the write: config.toml, then the rows in one query.
\* It is refused if either was written to while it was read.
SnapshotConfig ==
  /\ pc = "before-config"
  /\ \/ Refuse /\ UNCHANGED before
     \/ before' = [NoSnapshot EXCEPT !.ok = TRUE, !.config = config] /\ Goto("before-rows")
  /\ UNCHANGED <<world, gates, after, doc, polling, sentTo, lastRead>>

SnapshotRows ==
  /\ pc = "before-rows"
  /\ \/ Refuse /\ UNCHANGED before
     \/ before' = [before EXCEPT !.row = row, !.other = other] /\ Goto("authorize")
  /\ UNCHANGED <<world, gates, after, doc, polling, sentTo, lastRead>>

\* validatePreSendSnapshot and the first half of authorizeBaselineAndSend.
Authorize ==
  /\ pc = "authorize"
  /\ IF /\ ~before.row.archived
        /\ baseline.ok /\ ~before.row.moved
        /\ Admitted(ThreadActivity(baseline.lines))
     THEN Goto("reread")
     ELSE Refuse
  /\ UNCHANGED <<world, gates, snapshots, doc, polling, sentTo, lastRead>>

\* Fault: the cursor is compared by identity and size only.
RereadSize ==
  /\ pc = "reread"
  /\ \/ Refuse /\ UNCHANGED sentTo
     \/ /\ file = candidate /\ Len(disk) = Len(baseline.lines) /\ ~torn
        /\ sentTo' = disk /\ Goto("connect")
  /\ UNCHANGED <<world, gates, snapshots, doc, polling, lastRead>>

\* The last look: the page is still what the baseline read certified.
Reread ==
  /\ pc = "reread"
  /\ \/ Refuse /\ UNCHANGED sentTo
     \/ /\ file = candidate /\ disk = baseline.lines /\ ~torn
        /\ sentTo' = disk /\ Goto("connect")
  /\ UNCHANGED <<world, gates, snapshots, doc, polling, lastRead>>

-----------------------------------------------------------------------------
(***************************************************************************)
(* The write: one client process, whose frame stays written whatever       *)
(* becomes of the client.                                                  *)
(***************************************************************************)

\* The client ends before it has written: no pipe, no client id.
ClientFails ==
  /\ pc = "connect"
  /\ doc' = "garbled" /\ Goto("evidence")
  /\ UNCHANGED <<world, gates, snapshots, polling, sentTo, lastRead>>

WriteFrame ==
  /\ pc = "connect"
  /\ frame' = "piped" /\ Goto("await")
  /\ UNCHANGED <<page, rows, changes, clock, turn, meddled, gates, snapshots, doc, polling,
                 sentTo, lastRead>>

\* The client ends with the answer, or without one by its timer.  A success
\* may name the turn, or none or several.
ClientReturns ==
  /\ pc = "await"
  /\ \/ doc' \in {"garbled", "error"}
     \/ frame = "taken" /\ doc' \in {"success", "nameless"}
  /\ Goto("evidence")
  /\ UNCHANGED <<world, gates, snapshots, polling, sentTo, lastRead>>

\* Fault: any output of the client will do.
SendOccurrenceOfAny == IF doc = "none" THEN "unknown" ELSE "confirmed"

\* sendMarkerTask: what the document proves.  It lists the frames written,
\* so a document of any kind confirms the write.
SendOccurrence == IF doc = "garbled" THEN "unknown" ELSE "confirmed"
Certified == doc \in {"success", "nameless"}

\* collectPostSendEvidence polls for the turn a certified answer named.
StartEvidence ==
  /\ pc = "evidence"
  /\ Goto(IF doc = "success" THEN "poll" ELSE "after-config")
  /\ UNCHANGED <<world, gates, snapshots, doc, polling, sentTo, lastRead>>

-----------------------------------------------------------------------------
(***************************************************************************)
(* pollRolloutForMarker: read on from the baseline until the proof is      *)
(* there, the attempts are used up, or the time is.                        *)
(***************************************************************************)

\* Fault: what was read before is not verified again.
SameIdentity == file = candidate

\* Lines are in place and the path names the file of the baseline.
SameFile == file = candidate /\ IsPrefix(Verified, disk)

DeadlinePassed == clock >= Attempts

\* Only an attempt that is not the last may skip the read of an unchanged page.
ForceRead == attempt = Attempts \/ clock + 1 >= Attempts

Unchanged == complete /\ file = candidate /\ Len(disk) = Len(Verified) /\ ~torn

Poll ==
  /\ pc = "poll"
  /\ Goto(IF attempt > 1 /\ DeadlinePassed THEN "after-config"
          ELSE IF ~ForceRead /\ Unchanged THEN "pause" ELSE "read")
  /\ UNCHANGED <<world, gates, snapshots, doc, polling, sentTo, lastRead>>

OpenRead ==
  /\ pc = "read"
  /\ SameFile /\ ~DeadlinePassed
  /\ goal' = Len(disk) /\ Goto("reading")
  /\ UNCHANGED <<world, gates, snapshots, doc, attempt, started, complete, records, consumer,
                 proven, sentTo, lastRead>>

\* The consumer gets the lines once the read is trusted; the poll ends with
\* a read that is not, so that it may as well get them as they are read.
ReadLine ==
  /\ pc = "reading"
  /\ Len(Verified) < Len(disk)
  /\ LET r == disk[Len(Verified) + 1]
     IN /\ records' = Append(records, r)
        /\ consumer' = ConsumeLine(consumer, records, r)
  /\ Goto("reading")
  /\ UNCHANGED <<world, gates, snapshots, doc, attempt, started, goal, complete, proven,
                 sentTo, lastRead>>

\* The poll is over if a read to the end of the page shows the proof.
EndRead ==
  /\ pc = "reading"
  /\ SameFile /\ ~DeadlinePassed /\ Len(Verified) >= goal
  /\ complete' = (Len(Verified) = Len(disk) /\ ~torn)
  /\ lastRead' = disk
  /\ proven' = (complete' /\ Proven(consumer, records))
  /\ Goto(IF proven' THEN "after-config" ELSE "pause")
  /\ UNCHANGED <<world, gates, snapshots, doc, attempt, started, goal, records, consumer, sentTo>>

\* A page that is not there may come back.
ReadMissing ==
  /\ pc = "read" /\ file = 0
  /\ Goto("pause")
  /\ UNCHANGED <<world, gates, snapshots, doc, polling, sentTo, lastRead>>

ReadFails ==
  /\ \/ pc = "read" /\ file # 0 /\ ~SameFile
     \/ pc = "reading" /\ (~SameFile \/ Len(disk) < goal)
     \/ pc \in {"read", "reading"} /\ file # 0 /\ DeadlinePassed
  /\ Goto("after-config")
  /\ UNCHANGED <<world, gates, snapshots, doc, polling, sentTo, lastRead>>

Pause ==
  /\ pc = "pause"
  /\ IF attempt < Attempts /\ ~DeadlinePassed
     THEN started' = clock /\ Goto("sleep")
     ELSE UNCHANGED started /\ Goto("after-config")
  /\ UNCHANGED <<world, gates, snapshots, doc, attempt, goal, complete, records, consumer,
                 proven, sentTo, lastRead>>

\* Fault: the poll wakes up when the page changes.
WakeOnChange ==
  /\ pc = "sleep" /\ clock > started /\ ~Unchanged
  /\ attempt' = attempt + 1 /\ Goto("poll")
  /\ UNCHANGED <<world, gates, snapshots, doc, started, goal, complete, records, consumer,
                 proven, sentTo, lastRead>>

Wake ==
  /\ pc = "sleep" /\ clock > started
  /\ attempt' = attempt + 1 /\ Goto("poll")
  /\ UNCHANGED <<world, gates, snapshots, doc, started, goal, complete, records, consumer,
                 proven, sentTo, lastRead>>

-----------------------------------------------------------------------------
(***************************************************************************)
(* After the write: a failure is reported, it ends nothing.                *)
(***************************************************************************)

AfterConfig ==
  /\ pc = "after-config"
  /\ \/ after' = [NoSnapshot EXCEPT !.ok = TRUE, !.config = config] /\ Goto("after-rows")
     \/ Goto("judge") /\ UNCHANGED after
  /\ UNCHANGED <<world, gates, before, doc, polling, sentTo, lastRead>>

AfterRows ==
  /\ pc = "after-rows"
  /\ after' \in {NoSnapshot, [after EXCEPT !.row = row, !.other = other]}
  /\ Goto("judge")
  /\ UNCHANGED <<world, gates, before, doc, polling, sentTo, lastRead>>

\* Fault: a row that is gone has not changed.
IsolatedIfThere ==
  /\ after.ok
  /\ after.config = before.config
  /\ after.row.version # before.row.version
  /\ ~before.row.archived /\ ~after.row.archived
  /\ after.row.moved = before.row.moved
  /\ after.other.exists /\ ~options.allowOther => after.other.version = before.other.version

\* compareSnapshots: the target's row changed, and nothing else did.
Isolated ==
  /\ after.ok
  /\ after.config = before.config
  /\ after.row.version # before.row.version
  /\ ~before.row.archived /\ ~after.row.archived
  /\ after.row.moved = before.row.moved
  /\ after.other.exists = before.other.exists
  /\ ~options.allowOther => after.other.version = before.other.version

Judge ==
  /\ pc = "judge"
  /\ pc' = "done"
  /\ report' = IF Certified /\ proven /\ Isolated THEN "turn-bound"
               ELSE IF SendOccurrence = "confirmed" THEN "sent-but-unverified"
               ELSE "send-outcome-unknown"
  /\ UNCHANGED <<world, gates, snapshots, doc, polling, sentTo, lastRead>>

Step == \/ InspectTarget \/ RevalidateRuntime \/ Locate \/ ReadBaseline \/ SnapshotConfig
        \/ SnapshotRows \/ Authorize \/ Reread \/ ClientFails \/ WriteFrame \/ ClientReturns
        \/ StartEvidence \/ Poll \/ OpenRead \/ ReadLine \/ EndRead \/ ReadMissing
        \/ ReadFails \/ Pause \/ Wake \/ AfterConfig \/ AfterRows \/ Judge

Init ==
  /\ disk \in Histories /\ torn = FALSE /\ file = 1
  /\ row = NoSnapshot.row /\ other = [exists |-> TRUE, version |-> 0] /\ config = 0
  /\ changes = 0 /\ clock = 0 /\ frame = "unsent" /\ turn = 0 /\ meddled = FALSE
  /\ pc = "inspect" /\ options \in Options /\ candidate = 0
  /\ baseline = NoBaseline /\ before = NoSnapshot /\ after = NoSnapshot /\ doc = "none"
  /\ attempt = 1 /\ started = 0 /\ goal = 0 /\ complete = TRUE
  /\ records = <<>> /\ consumer = EmptyConsumer /\ proven = FALSE
  /\ report = "none" /\ sentTo = <<>> /\ lastRead = <<>>

Next == World \/ Step

\* The harness is one sequential program whose every call returns (each
\* process it starts has a time limit), and time passes.  Nothing is assumed
\* of Codex, of the router or of others.
Spec == Init /\ [][Next]_vars /\ WF_vars(Step) /\ WF_vars(Tick)

-----------------------------------------------------------------------------
Labels == {"inspect", "revalidate", "locate", "baseline", "before-config", "before-rows",
           "authorize", "reread", "connect", "await", "evidence", "poll", "read", "reading",
           "pause", "sleep", "after-config", "after-rows", "judge", "done"}
Reports == {"none", "refused", "turn-bound", "sent-but-unverified", "send-outcome-unknown"}

\* Before the write nothing has been sent, and none of our turn written; a
\* report is there exactly at the end.
TypeOK ==
  /\ disk \in Seq(Lines) /\ torn \in BOOLEAN /\ file \in 0 .. 2
  /\ changes \in 0 .. MaxChanges /\ clock \in 0 .. Attempts
  /\ frame \in {"unsent", "piped", "taken", "dropped"} /\ turn \in 0 .. Len(OurTurn)
  /\ pc \in Labels /\ options \in Options /\ candidate \in 0 .. 2
  /\ baseline.lines \in Seq(Lines) /\ records \in Seq(Lines)
  /\ doc \in {"none", "garbled", "error", "success", "nameless"}
  /\ attempt \in 1 .. Attempts /\ started \in 0 .. clock
  /\ report \in Reports /\ (pc = "done") = (report # "none")
  /\ frame # "taken" => turn = 0

\* When the harness last looked before it wrote, the page was idle, or the
\* latest turn was open and clean and the caller had asked to write into it:
\* never is an ambiguous thread written to.
SendsToIdleThread ==
  frame # "unsent" =>
    \/ IdleAfter(sentTo)
    \/ options.midTurn /\ OpenStarts(sentTo, {}) # {}

\* A refusal says that nothing was or will be written, a report that the
\* frame was sent that it was; this also holds later.
ReportIsTrue ==
  /\ report = "refused" => frame = "unsent" /\ turn = 0
  /\ report \in {"sent-but-unverified", "turn-bound"} => frame # "unsent"

\* "turn-bound" is said only if our whole turn was written and is what the
\* page has shown since it was certified, all of it read, and if from the
\* first snapshot to the second nobody changed the configuration or a row
\* the caller had not named.
TurnBoundIsOurs ==
  report = "turn-bound" =>
    /\ frame = "taken" /\ turn = Len(OurTurn)
    /\ lastRead = Verified
    /\ ProvingEnds(records, {}) # {}
    /\ ~meddled

\* The harness comes to an end with a report.
HarnessEnds == <>(pc = "done")

-----------------------------------------------------------------------------
(***************************************************************************)
(* The strengthening the proofs use.  Before the frame is written nothing  *)
(* has been sent, and what the client left tells what became of it; the    *)
(* page looked at last is the baseline; what is read after it are lines of *)
(* others or of our turn; and what others have changed since the first     *)
(* snapshot shows in the second.                                           *)
(***************************************************************************)
BeforeWrite == {"inspect", "revalidate", "locate", "baseline", "before-config", "before-rows",
                "authorize", "reread", "connect"}
Polling == {"poll", "read", "reading", "pause", "sleep"}
AfterPoll == {"after-config", "after-rows", "judge"}

TypeInv ==
  /\ TypeOK
  /\ DOMAIN before = DOMAIN NoSnapshot /\ DOMAIN after = DOMAIN NoSnapshot
  /\ config \in Nat /\ before.config \in Nat /\ after.config \in Nat
  /\ other.version \in Nat /\ before.other.version \in Nat
  /\ pc = "sleep" => attempt < Attempts

\* What has become of the frame, by what the harness and the client did.
SendInv ==
  /\ pc \in BeforeWrite => frame = "unsent" /\ doc = "none"
  /\ pc = "await" => frame # "unsent" /\ doc = "none"
  /\ pc \in {"evidence"} \cup Polling \cup AfterPoll => doc # "none"
  /\ doc \in {"error", "success", "nameless"} => frame # "unsent"
  /\ doc \in {"success", "nameless"} => frame = "taken"
  /\ ReportIsTrue

\* What the harness knew of the thread when it went on.
LookInv ==
  /\ pc = "reread" => Admitted(ThreadActivity(baseline.lines))
  /\ pc = "connect" \/ frame # "unsent" =>
       IdleAfter(sentTo) \/ (options.midTurn /\ OpenStarts(sentTo, {}) # {})

\* The lines others, or we, have caused so far.
NewLines == Foreign \cup {OurTurn[k] : k \in 1 .. turn}

PollInv ==
  /\ pc \in {"connect", "await", "evidence"} \cup Polling \cup AfterPoll =>
       \A k \in DOMAIN disk : k > Len(baseline.lines) => disk[k] \in NewLines
  /\ \A k \in DOMAIN records : records[k] \in NewLines
  /\ ConsumerInv(consumer, records)
  /\ proven => /\ pc \in AfterPoll \cup {"done"}
               /\ lastRead = Verified /\ ProvingEnds(records, {}) # {}
  /\ report = "turn-bound" => proven /\ frame = "taken"

\* The configuration and the other row as the second snapshot has them, if
\* it has.
SeenConfig == IF pc \in {"after-rows", "judge"} THEN after.config ELSE config
SeenOther == IF pc = "judge" THEN after.other ELSE other

\* Versions only grow, and a row that is gone stays so.
WatchInv ==
  /\ pc \in {"inspect", "revalidate", "locate", "baseline", "before-config"} => ~before.ok
  /\ ~before.ok => ~meddled
  /\ before.ok => before.config <= config
  /\ before.ok /\ pc \notin {"before-rows", "done"} =>
       /\ before.other.version <= other.version
       /\ other.exists => before.other.exists
  /\ pc = "after-rows" => after.ok
  /\ after.ok => pc \in {"after-rows", "judge", "done"}
  /\ meddled /\ pc # "done" /\ (pc = "judge" => after.ok) =>
       \/ before.config < SeenConfig
       \/ pc # "before-rows" /\ before.other.exists /\ ~SeenOther.exists
       \/ pc # "before-rows" /\ ~options.allowOther
            /\ before.other.version < SeenOther.version
  /\ report = "turn-bound" => ~meddled

WriteProofInv == TypeInv /\ SendInv /\ LookInv /\ PollInv /\ WatchInv
=============================================================================
