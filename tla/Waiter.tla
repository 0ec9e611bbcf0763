-------------------------------- MODULE Waiter --------------------------------
(***************************************************************************)
(* codex_ipc_wait: one wait for the end of a dispatch.  The waiter finds   *)
(* the rollout, reads it again and again from where it stopped, correlates *)
(* what it has read, checks that the page it reads is still the current    *)
(* one, looks at the reply file, and prints one token.  Each of these is a *)
(* step of its own here: Codex appends to the rollout and writes the       *)
(* reply, files are replaced, and time passes, between any two of them.    *)
(*                                                                         *)
(* The unit of time is the poll interval.                                  *)
(***************************************************************************)
EXTENDS DispatchCorrelator

CONSTANTS Lines,       \* the records a rollout may hold
          Histories,   \* what the rollout may hold when the wait starts
          Written,     \* the lines that may be written during the wait
          Options,     \* the ways the waiter may be called
          MaxChanges   \* how many changes to the files may happen meanwhile

ASSUME WaiterAssumption ==
  /\ Lines \subseteq AllLines /\ Histories \subseteq Seq(Lines) /\ Written \subseteq Lines
  /\ MaxChanges \in Nat
  /\ Options \subseteq [budget : Nat, explicit : BOOLEAN, scan : BOOLEAN, fallback : BOOLEAN]

VARIABLES
  \* the files, which others write
  disk,        \* the complete lines of the rollout page
  torn,        \* is an unfinished line after them?
  file,        \* which file the page's path names, 0 for none
  successor,   \* is there another page that claims to continue this one?
  reply,       \* the reply file of the dispatch: "absent", "regular", "other"
  rival,       \* is there a reply for the dispatch in another session?
  changes,     \* how many changes the files have seen
  clock,       \* intervals since the wait started
  \* the waiter
  pc, options, iteration,
  started,     \* clock when the iteration, or the sleep after it, started
  candidate,   \* identity of the file located, 0 for none
  records,     \* the lines read so far
  correlator,  \* and what the correlator makes of them
  cursor,      \* where the last read stopped and the size it saw
  opened,      \* the lines and the size when the read began
  certified,   \* was the page check asked for after a read to the end?
  readable, timedOut,
  resolution,  \* what was found out about the reply's path
  moved,       \* did the reply change between its lstat and its open?
  seen,        \* what was found at that path
  token, source,
  looked       \* history: what was there at the last page check

files == <<disk, torn, file, successor, reply, rival>>
location == <<candidate, options>>
reading == <<records, correlator, cursor, opened, readable, timedOut>>
answering == <<resolution, seen>>
result == <<token, source>>
vars == <<files, changes, clock, pc, iteration, started, location, reading,
          certified, answering, moved, result, looked>>

\* Sizes and offsets count half lines; the header line is never empty.
Size == 2 * (Len(disk) + 1) + (IF torn THEN 1 ELSE 0)
NoCursor == [offset |-> 0, part |-> 0, size |-> 0]
NotOpen == [lines |-> <<>>, size |-> 0]
NoLook == [lines |-> <<>>, file |-> 0, successor |-> FALSE]

\* isCompleteReaderCursor: the read went to the end of a file that ended
\* with a line.
AtCompleteEof(c) == c # NoCursor /\ c.part = 0 /\ c.size = c.offset

SingleShot == options.budget = 0
DeadlinePassed == ~SingleShot /\ clock >= options.budget

\* Fault: the look at the end of the budget is not counted.
OneLookLess == iteration + 1 >= options.budget
LastIteration == iteration + 1 >= options.budget + 1

-----------------------------------------------------------------------------
(***************************************************************************)
(* The world around the waiter.                                            *)
(***************************************************************************)

Change == changes < MaxChanges /\ pc # "done" /\ changes' = changes + 1

Undisturbed == UNCHANGED <<clock, pc, iteration, started, location, reading,
                           certified, answering, result, looked>>

\* Codex writes the next line of the page, or only the first part of it.
AppendLine ==
  /\ Change /\ file # 0
  /\ \E r \in Written : disk' = Append(disk, r)
  /\ torn' = FALSE
  /\ UNCHANGED <<file, successor, reply, rival, moved>> /\ Undisturbed

AppendPart ==
  /\ Change /\ file # 0 /\ ~torn
  /\ torn' = TRUE
  /\ UNCHANGED <<disk, file, successor, reply, rival, moved>> /\ Undisturbed

CreatePage ==
  /\ Change /\ file = 0
  /\ file' = 1
  /\ UNCHANGED <<disk, torn, successor, reply, rival, moved>> /\ Undisturbed

\* Another file takes the path, a line is cut off, or one is rewritten in
\* place without changing the size.
ReplacePage ==
  /\ Change /\ file = 1
  /\ file' = 2
  /\ UNCHANGED <<disk, torn, successor, reply, rival, moved>> /\ Undisturbed

TruncatePage ==
  /\ Change /\ file # 0 /\ disk # <<>>
  /\ disk' = Front(disk) /\ torn' = FALSE
  /\ UNCHANGED <<file, successor, reply, rival, moved>> /\ Undisturbed

RewritePage ==
  /\ Change /\ file # 0
  /\ \E k \in DOMAIN disk, r \in Written :
       disk[k] # r /\ disk' = [disk EXCEPT ![k] = r]
  /\ UNCHANGED <<torn, file, successor, reply, rival, moved>> /\ Undisturbed

NewPage ==
  /\ Change /\ file # 0 /\ ~successor
  /\ successor' = TRUE
  /\ UNCHANGED <<disk, torn, file, reply, rival, moved>> /\ Undisturbed

\* The reply is written, replaced (by a file of the same kind too) or removed.
ReplyChanges ==
  /\ Change
  /\ reply' \in {"absent", "regular", "other"}
  /\ reply = "absent" => reply' # "absent"
  /\ moved' = (pc = "open")
  /\ UNCHANGED <<disk, torn, file, successor, rival>> /\ Undisturbed

RivalReply ==
  /\ Change /\ options.scan /\ ~rival
  /\ rival' = TRUE
  /\ UNCHANGED <<disk, torn, file, successor, reply, moved>> /\ Undisturbed

Tick ==
  /\ clock < options.budget /\ pc # "done"
  /\ clock' = clock + 1
  /\ UNCHANGED <<files, changes, pc, iteration, started, location, reading,
                 certified, answering, moved, result, looked>>

World == \/ AppendLine \/ AppendPart \/ CreatePage \/ ReplacePage \/ TruncatePage
         \/ RewritePage \/ NewPage \/ ReplyChanges \/ RivalReply \/ Tick

-----------------------------------------------------------------------------
(***************************************************************************)
(* The waiter.                                                             *)
(***************************************************************************)

Goto(label) == pc' = label /\ UNCHANGED result

Report(t, s) == pc' = "done" /\ token' = t /\ source' = s

FilesStay == UNCHANGED <<files, changes, clock>>

\* What is printed when the loop ends without a determination.
OutOfLoop ==
  Report(IF candidate = 0 \/ (~readable /\ ~timedOut) THEN "unavailable" ELSE "pending", "none")

StartIteration ==
  /\ pc = "loop"
  /\ IF iteration > 0 /\ DeadlinePassed
     THEN OutOfLoop /\ UNCHANGED started
     ELSE /\ started' = IF iteration = 0 THEN 0 ELSE clock
          /\ Goto(IF candidate = 0 THEN "locate" ELSE "poll")
  /\ FilesStay
  /\ UNCHANGED <<iteration, location, reading, certified, answering, moved, looked>>

\* locateRollout: an explicit page is taken as it is; a scan needs exactly
\* one candidate.
Locate ==
  /\ pc = "locate"
  /\ \/ /\ file = 0 \/ DeadlinePassed
        /\ Goto("tail") /\ UNCHANGED candidate
     \/ /\ file # 0 /\ ~DeadlinePassed /\ successor /\ ~options.explicit
        /\ Report("unavailable", "none") /\ UNCHANGED candidate
     \/ /\ file # 0 /\ ~DeadlinePassed /\ (successor => options.explicit)
        /\ candidate' = file /\ Goto("poll")
  /\ FilesStay
  /\ UNCHANGED <<options, iteration, started, reading, certified, answering, moved, looked>>

\* Only a look that need not certify may skip the read of an unchanged page.
MustRead ==
  \/ cursor = NoCursor
  \/ SingleShot
  \/ LastIteration
  \/ started + 1 >= options.budget

\* inspectRolloutNoGrowth
Unchanged == AtCompleteEof(cursor) /\ file = candidate /\ Size = cursor.size

Poll ==
  /\ pc = "poll"
  /\ IF ~MustRead /\ Unchanged
     THEN certified' = FALSE /\ Goto("page")
     ELSE UNCHANGED certified /\ Goto("read")
  /\ FilesStay
  /\ UNCHANGED <<iteration, started, location, reading, answering, moved, looked>>

-----------------------------------------------------------------------------
(***************************************************************************)
(* readRolloutFile: it opens the file and verifies all it has consumed     *)
(* before; reads to the end; and verifies all of it again.                 *)
(***************************************************************************)

\* The hash of the consumed prefix and the identity of the file.
SameFile == file = candidate /\ IsPrefix(records, disk)

OpenRead ==
  /\ pc = "read"
  /\ SameFile /\ ~DeadlinePassed
  /\ Size >= cursor.size
  /\ opened' = [lines |-> disk, size |-> Size]
  /\ Goto("reading")
  /\ FilesStay
  /\ UNCHANGED <<iteration, started, location, records, correlator, cursor, readable,
                 timedOut, certified, answering, moved, looked>>

\* parseLine: lines are correlated in the order they are read.  A read that
\* fails in the end takes the wait with it, so they need not be taken back.
ReadLine ==
  /\ pc = "reading"
  /\ Len(records) < Len(disk)
  /\ LET r == disk[Len(records) + 1]
     IN /\ records' = Append(records, r)
        /\ correlator' = CorrelateLine(correlator, records, r)
  /\ FilesStay /\ Goto("reading")
  /\ UNCHANGED <<iteration, started, location, cursor, opened, readable, timedOut,
                 certified, answering, moved, looked>>

\* A line that is being written while it is read is read in part.  What
\* comes in after the last read is only seen in the size of the file.
CursorAt(part) ==
  [offset |-> 2 * (Len(records) + 1) + part, part |-> part, size |-> Size]

EndRead ==
  /\ pc = "reading"
  /\ SameFile /\ ~DeadlinePassed
  /\ \E part \in {0, 1} : cursor' = CursorAt(part)
  /\ cursor'.offset \in opened.size .. Size
  /\ opened' = NotOpen
  /\ readable' = TRUE
  /\ certified' = AtCompleteEof(cursor')
  /\ Goto(IF AtCompleteEof(cursor') THEN "page" ELSE "tail")
  /\ FilesStay
  /\ UNCHANGED <<iteration, started, location, records, correlator, timedOut, answering,
                 moved, looked>>

ReadFails ==
  /\ \/ pc = "read" /\ (~SameFile \/ Size < cursor.size)
     \/ pc = "reading" /\ (~SameFile \/ ~IsPrefix(opened.lines, disk) \/ Size < opened.size)
  /\ Report("unavailable", "none")
  /\ FilesStay
  /\ UNCHANGED <<iteration, started, location, reading, certified, answering, moved, looked>>

ReadTimesOut ==
  /\ pc \in {"read", "reading"} /\ file # 0 /\ DeadlinePassed
  /\ timedOut' = TRUE
  /\ Report("pending", "none")
  /\ FilesStay
  /\ UNCHANGED <<iteration, started, location, records, correlator, cursor, opened,
                 readable, certified, answering, moved, looked>>

-----------------------------------------------------------------------------
(***************************************************************************)
(* assessRolloutPageSupersession: first the page itself, then the others.  *)
(***************************************************************************)

\* Fault: the size the reader saw is not compared.
AssessAnySize ==
  /\ pc = "page"
  /\ looked' = [lines |-> disk, file |-> file, successor |-> successor]
  /\ IF file = candidate /\ ~DeadlinePassed
     THEN Goto("successors")
     ELSE Report("unavailable", "none")
  /\ FilesStay
  /\ UNCHANGED <<iteration, started, location, reading, certified, answering, moved>>

AssessPage ==
  /\ pc = "page"
  /\ looked' = [lines |-> disk, file |-> file, successor |-> successor]
  /\ IF file = candidate /\ Size = cursor.size /\ ~DeadlinePassed
     THEN Goto("successors")
     ELSE Report("unavailable", "none")
  /\ FilesStay
  /\ UNCHANGED <<iteration, started, location, reading, certified, answering, moved>>

AssessSuccessors ==
  /\ pc = "successors"
  /\ IF successor \/ DeadlinePassed
     THEN Report("unavailable", "none")
     ELSE Goto(IF certified THEN "resolve" ELSE "tail")
  /\ FilesStay
  /\ UNCHANGED <<iteration, started, location, reading, certified, answering, moved, looked>>

-----------------------------------------------------------------------------
(***************************************************************************)
(* resolveCompletion.                                                      *)
(***************************************************************************)

\* What the records say of the dispatch, asked at every end of file.
Standing == Lifecycle(correlator, records)
Occurred == Occurrences(correlator, records)

\* Fault: only completed turns count as uses of the dispatch id.
ReusedAndCompleted ==
  Cardinality({o \in Occurred : o.status = "complete"}) > 1
Reused == Cardinality(Occurred) > 1

\* replyPathResolution: a scan looks into every session's directory.
Resolutions ==
  IF ~options.scan THEN {"main"}
  ELSE {"unavailable",
        CASE reply # "absent" /\ rival -> "ambiguous"
          [] reply # "absent" /\ ~rival -> "main"
          [] reply = "absent" /\ rival -> "rival"
          [] OTHER -> "missing"}

Resolve ==
  /\ pc = "resolve"
  /\ IF Standing.status = "unavailable"
     THEN Report("unavailable", "none") /\ UNCHANGED answering
     ELSE /\ resolution' \in Resolutions
          /\ seen' = IF resolution' = "rival" THEN "valid" ELSE "absent"
          /\ Goto(IF resolution' = "main" THEN "stat" ELSE "decide")
  /\ FilesStay
  /\ UNCHANGED <<iteration, started, location, reading, certified, moved, looked>>

\* inspectReply: lstat, then open and compare.
StatReply ==
  /\ pc = "stat"
  /\ moved' = FALSE
  /\ seen' = IF reply = "absent" THEN "absent" ELSE "invalid"
  /\ Goto(IF reply = "regular" THEN "open" ELSE "decide")
  /\ FilesStay
  /\ UNCHANGED <<iteration, started, location, reading, certified, resolution, looked>>

OpenReply ==
  /\ pc = "open"
  /\ seen' = IF moved THEN "invalid" ELSE "valid"
  /\ Goto("decide")
  /\ FilesStay
  /\ UNCHANGED <<iteration, started, location, reading, certified, resolution, moved, looked>>

\* The latest occurrence is certifiable, but followed by unreadable lines.
OpaqueTail == Standing.certifiable /\ Freshness(correlator, records) = "unavailable"

Fallback ==
  IF Freshness(correlator, records) = "complete" THEN [token |-> "done", source |-> "rollout-fallback"]
  ELSE [token |-> IF Freshness(correlator, records) = "pending" THEN "pending" ELSE "unavailable",
        source |-> "none"]

\* A reply that the latest occurrence does not back cannot be met here: with
\* one occurrence, the latest is the completed one.
Verdict ==
  LET says(t) == [token |-> t, source |-> "none"]
      unresolved == resolution \in {"ambiguous", "unavailable"}
  IN CASE Reused -> says("unavailable")
       [] ~Reused /\ Standing.status \in {"aborted", "superseded"} -> says(Standing.status)
       [] ~Reused /\ Standing.status = "pending" ->
            says(IF unresolved THEN "unavailable" ELSE "pending")
       [] ~Reused /\ Standing.status = "complete" ->
            IF unresolved THEN says("unavailable")
            ELSE IF seen = "valid"
            THEN IF OpaqueTail THEN says("unavailable")
                 ELSE [token |-> "done", source |-> "reply-file"]
            ELSE IF seen = "invalid" THEN says("reply-missing")
            ELSE IF options.fallback /\ Standing.certifiable THEN Fallback
            ELSE says("reply-missing")

Decide ==
  /\ pc = "decide"
  /\ IF Verdict.token = "pending" THEN Goto("tail") ELSE Report(Verdict.token, Verdict.source)
  /\ FilesStay
  /\ UNCHANGED <<iteration, started, location, reading, certified, answering, moved, looked>>

-----------------------------------------------------------------------------
\* The end of an iteration: what it looked at is not carried over a sleep.
EndIteration ==
  /\ pc = "tail"
  /\ IF SingleShot \/ DeadlinePassed \/ LastIteration
     THEN OutOfLoop /\ UNCHANGED started
     ELSE started' = clock /\ Goto("sleep")
  /\ resolution' = "missing" /\ seen' = "absent" /\ certified' = FALSE
  /\ moved' = FALSE /\ looked' = NoLook
  /\ FilesStay
  /\ UNCHANGED <<iteration, location, reading>>

\* Fault: the waiter sleeps until the page changes.
WakeOnChange ==
  /\ pc = "sleep" /\ clock > started /\ Size # cursor.size
  /\ iteration' = iteration + 1
  /\ Goto("loop")
  /\ FilesStay
  /\ UNCHANGED <<started, location, reading, certified, answering, moved, looked>>

\* One interval has passed since the sleep began, or more.
Wake ==
  /\ pc = "sleep" /\ clock > started
  /\ iteration' = iteration + 1
  /\ Goto("loop")
  /\ FilesStay
  /\ UNCHANGED <<started, location, reading, certified, answering, moved, looked>>

Step == \/ StartIteration \/ Locate \/ Poll \/ OpenRead \/ ReadLine \/ EndRead \/ ReadFails
        \/ ReadTimesOut \/ AssessPage \/ AssessSuccessors \/ Resolve \/ StatReply
        \/ OpenReply \/ Decide \/ EndIteration \/ Wake

Init ==
  /\ disk \in Histories /\ torn = FALSE /\ file \in {0, 1} /\ successor = FALSE
  /\ reply = "absent" /\ rival = FALSE /\ changes = 0 /\ clock = 0
  /\ pc = "loop" /\ options \in Options /\ iteration = 0 /\ started = 0
  /\ candidate = 0 /\ records = <<>> /\ correlator = EmptyCorrelator
  /\ cursor = NoCursor /\ opened = NotOpen /\ certified = FALSE
  /\ readable = FALSE /\ timedOut = FALSE
  /\ resolution = "missing" /\ moved = FALSE /\ seen = "absent"
  /\ token = "none" /\ source = "none" /\ looked = NoLook

Next == World \/ Step

\* The waiter is one sequential program whose every call returns, and time
\* passes.  Nothing is assumed of those who write the files.
Spec == Init /\ [][Next]_vars /\ WF_vars(Step) /\ WF_vars(Tick)

-----------------------------------------------------------------------------
Labels == {"loop", "locate", "poll", "read", "reading", "page", "successors",
           "resolve", "stat", "open", "decide", "tail", "sleep", "done"}
Determinations == {"done", "aborted", "superseded", "reply-missing"}

TypeOK ==
  /\ disk \in Seq(Lines) /\ torn \in BOOLEAN /\ file \in 0 .. 2
  /\ successor \in BOOLEAN /\ reply \in {"absent", "regular", "other"} /\ rival \in BOOLEAN
  /\ changes \in 0 .. MaxChanges /\ clock \in 0 .. options.budget
  /\ pc \in Labels /\ options \in Options
  /\ iteration \in 0 .. options.budget /\ started \in 0 .. clock
  /\ candidate \in 0 .. 2 /\ records \in Seq(Lines)
  /\ cursor # NoCursor /\ pc \notin {"reading", "done"} =>
       cursor.offset = 2 * (Len(records) + 1) + cursor.part
  /\ cursor.offset <= cursor.size
  /\ certified \in BOOLEAN /\ readable \in BOOLEAN /\ timedOut \in BOOLEAN
  /\ resolution \in {"main", "rival", "missing", "ambiguous", "unavailable"}
  /\ moved \in BOOLEAN /\ seen \in {"absent", "invalid", "valid"}
  /\ token \in Determinations \cup {"none", "pending", "unavailable"}
  /\ source \in {"none", "reply-file", "rollout-fallback"}
  /\ pc = "done" <=> token # "none"

\* A determination rests on the whole page: when the page was last looked at,
\* it was the file located, nothing was in it that had not been read and
\* correlated, and no other page claimed to continue it.
VerdictIsCurrent ==
  token \in Determinations =>
    /\ looked.file = candidate /\ ~looked.successor
    /\ IsPrefix(records, looked.lines) => looked.lines = records

\* "done" is said of a clean turn that was handed the task and completed,
\* and no other turn was ever handed it.  If that turn carried an answer,
\* nothing unreadable follows it; if the waiter rests on the rollout alone,
\* it did carry one.
DoneIsOwnTurn ==
  token = "done" =>
    \E turn \in CleanTurns(records, {}), m \in DOMAIN records :
      LET s == turn[1]
          e == turn[2]
          answered == \E body \in Bodies : <<m, e, body>> \in Answers(records)
      IN /\ records[e].kind = "task_complete"
         /\ IsHandover(records, s, m, e)
         /\ \A k \in DOMAIN records : IsTask(records[k]) => k > s /\ k < e
         /\ answered => \A g \in GapsOf(records) : g < e
         /\ source = "rollout-fallback" => answered

\* "pending" is not said while there is time left, nor of a page the waiter
\* has read to its end and in which the dispatch has come to its own.
PendingIsHonest ==
  token = "pending" =>
    /\ candidate # 0
    /\ IF SingleShot THEN AtCompleteEof(cursor) => Standing.status = "pending"
       ELSE DeadlinePassed

\* The wait ends, whatever happens to the files.
WaitEnds == <>(pc = "done")

\* A polling wait with budget and looks left reads a page on that was only
\* appended to since it was read: "Growth and change run the full certifying
\* reader" (SKILL.md:455), and the one cause SKILL.md:428 knows of a page check
\* that proves nothing is claims of a successor page.  The code has another,
\* the size: see README, Findings.
GrowthIsReadOn ==
  [][(pc = "page" /\ pc' = "done" /\ ~SingleShot /\ ~LastIteration) =>
       file # candidate \/ DeadlinePassed \/ ~IsPrefix(records, disk)]_vars

\* Unreadable lines after the dispatch's turn keep the waiter from "done"
\* (SKILL.md:396).  The code says "done" if there is a reply file and the
\* turn carried no answer: see README, Findings.
OpaqueTailIsUnavailable ==
  token = "done" => \A k \in GapsOf(records) : \E o \in Occurred : k < o.terminal

-----------------------------------------------------------------------------
(***************************************************************************)
(* The strengthening the proofs use.                                       *)
(***************************************************************************)
Statuses == {"complete", "aborted", "superseded", "pending", "unavailable"}

RecordsInv ==
  /\ cursor \in [offset : Nat, part : {0, 1}, size : Nat]
  /\ opened \in [lines : Seq(Lines), size : Nat]
  /\ looked \in [lines : Seq(Lines), file : 0 .. 2, successor : BOOLEAN]
  /\ CorrelatorInv(correlator, records)
  /\ IsFiniteSet(correlator.occurrences)
  /\ \A o \in correlator.occurrences : o.status \in Statuses

\* The page check is made of a page read to its end, and what rests on it
\* comes after a read of this iteration; nothing else sets out without a page.
Checking == {"page", "successors"}
Resolving == {"resolve", "stat", "open", "decide"}
StageInv ==
  /\ certified => AtCompleteEof(cursor) /\ pc \in Checking \cup Resolving \cup {"tail", "done"}
  /\ pc \in Checking => AtCompleteEof(cursor) /\ (SingleShot => certified)
  /\ pc \in Resolving => certified
  /\ pc \in {"stat", "open", "decide"} => Standing.status # "unavailable"
  /\ pc \in {"poll", "read", "reading"} \cup Checking \cup Resolving => candidate # 0
  /\ pc = "locate" => candidate = 0
  /\ candidate = 0 => cursor = NoCursor
  /\ pc = "tail" /\ SingleShot /\ AtCompleteEof(cursor) => Standing.status = "pending"

\* What the last page check saw is the page located, as long as the read
\* found it; a successor page it saw is still there.
LookInv ==
  /\ pc \in {"successors"} \cup Resolving =>
       /\ looked.file = candidate
       /\ cursor.size - 2 * (Len(looked.lines) + 1) \in {0, 1}
  /\ looked.successor => successor
  /\ pc \in Resolving => ~looked.successor

\* An iteration takes an interval, so the last one is past the deadline.
TimeInv ==
  /\ iteration <= clock
  /\ pc = "sleep" => iteration <= started /\ iteration < options.budget

WaiterInv ==
  /\ TypeOK /\ RecordsInv /\ StageInv /\ LookInv /\ TimeInv
  /\ VerdictIsCurrent /\ DoneIsOwnTurn /\ PendingIsHonest
=============================================================================
