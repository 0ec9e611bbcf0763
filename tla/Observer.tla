------------------------------- MODULE Observer -------------------------------
(***************************************************************************)
(* observeRollout: is the task of a dispatch admitted by the thread?  For  *)
(* a bounded time the observer looks for the rollout, reads it on from     *)
(* where it stopped, and checks that the page is still the current one.    *)
(* Reading and checking are several steps: Codex writes on, the page is    *)
(* replaced, rewritten or continued, and time passes, between any two.     *)
(*                                                                         *)
(* Sizes count half lines and the header is a line.  What the observer     *)
(* cannot tell apart is one line: "task" is the hand-over of the dispatch, *)
(* "drift" a record of an unknown form, "bad" one that cannot be parsed.   *)
(***************************************************************************)
EXTENDS Naturals, Sequences, SequencesExt

CONSTANTS Histories,   \* what the rollout may hold at the start
          Written,     \* the lines that may be written meanwhile
          Options,     \* budget in ticks, and is a path given?
          Interval,    \* ticks between two looks
          MaxChanges

Kinds == {"task", "other", "drift", "bad"}

ASSUME ObserverAssumption ==
  /\ Histories \subseteq Seq(Kinds) /\ Written \subseteq Kinds
  /\ Options \subseteq [budget : Nat \ {0}, explicit : BOOLEAN]
  /\ Interval \in Nat \ {0} /\ MaxChanges \in Nat

VARIABLES
  \* the world
  disk, torn,      \* the complete lines, and is there a part of one after them?
  file,            \* which file the path names, 0 for none
  successor,       \* does another page of the thread continue this one?
  changes, clock,
  \* the observer
  pc, options, iteration, started,
  candidate,       \* candidateIdentityKey, 0 for none
  records, cursor, \* what was read, where the read stopped and the size it saw
  opened,          \* lines and size when the read began
  attempt,         \* is the page checked after a read to the end, or instead of one?
  admitted, hardReadFailure, softSchemaDrift,
  token,
  looked,          \* history: the page when it was last checked
  seen,            \* history: the page when the last finished look at it began
  failed           \* history: did a read fail?

files == <<disk, torn, file, successor>>
flags == <<admitted, hardReadFailure, softSchemaDrift>>
loop == <<options, iteration, started, candidate>>
reading == <<records, cursor, opened, attempt>>
vars == <<files, changes, clock, pc, loop, reading, flags, token, looked, seen, failed>>

SizeOf(lines, part) == 2 * (Len(lines) + 1) + part
Size == SizeOf(disk, IF torn THEN 1 ELSE 0)
NoCursor == [offset |-> 0, part |-> 0, size |-> 0]
NotOpen == [lines |-> <<>>, size |-> 0]
NoLook == [lines |-> <<>>, file |-> 0, successor |-> FALSE]
NothingSeen == [lines |-> <<>>, at |-> 0]
Holds(lines, kind) == \E k \in DOMAIN lines : lines[k] = kind

isCompleteReaderCursor(c) == c # NoCursor /\ c.part = 0 /\ c.size = c.offset

DeadlinePassed == clock >= options.budget

\* Fault: a last interval that is cut short gets no look.
WholeIntervals == options.budget \div Interval + 1

\* ceil(budget / interval) + 1 looks.
MaxIterations == (options.budget + Interval - 1) \div Interval + 1
LastIteration == iteration + 1 >= MaxIterations

-----------------------------------------------------------------------------
(***************************************************************************)
(* The world around the observer.                                          *)
(***************************************************************************)

Change == /\ changes < MaxChanges /\ pc # "done" /\ changes' = changes + 1
          /\ UNCHANGED <<clock, pc, loop, reading, flags, token, looked, seen, failed>>

AppendLine ==
  /\ Change /\ file # 0
  /\ \E line \in Written : disk' = Append(disk, line)
  /\ torn' = FALSE /\ UNCHANGED <<file, successor>>

AppendPart ==
  /\ Change /\ file # 0 /\ ~torn
  /\ torn' = TRUE /\ UNCHANGED <<disk, file, successor>>

Create ==
  /\ Change /\ file = 0
  /\ file' = 1 /\ UNCHANGED <<disk, torn, successor>>

\* Another file takes the path and may give it back.
Replace ==
  /\ Change /\ file # 0
  /\ file' = 3 - file /\ UNCHANGED <<disk, torn, successor>>

\* A line is rewritten in place, the size stays.
Rewrite ==
  /\ Change /\ file # 0
  /\ \E k \in DOMAIN disk, line \in Written :
       disk[k] # line /\ disk' = [disk EXCEPT ![k] = line]
  /\ UNCHANGED <<torn, file, successor>>

Truncate ==
  /\ Change /\ file # 0 /\ disk # <<>>
  /\ disk' = Front(disk) /\ torn' = FALSE /\ UNCHANGED <<file, successor>>

NewPage ==
  /\ Change /\ file # 0 /\ ~successor
  /\ successor' = TRUE /\ UNCHANGED <<disk, torn, file>>

Tick ==
  /\ clock < options.budget /\ pc # "done"
  /\ clock' = clock + 1
  /\ UNCHANGED <<files, changes, pc, loop, reading, flags, token, looked, seen, failed>>

World == \/ AppendLine \/ AppendPart \/ Create \/ Replace \/ Rewrite \/ Truncate
         \/ NewPage \/ Tick

-----------------------------------------------------------------------------
(***************************************************************************)
(* The loop.                                                               *)
(***************************************************************************)

Goto(label) == pc' = label /\ UNCHANGED token
Report(t) == pc' = "done" /\ token' = t
FilesStay == UNCHANGED <<files, changes, clock>>

\* What is reported when the loop ends, given the failures and the drift seen.
OutOfLoop(hard, soft) ==
  Report(IF hard \/ soft \/ candidate = 0 THEN "rollout-unavailable" ELSE "rollout-pending")

StartIteration ==
  /\ pc = "loop"
  /\ IF iteration > 0 /\ DeadlinePassed
     THEN OutOfLoop(hardReadFailure, softSchemaDrift) /\ UNCHANGED started
     ELSE started' = clock /\ Goto(IF candidate = 0 THEN "locate" ELSE "attempt")
  /\ FilesStay /\ UNCHANGED <<options, iteration, candidate, reading, flags, looked, seen, failed>>

\* locateRollout: a scan that finds a second page is ambiguous.
Locate ==
  /\ pc = "locate"
  /\ IF file = 0 \/ DeadlinePassed THEN Goto("tail") /\ UNCHANGED <<candidate, started>>
     ELSE IF successor /\ ~options.explicit
       THEN Report("rollout-unavailable") /\ UNCHANGED <<candidate, started>>
     ELSE candidate' = file /\ started' = clock /\ Goto("attempt")
  /\ FilesStay /\ UNCHANGED <<options, iteration, reading, flags, looked, seen, failed>>

\* Fault: only the last look must read, not one whose interval goes over the
\* deadline.
LastLookOnly == LastIteration

\* A look that may be the last of the budget reads.
forceFullRead == LastIteration \/ started + Interval >= options.budget

\* inspectRolloutNoGrowth, where the read may be skipped.
MaySkip ==
  /\ isCompleteReaderCursor(cursor) /\ ~forceFullRead
  /\ file = candidate /\ Size = cursor.size

Attempt ==
  /\ pc = "attempt"
  /\ IF MaySkip THEN attempt' = "skipped" /\ Goto("page")
     ELSE attempt' = "read" /\ Goto("open")
  /\ seen' = IF MaySkip THEN [lines |-> disk, at |-> started] ELSE NothingSeen
  /\ FilesStay /\ UNCHANGED <<loop, records, cursor, opened, flags, looked, failed>>

-----------------------------------------------------------------------------
(***************************************************************************)
(* readRolloutFile; its refusals and its chunks are those of RolloutReader *)
(***************************************************************************)

Intact(read) ==
  /\ file = candidate /\ IsPrefix(records, disk)
  /\ IsPrefix(read.lines, disk) /\ Size >= read.size /\ Size >= cursor.size

OpenRead ==
  /\ pc = "open" /\ ~DeadlinePassed /\ Intact(NotOpen)
  /\ opened' = [lines |-> disk, size |-> Size]
  /\ seen' = [lines |-> disk, at |-> started]
  /\ Goto("reading")
  /\ FilesStay /\ UNCHANGED <<loop, records, cursor, attempt, flags, looked, failed>>

\* Fault: a failure is forgotten when a later read succeeds.
LastFailureOnly(before, now) == now
\* One parse error or failed read, and there is no hit any more.
Veto(before, now) == before \/ now

\* The read ends at the end of what was there when it began or of what was
\* written since, be it a complete line or a part of one.
EndRead ==
  /\ pc = "reading" /\ ~DeadlinePassed /\ Intact(opened)
  /\ \E n \in Len(records) .. Len(disk), part \in {0, 1} :
       LET lines == SubSeq(disk, Len(records) + 1, n)
       IN /\ SizeOf(SubSeq(disk, 1, n), part) \in opened.size .. Size
          /\ records' = SubSeq(disk, 1, n)
          /\ cursor' = [offset |-> SizeOf(records', part), part |-> part, size |-> Size]
          /\ admitted' = (admitted \/ Holds(lines, "task"))
          /\ hardReadFailure' = Veto(hardReadFailure, Holds(lines, "bad"))
          /\ softSchemaDrift' = (softSchemaDrift \/ Holds(lines, "drift"))
  /\ opened' = NotOpen
  /\ Goto(IF isCompleteReaderCursor(cursor') THEN "page" ELSE "tail")
  /\ FilesStay /\ UNCHANGED <<loop, attempt, looked, seen, failed>>

\* A failed read gives no cursor: the next one starts from the old one.
ReadFails ==
  /\ \/ pc = "open" /\ ~Intact(NotOpen)
     \/ pc = "reading" /\ ~Intact(opened)
  /\ hardReadFailure' = TRUE /\ failed' = TRUE
  /\ opened' = NotOpen /\ seen' = NothingSeen /\ Goto("tail")
  /\ FilesStay
  /\ UNCHANGED <<loop, records, cursor, attempt, admitted, softSchemaDrift, looked>>

\* deadline-exceeded: what was read up to then is discarded, its diagnostics
\* are not.
ReadTimesOut ==
  /\ pc \in {"open", "reading"} /\ DeadlinePassed
  /\ \E n \in Len(records) .. (IF pc = "reading" THEN Len(disk) ELSE Len(records)) :
       LET lines == SubSeq(disk, Len(records) + 1, n)
       IN /\ hardReadFailure' = Veto(hardReadFailure, Holds(lines, "bad"))
          /\ softSchemaDrift' = (softSchemaDrift \/ Holds(lines, "drift"))
  /\ opened' = NotOpen /\ seen' = NothingSeen
  /\ OutOfLoop(hardReadFailure', softSchemaDrift')
  /\ FilesStay /\ UNCHANGED <<loop, records, cursor, attempt, admitted, looked, failed>>

-----------------------------------------------------------------------------
(***************************************************************************)
(* pageIsCurrent: the page itself, then the others; see RolloutPages.      *)
(***************************************************************************)

BoundUnchanged == file = candidate /\ Size = cursor.size /\ ~DeadlinePassed

AssessPage ==
  /\ pc = "page"
  /\ looked' = [lines |-> disk, file |-> file, successor |-> successor]
  /\ IF BoundUnchanged THEN Goto("successors") ELSE Report("rollout-unavailable")
  /\ FilesStay /\ UNCHANGED <<loop, reading, flags, seen, failed>>

AssessSuccessors ==
  /\ pc = "successors"
  /\ looked' = [looked EXCEPT !.successor = successor]
  /\ IF successor \/ DeadlinePassed THEN Report("rollout-unavailable")
     ELSE IF attempt = "read" /\ admitted /\ ~hardReadFailure THEN Report("rollout-hit")
     ELSE Goto("tail")
  /\ FilesStay /\ UNCHANGED <<loop, reading, flags, seen, failed>>

-----------------------------------------------------------------------------

EndIteration ==
  /\ pc = "tail"
  /\ IF DeadlinePassed \/ LastIteration
     THEN OutOfLoop(hardReadFailure, softSchemaDrift) /\ UNCHANGED started
     ELSE started' = clock /\ Goto("sleep")
  /\ looked' = NoLook
  /\ FilesStay /\ UNCHANGED <<options, iteration, candidate, reading, flags, seen, failed>>

WakeTime == IF started + Interval <= options.budget THEN started + Interval ELSE options.budget

\* Fault: the observer sleeps until the page changes.
WakeOnChange ==
  /\ pc = "sleep" /\ clock >= WakeTime /\ Size # cursor.size
  /\ iteration' = iteration + 1
  /\ Goto("loop")
  /\ FilesStay /\ UNCHANGED <<options, started, candidate, reading, flags, looked, seen, failed>>

Wake ==
  /\ pc = "sleep" /\ clock >= WakeTime
  /\ iteration' = iteration + 1
  /\ Goto("loop")
  /\ FilesStay /\ UNCHANGED <<options, started, candidate, reading, flags, looked, seen, failed>>

Step == \/ StartIteration \/ Locate \/ Attempt \/ OpenRead \/ EndRead \/ ReadFails
        \/ ReadTimesOut \/ AssessPage \/ AssessSuccessors \/ EndIteration \/ Wake

Init ==
  /\ disk \in Histories /\ torn = FALSE /\ file \in {0, 1} /\ successor = FALSE
  /\ changes = 0 /\ clock = 0
  /\ pc = "loop" /\ options \in Options /\ iteration = 0 /\ started = 0 /\ candidate = 0
  /\ records = <<>> /\ cursor = NoCursor /\ opened = NotOpen /\ attempt = "read"
  /\ admitted = FALSE /\ hardReadFailure = FALSE /\ softSchemaDrift = FALSE
  /\ token = "none" /\ looked = NoLook /\ seen = NothingSeen /\ failed = FALSE

Next == World \/ Step

\* One sequential program whose calls all return, and time passes.
Spec == Init /\ [][Next]_vars /\ WF_vars(Step) /\ WF_vars(Tick)

-----------------------------------------------------------------------------
(***************************************************************************)
(* Properties.                                                             *)
(***************************************************************************)

\* The variables hold what observeRollout keeps.
TypeOK ==
  /\ disk \in Seq(Kinds) /\ torn \in BOOLEAN /\ file \in 0 .. 2 /\ successor \in BOOLEAN
  /\ changes \in Nat /\ clock \in Nat /\ options \in Options
  /\ pc \in {"loop", "locate", "attempt", "open", "reading", "page", "successors",
             "tail", "sleep", "done"}
  /\ iteration \in Nat /\ started \in Nat /\ candidate \in 0 .. 2
  /\ records \in Seq(Kinds) /\ attempt \in {"read", "skipped"}
  /\ cursor \in [offset : Nat, part : {0, 1}, size : Nat]
  /\ opened \in [lines : Seq(Kinds), size : Nat]
  /\ admitted \in BOOLEAN /\ hardReadFailure \in BOOLEAN /\ softSchemaDrift \in BOOLEAN
  /\ token \in {"none", "rollout-hit", "rollout-pending", "rollout-unavailable"}
  /\ looked \in [lines : Seq(Kinds), file : 0 .. 2, successor : BOOLEAN]
  /\ seen \in [lines : Seq(Kinds), at : Nat] /\ failed \in BOOLEAN

\* A hit is reported of a page that was read to its end without one failure,
\* in this read or any before, and that held the hand-over; when the page was
\* checked it was the same file, nothing had been added and nothing continued
\* it (observeRollout:173-191).
HitIsCertified ==
  token = "rollout-hit" =>
    /\ ~failed /\ ~Holds(records, "bad") /\ Holds(records, "task")
    /\ looked.file = candidate /\ ~looked.successor
    /\ IsPrefix(records, looked.lines) => looked.lines = records

\* Pending is not reported before the budget is used up, nor of a page that
\* was not found, failed or drifted, nor of one that was read to its end and
\* held the hand-over (observeRollout:204-207).  What it rests on was read: the
\* lines on the page when the last finished look began are among the records,
\* unless that look was to be followed by another and time ran over it
\* (observeRollout:123-136).
PendingIsLastLook ==
  token = "rollout-pending" =>
    /\ DeadlinePassed /\ candidate # 0
    /\ ~failed /\ ~Holds(records, "bad") /\ ~Holds(records, "drift")
    /\ isCompleteReaderCursor(cursor) => ~Holds(records, "task")
    /\ seen.at + Interval < options.budget \/ IsPrefix(seen.lines, records)

\* The observer ends, whatever happens to the files.
ObserverEnds == <>(pc = "done")
=============================================================================
