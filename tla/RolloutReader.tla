----------------------------- MODULE RolloutReader -----------------------------
(***************************************************************************)
(* readRolloutFile: one caller reads a rollout again and again, each time  *)
(* from the cursor of its last good read.  Codex writes on meanwhile, and  *)
(* the file may be rewritten, truncated or replaced between any two of the *)
(* reader's accesses.                                                      *)
(*                                                                         *)
(* A file is a sequence of half lines: at an odd position stands the first *)
(* half of a line, at an even one the second half with the line feed.      *)
(***************************************************************************)
EXTENDS RolloutHistory, SequencesExt

CONSTANTS Expected,       \* the thread the caller names
          Files,          \* the lines a file may hold when the first read starts
          Written,        \* the lines Codex may write later
          Replacements,   \* the lines of a file that takes the path of another
          Rewritten,      \* the lines that may take the place of another
          Torn,           \* the line two halves of different lines make
          AnchorLength,   \* how many half lines before an offset are an anchor
          MaxGrowth, MaxTampering,
          MaxReads        \* each time others tamper with the file there is one less

ASSUME RolloutReaderAssumption ==
  /\ Expected \in Threads
  /\ Torn \in Lines /\ Torn.kind = "malformed" /\ Written \subseteq Lines
  /\ Rewritten \subseteq Lines
  /\ Files \cup Replacements \subseteq Seq(Lines) /\ AnchorLength \in Nat \ {0}
  /\ MaxGrowth \in Nat /\ MaxTampering \in Nat /\ MaxReads \in Nat

VARIABLES
  \* the file system
  disk,       \* what the file at the path holds
  inode,      \* which file that is
  unlinked,   \* what the reader's descriptor holds, when it is another file
  growth, tampering,
  \* the reader
  pc,
  opened,     \* the file, size and anchor when the read began
  state,      \* see RolloutHistory
  observed,   \* the halves it has consumed and hashed
  fresh,      \* the lines this read has delivered
  caught,     \* the size when the descriptor was looked at for the last time
  outcome,    \* why the last read failed, "ok", or "" before the first one
  \* the caller
  reads, cursor, delivered,
  witness     \* history: what the last read is to be judged by

world == <<disk, inode, unlinked, growth, tampering>>
reading == <<opened, state, observed, fresh, caught>>
caller == <<reads, cursor, delivered>>
vars == <<world, pc, reading, outcome, caller, witness>>

NoCursor == [inode |-> 0]
NotOpen == [inode |-> 0, size |-> 0, anchor |-> <<>>]

Halves(lines) == [i \in 1..(2 * Len(lines)) |-> lines[(i + 1) \div 2]]

\* The complete lines of a prefix, and the line it ends in the middle of.
Joined(first, second) == IF first = second THEN first ELSE Torn
LinesOf(prefix) ==
  [k \in 1..(Len(prefix) \div 2) |-> Joined(prefix[2 * k - 1], prefix[2 * k])]
PendingOf(prefix) == IF Len(prefix) % 2 = 1 THEN <<Last(prefix)>> ELSE <<>>

PrefixOf(file, end) == SubSeq(file, 1, IF end < Len(file) THEN end ELSE Len(file))
AnchorAt(file, end) == SubSeq(file, IF end > AnchorLength THEN end - AnchorLength + 1 ELSE 1, end)

\* What the open descriptor reads.
Descriptor == IF inode = opened.inode THEN disk ELSE unlinked

-----------------------------------------------------------------------------
(***************************************************************************)
(* The world around the reader.                                            *)
(***************************************************************************)

\* Before the first read the file is one of Files; after the last nobody looks.
Watched == reads > 0 /\ (reads + tampering < MaxReads \/ pc # "idle")

\* Codex writes a line, the first half of one, or the second half.
Grow ==
  /\ Watched /\ growth < MaxGrowth /\ growth' = growth + 1
  /\ \/ /\ PendingOf(disk) # <<>> /\ disk' = disk \o PendingOf(disk)
     \/ /\ PendingOf(disk) = <<>>
        /\ \E line \in Written : disk' \in {Append(disk, line), disk \o <<line, line>>}
  /\ UNCHANGED <<inode, unlinked, tampering, pc, reading, outcome, caller, witness>>

Tamper ==
  /\ Watched /\ tampering < MaxTampering /\ tampering' = tampering + 1
  /\ UNCHANGED <<growth, pc, reading, outcome, caller, witness>>

\* A complete line is rewritten in place.
Rewrite ==
  /\ Tamper
  /\ \E k \in 1..(Len(disk) \div 2), line \in Rewritten :
       /\ line # disk[2 * k]
       /\ disk' = [disk EXCEPT ![2 * k - 1] = line, ![2 * k] = line]
  /\ UNCHANGED <<inode, unlinked>>

Truncate ==
  /\ Tamper
  /\ disk # <<>> /\ disk' = Front(disk)
  /\ UNCHANGED <<inode, unlinked>>

\* Another file takes the path; an open descriptor keeps the old one.
Replace ==
  /\ Tamper
  /\ \E file \in Replacements : disk' = Halves(file)
  /\ inode' = inode + 1
  /\ unlinked' = IF inode = opened.inode THEN disk ELSE unlinked

-----------------------------------------------------------------------------
(***************************************************************************)
(* One read.                                                               *)
(***************************************************************************)

\* A failed read delivers nothing and leaves the caller its cursor.
Fail(reason) ==
  /\ pc' = "idle" /\ outcome' = reason
  /\ opened' = NotOpen /\ state' = Fresh(NoOwner)
  /\ observed' = <<>> /\ fresh' = <<>> /\ caught' = 0
  /\ UNCHANGED <<cursor, delivered>>

Refusal ==
  IF cursor = NoCursor THEN ""
  ELSE IF cursor.inode # inode THEN "file-replaced"
  ELSE IF Len(disk) < cursor.size THEN "file-truncated" ELSE ""

Open ==
  /\ pc = "idle" /\ reads + tampering < MaxReads /\ reads' = reads + 1
  /\ IF Refusal # "" THEN Fail(Refusal)
     ELSE /\ opened' = [inode |-> inode, size |-> Len(disk), anchor |-> AnchorAt(disk, Len(disk))]
          /\ pc' = IF cursor = NoCursor THEN "read" ELSE "verify"
          /\ state' = Fresh([owner |-> Expected, lineage |-> {Expected}])
          /\ observed' = <<>> /\ fresh' = <<>> /\ caught' = 0
          /\ outcome' = "" /\ UNCHANGED <<cursor, delivered>>
  /\ witness' = <<>>
  /\ UNCHANGED world

\* The consumed prefix is hashed once more, and the anchor before its end.
VerifyPrefix ==
  /\ pc = "verify"
  /\ LET end == cursor.offset IN
     IF Len(Descriptor) < end THEN Fail("unreadable")
     ELSE IF PrefixOf(Descriptor, end) # cursor.prefix THEN Fail("file-replaced")
     ELSE /\ pc' = "replay" /\ observed' = PrefixOf(Descriptor, end)
          /\ UNCHANGED <<opened, state, fresh, caught, outcome, cursor, delivered>>
  /\ UNCHANGED <<world, reads, witness>>

\* replayConsumedHistoryScope: the consumed lines, once more.
Replayed(lines) ==
  LET after[n \in 0..Len(lines)] ==
        IF n = 0 THEN Fresh(NoOwner)
        ELSE IF after[n - 1].verdict # "" THEN after[n - 1]
        ELSE ReplayLine(lines[n], after[n - 1])
  IN after[Len(lines)]

ReplayCompletes(replay) ==
  replay.verdict = "" /\ (replay.first \/ BoundaryKnown(replay.scope))

\* Fault: the owner is taken from the prefix even where no line of it is complete.
PrefixOwner(replay) == replay.who
\* A prefix without a complete line has no owner of its own yet.
ReplayedOwner(replay) ==
  IF replay.first THEN [owner |-> Expected, lineage |-> {Expected}] ELSE replay.who

\* cursorPrefixStateMatches, forkHistoryStatesEqual and rolloutOwnerStatesEqual.
CursorMatches(replay, pending) ==
  /\ cursor.pending = pending /\ cursor.lineNumber = replay.lineNumber
  /\ cursor.lastTimestamp = replay.lastTimestamp /\ cursor.first = replay.first
  /\ cursor.scope = replay.scope /\ cursor.who = ReplayedOwner(replay)

Replay ==
  /\ pc = "replay"
  /\ LET prefix == PrefixOf(Descriptor, cursor.offset)
         replay == Replayed(LinesOf(prefix))
     IN IF Len(Descriptor) < cursor.offset THEN Fail("unreadable")
        ELSE IF ReplayCompletes(replay) /\ CursorMatches(replay, PendingOf(prefix))
          THEN /\ pc' = "read"
               /\ state' = [replay EXCEPT !.who = ReplayedOwner(replay),
                                          !.observed = {}, !.out = "nothing"]
               /\ UNCHANGED <<opened, observed, fresh, caught, outcome, cursor, delivered>>
        ELSE Fail("invalid-cursor")
  /\ UNCHANGED <<world, reads, witness>>

\* parseLine on the line that ends here, or the first half of the next one.
ReadHalf ==
  /\ pc = "read" /\ Len(observed) < Len(Descriptor)
  /\ LET half == Descriptor[Len(observed) + 1]
         pending == PendingOf(observed)
         line == Joined(pending[1], half)
         after == ParseLine(line, state)
     IN IF pending # <<>> /\ after.verdict # ""
          THEN Fail(after.verdict) /\ witness' = Append(observed, half)
        ELSE /\ observed' = Append(observed, half)
             /\ IF pending = <<>> THEN UNCHANGED <<state, fresh>>
                ELSE /\ state' = after
                     /\ fresh' = IF after.out = "nothing" THEN fresh
                                 ELSE Append(fresh, [at |-> after.lineNumber, line |-> line])
             /\ UNCHANGED <<pc, opened, caught, outcome, cursor, delivered, witness>>
  /\ UNCHANGED <<world, reads>>

EndOfFile ==
  /\ pc = "read" /\ Len(observed) >= Len(Descriptor)
  /\ pc' = "recheck"
  /\ UNCHANGED <<world, reading, outcome, caller, witness>>

\* Fault: the consumed prefix is not hashed once more.
AnchorsOnly ==
  AnchorAt(Descriptor, opened.size) = opened.anchor
Unchanged ==
  /\ AnchorAt(Descriptor, opened.size) = opened.anchor
  /\ PrefixOf(Descriptor, Len(observed)) = observed

\* The descriptor is looked at again: its size, the anchor and the prefix.
Recheck ==
  /\ pc = "recheck"
  /\ IF Len(Descriptor) < opened.size \/ Len(Descriptor) < Len(observed)
       THEN Fail("file-truncated")
     ELSE IF ~Unchanged THEN Fail("file-replaced")
     ELSE /\ pc' = "path" /\ caught' = Len(Descriptor)
          /\ UNCHANGED <<opened, state, observed, fresh, outcome, cursor, delivered>>
  /\ witness' = PrefixOf(Descriptor, Len(observed))
  /\ UNCHANGED <<world, reads>>

\* Fault: a read may end before the boundary of a fork.
AnyScope(scope) == forkHistoryStateValid(scope)
ScopeSettled(scope) == BoundaryKnown(scope)

\* Fault: the path is not looked at once more when the descriptor has been.
PathUnchecked ==
  IF observed = <<>> THEN "rollout-owner-missing"
  ELSE IF ~state.first /\ ~ScopeSettled(state.scope) THEN "rollout-history-boundary-invalid"
  ELSE ""
FinalRefusal ==
  IF inode # opened.inode THEN "file-replaced"
  ELSE IF Len(disk) < caught \/ Len(disk) < Len(observed) THEN "file-truncated"
  ELSE IF observed = <<>> THEN "rollout-owner-missing"
  ELSE IF ~state.first /\ ~ScopeSettled(state.scope) THEN "rollout-history-boundary-invalid"
  ELSE ""

\* Then the path; the read ends with a cursor.
CheckPath ==
  /\ pc = "path"
  /\ IF FinalRefusal # "" THEN Fail(FinalRefusal)
     ELSE /\ pc' = "idle" /\ outcome' = "ok"
          /\ cursor' = [inode |-> inode, size |-> Len(disk), offset |-> Len(observed),
                        prefix |-> observed, pending |-> PendingOf(observed),
                        lineNumber |-> state.lineNumber, first |-> state.first,
                        lastTimestamp |-> state.lastTimestamp,
                        scope |-> state.scope, who |-> state.who]
          /\ delivered' = delivered \o fresh
          /\ opened' = NotOpen /\ state' = Fresh(NoOwner)
          /\ observed' = <<>> /\ fresh' = <<>> /\ caught' = 0
  /\ UNCHANGED <<world, reads, witness>>

Deadline ==
  /\ pc # "idle"
  /\ Fail("deadline-exceeded")
  /\ UNCHANGED <<world, reads, witness>>

\* The caller reads the file from its start again.
StartOver ==
  /\ pc = "idle" /\ cursor # NoCursor
  /\ cursor' = NoCursor /\ delivered' = <<>> /\ outcome' = ""
  /\ UNCHANGED <<world, pc, reading, reads, witness>>

-----------------------------------------------------------------------------

Init ==
  /\ \E lines \in Files : disk = Halves(lines)
  /\ inode = 1 /\ unlinked = <<>> /\ growth = 0 /\ tampering = 0
  /\ pc = "idle" /\ opened = NotOpen /\ state = Fresh(NoOwner)
  /\ observed = <<>> /\ fresh = <<>> /\ caught = 0 /\ outcome = ""
  /\ reads = 0 /\ cursor = NoCursor /\ delivered = <<>> /\ witness = <<>>

ReadStep ==
  \/ Open \/ VerifyPrefix \/ Replay \/ ReadHalf \/ EndOfFile
  \/ Recheck \/ CheckPath \/ Deadline \/ StartOver

Next == Grow \/ Rewrite \/ Truncate \/ Replace \/ ReadStep

Spec == Init /\ [][Next]_vars

-----------------------------------------------------------------------------
(***************************************************************************)
(* Properties.                                                             *)
(***************************************************************************)

ContentReasons ==
  {"invalid-utf8", "rollout-owner-missing", "rollout-owner-invalid",
   "rollout-owner-mismatch", "rollout-history-boundary-missing",
   "rollout-history-boundary-invalid"}
ChangeReasons == {"file-replaced", "file-truncated", "unreadable", "invalid-cursor"}

\* The variables hold what readRolloutFile and its caller keep.
TypeOK ==
  /\ disk \in Seq(Lines) /\ unlinked \in Seq(Lines) /\ observed \in Seq(Lines)
  /\ inode \in 1..(1 + MaxTampering) /\ growth \in 0..MaxGrowth /\ tampering \in 0..MaxTampering
  /\ pc \in {"idle", "verify", "replay", "read", "recheck", "path"}
  /\ state.who \in [owner : Threads \cup {None}, lineage : SUBSET Threads]
  /\ fresh \in Seq([at : Nat, line : Lines]) /\ delivered \in Seq([at : Nat, line : Lines])
  /\ outcome \in {"", "ok", "deadline-exceeded"} \cup ContentReasons \cup ChangeReasons
  /\ reads \in 0..MaxReads /\ caught \in Nat /\ witness \in Seq(Lines)

\* After a good read, the caller has exactly the lines of its own history that
\* the file held when it was looked at last, each once and in order, whatever
\* was read in between, resumed or torn; and that file was a rollout of the
\* thread whose inherited part is complete (readRolloutFile, chained by cursor).
ReadsExactly ==
  pc = "idle" /\ outcome = "ok" =>
    LET lines == LinesOf(witness)
    IN /\ IsListing(delivered, lines)
       /\ lines # <<>> => WellFormed(lines, Expected) /\ BoundaryReached(lines)

\* A file is refused for what it says only if it is no rollout of the thread,
\* or one that has not reached its boundary yet (parseLine and the end of
\* readRolloutFile against the lines themselves).
RefusesOnlyInvalid ==
  pc = "idle" /\ outcome \in ContentReasons /\ LinesOf(witness) # <<>> =>
    ~(WellFormed(LinesOf(witness), Expected) /\ BoundaryReached(LinesOf(witness)))

\* While the file has only been appended to, no cursor the reader handed out is
\* refused: the replay of the consumed prefix arrives at the state the read
\* had, though it starts from nothing (replayConsumedHistoryScope).
ResumeNeverRefused == tampering = 0 => outcome \notin ChangeReasons

-----------------------------------------------------------------------------
(***************************************************************************)
(* A chain of reads is a chain of glimpses.  A read has glimpsed the file  *)
(* at its path when the descriptor is found unchanged, unless that is of   *)
(* another file by then.                                                   *)
(***************************************************************************)
Acceptable(lines) ==
  lines # <<>> => WellFormed(lines, Expected) /\ BoundaryReached(lines)

HeldLines == IF cursor = NoCursor THEN <<>> ELSE LinesOf(cursor.prefix)
Glimpsed == IF pc = "path" /\ inode = opened.inode THEN LinesOf(observed) ELSE <<>>

Reads == INSTANCE AtomicReads
           WITH file <- LinesOf(disk), glimpse <- Glimpsed, held <- HeldLines

\* However many accesses a read makes and whatever others do between them, the
\* caller is given, in one step and only by a good read, the lines that the
\* file at the path held at one moment of that read; they go on from the ones
\* it holds, and any other outcome leaves it those (readRolloutFile).
ReadsAreAtomic == Reads!Spec

-----------------------------------------------------------------------------
(***************************************************************************)
(* The strengthening the proofs use: what a parser keeps is a function of  *)
(* the lines it has parsed, but for the owner before the first of them;    *)
(* what the caller holds are the lines of its cursor; and, as long as the  *)
(* file was only appended to, all that was seen of it is still there.      *)
(***************************************************************************)
Asked == [owner |-> Expected, lineage |-> {Expected}]

ScopeOf(lines) ==
  IF lines = <<>> THEN NoScope
  ELSE IF ~Ordinal(lines) THEN NonFork
  ELSE [mode |-> "producer-ordinal", parent |-> lines[1].fork, start |-> lines[1].start,
        next |-> Cardinality(Records(lines)), seen |-> BoundaryReached(lines)]

OwnerOf(lines, before) ==
  IF lines = <<>> THEN before
  ELSE [owner |-> Expected, lineage |-> DeclaredBefore(lines, Len(lines) + 1)]

\* n is the last of the numbers in S.
IsLatest(n, S) == n \in S \cup {0} /\ \A k \in S : k <= n

Keeps(s, lines, before) ==
  /\ s.lineNumber = Len(lines) /\ (s.first <=> lines = <<>>) /\ s.first \in BOOLEAN
  /\ s.who = OwnerOf(lines, before) /\ s.scope = ScopeOf(lines)
  /\ IsLatest(s.lastTimestamp, Records(lines) \cap OwnLines(lines))
  /\ lines # <<>> => WellFormed(lines, Expected) /\ forkHistoryStateValid(s.scope)

IsState(s) ==
  s = [first |-> s.first, who |-> s.who, observed |-> s.observed, scope |-> s.scope,
       lineNumber |-> s.lineNumber, lastTimestamp |-> s.lastTimestamp,
       verdict |-> s.verdict, out |-> s.out]

\* s is the state of a parser that has parsed the lines.
Parsed(s, lines, before) ==
  /\ IsState(s) /\ s.verdict = "" /\ Keeps(s, lines, before)
  /\ s.observed \subseteq {Expected} /\ (lines = <<>> => s.observed = {})

Reading == {"read", "recheck", "path"}

CursorInv ==
  cursor # NoCursor =>
    LET lines == LinesOf(cursor.prefix)
    IN /\ cursor.prefix \in Seq(Lines) /\ cursor.offset = Len(cursor.prefix)
       /\ cursor.pending = PendingOf(cursor.prefix) /\ Keeps(cursor, lines, Asked)
       /\ IsListing(delivered, lines) /\ (lines # <<>> => BoundaryReached(lines))

ContentInv ==
  /\ pc \in Reading =>
       /\ Parsed(state, LinesOf(observed), Asked)
       /\ IsListing(delivered \o fresh, LinesOf(observed))
  /\ pc \in {"idle", "verify", "replay"} => fresh = <<>>
  /\ pc \in {"verify", "replay"} => cursor # NoCursor
  /\ pc = "replay" => observed = cursor.prefix
  /\ pc = "path" => witness = observed
  /\ cursor = NoCursor => delivered = <<>>

\* What was seen of the file is a prefix of it.
Seen(prefix) == Len(prefix) <= Len(disk) /\ PrefixOf(disk, Len(prefix)) = prefix

GrowthInv ==
  tampering = 0 =>
    /\ pc # "idle" => opened.inode = inode
    /\ Seen(observed) /\ caught <= Len(disk)
    /\ opened.size \in 0 .. Len(disk) /\ opened.anchor = AnchorAt(disk, opened.size)
    /\ cursor # NoCursor =>
         cursor.inode = inode /\ cursor.size \in 0 .. Len(disk) /\ Seen(cursor.prefix)

ReaderInv ==
  /\ TypeOK /\ inode <= 1 + tampering /\ CursorInv /\ ContentInv /\ GrowthInv
  /\ ReadsExactly /\ RefusesOnlyInvalid /\ ResumeNeverRefused

\* The open descriptor is of a file that has been at the path, and a read goes
\* on from what the caller holds.
ChainInv ==
  /\ pc # "idle" => opened.inode \in 1 .. inode
  /\ pc \in Reading /\ cursor # NoCursor => IsPrefix(cursor.prefix, observed)
=============================================================================
