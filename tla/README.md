# Verification of claude-codex-ipc

TLA+ models of the dispatch and observation tooling in `src/skills/ipc/scripts/`,
their TLC runs, and theorems about them checked by TLAPS.

## 1. The system

One agent (Claude Code) hands a task to another (Codex). The task is written to
an *envelope*, a file named after the dispatch id. The task is then started
either by an operator who pastes a *pickup line* into Codex, or by the tooling,
which injects the same line into a live Codex Desktop thread through the
Desktop router's named pipe. Codex records what it does in a *rollout*, an
append-only JSONL file, and writes its answer to a *reply* file. Everything
after the send is observation of these two files.

| Component | Source | State | Operations | Hard part |
|---|---|---|---|---|
| Dispatch wrapper | `handoff_to_codex.sh` | the envelope; shell variables of one run | publish, inspect the target once, send, activate the host, retry, report | a send whose outcome is unknown |
| Pipe client | `codex_ipc_client.mjs` | one socket, one pending request | connect, initialize, write the follower frame, await the answer | timeouts after the frame is written |
| Host gate, activation | `codex_ipc_host_policy.ps1`, `codex_ipc_autoload.ps1` | the foreground window and process list, both changed by others | inventory, verdict, activation, restore | check and act are two moments |
| Retention sweep, publication | `handoff_to_codex.sh` | the dispatch directory, shared by all dispatchers | sweep tasks, replies and directories; create once | several dispatchers sweep and publish at once |
| Rollout reader | `codex_ipc_rollout_reader.mjs` | a cursor with hashes of the consumed prefix; owner lineage; fork-history scope | read, resume | the file grows, is truncated or replaced during the read; a fork begins with a copy of its parent |
| Locator, page supersession | same file | none between calls | find the page of a thread, say whether it is still current | pages appear and grow during the listing |
| Turn boundary accumulator | same file | turns, latest turn per id, current turn | `push`, `finish` | streams with missing, repeated or foreign records |
| Dispatch correlator | same file | one bucket of messages per open turn, occurrences | `push`, `finish` and its projections | which answer belongs to which dispatch |
| Waiter, observer | `codex_ipc_wait.mjs`, `codex_ipc_rollout_observe.mjs` | cursor, accumulated records, deadline | poll until settled | a stale or partial read taken for an answer |
| Harvester, viewer | `codex_ipc_reply_harvest.mjs`, `codex_ipc_replies.sh` | none between calls | collect replies | a superseded answer served as current |
| Write proof | `codex_ipc_write_proof.mjs` | snapshots before and after one write | baseline, gate, send once, poll, compare | the target changes between gate and send |
| Inspector | `codex_ipc_session_inspect.mjs` | none between calls | parse a page, classify a thread | sources that disagree; a parser of its own |
| Snapshot, revalidation, thread locator, database reader | `codex_ipc_snapshot.mjs`, `codex_ipc_revalidate.mjs` and others | none between calls | read-only queries | moments that differ |
| Installers, release and audit tooling | `install*`, `codex_ipc_contract_audit.mjs` | - | - | not part of the protocol |

Interactions: the wrapper calls the inspector, the host gate, the client, the
activation helper and the observer as child processes and reads their exit
status and output; the waiter and harvester call the reader and the correlator
in process; all of them share the dispatch directory and the rollouts with
Codex, which writes them at any time.

What makes each part correct: the wrapper starts a task at most once and never
claims what it cannot know; the accumulator certifies exactly the turns that
are complete and undisturbed; the correlator serves an answer only from such a
turn of its own dispatch; the reader delivers exactly the thread's own lines, of
bytes it has verified, and refuses nothing else; the page check leaves authority
with one page of a thread; the harvester serves no body of a page that was
continued, and is silent about a reply only if the rollout bears it out; waiter
and observer end by their deadline, and what they say rests on what they looked
at; the inspector calls a thread eligible only if nothing speaks against it; the
sweep keeps what was not replied to; the write proof writes only to an idle
thread, once.

## 2. Modules

| Module | Models | Kind |
|---|---|---|
| `AtMostOnceDelivery` | what a dispatch promises its operator | abstract specification |
| `Delivery` | wrapper, client, router and renderer, operator | one action per exit or step |
| `TurnBoundary` | the accumulator as a data type (`Push`, `Finish`) | operators |
| `TurnStream` | turns read off a stream as a whole | reference definitions |
| `TurnCuts` | how the turns of an accumulator and those of its stream belong together | operators, invariants of one accumulator |
| `TurnFeeds` | one read that feeds two accumulators | state machine over `TurnCuts` |
| `TurnBuckets` | what the consumers of an accumulator share: records with contents, one bucket of lines per turn | operators |
| `DispatchCorrelator` | the correlator and its projections | operators and state functions over `TurnBuckets` |
| `MarkerConsumer` | the consumer that proves a marked write | operators and state functions over `TurnBuckets` |
| `Consumers` | one growing rollout read by both of them | composes `DispatchCorrelator` and `MarkerConsumer` |
| `TurnBoundaryProofs` | lemmas about one accumulator, one correlator and one marker consumer, fed any stream | proofs |
| `StreamProofs` | theorems about `TurnFeeds` and `Consumers` | proofs |
| `Waiter` | one wait, with the files it watches | composes the reader's steps with `DispatchCorrelator` |
| `WaiterProofs` | theorems about `Waiter` | proofs |
| `WriteProof` | one marked write and the evidence for it | composes gates, client, reader's steps and `MarkerConsumer` |
| `WriteProofProofs` | theorems about `WriteProof` | proofs |
| `RolloutHistory` | whose a record is: owner lineage and fork history | operators, the line parser and its replay |
| `RolloutReader` | chained reads of one rollout while others change it | state machine over `RolloutHistory` |
| `AtomicReads` | what a chain of reads promises its caller | abstract specification |
| `SessionInspector` | the inspector's parser, its choice of a page, its classification, the wrapper's reading of it | operators over `RolloutHistory` |
| `Inspections` | the inspector asked about each page the reader has read | composes `RolloutReader` and `SessionInspector` |
| `ReaderProofs` | theorems about `RolloutReader` and `Inspections` | proofs |
| `RolloutPages` | the locator and the supersession of pages | operators |
| `PageHarvest` | one harvest while pages appear and grow | state machine over `RolloutPages` |
| `PageHarvestProofs` | theorems about `PageHarvest` | proofs |
| `Observer` | one observation of a rollout with its budget | state machine |
| `ObserverProofs` | theorems about `Observer` | proofs |
| `Transport` | dispatchers that sweep and publish in one directory | state machine, one instance of the program per dispatcher |
| `DispatchProofs` | theorems about `Delivery` and `Transport` | proofs |
| `MCDelivery`, `MCTurnFeeds`, `MCConsumers`, `MCWaiter`, `MCWriteProof`, `MCRolloutReader`, `MCPageHarvest`, `MCObserver`, `MCTransport` | instances for TLC | |

In the modules, a definition introduced by "Fault:" is a variant of the one
that follows it, with a plausible bug. No action uses it; putting it in the
place of the real one breaks a property of a run.

### Delivery

`pc` is the point the script has reached after the envelope. `Publish` is
`atomic_write` (a link that fails when the path is taken), `CheckPolicy` the
foreground policy validation that follows it, `InspectTarget` the one snapshot
of the target, `SendLive` and `HostRefused` the two results of the host check
that precedes every client, `Accepted`, `Ambiguous`, `NotLoaded` and
`StillNotLoaded` the branches on the client's document, `AutoloadReturns` the
branches on the helper's exit status, `PollAgain` and `PollExpired` the retry
loop. `line`, `pickup` and `waitHint` are what the operator has seen. Each
attempt `n` has its frame in `wire[n]`; the router and the renderer move it
when they like, also after the client gave up or the wrapper was killed. The
router is external: the one assumption about it is that a frame it answered
with `no-client-found` is not forwarded later. The whole retry protocol of the
wrapper stands on it; `codex_ipc_owner_probe.mjs` lists a client that
disconnects mid-request among the causes of that answer, so it is an assumption
to keep in sight.

The observation of the rollout after an accepted send only chooses the word
after `confirmation=`; it is one abstract value here.

### TurnBoundary, TurnStream and TurnFeeds

An accumulator is a record `[turns, explicit, current]` and `Push` one CASE per
branch of `push(record)`. It is a data type because each of its five users owns
a private one. `TurnFeeds` reads any stream of records and feeds `full` (every
record, as `readRolloutActivity` does) and `kept` (what
`retainForCorrelation` keeps, as the correlator does). A record of no known
pair reaches `kept` only as a parser diagnostic: in `finish` for the turn still
open, and in the adapter's line window (`Undrifted`) for turns that ended.
`TurnStream` says what a clean turn is without any accumulator (`CleanTurns`,
`OpenStarts`), reading the stream as a whole; the runs and the proofs compare
the two.

### DispatchCorrelator

`CorrelateRecord` is `push` with the ingestion into the bucket of the record's turn
and the occurrence of a turn that was finalized by it; `Occurrences` is `finish`
with `applySchemaIntegrity`, and `Harvest`, `Lifecycle` and `Freshness` are its
projections, which are state functions because the callers correlate all
records again at each end of file. `Answers` is what they are compared with: the
answers of a stream, defined on the records alone. A body is a model value; two
records of one user message are told from two messages by their item, as in
`sameLogicalUserDelivery`.

Three things the code does that a reader may not expect, all on the safe side.
A turn that begins with a malformed line is kept pending until its own end, and
only then given up (the last case of `PendingIsOpen`). `appendSemanticOnce`
drops a message that repeats one from before the hand-over, so an answer that
repeats what the turn had said earlier is not certified (`Said`). The branch of
`applySchemaIntegrity` about the rollout's owner cannot be reached from a read
that succeeded, and is left out.

### Waiter

The files (`disk`, `torn`, `file`, `successor`, `reply`, `rival`) are changed by
others at any moment, `MaxChanges` times; the waiter is a sequence of steps, one
for each moment at which it looks at a file:

- `Locate` is `locateRollout`; `Poll` decides between a read and the
  metadata-only check of an unchanged page.
- `OpenRead`, `ReadLine`, `EndRead` are one `readRolloutFile`: verify what was
  consumed, read on, verify it all again. A hash is equality of content.
  `ReadFails` and `ReadTimesOut` are its refusals, at both ends.
- `AssessPage` and `AssessSuccessors` are `assessRolloutPageSupersession`: first
  the page itself, then the claims of other pages. Any claim ends the wait, so
  what kind of claim it is does not matter here.
- `Resolve`, `StatReply`, `OpenReply` and `Decide` are `resolveCompletion`.
- `EndIteration` and `Wake` are the end of the loop's body and the sleep.

Sizes count half lines, so that a line can be written in part and be read in
part. The unit of the clock is the poll interval. The correlator's lines are
pushed as they are read instead of all again at each end of file; the result is
the same and `Consumers` covers it. The check for a reply whose latest
occurrence is not complete cannot be met: with one occurrence, the latest one is
the completed one. The deadline may pass between any two steps.

### MarkerConsumer

`ConsumeRecord` is `push` of the consumer and `Candidates` its `processSnapshot`:
what a turn that is finalized offers as proof, if it is the expected turn, ended
cleanly, was handed the marker and no other input, and ended on a final message
with the marker. The last candidate stays, also when its turn is started again
under the same id. `Proven` is what `observe` makes of it and of the parser
diagnostics. `ProvingEnds` says the same of the stream without a consumer.
`ProvenExactly` relates the two: a later turn of the same id with a record of no
known pair in it replaces the candidate, and the diagnostics then refuse it, so
that a proof already seen is lost; a refusal too many, on the safe side.

### WriteProof

The harness is a sequence of steps, one for each moment at which it looks at
something others may change: `InspectTarget` to `Reread` before the write,
`WriteFrame` and `ClientReturns` for the client process, `Poll` to `Wake` for
`pollRolloutForMarker` (with one reader step for each line, as in `Waiter`),
`AfterConfig` and `AfterRows` for the second snapshot, `Judge` for the report.
`frame` and `turn` are what became of the write in the Desktop; a frame that was
written may be acted on after the client is gone. A snapshot is two moments, one
for `config.toml` and one for the rows, which come from one query; if either is
written to while it is read the snapshot is refused. A hash is equality of
content, and a version is a content that does not come back.

`sentTo`, `lastRead` and `meddled` are history: the page at the last look before
the write, the page when a read last ended, and whether between the two
snapshots anything changed that the harness is to notice. The revalidation is an
outcome; the inspector is its verdict on the target. Time counts in poll
intervals and only while the harness polls.

### Consumers

`ReadLine` pushes one line to both consumers, each with an accumulator and
buckets of its own, as two programs that read one rollout do.
`ConsumersAgree` relates them: a turn the marker proof certifies is one the
correlator serves, as a complete occurrence with the same answer.

### RolloutHistory and RolloutReader

A line is what the reader tells apart: its kind, the id, parent and boundary a
`session_meta` declares, its ordinal, and the thread ids it claims.
`advanceRolloutOwnerLineage` and `advanceRolloutHistoryScope` are the code's
functions of these names; `ParseLine` is one line of a read, `ReplayLine` the
same line when a later read replays what an earlier one had consumed. They are
separate in the code and in the model, and `ResumeNeverRefused` says that they
agree. `OwnLines`, `WellFormed`, `BoundaryReached` and `IsListing` say the same of
a whole file, without going through it line by line.

A file is a sequence of half lines. The steps are the moments at which
`readRolloutFile` looks at the file: `Open` (identity, size and anchors),
`VerifyPrefix` (the hash of what was consumed), `Replay`, `ReadHalf`,
`EndOfFile`, `Recheck` (descriptor, anchors and hash once more) and `CheckPath`
(the path, the boundary, the cursor); `Deadline` may end a read at each of them.
Between any two, Codex appends halves of lines and others rewrite a line, cut
the file or give its path to another; the descriptor keeps the old content. The
caller reads again from its last good cursor or starts over. A hash is equality
of content; an anchor is the last `AnchorLength` halves before an offset.

What is abstract: two halves of different lines are one line that is no JSON; a
file is read by half lines, finer than the chunks of 256 KB. A deadline always ends a read as `deadline-exceeded`, though
the code looks at the file once more and may then name a change. Left out: the
limit on the length of a record, handlers that throw, and the decoding of a
character cut in two.

`AtomicReads` is the promise without the steps: a read glimpses, at one moment, the
first lines of the file at the path; if these may be handed on and go on from what the
caller holds, it is given the listing of exactly them, and in any other case keeps
what it has. In the refinement (`Reads`) the file is the complete lines of `disk`, the
caller holds those of its cursor's prefix, and the moment is `Recheck`, when the
descriptor is found unchanged; only `CheckPath`, a step later, shows that the
descriptor is still of the file at the path, so a `Replace` in between takes the
glimpse back.

### SessionInspector and Inspections

`parseRollout` is the inspector's own loop over a page, a fold: the third
decision of whose a record is, written by hand beside the reader's two.
`InspectLineage`, `ClaimsOther` and `InspectRecord` are the body of that loop,
`EndsWell` what it checks after the last line. `Target` is everything else it
finds: the row, the spawn edges, the page the row names, the files of that name
below the sessions root, the parent a page declares. `findRolloutCandidates`,
`classifyTarget` and its parts are functions of these, and `ClassOf` and
`Eligible` are what `classify_inspected_target` and the `case` after it make of
the document and its exit status. `Inspections` asks the inspector about each
page a read of `RolloutReader` ended on, whatever had happened to the page
until then.

What the two parsers are known to differ in is outside `Comparable`. A line that
is no UTF-8 is refused by the reader, and read with replacement characters by the
inspector. A page whose first record is not its thread's
`session_meta` is not selected by the inspector at all. A last line without its
line feed is parsed by the inspector and only announced by the reader; the
comparison is of complete lines. The inspector treats links to directories as
no directories, where the locator gives up; a page is taken not to be replaced
between the look at its first record and its parse. A document about a missing
row comes with a success when there is a page, and the wrapper then says
`ambiguous` instead of `missing`.

### RolloutPages and PageHarvest

A directory maps paths to files; a file is its number, its first record
(unparsable, without its line feed, or complete), and its size in half lines.
`Located`, `LocatedAt` and `Valid` are `locateRollout`, with and without a path;
`Assess` is `assessRolloutPageSupersession`, and `Claim` what one candidate
claims. `PageHarvest` runs `harvestDispatch` over them: `LookForReply`,
`Locate`, `Read`, `LookAtBound`, `List`, `Check` (one candidate after the
other), `Decide`. Pages appear, first records are finished, pages grow and are
replaced between any two of them. What a correlator makes of a page is one of
`Dispatches`, and grows along `Follows`; `Consumers` is about what it makes of
it. `listed` and `judged` are history: the directory when its names were read,
the bound page when it was looked at again.

The branch of `benignNoCandidate` (`codex_ipc_reply_harvest.mjs:142-155`) has no
effect in the code, since every way into it ends with a caution as well; it is
part of `Locate`.

### Observer

The steps of one look are `Locate`, `Attempt` (read, or skip the read of an
unchanged page), `OpenRead` and `EndRead` or a failure, `AssessPage` and
`AssessSuccessors`, `EndIteration`, and the sleep. `Veto` keeps a failure for
good. Sizes count half lines and time is counted in ticks, `Interval` of them
between two looks, so that a budget need not be a multiple of it.

### Transport

Each dispatcher runs the three `find` commands of the sweep and then the
commands of `atomic_write`, each a step; `todo` is what a `find` has listed and
is not dealt with yet. The directory, staging file and envelope of one are seen
by all. Codex replies, something else may take a path, a dispatcher may be
killed at any step, and days pass.

Some things that can happen in the model are against no property, because no
document promises otherwise. Two sweeps at once, a day that begins between
two `find` commands, or a deletion that fails can leave a task behind whose
reply is gone; it is kept for ever, as one that was not replied to. A directory
that is empty and old can be removed by another's sweep between `mkdir` and
`mktemp`; the dispatcher then fails before it has published. The guard against a
dangerous root (`RETENTION_SWEEP_OK`) is taken to hold.

## 3. Runs

| Run | Bounds | Distinct states | What it asks |
|---|---|---|---|
| `delivery` | `PollWindow = 3` | 9,854 | is a task started at most once, and is every line to the operator true? |
| `turn_feeds` | five lines, two turn ids | 2,038,168 | are turns cut exactly, by both feeds? |
| `consumers` | four lines after each of four beginnings | 270,609 | is every answer served the dispatch's own, and for good, and does the marker proof agree? |
| `rollout_reader` | three reads of growing, tampered files; 28 kinds of targets | 3,717,800 | has the caller exactly its own lines, of one moment; does the inspector's parser agree; is an eligible target proven? |
| `page_harvest` | up to four pages, two changes | 728,738 | does a body or a silence rest on a current page? |
| `observer` | budgets of one and a half and two intervals, two changes | 343,245 | does a hit rest on a clean read and pending on a last look that read, and does the observer end? |
| `waiter` | two changes of the files, budgets 3, 2 and 0 | 979,099 | does the token rest on what was there? |
| `waiter_ends` | one change | 32,492 | does the wait end? |
| `transport` | two dispatchers with one path, four days | 508,627 | is an envelope its publisher's, and kept until it is replied to? |
| `write_proof` | one change by others, two attempts, three threads, three ways of calling | 1,188,108 | is the thread written to idle, is the report true, and does the harness end? |
| `waiter_growth`, `waiter_opaque_tail` | two changes | | two disagreements with the documents, section 4 |

`delivery`: three polls, so up to four clients, all modes, settings and target
classes. Two attempts are enough for a late frame of one attempt to meet the
next one; the third and fourth exercise the window running out. It checks at
most one execution, truth of every claim (`NonAdmissionProven`), the pickup and
WAIT lines, the single RESULT line, that no client is spawned in doubt, that the
wrapper ends, and the refinement of `AtMostOnceDelivery`. Fairness is weak
fairness of the wrapper and of the client: the first is a sequential script,
each wait of the second has a timer. None is assumed of the router, the renderer
or the operator, and `Kill` is never forced.

`turn_feeds`: five lines hold two turns and a stray record inside or between
them. Turn ids are symmetric: they are only compared. It checks that `closed`
snapshots are exactly the clean turns, that the two feeds agree on closed and
open turns, that the activity on which a write is decided is exact, that one
turn at most is open, and that an emitted turn never changes.

`consumers`: the beginnings are an empty rollout, a started turn, a turn that
was handed the task, and an answered dispatch; four more lines are enough for a
repeated hand-over, a late or missing end, a message of another turn, an
unreadable line before or after any of them, and for a second turn of the same
id after a proof, so that a candidate is replaced. Two bodies are needed for a
terminal record that repeats the wrong one. It checks that the answers
certified are exactly the stream's (`CertifiedExactly`), that settled freshness
and the harvest serve the latest (`SettledServesLatest`), that `pending` is only
said of what can still end (`PendingIsOpen`), that no later line withdraws an
answer (`AnswersStay`), that the marker is proven exactly when the stream shows
it (`ProvenExactly`), and that the two consumers agree.

`rollout_reader`: the files are empty, the thread's, another's, forks with the
boundary declared, missing, reached or not, and a fork of a fork. Two half lines
of growth can finish a line, or begin one that the next read finishes; one
rewriting, cut or replacement can come between any two steps of any of the
reads, and takes one read off the three. Three reads are the fewest in which a
cursor that came from a resumed read is resumed in turn. The 28 targets are roots,
declared and old, found in each way, and each piece of evidence that speaks
against one, alone or together with one that contradicts it.

`page_harvest`: the directories hold no page, one, a good successor, two in
line, a circle, one file under two names, and pages whose first record is not
finished. The two changes let a page appear and be finished, or a page be
listed unfinished and finished before it is checked. `OnePageKeepsAuthority`
speaks of directories whose links are all sound.

`observer`: budgets are one and a half and two intervals, so that the number of
looks is rounded in one and not in the other. A line rewritten in place leaves the
size as it is, so that a look may skip a page that does hold the hand-over:
`PendingIsLastLook` compares what the page held when the last finished look began
(`seen`) with what was read, and finds a read spared at the edge of the budget.
A pending after a look that was skipped in time for another, which the deadline
then overtook, is allowed, as the code says at `codex_ipc_rollout_observe.mjs:132`.
Fairness as in `waiter_ends`.

`transport`: both dispatchers were given one path, which is the worst case, in a
directory where an earlier dispatch left a task with an old reply, with a recent
one, without one, or nothing. Four days let what is recent at the first sweep be
old at the second.

`waiter`: the ways of calling it are the polling command the wrapper prints, a
scan for page and reply, and a single look. A budget of three intervals is the
smallest in which a look may use the metadata-only check and be followed by one
that may not. Two changes are enough for one before and one after any look, or
for a page and a reply that change one after the other. `VerdictIsCurrent`
compares what the token rests on with what was there at the last look
(`looked`); `DoneIsOwnTurn` compares "done" with the records themselves;
`PendingIsHonest` says that the budget is used.

`waiter_ends` has one change only, because checking a temporal property is dear.
It assumes weak fairness of `Step`, for the waiter is one sequential program
whose calls return, and of `Tick`, for time passes. Codex, the operator and all
others who change files are free to do so or not.

`write_proof`: the earlier turn of the thread is over, still open, or has a line
that cannot be read; others append a start, a user message or an unknown record,
rewrite or tear a line, move the file, or change a row or the configuration, at
any step. Our turn has four lines, the fewest a proof has. Two attempts give one
look that may skip its read and one that may not. `SendsToIdleThread` speaks of
the last look (`Reread`): between it and the write there is a client process to
start, and what becomes of a frame that meets an open turn is the app's
decision. `TurnBoundIsOurs` relates a positive report to what became of the
frame, to the page, and to what others did between the two snapshots.
`HarnessEnds` assumes weak fairness of `Step`, since each process the harness
starts has a time limit and each of its sleeps a bound, and of `Tick`; nothing of
Codex, the router and others.

A type invariant is a conjunct of the inductive invariant of its module, and a
theorem (`ReaderTypes`, `HarvestTypeOK` and their like); the configurations ask what
is not a matter of types.

Deadlock is off in all runs because a dispatch, a read, a wait and a write
come to an end.

## 4. Findings

**Growth ends the wait** (`waiter_growth`). The page check is handed the size at
which the read ended, or that of the last read when the read was skipped, and
refuses a page of any other size with `page-supersession-unproven`
(`codex_ipc_rollout_reader.mjs:3343`, reason `bound-page-size-changed`); the
waiter then prints `unavailable` (`codex_ipc_wait.mjs:430`). So a line appended
in that interval ends a polling wait that has budget and looks left. The property
leaves out the single look (a budget of zero) and the last look of a poll, after
which there is nothing to read on; in the trace a wait of two intervals is in its
first look, and its budget has not begun to run down. SKILL.md knows
`page-supersession-unproven` as "malformed, incomplete, or multiple successor
claims" (line 428) and says that growth runs the full reader (line 455). The
check is what makes `VerdictIsCurrent` true: without it, a determination would
rest on an outdated page. It would be enough to read on.

**An opaque tail that is not looked for** (`waiter_opaque_tail`). SKILL.md:396
says that unreadable records after the dispatch's turn keep the waiter
`unavailable`. The waiter asks for the freshness reason
`post-occurrence-schema-unknown` (`codex_ipc_wait.mjs:286`), but
`projectDispatchFreshness` (`codex_ipc_rollout_reader.mjs:2710`) returns
`unavailable` before it looks at the tail when the latest occurrence carried no
certified answer. With a reply file, such a turn followed by an unreadable line
is `done`.

Both were found on the models and read back in the code. That a deadline which
passes during the page check ends the wait with `unavailable` and not with
`pending` is documented (`skills/ipc/references/architecture.md:407`) and no
finding.

## 5. Proofs

`DispatchProofs` proves, for every `PollWindow`, that `DeliveryInv` is
inductive and from it every safety property of the run, the action property
and the refinement. The strengthening says what the wire can still do at each
control point: nothing is in flight before and between attempts (`Quiet`), an
answer and the document made from it determine the fate of the current frame,
and every earlier frame was refused. Without it a report that prints the pickup
line could be reached with a frame still in the pipe. The only assumption is
`PollWindow \in Nat \ {0}`. The same module holds the proofs about `Transport`,
further down: the two are halves of one script and share no state.

`TurnBoundaryProofs` has no specification of its own: it says what one record does
to an accumulator, a correlator and a marker consumer that were fed any stream, so
that the modules which feed them need not know how. For the accumulator, `FeedInv`
relates it to the stream: which turn is open and whether it is clean so far
(`CutInv`), that `explicit` leads to the latest turn of every started id, and that an
emitted turn has a reason to be emitted (`AccInv`). Neither half is inductive alone:
that a terminal record closes the right turn needs `explicit`, and that `explicit` is
right needs to know which starts the stream holds. The lemmas first say how the clean
turns of a stream grow by one record (`CleanTurnsAppend`), then what each of four
effects (nothing, a spoiled turn, a new turn, a closed turn) does to the invariant,
and then which branch of `Push` has which effect (`PushEffects`). `DriftCut` relates
the attribution by line windows to the one by arrival, and `TailInv` the activity of
the last turn to the last lines of the stream.

For the correlator, `CorrelatorInv` adds to `FeedInv` what is in each bucket
(`BucketInv`), that the occurrences with an answer are exactly the answers of the
stream (`CertifiedInv`), that they lie one after the other and before the open turn
(`OrderInv`), what the bucket of the open turn must hold (`OpenInv`), and that every
record which hands over the task is in that bucket or accounted for by an occurrence
(`HandedInv`). `CertifiedInv` is what the properties are about; it is not inductive,
because whether the next terminal record makes an answer is decided by the bucket, and
whether a record may be missing from it by `OpenInv`. `ConsumerInv` does the same for
the marker consumer, with the one candidate in place of the occurrences
(`CandidateInv`). `CorrelatedFacts` and `ConsumedFacts` carry both to streams that were
read before the first step, by induction over the numbers up to the length of the
stream.

`StreamProofs` proves, for streams of any length over any set of turn ids, that the
closed snapshots are exactly the clean turns (`ClosedCorrect`), that the two feeds
agree (`FeedsAgreement`), that the activity on which a write is decided is exact
(`ActivityCorrect`), that at most one turn is open, that a finalized turn never
changes, and type correctness. Of the consumers it proves, for any lines and any
beginning of the rollout, all that the run checks: that answers are certified exactly
(`CertifiedCorrect`), that what is settled serves the latest (`SettledCorrect`), that
pending is only said of what can still end (`PendingCorrect`), that no later line
withdraws an answer (`StayCorrect`), that the marker is proven exactly
(`ProvenCorrect`), and that the two consumers agree (`AgreeCorrect`). The two
specifications share the module because they share the lemmas; they have no state in
common.

`WaiterProofs` proves, for any lines, budgets and number of changes, that a verdict
is of the moment of the last look (`CurrentCorrect`), that "done" is said of the
dispatch's own turn (`DoneCorrect`), and that pending uses the budget
(`PendingHonest`). `WaiterInv` has four parts besides the properties: the correlator is
that of the records read (`RecordsInv`, with `CorrelatorInv`), each step is reached with
a page read to its end and, from the page check on, certified (`StageInv`), what the
check saw is the page that was read, and no successor (`LookInv`), and the iterations
keep to the clock (`TimeInv`). "Done" without a reply file rests on the occurrences,
with one on there being one occurrence only; that this one is the only turn which was
handed the task is `SoleTurn`, and its reason is `HandedInv`. That the occurrences are
finitely many is part of the invariant because they are counted.

`WriteProofProofs` proves, for any number of attempts and changes, that the write
goes to a thread that is idle (`SendCorrect`), that the report is true
(`ReportCorrect`), and that a positive report means that our frame started the turn
that was found and nobody meddled (`TurnBoundCorrect`). `WriteProofInv` says what the
client left when nothing was sent, something may be, or is (`SendInv`); what the
harness knew when it went on (`LookInv`); that the lines after the baseline are those
of others or of our turn, and the consumer is that of the lines read (`PollInv`); and
that whatever meddled since the first snapshot shows in the second (`WatchInv`). The
last needs that versions do not come back and that a row once gone stays gone.
The assumption `OursIsMarked` says that the marker is in our message only and the turn
id in our turn only: the code draws the marker from `randomUUID` and Codex draws the
id.

Of the directory `DispatchProofs` proves, for any number of dispatchers, paths, channels and
days, that no sweep removes what was not replied to (`SweepKeepsUnreplied`) and
that a published envelope is its publisher's until it is replied to
(`PublishedEnvelope`). `TransportInv` adds that a reply file is only there for an
envelope that was replied to, that only files carry a dispatcher's name, and that
between link and verification an envelope is at its path or a directory is: without
the first a sweep could find a reply nobody wrote, without the last the
verification would prove nothing of the path.

`ObserverProofs` proves, for every interval, budget, rollout and number of
changes, that a hit is certified and that pending is the last word. The invariant
`ObserverInv` ties the flags to what was read (`FlagsAreTrue`), the cursor to the
records (`CursorMeetsRecords`), what was checked to what was read
(`LookedAtRecords`, `AdmittedIsChecked`), what a look saw to what is read of it
(`SeenIsRead`), and the clock to the number of looks
(`OnSchedule`). The arithmetic is one lemma: the budget over the interval, rounded
up, is enough intervals (`CeilingCovers`). It carries the proof that the loop does
not run out of looks before the deadline.

`PageHarvestProofs` proves, for any finite set of paths, any files and any changes,
that a body is current (`BodiesAreCurrent`) and that silence is earned
(`SilenceNeedsEvidence`). The argument of `HarvestInv` is that a file keeps its
first record for good: a candidate of the listing that continues the page
(`ListedSound`) is either still to be checked or was counted as a successor or as a
broken one (`PassedSound`), whatever its size was when it was checked. Without it, a
claim passed over at its check might have been true at the listing. That a sound
directory of any size has exactly one page with authority (`OnePageIsCurrent`) is a
matter of counting: a link leads from each paginated page to one other page and no two
lead to one, so that the pages which nothing continues are as many as those which
continue nothing, and of these there is one. The page so found is assessed as current
and every other one is not.

`ReaderProofs` proves, for files of any length, any lines and any number of reads and
changes, that a good read leaves the caller the thread's own lines of the file, each
once and in order (`ReadIsExact`), that nothing is refused for what it says which is a
rollout of the thread with its boundary reached (`NoValidRefusal`), and that no cursor
is refused while the file is only appended to (`NoResumeRefused`).

- What has to be found is what a parser's state says of the lines it has parsed
  (`Keeps`): but for what it still observes, it is a function of them. The owner and
  the lineage are those declared so far (`OwnerOf`), the scope counts the records
  (`ScopeOf`), the timestamp is that of the last line of the thread's own. The lemmas up
  to `ParseStep` say what one more line does to either side, and `ParseStep` that a line
  is refused exactly if the lines with it are no rollout.
- `ContentInv` and `CursorInv` say this of a read under way and of what the caller
  holds. A read that is resumed starts from a replay, not from the cursor, and
  `ReplayKeeps` shows that the two agree: `ReplayStep` is `ParseStep` for the other copy
  of the code, and the replay of a whole prefix follows by induction over the numbers up
  to its length. That the recursive function `Replayed` is built from exists at all has
  to be proved too (`ReplayExists`, by well-founded recursion over the numbers).
- `GrowthInv` is about the file and not about what it says: as long as nobody tampers,
  all that was seen is still a prefix of it, so that no look at it can fail.

That the reader implements `AtomicReads` (`ReadsRefine`) rests on these and on
`ChainInv`: the open descriptor is of a file that has been at the path, so that no
replacement can bring back a glimpse, and what is read goes on from what the caller
holds, since a read that is resumed starts from a prefix that was compared with the
cursor's. `RecheckGlimpses` shows that what the last comparison accepted is what the
file at the path begins with, and `PathSucceeds` that a good read hands on the lines of
exactly that; every other step is one of the others or changes nothing the caller sees.
`ReadsExactly` alone would allow a read of a file that is no longer at the path.

The inspector's parser is a third fold over the same lines, and is reached in the same
way: `Inspects` says what its state tells of the lines so far, `InspectorIs` that it
finds a page sound exactly if it is a rollout of the thread with its boundary reached,
and `ListingIsOne` that a file has one listing, so that reader and inspector cannot
differ (`OneStory`). From there `OnlyRootsEligible` is a matter of unfolding the
classification; it holds for every target, of which the run has 28.

The assumptions are that the fields of one line and the edges of one thread are finitely
many, which are counted, and that the line two halves of different lines make is no JSON.

The proofs use the named assumptions of the modules on their constants and nothing
else.

Model-checked only: `WrapperEnds`, `WaitEnds`, `ObserverEnds` and `HarnessEnds`, which
need fairness. Every other property of a passing run is a theorem.

## 6. Plan

Done: all modules of section 2, and theorems for every property of the passing runs
which is not about liveness.

1. That the lines a waiter or a write proof reads step by step are those that a chain
   of `RolloutReader` delivers: both as one client of `AtomicReads`, so that their
   abstraction of the reader rests on a theorem.
2. The viewer `codex_ipc_replies.sh` over `PageHarvest`; the marker consumer without
   an expected turn.
3. The revalidation and the snapshot as programs of their own, as `SessionInspector`
   is, instead of outcomes in `WriteProof`.
4. The host policy: its verdict as a function of a process listing, and that the
   gate before a send and the helper's own gate agree on it.

## 7. Not modelled

- The text of the envelope and all formatting; JSON, UTF-8 and path syntax; argument
  parsing, printing and exit codes of waiter, observer and harvester.
- The host policy: a function of one process listing without state of its own.
  `Delivery` takes its verdict before each send as a choice, so what it proves holds
  for any.
- The activation helper: `Get-CodexIpcProtocolRegistration` always answers `unknown`
  in this build and the package state is never `clear`
  (`docs/COMPATIBILITY.md:134` says so too), so that no program is ever started. Its
  exit status is a choice in `Delivery`.
- The inspector's tail and its heuristic activity signals, which are displayed and
  not acted on.
- The viewer; thread locator, probe and database reader, which are read-only queries;
  the retired owner probe; contract audit, safe rendering, installers, release and
  test tooling.
