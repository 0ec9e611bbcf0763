------------------------------ MODULE TurnFeeds ------------------------------
(***************************************************************************)
(* One read of a rollout, cut into turns twice: by an accumulator that is  *)
(* fed every normalized record (thread activity), and by one that is fed   *)
(* only the records readRolloutFile retains (dispatch correlation), which  *)
(* learns of unknown records from the parser diagnostics afterwards.  The  *)
(* reader's comments say that the two attributions cannot disagree.        *)
(*                                                                         *)
(* The stream is any sequence of records: the rollout is written by a      *)
(* program whose format this code does not own.                            *)
(***************************************************************************)
EXTENDS TurnCuts

CONSTANT MaxFeed    \* bound on the length of the stream

ASSUME MaxFeedAssumption == MaxFeed \in Nat

VARIABLES feed,      \* the records of the lines read so far
          full,      \* the accumulator fed every record
          kept,      \* the accumulator fed the retained records
          finished   \* TRUE once the read ended and both were finished

feedVars == <<feed, full, kept, finished>>

FeedsTypeOK ==
  /\ feed \in Seq(Records)
  /\ finished \in BOOLEAN
  /\ IsAccumulator(full)
  /\ IsAccumulator(kept)

\* retainForCorrelation, and the malformed lines the parser passes on.
Retained(r) == r.kind # "drift"

FeedsInit ==
  /\ feed = <<>>
  /\ finished = FALSE
  /\ full = EmptyAccumulator
  /\ kept = EmptyAccumulator

\* Lines of the schema-drift diagnostics of the read.
Drift == DriftOf(feed)

-----------------------------------------------------------------------------
\* parseLine hands one more record to the two feeds; a record of no known
\* pair is not retained.
FeedLine ==
  /\ ~finished
  /\ Len(feed) < MaxFeed
  /\ \E r \in Records :
       /\ feed' = Append(feed, r)
       /\ full' = Push(full, Len(feed) + 1, r)
       /\ kept' = IF Retained(r) THEN Push(kept, Len(feed) + 1, r) ELSE kept
  /\ UNCHANGED finished

EndOfFeed ==
  /\ ~finished
  /\ finished' = TRUE
  /\ full' = Finish(full, Drift)
  /\ kept' = Finish(kept, Drift)
  /\ UNCHANGED feed

FeedsNext == FeedLine \/ EndOfFeed

FeedsSpec == FeedsInit /\ [][FeedsNext]_feedVars

-----------------------------------------------------------------------------
\* applySchemaIntegrity: the dispatch adapter refuses a turn with a drift
\* diagnostic between its start and its terminal line.
Undrifted(w) == ~\E d \in Drift : w[1] < d /\ (w[2] = 0 \/ d < w[2])

AdapterWindows(activity) == {w \in Windows(kept.turns, activity) : Undrifted(w)}

\* readRolloutActivity: the snapshot with the highest sequence number.
TurnActivity == IF finished THEN LatestActivity(full.turns) ELSE "ambiguous"

-----------------------------------------------------------------------------
\* Both accumulators have at most one open turn, the current one; every
\* other turn they started was finalized.
OneOpenTurn == HasOneOpenTurn(full) /\ HasOneOpenTurn(kept)

\* A snapshot is "closed" exactly for the turns whose lines are all there:
\* a start, the terminal record of that start, nothing unreadable, foreign
\* or newly started in between.
ClosedExactly == Windows(full.turns, "closed") = CleanTurns(feed, {})

\* codex_ipc_rollout_reader.mjs:2044-2050 and 2163-2167: attribution while
\* the turn is open and attribution by line windows cannot disagree, neither
\* about turns that ended nor about the one still open at the end.
FeedsAgree ==
  /\ AdapterWindows("closed") = Windows(full.turns, "closed")
  /\ finished => AdapterWindows("open") = Windows(full.turns, "open")

\* A thread is reported idle ("closed") only if nothing was started, said by
\* the user or unreadable after its last clean turn, and mid-turn ("open")
\* only if its last turn is clean so far: writing to a thread relies on it.
ActivityExact ==
  finished =>
    /\ TurnActivity = "closed" <=> IdleAfter(feed)
    /\ TurnActivity = "open" <=> OpenStarts(feed, {}) # {}

\* A finalized turn never changes: consumers act on a snapshot at once.
SnapshotsFinal ==
  [][/\ \A k \in DOMAIN full.turns : full.turns[k].emitted => full'.turns[k] = full.turns[k]
     /\ \A k \in DOMAIN kept.turns : kept.turns[k].emitted => kept'.turns[k] = kept.turns[k]]_feedVars

(***************************************************************************)
(* The inductive invariant: with the properties, how each accumulator      *)
(* stands to the stream while the read goes on.                            *)
(***************************************************************************)
FeedsInv ==
  /\ FeedsTypeOK
  /\ OneOpenTurn
  /\ ClosedExactly
  /\ FeedsAgree
  /\ ActivityExact
  /\ ~finished =>
       /\ FeedInv(full, feed, {}) /\ FeedInv(kept, feed, {"drift"})
       /\ TailInv(full, feed)
=============================================================================
