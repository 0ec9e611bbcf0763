------------------------------- MODULE TurnCuts -------------------------------
(***************************************************************************)
(* How the turns of an accumulator and the turns of the stream it was fed  *)
(* belong together: what the consumers make of the snapshots, the fold of  *)
(* a stream into an accumulator, and the invariants by which the theorems  *)
(* relate the two.                                                         *)
(***************************************************************************)
EXTENDS TurnStream

-----------------------------------------------------------------------------
(***************************************************************************)
(* What the consumers make of the snapshots.                               *)
(***************************************************************************)

Snapshots(turns, activity) ==
  {turns[k] : k \in {j \in DOMAIN turns :
     turns[j].emitted /\ Activity(turns[j]) = activity}}

Windows(turns, activity) ==
  {<<t.startLine, t.terminalLine>> : t \in Snapshots(turns, activity)}

\* The snapshot with the highest sequence number, as readRolloutActivity
\* has it.
LatestActivity(turns) ==
  IF turns = <<>> THEN "ambiguous" ELSE Activity(turns[Len(turns)])

\* The accumulator after the whole stream.
Fed(str) ==
  LET upTo[n \in 0 .. Len(str)] ==
        IF n = 0 THEN EmptyAccumulator ELSE Push(upTo[n - 1], n, str[n])
  IN upTo[Len(str)]

-----------------------------------------------------------------------------
(***************************************************************************)
(* What the activity says of the stream.                                   *)
(***************************************************************************)

\* A record that may follow the end of a turn and leave the thread idle.
Quiet(r) == r.kind \in {"agent_message", "other"} \/ IsTerminal(r)

\* The last turn of a stream that shows one is over.
IdleAfter(str) ==
  \E w \in CleanTurns(str, {}) : \A k \in w[2] + 1 .. Len(str) : Quiet(str[k])

-----------------------------------------------------------------------------
(***************************************************************************)
(* The strengthening the proofs use: during the read, an accumulator and   *)
(* the stream it was fed agree on which turn is open, whether it is clean, *)
(* which ids were started, and which turns are closed.                     *)
(***************************************************************************)
Clean(turn) == turn.errors = {} /\ ~turn.parseGap

AccInv(acc, str) ==
  /\ IsAccumulator(acc)
  /\ HasOneOpenTurn(acc)
  /\ acc.current # 0 => Current(acc).terminalLine = 0
  /\ acc.current # 0 /\ Current(acc).turnId # NoId =>
       acc.explicit[Current(acc).turnId] = acc.current
  /\ \A id \in TurnIds : acc.explicit[id] # 0 => acc.turns[acc.explicit[id]].turnId = id
  /\ \A id \in TurnIds :
       acc.explicit[id] = 0 <=> \A j \in DOMAIN str : ~(IsStart(str[j]) /\ str[j].id = id)
  /\ \A k \in DOMAIN acc.turns : acc.turns[k].emitted =>
       acc.turns[k].superseded \/ acc.turns[k].terminal # "none"

CutInv(acc, str, hidden) ==
  /\ OpenStarts(str, hidden) =
       IF acc.current # 0 /\ Clean(Current(acc)) THEN {Current(acc).startLine} ELSE {}
  /\ acc.current # 0 /\ Clean(Current(acc)) =>
       str[Current(acc).startLine].id = Current(acc).turnId
  /\ Windows(acc.turns, "closed") = CleanTurns(str, hidden)

FeedInv(acc, str, hidden) == AccInv(acc, str) /\ CutInv(acc, str, hidden)

\* Only the last turn can be open; a line that is not quiet follows every
\* turn but the last, and none the last once it is over.
TailInv(acc, str) ==
  LET n == Len(acc.turns)
      loudAfter(line) == \E k \in DOMAIN str : k > line /\ ~Quiet(str[k])
  IN /\ acc.current \in {0, n}
     /\ n = 0 => ~loudAfter(0)
     /\ n # 0 /\ acc.current = 0 =>
          /\ acc.turns[n].terminalLine \in 0 .. Len(str)
          /\ ~loudAfter(acc.turns[n].terminalLine)
     /\ \A k \in 1 .. n - 1 : loudAfter(acc.turns[k].terminalLine)
=============================================================================
