---------------------------- MODULE TurnBoundary ----------------------------
(***************************************************************************)
(* createTurnBoundaryAccumulator: the one state machine that cuts a stream *)
(* of normalized rollout records into turns.  Every reader of a rollout    *)
(* (dispatch correlation, thread activity, marker proof, the inspector)    *)
(* feeds an accumulator of its own and acts on the snapshot emitted when a *)
(* turn is finalized.  The machine does no I/O and shares nothing, so it   *)
(* is a data type here: an accumulator is a record, push and finish are    *)
(* operators on it, and the modules that use one keep it in a variable.    *)
(*                                                                         *)
(*   turns     every turn started so far, emitted ones included; a turn is *)
(*             named by its index, the code's sequence number plus one     *)
(*   explicit  the latest turn started under each turn id, 0 for none      *)
(*   current   the turn that receives records, 0 for none                  *)
(*                                                                         *)
(* "line" is the line of the record pushed, "id" its turn id, NoId if none.*)
(***************************************************************************)
EXTENDS Naturals, Sequences

CONSTANTS TurnIds, NoId

ASSUME NoIdAssumption == NoId \notin TurnIds

-----------------------------------------------------------------------------
\* A normalized record: "malformed" is a line that is no JSON, "drift" a
\* record of no known pair, "other" a known record no accumulator looks at.
BoundaryKinds == {"task_started", "user_message", "agent_message",
                  "task_complete", "turn_aborted"}
Records == [kind : BoundaryKinds, id : TurnIds \cup {NoId}]
           \cup [kind : {"malformed", "drift", "other"}, id : {NoId}]

TerminalKinds == {"task_complete", "turn_aborted"}
Modes == {"turn-id", "ordered-fallback", "unbound"}
BoundaryErrors == {"orphan-user-message", "user-message-turn-id-mismatch",
                   "agent-message-turn-id-mismatch", "terminal-turn-id-mismatch",
                   "terminal-turn-id-unexpected", "terminal-turn-id-missing"}

\* parseGap stands for both parseErrorLines and schemaGap.
Turns == [turnId : TurnIds \cup {NoId}, mode : Modes, startLine : Nat,
          terminal : TerminalKinds \cup {"none"}, terminalLine : Nat,
          superseded : BOOLEAN, errors : SUBSET BoundaryErrors,
          parseGap : BOOLEAN, emitted : BOOLEAN]

IsAccumulator(acc) ==
  /\ acc \in [turns : Seq(Turns), explicit : [TurnIds -> Nat], current : Nat]
  /\ acc.explicit \in [TurnIds -> 0 .. Len(acc.turns)]
  /\ acc.current \in 0 .. Len(acc.turns)

EmptyAccumulator ==
  [turns |-> <<>>, explicit |-> [id \in TurnIds |-> 0], current |-> 0]

NewTurn(id, mode, line) ==
  [turnId |-> id, mode |-> mode, startLine |-> line, terminal |-> "none",
   terminalLine |-> 0, superseded |-> FALSE, errors |-> {}, parseGap |-> FALSE,
   emitted |-> FALSE]

Current(acc) == acc.turns[acc.current]

\* "current && !current.terminalType"
InTurn(acc) == acc.current # 0 /\ Current(acc).terminal = "none"

\* The activity a snapshot reports.
Activity(turn) ==
  IF turn.superseded \/ turn.errors # {} \/ turn.parseGap THEN "ambiguous"
  ELSE IF turn.terminal # "none" THEN "closed" ELSE "open"

\* acc with turn k replaced.
WithTurn(acc, k, turn) ==
  [turns |-> [acc.turns EXCEPT ![k] = turn],
   explicit |-> acc.explicit, current |-> acc.current]

\* Fault: the sequence number is taken after it was incremented.
SkipSequence(acc, turn) ==
  [turns |-> Append(acc.turns, turn), explicit |-> acc.explicit,
   current |-> Len(acc.turns) + 2]

\* The new turn becomes the current one.
Begin(acc, turn) ==
  [turns |-> Append(acc.turns, turn), explicit |-> acc.explicit,
   current |-> Len(acc.turns) + 1]

AddError(acc, code) ==
  WithTurn(acc, acc.current, [Current(acc) EXCEPT !.errors = @ \cup {code}])

-----------------------------------------------------------------------------
\* Fault: a gap inside a turn is left to the line windows of the consumer.
GapOutsideTurnsOnly(acc, line) ==
  IF InTurn(acc)
  THEN acc
  ELSE Begin(acc, [NewTurn(NoId, "unbound", line) EXCEPT !.parseGap = TRUE])

\* A malformed line, or a record whose envelope and payload types are no
\* known pair: it poisons the turn it falls in, or opens one of its own.
PushGap(acc, line) ==
  IF InTurn(acc)
  THEN WithTurn(acc, acc.current, [Current(acc) EXCEPT !.parseGap = TRUE])
  ELSE Begin(acc, [NewTurn(NoId, "unbound", line) EXCEPT !.parseGap = TRUE])

\* Fault: the superseded turn is marked but not finalized.
MarkSuperseded(acc) ==
  IF InTurn(acc)
  THEN WithTurn(acc, acc.current, [Current(acc) EXCEPT !.superseded = TRUE])
  ELSE acc

\* An open turn is finalized as superseded before the next one starts.
Supersede(acc) ==
  IF InTurn(acc)
  THEN WithTurn(acc, acc.current,
                [Current(acc) EXCEPT !.superseded = TRUE, !.emitted = TRUE])
  ELSE acc

PushStart(acc, line, id) ==
  LET begun == Begin(Supersede(acc),
                     NewTurn(id, IF id = NoId THEN "ordered-fallback" ELSE "turn-id", line))
  IN IF id = NoId THEN begun
     ELSE [turns |-> begun.turns, current |-> begun.current,
           explicit |-> [begun.explicit EXCEPT ![id] = begun.current]]

\* A message that names another turn than the one it falls in.
Disagrees(acc, id) == InTurn(acc) /\ NoId \notin {id, Current(acc).turnId}
                                  /\ id # Current(acc).turnId

\* Fault: a user message outside any turn is ignored, as an agent message is.
UserInTurnOnly(acc, line, id) ==
  IF Disagrees(acc, id) THEN AddError(acc, "user-message-turn-id-mismatch") ELSE acc

PushUser(acc, line, id) ==
  CASE Disagrees(acc, id) -> AddError(acc, "user-message-turn-id-mismatch")
    [] ~InTurn(acc) -> Begin(acc, [NewTurn(NoId, "unbound", line)
                                     EXCEPT !.errors = {"orphan-user-message"}])
    [] OTHER -> acc

PushAgent(acc, id) ==
  IF Disagrees(acc, id) THEN AddError(acc, "agent-message-turn-id-mismatch") ELSE acc

\* The turn a terminal record names, 0 for none.
TerminalTarget(acc, id) == IF id = NoId THEN acc.current ELSE acc.explicit[id]

\* A terminal record that names an id the stream never started, or names
\* none where the current turn has one, is an error of the current turn.
TerminalError(acc, id) ==
  /\ acc.current # 0
  /\ IF id = NoId THEN Current(acc).turnId # NoId ELSE acc.explicit[id] = 0

TerminalErrorCode(acc, id) ==
  CASE id = NoId -> "terminal-turn-id-missing"
    [] id # NoId /\ Current(acc).turnId # NoId -> "terminal-turn-id-mismatch"
    [] OTHER -> "terminal-turn-id-unexpected"

Close(acc, target, line, kind) ==
  LET turn == [acc.turns[target] EXCEPT !.terminal = kind, !.terminalLine = line,
                                        !.emitted = TRUE]
  IN [turns |-> [acc.turns EXCEPT ![target] = turn], explicit |-> acc.explicit,
      current |-> IF acc.current = target THEN 0 ELSE acc.current]

\* Fault: a terminal record closes the current turn, whatever id it names.
CloseCurrent(acc, line, kind, id) ==
  IF InTurn(acc) THEN Close(acc, acc.current, line, kind) ELSE acc

\* Fault: a terminal record closes the turn it names a second time.
CloseAgain(acc, line, kind, id) ==
  LET target == TerminalTarget(acc, id)
  IN CASE TerminalError(acc, id) -> AddError(acc, TerminalErrorCode(acc, id))
       [] target # 0 -> Close(acc, target, line, kind)
       [] OTHER -> acc

\* task_complete and turn_aborted.  A terminal of a finished turn is ignored.
PushTerminal(acc, line, kind, id) ==
  LET target == TerminalTarget(acc, id)
  IN IF TerminalError(acc, id) THEN AddError(acc, TerminalErrorCode(acc, id))
     ELSE IF target # 0 /\ ~acc.turns[target].emitted /\ acc.turns[target].terminal = "none"
          THEN Close(acc, target, line, kind)
          ELSE acc

Push(acc, line, r) ==
  CASE r.kind \in {"malformed", "drift"} -> PushGap(acc, line)
    [] r.kind = "task_started" -> PushStart(acc, line, r.id)
    [] r.kind = "user_message" -> PushUser(acc, line, r.id)
    [] r.kind = "agent_message" -> PushAgent(acc, r.id)
    [] r.kind \in TerminalKinds -> PushTerminal(acc, line, r.kind, r.id)
    [] OTHER -> acc

\* A turn still open at the end of the read is given the schema gaps that
\* fall after its start, and is finalized as it is.
FinishTurn(turn, drift) ==
  IF \E d \in drift : d > turn.startLine
  THEN [turn EXCEPT !.parseGap = TRUE, !.emitted = TRUE]
  ELSE [turn EXCEPT !.emitted = TRUE]

\* finish(parserDiagnostics)
Finish(acc, drift) ==
  [turns |-> [k \in DOMAIN acc.turns |->
                IF acc.turns[k].emitted THEN acc.turns[k]
                ELSE FinishTurn(acc.turns[k], drift)],
   explicit |-> acc.explicit,
   current |-> 0]

-----------------------------------------------------------------------------
\* At most one turn is open, and it is the one that receives records.
OpenTurns(acc) == {k \in DOMAIN acc.turns : ~acc.turns[k].emitted}
HasOneOpenTurn(acc) ==
  /\ OpenTurns(acc) = IF acc.current = 0 THEN {} ELSE {acc.current}
  /\ \A k \in OpenTurns(acc) : acc.turns[k].terminal = "none" /\ ~acc.turns[k].superseded
=============================================================================
