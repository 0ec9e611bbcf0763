-------------------------- MODULE TurnBoundaryProofs --------------------------
(***************************************************************************)
(* Lemmas about the turn accumulator, the streams it is fed, and the       *)
(* consumers that keep buckets of its turns.                               *)
(*                                                                         *)
(* They come in groups: how the declarative notions grow with the stream,  *)
(* how the closed windows of an accumulator change with one turn, one      *)
(* lemma per effect a pushed record can have on an accumulator, what the   *)
(* end of the read adds, what the activity of the last turn says, the      *)
(* fold of a whole stream, how the buckets grow with their turns, what the *)
(* marker consumer makes of them, and what the dispatch correlator does.   *)
(* They are stated for one accumulator, any set of records and, where no   *)
(* bucket is involved, any set of hidden kinds, and used for every reader  *)
(* of a rollout.                                                           *)
(***************************************************************************)
EXTENDS DispatchCorrelator, MarkerConsumer, WellFoundedInduction, TLAPS

\* What the lemmas need to know of a set of records.
RecordSet(S) ==
  \A r \in S : /\ r.kind \in BoundaryKinds \cup {"malformed", "drift", "other"}
               /\ r.id \in TurnIds \cup {NoId}

-----------------------------------------------------------------------------
(***************************************************************************)
(* The stream.                                                             *)
(***************************************************************************)

\* What Append does to a sequence, in the form the provers use.
LEMMA Appended ==
  ASSUME NEW S, NEW str \in Seq(S), NEW r \in S
  PROVE  /\ Append(str, r) \in Seq(S)
         /\ Len(Append(str, r)) = Len(str) + 1
         /\ DOMAIN str = 1 .. Len(str)
         /\ DOMAIN Append(str, r) = 1 .. Len(str) + 1
         /\ \A k \in DOMAIN str : Append(str, r)[k] = str[k]
         /\ Append(str, r)[Len(str) + 1] = r
  OBVIOUS

\* Whether a line disturbs a turn does not depend on later lines.
LEMMA HarmlessAppend ==
  ASSUME NEW S, NEW str \in Seq(S), NEW r \in S,
         NEW s \in DOMAIN str, NEW k \in DOMAIN str
  PROVE  Harmless(Append(str, r), s, k) <=> Harmless(str, s, k)
<1> DEFINE str2 == Append(str, r)
<1>1. /\ DOMAIN str = 1 .. Len(str) /\ Len(str) \in Nat
      /\ \A j \in DOMAIN str : str2[j] = str[j]
  BY Appended
<1>2. \A j \in 1 .. s - 1 : j \in DOMAIN str
  BY <1>1
<1> HIDE DEF str2
<1>3. str2[s] = str[s] /\ str2[k] = str[k] /\ \A j \in 1 .. s - 1 : str2[j] = str[j]
  BY <1>1, <1>2
<1>4. Harmless(str2, s, k) <=> Harmless(str, s, k)
  BY <1>3 DEF Harmless
<1> QED BY <1>4 DEF str2

LEMMA CleanBetweenAppend ==
  ASSUME NEW S, NEW str \in Seq(S), NEW r \in S, NEW hidden,
         NEW s \in DOMAIN str
  PROVE  /\ \A e \in 1 .. Len(str) + 1 :
              CleanBetween(Append(str, r), hidden, s, e) <=> CleanBetween(str, hidden, s, e)
         /\ CleanBetween(Append(str, r), hidden, s, Len(str) + 2) <=>
              /\ CleanBetween(str, hidden, s, Len(str) + 1)
              /\ r.kind \in hidden \/ Harmless(Append(str, r), s, Len(str) + 1)
<1> DEFINE str2 == Append(str, r)
<1>1. /\ DOMAIN str = 1 .. Len(str) /\ Len(str) \in Nat
      /\ DOMAIN str2 = 1 .. Len(str) + 1
      /\ \A j \in DOMAIN str : str2[j] = str[j]
      /\ str2[Len(str) + 1] = r
  BY Appended
<1>2. \A k \in DOMAIN str : Harmless(str2, s, k) <=> Harmless(str, s, k)
  BY HarmlessAppend
<1> HIDE DEF str2
<1>3. \A k \in DOMAIN str :
        (str2[k].kind \in hidden \/ Harmless(str2, s, k)) <=>
        (str[k].kind \in hidden \/ Harmless(str, s, k))
  BY <1>1, <1>2
<1>4. \A e \in 1 .. Len(str) + 1 :
        CleanBetween(str2, hidden, s, e) <=> CleanBetween(str, hidden, s, e)
  BY <1>1, <1>3 DEF CleanBetween
<1>5. CleanBetween(str2, hidden, s, Len(str) + 2) <=>
        /\ CleanBetween(str, hidden, s, Len(str) + 1)
        /\ r.kind \in hidden \/ Harmless(str2, s, Len(str) + 1)
  <2>1. ASSUME CleanBetween(str2, hidden, s, Len(str) + 2)
        PROVE  /\ CleanBetween(str, hidden, s, Len(str) + 1)
               /\ r.kind \in hidden \/ Harmless(str2, s, Len(str) + 1)
    BY <1>1, <1>3, <2>1 DEF CleanBetween
  <2>2. ASSUME CleanBetween(str, hidden, s, Len(str) + 1),
               r.kind \in hidden \/ Harmless(str2, s, Len(str) + 1)
        PROVE  CleanBetween(str2, hidden, s, Len(str) + 2)
    BY <1>1, <1>3, <2>2 DEF CleanBetween
  <2> QED BY <2>1, <2>2
<1> QED BY <1>4, <1>5 DEF str2

\* The open starts after one more record: those it leaves alone, and itself.
LEMMA OpenStartsAppend ==
  ASSUME NEW S, NEW str \in Seq(S), NEW r \in S, NEW hidden
  PROVE  OpenStarts(Append(str, r), hidden) =
           {s \in OpenStarts(str, hidden) :
              r.kind \in hidden \/ Harmless(Append(str, r), s, Len(str) + 1)}
           \cup (IF IsStart(r) THEN {Len(str) + 1} ELSE {})
<1> DEFINE str2 == Append(str, r)
<1>1. /\ DOMAIN str = 1 .. Len(str) /\ Len(str) \in Nat
      /\ DOMAIN str2 = 1 .. Len(str) + 1 /\ Len(str2) = Len(str) + 1
      /\ \A j \in DOMAIN str : str2[j] = str[j]
      /\ str2[Len(str) + 1] = r
  BY Appended
<1>2. \A s \in DOMAIN str :
        CleanBetween(str2, hidden, s, Len(str) + 2) <=>
          /\ CleanBetween(str, hidden, s, Len(str) + 1)
          /\ r.kind \in hidden \/ Harmless(str2, s, Len(str) + 1)
  BY CleanBetweenAppend
<1> HIDE DEF str2
<1>3. CleanBetween(str2, hidden, Len(str) + 1, Len(str) + 2)
  BY <1>1 DEF CleanBetween
<1>4. \A s : s \in OpenStarts(str2, hidden) <=>
        \/ s \in OpenStarts(str, hidden)
           /\ (r.kind \in hidden \/ Harmless(str2, s, Len(str) + 1))
        \/ IsStart(r) /\ s = Len(str) + 1
  <2> TAKE s
  <2>1. CASE s \in DOMAIN str
    BY <1>1, <1>2, <2>1 DEF OpenStarts
  <2>2. CASE s = Len(str) + 1
    BY <1>1, <1>3, <2>2 DEF OpenStarts
  <2>3. CASE s \notin DOMAIN str2
    BY <1>1, <2>3 DEF OpenStarts
  <2> QED BY <1>1, <2>1, <2>2, <2>3
<1> QED BY <1>4 DEF str2

\* The clean turns after one more record: at most the one it ends is new.
LEMMA CleanTurnsAppend ==
  ASSUME NEW S, NEW str \in Seq(S), NEW r \in S, NEW hidden
  PROVE  CleanTurns(Append(str, r), hidden) =
           CleanTurns(str, hidden) \cup
           {<<s, Len(str) + 1>> : s \in {x \in OpenStarts(str, hidden) :
                                           IsTerminal(r) /\ r.id = str[x].id}}
<1> DEFINE str2 == Append(str, r)
           new == {<<s, Len(str) + 1>> : s \in {x \in OpenStarts(str, hidden) :
                                                  IsTerminal(r) /\ r.id = str[x].id}}
<1>1. /\ DOMAIN str = 1 .. Len(str) /\ Len(str) \in Nat
      /\ DOMAIN str2 = 1 .. Len(str) + 1
      /\ \A j \in DOMAIN str : str2[j] = str[j]
      /\ str2[Len(str) + 1] = r
  BY Appended
<1>2. \A s \in DOMAIN str : \A e \in 1 .. Len(str) + 1 :
        CleanBetween(str2, hidden, s, e) <=> CleanBetween(str, hidden, s, e)
  BY CleanBetweenAppend
<1> HIDE DEF str2
<1>3. ASSUME NEW w \in CleanTurns(str2, hidden)
      PROVE  w \in CleanTurns(str, hidden) \cup new
  <2>1. PICK s \in 1 .. Len(str) + 1, e \in 1 .. Len(str) + 1 : w = <<s, e>>
    BY <1>1, <1>3 DEF CleanTurns
  <2>2. /\ s < e /\ IsStart(str2[s]) /\ IsTerminal(str2[e])
        /\ str2[e].id = str2[s].id /\ CleanBetween(str2, hidden, s, e)
    BY <1>3, <2>1 DEF CleanTurns
  <2>3. s \in DOMAIN str
    BY <1>1, <2>1, <2>2
  <2>4. CleanBetween(str, hidden, s, e)
    BY <1>2, <2>1, <2>2, <2>3
  <2>5. CASE e \in DOMAIN str
    BY <1>1, <2>1, <2>2, <2>3, <2>4, <2>5 DEF CleanTurns
  <2>6. CASE e = Len(str) + 1
    BY <1>1, <2>1, <2>2, <2>3, <2>4, <2>6 DEF OpenStarts
  <2> QED BY <1>1, <2>1, <2>5, <2>6
<1>4. ASSUME NEW w \in CleanTurns(str, hidden)
      PROVE  w \in CleanTurns(str2, hidden)
  <2>1. PICK s \in DOMAIN str, e \in DOMAIN str : w = <<s, e>>
    BY <1>4 DEF CleanTurns
  <2>2. /\ s < e /\ IsStart(str[s]) /\ IsTerminal(str[e])
        /\ str[e].id = str[s].id /\ CleanBetween(str, hidden, s, e)
    BY <1>4, <2>1 DEF CleanTurns
  <2> QED BY <1>1, <1>2, <2>1, <2>2 DEF CleanTurns
<1>5. ASSUME NEW w \in new
      PROVE  w \in CleanTurns(str2, hidden)
  <2>1. PICK s \in OpenStarts(str, hidden) :
          w = <<s, Len(str) + 1>> /\ IsTerminal(r) /\ r.id = str[s].id
    BY <1>5
  <2>2. /\ s \in DOMAIN str /\ IsStart(str[s])
        /\ CleanBetween(str, hidden, s, Len(str) + 1)
    BY <2>1 DEF OpenStarts
  <2> QED BY <1>1, <1>2, <2>1, <2>2 DEF CleanTurns
<1>6. CleanTurns(str2, hidden) = CleanTurns(str, hidden) \cup new
  BY <1>3, <1>4, <1>5
<1> QED BY <1>6 DEF str2

LEMMA NoNewCleanTurn ==
  ASSUME NEW S, NEW str \in Seq(S), NEW r \in S, NEW hidden,
         \A s \in OpenStarts(str, hidden) : ~(IsTerminal(r) /\ r.id = str[s].id)
  PROVE  CleanTurns(Append(str, r), hidden) = CleanTurns(str, hidden)
<1> DEFINE ended == {x \in OpenStarts(str, hidden) : IsTerminal(r) /\ r.id = str[x].id}
<1>1. ended = {}
  OBVIOUS
<1> HIDE DEF ended
<1>2. {<<s, Len(str) + 1>> : s \in ended} = {}
  BY <1>1
<1>3. CleanTurns(Append(str, r), hidden) =
        CleanTurns(str, hidden) \cup {<<s, Len(str) + 1>> : s \in ended}
  BY CleanTurnsAppend DEF ended
<1> QED BY <1>2, <1>3

-----------------------------------------------------------------------------
(***************************************************************************)
(* The closed windows of an accumulator.                                   *)
(***************************************************************************)

IsClosed(turn) == turn.emitted /\ Activity(turn) = "closed"

\* Turns that are closed neither before nor after leave the windows alone.
LEMMA SameWindows ==
  ASSUME NEW turns, NEW turns2,
         DOMAIN turns \subseteq DOMAIN turns2,
         \A k \in DOMAIN turns2 :
           \/ k \in DOMAIN turns /\ turns2[k] = turns[k]
           \/ ~IsClosed(turns2[k]) /\ (k \in DOMAIN turns => ~IsClosed(turns[k]))
  PROVE  Windows(turns2, "closed") = Windows(turns, "closed")
<1>1. Snapshots(turns2, "closed") = Snapshots(turns, "closed")
  BY DEF Snapshots, IsClosed
<1> QED BY <1>1 DEF Windows

\* A turn that becomes closed adds its own window.
LEMMA OneMoreWindow ==
  ASSUME NEW turns, NEW turns2, NEW c \in DOMAIN turns,
         DOMAIN turns2 = DOMAIN turns,
         \A k \in DOMAIN turns : k # c => turns2[k] = turns[k],
         ~IsClosed(turns[c]), IsClosed(turns2[c])
  PROVE  Windows(turns2, "closed") =
           Windows(turns, "closed") \cup {<<turns2[c].startLine, turns2[c].terminalLine>>}
<1>1. Snapshots(turns2, "closed") = Snapshots(turns, "closed") \cup {turns2[c]}
  BY DEF Snapshots, IsClosed
<1> QED BY <1>1 DEF Windows

-----------------------------------------------------------------------------
(***************************************************************************)
(* The five effects of a pushed record: none, and the four below.          *)
(***************************************************************************)

SameTurnsExcept(acc, acc2, c) ==
  /\ DOMAIN acc2.turns = DOMAIN acc.turns
  /\ \A k \in DOMAIN acc.turns : k # c => acc2.turns[k] = acc.turns[k]

\* The current turn stays open but is no longer clean.
SpoilsCurrent(acc, acc2) ==
  /\ IsAccumulator(acc2)
  /\ acc.current # 0
  /\ acc2.explicit = acc.explicit /\ acc2.current = acc.current
  /\ SameTurnsExcept(acc, acc2, acc.current)
  /\ Current(acc2).turnId = Current(acc).turnId
  /\ Current(acc2).terminalLine = Current(acc).terminalLine
  /\ Current(acc2).terminal = "none" /\ ~Current(acc2).superseded
  /\ ~Current(acc2).emitted
  /\ ~Clean(Current(acc2))

\* A turn without a start record is opened, not clean from the beginning.
BeginsUnbound(acc, acc2) ==
  /\ IsAccumulator(acc2)
  /\ acc.current = 0
  /\ acc2.explicit = acc.explicit /\ acc2.current = Len(acc.turns) + 1
  /\ DOMAIN acc2.turns = 1 .. Len(acc.turns) + 1
  /\ \A k \in DOMAIN acc.turns : acc2.turns[k] = acc.turns[k]
  /\ Current(acc2).turnId = NoId /\ Current(acc2).terminalLine = 0
  /\ Current(acc2).terminal = "none" /\ ~Current(acc2).superseded
  /\ ~Current(acc2).emitted
  /\ ~Clean(Current(acc2))

\* A turn is started; the one that was open is finalized as superseded.
BeginsTurn(acc, acc2, line, id) ==
  /\ IsAccumulator(acc2)
  /\ acc2.current = Len(acc.turns) + 1
  /\ acc2.explicit = IF id = NoId THEN acc.explicit
                     ELSE [acc.explicit EXCEPT ![id] = Len(acc.turns) + 1]
  /\ DOMAIN acc2.turns = 1 .. Len(acc.turns) + 1
  /\ \A k \in DOMAIN acc.turns :
       /\ k # acc.current => acc2.turns[k] = acc.turns[k]
       /\ k = acc.current =>
            /\ acc2.turns[k].turnId = acc.turns[k].turnId
            /\ acc2.turns[k].terminalLine = acc.turns[k].terminalLine
            /\ acc2.turns[k].superseded /\ acc2.turns[k].emitted
  /\ Current(acc2).turnId = id
  /\ Current(acc2).startLine = line /\ Current(acc2).terminalLine = 0
  /\ Current(acc2).terminal = "none" /\ ~Current(acc2).superseded
  /\ ~Current(acc2).emitted
  /\ Clean(Current(acc2))

\* The current turn gets its terminal record and is finalized.
ClosesCurrent(acc, acc2, line) ==
  /\ IsAccumulator(acc2)
  /\ acc.current # 0
  /\ acc2.explicit = acc.explicit /\ acc2.current = 0
  /\ SameTurnsExcept(acc, acc2, acc.current)
  /\ LET t == acc2.turns[acc.current]
     IN /\ t.turnId = Current(acc).turnId
        /\ t.startLine = Current(acc).startLine
        /\ t.terminal # "none" /\ t.terminalLine = line
        /\ t.emitted /\ ~t.superseded
        /\ Clean(t) <=> Clean(Current(acc))

-----------------------------------------------------------------------------
(***************************************************************************)
(* Each effect, met by a record that has the matching meaning in the       *)
(* stream, preserves the invariant of a feed.                              *)
(***************************************************************************)

\* What the invariant says of the current turn, spelled out.
LEMMA CurrentFacts ==
  ASSUME NEW acc, NEW str, AccInv(acc, str)
  PROVE  /\ acc.turns \in Seq(Turns) /\ Len(acc.turns) \in Nat
         /\ DOMAIN acc.turns = 1 .. Len(acc.turns)
         /\ acc.explicit \in [TurnIds -> 0 .. Len(acc.turns)]
         /\ acc.current \in 0 .. Len(acc.turns)
         /\ acc.current # 0 =>
              /\ acc.current \in DOMAIN acc.turns
              /\ Current(acc) \in Turns
              /\ ~Current(acc).emitted /\ ~Current(acc).superseded
              /\ Current(acc).terminal = "none"
              /\ InTurn(acc)
         /\ acc.current = 0 => ~InTurn(acc)
         /\ \A k \in DOMAIN acc.turns : k # acc.current => acc.turns[k].emitted
<1>1. /\ acc.turns \in Seq(Turns)
      /\ acc.explicit \in [TurnIds -> 0 .. Len(acc.turns)]
      /\ acc.current \in 0 .. Len(acc.turns)
  BY DEF AccInv, IsAccumulator
<1>2. Len(acc.turns) \in Nat /\ DOMAIN acc.turns = 1 .. Len(acc.turns)
  BY <1>1
<1>3. acc.current # 0 => acc.current \in DOMAIN acc.turns /\ acc.turns[acc.current] \in Turns
  BY <1>1, <1>2
<1>4. OpenTurns(acc) = IF acc.current = 0 THEN {} ELSE {acc.current}
  BY DEF AccInv, HasOneOpenTurn
<1>5. acc.current # 0 =>
        /\ ~acc.turns[acc.current].emitted /\ ~acc.turns[acc.current].superseded
        /\ acc.turns[acc.current].terminal = "none"
  BY <1>4 DEF AccInv, HasOneOpenTurn, OpenTurns
<1>6. \A k \in DOMAIN acc.turns : k # acc.current => acc.turns[k].emitted
  BY <1>4 DEF OpenTurns
<1> QED BY <1>1, <1>2, <1>3, <1>5, <1>6 DEF Current, InTurn

\* Which ids were started, after one more record.
LEMMA StartedIds ==
  ASSUME NEW S, NEW str \in Seq(S), NEW r \in S, NEW id
  PROVE  (\A j \in DOMAIN Append(str, r) :
            ~(IsStart(Append(str, r)[j]) /\ Append(str, r)[j].id = id)) <=>
         /\ \A j \in DOMAIN str : ~(IsStart(str[j]) /\ str[j].id = id)
         /\ ~(IsStart(r) /\ r.id = id)
<1> DEFINE str2 == Append(str, r)
<1>1. /\ DOMAIN str = 1 .. Len(str) /\ Len(str) \in Nat
      /\ DOMAIN str2 = 1 .. Len(str) + 1
      /\ \A j \in DOMAIN str : str2[j] = str[j]
      /\ str2[Len(str) + 1] = r
  BY Appended
<1> HIDE DEF str2
<1>2. \A j \in DOMAIN str2 : j \in DOMAIN str \/ j = Len(str) + 1
  BY <1>1
<1>3. DOMAIN str \subseteq DOMAIN str2 /\ Len(str) + 1 \in DOMAIN str2
  BY <1>1
<1>4. (\A j \in DOMAIN str2 : ~(IsStart(str2[j]) /\ str2[j].id = id)) <=>
         /\ \A j \in DOMAIN str : ~(IsStart(str[j]) /\ str[j].id = id)
         /\ ~(IsStart(r) /\ r.id = id)
  BY <1>1, <1>2, <1>3 DEF IsStart
<1> QED BY <1>4 DEF str2

\* A record that leaves the accumulator as it is must leave a clean open
\* turn clean, and end none.
LEMMA NoEffect ==
  ASSUME NEW S, NEW str \in Seq(S), NEW r \in S, NEW hidden, NEW acc,
         FeedInv(acc, str, hidden),
         ~IsStart(r),
         r.kind \in hidden => ~IsTerminal(r),
         r.kind \notin hidden =>
           \A s \in OpenStarts(str, hidden) : Harmless(Append(str, r), s, Len(str) + 1)
  PROVE  FeedInv(acc, Append(str, r), hidden)
<1> DEFINE str2 == Append(str, r)
<1>1. AccInv(acc, str2)
  BY StartedIds DEF FeedInv, AccInv
<1>2. OpenStarts(str2, hidden) = OpenStarts(str, hidden)
  <2> DEFINE left == {s \in OpenStarts(str, hidden) :
                        r.kind \in hidden \/ Harmless(str2, s, Len(str) + 1)}
  <2>1. left = OpenStarts(str, hidden)
    OBVIOUS
  <2>2. OpenStarts(str2, hidden) = left \cup (IF IsStart(r) THEN {Len(str) + 1} ELSE {})
    BY OpenStartsAppend
  <2> HIDE DEF left
  <2> QED BY <2>1, <2>2
<1>3. \A s \in OpenStarts(str, hidden) : s \in DOMAIN str /\ str2[s] = str[s]
  BY Appended DEF OpenStarts
<1>4. str2[Len(str) + 1] = r
  BY Appended
<1> HIDE DEF str2
<1>5. \A s \in OpenStarts(str, hidden) : ~(IsTerminal(r) /\ r.id = str[s].id)
  BY <1>3, <1>4 DEF Harmless, str2
<1>6. CleanTurns(str2, hidden) = CleanTurns(str, hidden)
  BY <1>5, NoNewCleanTurn DEF str2
<1>7. acc.current # 0 /\ Clean(Current(acc)) =>
        str2[Current(acc).startLine].id = Current(acc).turnId
  BY <1>3 DEF FeedInv, CutInv
<1>8. CutInv(acc, str2, hidden)
  BY <1>2, <1>6, <1>7 DEF FeedInv, CutInv
<1> QED BY <1>1, <1>8 DEF FeedInv, str2

\* A record that disturbs whatever turn is open leaves no turn clean.
LEMMA SpoilEffect ==
  ASSUME NEW S, NEW str \in Seq(S), NEW r \in S, NEW hidden, NEW acc, NEW acc2,
         FeedInv(acc, str, hidden),
         SpoilsCurrent(acc, acc2) \/ BeginsUnbound(acc, acc2),
         ~IsStart(r), r.kind \notin hidden,
         \A s \in OpenStarts(str, hidden) :
           /\ ~Harmless(Append(str, r), s, Len(str) + 1)
           /\ ~(IsTerminal(r) /\ r.id = str[s].id)
  PROVE  FeedInv(acc2, Append(str, r), hidden)
<1> DEFINE str2 == Append(str, r)
<1>1. OpenStarts(str2, hidden) = {}
  BY OpenStartsAppend
<1>2. CleanTurns(str2, hidden) = CleanTurns(str, hidden)
  BY NoNewCleanTurn
<1>3. \A id \in TurnIds :
        (\A j \in DOMAIN str2 : ~(IsStart(str2[j]) /\ str2[j].id = id)) <=>
        (\A j \in DOMAIN str : ~(IsStart(str[j]) /\ str[j].id = id))
  BY StartedIds
<1> HIDE DEF str2
<1>4. AccInv(acc, str)
  BY DEF FeedInv
<1>5. /\ DOMAIN acc.turns = 1 .. Len(acc.turns) /\ Len(acc.turns) \in Nat
      /\ acc.explicit \in [TurnIds -> 0 .. Len(acc.turns)]
      /\ acc.current # 0 => acc.current \in DOMAIN acc.turns /\ ~Current(acc).emitted
      /\ \A k \in DOMAIN acc.turns : k # acc.current => acc.turns[k].emitted
  BY <1>4, CurrentFacts
<1>6. /\ IsAccumulator(acc2) /\ acc2.explicit = acc.explicit
      /\ acc2.current # 0 /\ acc2.current \in DOMAIN acc2.turns
      /\ ~Current(acc2).emitted /\ ~Current(acc2).superseded
      /\ Current(acc2).terminal = "none" /\ ~Clean(Current(acc2))
      /\ DOMAIN acc.turns \subseteq DOMAIN acc2.turns
      /\ \A k \in DOMAIN acc2.turns : k # acc2.current =>
           k \in DOMAIN acc.turns /\ acc2.turns[k] = acc.turns[k] /\ acc.turns[k].emitted
  <2>1. CASE SpoilsCurrent(acc, acc2)
    BY <1>5, <2>1 DEF SpoilsCurrent, SameTurnsExcept
  <2>2. CASE BeginsUnbound(acc, acc2)
    BY <1>5, <2>2 DEF BeginsUnbound
  <2> QED BY <2>1, <2>2
<1>7. HasOneOpenTurn(acc2)
  BY <1>6 DEF HasOneOpenTurn, OpenTurns, Current
<1>8. /\ Current(acc2).turnId # NoId => acc2.explicit[Current(acc2).turnId] = acc2.current
      /\ Current(acc2).terminalLine = 0
  <2>1. CASE SpoilsCurrent(acc, acc2)
    BY <1>4, <2>1 DEF SpoilsCurrent, AccInv
  <2>2. CASE BeginsUnbound(acc, acc2)
    BY <2>2 DEF BeginsUnbound
  <2> QED BY <2>1, <2>2
<1>9. \A id \in TurnIds : acc2.explicit[id] # 0 => acc2.turns[acc2.explicit[id]].turnId = id
  <2>1. CASE SpoilsCurrent(acc, acc2)
    BY <1>4, <1>5, <2>1 DEF SpoilsCurrent, SameTurnsExcept, AccInv, Current
  <2>2. CASE BeginsUnbound(acc, acc2)
    BY <1>4, <1>5, <2>2 DEF BeginsUnbound, AccInv
  <2> QED BY <2>1, <2>2
<1>10. AccInv(acc2, str2)
  BY <1>3, <1>4, <1>6, <1>7, <1>8, <1>9 DEF AccInv, Current
<1>11. Windows(acc2.turns, "closed") = Windows(acc.turns, "closed")
  <2>1. \A k \in DOMAIN acc2.turns :
          \/ k \in DOMAIN acc.turns /\ acc2.turns[k] = acc.turns[k]
          \/ ~IsClosed(acc2.turns[k]) /\ (k \in DOMAIN acc.turns => ~IsClosed(acc.turns[k]))
    <3> TAKE k \in DOMAIN acc2.turns
    <3>1. CASE k # acc2.current
      BY <1>6, <3>1
    <3>2. CASE k = acc2.current
      <4>1. ~IsClosed(acc2.turns[k])
        BY <1>6, <3>2 DEF IsClosed, Current
      <4>2. k \in DOMAIN acc.turns => k = acc.current
        BY <1>5, <3>2 DEF SpoilsCurrent, BeginsUnbound
      <4>3. k \in DOMAIN acc.turns => ~IsClosed(acc.turns[k])
        BY <1>5, <4>2 DEF IsClosed, Current
      <4> QED BY <4>1, <4>3
    <3> QED BY <3>1, <3>2
  <2> QED BY <1>6, <2>1, SameWindows
<1>12. CutInv(acc2, str2, hidden)
  BY <1>1, <1>2, <1>6, <1>11 DEF FeedInv, CutInv
<1> QED BY <1>10, <1>12 DEF FeedInv, str2

\* A start record leaves exactly its own turn open and clean.
LEMMA StartEffect ==
  ASSUME NEW S, RecordSet(S), NEW str \in Seq(S), NEW r \in S, NEW hidden, NEW acc, NEW acc2,
         FeedInv(acc, str, hidden),
         IsStart(r), r.kind \notin hidden,
         BeginsTurn(acc, acc2, Len(str) + 1, r.id)
  PROVE  FeedInv(acc2, Append(str, r), hidden)
<1> DEFINE str2 == Append(str, r)
           n == Len(acc.turns) + 1
<1>1. r.id \in TurnIds \cup {NoId} /\ ~IsTerminal(r) /\ str2[Len(str) + 1] = r
  BY Appended DEF IsStart, IsTerminal, TerminalKinds, RecordSet
<1>2. OpenStarts(str2, hidden) = {Len(str) + 1}
  <2> DEFINE left == {s \in OpenStarts(str, hidden) :
                        r.kind \in hidden \/ Harmless(str2, s, Len(str) + 1)}
  <2>1. left = {}
    BY <1>1 DEF Harmless
  <2>2. OpenStarts(str2, hidden) = left \cup (IF IsStart(r) THEN {Len(str) + 1} ELSE {})
    BY OpenStartsAppend
  <2> HIDE DEF left
  <2> QED BY <2>1, <2>2
<1>3. CleanTurns(str2, hidden) = CleanTurns(str, hidden)
  BY <1>1, NoNewCleanTurn
<1>4. \A id \in TurnIds :
        (\A j \in DOMAIN str2 : ~(IsStart(str2[j]) /\ str2[j].id = id)) <=>
        /\ \A j \in DOMAIN str : ~(IsStart(str[j]) /\ str[j].id = id)
        /\ r.id # id
  <2> TAKE id \in TurnIds
  <2>1. (\A j \in DOMAIN str2 : ~(IsStart(str2[j]) /\ str2[j].id = id)) <=>
        /\ \A j \in DOMAIN str : ~(IsStart(str[j]) /\ str[j].id = id)
        /\ ~(IsStart(r) /\ r.id = id)
    BY StartedIds
  <2> HIDE DEF str2
  <2> QED BY <2>1
<1> HIDE DEF str2
<1>5. AccInv(acc, str)
  BY DEF FeedInv
<1>6. /\ DOMAIN acc.turns = 1 .. Len(acc.turns) /\ Len(acc.turns) \in Nat
      /\ acc.explicit \in [TurnIds -> 0 .. Len(acc.turns)]
      /\ acc.current # 0 => acc.current \in DOMAIN acc.turns /\ ~Current(acc).emitted
      /\ \A k \in DOMAIN acc.turns : k # acc.current => acc.turns[k].emitted
  BY <1>5, CurrentFacts
<1>7. /\ IsAccumulator(acc2) /\ acc2.current = n /\ n # 0
      /\ DOMAIN acc2.turns = 1 .. n
      /\ acc2.explicit = IF r.id = NoId THEN acc.explicit
                         ELSE [acc.explicit EXCEPT ![r.id] = n]
      /\ \A k \in DOMAIN acc.turns :
           /\ k # acc.current => acc2.turns[k] = acc.turns[k]
           /\ k = acc.current => acc2.turns[k].superseded
           /\ acc2.turns[k].emitted
           /\ acc2.turns[k].turnId = acc.turns[k].turnId
      /\ acc2.turns[n].turnId = r.id
      /\ acc2.turns[n].startLine = Len(str) + 1 /\ acc2.turns[n].terminalLine = 0
      /\ acc2.turns[n].terminal = "none" /\ ~acc2.turns[n].superseded
      /\ ~acc2.turns[n].emitted /\ Clean(acc2.turns[n])
  BY <1>6 DEF BeginsTurn, Current
<1>8. \A k \in DOMAIN acc2.turns : k \in DOMAIN acc.turns \/ k = n
  BY <1>6, <1>7
<1>9. HasOneOpenTurn(acc2)
  BY <1>6, <1>7, <1>8 DEF HasOneOpenTurn, OpenTurns
<1>10. \A id \in TurnIds : acc2.explicit[id] = IF id = r.id THEN n ELSE acc.explicit[id]
  BY <1>6, <1>7, NoIdAssumption
<1>11. /\ \A id \in TurnIds : acc2.explicit[id] # 0 =>
             acc2.turns[acc2.explicit[id]].turnId = id
       /\ \A id \in TurnIds : acc2.explicit[id] = 0 <=>
             \A j \in DOMAIN str2 : ~(IsStart(str2[j]) /\ str2[j].id = id)
       /\ acc2.turns[n].turnId # NoId => acc2.explicit[acc2.turns[n].turnId] = n
  <2>1. ASSUME NEW id \in TurnIds, acc2.explicit[id] # 0
        PROVE  acc2.turns[acc2.explicit[id]].turnId = id
    <3>1. CASE id = r.id
      BY <1>7, <1>10, <3>1
    <3>2. CASE id # r.id
      <4>1. acc2.explicit[id] = acc.explicit[id] /\ acc.explicit[id] \in DOMAIN acc.turns
        BY <1>6, <1>10, <2>1, <3>2
      <4> QED BY <1>5, <1>7, <2>1, <4>1 DEF AccInv
    <3> QED BY <3>1, <3>2
  <2>2. ASSUME NEW id \in TurnIds
        PROVE  acc2.explicit[id] = 0 <=>
                 \A j \in DOMAIN str2 : ~(IsStart(str2[j]) /\ str2[j].id = id)
    BY <1>4, <1>5, <1>7, <1>10 DEF AccInv
  <2>3. acc2.turns[n].turnId # NoId => acc2.explicit[acc2.turns[n].turnId] = n
    BY <1>1, <1>7, <1>10
  <2> QED BY <2>1, <2>2, <2>3
<1>12. \A k \in DOMAIN acc2.turns : acc2.turns[k].emitted =>
         acc2.turns[k].superseded \/ acc2.turns[k].terminal # "none"
  BY <1>5, <1>7, <1>8 DEF AccInv
<1>13. AccInv(acc2, str2)
  BY <1>7, <1>9, <1>11, <1>12 DEF AccInv, Current
<1>14. Windows(acc2.turns, "closed") = Windows(acc.turns, "closed")
  <2>1. \A k \in DOMAIN acc2.turns :
          \/ k \in DOMAIN acc.turns /\ acc2.turns[k] = acc.turns[k]
          \/ ~IsClosed(acc2.turns[k]) /\ (k \in DOMAIN acc.turns => ~IsClosed(acc.turns[k]))
    <3> TAKE k \in DOMAIN acc2.turns
    <3>1. CASE k = n
      BY <1>6, <1>7, <3>1 DEF IsClosed
    <3>2. CASE k # n /\ k # acc.current
      BY <1>7, <1>8, <3>2
    <3>3. CASE k # n /\ k = acc.current
      <4>1. k \in DOMAIN acc.turns /\ k # 0
        BY <1>6, <1>8, <3>3
      <4>2. ~IsClosed(acc2.turns[k])
        BY <1>7, <3>3, <4>1 DEF IsClosed, Activity
      <4>3. ~IsClosed(acc.turns[k])
        BY <1>6, <3>3, <4>1 DEF IsClosed, Current
      <4> QED BY <4>2, <4>3
    <3> QED BY <3>1, <3>2, <3>3
  <2>2. DOMAIN acc.turns \subseteq DOMAIN acc2.turns
    BY <1>6, <1>7
  <2> QED BY <2>1, <2>2, SameWindows
<1>15. CutInv(acc2, str2, hidden)
  BY <1>1, <1>2, <1>3, <1>7, <1>14 DEF FeedInv, CutInv, Current, str2
<1> QED BY <1>13, <1>15 DEF FeedInv, str2

\* The terminal record of the current turn closes it, and if the turn was
\* clean makes it the one new clean turn of the stream.
LEMMA CloseEffect ==
  ASSUME NEW S, NEW str \in Seq(S), NEW r \in S, NEW hidden, NEW acc, NEW acc2,
         FeedInv(acc, str, hidden),
         IsTerminal(r), r.kind \notin hidden,
         ClosesCurrent(acc, acc2, Len(str) + 1),
         r.id = Current(acc).turnId
  PROVE  FeedInv(acc2, Append(str, r), hidden)
<1> DEFINE str2 == Append(str, r)
           c == acc.current
           open == OpenStarts(str, hidden)
           ended == {x \in open : IsTerminal(r) /\ r.id = str[x].id}
<1>1. /\ str2[Len(str) + 1] = r /\ ~IsStart(r)
      /\ \A s \in open : s \in DOMAIN str /\ str2[s] = str[s]
  BY Appended DEF OpenStarts, IsTerminal, IsStart, TerminalKinds
<1>2. open = IF Clean(Current(acc)) THEN {Current(acc).startLine} ELSE {}
  BY DEF FeedInv, CutInv, ClosesCurrent
<1>3. \A s \in open : str[s].id = r.id
  BY <1>2 DEF FeedInv, CutInv, ClosesCurrent
<1>4. ended = open
  BY <1>3
<1>5. OpenStarts(str2, hidden) = {}
  <2> DEFINE left == {s \in open : r.kind \in hidden \/ Harmless(str2, s, Len(str) + 1)}
  <2>1. left = {}
    BY <1>1, <1>3 DEF Harmless
  <2>2. OpenStarts(str2, hidden) = left \cup (IF IsStart(r) THEN {Len(str) + 1} ELSE {})
    BY OpenStartsAppend
  <2> HIDE DEF left
  <2> QED BY <1>1, <2>1, <2>2
<1>6. \A id \in TurnIds :
        (\A j \in DOMAIN str2 : ~(IsStart(str2[j]) /\ str2[j].id = id)) <=>
        (\A j \in DOMAIN str : ~(IsStart(str[j]) /\ str[j].id = id))
  BY <1>1, StartedIds
<1>7. CleanTurns(str2, hidden) =
        CleanTurns(str, hidden) \cup {<<s, Len(str) + 1>> : s \in ended}
  BY CleanTurnsAppend
<1> HIDE DEF str2, open, ended
<1>8. AccInv(acc, str)
  BY DEF FeedInv
<1>9. /\ DOMAIN acc.turns = 1 .. Len(acc.turns) /\ Len(acc.turns) \in Nat
      /\ acc.explicit \in [TurnIds -> 0 .. Len(acc.turns)]
      /\ c \in DOMAIN acc.turns /\ ~acc.turns[c].emitted
      /\ \A k \in DOMAIN acc.turns : k # c => acc.turns[k].emitted
  BY <1>8, CurrentFacts DEF ClosesCurrent, Current
<1>10. /\ IsAccumulator(acc2) /\ acc2.current = 0 /\ acc2.explicit = acc.explicit
       /\ DOMAIN acc2.turns = DOMAIN acc.turns
       /\ \A k \in DOMAIN acc.turns : k # c => acc2.turns[k] = acc.turns[k]
       /\ \A k \in DOMAIN acc.turns : acc2.turns[k].turnId = acc.turns[k].turnId
       /\ acc2.turns[c].startLine = acc.turns[c].startLine
       /\ acc2.turns[c].terminal # "none" /\ acc2.turns[c].terminalLine = Len(str) + 1
       /\ acc2.turns[c].emitted /\ ~acc2.turns[c].superseded
       /\ Clean(acc2.turns[c]) <=> Clean(acc.turns[c])
  BY DEF ClosesCurrent, SameTurnsExcept, Current
<1>11. HasOneOpenTurn(acc2)
  BY <1>9, <1>10 DEF HasOneOpenTurn, OpenTurns
<1>12. \A id \in TurnIds : acc2.explicit[id] # 0 => acc2.turns[acc2.explicit[id]].turnId = id
  BY <1>8, <1>9, <1>10 DEF AccInv
<1>13. \A k \in DOMAIN acc2.turns : acc2.turns[k].emitted =>
         acc2.turns[k].superseded \/ acc2.turns[k].terminal # "none"
  BY <1>8, <1>10 DEF AccInv
<1>14. AccInv(acc2, str2)
  BY <1>6, <1>8, <1>10, <1>11, <1>12, <1>13 DEF AccInv
<1>15. Windows(acc2.turns, "closed") = CleanTurns(str2, hidden)
  <2>1. Windows(acc.turns, "closed") = CleanTurns(str, hidden)
    BY DEF FeedInv, CutInv
  <2>2. CASE Clean(acc.turns[c])
    <3>1. IsClosed(acc2.turns[c]) /\ ~IsClosed(acc.turns[c])
      BY <1>9, <1>10, <2>2 DEF IsClosed, Activity, Clean
    <3>2. Windows(acc2.turns, "closed") =
            Windows(acc.turns, "closed") \cup {<<acc.turns[c].startLine, Len(str) + 1>>}
      <4> DEFINE turns == acc.turns
                 turns2 == acc2.turns
      <4>1. /\ c \in DOMAIN turns /\ DOMAIN turns2 = DOMAIN turns
            /\ \A k \in DOMAIN turns : k # c => turns2[k] = turns[k]
            /\ ~IsClosed(turns[c]) /\ IsClosed(turns2[c])
        BY <1>9, <1>10, <3>1
      <4>2. <<turns2[c].startLine, turns2[c].terminalLine>> =
              <<turns[c].startLine, Len(str) + 1>>
        BY <1>10
      <4> HIDE DEF turns, turns2, c
      <4>3. Windows(turns2, "closed") = Windows(turns, "closed") \cup
              {<<turns2[c].startLine, turns2[c].terminalLine>>}
        BY <4>1, OneMoreWindow
      <4>4. Windows(turns2, "closed") = Windows(turns, "closed") \cup
              {<<turns[c].startLine, Len(str) + 1>>}
        BY <4>2, <4>3
      <4> QED BY <4>4 DEF turns, turns2
    <3>3. ended = {acc.turns[c].startLine}
      BY <1>2, <1>4, <2>2 DEF Current
    <3>4. {<<s, Len(str) + 1>> : s \in ended} = {<<acc.turns[c].startLine, Len(str) + 1>>}
      BY <3>3
    <3> QED BY <1>7, <2>1, <3>2, <3>4
  <2>3. CASE ~Clean(acc.turns[c])
    <3>1. ~IsClosed(acc2.turns[c]) /\ ~IsClosed(acc.turns[c])
      BY <1>9, <1>10, <2>3 DEF IsClosed, Activity, Clean
    <3>2. Windows(acc2.turns, "closed") = Windows(acc.turns, "closed")
      BY <1>9, <1>10, <3>1, SameWindows
    <3>3. ended = {}
      BY <1>2, <1>4, <2>3 DEF Current
    <3>4. {<<s, Len(str) + 1>> : s \in ended} = {}
      BY <3>3
    <3> QED BY <1>7, <2>1, <3>2, <3>4
  <2> QED BY <2>2, <2>3
<1>16. CutInv(acc2, str2, hidden)
  BY <1>5, <1>10, <1>15 DEF CutInv
<1> QED BY <1>14, <1>16 DEF FeedInv, str2

-----------------------------------------------------------------------------
(***************************************************************************)
(* Every branch of push has one of the effects.                            *)
(***************************************************************************)

\* Replacing one turn of an accumulator.
LEMMA WithTurnFacts ==
  ASSUME NEW str, NEW acc, AccInv(acc, str), acc.current # 0, NEW t \in Turns
  PROVE  LET acc2 == WithTurn(acc, acc.current, t)
         IN /\ IsAccumulator(acc2)
            /\ acc2.explicit = acc.explicit /\ acc2.current = acc.current
            /\ SameTurnsExcept(acc, acc2, acc.current)
            /\ Current(acc2) = t
<1> DEFINE turns2 == [acc.turns EXCEPT ![acc.current] = t]
<1>1. /\ acc.turns \in Seq(Turns)
      /\ acc.explicit \in [TurnIds -> 0 .. Len(acc.turns)]
      /\ acc.current \in DOMAIN acc.turns /\ acc.current \in 0 .. Len(acc.turns)
      /\ acc.explicit \in [TurnIds -> Nat] /\ acc.current \in Nat
  BY CurrentFacts DEF AccInv, IsAccumulator
<1>2. /\ turns2 \in Seq(Turns) /\ Len(turns2) = Len(acc.turns)
      /\ DOMAIN turns2 = DOMAIN acc.turns
      /\ turns2[acc.current] = t
      /\ \A k \in DOMAIN acc.turns : k # acc.current => turns2[k] = acc.turns[k]
  BY <1>1
<1> HIDE DEF turns2
<1>3. WithTurn(acc, acc.current, t) =
        [turns |-> turns2, explicit |-> acc.explicit, current |-> acc.current]
  BY DEF WithTurn, turns2
<1> QED BY <1>1, <1>2, <1>3 DEF IsAccumulator, SameTurnsExcept, Current

\* Recording an error or a gap on the current turn.
LEMMA SpoilingUpdates ==
  ASSUME NEW str, NEW acc, AccInv(acc, str), acc.current # 0
  PROVE  /\ \A code \in BoundaryErrors : SpoilsCurrent(acc, AddError(acc, code))
         /\ SpoilsCurrent(acc, WithTurn(acc, acc.current,
                                        [Current(acc) EXCEPT !.parseGap = TRUE]))
<1>1. /\ Current(acc) \in Turns
      /\ ~Current(acc).emitted /\ ~Current(acc).superseded
      /\ Current(acc).terminal = "none"
  BY CurrentFacts
<1>2. ASSUME NEW t \in Turns,
             t.turnId = Current(acc).turnId, t.terminal = "none",
             t.terminalLine = Current(acc).terminalLine,
             ~t.superseded, ~t.emitted, ~Clean(t)
      PROVE  SpoilsCurrent(acc, WithTurn(acc, acc.current, t))
  BY <1>2, WithTurnFacts DEF SpoilsCurrent
<1>3. ASSUME NEW t \in Turns, NEW code \in BoundaryErrors,
             t.terminal = "none", ~t.superseded, ~t.emitted
      PROVE  /\ [t EXCEPT !.errors = @ \cup {code}] \in Turns
             /\ [t EXCEPT !.errors = @ \cup {code}].turnId = t.turnId
             /\ [t EXCEPT !.errors = @ \cup {code}].terminal = "none"
             /\ [t EXCEPT !.errors = @ \cup {code}].terminalLine = t.terminalLine
             /\ ~[t EXCEPT !.errors = @ \cup {code}].superseded
             /\ ~[t EXCEPT !.errors = @ \cup {code}].emitted
             /\ ~Clean([t EXCEPT !.errors = @ \cup {code}])
  BY <1>3 DEF Turns, Clean
<1>4. ASSUME NEW t \in Turns, t.terminal = "none", ~t.superseded, ~t.emitted
      PROVE  /\ [t EXCEPT !.parseGap = TRUE] \in Turns
             /\ [t EXCEPT !.parseGap = TRUE].turnId = t.turnId
             /\ [t EXCEPT !.parseGap = TRUE].terminal = "none"
             /\ [t EXCEPT !.parseGap = TRUE].terminalLine = t.terminalLine
             /\ ~[t EXCEPT !.parseGap = TRUE].superseded
             /\ ~[t EXCEPT !.parseGap = TRUE].emitted
             /\ ~Clean([t EXCEPT !.parseGap = TRUE])
  BY <1>4 DEF Turns, Clean
<1>5. ASSUME NEW code \in BoundaryErrors
      PROVE  SpoilsCurrent(acc, AddError(acc, code))
  BY <1>1, <1>2, <1>3 DEF AddError
<1>6. SpoilsCurrent(acc, WithTurn(acc, acc.current,
                                  [Current(acc) EXCEPT !.parseGap = TRUE]))
  BY <1>1, <1>2, <1>4
<1> QED BY <1>5, <1>6

\* Opening a turn that is spoiled from the beginning.
LEMMA BeginUnbound ==
  ASSUME NEW str, NEW acc, AccInv(acc, str), acc.current = 0,
         NEW turn \in Turns, turn.turnId = NoId, turn.terminal = "none",
         turn.terminalLine = 0,
         ~turn.superseded, ~turn.emitted, ~Clean(turn)
  PROVE  BeginsUnbound(acc, Begin(acc, turn))
<1> DEFINE turns2 == Append(acc.turns, turn)
<1>1. /\ acc.turns \in Seq(Turns) /\ Len(acc.turns) \in Nat
      /\ acc.explicit \in [TurnIds -> 0 .. Len(acc.turns)]
      /\ acc.explicit \in [TurnIds -> Nat]
  BY CurrentFacts DEF AccInv, IsAccumulator
<1>2. /\ turns2 \in Seq(Turns)
      /\ Len(turns2) = Len(acc.turns) + 1
      /\ DOMAIN turns2 = 1 .. Len(acc.turns) + 1
      /\ \A k \in DOMAIN acc.turns : turns2[k] = acc.turns[k]
      /\ turns2[Len(acc.turns) + 1] = turn
  BY <1>1, Appended
<1> HIDE DEF turns2
<1>3. Begin(acc, turn) = [turns |-> turns2, explicit |-> acc.explicit,
                          current |-> Len(acc.turns) + 1]
  BY DEF Begin, turns2
<1>4. 0 .. Len(acc.turns) \subseteq 0 .. Len(acc.turns) + 1
  BY <1>1
<1>5. acc.explicit \in [TurnIds -> 0 .. Len(acc.turns) + 1]
  BY <1>1, <1>4
<1>6. IsAccumulator(Begin(acc, turn))
  BY <1>1, <1>2, <1>3, <1>5 DEF IsAccumulator
<1> QED BY <1>2, <1>3, <1>6 DEF BeginsUnbound, Current

\* The two turns no task_started record begins: a gap and an orphan.
LEMMA UnboundTurns ==
  ASSUME NEW line \in Nat
  PROVE  /\ LET turn == [NewTurn(NoId, "unbound", line) EXCEPT !.parseGap = TRUE]
            IN /\ turn \in Turns /\ turn.turnId = NoId /\ turn.terminal = "none"
               /\ turn.terminalLine = 0
               /\ ~turn.superseded /\ ~turn.emitted /\ ~Clean(turn)
         /\ LET turn == [NewTurn(NoId, "unbound", line)
                           EXCEPT !.errors = {"orphan-user-message"}]
            IN /\ turn \in Turns /\ turn.turnId = NoId /\ turn.terminal = "none"
               /\ turn.terminalLine = 0
               /\ ~turn.superseded /\ ~turn.emitted /\ ~Clean(turn)
  BY DEF NewTurn, Turns, Modes, TerminalKinds, BoundaryErrors, Clean

LEMMA GapEffect ==
  ASSUME NEW str, NEW acc, AccInv(acc, str), NEW line \in Nat
  PROVE  SpoilsCurrent(acc, PushGap(acc, line)) \/ BeginsUnbound(acc, PushGap(acc, line))
<1>1. CASE acc.current # 0
  BY <1>1, CurrentFacts, SpoilingUpdates DEF PushGap
<1>2. CASE acc.current = 0
  <2>1. ~InTurn(acc)
    BY <1>2, CurrentFacts
  <2> QED BY <1>2, <2>1, UnboundTurns, BeginUnbound DEF PushGap
<1> QED BY <1>1, <1>2

\* A start record finalizes the open turn and begins its own.
LEMMA BeginTurnEffect ==
  ASSUME NEW str, NEW acc, AccInv(acc, str), NEW line \in Nat, NEW id \in TurnIds \cup {NoId}
  PROVE  BeginsTurn(acc, PushStart(acc, line, id), line, id)
<1> DEFINE turn == NewTurn(id, IF id = NoId THEN "ordered-fallback" ELSE "turn-id", line)
           closed == Supersede(acc)
           n == Len(acc.turns) + 1
           explicit2 == IF id = NoId THEN acc.explicit ELSE [acc.explicit EXCEPT ![id] = n]
           turns2 == Append(closed.turns, turn)
<1>1. /\ acc.turns \in Seq(Turns) /\ Len(acc.turns) \in Nat
      /\ DOMAIN acc.turns = 1 .. Len(acc.turns)
      /\ acc.explicit \in [TurnIds -> 0 .. Len(acc.turns)]
      /\ acc.current # 0 => /\ acc.current \in DOMAIN acc.turns
                            /\ Current(acc) \in Turns /\ InTurn(acc)
      /\ acc.current = 0 => ~InTurn(acc)
  BY CurrentFacts
<1>2. /\ turn \in Turns /\ turn.turnId = id /\ turn.startLine = line
      /\ turn.terminal = "none" /\ turn.terminalLine = 0
      /\ ~turn.superseded /\ ~turn.emitted /\ Clean(turn)
  BY DEF NewTurn, Turns, Modes, TerminalKinds, BoundaryErrors, Clean
<1>3. ASSUME NEW t \in Turns
      PROVE  /\ [t EXCEPT !.superseded = TRUE, !.emitted = TRUE] \in Turns
             /\ [t EXCEPT !.superseded = TRUE, !.emitted = TRUE].turnId = t.turnId
             /\ [t EXCEPT !.superseded = TRUE, !.emitted = TRUE].terminalLine = t.terminalLine
             /\ [t EXCEPT !.superseded = TRUE, !.emitted = TRUE].superseded
             /\ [t EXCEPT !.superseded = TRUE, !.emitted = TRUE].emitted
  BY DEF Turns
<1>4. /\ closed.turns \in Seq(Turns) /\ Len(closed.turns) = Len(acc.turns)
      /\ closed.explicit = acc.explicit
      /\ \A k \in DOMAIN acc.turns :
           /\ k # acc.current => closed.turns[k] = acc.turns[k]
           /\ k = acc.current =>
                /\ closed.turns[k].turnId = acc.turns[k].turnId
                /\ closed.turns[k].terminalLine = acc.turns[k].terminalLine
                /\ closed.turns[k].superseded /\ closed.turns[k].emitted
  <2>1. CASE acc.current = 0
    <3>1. closed = acc
      BY <1>1, <2>1 DEF Supersede
    <3> HIDE DEF closed
    <3> QED BY <1>1, <2>1, <3>1
  <2>2. CASE acc.current # 0
    <3> DEFINE t == [Current(acc) EXCEPT !.superseded = TRUE, !.emitted = TRUE]
    <3>1. /\ t \in Turns /\ t.turnId = acc.turns[acc.current].turnId
          /\ t.terminalLine = acc.turns[acc.current].terminalLine
          /\ t.superseded /\ t.emitted
      BY <1>1, <1>3, <2>2 DEF Current
    <3>2. closed = WithTurn(acc, acc.current, t)
      BY <1>1, <2>2 DEF Supersede
    <3> HIDE DEF t, closed
    <3>3. /\ IsAccumulator(closed) /\ closed.explicit = acc.explicit
          /\ closed.current = acc.current
          /\ SameTurnsExcept(acc, closed, acc.current) /\ Current(closed) = t
      BY <2>2, <3>1, <3>2, WithTurnFacts
    <3>4. closed.turns \in Seq(Turns) /\ DOMAIN closed.turns = DOMAIN acc.turns
      BY <3>3 DEF IsAccumulator, SameTurnsExcept
    <3>5. Len(closed.turns) = Len(acc.turns)
      BY <1>1, <3>4
    <3> QED BY <3>1, <3>3, <3>4, <3>5 DEF SameTurnsExcept, Current
  <2> QED BY <2>1, <2>2
<1> HIDE DEF turn, closed
<1>5. /\ turns2 \in Seq(Turns) /\ Len(turns2) = n
      /\ DOMAIN turns2 = 1 .. n
      /\ \A k \in DOMAIN acc.turns : turns2[k] = closed.turns[k]
      /\ turns2[n] = turn
  <2>1. DOMAIN closed.turns = DOMAIN acc.turns
    BY <1>1, <1>4
  <2> QED BY <1>1, <1>2, <1>4, <2>1, Appended
<1> HIDE DEF turns2
<1>6. PushStart(acc, line, id) = [turns |-> turns2, explicit |-> explicit2, current |-> n]
  <2>1. Begin(closed, turn) = [turns |-> turns2, explicit |-> acc.explicit, current |-> n]
    BY <1>4 DEF Begin, turns2
  <2>2. PushStart(acc, line, id) =
          LET begun == Begin(closed, turn)
          IN IF id = NoId THEN begun
             ELSE [turns |-> begun.turns, current |-> begun.current,
                   explicit |-> [begun.explicit EXCEPT ![id] = begun.current]]
    BY DEF PushStart, closed, turn
  <2>3. CASE id = NoId
    BY <2>1, <2>2, <2>3
  <2>4. CASE id # NoId
    BY <2>1, <2>2, <2>4
  <2> QED BY <2>3, <2>4
<1>7. explicit2 \in [TurnIds -> 0 .. n] /\ n \in Nat /\ n \in 0 .. n
  <2>1. 0 .. Len(acc.turns) \subseteq 0 .. n /\ n \in 0 .. n /\ n \in Nat
    BY <1>1
  <2> QED BY <1>1, <2>1
<1> HIDE DEF explicit2
<1>8. explicit2 \in [TurnIds -> Nat]
  <2>1. 0 .. n \subseteq Nat
    BY <1>7
  <2> QED BY <1>7, <2>1
<1>9. IsAccumulator(PushStart(acc, line, id))
  BY <1>5, <1>6, <1>7, <1>8 DEF IsAccumulator
<1> QED BY <1>1, <1>2, <1>4, <1>5, <1>6, <1>9 DEF BeginsTurn, Current, explicit2

\* A terminal record that ends the current turn.
LEMMA CloseCurrentTurn ==
  ASSUME NEW str, NEW acc, AccInv(acc, str), acc.current # 0,
         NEW line \in Nat, NEW kind \in TerminalKinds
  PROVE  ClosesCurrent(acc, Close(acc, acc.current, line, kind), line)
<1> DEFINE t == [Current(acc) EXCEPT !.terminal = kind, !.terminalLine = line, !.emitted = TRUE]
           turns2 == [acc.turns EXCEPT ![acc.current] = t]
<1>1. /\ acc.turns \in Seq(Turns)
      /\ acc.explicit \in [TurnIds -> 0 .. Len(acc.turns)]
      /\ acc.current \in DOMAIN acc.turns /\ acc.current \in 0 .. Len(acc.turns)
      /\ acc.explicit \in [TurnIds -> Nat]
      /\ Current(acc) \in Turns /\ ~Current(acc).superseded
  BY CurrentFacts DEF AccInv, IsAccumulator
<1>2. ASSUME NEW u \in Turns, ~u.superseded
      PROVE  LET v == [u EXCEPT !.terminal = kind, !.terminalLine = line, !.emitted = TRUE]
             IN /\ v \in Turns /\ v.turnId = u.turnId /\ v.startLine = u.startLine
                /\ v.terminal # "none" /\ v.terminalLine = line
                /\ v.emitted /\ ~v.superseded
                /\ Clean(v) <=> Clean(u)
  BY <1>2 DEF Turns, TerminalKinds, Clean
<1>3. /\ t \in Turns /\ t.turnId = Current(acc).turnId
      /\ t.startLine = Current(acc).startLine
      /\ t.terminal # "none" /\ t.terminalLine = line
      /\ t.emitted /\ ~t.superseded
      /\ Clean(t) <=> Clean(Current(acc))
  BY <1>1, <1>2
<1>4. Close(acc, acc.current, line, kind) =
        [turns |-> turns2, explicit |-> acc.explicit, current |-> 0]
  BY DEF Close, Current
<1> HIDE DEF t
<1>5. /\ turns2 \in Seq(Turns) /\ Len(turns2) = Len(acc.turns)
      /\ DOMAIN turns2 = DOMAIN acc.turns
      /\ turns2[acc.current] = t
      /\ \A k \in DOMAIN acc.turns : k # acc.current => turns2[k] = acc.turns[k]
  BY <1>1, <1>3
<1> HIDE DEF turns2
<1>6. IsAccumulator(Close(acc, acc.current, line, kind))
  BY <1>1, <1>4, <1>5 DEF IsAccumulator
<1> QED BY <1>3, <1>4, <1>5, <1>6 DEF ClosesCurrent, SameTurnsExcept

-----------------------------------------------------------------------------
(***************************************************************************)
(* One pushed record preserves the invariant of a feed.                    *)
(***************************************************************************)

\* What the invariant says of a clean open start: it is the current turn's,
\* and no line after it is a start.
LEMMA OpenStartFacts ==
  ASSUME NEW S, NEW str \in Seq(S), NEW acc,
         NEW hidden \in SUBSET {"drift"}, FeedInv(acc, str, hidden),
         NEW s \in OpenStarts(str, hidden)
  PROVE  /\ acc.current # 0 /\ Clean(Current(acc))
         /\ s \in DOMAIN str /\ IsStart(str[s]) /\ str[s].id = Current(acc).turnId
         /\ \A j \in DOMAIN str : s < j => ~IsStart(str[j])
<1>1. /\ acc.current # 0 /\ Clean(Current(acc))
      /\ str[s].id = Current(acc).turnId
  BY DEF FeedInv, CutInv
<1>2. s \in DOMAIN str /\ IsStart(str[s]) /\ CleanBetween(str, hidden, s, Len(str) + 1)
  BY DEF OpenStarts
<1>3. ASSUME NEW j \in DOMAIN str, s < j
      PROVE  ~IsStart(str[j])
  <2>1. j < Len(str) + 1
    OBVIOUS
  <2>2. str[j].kind \in hidden \/ Harmless(str, s, j)
    BY <1>2, <1>3, <2>1 DEF CleanBetween
  <2> QED BY <2>2 DEF Harmless, IsStart
<1> QED BY <1>1, <1>2, <1>3

\* Push, one kind of record at a time.
LEMMA PushCases ==
  ASSUME NEW acc, NEW line, NEW r
  PROVE  /\ r.kind \in {"malformed", "drift"} => Push(acc, line, r) = PushGap(acc, line)
         /\ r.kind = "task_started" => Push(acc, line, r) = PushStart(acc, line, r.id)
         /\ r.kind = "user_message" => Push(acc, line, r) = PushUser(acc, line, r.id)
         /\ r.kind = "agent_message" => Push(acc, line, r) = PushAgent(acc, r.id)
         /\ r.kind \in TerminalKinds =>
              Push(acc, line, r) = PushTerminal(acc, line, r.kind, r.id)
         /\ r.kind = "other" => Push(acc, line, r) = acc
<1>1. ASSUME r.kind \in {"malformed", "drift"}
      PROVE  Push(acc, line, r) = PushGap(acc, line)
  <2>1. r.kind # "task_started" /\ r.kind # "user_message" /\ r.kind # "agent_message"
    BY <1>1
  <2>2. r.kind \notin TerminalKinds
    BY <1>1 DEF TerminalKinds
  <2> QED BY <1>1, <2>1, <2>2, Zenon DEF Push
<1>2. ASSUME r.kind \in {"task_started", "user_message", "agent_message", "other"}
      PROVE  r.kind \notin {"malformed", "drift"} /\ r.kind \notin TerminalKinds
  BY <1>2 DEF TerminalKinds
<1>3. r.kind = "task_started" => Push(acc, line, r) = PushStart(acc, line, r.id)
  BY <1>2, Zenon DEF Push
<1>4. r.kind = "user_message" => Push(acc, line, r) = PushUser(acc, line, r.id)
  BY <1>2, Zenon DEF Push
<1>5. r.kind = "agent_message" => Push(acc, line, r) = PushAgent(acc, r.id)
  BY <1>2, Zenon DEF Push
<1>6. ASSUME r.kind \in TerminalKinds
      PROVE  Push(acc, line, r) = PushTerminal(acc, line, r.kind, r.id)
  <2>1. r.kind # "task_started" /\ r.kind # "user_message" /\ r.kind # "agent_message"
    BY <1>6 DEF TerminalKinds
  <2>2. r.kind \notin {"malformed", "drift"}
    BY <1>6 DEF TerminalKinds
  <2> QED BY <1>6, <2>1, <2>2, Zenon DEF Push
<1>7. r.kind = "other" => Push(acc, line, r) = acc
  BY <1>2, Zenon DEF Push
<1> QED BY <1>1, <1>3, <1>4, <1>5, <1>6, <1>7

\* A user message, in each of the three situations it can arrive in.
LEMMA PushUserCases ==
  ASSUME NEW acc, NEW line, NEW id
  PROVE  /\ Disagrees(acc, id) =>
              PushUser(acc, line, id) = AddError(acc, "user-message-turn-id-mismatch")
         /\ ~InTurn(acc) =>
              PushUser(acc, line, id) =
                Begin(acc, [NewTurn(NoId, "unbound", line)
                              EXCEPT !.errors = {"orphan-user-message"}])
         /\ ~Disagrees(acc, id) /\ InTurn(acc) => PushUser(acc, line, id) = acc
<1>1. Disagrees(acc, id) => InTurn(acc)
  BY DEF Disagrees
<1> QED BY <1>1, Zenon DEF PushUser

\* The effect a pushed record has, with what makes it right in the stream.
LEMMA PushEffects ==
  ASSUME NEW S, RecordSet(S), NEW str \in Seq(S), NEW r \in S, NEW acc,
         NEW hidden \in SUBSET {"drift"}, FeedInv(acc, str, hidden)
  PROVE  LET acc2 == Push(acc, Len(str) + 1, r)
         IN \/ /\ acc2 = acc /\ ~IsStart(r) /\ (Quiet(r) \/ InTurn(acc))
               /\ \A s \in OpenStarts(str, hidden) :
                    Harmless(Append(str, r), s, Len(str) + 1)
            \/ /\ SpoilsCurrent(acc, acc2) \/ (BeginsUnbound(acc, acc2) /\ ~Quiet(r))
               /\ ~IsStart(r)
               /\ \A s \in OpenStarts(str, hidden) :
                    /\ ~Harmless(Append(str, r), s, Len(str) + 1)
                    /\ ~(IsTerminal(r) /\ r.id = str[s].id)
            \/ IsStart(r) /\ BeginsTurn(acc, acc2, Len(str) + 1, r.id)
            \/ /\ IsTerminal(r) /\ r.id = Current(acc).turnId
               /\ ClosesCurrent(acc, acc2, Len(str) + 1)
<1> DEFINE line == Len(str) + 1
           str2 == Append(str, r)
           acc2 == Push(acc, line, r)
           none == /\ acc2 = acc /\ ~IsStart(r) /\ (Quiet(r) \/ InTurn(acc))
                   /\ \A s \in OpenStarts(str, hidden) : Harmless(str2, s, line)
           spoil == /\ SpoilsCurrent(acc, acc2) \/ (BeginsUnbound(acc, acc2) /\ ~Quiet(r))
                    /\ ~IsStart(r)
                    /\ \A s \in OpenStarts(str, hidden) :
                         /\ ~Harmless(str2, s, line)
                         /\ ~(IsTerminal(r) /\ r.id = str[s].id)
           begin == IsStart(r) /\ BeginsTurn(acc, acc2, line, r.id)
           close == /\ IsTerminal(r) /\ r.id = Current(acc).turnId
                    /\ ClosesCurrent(acc, acc2, line)
<1>1. AccInv(acc, str)
  BY DEF FeedInv
<1>2. /\ line \in Nat /\ str2[line] = r
      /\ \A k \in DOMAIN str : str2[k] = str[k]
      /\ DOMAIN str = 1 .. Len(str)
  BY Appended
<1>3. ASSUME NEW s \in OpenStarts(str, hidden)
      PROVE  /\ acc.current # 0 /\ InTurn(acc)
             /\ s \in DOMAIN str /\ IsStart(str[s]) /\ str[s].id = Current(acc).turnId
             /\ str2[s] = str[s]
             /\ \A j \in DOMAIN str : s < j => ~IsStart(str[j])
             /\ \A j \in 1 .. s - 1 : str2[j] = str[j]
  <2>1. /\ acc.current # 0 /\ s \in DOMAIN str /\ IsStart(str[s])
        /\ str[s].id = Current(acc).turnId
        /\ \A j \in DOMAIN str : s < j => ~IsStart(str[j])
    BY OpenStartFacts
  <2> QED BY <1>1, <1>2, <2>1, CurrentFacts
<1>4. /\ r.kind \in BoundaryKinds \cup {"malformed", "drift", "other"}
      /\ r.id \in TurnIds \cup {NoId}
  BY DEF RecordSet
<1> HIDE DEF str2, line
<1>5. CASE r.kind \in {"malformed", "drift"}
  <2>1. acc2 = PushGap(acc, line)
    BY <1>5, PushCases
  <2>2. ~IsStart(r) /\ ~IsTerminal(r) /\ ~Quiet(r)
    BY <1>5 DEF IsStart, IsTerminal, TerminalKinds, Quiet
  <2>3. \A s \in OpenStarts(str, hidden) : ~Harmless(str2, s, line)
    BY <1>2, <1>5 DEF Harmless
  <2>4. SpoilsCurrent(acc, acc2) \/ BeginsUnbound(acc, acc2)
    BY <1>1, <1>2, <2>1, GapEffect
  <2> HIDE DEF acc2
  <2>5. spoil
    BY <2>2, <2>3, <2>4
  <2> QED BY <2>5 DEF line, str2, acc2
<1>6. CASE r.kind = "task_started"
  <2>1. acc2 = PushStart(acc, line, r.id)
    BY <1>6, PushCases
  <2>2. begin
    BY <1>1, <1>2, <1>4, <1>6, <2>1, BeginTurnEffect DEF IsStart
  <2> QED BY <2>2 DEF line, str2
<1>7. CASE r.kind \in {"user_message", "agent_message"}
  <2>1. ~IsStart(r) /\ ~IsTerminal(r) /\ IsMessage(r)
    BY <1>7 DEF IsStart, IsTerminal, TerminalKinds, IsMessage
  <2>2. \A s \in OpenStarts(str, hidden) :
          Harmless(str2, s, line) <=> ~Disagrees(acc, r.id)
    BY <1>2, <1>3, <1>7, <2>1 DEF Harmless, Disagrees
  <2>3. /\ r.kind = "user_message" => acc2 = PushUser(acc, line, r.id)
        /\ r.kind = "agent_message" => acc2 = PushAgent(acc, r.id)
    BY PushCases
  <2>4. /\ Disagrees(acc, r.id) =>
             PushUser(acc, line, r.id) = AddError(acc, "user-message-turn-id-mismatch")
        /\ ~Disagrees(acc, r.id) /\ InTurn(acc) => PushUser(acc, line, r.id) = acc
    BY PushUserCases, Zenon
  <2>5. CASE Disagrees(acc, r.id)
    <3>1. \E code \in BoundaryErrors : acc2 = AddError(acc, code)
      BY <1>7, <2>5, <2>3, <2>4 DEF PushAgent, BoundaryErrors
    <3>2. acc.current # 0
      BY <2>5 DEF Disagrees, InTurn
    <3>3. spoil
      BY <1>1, <2>1, <2>2, <2>5, <3>1, <3>2, SpoilingUpdates
    <3> QED BY <3>3 DEF line, str2
  <2>6. CASE ~Disagrees(acc, r.id) /\ (InTurn(acc) \/ r.kind = "agent_message")
    <3>1. acc2 = acc
      BY <1>7, <2>6, <2>3, <2>4 DEF PushAgent
    <3>2. none
      BY <2>1, <2>2, <2>6, <3>1 DEF Quiet
    <3> QED BY <3>2 DEF line, str2
  <2>7. CASE ~Disagrees(acc, r.id) /\ ~InTurn(acc) /\ r.kind = "user_message"
    <3>1. acc2 = Begin(acc, [NewTurn(NoId, "unbound", line)
                               EXCEPT !.errors = {"orphan-user-message"}])
      BY <2>7, PushCases, PushUserCases
    <3>2. acc.current = 0
      BY <1>1, <2>7, CurrentFacts
    <3>3. BeginsUnbound(acc, acc2)
      <4> DEFINE turn == [NewTurn(NoId, "unbound", line)
                            EXCEPT !.errors = {"orphan-user-message"}]
      <4>1. /\ turn \in Turns /\ turn.turnId = NoId /\ turn.terminal = "none"
            /\ turn.terminalLine = 0
            /\ ~turn.superseded /\ ~turn.emitted /\ ~Clean(turn)
        BY <1>2, UnboundTurns
      <4> HIDE DEF turn
      <4>2. BeginsUnbound(acc, Begin(acc, turn))
        BY <1>1, <3>2, <4>1, BeginUnbound
      <4> QED BY <3>1, <4>2 DEF turn
    <3>4. ~Quiet(r) /\ OpenStarts(str, hidden) = {}
      BY <1>3, <2>1, <2>7, <3>2 DEF Quiet
    <3> HIDE DEF acc2
    <3>5. spoil
      BY <2>1, <3>3, <3>4
    <3> QED BY <3>5 DEF line, str2, acc2
  <2> QED BY <1>7, <2>5, <2>6, <2>7
<1>8. CASE r.kind \in TerminalKinds
  <2> DEFINE target == TerminalTarget(acc, r.id)
  <2>1. ~IsStart(r) /\ IsTerminal(r) /\ ~IsMessage(r)
    BY <1>8 DEF IsStart, IsTerminal, TerminalKinds, IsMessage
  <2>2. acc2 = PushTerminal(acc, line, r.kind, r.id)
    BY <1>8, PushCases
  <2>3. \A s \in OpenStarts(str, hidden) :
          Harmless(str2, s, line) <=>
            /\ r.id \notin {NoId, Current(acc).turnId}
            /\ \E j \in 1 .. s - 1 : IsStart(str[j]) /\ str[j].id = r.id
    BY <1>2, <1>3, <1>8, <2>1 DEF Harmless, TerminalKinds
  <2>4. CASE TerminalError(acc, r.id)
    <3>1. acc2 = AddError(acc, TerminalErrorCode(acc, r.id))
      BY <2>2, <2>4 DEF PushTerminal
    <3>2. TerminalErrorCode(acc, r.id) \in BoundaryErrors
      BY DEF TerminalErrorCode, BoundaryErrors
    <3>3. SpoilsCurrent(acc, acc2)
      BY <1>1, <2>4, <3>1, <3>2, SpoilingUpdates DEF TerminalError
    <3>4. ASSUME NEW s \in OpenStarts(str, hidden)
          PROVE  ~Harmless(str2, s, line) /\ r.id # str[s].id
      <4>1. CASE r.id = NoId
        BY <1>3, <2>3, <2>4, <4>1 DEF TerminalError
      <4>2. CASE r.id # NoId
        <5>1. r.id \in TurnIds /\ acc.explicit[r.id] = 0
          BY <1>4, <2>4, <4>2 DEF TerminalError
        <5>2. \A j \in DOMAIN str : ~(IsStart(str[j]) /\ str[j].id = r.id)
          BY <1>1, <5>1 DEF AccInv
        <5>3. \A j \in 1 .. s - 1 : j \in DOMAIN str
          BY <1>2, <1>3
        <5> QED BY <1>3, <2>3, <5>2, <5>3
      <4> QED BY <4>1, <4>2
    <3>5. spoil
      BY <2>1, <3>3, <3>4
    <3> QED BY <3>5 DEF line, str2
  <2>5. CASE /\ ~TerminalError(acc, r.id)
             /\ target # 0 /\ ~acc.turns[target].emitted
             /\ acc.turns[target].terminal = "none"
    <3>1. acc2 = Close(acc, target, line, r.kind)
      BY <2>2, <2>5 DEF PushTerminal
    <3>2. target \in DOMAIN acc.turns /\ r.id # NoId => acc.turns[target].turnId = r.id
      BY <1>1, <1>4, <2>5 DEF TerminalTarget, AccInv
    <3>3. target \in DOMAIN acc.turns
      BY <1>1, <1>4, <2>5, CurrentFacts DEF TerminalTarget
    <3>4. target = acc.current /\ acc.current # 0
      BY <1>1, <2>5, <3>3, CurrentFacts
    <3>5. r.id = Current(acc).turnId
      <4>1. CASE r.id = NoId
        BY <2>5, <3>4, <4>1 DEF TerminalError
      <4>2. CASE r.id # NoId
        BY <3>2, <3>3, <3>4, <4>2 DEF Current
      <4> QED BY <4>1, <4>2
    <3>6. ClosesCurrent(acc, acc2, line)
      BY <1>1, <1>2, <1>8, <3>1, <3>4, CloseCurrentTurn
    <3>7. close
      BY <2>1, <3>5, <3>6
    <3> QED BY <3>7 DEF line, str2
  <2>6. CASE /\ ~TerminalError(acc, r.id)
             /\ ~(/\ target # 0 /\ ~acc.turns[target].emitted
                  /\ acc.turns[target].terminal = "none")
    <3>1. acc2 = acc
      BY <2>2, <2>6 DEF PushTerminal
    <3>2. ASSUME NEW s \in OpenStarts(str, hidden)
          PROVE  Harmless(str2, s, line)
      <4>1. acc.current # 0 /\ ~Current(acc).emitted /\ Current(acc).terminal = "none"
        BY <1>1, <1>3, CurrentFacts
      <4>2. target # acc.current
        BY <2>6, <4>1 DEF Current
      <4>3. r.id # NoId /\ r.id \in TurnIds
        BY <1>4, <4>2 DEF TerminalTarget
      <4>4. r.id # Current(acc).turnId
        BY <1>1, <4>1, <4>2, <4>3 DEF TerminalTarget, AccInv
      <4>5. acc.explicit[r.id] # 0
        BY <2>6, <4>1, <4>3 DEF TerminalError
      <4>6. PICK j \in DOMAIN str : IsStart(str[j]) /\ str[j].id = r.id
        BY <1>1, <4>3, <4>5 DEF AccInv
      <4>7. j # s /\ ~(s < j)
        BY <1>3, <4>4, <4>6
      <4>8. j \in 1 .. s - 1
        BY <1>2, <1>3, <4>6, <4>7
      <4> QED BY <2>3, <4>3, <4>4, <4>6, <4>8
    <3>3. none
      BY <2>1, <3>1, <3>2 DEF Quiet
    <3> QED BY <3>3 DEF line, str2
  <2> QED BY <2>4, <2>5, <2>6
<1>9. CASE r.kind = "other"
  <2>1. acc2 = acc
    BY <1>9, PushCases
  <2>2. none
    BY <1>2, <1>9, <2>1 DEF Harmless, IsStart, IsMessage, IsTerminal, TerminalKinds, Quiet
  <2> QED BY <2>2 DEF line, str2
<1> QED BY <1>4, <1>5, <1>6, <1>7, <1>8, <1>9 DEF BoundaryKinds, TerminalKinds

LEMMA PushPreserves ==
  ASSUME NEW S, RecordSet(S), NEW str \in Seq(S), NEW r \in S, NEW acc,
         NEW hidden \in SUBSET {"drift"}, FeedInv(acc, str, hidden),
         r.kind \notin hidden
  PROVE  FeedInv(Push(acc, Len(str) + 1, r), Append(str, r), hidden)
<1> DEFINE acc2 == Push(acc, Len(str) + 1, r)
<1>1. \/ /\ acc2 = acc /\ ~IsStart(r)
         /\ \A s \in OpenStarts(str, hidden) :
              Harmless(Append(str, r), s, Len(str) + 1)
      \/ /\ SpoilsCurrent(acc, acc2) \/ BeginsUnbound(acc, acc2)
         /\ ~IsStart(r)
         /\ \A s \in OpenStarts(str, hidden) :
              /\ ~Harmless(Append(str, r), s, Len(str) + 1)
              /\ ~(IsTerminal(r) /\ r.id = str[s].id)
      \/ IsStart(r) /\ BeginsTurn(acc, acc2, Len(str) + 1, r.id)
      \/ /\ IsTerminal(r) /\ r.id = Current(acc).turnId
         /\ ClosesCurrent(acc, acc2, Len(str) + 1)
  BY PushEffects
<1> HIDE DEF acc2
<1> QED BY <1>1, NoEffect, SpoilEffect, StartEffect, CloseEffect DEF acc2

\* A record that is not pushed is one the feed does not see.
LEMMA HiddenPreserves ==
  ASSUME NEW S, NEW str \in Seq(S), NEW r \in S, NEW acc,
         FeedInv(acc, str, {"drift"}), r.kind = "drift"
  PROVE  FeedInv(acc, Append(str, r), {"drift"})
<1>1. ~IsStart(r) /\ ~IsTerminal(r)
  BY DEF IsStart, IsTerminal, TerminalKinds
<1> QED BY <1>1, NoEffect

\* Finalized turns are left alone, in a push and at the end of the read.
LEMMA PushFinal ==
  ASSUME NEW S, RecordSet(S), NEW str \in Seq(S), NEW r \in S, NEW acc,
         NEW hidden \in SUBSET {"drift"}, FeedInv(acc, str, hidden)
  PROVE  \A k \in DOMAIN acc.turns : acc.turns[k].emitted =>
           Push(acc, Len(str) + 1, r).turns[k] = acc.turns[k]
<1> DEFINE acc2 == Push(acc, Len(str) + 1, r)
<1>1. \/ acc2 = acc
      \/ SpoilsCurrent(acc, acc2) \/ BeginsUnbound(acc, acc2)
      \/ BeginsTurn(acc, acc2, Len(str) + 1, r.id)
      \/ ClosesCurrent(acc, acc2, Len(str) + 1)
  BY PushEffects
<1> HIDE DEF acc2
<1>2. acc.current # 0 => ~acc.turns[acc.current].emitted
  BY CurrentFacts DEF FeedInv, Current
<1>3. \A k \in DOMAIN acc.turns : k # acc.current => acc2.turns[k] = acc.turns[k]
  BY <1>1 DEF SpoilsCurrent, BeginsUnbound, BeginsTurn, ClosesCurrent, SameTurnsExcept
<1>4. \A k \in DOMAIN acc.turns : k # 0
  BY CurrentFacts DEF FeedInv
<1> QED BY <1>2, <1>3, <1>4 DEF acc2

LEMMA FinishFinal ==
  ASSUME NEW acc, NEW drift
  PROVE  \A k \in DOMAIN acc.turns : acc.turns[k].emitted =>
           Finish(acc, drift).turns[k] = acc.turns[k]
  BY Zenon DEF Finish

\* finish: what the finalized accumulator holds.
LEMMA FinishEffect ==
  ASSUME NEW str, NEW acc, AccInv(acc, str), NEW drift \in SUBSET Nat
  PROVE  LET acc2 == Finish(acc, drift)
         IN /\ IsAccumulator(acc2) /\ HasOneOpenTurn(acc2)
            /\ DOMAIN acc2.turns = DOMAIN acc.turns
            /\ \A k \in DOMAIN acc.turns : k # acc.current => acc2.turns[k] = acc.turns[k]
            /\ acc.current # 0 =>
                 LET t == acc2.turns[acc.current]
                 IN /\ t.startLine = Current(acc).startLine
                    /\ t.terminal = "none" /\ t.terminalLine = 0
                    /\ ~t.superseded /\ t.emitted
                    /\ Clean(t) <=> /\ Clean(Current(acc))
                                    /\ ~\E d \in drift : d > Current(acc).startLine
<1>1. /\ acc.turns \in Seq(Turns) /\ Len(acc.turns) \in Nat
      /\ DOMAIN acc.turns = 1 .. Len(acc.turns)
      /\ acc.explicit \in [TurnIds -> 0 .. Len(acc.turns)]
      /\ acc.explicit \in [TurnIds -> Nat]
      /\ acc.current # 0 =>
           /\ acc.current \in DOMAIN acc.turns
           /\ acc.turns[acc.current] \in Turns
           /\ ~acc.turns[acc.current].emitted /\ ~acc.turns[acc.current].superseded
           /\ acc.turns[acc.current].terminal = "none"
           /\ acc.turns[acc.current].terminalLine = 0
      /\ \A k \in DOMAIN acc.turns : k # acc.current => acc.turns[k].emitted
  <2>1. acc.current # 0 => acc.turns[acc.current].terminalLine = 0
    BY DEF AccInv, Current
  <2>2. /\ acc.turns \in Seq(Turns) /\ Len(acc.turns) \in Nat
        /\ DOMAIN acc.turns = 1 .. Len(acc.turns)
        /\ acc.explicit \in [TurnIds -> 0 .. Len(acc.turns)]
        /\ \A k \in DOMAIN acc.turns : k # acc.current => acc.turns[k].emitted
    BY CurrentFacts
  <2>3. acc.current # 0 =>
          /\ acc.current \in DOMAIN acc.turns
          /\ acc.turns[acc.current] \in Turns
          /\ ~acc.turns[acc.current].emitted /\ ~acc.turns[acc.current].superseded
          /\ acc.turns[acc.current].terminal = "none"
    BY CurrentFacts DEF Current
  <2>4. acc.explicit \in [TurnIds -> Nat]
    BY <2>2
  <2> QED BY <2>1, <2>2, <2>3, <2>4
<1> DEFINE gap(t) == \E d \in drift : d > t.startLine
           done(t) == FinishTurn(t, drift)
           turns2 == [k \in DOMAIN acc.turns |->
                        IF acc.turns[k].emitted THEN acc.turns[k] ELSE done(acc.turns[k])]
<1>2. ASSUME NEW t \in Turns
      PROVE  /\ done(t) \in Turns /\ done(t).startLine = t.startLine
             /\ done(t).terminal = t.terminal /\ done(t).terminalLine = t.terminalLine
             /\ done(t).superseded = t.superseded /\ done(t).emitted
             /\ done(t).errors = t.errors
  BY DEF Turns, FinishTurn
<1>3. ASSUME NEW t \in Turns
      PROVE  done(t).parseGap <=> t.parseGap \/ gap(t)
  BY DEF Turns, FinishTurn
<1>4. Finish(acc, drift) = [turns |-> turns2, explicit |-> acc.explicit, current |-> 0]
  BY DEF Finish
<1> HIDE DEF gap, done
<1>5. /\ turns2 \in Seq(Turns) /\ Len(turns2) = Len(acc.turns)
      /\ DOMAIN turns2 = DOMAIN acc.turns
      /\ \A k \in DOMAIN acc.turns :
           turns2[k] = IF acc.turns[k].emitted THEN acc.turns[k] ELSE done(acc.turns[k])
  BY <1>1, <1>2
<1> HIDE DEF turns2
<1>6. IsAccumulator(Finish(acc, drift))
  BY <1>1, <1>4, <1>5 DEF IsAccumulator
<1>7. \A k \in DOMAIN acc.turns : k # acc.current => turns2[k] = acc.turns[k]
  BY <1>1, <1>5
<1>8. acc.current # 0 => turns2[acc.current] = done(acc.turns[acc.current])
  BY <1>1, <1>5
<1>9. HasOneOpenTurn(Finish(acc, drift))
  <2>1. \A k \in DOMAIN turns2 : turns2[k].emitted
    BY <1>1, <1>2, <1>5, <1>7, <1>8
  <2> QED BY <1>4, <2>1 DEF HasOneOpenTurn, OpenTurns
<1>10. acc.current # 0 =>
         LET t == turns2[acc.current]
         IN /\ t.startLine = acc.turns[acc.current].startLine
            /\ t.terminal = "none" /\ t.terminalLine = 0
            /\ ~t.superseded /\ t.emitted
            /\ Clean(t) <=> Clean(acc.turns[acc.current]) /\ ~gap(acc.turns[acc.current])
  <2> SUFFICES ASSUME acc.current # 0
               PROVE  LET t == turns2[acc.current]
                      IN /\ t.startLine = acc.turns[acc.current].startLine
                         /\ t.terminal = "none" /\ t.terminalLine = 0
                         /\ ~t.superseded /\ t.emitted
                         /\ Clean(t) <=> /\ Clean(acc.turns[acc.current])
                                         /\ ~gap(acc.turns[acc.current])
    OBVIOUS
  <2> DEFINE u == acc.turns[acc.current]
             v == done(u)
  <2>1. turns2[acc.current] = v
    BY <1>8
  <2>2. /\ v.startLine = u.startLine /\ v.terminal = "none" /\ v.terminalLine = 0
        /\ ~v.superseded /\ v.emitted
    BY <1>1, <1>2
  <2>3. v.errors = u.errors /\ (v.parseGap <=> u.parseGap \/ gap(u))
    BY <1>1, <1>2, <1>3
  <2>4. Clean(v) <=> Clean(u) /\ ~gap(u)
    BY <2>3, Zenon DEF Clean
  <2> QED BY <2>1, <2>2, <2>4
<1> QED BY <1>4, <1>5, <1>6, <1>7, <1>9, <1>10 DEF Current, gap

\* The windows after finish: the closed ones as before, and the turn that was
\* open, if it is clean and no hidden gap falls after its start.
LEMMA FinishWindows ==
  ASSUME NEW str, NEW acc, AccInv(acc, str), NEW drift \in SUBSET Nat
  PROVE  LET turns2 == Finish(acc, drift).turns
         IN /\ Windows(turns2, "closed") = Windows(acc.turns, "closed")
            /\ Windows(turns2, "open") =
                 IF /\ acc.current # 0 /\ Clean(Current(acc))
                    /\ ~\E d \in drift : d > Current(acc).startLine
                 THEN {<<Current(acc).startLine, 0>>} ELSE {}
<1> DEFINE turns2 == Finish(acc, drift).turns
           c == acc.current
           open == /\ c # 0 /\ Clean(Current(acc))
                   /\ ~\E d \in drift : d > Current(acc).startLine
<1>1. /\ DOMAIN turns2 = DOMAIN acc.turns
      /\ \A k \in DOMAIN acc.turns : k # c => turns2[k] = acc.turns[k]
      /\ c # 0 => /\ turns2[c].startLine = Current(acc).startLine
                  /\ turns2[c].terminal = "none" /\ turns2[c].terminalLine = 0
                  /\ ~turns2[c].superseded /\ turns2[c].emitted
                  /\ Clean(turns2[c]) <=> open
  BY FinishEffect
<1>2. /\ c # 0 => c \in DOMAIN acc.turns /\ ~acc.turns[c].emitted
      /\ \A k \in DOMAIN acc.turns : k # c => acc.turns[k].emitted
      /\ \A k \in DOMAIN acc.turns : acc.turns[k].emitted =>
           acc.turns[k].superseded \/ acc.turns[k].terminal # "none"
  BY CurrentFacts DEF AccInv, Current
<1> HIDE DEF turns2, open
<1>3. Windows(turns2, "closed") = Windows(acc.turns, "closed")
  <2>1. \A k \in DOMAIN turns2 :
          \/ k \in DOMAIN acc.turns /\ turns2[k] = acc.turns[k]
          \/ ~IsClosed(turns2[k]) /\ (k \in DOMAIN acc.turns => ~IsClosed(acc.turns[k]))
    <3> TAKE k \in DOMAIN turns2
    <3>1. CASE k # c
      BY <1>1, <3>1
    <3>2. CASE k = c /\ c # 0
      BY <1>1, <1>2, <3>2 DEF IsClosed, Activity
    <3>3. CASE c = 0
      BY <1>1, <1>2, <3>3, CurrentFacts
    <3> QED BY <3>1, <3>2, <3>3
  <2> QED BY <1>1, <2>1, SameWindows
<1>4. ASSUME NEW k \in DOMAIN turns2, turns2[k].emitted, Activity(turns2[k]) = "open"
      PROVE  k = c /\ open
  <2>1. /\ turns2[k].terminal = "none" /\ ~turns2[k].superseded /\ Clean(turns2[k])
    BY <1>4 DEF Activity, Clean
  <2>2. k = c
    BY <1>1, <1>2, <1>4, <2>1
  <2>3. c # 0
    BY <1>1, <2>2, CurrentFacts
  <2> QED BY <1>1, <2>1, <2>2, <2>3
<1>5. CASE open
  <2>1. c # 0 /\ c \in DOMAIN turns2
    BY <1>1, <1>2, <1>5 DEF open
  <2>2. turns2[c].emitted /\ Activity(turns2[c]) = "open"
    BY <1>1, <1>5, <2>1 DEF Activity, Clean
  <2>3. Snapshots(turns2, "open") = {turns2[c]}
    BY <1>4, <2>1, <2>2 DEF Snapshots
  <2>4. Windows(turns2, "open") = {<<turns2[c].startLine, turns2[c].terminalLine>>}
    BY <2>3 DEF Windows
  <2>5. <<turns2[c].startLine, turns2[c].terminalLine>> = <<Current(acc).startLine, 0>>
    BY <1>1, <2>1
  <2> QED BY <1>3, <1>5, <2>4, <2>5 DEF open, turns2
<1>6. CASE ~open
  <2>1. Snapshots(turns2, "open") = {}
    BY <1>4, <1>6 DEF Snapshots
  <2>2. Windows(turns2, "open") = {}
    BY <2>1 DEF Windows
  <2> QED BY <1>3, <1>6, <2>2 DEF open, turns2
<1> QED BY <1>5, <1>6

-----------------------------------------------------------------------------
(***************************************************************************)
(* The two feeds together.                                                 *)
(***************************************************************************)

\* What a feed that does not see drift holds, against one that sees it: the
\* turns with no drift line in their window are the same.
LEMMA DriftCut ==
  ASSUME NEW S, NEW str \in Seq(S)
  PROVE  /\ DriftOf(str) \in SUBSET Nat
         /\ CleanTurns(str, {}) =
              {w \in CleanTurns(str, {"drift"}) :
                 ~\E d \in DriftOf(str) : w[1] < d /\ (w[2] = 0 \/ d < w[2])}
         /\ OpenStarts(str, {}) =
              {s \in OpenStarts(str, {"drift"}) : ~\E d \in DriftOf(str) : d > s}
<1>1. DOMAIN str = 1 .. Len(str) /\ Len(str) \in Nat
  OBVIOUS
<1>2. \A s, e : CleanBetween(str, {}, s, e) <=>
        /\ CleanBetween(str, {"drift"}, s, e)
        /\ ~\E d \in DriftOf(str) : s < d /\ d < e
  BY DEF CleanBetween, DriftOf, Harmless
<1>3. CleanTurns(str, {}) =
        {w \in CleanTurns(str, {"drift"}) :
           ~\E d \in DriftOf(str) : w[1] < d /\ (w[2] = 0 \/ d < w[2])}
  <2>1. \A w \in (DOMAIN str) \X (DOMAIN str) : w[2] # 0
    BY <1>1
  <2> QED BY <1>2, <2>1 DEF CleanTurns
<1>4. OpenStarts(str, {}) =
        {s \in OpenStarts(str, {"drift"}) : ~\E d \in DriftOf(str) : d > s}
  <2>1. \A d \in DriftOf(str) : d < Len(str) + 1 /\ d \in Nat
    BY <1>1 DEF DriftOf
  <2>2. \A s \in DOMAIN str : s \in Nat
    BY <1>1
  <2>3. \A s \in DOMAIN str : \A d \in DriftOf(str) : d > s <=> s < d /\ d < Len(str) + 1
    BY <1>1, <2>1, <2>2
  <2> HIDE DEF DriftOf
  <2> QED BY <1>2, <2>3 DEF OpenStarts
<1> QED BY <1>1, <1>3, <1>4 DEF DriftOf

LEMMA FeedInvInit ==
  ASSUME NEW hidden
  PROVE  FeedInv(EmptyAccumulator, <<>>, hidden)
<1> DEFINE acc == EmptyAccumulator
<1>1. /\ acc.turns = <<>> /\ acc.current = 0 /\ acc.explicit = [id \in TurnIds |-> 0]
      /\ acc = [turns |-> <<>>, explicit |-> [id \in TurnIds |-> 0], current |-> 0]
  BY DEF EmptyAccumulator
<1> HIDE DEF acc
<1>2. acc.turns \in Seq(Turns) /\ Len(acc.turns) = 0 /\ DOMAIN acc.turns = {}
  BY <1>1
<1>3. IsAccumulator(acc)
  BY <1>1, <1>2 DEF IsAccumulator
<1>4. HasOneOpenTurn(acc)
  BY <1>1, <1>2 DEF HasOneOpenTurn, OpenTurns
<1>5. AccInv(acc, <<>>)
  BY <1>1, <1>2, <1>3, <1>4 DEF AccInv
<1>6. OpenStarts(<<>>, hidden) = {} /\ CleanTurns(<<>>, hidden) = {}
  BY DEF OpenStarts, CleanTurns
<1>7. Windows(acc.turns, "closed") = {}
  <2>1. Snapshots(acc.turns, "closed") = {}
    BY <1>2 DEF Snapshots
  <2> QED BY <2>1 DEF Windows
<1>8. CutInv(acc, <<>>, hidden)
  BY <1>1, <1>6, <1>7 DEF CutInv
<1> QED BY <1>5, <1>8 DEF FeedInv, acc

\* During the read, the invariants of the two feeds give the properties.
LEMMA ReadingFacts ==
  ASSUME NEW S, NEW str \in Seq(S), NEW f, NEW k,
         FeedInv(f, str, {}), FeedInv(k, str, {"drift"})
  PROVE  /\ IsAccumulator(f) /\ IsAccumulator(k)
         /\ HasOneOpenTurn(f) /\ HasOneOpenTurn(k)
         /\ Windows(f.turns, "closed") = CleanTurns(str, {})
         /\ {w \in Windows(k.turns, "closed") :
               ~\E d \in DriftOf(str) : w[1] < d /\ (w[2] = 0 \/ d < w[2])} =
              Windows(f.turns, "closed")
<1>1. /\ Windows(f.turns, "closed") = CleanTurns(str, {})
      /\ Windows(k.turns, "closed") = CleanTurns(str, {"drift"})
  BY DEF FeedInv, CutInv
<1>2. {w \in Windows(k.turns, "closed") :
         ~\E d \in DriftOf(str) : w[1] < d /\ (w[2] = 0 \/ d < w[2])} =
        Windows(f.turns, "closed")
  BY <1>1, DriftCut
<1> QED BY <1>1, <1>2 DEF FeedInv, AccInv

\* After the read, they give the same, and agree on the turn left open.
LEMMA FinishedFacts ==
  ASSUME NEW S, NEW str \in Seq(S), NEW f, NEW k,
         FeedInv(f, str, {}), FeedInv(k, str, {"drift"})
  PROVE  LET drift == DriftOf(str)
             f2 == Finish(f, drift)
             k2 == Finish(k, drift)
         IN /\ IsAccumulator(f2) /\ IsAccumulator(k2)
            /\ HasOneOpenTurn(f2) /\ HasOneOpenTurn(k2)
            /\ Windows(f2.turns, "closed") = CleanTurns(str, {})
            /\ {w \in Windows(k2.turns, "closed") :
                  ~\E d \in drift : w[1] < d /\ (w[2] = 0 \/ d < w[2])} =
                 Windows(f2.turns, "closed")
            /\ {w \in Windows(k2.turns, "open") :
                  ~\E d \in drift : w[1] < d /\ (w[2] = 0 \/ d < w[2])} =
                 Windows(f2.turns, "open")
<1> DEFINE drift == DriftOf(str)
           f2 == Finish(f, drift)
           k2 == Finish(k, drift)
           cut(W) == {w \in W : ~\E d \in drift : w[1] < d /\ (w[2] = 0 \/ d < w[2])}
           late(acc) == \E d \in drift : d > Current(acc).startLine
           openStart(acc) == IF acc.current # 0 /\ Clean(Current(acc))
                             THEN {Current(acc).startLine} ELSE {}
           openWindow(acc) == IF acc.current # 0 /\ Clean(Current(acc)) /\ ~late(acc)
                              THEN {<<Current(acc).startLine, 0>>} ELSE {}
<1>1. /\ drift \in SUBSET Nat
      /\ OpenStarts(str, {}) = {s \in OpenStarts(str, {"drift"}) : ~\E d \in drift : d > s}
  BY DriftCut
<1>2. AccInv(f, str) /\ AccInv(k, str)
  BY DEF FeedInv
<1>3. /\ IsAccumulator(f2) /\ IsAccumulator(k2)
      /\ HasOneOpenTurn(f2) /\ HasOneOpenTurn(k2)
  BY <1>1, <1>2, FinishEffect
<1>4. /\ Windows(f2.turns, "closed") = Windows(f.turns, "closed")
      /\ Windows(k2.turns, "closed") = Windows(k.turns, "closed")
      /\ Windows(f2.turns, "open") = openWindow(f)
      /\ Windows(k2.turns, "open") = openWindow(k)
  BY <1>1, <1>2, FinishWindows
<1>5. /\ Windows(f.turns, "closed") = CleanTurns(str, {})
      /\ cut(Windows(k.turns, "closed")) = Windows(f.turns, "closed")
  BY ReadingFacts
<1>6. /\ OpenStarts(str, {}) = openStart(f)
      /\ OpenStarts(str, {"drift"}) = openStart(k)
  BY DEF FeedInv, CutInv
<1> HIDE DEF drift, f2, k2
<1>7. openStart(f) = {s \in openStart(k) : ~\E d \in drift : d > s}
  BY <1>1, <1>6
<1>8. cut(openWindow(k)) = openWindow(f)
  <2>1. openWindow(f) = {<<s, 0>> : s \in {x \in openStart(f) : ~\E d \in drift : d > x}}
    <3>1. CASE f.current # 0 /\ Clean(Current(f))
      BY <3>1
    <3>2. CASE ~(f.current # 0 /\ Clean(Current(f)))
      BY <3>2
    <3> QED BY <3>1, <3>2
  <2>2. openWindow(k) = {<<s, 0>> : s \in {x \in openStart(k) : ~\E d \in drift : d > x}}
    <3>1. CASE k.current # 0 /\ Clean(Current(k))
      BY <3>1
    <3>2. CASE ~(k.current # 0 /\ Clean(Current(k)))
      BY <3>2
    <3> QED BY <3>1, <3>2
  <2>3. {x \in openStart(f) : ~\E d \in drift : d > x} =
          {x \in openStart(k) : ~\E d \in drift : d > x}
    BY <1>7
  <2>4. openWindow(f) = openWindow(k)
    BY <2>1, <2>2, <2>3
  <2>5. \A w \in openWindow(k) : ~\E d \in drift : w[1] < d /\ (w[2] = 0 \/ d < w[2])
    <3>1. CASE /\ k.current # 0 /\ Clean(Current(k)) /\ ~late(k)
      <4>1. Current(k).startLine \in Nat
        BY <1>2, <3>1, CurrentFacts DEF Turns
      <4> QED BY <1>1, <3>1, <4>1
    <3>2. CASE ~(k.current # 0 /\ Clean(Current(k)) /\ ~late(k))
      BY <3>2
    <3> QED BY <3>1, <3>2
  <2> HIDE DEF openWindow
  <2> QED BY <2>4, <2>5
<1> HIDE DEF openWindow, openStart, late
<1>9. /\ cut(Windows(k2.turns, "closed")) = Windows(f2.turns, "closed")
      /\ cut(Windows(k2.turns, "open")) = Windows(f2.turns, "open")
  BY <1>4, <1>5, <1>8
<1> QED BY <1>3, <1>4, <1>5, <1>9 DEF drift, f2, k2

-----------------------------------------------------------------------------
(***************************************************************************)
(* The activity of the last turn.                                          *)
(***************************************************************************)

\* Some line of a stream after a given one is not quiet.
LoudAfter(str, line) == \E k \in DOMAIN str : k > line /\ ~Quiet(str[k])

LEMMA TailFacts ==
  ASSUME NEW acc, NEW str
  PROVE  TailInv(acc, str) <=>
           /\ acc.current \in {0, Len(acc.turns)}
           /\ Len(acc.turns) = 0 => ~LoudAfter(str, 0)
           /\ Len(acc.turns) # 0 /\ acc.current = 0 =>
                /\ acc.turns[Len(acc.turns)].terminalLine \in 0 .. Len(str)
                /\ ~LoudAfter(str, acc.turns[Len(acc.turns)].terminalLine)
           /\ \A k \in 1 .. Len(acc.turns) - 1 : LoudAfter(str, acc.turns[k].terminalLine)
  BY DEF TailInv, LoudAfter

LEMMA LoudAppend ==
  ASSUME NEW S, NEW str \in Seq(S), NEW r \in S, NEW line
  PROVE  /\ LoudAfter(str, line) => LoudAfter(Append(str, r), line)
         /\ LoudAfter(Append(str, r), line) =>
              LoudAfter(str, line) \/ (Len(str) + 1 > line /\ ~Quiet(r))
         /\ Len(str) + 1 > line /\ ~Quiet(r) => LoudAfter(Append(str, r), line)
<1> DEFINE str2 == Append(str, r)
<1>1. /\ DOMAIN str = 1 .. Len(str) /\ Len(str) \in Nat
      /\ DOMAIN str2 = 1 .. Len(str) + 1
      /\ \A j \in DOMAIN str : str2[j] = str[j]
      /\ str2[Len(str) + 1] = r
  BY Appended
<1> HIDE DEF str2
<1>2. \A j \in DOMAIN str2 : j \in DOMAIN str \/ j = Len(str) + 1
  BY <1>1
<1>3. DOMAIN str \subseteq DOMAIN str2 /\ Len(str) + 1 \in DOMAIN str2
  BY <1>1
<1> QED BY <1>1, <1>2, <1>3 DEF LoudAfter, str2

LEMMA TailInit == TailInv(EmptyAccumulator, <<>>)
<1>1. EmptyAccumulator.turns = <<>> /\ EmptyAccumulator.current = 0
  BY DEF EmptyAccumulator
<1>2. ~LoudAfter(<<>>, 0)
  BY DEF LoudAfter
<1> QED BY <1>1, <1>2, TailFacts

\* One more record: a new turn is begun only by a line that is not quiet,
\* and a quiet line alone may follow a turn that is over.
LEMMA TailPreserved ==
  ASSUME NEW S, RecordSet(S), NEW str \in Seq(S), NEW r \in S, NEW acc,
         FeedInv(acc, str, {}), TailInv(acc, str)
  PROVE  TailInv(Push(acc, Len(str) + 1, r), Append(str, r))
<1> DEFINE acc2 == Push(acc, Len(str) + 1, r)
           str2 == Append(str, r)
           n == Len(acc.turns)
           n2 == Len(acc2.turns)
<1>1. \/ acc2 = acc /\ (Quiet(r) \/ InTurn(acc))
      \/ SpoilsCurrent(acc, acc2)
      \/ BeginsUnbound(acc, acc2) /\ ~Quiet(r)
      \/ IsStart(r) /\ BeginsTurn(acc, acc2, Len(str) + 1, r.id)
      \/ ClosesCurrent(acc, acc2, Len(str) + 1)
  BY PushEffects
<1>2. /\ n \in Nat /\ DOMAIN acc.turns = 1 .. n
      /\ acc.current = 0 => ~InTurn(acc)
      /\ acc.current # 0 => Current(acc).terminalLine = 0
  BY CurrentFacts DEF FeedInv, AccInv
<1>3. /\ Len(str) \in Nat /\ Len(str2) = Len(str) + 1
  BY Appended
<1>4. /\ acc.current \in {0, n}
      /\ n = 0 => ~LoudAfter(str, 0)
      /\ n # 0 /\ acc.current = 0 =>
           /\ acc.turns[n].terminalLine \in 0 .. Len(str)
           /\ ~LoudAfter(str, acc.turns[n].terminalLine)
      /\ \A k \in 1 .. n - 1 : LoudAfter(str, acc.turns[k].terminalLine)
  BY TailFacts
<1>5. /\ \A line : LoudAfter(str, line) => LoudAfter(str2, line)
      /\ \A line : LoudAfter(str2, line) =>
           LoudAfter(str, line) \/ (Len(str) + 1 > line /\ ~Quiet(r))
      /\ \A line : Len(str) + 1 > line /\ ~Quiet(r) => LoudAfter(str2, line)
  BY LoudAppend
<1>6. IsAccumulator(acc2) => n2 \in Nat /\ DOMAIN acc2.turns = 1 .. n2
  BY DEF IsAccumulator
<1> HIDE DEF acc2, str2
<1> SUFFICES
      /\ acc2.current \in {0, n2}
      /\ n2 = 0 => ~LoudAfter(str2, 0)
      /\ n2 # 0 /\ acc2.current = 0 =>
           /\ acc2.turns[n2].terminalLine \in 0 .. Len(str2)
           /\ ~LoudAfter(str2, acc2.turns[n2].terminalLine)
      /\ \A k \in 1 .. n2 - 1 : LoudAfter(str2, acc2.turns[k].terminalLine)
  BY TailFacts DEF acc2, str2
<1>7. CASE acc2 = acc /\ (Quiet(r) \/ InTurn(acc))
  <2>1. n2 = n /\ acc2.current = acc.current
    BY <1>7
  <2>2. acc.current = 0 => Quiet(r)
    BY <1>2, <1>7
  <2>3. n = 0 => acc.current = 0
    BY <1>4
  <2> QED BY <1>2, <1>3, <1>4, <1>5, <1>7, <2>1, <2>2, <2>3
<1>8. CASE SpoilsCurrent(acc, acc2)
  <2>1. /\ acc2.current = acc.current /\ acc.current = n /\ n # 0 /\ n2 = n
        /\ \A k \in 1 .. n - 1 : acc2.turns[k] = acc.turns[k]
    BY <1>2, <1>4, <1>6, <1>8 DEF SpoilsCurrent, SameTurnsExcept
  <2> QED BY <1>4, <1>5, <2>1
<1>9. CASE (BeginsUnbound(acc, acc2) /\ ~Quiet(r))
           \/ (IsStart(r) /\ BeginsTurn(acc, acc2, Len(str) + 1, r.id))
  <2>1. ~Quiet(r)
    BY <1>9 DEF IsStart, Quiet, IsTerminal, TerminalKinds
  <2>2. /\ acc2.current = n + 1 /\ n2 = n + 1
        /\ \A k \in 1 .. n : acc2.turns[k].terminalLine = acc.turns[k].terminalLine
    <3>1. /\ IsAccumulator(acc2) /\ acc2.current = n + 1
          /\ DOMAIN acc2.turns = 1 .. n + 1
      BY <1>9 DEF BeginsUnbound, BeginsTurn
    <3>2. n2 = n + 1
      BY <1>2, <1>6, <3>1
    <3>3. \A k \in DOMAIN acc.turns : acc2.turns[k].terminalLine = acc.turns[k].terminalLine
      BY <1>9 DEF BeginsUnbound, BeginsTurn
    <3> QED BY <1>2, <3>1, <3>2, <3>3
  <2>3. n # 0 => acc.turns[n].terminalLine \in 0 .. Len(str)
    BY <1>2, <1>3, <1>4 DEF Current
  <2>4. n # 0 => LoudAfter(str2, acc.turns[n].terminalLine)
    BY <1>3, <1>5, <2>1, <2>3
  <2>5. \A k \in 1 .. n : LoudAfter(str2, acc2.turns[k].terminalLine)
    BY <1>2, <1>4, <1>5, <2>2, <2>4
  <2> QED BY <1>2, <2>2, <2>5
<1>10. CASE ClosesCurrent(acc, acc2, Len(str) + 1)
  <2>1. /\ acc2.current = 0 /\ acc.current = n /\ n # 0 /\ n2 = n
        /\ \A k \in 1 .. n - 1 : acc2.turns[k] = acc.turns[k]
        /\ acc2.turns[n].terminalLine = Len(str) + 1
    <3>1. /\ acc2.current = 0 /\ acc.current # 0 /\ SameTurnsExcept(acc, acc2, acc.current)
          /\ acc2.turns[acc.current].terminalLine = Len(str) + 1
      BY <1>10 DEF ClosesCurrent
    <3>2. acc.current = n /\ n # 0
      BY <1>4, <3>1
    <3>3. n2 = n
      BY <1>2, <1>6, <3>1 DEF SameTurnsExcept
    <3>4. \A k \in 1 .. n - 1 : acc2.turns[k] = acc.turns[k]
      BY <1>2, <3>1, <3>2 DEF SameTurnsExcept
    <3> QED BY <3>1, <3>2, <3>3, <3>4
  <2>2. ~LoudAfter(str2, Len(str) + 1)
    BY <1>3, Appended DEF LoudAfter, str2
  <2> QED BY <1>3, <1>4, <1>5, <2>1, <2>2
<1> QED BY <1>1, <1>7, <1>8, <1>9, <1>10

\* At the end of the stream, the activity of the last turn is what the
\* stream as a whole says of the thread.
LEMMA ActivityFacts ==
  ASSUME NEW S, NEW str \in Seq(S), NEW acc, FeedInv(acc, str, {}), TailInv(acc, str)
  PROVE  LET activity == LatestActivity(Finish(acc, DriftOf(str)).turns)
         IN /\ activity = "closed" <=> IdleAfter(str)
            /\ activity = "open" <=> OpenStarts(str, {}) # {}
<1> DEFINE n == Len(acc.turns)
           drift == DriftOf(str)
           turns2 == Finish(acc, drift).turns
           activity == LatestActivity(turns2)
<1>1. /\ n \in Nat /\ DOMAIN acc.turns = 1 .. n
      /\ acc.current # 0 => acc.current \in DOMAIN acc.turns /\ ~acc.turns[acc.current].emitted
      /\ \A k \in DOMAIN acc.turns : k # acc.current => acc.turns[k].emitted
      /\ \A k \in DOMAIN acc.turns : acc.turns[k].emitted =>
           acc.turns[k].superseded \/ acc.turns[k].terminal # "none"
      /\ AccInv(acc, str)
  BY CurrentFacts DEF FeedInv, AccInv, Current
<1>2. /\ acc.current \in {0, n}
      /\ n # 0 /\ acc.current = 0 =>
           /\ acc.turns[n].terminalLine \in 0 .. Len(str)
           /\ ~LoudAfter(str, acc.turns[n].terminalLine)
      /\ \A k \in 1 .. n - 1 : LoudAfter(str, acc.turns[k].terminalLine)
  BY TailFacts
<1>3. /\ drift \in SUBSET Nat
      /\ OpenStarts(str, {}) = {s \in OpenStarts(str, {"drift"}) : ~\E d \in drift : d > s}
  BY DriftCut
<1>4. /\ IsAccumulator(Finish(acc, drift))
      /\ DOMAIN turns2 = DOMAIN acc.turns
      /\ \A k \in DOMAIN acc.turns : k # acc.current => turns2[k] = acc.turns[k]
      /\ acc.current # 0 =>
           /\ turns2[acc.current].terminal = "none"
           /\ ~turns2[acc.current].superseded
           /\ Clean(turns2[acc.current]) <=> /\ Clean(Current(acc))
                                             /\ ~\E d \in drift : d > Current(acc).startLine
  BY <1>1, <1>3, FinishEffect
<1>5. /\ OpenStarts(str, {}) =
           IF acc.current # 0 /\ Clean(Current(acc)) THEN {Current(acc).startLine} ELSE {}
      /\ Windows(acc.turns, "closed") = CleanTurns(str, {})
  BY DEF FeedInv, CutInv
<1> HIDE DEF drift, turns2
<1>6. Len(turns2) = n /\ (turns2 = <<>> <=> n = 0)
  <2>1. turns2 \in Seq(Turns)
    BY <1>4 DEF IsAccumulator, turns2
  <2> QED BY <1>1, <1>4, <2>1
<1>7. activity = IF n = 0 THEN "ambiguous" ELSE Activity(turns2[n])
  BY <1>6 DEF LatestActivity
<1>8. Len(str) \in Nat /\ DOMAIN str = 1 .. Len(str)
  OBVIOUS
<1> HIDE DEF n, activity
<1>9. ASSUME activity = "closed"
      PROVE  IdleAfter(str)
  <2>1. n # 0 /\ Activity(turns2[n]) = "closed"
    BY <1>7, <1>9
  <2>2. turns2[n].terminal # "none"
    BY <2>1 DEF Activity
  <2>3. acc.current = 0 /\ n \in DOMAIN acc.turns
    BY <1>1, <1>2, <1>4, <2>1, <2>2
  <2>4. acc.turns[n].emitted /\ Activity(acc.turns[n]) = "closed"
    BY <1>1, <1>4, <2>1, <2>3
  <2>5. acc.turns[n] \in Snapshots(acc.turns, "closed")
    BY <2>3, <2>4 DEF Snapshots
  <2> DEFINE w == <<acc.turns[n].startLine, acc.turns[n].terminalLine>>
  <2>6. w \in CleanTurns(str, {})
    BY <1>5, <2>5 DEF Windows
  <2>7. w[2] = acc.turns[n].terminalLine
    OBVIOUS
  <2>8. w[2] \in DOMAIN str
    BY <2>6 DEF CleanTurns
  <2> HIDE DEF w
  <2>9. \A k \in w[2] + 1 .. Len(str) : k \in DOMAIN str /\ k > w[2]
    BY <1>8, <2>8
  <2>10. ~LoudAfter(str, w[2])
    BY <1>2, <2>1, <2>3, <2>7
  <2>11. \A k \in w[2] + 1 .. Len(str) : Quiet(str[k])
    BY <2>9, <2>10 DEF LoudAfter
  <2> QED BY <2>6, <2>11 DEF IdleAfter
<1>10. ASSUME IdleAfter(str)
       PROVE  activity = "closed"
  <2>1. PICK w \in CleanTurns(str, {}) : \A k \in w[2] + 1 .. Len(str) : Quiet(str[k])
    BY <1>10 DEF IdleAfter
  <2>2. PICK k \in DOMAIN acc.turns :
          /\ acc.turns[k].emitted /\ Activity(acc.turns[k]) = "closed"
          /\ w = <<acc.turns[k].startLine, acc.turns[k].terminalLine>>
    BY <1>5, <2>1 DEF Windows, Snapshots
  <2>3. w[2] \in DOMAIN str /\ w[2] = acc.turns[k].terminalLine
    BY <2>1, <2>2 DEF CleanTurns
  <2>4. \A j \in DOMAIN str : j > w[2] => j \in w[2] + 1 .. Len(str)
    BY <1>8, <2>3
  <2>5. ~LoudAfter(str, acc.turns[k].terminalLine)
    BY <2>1, <2>3, <2>4 DEF LoudAfter
  <2>6. k = n
    BY <1>1, <1>2, <2>5
  <2>7. k # acc.current
    BY <1>1, <2>2
  <2>8. turns2[n] = acc.turns[n] /\ n # 0
    BY <1>1, <1>4, <2>6, <2>7
  <2> QED BY <1>7, <2>2, <2>6, <2>8
<1>11. ASSUME activity = "open"
       PROVE  OpenStarts(str, {}) # {}
  <2>1. n # 0 /\ Activity(turns2[n]) = "open"
    BY <1>7, <1>11
  <2>2. /\ turns2[n].terminal = "none" /\ ~turns2[n].superseded /\ Clean(turns2[n])
    BY <2>1 DEF Activity, Clean
  <2>3. n \in DOMAIN acc.turns
    BY <1>1, <2>1
  <2>4. acc.current = n
    BY <1>1, <1>4, <2>2, <2>3
  <2> QED BY <1>4, <1>5, <2>1, <2>2, <2>4
<1>12. ASSUME OpenStarts(str, {}) # {}
       PROVE  activity = "open"
  <2>1. /\ acc.current # 0 /\ Clean(Current(acc))
        /\ Current(acc).startLine \in OpenStarts(str, {})
    BY <1>5, <1>12
  <2>2. ~\E d \in drift : d > Current(acc).startLine
    BY <1>3, <2>1
  <2>3. acc.current = n /\ n # 0
    BY <1>2, <2>1
  <2>4. /\ turns2[n].terminal = "none" /\ ~turns2[n].superseded /\ Clean(turns2[n])
    BY <1>4, <2>1, <2>2, <2>3
  <2> QED BY <1>7, <2>3, <2>4 DEF Activity, Clean
<1> QED BY <1>9, <1>10, <1>11, <1>12 DEF activity, turns2, drift

-----------------------------------------------------------------------------
(***************************************************************************)
(* The accumulator after a whole stream.                                   *)
(***************************************************************************)

\* The induction used below: a set of numbers that has 0, and with a number
\* its successor up to a bound, has all of them.
LEMMA UpTo ==
  ASSUME NEW L \in Nat, NEW Good, 0 \in Good,
         \A n \in 1 .. L : n - 1 \in Good => n \in Good
  PROVE  \A n \in 0 .. L : n \in Good
<1> DEFINE bad == {n \in 0 .. L : n \notin Good}
<1> SUFFICES ASSUME bad # {} PROVE FALSE
  OBVIOUS
<1>1. bad \subseteq Nat
  OBVIOUS
<1>2. PICK x \in bad : \A y \in bad : ~ (<<y, x>> \in OpToRel(<, Nat))
  BY <1>1, NatLessThanWellFounded, WFMin
<1>3. \A y \in bad : ~ (y < x)
  BY <1>1, <1>2 DEF OpToRel
<1>4. x \in 1 .. L
  OBVIOUS
<1>5. x - 1 \notin Good
  BY <1>4
<1>6. x - 1 \in bad /\ x - 1 < x
  BY <1>4, <1>5
<1> QED BY <1>3, <1>6

\* The recursion that Fed is defined by has a solution.
LEMMA FoldExists ==
  ASSUME NEW str, Len(str) \in Nat
  PROVE  \E f : f = [n \in 0 .. Len(str) |->
                       IF n = 0 THEN EmptyAccumulator ELSE Push(f[n - 1], n, str[n])]
<1> DEFINE step(f, m) == [n \in 0 .. m |->
                            IF n = 0 THEN EmptyAccumulator ELSE Push(f[n - 1], n, str[n])]
           Good == {m \in Nat : \E f : f = step(f, m)}
<1>1. 0 \in Good
  <2> DEFINE f == [n \in 0 .. 0 |-> EmptyAccumulator]
  <2>1. \A n \in 0 .. 0 : n = 0
    OBVIOUS
  <2>2. f = step(f, 0)
    BY <2>1
  <2> QED BY <2>2
<1>2. ASSUME NEW m \in 1 .. Len(str), m - 1 \in Good
      PROVE  m \in Good
  <2>1. PICK f : f = step(f, m - 1)
    BY <1>2
  <2> DEFINE g == [n \in 0 .. m |-> IF n = m THEN Push(f[m - 1], m, str[m]) ELSE f[n]]
  <2>2. \A n \in 0 .. m - 1 :
          f[n] = IF n = 0 THEN EmptyAccumulator ELSE Push(f[n - 1], n, str[n])
    BY <2>1
  <2>3. \A n \in 0 .. m - 1 : g[n] = f[n]
    BY <1>2
  <2>4. g[m] = Push(f[m - 1], m, str[m])
    BY <1>2
  <2>5. ASSUME NEW n \in 0 .. m
        PROVE  g[n] = IF n = 0 THEN EmptyAccumulator ELSE Push(g[n - 1], n, str[n])
    <3> HIDE DEF g
    <3>1. CASE n = m
      <4>1. m # 0 /\ m - 1 \in 0 .. m - 1
        BY <1>2
      <4> QED BY <2>3, <2>4, <3>1, <4>1
    <3>2. CASE n # m
      <4>1. n \in 0 .. m - 1 /\ (n # 0 => n - 1 \in 0 .. m - 1)
        BY <1>2, <3>2
      <4> QED BY <2>2, <2>3, <4>1
    <3> QED BY <3>1, <3>2
  <2>6. g = step(g, m)
    BY <2>5
  <2>7. \E h : h = step(h, m)
    <3> HIDE DEF g, step
    <3> QED BY <2>6
  <2>8. m \in Nat
    BY <1>2
  <2> QED BY <2>7, <2>8
<1>3. \A m \in 0 .. Len(str) : m \in Good
  <2> HIDE DEF Good
  <2> QED BY <1>1, <1>2, UpTo
<1>4. Len(str) \in Good
  BY <1>3
<1> QED BY <1>4

LEMMA FedUnfolds ==
  ASSUME NEW S, NEW str \in Seq(S)
  PROVE  \E f : /\ f[0] = EmptyAccumulator
                /\ \A n \in 1 .. Len(str) : f[n] = Push(f[n - 1], n, str[n])
                /\ Fed(str) = f[Len(str)]
<1> DEFINE F == CHOOSE f : f = [n \in 0 .. Len(str) |->
                  IF n = 0 THEN EmptyAccumulator ELSE Push(f[n - 1], n, str[n])]
<1>1. Len(str) \in Nat
  OBVIOUS
<1>2. F = [n \in 0 .. Len(str) |->
             IF n = 0 THEN EmptyAccumulator ELSE Push(F[n - 1], n, str[n])]
  BY <1>1, FoldExists
<1>3. Fed(str) = F[Len(str)]
  BY DEF Fed
<1> HIDE DEF F
<1>4. F[0] = EmptyAccumulator
  BY <1>1, <1>2
<1>5. \A n \in 1 .. Len(str) : F[n] = Push(F[n - 1], n, str[n])
  BY <1>1, <1>2
<1> QED BY <1>3, <1>4, <1>5

LEMMA PrefixFacts ==
  ASSUME NEW S, NEW str \in Seq(S)
  PROVE  /\ SubSeq(str, 1, 0) = <<>> /\ SubSeq(str, 1, Len(str)) = str
         /\ \A n \in 1 .. Len(str) :
              /\ SubSeq(str, 1, n - 1) \in Seq(S) /\ Len(SubSeq(str, 1, n - 1)) + 1 = n
              /\ str[n] \in S
              /\ SubSeq(str, 1, n) = Append(SubSeq(str, 1, n - 1), str[n])
<1>1. SubSeq(str, 1, 0) = <<>> /\ SubSeq(str, 1, Len(str)) = str
  OBVIOUS
<1>2. ASSUME NEW n \in 1 .. Len(str)
      PROVE  /\ SubSeq(str, 1, n - 1) \in Seq(S) /\ Len(SubSeq(str, 1, n - 1)) + 1 = n
             /\ str[n] \in S
             /\ SubSeq(str, 1, n) = Append(SubSeq(str, 1, n - 1), str[n])
  OBVIOUS
<1> QED BY <1>1, <1>2

LEMMA FedFacts ==
  ASSUME NEW S, RecordSet(S), NEW str \in Seq(S)
  PROVE  FeedInv(Fed(str), str, {}) /\ TailInv(Fed(str), str)
<1> DEFINE P(f, n) == FeedInv(f[n], SubSeq(str, 1, n), {}) /\ TailInv(f[n], SubSeq(str, 1, n))
<1>1. PICK f : /\ f[0] = EmptyAccumulator
               /\ \A n \in 1 .. Len(str) : f[n] = Push(f[n - 1], n, str[n])
               /\ Fed(str) = f[Len(str)]
  BY FedUnfolds
<1>2. Len(str) \in Nat
  OBVIOUS
<1>3. /\ SubSeq(str, 1, 0) = <<>> /\ SubSeq(str, 1, Len(str)) = str
      /\ \A n \in 1 .. Len(str) :
           /\ SubSeq(str, 1, n - 1) \in Seq(S) /\ Len(SubSeq(str, 1, n - 1)) + 1 = n
           /\ str[n] \in S
           /\ SubSeq(str, 1, n) = Append(SubSeq(str, 1, n - 1), str[n])
  BY PrefixFacts
<1>4. P(f, 0)
  BY <1>1, <1>3, FeedInvInit, TailInit
<1>5. ASSUME NEW n \in 1 .. Len(str), P(f, n - 1)
      PROVE  P(f, n)
  <2> DEFINE pre == SubSeq(str, 1, n - 1)
             acc == f[n - 1]
  <2>1. /\ pre \in Seq(S) /\ Len(pre) + 1 = n /\ str[n] \in S
        /\ SubSeq(str, 1, n) = Append(pre, str[n])
        /\ f[n] = Push(acc, n, str[n])
    BY <1>1, <1>3
  <2>2. FeedInv(acc, pre, {}) /\ TailInv(acc, pre)
    BY <1>5
  <2> HIDE DEF pre, acc
  <2>3. FeedInv(Push(acc, Len(pre) + 1, str[n]), Append(pre, str[n]), {})
    BY <2>1, <2>2, PushPreserves
  <2>4. TailInv(Push(acc, Len(pre) + 1, str[n]), Append(pre, str[n]))
    BY <2>1, <2>2, TailPreserved
  <2> QED BY <2>1, <2>3, <2>4
<1> HIDE DEF P
<1>6. \A n \in 0 .. Len(str) : P(f, n)
  <2> DEFINE Good == {n \in Nat : P(f, n)}
  <2>1. 0 \in Good
    BY <1>4
  <2>2. \A n \in 1 .. Len(str) : n - 1 \in Good => n \in Good
    BY <1>5
  <2> HIDE DEF Good
  <2>3. \A n \in 0 .. Len(str) : n \in Good
    BY <1>2, <2>1, <2>2, UpTo
  <2> QED BY <2>3 DEF Good
<1>7. P(f, Len(str))
  BY <1>2, <1>6
<1> QED BY <1>1, <1>3, <1>7 DEF P

\* What the activity of the last turn of a whole stream says.
LEMMA FedActivity ==
  ASSUME NEW S, RecordSet(S), NEW str \in Seq(S)
  PROVE  LET activity == LatestActivity(Finish(Fed(str), DriftOf(str)).turns)
         IN /\ activity = "closed" <=> IdleAfter(str)
            /\ activity = "open" <=> OpenStarts(str, {}) # {}
BY FedFacts, ActivityFacts

-----------------------------------------------------------------------------
(***************************************************************************)
(* The mode and the terminal record of a turn.                             *)
(***************************************************************************)

\* A turn has the mode of a turn id if and only if it has one.
LEMMA ModePreserved ==
  ASSUME NEW S, RecordSet(S), NEW str \in Seq(S), NEW r \in S, NEW acc, AccInv(acc, str),
         \A k \in DOMAIN acc.turns : acc.turns[k].mode = "turn-id" <=> acc.turns[k].turnId # NoId
  PROVE  LET acc2 == Push(acc, Len(str) + 1, r)
         IN \A k \in DOMAIN acc2.turns :
              acc2.turns[k].mode = "turn-id" <=> acc2.turns[k].turnId # NoId
<1> DEFINE Kept(acc2) == \A k \in DOMAIN acc2.turns :
                           acc2.turns[k].mode = "turn-id" <=> acc2.turns[k].turnId # NoId
           line == Len(str) + 1
<1>1. /\ acc.turns \in Seq(Turns) /\ Len(acc.turns) \in Nat
      /\ DOMAIN acc.turns = 1 .. Len(acc.turns)
      /\ acc.current \in 0 .. Len(acc.turns)
  BY CurrentFacts
<1>2. ASSUME NEW turn \in Turns, turn.mode = "turn-id" <=> turn.turnId # NoId,
             NEW any, any.turns \in Seq(Turns), Kept(any)
      PROVE  Kept(Begin(any, turn))
  BY <1>2 DEF Begin
<1>3. ASSUME NEW c \in DOMAIN acc.turns, NEW turn,
             turn.mode = acc.turns[c].mode, turn.turnId = acc.turns[c].turnId
      PROVE  Kept(WithTurn(acc, c, turn))
  BY <1>3 DEF WithTurn
<1>4. acc.current # 0 => acc.current \in DOMAIN acc.turns
  BY <1>1
<1>15. acc.current # 0 => Current(acc) \in Turns
  BY CurrentFacts
<1>5. Kept(acc) /\ acc.turns \in Seq(Turns)
  BY <1>1
<1> HIDE DEF Kept
<1>6. \A code : acc.current # 0 => Kept(AddError(acc, code))
  <2> SUFFICES ASSUME NEW code, acc.current # 0 PROVE Kept(AddError(acc, code))
    OBVIOUS
  <2> DEFINE turn == [Current(acc) EXCEPT !.errors = @ \cup {code}]
  <2>1. turn.mode = Current(acc).mode /\ turn.turnId = Current(acc).turnId
    BY <1>15 DEF Turns
  <2> HIDE DEF turn
  <2>2. Kept(WithTurn(acc, acc.current, turn))
    BY <1>3, <1>4, <2>1 DEF Current
  <2> QED BY <2>2 DEF AddError, turn
<1>7. line \in Nat
  OBVIOUS
<1>8. Kept(PushGap(acc, line))
  <2>1. CASE InTurn(acc)
    <3> DEFINE turn == [Current(acc) EXCEPT !.parseGap = TRUE]
    <3>1. turn.mode = Current(acc).mode /\ turn.turnId = Current(acc).turnId
      BY <1>15, <2>1 DEF InTurn, Turns
    <3> HIDE DEF turn
    <3>2. Kept(WithTurn(acc, acc.current, turn))
      BY <1>3, <1>4, <2>1, <3>1 DEF InTurn, Current
    <3> QED BY <2>1, <3>2 DEF PushGap, turn
  <2>2. CASE ~InTurn(acc)
    <3> DEFINE turn == [NewTurn(NoId, "unbound", line) EXCEPT !.parseGap = TRUE]
    <3>1. turn \in Turns
      BY <1>7, UnboundTurns
    <3>2. turn.mode = "unbound" /\ turn.turnId = NoId
      BY DEF NewTurn
    <3> HIDE DEF turn
    <3>3. Kept(Begin(acc, turn))
      BY <1>2, <1>5, <3>1, <3>2
    <3> QED BY <2>2, <3>3 DEF PushGap, turn
  <2> QED BY <2>1, <2>2
<1>9. r.id \in TurnIds \cup {NoId} => Kept(PushStart(acc, line, r.id))
  <2> SUFFICES ASSUME r.id \in TurnIds \cup {NoId} PROVE Kept(PushStart(acc, line, r.id))
    OBVIOUS
  <2> DEFINE before == Supersede(acc)
             turn == NewTurn(r.id, IF r.id = NoId THEN "ordered-fallback" ELSE "turn-id", line)
  <2>1. Kept(before) /\ before.turns \in Seq(Turns)
    <3>1. CASE InTurn(acc)
      <4> DEFINE old == [Current(acc) EXCEPT !.superseded = TRUE, !.emitted = TRUE]
      <4>1. acc.current \in DOMAIN acc.turns
        BY <1>4, <3>1 DEF InTurn
      <4>2. old \in Turns /\ old.mode = acc.turns[acc.current].mode
            /\ old.turnId = acc.turns[acc.current].turnId
        BY <1>15, <3>1 DEF InTurn, Current, Turns
      <4>3. before = WithTurn(acc, acc.current, old)
        BY <3>1 DEF Supersede
      <4> HIDE DEF old, before
      <4>4. before.turns \in Seq(Turns)
        BY <1>1, <4>1, <4>2, <4>3 DEF WithTurn
      <4> QED BY <1>3, <4>1, <4>2, <4>3, <4>4
    <3>2. CASE ~InTurn(acc)
      BY <1>5, <3>2 DEF Supersede
    <3> QED BY <3>1, <3>2
  <2>2. turn \in Turns /\ (turn.mode = "turn-id" <=> turn.turnId # NoId)
    BY <1>7 DEF NewTurn, Turns, Modes
  <2> HIDE DEF before, turn
  <2>3. Kept(Begin(before, turn))
    BY <1>2, <2>1, <2>2
  <2>4. PushStart(acc, line, r.id).turns = Begin(before, turn).turns
    BY DEF PushStart, before, turn
  <2> QED BY <2>3, <2>4 DEF Kept
<1>10. Kept(PushUser(acc, line, r.id))
  <2>1. CASE Disagrees(acc, r.id)
    <3>1. PushUser(acc, line, r.id) = AddError(acc, "user-message-turn-id-mismatch")
      BY <2>1, PushUserCases
    <3>2. acc.current # 0
      BY <2>1 DEF Disagrees, InTurn
    <3> QED BY <1>6, <3>1, <3>2
  <2>2. CASE ~InTurn(acc)
    <3> DEFINE turn == [NewTurn(NoId, "unbound", line) EXCEPT !.errors = {"orphan-user-message"}]
    <3>1. turn \in Turns
      BY <1>7, UnboundTurns
    <3>2. turn.mode = "unbound" /\ turn.turnId = NoId
      BY DEF NewTurn
    <3> HIDE DEF turn
    <3>3. Kept(Begin(acc, turn))
      BY <1>2, <1>5, <3>1, <3>2
    <3>4. PushUser(acc, line, r.id) = Begin(acc, turn)
      BY <2>2, PushUserCases DEF turn
    <3> QED BY <3>3, <3>4
  <2>3. CASE ~Disagrees(acc, r.id) /\ InTurn(acc)
    <3>1. PushUser(acc, line, r.id) = acc
      BY <2>3, PushUserCases
    <3> QED BY <1>5, <3>1
  <2> QED BY <2>1, <2>2, <2>3
<1>11. Kept(PushAgent(acc, r.id))
  BY <1>5, <1>6 DEF PushAgent, Disagrees, InTurn
<1>12. r.id \in TurnIds \cup {NoId} => Kept(PushTerminal(acc, line, r.kind, r.id))
  <2> SUFFICES ASSUME r.id \in TurnIds \cup {NoId}
               PROVE  Kept(PushTerminal(acc, line, r.kind, r.id))
    OBVIOUS
  <2> DEFINE target == TerminalTarget(acc, r.id)
  <2>1. target # 0 => target \in DOMAIN acc.turns
    BY <1>1, CurrentFacts DEF TerminalTarget
  <2> HIDE DEF target
  <2>2. target # 0 => Kept(Close(acc, target, line, r.kind))
    <3> SUFFICES ASSUME target # 0 PROVE Kept(Close(acc, target, line, r.kind))
      OBVIOUS
    <3> DEFINE turn == [acc.turns[target] EXCEPT !.terminal = r.kind, !.terminalLine = line,
                                                 !.emitted = TRUE]
    <3>1. turn.mode = acc.turns[target].mode /\ turn.turnId = acc.turns[target].turnId
      BY <1>1, <2>1 DEF Turns
    <3>2. Close(acc, target, line, r.kind).turns = WithTurn(acc, target, turn).turns
      BY DEF Close, WithTurn
    <3> HIDE DEF turn
    <3>3. Kept(WithTurn(acc, target, turn))
      BY <1>3, <2>1, <3>1
    <3> QED BY <3>2, <3>3 DEF Kept
  <2>3. TerminalError(acc, r.id) => acc.current # 0
    BY DEF TerminalError
  <2> QED BY <1>5, <1>6, <2>2, <2>3 DEF PushTerminal, target
<1>13. r.id \in TurnIds \cup {NoId}
       /\ r.kind \in BoundaryKinds \cup {"malformed", "drift", "other"}
  BY DEF RecordSet
<1>14. Kept(Push(acc, line, r))
  BY <1>5, <1>8, <1>9, <1>10, <1>11, <1>12, <1>13, PushCases DEF BoundaryKinds, TerminalKinds
<1> QED BY <1>14 DEF Kept

\* A record that closes the current turn leaves its kind there.
LEMMA ClosedBy ==
  ASSUME NEW acc, NEW line, NEW r, NEW str, AccInv(acc, str), r.kind \in TerminalKinds,
         acc.current # 0, Push(acc, line, r).current = 0
  PROVE  Push(acc, line, r).turns[acc.current].terminal = r.kind
<1>1. /\ acc.turns \in Seq(Turns) /\ Len(acc.turns) \in Nat
      /\ acc.current \in DOMAIN acc.turns
  BY CurrentFacts
<1>2. Push(acc, line, r) = PushTerminal(acc, line, r.kind, r.id)
  BY PushCases
<1>3. \A code : AddError(acc, code).current # 0
  BY DEF AddError, WithTurn
<1>4. PushTerminal(acc, line, r.kind, r.id)
        = Close(acc, TerminalTarget(acc, r.id), line, r.kind)
  BY <1>2, <1>3 DEF PushTerminal
<1>5. TerminalTarget(acc, r.id) = acc.current
  BY <1>2, <1>4 DEF Close
<1> DEFINE turn == [acc.turns[acc.current] EXCEPT !.terminal = r.kind, !.terminalLine = line,
                                                  !.emitted = TRUE]
<1>6. turn.terminal = r.kind
  BY <1>1 DEF Turns
<1>7. Close(acc, acc.current, line, r.kind).turns[acc.current] = turn
  BY <1>1 DEF Close
<1> HIDE DEF turn
<1> QED BY <1>2, <1>4, <1>5, <1>6, <1>7

-----------------------------------------------------------------------------
(***************************************************************************)
(* The buckets of a consumer.                                              *)
(***************************************************************************)

\* A set of numbers that is not empty has a least one.
LEMMA LeastOf ==
  ASSUME NEW T \in SUBSET Nat, T # {}
  PROVE  \E m \in T : \A k \in T : m <= k
<1> SUFFICES ASSUME \A m \in T : \E k \in T : ~(m <= k) PROVE FALSE
  OBVIOUS
<1> PICK n \in T : TRUE
  OBVIOUS
<1> DEFINE Good == {i \in 0 .. n : \A k \in T : ~(k <= i)}
<1>1. 0 \in Good
  OBVIOUS
<1>2. \A i \in 1 .. n : i - 1 \in Good => i \in Good
  <2> SUFFICES ASSUME NEW i \in 1 .. n, i - 1 \in Good, NEW k \in T, k <= i PROVE FALSE
    OBVIOUS
  <2>1. k = i
    OBVIOUS
  <2>2. PICK j \in T : ~(k <= j)
    OBVIOUS
  <2> QED BY <2>1, <2>2
<1>3. n \in Good
  <2> HIDE DEF Good
  <2> QED BY <1>1, <1>2, UpTo
<1> QED BY <1>3

LEMMA MinFacts ==
  ASSUME NEW T \in SUBSET Nat, T # {}
  PROVE  Min(T) \in T /\ \A k \in T : Min(T) <= k
BY LeastOf DEF Min

\* The lines kept of a turn that goes on.
LEMMA KeptAppend ==
  ASSUME NEW S, NEW str \in Seq(S), NEW r \in S, NEW s \in DOMAIN str, IsStart(str[s])
  PROVE  LET str2 == Append(str, r)
             new == Len(str) + 1
         IN /\ KeptLines(str, s) \subseteq DOMAIN str
            /\ KeptLines(str2, s) = KeptLines(str, s) \cup
                 (IF \/ r.kind = "user_message"
                     \/ r.kind = "agent_message" /\ ~IsRepeat(str, KeptLines(str, s), r)
                  THEN {new} ELSE {})
            /\ KeptLines(str2, new) = {new}
<1> DEFINE str2 == Append(str, r)
           new == Len(str) + 1
<1>1. /\ DOMAIN str = 1 .. Len(str) /\ Len(str) \in Nat /\ Len(str2) = new
      /\ \A k \in 1 .. Len(str) : str2[k] = str[k]
      /\ str2[new] = r
  BY Appended
<1> HIDE DEF str2
<1>2. KeptLines(str, s) \subseteq DOMAIN str
  BY <1>1 DEF KeptLines
<1>3. \A k \in s .. Len(str) : IsNews(str2, s, k) <=> IsNews(str, s, k)
  BY <1>1 DEF IsNews
<1>4. r.kind = "agent_message" =>
        (IsNews(str2, s, new) <=> ~IsRepeat(str, KeptLines(str, s), r))
  <2>1. ASSUME NEW k \in KeptLines(str, s), str[k].kind = "agent_message",
               str[k].final = r.final, str[k].body = r.body
        PROVE  ~IsNews(str2, s, new)
    <3>1. k \in s + 1 .. Len(str)
      BY <1>1, <2>1 DEF KeptLines, IsStart
    <3> QED BY <1>1, <2>1, <3>1 DEF IsNews
  <2>2. ASSUME ~IsNews(str2, s, new)
        PROVE  IsRepeat(str, KeptLines(str, s), r)
    <3> DEFINE T == {j \in s + 1 .. Len(str) :
                       /\ str[j].kind = "agent_message"
                       /\ str[j].final = r.final /\ str[j].body = r.body}
    <3>1. T # {} /\ T \in SUBSET Nat
      BY <1>1, <2>2 DEF IsNews
    <3>2. PICK j \in T : \A k \in T : j <= k
      BY <3>1, LeastOf
    <3>3. IsNews(str, s, j)
      BY <1>1, <3>2 DEF IsNews
    <3>4. j \in KeptLines(str, s)
      BY <1>1, <3>3 DEF KeptLines
    <3> QED BY <3>4 DEF IsRepeat
  <2> QED BY <2>1, <2>2 DEF IsRepeat
<1>5. \A k : k \in s .. Len(str2) <=> k \in s .. Len(str) \/ k = new
  BY <1>1
<1>6. KeptLines(str2, s) = KeptLines(str, s) \cup
        (IF \/ r.kind = "user_message"
            \/ r.kind = "agent_message" /\ ~IsRepeat(str, KeptLines(str, s), r)
         THEN {new} ELSE {})
  <2> DEFINE added == \/ r.kind = "user_message"
                      \/ r.kind = "agent_message" /\ ~IsRepeat(str, KeptLines(str, s), r)
  <2>1. \A k \in s .. Len(str) : k \in KeptLines(str2, s) <=> k \in KeptLines(str, s)
    BY <1>1, <1>3, <1>5 DEF KeptLines
  <2>2. new \in KeptLines(str2, s) <=> added
    BY <1>1, <1>4, <1>5 DEF KeptLines
  <2>3. KeptLines(str2, s) \subseteq s .. Len(str2) /\ KeptLines(str, s) \subseteq s .. Len(str)
    BY DEF KeptLines
  <2> HIDE DEF added
  <2>4. KeptLines(str2, s) = KeptLines(str, s) \cup (IF added THEN {new} ELSE {})
    BY <1>5, <2>1, <2>2, <2>3
  <2> QED BY <2>4 DEF added
<1>7. KeptLines(str2, new) = {new}
  BY <1>1 DEF KeptLines
<1> QED BY <1>2, <1>6, <1>7 DEF str2

\* What a consumer's push makes of its buckets.
KnownBuckets(acc2, buckets) ==
  [k \in DOMAIN acc2.turns |-> IF k \in DOMAIN buckets THEN buckets[k] ELSE {}]
EmptiedBuckets(buckets, finals) ==
  [k \in DOMAIN buckets |-> IF k \in finals THEN {} ELSE buckets[k]]

\* Ingest adds the record's line to the bucket of its turn, repeats left out.
LEMMA IngestFacts ==
  ASSUME NEW S, NEW str \in Seq(S), NEW r \in S, NEW acc2, NEW buckets, NEW turn,
         \A k \in DOMAIN buckets : buckets[k] \subseteq DOMAIN str
  PROVE  LET known == KnownBuckets(acc2, buckets)
             buckets2 == Ingest(str, known, turn, r)
         IN /\ buckets2 \in [DOMAIN acc2.turns -> SUBSET DOMAIN Append(str, r)]
            /\ \A k \in DOMAIN acc2.turns :
                 buckets2[k] = known[k] \cup
                   (IF /\ turn # 0 /\ k = turn
                       /\ ~(r.kind = "agent_message" /\ IsRepeat(str, known[k], r))
                    THEN {Len(str) + 1} ELSE {})
<1> DEFINE known == KnownBuckets(acc2, buckets)
           buckets2 == Ingest(str, known, turn, r)
           skip == turn = 0 \/ (r.kind = "agent_message" /\ IsRepeat(str, known[turn], r))
           D == DOMAIN acc2.turns
<1>1. /\ DOMAIN str = 1 .. Len(str) /\ Len(str) \in Nat
      /\ DOMAIN Append(str, r) = 1 .. Len(str) + 1
  BY Appended
<1>2. known \in [D -> SUBSET DOMAIN Append(str, r)]
  <2>1. \A k \in D : known[k] \subseteq DOMAIN str
    BY DEF KnownBuckets
  <2>2. DOMAIN str \subseteq DOMAIN Append(str, r)
    BY <1>1
  <2> QED BY <2>1, <2>2 DEF KnownBuckets
<1>3. buckets2 = IF skip THEN known ELSE [known EXCEPT ![turn] = @ \cup {Len(str) + 1}]
  BY DEF Ingest
<1>4. Len(str) + 1 \in DOMAIN Append(str, r)
  BY <1>1
<1>5. \A k : ~skip /\ k = turn =>
        turn # 0 /\ ~(r.kind = "agent_message" /\ IsRepeat(str, known[k], r))
  OBVIOUS
<1>6. \A k : skip /\ k = turn /\ turn # 0 =>
        r.kind = "agent_message" /\ IsRepeat(str, known[k], r)
  OBVIOUS
<1> HIDE DEF known, buckets2, skip, D
<1>7. buckets2 \in [D -> SUBSET DOMAIN Append(str, r)]
  BY <1>2, <1>3, <1>4
<1>8. ASSUME NEW k \in D
      PROVE  buckets2[k] = known[k] \cup
               (IF /\ turn # 0 /\ k = turn
                   /\ ~(r.kind = "agent_message" /\ IsRepeat(str, known[k], r))
                THEN {Len(str) + 1} ELSE {})
  <2>1. CASE k = turn /\ ~skip
    BY <1>2, <1>3, <1>5, <2>1
  <2>2. CASE k # turn \/ skip
    BY <1>2, <1>3, <1>6, <2>2
  <2> QED BY <2>1, <2>2
<1> QED BY <1>7, <1>8 DEF known, buckets2, D

\* The turn a record belongs to, one kind of record at a time.
LEMMA TurnOfCases ==
  ASSUME NEW acc, NEW acc2, NEW r
  PROVE  /\ r.kind \in {"malformed", "task_started", "user_message"} =>
              TurnOf(acc, acc2, r) = acc2.current
         /\ r.kind = "agent_message" =>
              TurnOf(acc, acc2, r) = IF InTurn(acc) THEN acc.current ELSE 0
         /\ IsTerminal(r) =>
              TurnOf(acc, acc2, r) =
                IF TerminalTarget(acc, r.id) # 0 /\ ~acc.turns[TerminalTarget(acc, r.id)].emitted
                THEN TerminalTarget(acc, r.id) ELSE 0
         /\ r.kind = "other" => TurnOf(acc, acc2, r) = 0
<1>1. r.kind = "malformed" => TurnOf(acc, acc2, r) = acc2.current
  BY DEF TurnOf, TerminalKinds
<1>2. r.kind = "task_started" => TurnOf(acc, acc2, r) = acc2.current
  BY DEF TurnOf, TerminalKinds
<1>3. r.kind = "user_message" => TurnOf(acc, acc2, r) = acc2.current
  BY DEF TurnOf, TerminalKinds
<1>4. r.kind = "agent_message" =>
        TurnOf(acc, acc2, r) = IF InTurn(acc) THEN acc.current ELSE 0
  BY DEF TurnOf, TerminalKinds
<1>5. IsTerminal(r) =>
        TurnOf(acc, acc2, r) =
          IF TerminalTarget(acc, r.id) # 0 /\ ~acc.turns[TerminalTarget(acc, r.id)].emitted
          THEN TerminalTarget(acc, r.id) ELSE 0
  BY DEF TurnOf, IsTerminal, TerminalKinds
<1>6. r.kind = "other" => TurnOf(acc, acc2, r) = 0
  BY DEF TurnOf, TerminalKinds
<1> QED BY <1>1, <1>2, <1>3, <1>4, <1>5, <1>6

\* A bucket grows with its turn; when the turn is closed it holds the lines
\* kept and the terminal one.
BucketGrowth(acc, buckets, str, r) ==
  LET acc2 == Push(acc, Len(str) + 1, r)
      str2 == Append(str, r)
      buckets2 == Ingest(str, KnownBuckets(acc2, buckets), TurnOf(acc, acc2, r), r)
      finals == NewlyFinal(acc, acc2)
      turn == acc2.turns[acc.current]
  IN /\ BucketInv(acc2, EmptiedBuckets(buckets2, finals), str2)
     /\ finals \subseteq DOMAIN acc.turns \cap {acc.current}
     /\ acc.current \in finals /\ Activity(turn) = "closed" =>
          /\ IsTerminal(r) /\ turn.terminal = r.kind /\ turn.terminalLine = Len(str) + 1
          /\ turn.turnId = r.id /\ (turn.mode = "turn-id" <=> r.id # NoId)
          /\ turn.startLine \in OpenStarts(str, {"drift"})
          /\ str[turn.startLine].id = r.id
          /\ buckets2[acc.current] = KeptLines(str, turn.startLine) \cup {Len(str) + 1}
     /\ \A s \in OpenStarts(str, {"drift"}) : IsTerminal(r) /\ r.id = str[s].id =>
          acc.current \in finals /\ Activity(turn) = "closed" /\ turn.startLine = s

\* A pushed record does so.
LEMMA BucketStep ==
  ASSUME NEW S, RecordSet(S), NEW str \in Seq(S), NEW r \in S, r.kind # "drift",
         NEW acc, FeedInv(acc, str, {"drift"}),
         NEW buckets, BucketInv(acc, buckets, str)
  PROVE  BucketGrowth(acc, buckets, str, r)
<1> DEFINE hidden == {"drift"}
           acc2 == Push(acc, Len(str) + 1, r)
           str2 == Append(str, r)
           known == KnownBuckets(acc2, buckets)
           buckets2 == Ingest(str, known, TurnOf(acc, acc2, r), r)
           finals == NewlyFinal(acc, acc2)
           emptied == EmptiedBuckets(buckets2, finals)
           new == Len(str) + 1
<1>1. /\ DOMAIN str = 1 .. Len(str) /\ Len(str) \in Nat /\ Len(str2) = new
      /\ DOMAIN str2 = 1 .. new
      /\ \A k \in 1 .. Len(str) : str2[k] = str[k]
      /\ str2[new] = r
  BY Appended
<1>2. AccInv(acc, str) /\ CutInv(acc, str, hidden)
  BY DEF FeedInv
<1>3. /\ DOMAIN acc.turns = 1 .. Len(acc.turns) /\ Len(acc.turns) \in Nat
      /\ acc.explicit \in [TurnIds -> 0 .. Len(acc.turns)]
      /\ acc.current \in 0 .. Len(acc.turns)
      /\ acc.current # 0 =>
           acc.current \in DOMAIN acc.turns /\ ~Current(acc).emitted /\ InTurn(acc)
      /\ acc.current = 0 => ~InTurn(acc)
      /\ \A k \in DOMAIN acc.turns : k # acc.current => acc.turns[k].emitted
  BY <1>2, CurrentFacts
<1>4. /\ buckets \in [DOMAIN acc.turns -> SUBSET DOMAIN str]
      /\ acc.current # 0 /\ Clean(Current(acc)) =>
           buckets[acc.current] = KeptLines(str, Current(acc).startLine)
      /\ \A k \in DOMAIN acc.turns : acc.turns[k].mode = "turn-id" <=> acc.turns[k].turnId # NoId
  BY DEF BucketInv
<1>5. \A k \in DOMAIN acc2.turns :
        acc2.turns[k].mode = "turn-id" <=> acc2.turns[k].turnId # NoId
  BY <1>2, <1>4, ModePreserved
<1>6. /\ buckets2 \in [DOMAIN acc2.turns -> SUBSET DOMAIN str2]
      /\ \A k \in DOMAIN acc2.turns :
           buckets2[k] = known[k] \cup
             (IF /\ TurnOf(acc, acc2, r) # 0 /\ k = TurnOf(acc, acc2, r)
                 /\ ~(r.kind = "agent_message" /\ IsRepeat(str, known[k], r))
              THEN {new} ELSE {})
  BY <1>4, IngestFacts
<1>7. emptied \in [DOMAIN acc2.turns -> SUBSET DOMAIN str2]
  BY <1>6 DEF EmptiedBuckets
<1>8. \A k \in DOMAIN acc2.turns : known[k] = IF k \in DOMAIN acc.turns THEN buckets[k] ELSE {}
  BY <1>4 DEF KnownBuckets
<1>9. \A s \in OpenStarts(str, hidden) :
        /\ acc.current # 0 /\ Clean(Current(acc)) /\ s = Current(acc).startLine
        /\ s \in DOMAIN str /\ IsStart(str[s]) /\ str[s].id = Current(acc).turnId
  BY <1>2, OpenStartFacts DEF CutInv
<1>10. acc.current # 0 /\ Clean(Current(acc)) => Current(acc).startLine \in OpenStarts(str, hidden)
  BY <1>2 DEF CutInv
<1>11. \A k : k \in finals <=> /\ k \in DOMAIN acc2.turns /\ acc2.turns[k].emitted
                               /\ ~(k \in DOMAIN acc.turns /\ acc.turns[k].emitted)
  BY DEF NewlyFinal
<1>12. ~IsTerminal(r) \/ ~IsStart(r)
  BY DEF IsTerminal, IsStart, TerminalKinds
<1>13. \A k \in DOMAIN acc2.turns : k \notin finals => emptied[k] = buckets2[k]
  BY <1>6 DEF EmptiedBuckets
<1>14. \/ /\ acc2 = acc /\ ~IsStart(r)
          /\ \A s \in OpenStarts(str, hidden) : Harmless(str2, s, new)
       \/ /\ SpoilsCurrent(acc, acc2) \/ BeginsUnbound(acc, acc2)
          /\ ~IsStart(r)
          /\ \A s \in OpenStarts(str, hidden) : ~(IsTerminal(r) /\ r.id = str[s].id)
       \/ IsStart(r) /\ BeginsTurn(acc, acc2, new, r.id)
       \/ /\ IsTerminal(r) /\ r.id = Current(acc).turnId
          /\ ClosesCurrent(acc, acc2, new)
  BY PushEffects
<1> DEFINE Goal ==
      /\ finals \subseteq DOMAIN acc.turns \cap {acc.current}
      /\ acc2.current # 0 /\ Clean(Current(acc2)) =>
           emptied[acc2.current] = KeptLines(str2, Current(acc2).startLine)
      /\ LET turn == acc2.turns[acc.current]
         IN /\ acc.current \in finals /\ Activity(turn) = "closed" =>
                 /\ IsTerminal(r) /\ turn.terminal = r.kind /\ turn.terminalLine = new
                 /\ turn.turnId = r.id /\ (turn.mode = "turn-id" <=> r.id # NoId)
                 /\ turn.startLine \in OpenStarts(str, {"drift"})
                 /\ str[turn.startLine].id = r.id
                 /\ buckets2[acc.current] = KeptLines(str, turn.startLine) \cup {new}
            /\ \A s \in OpenStarts(str, {"drift"}) : IsTerminal(r) /\ r.id = str[s].id =>
                 acc.current \in finals /\ Activity(turn) = "closed" /\ turn.startLine = s
<1> SUFFICES Goal
  BY <1>5, <1>7 DEF BucketInv, BucketGrowth
<1> HIDE DEF acc2, str2, known, buckets2, finals, emptied
<1>15. CASE /\ acc2 = acc /\ ~IsStart(r)
            /\ \A s \in OpenStarts(str, hidden) : Harmless(str2, s, new)
  <2>1. finals = {}
    BY <1>11, <1>15
  <2>2. \A s \in OpenStarts(str, hidden) : ~(IsTerminal(r) /\ r.id = str[s].id)
    BY <1>1, <1>9, <1>15 DEF Harmless
  <2>3. ASSUME acc.current # 0, Clean(Current(acc))
        PROVE  emptied[acc.current] = KeptLines(str2, Current(acc).startLine)
    <3> DEFINE s == Current(acc).startLine
               c == acc.current
    <3>1. s \in OpenStarts(str, hidden) /\ s \in DOMAIN str /\ IsStart(str[s])
          /\ str[s].id = Current(acc).turnId
      BY <1>9, <1>10, <2>3
    <3>2. Harmless(str2, s, new)
      BY <1>15, <3>1
    <3>3. c \in DOMAIN acc.turns /\ known[c] = KeptLines(str, s)
      BY <1>3, <1>4, <1>8, <1>15, <2>3
    <3>4. IsTerminal(r) => TurnOf(acc, acc2, r) = 0
      <4> SUFFICES ASSUME IsTerminal(r) PROVE TurnOf(acc, acc2, r) = 0
        OBVIOUS
      <4>1. /\ r.id \notin {NoId, str[s].id}
            /\ \E j \in 1 .. s - 1 : IsStart(str[j]) /\ str[j].id = r.id
        BY <1>1, <3>1, <3>2 DEF Harmless
      <4>2. r.id \in TurnIds
        BY <4>1 DEF RecordSet
      <4>3. acc.explicit[r.id] # 0 /\ acc.turns[acc.explicit[r.id]].turnId = r.id
        BY <1>1, <1>2, <3>1, <4>1, <4>2 DEF AccInv
      <4>4. acc.explicit[r.id] \in DOMAIN acc.turns /\ acc.explicit[r.id] # c
        BY <1>3, <3>1, <4>1, <4>2, <4>3 DEF Current
      <4>5. TerminalTarget(acc, r.id) = acc.explicit[r.id]
            /\ acc.turns[acc.explicit[r.id]].emitted
        BY <1>3, <4>1, <4>4 DEF TerminalTarget
      <4> QED BY <4>5, TurnOfCases
    <3>5. /\ r.kind \in {"user_message", "agent_message"} => TurnOf(acc, acc2, r) = c
          /\ r.kind = "other" => TurnOf(acc, acc2, r) = 0
      BY <1>3, <1>15, <2>3, TurnOfCases
    <3>6. r.kind \in {"user_message", "agent_message", "other"} \/ IsTerminal(r)
      BY <1>1, <1>15, <3>2 DEF RecordSet, Harmless, IsStart, IsTerminal, BoundaryKinds, TerminalKinds
    <3>7. emptied[c] = buckets2[c]
      BY <1>13, <1>15, <2>1, <3>3
    <3>8. buckets2[c] = KeptLines(str, s) \cup
            (IF \/ r.kind = "user_message"
                \/ r.kind = "agent_message" /\ ~IsRepeat(str, KeptLines(str, s), r)
             THEN {new} ELSE {})
      <4>1. buckets2[c] = known[c] \cup
             (IF /\ TurnOf(acc, acc2, r) # 0 /\ c = TurnOf(acc, acc2, r)
                 /\ ~(r.kind = "agent_message" /\ IsRepeat(str, known[c], r))
              THEN {new} ELSE {})
        BY <1>6, <1>15, <3>3
      <4>2. IsTerminal(r) => r.kind \notin {"user_message", "agent_message"}
        BY DEF IsTerminal, TerminalKinds
      <4> QED BY <2>3, <3>3, <3>4, <3>5, <3>6, <4>1, <4>2
    <3>9. KeptLines(str2, s) = KeptLines(str, s) \cup
            (IF \/ r.kind = "user_message"
                \/ r.kind = "agent_message" /\ ~IsRepeat(str, KeptLines(str, s), r)
             THEN {new} ELSE {})
      BY <3>1, KeptAppend DEF str2
    <3> QED BY <3>7, <3>8, <3>9
  <2> QED BY <1>15, <2>1, <2>2, <2>3
<1>16. CASE /\ SpoilsCurrent(acc, acc2) \/ BeginsUnbound(acc, acc2)
            /\ \A s \in OpenStarts(str, hidden) : ~(IsTerminal(r) /\ r.id = str[s].id)
  <2>1. \A k \in DOMAIN acc2.turns : acc2.turns[k].emitted =>
          k \in DOMAIN acc.turns /\ acc.turns[k].emitted
    BY <1>3, <1>16 DEF SpoilsCurrent, BeginsUnbound, SameTurnsExcept, Current
  <2>2. finals = {}
    BY <1>11, <2>1
  <2>3. ~Clean(Current(acc2))
    BY <1>16 DEF SpoilsCurrent, BeginsUnbound
  <2> QED BY <1>16, <2>2, <2>3
<1>17. CASE IsStart(r) /\ BeginsTurn(acc, acc2, new, r.id)
  <2>1. finals \subseteq DOMAIN acc.turns \cap {acc.current}
    BY <1>3, <1>11, <1>17 DEF BeginsTurn, Current
  <2>2. acc.current \in finals => Activity(acc2.turns[acc.current]) = "ambiguous"
    BY <2>1, <1>17 DEF BeginsTurn, Activity
  <2>3. /\ acc2.current = Len(acc.turns) + 1 /\ acc2.current \in DOMAIN acc2.turns
        /\ Current(acc2).startLine = new
    BY <1>3, <1>17 DEF BeginsTurn
  <2>4. acc2.current \notin finals /\ known[acc2.current] = {}
    BY <1>3, <1>8, <2>1, <2>3
  <2>5. TurnOf(acc, acc2, r) = acc2.current /\ r.kind # "agent_message"
    BY <1>17, TurnOfCases DEF IsStart
  <2>6. emptied[acc2.current] = {new}
    BY <1>3, <1>6, <1>13, <2>3, <2>4, <2>5
  <2>7. KeptLines(str2, new) = {new}
    BY <1>1 DEF KeptLines
  <2> QED BY <1>12, <1>17, <2>1, <2>2, <2>3, <2>6, <2>7
<1>18. CASE /\ IsTerminal(r) /\ r.id = Current(acc).turnId
            /\ ClosesCurrent(acc, acc2, new)
  <2> DEFINE c == acc.current
             t == acc2.turns[c]
  <2>1. /\ c # 0 /\ c \in DOMAIN acc.turns /\ DOMAIN acc2.turns = DOMAIN acc.turns
        /\ acc2.current = 0
        /\ \A k \in DOMAIN acc.turns : k # c => acc2.turns[k] = acc.turns[k]
        /\ t.turnId = Current(acc).turnId /\ t.startLine = Current(acc).startLine
        /\ t.terminal # "none" /\ t.terminalLine = new /\ t.emitted /\ ~t.superseded
        /\ Clean(t) <=> Clean(Current(acc))
    BY <1>3, <1>18 DEF ClosesCurrent, SameTurnsExcept
  <2>2. finals = {c}
    BY <1>3, <1>11, <2>1 DEF Current
  <2>3. t.terminal = r.kind
    BY <1>2, <1>18, <2>1, ClosedBy DEF IsTerminal, acc2
  <2>4. t.mode = "turn-id" <=> t.turnId # NoId
    BY <1>5, <2>1
  <2>5. Activity(t) = "closed" <=> Clean(Current(acc))
    BY <2>1 DEF Activity, Clean
  <2>6. TurnOf(acc, acc2, r) = c
    <3>1. TerminalTarget(acc, r.id) = c
      BY <1>2, <1>18, <2>1 DEF TerminalTarget, AccInv
    <3>2. ~acc.turns[c].emitted
      BY <1>3, <2>1 DEF Current
    <3> QED BY <1>18, <2>1, <3>1, <3>2, TurnOfCases
  <2>7. buckets2[c] = buckets[c] \cup {new}
    <3>1. r.kind # "agent_message"
      BY <1>18 DEF IsTerminal, TerminalKinds
    <3> QED BY <1>6, <1>8, <2>1, <2>6, <3>1
  <2>8. ASSUME Clean(Current(acc))
        PROVE  /\ t.startLine \in OpenStarts(str, hidden)
               /\ str[t.startLine].id = r.id
               /\ buckets2[c] = KeptLines(str, t.startLine) \cup {new}
    BY <1>4, <1>9, <1>10, <1>18, <2>1, <2>7, <2>8
  <2>9. \A s \in OpenStarts(str, hidden) : Clean(Current(acc)) /\ s = t.startLine
    BY <1>9, <2>1
  <2> HIDE DEF t
  <2>10. Activity(t) = "closed" =>
           /\ t.terminal = r.kind /\ t.terminalLine = new
           /\ t.turnId = r.id /\ (t.mode = "turn-id" <=> r.id # NoId)
    BY <1>18, <2>1, <2>3, <2>4
  <2> QED BY <1>18, <2>1, <2>2, <2>5, <2>8, <2>9, <2>10 DEF t
<1> QED BY <1>14, <1>15, <1>16, <1>17, <1>18

-----------------------------------------------------------------------------
(***************************************************************************)
(* The candidate of the marker consumer.                                   *)
(***************************************************************************)

\* What was handed over and said in a turn does not depend on later lines.
LEMMA HandoverAppend ==
  ASSUME NEW S, NEW str \in Seq(S), NEW r \in S,
         NEW s \in DOMAIN str, NEW e \in 1 .. Len(str) + 1, NEW m \in s + 1 .. e - 1
  PROVE  /\ IsHandover(Append(str, r), s, m, e) <=> IsHandover(str, s, m, e)
         /\ Said(Append(str, r), s, m, e) = Said(str, s, m, e)
<1> DEFINE str2 == Append(str, r)
<1>1. /\ DOMAIN str = 1 .. Len(str) /\ Len(str) \in Nat
      /\ \A k \in 1 .. Len(str) : str2[k] = str[k]
  BY Appended
<1> HIDE DEF str2
<1>2. \A k \in s .. e - 1 : str2[k] = str[k]
  BY <1>1
<1>3. IsHandover(str2, s, m, e) <=> IsHandover(str, s, m, e)
  BY <1>1, <1>2 DEF IsHandover, IsTask
<1>4. \A k \in m + 1 .. e - 1 : IsNews(str2, s, k) <=> IsNews(str, s, k)
  <2> SUFFICES ASSUME NEW k \in m + 1 .. e - 1
               PROVE  IsNews(str2, s, k) <=> IsNews(str, s, k)
    OBVIOUS
  <2>1. str2[k] = str[k] /\ \A j \in s + 1 .. k - 1 : str2[j] = str[j]
    BY <1>1, <1>2
  <2> QED BY <2>1 DEF IsNews
<1>5. Said(str2, s, m, e) = Said(str, s, m, e)
  BY <1>1, <1>2, <1>4 DEF Said
<1> QED BY <1>3, <1>5 DEF str2

\* A proving end is the end of a proof.
LEMMA ProofEnds ==
  ASSUME NEW S, NEW str \in Seq(S), NEW hidden, NEW e
  PROVE  e \in ProvingEnds(str, hidden) <=>
           \E s, k \in DOMAIN str : IsProof([start |-> s, agent |-> k, terminal |-> e], str, hidden)
<1>1. DOMAIN str = 1 .. Len(str) /\ Len(str) \in Nat
  OBVIOUS
<1>2. ASSUME e \in ProvingEnds(str, hidden)
      PROVE  \E s, k \in DOMAIN str :
               IsProof([start |-> s, agent |-> k, terminal |-> e], str, hidden)
  <2>1. PICK s \in 1 .. e - 1 :
          /\ e \in DOMAIN str /\ str[e].kind = "task_complete" /\ str[e].last \in Marked
          /\ str[s].id = Expected /\ <<s, e>> \in CleanTurns(str, hidden)
          /\ \E m \in s + 1 .. e - 1 :
               /\ IsHandover(str, s, m, e)
               /\ \E k \in Said(str, s, m, e) : str[k].final /\ str[k].body = str[e].last
    BY <1>2 DEF ProvingEnds
  <2>2. PICK m \in s + 1 .. e - 1 :
               /\ IsHandover(str, s, m, e)
               /\ \E k \in Said(str, s, m, e) : str[k].final /\ str[k].body = str[e].last
    BY <2>1
  <2>3. PICK k \in Said(str, s, m, e) : str[k].final /\ str[k].body = str[e].last
    BY <2>2
  <2>4. s \in DOMAIN str /\ k \in DOMAIN str
    BY <1>1, <2>1, <2>2, <2>3 DEF Said
  <2>5. IsProof([start |-> s, agent |-> k, terminal |-> e], str, hidden)
    BY <2>1, <2>2, <2>3 DEF IsProof
  <2> QED BY <2>4, <2>5
<1>3. ASSUME NEW s \in DOMAIN str, NEW k \in DOMAIN str,
             IsProof([start |-> s, agent |-> k, terminal |-> e], str, hidden)
      PROVE  e \in ProvingEnds(str, hidden)
  <2>1. /\ <<s, e>> \in CleanTurns(str, hidden) /\ str[s].id = Expected
        /\ str[e].kind = "task_complete" /\ str[e].last \in Marked
        /\ \E m \in s + 1 .. e - 1 :
             /\ IsHandover(str, s, m, e)
             /\ k \in Said(str, s, m, e) /\ str[k].final /\ str[k].body = str[e].last
    BY <1>3 DEF IsProof
  <2>2. s \in 1 .. e - 1 /\ IsStart(str[s]) /\ e \in DOMAIN str
    BY <1>1, <2>1 DEF CleanTurns
  <2> QED BY <2>1, <2>2 DEF ProvingEnds
<1> QED BY <1>2, <1>3

\* A proof stays one, and a new one ends with the new record.
LEMMA ProofAppend ==
  ASSUME NEW S, NEW str \in Seq(S), NEW r \in S, NEW hidden, NEW c
  PROVE  IsProof(c, Append(str, r), hidden) <=>
           \/ IsProof(c, str, hidden)
           \/ c.terminal = Len(str) + 1 /\ IsProof(c, Append(str, r), hidden)
<1> DEFINE str2 == Append(str, r)
<1>1. /\ DOMAIN str = 1 .. Len(str) /\ Len(str) \in Nat
      /\ \A k \in 1 .. Len(str) : str2[k] = str[k]
  BY Appended
<1>2. CleanTurns(str2, hidden) =
           CleanTurns(str, hidden) \cup
           {<<s, Len(str) + 1>> : s \in {x \in OpenStarts(str, hidden) :
                                           IsTerminal(r) /\ r.id = str[x].id}}
  BY CleanTurnsAppend
<1> HIDE DEF str2
<1>3. <<c.start, c.terminal>> \in CleanTurns(str, hidden) =>
        /\ c.start \in DOMAIN str /\ c.terminal \in DOMAIN str
        /\ c.terminal # Len(str) + 1 /\ c.terminal \in 1 .. Len(str) + 1
  BY <1>1 DEF CleanTurns
<1>4. ASSUME <<c.start, c.terminal>> \in CleanTurns(str, hidden)
      PROVE  IsProof(c, str2, hidden) <=> IsProof(c, str, hidden)
  <2>1. /\ c.start \in DOMAIN str /\ c.terminal \in DOMAIN str
        /\ str2[c.start] = str[c.start] /\ str2[c.terminal] = str[c.terminal]
    BY <1>1, <1>3, <1>4
  <2>2. \A m \in c.start + 1 .. c.terminal - 1 :
          /\ IsHandover(str2, c.start, m, c.terminal) <=> IsHandover(str, c.start, m, c.terminal)
          /\ Said(str2, c.start, m, c.terminal) = Said(str, c.start, m, c.terminal)
          /\ \A k \in Said(str, c.start, m, c.terminal) : str2[k] = str[k]
    <3> SUFFICES ASSUME NEW m \in c.start + 1 .. c.terminal - 1
                 PROVE /\ IsHandover(str2, c.start, m, c.terminal)
                            <=> IsHandover(str, c.start, m, c.terminal)
                       /\ Said(str2, c.start, m, c.terminal) = Said(str, c.start, m, c.terminal)
                       /\ \A k \in Said(str, c.start, m, c.terminal) : str2[k] = str[k]
      OBVIOUS
    <3>1. \A k \in Said(str, c.start, m, c.terminal) : str2[k] = str[k]
      BY <1>1, <2>1 DEF Said
    <3>2. c.terminal \in 1 .. Len(str) + 1
      BY <1>3, <1>4
    <3> QED BY <2>1, <3>1, <3>2, HandoverAppend DEF str2
  <2>3. <<c.start, c.terminal>> \in CleanTurns(str2, hidden)
    BY <1>2, <1>4
  <2> QED BY <1>4, <2>1, <2>2, <2>3 DEF IsProof
<1>5. ASSUME <<c.start, c.terminal>> \notin CleanTurns(str, hidden)
      PROVE  ~IsProof(c, str, hidden) /\ (IsProof(c, str2, hidden) => c.terminal = Len(str) + 1)
  BY <1>2, <1>5 DEF IsProof
<1> QED BY <1>3, <1>4, <1>5 DEF str2

\* The proving ends after one more record: at most its own line is new.
LEMMA EndsAppend ==
  ASSUME NEW S, NEW str \in Seq(S), NEW r \in S, NEW hidden, NEW e
  PROVE  LET str2 == Append(str, r)
         IN e \in ProvingEnds(str2, hidden) <=>
              \/ e \in ProvingEnds(str, hidden)
              \/ e = Len(str) + 1 /\ e \in ProvingEnds(str2, hidden)
<1> DEFINE str2 == Append(str, r)
           c(s, k) == [start |-> s, agent |-> k, terminal |-> e]
<1>1. /\ DOMAIN str = 1 .. Len(str) /\ Len(str) \in Nat
      /\ DOMAIN str2 = 1 .. Len(str) + 1 /\ str2 \in Seq(S)
  BY Appended
<1> HIDE DEF str2
<1>2. \A s, k \in DOMAIN str2 : e \in Nat =>
        (IsProof(c(s, k), str2, hidden) <=>
           \/ IsProof(c(s, k), str, hidden)
           \/ e = Len(str) + 1 /\ IsProof(c(s, k), str2, hidden))
  <2> SUFFICES ASSUME NEW s \in DOMAIN str2, NEW k \in DOMAIN str2, e \in Nat
               PROVE  IsProof(c(s, k), str2, hidden) <=>
                         \/ IsProof(c(s, k), str, hidden)
                         \/ e = Len(str) + 1 /\ IsProof(c(s, k), str2, hidden)
    OBVIOUS
  <2>1. c(s, k) \in [start : Nat, agent : Nat, terminal : Nat] /\ c(s, k).terminal = e
    BY <1>1
  <2> HIDE DEF c
  <2> QED BY <2>1, ProofAppend DEF str2
<1>3. \A s, k : IsProof(c(s, k), str, hidden) =>
        s \in DOMAIN str /\ e \in DOMAIN str /\ (k \in DOMAIN str2 => k \in DOMAIN str)
  <2> SUFFICES ASSUME NEW s, NEW k, IsProof(c(s, k), str, hidden)
               PROVE  s \in DOMAIN str /\ e \in DOMAIN str
                      /\ (k \in DOMAIN str2 => k \in DOMAIN str)
    OBVIOUS
  <2>1. <<s, e>> \in CleanTurns(str, hidden)
        /\ \E m \in s + 1 .. e - 1 : k \in Said(str, s, m, e)
    BY DEF IsProof
  <2>2. s \in DOMAIN str /\ e \in DOMAIN str
    BY <2>1 DEF CleanTurns
  <2> QED BY <1>1, <2>1, <2>2 DEF Said
<1>4. e \in ProvingEnds(str2, hidden) <=> \E s, k \in DOMAIN str2 : IsProof(c(s, k), str2, hidden)
  BY <1>1, ProofEnds
<1>5. e \in ProvingEnds(str, hidden) <=> \E s, k \in DOMAIN str : IsProof(c(s, k), str, hidden)
  BY ProofEnds
<1>6. DOMAIN str \subseteq DOMAIN str2 /\ (e \in DOMAIN str2 => e \in Nat)
  BY <1>1
<1>7. e \in ProvingEnds(str2, hidden) => e \in DOMAIN str2
  BY DEF ProvingEnds
<1> HIDE DEF c
<1>8. e \in ProvingEnds(str2, hidden) => e \in ProvingEnds(str, hidden) \/ e = Len(str) + 1
  BY <1>2, <1>3, <1>4, <1>5, <1>6, <1>7
<1>9. e \in ProvingEnds(str, hidden) => e \in ProvingEnds(str2, hidden)
  <2> SUFFICES ASSUME e \in ProvingEnds(str, hidden) PROVE e \in ProvingEnds(str2, hidden)
    OBVIOUS
  <2>1. PICK s, k \in DOMAIN str : IsProof(c(s, k), str, hidden)
    BY <1>5
  <2>2. s \in DOMAIN str2 /\ k \in DOMAIN str2 /\ e \in Nat
    BY <1>3, <1>6, <2>1
  <2> QED BY <1>2, <1>4, <2>1, <2>2
<1> QED BY <1>8, <1>9 DEF str2

\* A closed turn makes the candidates that prove the write.
LEMMA ClosedCandidates ==
  ASSUME NEW S, NEW str \in Seq(S), NEW r \in S, NEW hidden,
         NEW s \in OpenStarts(str, hidden), IsTerminal(r), r.id = str[s].id,
         NEW turn, turn.terminal = r.kind, Activity(turn) = "closed",
         turn.mode = "turn-id" <=> r.id # NoId, turn.turnId = r.id,
         turn.startLine = s, turn.terminalLine = Len(str) + 1
  PROVE  LET str2 == Append(str, r)
             cands == Candidates(str2, KeptLines(str, s) \cup {Len(str) + 1}, turn)
         IN /\ \A c \in cands : \E k \in DOMAIN str :
                 c = [start |-> s, agent |-> k, terminal |-> Len(str) + 1]
            /\ \A k : [start |-> s, agent |-> k, terminal |-> Len(str) + 1] \in cands
                 <=> IsProof([start |-> s, agent |-> k, terminal |-> Len(str) + 1], str2, hidden)
<1> DEFINE str2 == Append(str, r)
           new == Len(str) + 1
           bucket == KeptLines(str, s) \cup {new}
           cands == Candidates(str2, bucket, turn)
           U == {x \in s + 1 .. Len(str) : str2[x].kind = "user_message"}
           G == {x \in s + 1 .. Len(str) : str2[x].kind = "agent_message" /\ IsNews(str2, s, x)}
           T == {x \in U : str2[x].text = "task"}
           Answer(k) ==
             /\ k \in G /\ str2[k].final /\ str2[k].body = r.last /\ str2[k].body \in Marked
             /\ {m \in T : m < k} # {}
             /\ \A u \in U : u > Min({m \in T : m < k}) =>
                  SameDelivery(str2[Min({m \in T : m < k})], str2[u])
           Ours == r.kind = "task_complete" /\ r.id = Expected
<1>1. /\ DOMAIN str = 1 .. Len(str) /\ Len(str) \in Nat
      /\ \A k \in 1 .. Len(str) : str2[k] = str[k]
      /\ str2[new] = r /\ s \in DOMAIN str /\ IsStart(str[s])
  BY Appended DEF OpenStarts
<1>2. <<s, new>> \in CleanTurns(str2, hidden)
  BY CleanTurnsAppend
<1>3. Expected # NoId
  BY MarkerAssumption, NoIdAssumption
<1> HIDE DEF str2
<1>4. \A x \in bucket : x = s \/ x = new \/ (x \in s + 1 .. Len(str))
  BY <1>1 DEF KeptLines
<1>5. str2[s].kind = "task_started" /\ str2[new].kind \in TerminalKinds
  BY <1>1 DEF IsStart, IsTerminal
<1>6. \A x \in s + 1 .. Len(str) :
        x \in bucket <=> \/ str2[x].kind = "user_message"
                         \/ str2[x].kind = "agent_message" /\ IsNews(str2, s, x)
  BY <1>1 DEF KeptLines, IsNews
<1> HIDE DEF bucket
<1>7. OfKind(str2, bucket, "user_message") = U /\ OfKind(str2, bucket, "agent_message") = G
  BY <1>4, <1>5, <1>6 DEF OfKind, TerminalKinds
<1>8. TaskLines(str2, bucket) = T
  BY <1>7 DEF TaskLines
<1>9. \A k \in U \cup G : k < new
  BY <1>1
<1> HIDE DEF U, G, T
<1>10. Served(str2, bucket, r.last) = {k \in G : str2[k].final /\ str2[k].body = r.last}
  BY <1>7 DEF Served
<1>11. \A k : AnswersMarker(str2, bucket, k, turn) <=>
         /\ {m \in T : m < k} # {}
         /\ \A u \in U : u > Min({m \in T : m < k}) =>
              SameDelivery(str2[Min({m \in T : m < k})], str2[u])
  BY <1>7, <1>8, <1>9 DEF AnswersMarker
<1>12. str2[turn.terminalLine].last = r.last
  BY <1>1
<1>13. cands = IF Ours THEN {[start |-> s, agent |-> k, terminal |-> new] : k \in {j \in G : Answer(j)}}
               ELSE {}
  <2> DEFINE ok == /\ turn.terminal = "task_complete" /\ Activity(turn) = "closed"
                   /\ turn.mode = "turn-id" /\ turn.turnId = Expected
             agents == {j \in Served(str2, bucket, r.last) :
                          /\ str2[j].body \in Marked
                          /\ AnswersMarker(str2, bucket, j, turn)
                          /\ j < new}
  <2>1. ok <=> Ours
    BY <1>3
  <2>2. agents = {j \in G : Answer(j)}
    BY <1>9, <1>10, <1>11
  <2>3. cands = IF ~ok THEN {} ELSE {[start |-> s, agent |-> k, terminal |-> new] : k \in agents}
    BY <1>12 DEF Candidates
  <2> HIDE DEF ok, agents, cands, Ours, Answer
  <2> QED BY <2>1, <2>2, <2>3
<1>14. ASSUME NEW k, Answer(k), Ours
       PROVE  IsProof([start |-> s, agent |-> k, terminal |-> new], str2, hidden)
  <2> DEFINE marked == {m \in T : m < k}
             m == Min(marked)
  <2>1. m \in marked /\ \A j \in marked : m <= j
    <3>1. marked # {} /\ marked \in SUBSET Nat
      BY <1>1, <1>14 DEF T, U
    <3> HIDE DEF marked
    <3> QED BY <3>1, MinFacts
  <2>2. \A u \in U : u > m => SameDelivery(str2[m], str2[u])
    BY <1>14
  <2>3. k \in G /\ k \in s + 1 .. Len(str) /\ str2[k].final /\ str2[k].body = r.last
        /\ str2[k].body \in Marked
    BY <1>14 DEF G
  <2> HIDE DEF m
  <2>4. m \in s + 1 .. new - 1 /\ m < k /\ IsTask(str2[m])
    BY <1>1, <2>1 DEF T, U, IsTask
  <2>5. \A u \in s + 1 .. new - 1 : str2[u].kind = "user_message" =>
          (u < m => ~IsTask(str2[u])) /\ (u > m => SameDelivery(str2[m], str2[u]))
    BY <1>1, <2>1, <2>2, <2>3, <2>4 DEF T, U, IsTask
  <2>6. IsHandover(str2, s, m, new)
    BY <1>1, <2>4, <2>5 DEF IsHandover
  <2>7. k \in Said(str2, s, m, new)
    BY <1>1, <2>3, <2>4 DEF Said, G
  <2> QED BY <1>1, <1>2, <1>14, <2>3, <2>4, <2>6, <2>7 DEF IsProof
<1>15. ASSUME NEW k, IsProof([start |-> s, agent |-> k, terminal |-> new], str2, hidden)
       PROVE  Ours /\ k \in G /\ Answer(k)
  <2>1. /\ str2[s].id = Expected /\ r.kind = "task_complete" /\ r.last \in Marked
        /\ \E m \in s + 1 .. new - 1 :
             /\ IsHandover(str2, s, m, new)
             /\ k \in Said(str2, s, m, new)
             /\ str2[k].final /\ str2[k].body = r.last
    BY <1>1, <1>15 DEF IsProof
  <2>2. PICK m \in s + 1 .. new - 1 :
             /\ IsHandover(str2, s, m, new)
             /\ k \in Said(str2, s, m, new)
             /\ str2[k].final /\ str2[k].body = r.last
    BY <2>1
  <2>3. k \in G /\ m < k /\ k \in m + 1 .. Len(str)
    BY <1>1, <2>2 DEF Said, G
  <2>4. m \in T /\ \A j \in T : m <= j
    BY <1>1, <2>2 DEF IsHandover, IsTask, T, U
  <2>5. Min({j \in T : j < k}) = m
    <3> DEFINE marked == {j \in T : j < k}
    <3>1. m \in marked /\ marked \in SUBSET Nat /\ \A j \in marked : m <= j
      BY <1>1, <2>3, <2>4 DEF T, U
    <3> HIDE DEF marked
    <3>2. Min(marked) \in marked /\ \A i \in marked : Min(marked) <= i
      BY <3>1, MinFacts
    <3>3. Min(marked) <= m /\ m <= Min(marked) /\ Min(marked) \in Nat /\ m \in Nat
      BY <3>1, <3>2
    <3>4. Min(marked) = m
      BY <3>3
    <3> QED BY <3>4 DEF marked
  <2>6. \A u \in U : u > m => SameDelivery(str2[m], str2[u])
    BY <1>1, <2>2 DEF IsHandover, U
  <2> QED BY <1>1, <2>1, <2>2, <2>3, <2>4, <2>5, <2>6
<1>16. G \subseteq DOMAIN str
  BY <1>1 DEF G
<1> HIDE DEF Answer, Ours
<1>17. \A c \in cands : \E k \in DOMAIN str : c = [start |-> s, agent |-> k, terminal |-> new]
  BY <1>13, <1>16
<1>18. \A k : [start |-> s, agent |-> k, terminal |-> new] \in cands
                <=> IsProof([start |-> s, agent |-> k, terminal |-> new], str2, hidden)
  <2> HIDE DEF cands
  <2>1. \A k : [start |-> s, agent |-> k, terminal |-> new] \in cands <=> Ours /\ k \in G /\ Answer(k)
    BY <1>13
  <2> QED BY <1>14, <1>15, <2>1
<1> QED BY <1>17, <1>18 DEF cands, bucket, str2

\* What a record does to the candidate.
LEMMA CandidateStep ==
  ASSUME NEW S, RecordSet(S), NEW str \in Seq(S), NEW r \in S, NEW con,
         r.kind # "drift", ConsumerInv(con, str)
  PROVE  ConsumerInv(ConsumeRecord(con, str, r), Append(str, r))
<1> DEFINE hidden == {"drift"}
           acc == con.acc
           new == Len(str) + 1
           acc2 == Push(acc, new, r)
           str2 == Append(str, r)
           buckets2 == Ingest(str, KnownBuckets(acc2, con.buckets), TurnOf(acc, acc2, r), r)
           finals == NewlyFinal(acc, acc2)
           turn == acc2.turns[acc.current]
           cands == UNION {Candidates(str2, buckets2[k], acc2.turns[k]) : k \in finals}
           c2 == IF cands = {} THEN con.candidate ELSE CHOOSE c \in cands : TRUE
<1>1. /\ FeedInv(acc, str, hidden) /\ BucketInv(acc, con.buckets, str)
      /\ CandidateInv(con.candidate, str)
  BY DEF ConsumerInv
<1>2. FeedInv(acc2, str2, hidden)
  BY <1>1, PushPreserves
<1>3. /\ BucketInv(acc2, EmptiedBuckets(buckets2, finals), str2)
      /\ finals \subseteq DOMAIN acc.turns \cap {acc.current}
      /\ acc.current \in finals /\ Activity(turn) = "closed" =>
           /\ IsTerminal(r) /\ turn.terminal = r.kind /\ turn.terminalLine = new
           /\ turn.turnId = r.id /\ (turn.mode = "turn-id" <=> r.id # NoId)
           /\ turn.startLine \in OpenStarts(str, hidden)
           /\ str[turn.startLine].id = r.id
           /\ buckets2[acc.current] = KeptLines(str, turn.startLine) \cup {new}
      /\ \A s \in OpenStarts(str, hidden) : IsTerminal(r) /\ r.id = str[s].id =>
           acc.current \in finals /\ Activity(turn) = "closed" /\ turn.startLine = s
  <2>1. BucketGrowth(con.acc, con.buckets, str, r)
    BY <1>1, BucketStep
  <2> QED BY <2>1 DEF BucketGrowth
<1>4. ConsumeRecord(con, str, r) =
        [acc |-> acc2, buckets |-> EmptiedBuckets(buckets2, finals), candidate |-> c2]
  BY DEF ConsumeRecord, KnownBuckets, EmptiedBuckets
<1>5. /\ DOMAIN str = 1 .. Len(str) /\ Len(str) \in Nat
      /\ DOMAIN str2 = 1 .. new /\ str2 \in Seq(S)
      /\ \A k \in 1 .. Len(str) : str2[k] = str[k]
  BY Appended
<1> HIDE DEF acc2, str2, buckets2, finals, c2
\* Every candidate is a proof that ends with the new record.
<1>6. ASSUME NEW c \in cands
      PROVE  c.terminal = new /\ IsProof(c, str2, hidden)
  <2>1. acc.current \in finals /\ c \in Candidates(str2, buckets2[acc.current], turn)
    BY <1>3
  <2>2. Activity(turn) = "closed"
    BY <2>1 DEF Candidates
  <2> DEFINE s == turn.startLine
  <2> HIDE DEF turn
  <2>3. /\ s \in OpenStarts(str, hidden) /\ IsTerminal(r) /\ r.id = str[s].id
        /\ turn.terminal = r.kind /\ (turn.mode = "turn-id" <=> r.id # NoId)
        /\ turn.turnId = r.id /\ turn.terminalLine = new
        /\ c \in Candidates(str2, KeptLines(str, s) \cup {new}, turn)
    BY <1>3, <2>1, <2>2 DEF turn
  <2>4. PICK k \in DOMAIN str : c = [start |-> s, agent |-> k, terminal |-> new]
    BY <2>2, <2>3, ClosedCandidates DEF str2
  <2>5. IsProof([start |-> s, agent |-> k, terminal |-> new], str2, hidden)
    BY <2>2, <2>3, <2>4, ClosedCandidates DEF str2
  <2> QED BY <2>4, <2>5
\* If the new record ends a proof, there is a candidate.
<1>7. new \in ProvingEnds(str2, hidden) => cands # {}
  <2> SUFFICES ASSUME new \in ProvingEnds(str2, hidden) PROVE cands # {}
    OBVIOUS
  <2>1. PICK s, k \in DOMAIN str2 :
          IsProof([start |-> s, agent |-> k, terminal |-> new], str2, hidden)
    BY <1>5, ProofEnds
  <2>2. <<s, new>> \in CleanTurns(str2, hidden)
    BY <2>1 DEF IsProof
  <2>3. <<s, new>> \notin CleanTurns(str, hidden)
    BY <1>5 DEF CleanTurns
  <2>4. s \in OpenStarts(str, hidden) /\ IsTerminal(r) /\ r.id = str[s].id
    BY <2>2, <2>3, CleanTurnsAppend DEF str2
  <2>5. /\ acc.current \in finals /\ Activity(turn) = "closed" /\ turn.startLine = s
        /\ turn.terminal = r.kind /\ (turn.mode = "turn-id" <=> r.id # NoId)
        /\ turn.turnId = r.id /\ turn.terminalLine = new
        /\ buckets2[acc.current] = KeptLines(str, s) \cup {new}
    BY <1>3, <2>4
  <2> DEFINE found == [start |-> s, agent |-> k, terminal |-> new]
  <2>6. found \in Candidates(str2, KeptLines(str, s) \cup {new}, turn)
    BY <2>1, <2>4, <2>5, ClosedCandidates DEF str2
  <2> HIDE DEF found
  <2>7. found \in cands
    BY <2>5, <2>6
  <2> QED BY <2>7
<1>8. \A e : e \in ProvingEnds(str2, hidden) <=>
        e \in ProvingEnds(str, hidden) \/ (e = new /\ e \in ProvingEnds(str2, hidden))
  BY EndsAppend DEF str2
<1>9. \A e \in ProvingEnds(str, hidden) : e \in DOMAIN str
  BY DEF ProvingEnds
<1>10. CandidateInv(c2, str2)
  <2>1. CASE cands # {}
    <3>1. c2.terminal = new /\ IsProof(c2, str2, hidden)
      BY <1>6, <2>1 DEF c2
    <3>2. <<c2.start, new>> \in CleanTurns(str2, hidden)
      BY <3>1 DEF IsProof
    <3>3. new \in ProvingEnds(str2, hidden)
      <4>1. c2.start \in 1 .. new - 1 /\ IsStart(str2[c2.start]) /\ new \in DOMAIN str2
        BY <1>5, <3>2 DEF CleanTurns
      <4> QED BY <3>1, <4>1 DEF IsProof, ProvingEnds
    <3>4. \A f \in ProvingEnds(str2, hidden) : f <= new
      BY <1>5, <1>8, <1>9
    <3> QED BY <3>1, <3>3, <3>4 DEF CandidateInv
  <2>2. CASE cands = {}
    <3>1. c2 = con.candidate /\ ProvingEnds(str2, hidden) = ProvingEnds(str, hidden)
      BY <1>7, <1>8, <2>2 DEF c2
    <3>2. ASSUME IsProof(c2, str, hidden), c2.terminal \in ProvingEnds(str, hidden)
          PROVE  IsProof(c2, str2, hidden)
      BY <3>2, ProofAppend DEF str2
    <3> QED BY <1>1, <3>1, <3>2 DEF CandidateInv
  <2> QED BY <2>1, <2>2
<1>11. ConsumerInv([acc |-> acc2, buckets |-> EmptiedBuckets(buckets2, finals), candidate |-> c2],
                   str2)
  BY <1>2, <1>3, <1>10 DEF ConsumerInv
<1> QED BY <1>4, <1>11 DEF str2

\* A record of an unknown pair is not kept.
LEMMA KeptUnseen ==
  ASSUME NEW S, NEW str \in Seq(S), NEW r \in S, r.kind = "drift",
         NEW s \in DOMAIN str, IsStart(str[s])
  PROVE  KeptLines(Append(str, r), s) = KeptLines(str, s)
<1> DEFINE str2 == Append(str, r)
           new == Len(str) + 1
<1>1. /\ DOMAIN str = 1 .. Len(str) /\ Len(str) \in Nat /\ Len(str2) = new
      /\ \A k \in 1 .. Len(str) : str2[k] = str[k]
      /\ str2[new] = r
  BY Appended
<1> HIDE DEF str2
<1>2. \A k \in s .. Len(str) : IsNews(str2, s, k) <=> IsNews(str, s, k)
  BY <1>1 DEF IsNews
<1>3. new \notin KeptLines(str2, s)
  BY <1>1 DEF KeptLines
<1>4. \A k \in s .. Len(str) : k \in KeptLines(str2, s) <=> k \in KeptLines(str, s)
  BY <1>1, <1>2 DEF KeptLines
<1>5. KeptLines(str2, s) \subseteq s .. new /\ KeptLines(str, s) \subseteq s .. Len(str)
  BY <1>1 DEF KeptLines
<1>6. KeptLines(str2, s) = KeptLines(str, s)
  <2>1. \A k \in s .. new : k \in s .. Len(str) \/ k = new
    BY <1>1
  <2> QED BY <1>3, <1>4, <1>5, <2>1
<1> QED BY <1>6 DEF str2

\* A record that a consumer does not see leaves its buckets right.
LEMMA HiddenBuckets ==
  ASSUME NEW S, NEW str \in Seq(S), NEW r \in S, r.kind = "drift",
         NEW acc, FeedInv(acc, str, {"drift"}),
         NEW buckets, BucketInv(acc, buckets, str)
  PROVE  BucketInv(acc, buckets, Append(str, r))
<1> DEFINE str2 == Append(str, r)
<1>1. DOMAIN str \subseteq DOMAIN str2
  BY Appended
<1>2. buckets \in [DOMAIN acc.turns -> SUBSET DOMAIN str2]
  BY <1>1 DEF BucketInv
<1>3. ASSUME acc.current # 0, Clean(Current(acc))
      PROVE  KeptLines(str2, Current(acc).startLine) = KeptLines(str, Current(acc).startLine)
  <2>1. Current(acc).startLine \in OpenStarts(str, {"drift"})
    BY <1>3 DEF FeedInv, CutInv
  <2>2. Current(acc).startLine \in DOMAIN str /\ IsStart(str[Current(acc).startLine])
    BY <2>1 DEF OpenStarts
  <2> QED BY <2>2, KeptUnseen
<1> QED BY <1>2, <1>3 DEF BucketInv

\* The invariant of the consumer, from one line to the next.
LEMMA ConsumeStep ==
  ASSUME NEW S, RecordSet(S), NEW str \in Seq(S), NEW r \in S, NEW con, ConsumerInv(con, str)
  PROVE  ConsumerInv(ConsumeLine(con, str, r), Append(str, r))
<1>1. CASE r.kind # "drift"
  BY <1>1, CandidateStep DEF ConsumeLine
<1>2. CASE r.kind = "drift"
  <2> DEFINE str2 == Append(str, r)
             hidden == {"drift"}
  <2>1. FeedInv(con.acc, str2, hidden) /\ BucketInv(con.acc, con.buckets, str2)
    BY <1>2, HiddenPreserves, HiddenBuckets DEF ConsumerInv
  <2>2. str2[Len(str) + 1] = r
    BY Appended
  <2>3. Len(str) + 1 \notin ProvingEnds(str2, hidden)
    BY <1>2, <2>2 DEF ProvingEnds
  <2>4. ProvingEnds(str2, hidden) = ProvingEnds(str, hidden)
    <3>1. \A e : e \in ProvingEnds(str2, hidden) <=>
                  \/ e \in ProvingEnds(str, hidden)
                  \/ e = Len(str) + 1 /\ e \in ProvingEnds(str2, hidden)
      BY EndsAppend
    <3> HIDE DEF str2
    <3> QED BY <2>3, <3>1
  <2>5. IsProof(con.candidate, str, hidden) => IsProof(con.candidate, str2, hidden)
    BY ProofAppend
  <2> HIDE DEF str2
  <2>6. CandidateInv(con.candidate, str2)
    BY <2>4, <2>5 DEF ConsumerInv, CandidateInv
  <2>7. ConsumeLine(con, str, r) = con
    BY <1>2 DEF ConsumeLine
  <2> QED BY <2>1, <2>6, <2>7 DEF ConsumerInv, str2
<1> QED BY <1>1, <1>2

\* It holds before the first line.
LEMMA ConsumerInit == ConsumerInv(EmptyConsumer, <<>>)
<1>1. FeedInv(EmptyAccumulator, <<>>, {"drift"})
  BY FeedInvInit
<1>2. BucketInv(EmptyAccumulator, <<>>, <<>>)
  <2>1. EmptyAccumulator.turns = <<>> /\ EmptyAccumulator.current = 0
    BY DEF EmptyAccumulator
  <2>2. DOMAIN <<>> = {} /\ <<>> \in [{} -> SUBSET {}]
    OBVIOUS
  <2> QED BY <2>1, <2>2 DEF BucketInv
<1>3. ProvingEnds(<<>>, {"drift"}) = {}
  BY DEF ProvingEnds
<1> QED BY <1>1, <1>2, <1>3 DEF ConsumerInv, CandidateInv, EmptyConsumer

-----------------------------------------------------------------------------
(***************************************************************************)
(* What the marker consumer's verdict says of the stream.                  *)
(***************************************************************************)

\* Two clean turns with the same end are one.
LEMMA OneStart ==
  ASSUME NEW S, NEW str \in Seq(S), NEW s, NEW s2, NEW e,
         <<s, e>> \in CleanTurns(str, {"drift"}), <<s2, e>> \in CleanTurns(str, {"drift"})
  PROVE  s = s2
<1>1. \A a, b : <<a, e>> \in CleanTurns(str, {"drift"}) /\ <<b, e>> \in CleanTurns(str, {"drift"})
        => ~(a < b)
  BY DEF CleanTurns, CleanBetween, Harmless, IsStart
<1>2. s \in Nat /\ s2 \in Nat
  BY DEF CleanTurns
<1> QED BY <1>1, <1>2

\* What is read without the records of unknown pairs, and with them.
LEMMA DriftProofs ==
  ASSUME NEW S, NEW str \in Seq(S), NEW c
  PROVE  IsProof(c, str, {}) <=>
           IsProof(c, str, {"drift"}) /\ ~\E k \in GapsOf(str) : k > c.start /\ k < c.terminal
<1> DEFINE w == <<c.start, c.terminal>>
<1>1. CleanTurns(str, {}) =
        {x \in CleanTurns(str, {"drift"}) :
           ~\E d \in DriftOf(str) : x[1] < d /\ (x[2] = 0 \/ d < x[2])}
  BY DriftCut
<1>2. ASSUME w \in CleanTurns(str, {"drift"})
      PROVE  \A k \in DOMAIN str : k > c.start /\ k < c.terminal => str[k].kind # "malformed"
  BY <1>2 DEF CleanTurns, CleanBetween, Harmless
<1>3. w \in CleanTurns(str, {"drift"}) =>
        (w \in CleanTurns(str, {}) <=>
           ~\E k \in GapsOf(str) : k > c.start /\ k < c.terminal)
  <2> SUFFICES ASSUME w \in CleanTurns(str, {"drift"})
               PROVE  w \in CleanTurns(str, {}) <=>
                        ~\E k \in GapsOf(str) : k > c.start /\ k < c.terminal
    OBVIOUS
  <2>1. c.start \in Nat /\ c.terminal \in Nat /\ c.terminal # 0 /\ DOMAIN str \subseteq Nat
    BY DEF CleanTurns
  <2>2. \A k \in DOMAIN str : k > c.start /\ k < c.terminal =>
          (k \in GapsOf(str) <=> k \in DriftOf(str))
    BY <1>2 DEF GapsOf, DriftOf
  <2>3. w \in CleanTurns(str, {}) <=> ~\E d \in DriftOf(str) : c.start < d /\ d < c.terminal
    BY <1>1, <2>1
  <2>4. GapsOf(str) \subseteq DOMAIN str /\ DriftOf(str) \subseteq DOMAIN str
    BY DEF GapsOf, DriftOf
  <2> QED BY <2>1, <2>2, <2>3, <2>4
<1>4. w \in CleanTurns(str, {}) => w \in CleanTurns(str, {"drift"})
  BY <1>1
<1> QED BY <1>3, <1>4 DEF IsProof

\* What the consumer's verdict says of the stream.
LEMMA ConsumerProven ==
  ASSUME NEW S, NEW str \in Seq(S), NEW con, ConsumerInv(con, str)
  PROVE  Proven(con, str) <=>
           \E e \in ProvingEnds(str, {}) : \A f \in ProvingEnds(str, {"drift"}) : f <= e
<1> DEFINE c == con.candidate
           hidden == {"drift"}
<1>1. \A e, h : e \in ProvingEnds(str, h) <=>
           \E s, k \in DOMAIN str : IsProof([start |-> s, agent |-> k, terminal |-> e], str, h)
  BY ProofEnds
<1>2. ProvingEnds(str, {}) \subseteq ProvingEnds(str, hidden)
  BY <1>1, DriftProofs
<1>3. \/ c = NoCandidate /\ ProvingEnds(str, hidden) = {}
      \/ /\ IsProof(c, str, hidden) /\ c.terminal \in ProvingEnds(str, hidden)
         /\ \A f \in ProvingEnds(str, hidden) : f <= c.terminal
  BY DEF ConsumerInv, CandidateInv
<1>4. CASE c = NoCandidate /\ ProvingEnds(str, hidden) = {}
  BY <1>2, <1>4 DEF Proven
<1>5. CASE /\ IsProof(c, str, hidden) /\ c.terminal \in ProvingEnds(str, hidden)
           /\ \A f \in ProvingEnds(str, hidden) : f <= c.terminal
  <2>1. <<c.start, c.terminal>> \in CleanTurns(str, hidden)
    BY <1>5 DEF IsProof
  <2>2. c # NoCandidate
    BY <2>1 DEF CleanTurns, NoCandidate
  <2>3. Proven(con, str) <=> IsProof(c, str, {})
    BY <1>5, <2>2, DriftProofs DEF Proven, IntegrityViolation
  <2>4. ASSUME IsProof(c, str, {})
        PROVE  c.terminal \in ProvingEnds(str, {})
    <3>1. c.start \in 1 .. c.terminal - 1 /\ IsStart(str[c.start]) /\ c.terminal \in DOMAIN str
      BY <2>1 DEF CleanTurns
    <3> QED BY <2>4, <3>1 DEF IsProof, ProvingEnds
  <2>5. ASSUME NEW e \in ProvingEnds(str, {}), \A f \in ProvingEnds(str, hidden) : f <= e
        PROVE  IsProof(c, str, {})
    <3>1. e = c.terminal
      <4>1. e <= c.terminal /\ c.terminal <= e
        BY <1>2, <1>5, <2>5
      <4>2. e \in Nat /\ c.terminal \in Nat
        BY <2>1 DEF CleanTurns, ProvingEnds
      <4> QED BY <4>1, <4>2
    <3>2. PICK s, k \in DOMAIN str : IsProof([start |-> s, agent |-> k, terminal |-> e], str, {})
      BY <1>1
    <3>3. IsProof([start |-> s, agent |-> k, terminal |-> e], str, hidden)
      BY <3>2, DriftProofs
    <3>4. <<s, e>> \in CleanTurns(str, hidden)
      BY <3>3 DEF IsProof
    <3>5. s = c.start
      BY <2>1, <3>1, <3>4, OneStart
    <3>6. <<c.start, c.terminal>> \in CleanTurns(str, {})
      BY <3>1, <3>2, <3>5 DEF IsProof
    <3> QED BY <1>5, <3>6 DEF IsProof
  <2> QED BY <1>5, <2>3, <2>4, <2>5
<1> QED BY <1>3, <1>4, <1>5

-----------------------------------------------------------------------------
(***************************************************************************)
(* The dispatch correlator: what its occurrences say of the stream.        *)
(***************************************************************************)

\* What the records that may be read look like.
LEMMA LineFacts ==
  ASSUME NEW S, S \subseteq AllLines
  PROVE  /\ RecordSet(S)
         /\ \A r \in S : r.kind = "task_complete" => r.last \in Bodies \cup {NoBody}
         /\ \A r \in S : r.kind = "agent_message" => r.body \in Bodies
<1>1. ASSUME NEW r \in AllLines
      PROVE  /\ r.kind \in BoundaryKinds \cup {"malformed", "drift", "other"}
             /\ r.id \in TurnIds \cup {NoId}
             /\ r.kind = "task_complete" => r.last \in Bodies \cup {NoBody}
             /\ r.kind = "agent_message" => r.body \in Bodies
  BY DEF AllLines, UserLines, AgentLines, CompleteLines, BoundaryKinds, TerminalKinds
<1> QED BY <1>1 DEF RecordSet

\* The body a turn serves.
LEMMA DecisionFacts ==
  ASSUME NEW str, NEW messages, \A k \in messages : str[k].body \in Bodies, NEW last
  PROVE  /\ Decision(str, messages, last).body # NoBody => SaidFinally(str, messages, last)
         /\ SaidFinally(str, messages, last) =>
                 /\ ~Decision(str, messages, last).refused
                 /\ Decision(str, messages, last).body = last
<1> DEFINE explicit == {str[k].body : k \in {j \in messages : str[j].final}}
           legacy == {str[k].body : k \in {j \in messages : str[j].body = last}}
           finals == IF explicit # {} THEN explicit ELSE legacy
           served == \E k \in messages : /\ str[k].body = last
                                         /\ str[k].final \/ \A j \in messages : ~str[j].final
<1>1. last \in finals <=> served
  <2>1. CASE explicit # {}
    <3>1. PICK i \in messages : str[i].final
      BY <2>1
    <3>2. last \in explicit <=> \E k \in messages : str[k].body = last /\ str[k].final
      OBVIOUS
    <3> QED BY <2>1, <3>1, <3>2
  <2>2. CASE explicit = {}
    <3>1. \A i \in messages : ~str[i].final
      BY <2>2
    <3>2. last \in legacy <=> \E k \in messages : str[k].body = last
      OBVIOUS
    <3> QED BY <2>2, <3>1, <3>2
  <2> QED BY <2>1, <2>2
<1>2. Decision(str, messages, last) =
        CASE finals = {} -> [refused |-> FALSE, body |-> NoBody]
          [] finals # {} /\ last \in finals -> [refused |-> FALSE, body |-> last]
          [] OTHER -> [refused |-> TRUE, body |-> NoBody]
  BY DEF Decision
<1> HIDE DEF finals, served
<1>3. last \in finals => /\ ~Decision(str, messages, last).refused
                          /\ Decision(str, messages, last).body = last
  <2>1. last \in finals => Decision(str, messages, last) = [refused |-> FALSE, body |-> last]
    BY <1>2
  <2> QED BY <2>1
<1>4. last \notin finals => Decision(str, messages, last).body = NoBody
  BY <1>2
<1> QED BY <1>1, <1>3, <1>4 DEF served, SaidFinally

\* A user message after the marker is another delivery.
Interrupted(str, bucket, m) ==
  \E k \in OfKind(str, bucket, "user_message") : k > m /\ ~SameDelivery(str[m], str[k])

\* What the occurrence of a cleanly closed turn says.
ClosedCases(str, bucket, turn, s) ==
  LET m == Min(TaskLines(str, bucket))
      decision == Decision(str, MessagesAfter(str, bucket, m, turn),
                           str[turn.terminalLine].last)
      o == Occurrence(str, bucket, turn)
      lost == \/ Interrupted(str, bucket, m)
              \/ turn.terminal = "turn_aborted"
              \/ decision.refused
  IN  /\ lost => o.text = NoBody
      /\ ~lost => o.text = decision.body
      /\ (~lost /\ decision.body # NoBody) =>
           o = [marker |-> m, start |-> s, terminal |-> turn.terminalLine,
                status |-> "complete", reason |-> "none", text |-> decision.body]
      /\ o.status = "complete" =>
           ~lost /\ o.marker = m /\ o.start = s /\ o.terminal = turn.terminalLine

\* What a bucket says of a turn that was closed and given the task.
LEMMA OccurrenceCases ==
  ASSUME NEW str, NEW bucket, NEW turn, Activity(turn) = "closed",
         NEW s \in Nat, OfKind(str, bucket, "task_started") = {s},
         OfKind(str, bucket, "malformed") = {}
  PROVE  ClosedCases(str, bucket, turn, s)
<1> DEFINE m == Min(TaskLines(str, bucket))
           decision == Decision(str, MessagesAfter(str, bucket, m, turn),
                                str[turn.terminalLine].last)
           interrupted == \E k \in OfKind(str, bucket, "user_message") :
                            k > m /\ ~SameDelivery(str[m], str[k])
           starts == OfKind(str, bucket, "task_started")
           outcome(status, reason, text) ==
             [marker |-> m, start |-> IF starts = {} THEN 0 ELSE Max(starts),
              terminal |-> turn.terminalLine, status |-> status, reason |-> reason,
              text |-> text]
<1>1. ~turn.superseded /\ turn.errors = {} /\ turn.terminal # "none"
  BY DEF Activity
<1>2. InWindowErrors(str, bucket, m, turn) = {}
  BY DEF InWindowErrors
<1>3. Occurrence(str, bucket, turn) =
        IF interrupted THEN outcome("unavailable", "ambiguous", NoBody)
        ELSE IF turn.terminal = "turn_aborted" THEN outcome("aborted", "unavailable", NoBody)
        ELSE IF decision.refused THEN outcome("unavailable", "unavailable", NoBody)
        ELSE outcome("complete", IF decision.body = NoBody THEN "unavailable" ELSE "none",
                     decision.body)
  BY <1>1, <1>2 DEF Occurrence
<1>4. (IF starts = {} THEN 0 ELSE Max(starts)) = s
  <2>1. Max({s}) = s
    BY DEF Max
  <2> QED BY <2>1
<1>5. interrupted <=> Interrupted(str, bucket, m)
  BY DEF Interrupted
<1> HIDE DEF interrupted, starts, m, decision
<1>6. CASE interrupted \/ turn.terminal = "turn_aborted" \/ decision.refused
  BY <1>3, <1>5, <1>6 DEF ClosedCases, m, decision
<1>7. CASE ~(interrupted \/ turn.terminal = "turn_aborted" \/ decision.refused)
  BY <1>3, <1>4, <1>5, <1>7 DEF ClosedCases, m, decision
<1> QED BY <1>6, <1>7

\* The occurrence of a turn that ends with the last line is the only answer
\* that ends there, if it can be certified; otherwise there is none.  If it is
\* complete, the turn is whole.
ClosedWell(str, bucket, turn) ==
  /\ TaskLines(str, bucket) # {} /\ Certifiable(Occurrence(str, bucket, turn)) =>
       Occurrence(str, bucket, turn) \in AnswerOccurrences(str, {"drift"})
  /\ \A o \in AnswerOccurrences(str, {"drift"}) : o.terminal = Len(str) =>
       TaskLines(str, bucket) # {} /\ o = Occurrence(str, bucket, turn)
  /\ TaskLines(str, bucket) # {} /\ Occurrence(str, bucket, turn).status = "complete" =>
       IsWhole(Occurrence(str, bucket, turn), str, {"drift"})

\* A closed turn leaves an occurrence that can be certified exactly if the
\* turn has an answer.
LEMMA ClosedOccurrence ==
  ASSUME NEW S, S \subseteq AllLines, NEW str \in Seq(S), NEW r \in S,
         NEW s \in OpenStarts(str, {"drift"}), IsTerminal(r), r.id = str[s].id,
         NEW turn, turn.terminal = r.kind, Activity(turn) = "closed",
         turn.startLine = s, turn.terminalLine = Len(str) + 1
  PROVE  ClosedWell(Append(str, r), KeptLines(str, s) \cup {Len(str) + 1}, turn)
<1> DEFINE str2 == Append(str, r)
           bucket == KeptLines(str, s) \cup {Len(str) + 1}
           new == Len(str) + 1
           U == {x \in s + 1 .. Len(str) : str2[x].kind = "user_message"}
           G == {x \in s + 1 .. Len(str) : str2[x].kind = "agent_message" /\ IsNews(str2, s, x)}
           T == {x \in U : str2[x].text = "task"}
           m == Min(TaskLines(str2, bucket))
           said == Said(str2, s, m, new)
           occ == Occurrence(str2, bucket, turn)
<1>1. /\ DOMAIN str = 1 .. Len(str) /\ Len(str) \in Nat
      /\ DOMAIN str2 = 1 .. new /\ str2 \in Seq(S)
      /\ \A k \in 1 .. Len(str) : str2[k] = str[k]
      /\ str2[new] = r /\ s \in DOMAIN str /\ IsStart(str[s])
  BY Appended DEF OpenStarts
<1>2. <<s, new>> \in CleanTurns(str2, {"drift"})
  BY CleanTurnsAppend
<1> HIDE DEF str2
<1>3. /\ r.kind = "task_complete" => r.last \in Bodies \cup {NoBody}
      /\ \A x \in DOMAIN str2 : str2[x].kind = "agent_message" => str2[x].body \in Bodies
      /\ r.kind \in {"task_complete", "turn_aborted"}
  <2>1. r.kind = "task_complete" => r.last \in Bodies \cup {NoBody}
    BY LineFacts
  <2>2. \A x \in DOMAIN str2 : str2[x].kind = "agent_message" => str2[x].body \in Bodies
    <3>1. \A x \in DOMAIN str2 : str2[x] \in S
      BY <1>1
    <3> QED BY <3>1, LineFacts
  <2> QED BY <2>1, <2>2 DEF IsTerminal, TerminalKinds
<1>4. \A x \in bucket : x = s \/ x = new \/ (x \in s + 1 .. Len(str))
  BY <1>1 DEF KeptLines
<1>5. str2[s].kind = "task_started" /\ str2[new].kind \in TerminalKinds
  BY <1>1 DEF IsStart, IsTerminal
<1>6. \A x \in s + 1 .. Len(str) :
        x \in bucket <=> \/ str2[x].kind = "user_message"
                         \/ str2[x].kind = "agent_message" /\ IsNews(str2, s, x)
  BY <1>1 DEF KeptLines, IsNews
<1> HIDE DEF bucket
<1>7. /\ OfKind(str2, bucket, "user_message") = U /\ OfKind(str2, bucket, "agent_message") = G
      /\ OfKind(str2, bucket, "malformed") = {}
  BY <1>4, <1>5, <1>6 DEF OfKind, TerminalKinds
<1>8. OfKind(str2, bucket, "task_started") = {s}
  <2>1. s \in bucket
    BY <1>1 DEF KeptLines, bucket
  <2> QED BY <1>4, <1>5, <1>6, <2>1 DEF OfKind, TerminalKinds
<1>9. TaskLines(str2, bucket) = T
  BY <1>7 DEF TaskLines
<1>10. /\ T \in SUBSET (s + 1 .. Len(str)) /\ s \in Nat
       /\ T # {} => m \in T /\ \A j \in T : m <= j
  <2>1. T \in SUBSET (s + 1 .. Len(str)) /\ T \in SUBSET Nat /\ s \in Nat
    BY <1>1
  <2> HIDE DEF T
  <2> QED BY <1>9, <2>1, MinFacts
<1> HIDE DEF m
<1>11. ASSUME T # {}
       PROVE  MessagesAfter(str2, bucket, m, turn) = said
  <2>1. m \in s + 1 .. Len(str)
    BY <1>10, <1>11
  <2>2. MessagesAfter(str2, bucket, m, turn) = {k \in G : k > m /\ k < new}
    BY <1>7 DEF MessagesAfter
  <2>3. \A k : k \in m + 1 .. new - 1 <=> k \in s + 1 .. Len(str) /\ k > m /\ k < new
    BY <1>1, <1>10, <2>1
  <2> QED BY <2>2, <2>3 DEF Said
<1>12. T # {} => \A k \in said : str2[k].body \in Bodies
  <2>1. ASSUME T # {}, NEW k \in said
        PROVE  str2[k].body \in Bodies
    <3>1. m \in s + 1 .. Len(str)
      BY <1>10, <2>1
    <3>2. k \in DOMAIN str2 /\ str2[k].kind = "agent_message"
      BY <1>1, <1>10, <2>1, <3>1 DEF Said
    <3> QED BY <1>3, <3>2
  <2> QED BY <2>1
<1> HIDE DEF said
<1> DEFINE clean == \A u \in U : u > m => SameDelivery(str2[m], str2[u])
           last == r.last
           served == SaidFinally(str2, said, last)
           decision == Decision(str2, said, last)
           answer == [marker |-> m, start |-> s, terminal |-> new, status |-> "complete",
                      reason |-> "none", text |-> r.last]
<1> HIDE DEF U, G, T
<1>13. ASSUME T # {}
       PROVE  /\ decision.body # NoBody => served
              /\ served => ~decision.refused /\ decision.body = last
  <2> HIDE DEF last
  <2>1. \A k \in said : str2[k].body \in Bodies
    BY <1>12, <1>13
  <2>2. ASSUME decision.body # NoBody PROVE served
    BY <2>1, <2>2, DecisionFacts
  <2>3. ASSUME served PROVE ~decision.refused
    BY <2>1, <2>3, DecisionFacts
  <2>4. ASSUME served PROVE decision.body = last
    BY <2>1, <2>4, DecisionFacts
  <2> HIDE DEF served, decision
  <2> QED BY <2>2, <2>3, <2>4
<1> HIDE DEF decision, served
<1>14. ASSUME T # {}
       PROVE  /\ ~clean \/ turn.terminal = "turn_aborted" \/ decision.refused =>
                   occ.text = NoBody
              /\ clean /\ turn.terminal # "turn_aborted" /\ ~decision.refused =>
                   /\ occ.text = decision.body
                   /\ decision.body # NoBody =>
                        occ = [marker |-> m, start |-> s, terminal |-> new,
                               status |-> "complete", reason |-> "none",
                               text |-> decision.body]
              /\ occ.status = "complete" =>
                   /\ clean /\ turn.terminal # "turn_aborted"
                   /\ occ.marker = m /\ occ.start = s /\ occ.terminal = new
  <2>1. decision = Decision(str2, MessagesAfter(str2, bucket, m, turn),
                            str2[turn.terminalLine].last)
    BY <1>1, <1>11, <1>14 DEF decision
  <2>2. m = Min(TaskLines(str2, bucket))
    BY DEF m
  <2>3. clean <=> ~\E k \in OfKind(str2, bucket, "user_message") :
                     k > m /\ ~SameDelivery(str2[m], str2[k])
    BY <1>7
  <2>4. s \in Nat
    BY <1>10
  <2> DEFINE spoilt == \E k \in OfKind(str2, bucket, "user_message") :
                         k > m /\ ~SameDelivery(str2[m], str2[k])
  <2>5. ClosedCases(str2, bucket, turn, s)
    BY <1>7, <1>8, <2>4, OccurrenceCases
  <2>6. spoilt <=> Interrupted(str2, bucket, m)
    BY DEF Interrupted
  <2> HIDE DEF m, decision, clean, spoilt, occ
  <2>7. /\ (spoilt \/ turn.terminal = "turn_aborted" \/ decision.refused) => occ.text = NoBody
        /\ (~spoilt /\ turn.terminal # "turn_aborted" /\ ~decision.refused) =>
             /\ occ.text = decision.body
             /\ decision.body # NoBody =>
                  occ = [marker |-> m, start |-> s, terminal |-> turn.terminalLine,
                         status |-> "complete", reason |-> "none", text |-> decision.body]
        /\ occ.status = "complete" =>
             /\ ~spoilt /\ turn.terminal # "turn_aborted"
             /\ occ.marker = m /\ occ.start = s /\ occ.terminal = turn.terminalLine
    BY <2>1, <2>2, <2>5, <2>6 DEF ClosedCases, occ
  <2>8. turn.terminalLine = new
    OBVIOUS
  <2> QED BY <2>3, <2>7, <2>8 DEF spoilt
\* m is the handover.
<1>15. ASSUME T # {}
       PROVE  clean <=> IsHandover(str2, s, m, new)
  <2>1. /\ m \in T /\ \A j \in T : m <= j
        /\ m \in s + 1 .. Len(str) /\ m \in Nat /\ s < m /\ m < new
    <3>1. m \in T /\ (\A j \in T : m <= j) /\ T \in SUBSET (s + 1 .. Len(str)) /\ s \in Nat
      BY <1>10, <1>15
    <3> QED BY <1>1, <3>1
  <2>2. IsTask(str2[m]) /\ \A k \in s + 1 .. new - 1 :
          /\ str2[k].kind = "user_message" <=> k \in U
          /\ k < m => ~IsTask(str2[k])
    BY <1>1, <2>1 DEF IsTask, U, T
  <2>3. \A k \in U : k \in s + 1 .. new - 1
    BY <1>1 DEF U
  <2> QED BY <2>1, <2>2, <2>3 DEF IsHandover
<1>16. ASSUME NEW h, h \in DOMAIN str2, IsHandover(str2, s, h, new)
       PROVE  T # {} /\ h = m
  <2>1. h \in T /\ \A j \in T : h <= j
    BY <1>1, <1>16 DEF IsHandover, IsTask, T, U
  <2>2. T # {}
    BY <2>1
  <2>3. h \in Nat /\ m \in Nat /\ m <= h /\ h <= m
    <3>1. m \in T /\ T \in SUBSET (s + 1 .. Len(str))
      BY <1>10, <2>2
    <3> QED BY <1>1, <1>10, <2>1, <3>1
  <2> QED BY <2>2, <2>3
<1> HIDE DEF clean, occ
<1>17. ASSUME TaskLines(str2, bucket) # {}, Certifiable(occ)
       PROVE  occ \in AnswerOccurrences(str2, {"drift"})
  <2>1. T # {} /\ occ.text # NoBody
    BY <1>9, <1>17 DEF Certifiable
  <2>2. clean /\ turn.terminal # "turn_aborted" /\ ~decision.refused
    BY <1>14, <2>1
  <2>3. decision.body # NoBody
    BY <1>14, <2>1, <2>2
  <2>4. served /\ decision.body = r.last
    BY <1>13, <2>1, <2>3
  <2>5. occ = answer
    BY <1>14, <2>1, <2>2, <2>3, <2>4
  <2>6. r.kind = "task_complete" /\ r.last \in Bodies
    BY <1>3, <2>2, <2>3, <2>4
  <2>7. IsHandover(str2, s, m, new)
    BY <1>15, <2>1, <2>2
  <2>8. m \in DOMAIN str2 /\ s \in DOMAIN str2 /\ new \in DOMAIN str2
    <3>1. m \in s + 1 .. Len(str)
      BY <1>10, <2>1
    <3> QED BY <1>1, <1>10, <3>1
  <2>9. IsAnswer(answer, str2, {"drift"})
    BY <1>1, <1>2, <2>4, <2>6, <2>7 DEF IsAnswer, served, said
  <2>10. answer \in [marker : DOMAIN str2, start : DOMAIN str2, terminal : DOMAIN str2,
                     status : {"complete"}, reason : {"none"}, text : Bodies]
    BY <2>6, <2>8
  <2> HIDE DEF answer
  <2> QED BY <2>5, <2>9, <2>10 DEF AnswerOccurrences
<1>18. ASSUME NEW o \in AnswerOccurrences(str2, {"drift"}), o.terminal = new
       PROVE  TaskLines(str2, bucket) # {} /\ o = occ
  <2>1. /\ o \in [marker : DOMAIN str2, start : DOMAIN str2, terminal : DOMAIN str2,
                   status : {"complete"}, reason : {"none"}, text : Bodies]
        /\ IsAnswer(o, str2, {"drift"})
    BY DEF AnswerOccurrences
  <2>2. o.start = s
    BY <1>1, <1>2, <1>18, <2>1, OneStart DEF IsAnswer
  <2>3. T # {} /\ o.marker = m /\ IsHandover(str2, s, m, new)
    BY <1>16, <1>18, <2>1, <2>2 DEF IsAnswer
  <2>4. /\ r.kind = "task_complete" /\ r.last = o.text
        /\ SaidFinally(str2, said, o.text)
    BY <1>1, <1>18, <2>1, <2>2, <2>3 DEF IsAnswer, said
  <2>5. served /\ r.last # NoBody
    BY <2>1, <2>4, ContentsAssumption DEF served
  <2>6. ~decision.refused /\ decision.body = r.last
    BY <1>13, <2>3, <2>5
  <2>7. clean /\ turn.terminal # "turn_aborted" /\ ~decision.refused
    BY <1>15, <2>3, <2>4, <2>6
  <2>8. occ = answer
    BY <1>14, <2>3, <2>5, <2>6, <2>7
  <2>9. o = answer
    BY <1>18, <2>1, <2>2, <2>3, <2>4
  <2> QED BY <1>9, <2>3, <2>8, <2>9
<1>19. Len(str2) = new
  BY DEF str2
<1>20. ASSUME TaskLines(str2, bucket) # {}, occ.status = "complete"
       PROVE  IsWhole(occ, str2, {"drift"})
  <2>1. T # {}
    BY <1>9, <1>20
  <2>2. /\ clean /\ turn.terminal # "turn_aborted"
        /\ occ.marker = m /\ occ.start = s /\ occ.terminal = new
    BY <1>14, <1>20, <2>1
  <2>3. IsHandover(str2, s, m, new)
    BY <1>15, <2>1, <2>2
  <2>4. str2[new].kind = "task_complete"
    BY <1>1, <1>3, <2>2
  <2> HIDE DEF new
  <2> QED BY <1>2, <2>2, <2>3, <2>4 DEF IsWhole
<1>21. ClosedWell(str2, bucket, turn)
  BY <1>17, <1>18, <1>19, <1>20 DEF occ, ClosedWell
<1> QED BY <1>21 DEF str2, bucket

\* What a record does to the turn that receives records.
LEMMA PushCurrent ==
  ASSUME NEW S, RecordSet(S), NEW str \in Seq(S), NEW r \in S, r.kind # "drift",
         NEW acc, AccInv(acc, str)
  PROVE  LET acc2 == Push(acc, Len(str) + 1, r)
         IN /\ acc2.current # 0 /\ acc2.current = acc.current =>
                 /\ Current(acc2).startLine = Current(acc).startLine
                 /\ Current(acc2).errors = {} => Current(acc).errors = {}
                 /\ Current(acc2).parseGap => Current(acc).parseGap \/ r.kind = "malformed"
                 /\ ~IsStart(r)
            /\ acc2.current # 0 /\ acc2.current # acc.current =>
                 /\ r.kind \in {"malformed", "task_started", "user_message"}
                 /\ Current(acc2).startLine = Len(str) + 1
                 /\ Current(acc2).errors = {} => r.kind \in {"task_started", "malformed"}
                 /\ Current(acc2).parseGap => r.kind = "malformed"
<1> DEFINE line == Len(str) + 1
           acc2 == Push(acc, line, r)
           stays(a) == /\ a.current = acc.current
                       /\ Current(a).startLine = Current(acc).startLine
                       /\ Current(a).errors = {} => Current(acc).errors = {}
                       /\ Current(a).parseGap => Current(acc).parseGap \/ r.kind = "malformed"
                       /\ ~IsStart(r)
           begins(a) == /\ a.current # acc.current
                        /\ r.kind \in {"malformed", "task_started", "user_message"}
                        /\ Current(a).startLine = line
                        /\ Current(a).errors = {} => r.kind \in {"task_started", "malformed"}
                        /\ Current(a).parseGap => r.kind = "malformed"
<1> SUFFICES acc2.current = 0 \/ stays(acc2) \/ begins(acc2)
  OBVIOUS
<1>1. /\ acc.turns \in Seq(Turns) /\ Len(acc.turns) \in Nat
      /\ DOMAIN acc.turns = 1 .. Len(acc.turns) /\ acc.current \in 0 .. Len(acc.turns)
      /\ acc.explicit \in [TurnIds -> 0 .. Len(acc.turns)]
      /\ acc.current # 0 => InTurn(acc) /\ Current(acc) \in Turns
      /\ acc.current = 0 => ~InTurn(acc)
      /\ \A k \in DOMAIN acc.turns : k # acc.current => acc.turns[k].emitted
  BY CurrentFacts
<1>2. line \in Nat /\ r.id \in TurnIds \cup {NoId}
  BY Appended DEF RecordSet
<1>3. /\ r.kind \in {"malformed", "task_started", "user_message", "agent_message", "other"}
         \/ r.kind \in TerminalKinds
      /\ r.kind \in TerminalKinds => ~IsStart(r)
  BY DEF RecordSet, BoundaryKinds, TerminalKinds, IsStart
<1>4. ASSUME acc.current # 0, NEW code \in BoundaryErrors, ~IsStart(r)
      PROVE  stays(AddError(acc, code))
  <2> DEFINE t == [Current(acc) EXCEPT !.errors = @ \cup {code}]
  <2>1. /\ t \in Turns /\ t.startLine = Current(acc).startLine /\ t.errors # {}
        /\ t.parseGap = Current(acc).parseGap
    BY <1>1, <1>4 DEF Turns
  <2>2. AddError(acc, code) = WithTurn(acc, acc.current, t)
    BY DEF AddError
  <2> HIDE DEF t
  <2>3. /\ WithTurn(acc, acc.current, t).current = acc.current
        /\ Current(WithTurn(acc, acc.current, t)) = t
    BY <1>4, <2>1, WithTurnFacts
  <2> QED BY <1>4, <2>1, <2>2, <2>3
<1>5. ASSUME NEW t \in Turns, t.startLine = line,
             r.kind \in {"malformed", "task_started", "user_message"},
             t.errors = {} => r.kind \in {"task_started", "malformed"},
             t.parseGap => r.kind = "malformed"
      PROVE  begins(Begin(acc, t))
  BY <1>1, <1>5 DEF Begin, Current
<1>6. ~IsStart(r) => stays(acc)
  OBVIOUS
<1> HIDE DEF stays, begins
<1>7. CASE r.kind = "malformed"
  <2>1. acc2 = PushGap(acc, line)
    BY <1>7, PushCases
  <2>2. CASE acc.current # 0
    <3> DEFINE t == [Current(acc) EXCEPT !.parseGap = TRUE]
    <3>1. t \in Turns /\ t.startLine = Current(acc).startLine /\ t.errors = Current(acc).errors
      BY <1>1, <2>2 DEF Turns
    <3>2. acc2 = WithTurn(acc, acc.current, t)
      BY <1>1, <2>1, <2>2 DEF PushGap
    <3> HIDE DEF t
    <3>3. /\ WithTurn(acc, acc.current, t).current = acc.current
          /\ Current(WithTurn(acc, acc.current, t)) = t
      BY <2>2, <3>1, WithTurnFacts
    <3> QED BY <1>7, <3>1, <3>2, <3>3 DEF stays, IsStart
  <2>3. CASE acc.current = 0
    <3> DEFINE t == [NewTurn(NoId, "unbound", line) EXCEPT !.parseGap = TRUE]
    <3>1. t \in Turns /\ t.startLine = line
      BY <1>2 DEF NewTurn, Turns, Modes, TerminalKinds, BoundaryErrors
    <3>2. acc2 = Begin(acc, t)
      BY <1>1, <2>1, <2>3 DEF PushGap
    <3> HIDE DEF t
    <3> QED BY <1>5, <1>7, <3>1, <3>2
  <2> QED BY <2>2, <2>3
<1>8. CASE r.kind = "task_started"
  <2>1. BeginsTurn(acc, acc2, line, r.id)
    BY <1>2, <1>8, PushCases, BeginTurnEffect
  <2> HIDE DEF acc2
  <2>2. acc2.current # acc.current /\ Current(acc2).startLine = line /\ Clean(Current(acc2))
    BY <1>1, <2>1 DEF BeginsTurn
  <2> QED BY <1>8, <2>2 DEF begins, Clean
<1>9. CASE r.kind = "user_message"
  <2>1. acc2 = PushUser(acc, line, r.id)
    BY <1>9, PushCases
  <2>2. CASE Disagrees(acc, r.id)
    <3>1. acc.current # 0
      BY <1>1, <2>2 DEF Disagrees
    <3> QED BY <1>4, <1>9, <2>1, <2>2, <3>1, PushUserCases DEF BoundaryErrors, IsStart
  <2>3. CASE ~InTurn(acc)
    <3> DEFINE t == [NewTurn(NoId, "unbound", line) EXCEPT !.errors = {"orphan-user-message"}]
    <3>1. t \in Turns /\ t.startLine = line /\ t.errors # {} /\ ~t.parseGap
      BY <1>2 DEF NewTurn, Turns, Modes, TerminalKinds, BoundaryErrors
    <3>2. acc2 = Begin(acc, t)
      BY <2>1, <2>3, PushUserCases
    <3> HIDE DEF t
    <3> QED BY <1>5, <1>9, <3>1, <3>2
  <2>4. CASE ~Disagrees(acc, r.id) /\ InTurn(acc)
    <3>1. acc2 = acc
      BY <2>1, <2>4, PushUserCases
    <3> QED BY <1>6, <1>9, <3>1 DEF IsStart
  <2> QED BY <2>2, <2>3, <2>4
<1>10. CASE r.kind = "agent_message"
  <2>1. acc2 = IF Disagrees(acc, r.id) THEN AddError(acc, "agent-message-turn-id-mismatch")
               ELSE acc
    BY <1>10, PushCases DEF PushAgent
  <2>2. Disagrees(acc, r.id) => acc.current # 0
    BY <1>1 DEF Disagrees
  <2>3. "agent-message-turn-id-mismatch" \in BoundaryErrors /\ ~IsStart(r)
    BY <1>10 DEF BoundaryErrors, IsStart
  <2> HIDE DEF acc2
  <2> QED BY <1>4, <1>6, <2>1, <2>2, <2>3
<1>11. CASE r.kind = "other"
  BY <1>6, <1>11, PushCases DEF IsStart
<1>12. CASE r.kind \in TerminalKinds
  <2> DEFINE target == TerminalTarget(acc, r.id)
  <2>1. acc2 = IF TerminalError(acc, r.id) THEN AddError(acc, TerminalErrorCode(acc, r.id))
               ELSE IF target # 0 /\ ~acc.turns[target].emitted
                       /\ acc.turns[target].terminal = "none"
                    THEN Close(acc, target, line, r.kind) ELSE acc
    BY <1>12, PushCases DEF PushTerminal
  <2>2. TerminalError(acc, r.id) => acc.current # 0
    BY DEF TerminalError
  <2>3. TerminalErrorCode(acc, r.id) \in BoundaryErrors
    BY DEF TerminalErrorCode, BoundaryErrors
  <2>4. target # 0 /\ ~acc.turns[target].emitted => target = acc.current
    <3>1. target \in 0 .. Len(acc.turns)
      BY <1>1, <1>2 DEF TerminalTarget
    <3> QED BY <1>1, <3>1
  <2>5. target = acc.current => Close(acc, target, line, r.kind).current = 0
    BY DEF Close
  <2>6. ~IsStart(r)
    BY <1>3, <1>12
  <2> HIDE DEF acc2, target
  <2> QED BY <1>4, <1>6, <2>1, <2>2, <2>3, <2>4, <2>5, <2>6
<1> QED BY <1>3, <1>7, <1>8, <1>9, <1>10, <1>11, <1>12

\* How the lines kept of the current turn change with a record.
LinesGrowth(acc, buckets, str, r) ==
  LET acc2 == Push(acc, Len(str) + 1, r)
      new == Len(str) + 1
      buckets2 == Ingest(str, KnownBuckets(acc2, buckets), TurnOf(acc, acc2, r), r)
      finals == NewlyFinal(acc, acc2)
      lines == LinesOf(acc, buckets)
      lines2 == LinesOf(acc2, EmptiedBuckets(buckets2, finals))
      turn == acc2.turns[acc.current]
  IN /\ finals = {} => lines \subseteq lines2 /\ lines2 \subseteq lines \cup {new}
     /\ finals # {} =>
          /\ finals = {acc.current} /\ acc.current # 0 /\ acc2.current # acc.current
          /\ IsStart(r) \/ IsTerminal(r)
          /\ lines \subseteq buckets2[acc.current]
          /\ buckets2[acc.current] \subseteq lines \cup {new}
          /\ \/ turn.superseded /\ turn.terminalLine = 0
             \/ /\ ~turn.superseded /\ turn.terminal # "none" /\ turn.terminalLine = new
                /\ lines2 = {}
     /\ acc2.current = acc.current => lines \subseteq lines2
     /\ acc2.current # acc.current => lines2 \subseteq {new}
     /\ lines2 \subseteq lines \cup {new}
     /\ r.kind \in {"malformed", "task_started", "user_message"} =>
          acc2.current # 0 /\ new \in lines2

LEMMA LinesStep ==
  ASSUME NEW S, RecordSet(S), NEW str \in Seq(S), NEW r \in S, r.kind # "drift",
         NEW acc, FeedInv(acc, str, {"drift"}),
         NEW buckets, BucketInv(acc, buckets, str)
  PROVE  LinesGrowth(acc, buckets, str, r)
<1> DEFINE new == Len(str) + 1
           acc2 == Push(acc, new, r)
           known == KnownBuckets(acc2, buckets)
           buckets2 == Ingest(str, known, TurnOf(acc, acc2, r), r)
           finals == NewlyFinal(acc, acc2)
           emptied == EmptiedBuckets(buckets2, finals)
           lines == LinesOf(acc, buckets)
           lines2 == LinesOf(acc2, emptied)
           turn == acc2.turns[acc.current]
<1>1. /\ DOMAIN acc.turns = 1 .. Len(acc.turns) /\ Len(acc.turns) \in Nat
      /\ acc.current # 0 =>
           /\ acc.current \in DOMAIN acc.turns /\ ~acc.turns[acc.current].emitted
           /\ acc.turns[acc.current].terminalLine = 0
      /\ acc.current = 0 => ~InTurn(acc)
      /\ \A k \in DOMAIN acc.turns : k # acc.current => acc.turns[k].emitted
  BY CurrentFacts DEF FeedInv, AccInv, Current
<1>2. /\ buckets \in [DOMAIN acc.turns -> SUBSET DOMAIN str]
      /\ new \notin DOMAIN str
  BY Appended DEF BucketInv
<1>3. /\ buckets2 \in [DOMAIN acc2.turns -> SUBSET DOMAIN Append(str, r)]
      /\ \A k \in DOMAIN acc2.turns :
           buckets2[k] = known[k] \cup
             (IF /\ TurnOf(acc, acc2, r) # 0 /\ k = TurnOf(acc, acc2, r)
                 /\ ~(r.kind = "agent_message" /\ IsRepeat(str, known[k], r))
              THEN {new} ELSE {})
  BY <1>2, IngestFacts
<1>4. \A k \in DOMAIN acc2.turns : known[k] = IF k \in DOMAIN acc.turns THEN buckets[k] ELSE {}
  BY <1>2 DEF KnownBuckets
<1>5. /\ \A k \in DOMAIN acc2.turns : k \notin finals => emptied[k] = buckets2[k]
      /\ \A k : k \in finals <=> /\ k \in DOMAIN acc2.turns /\ acc2.turns[k].emitted
                                 /\ ~(k \in DOMAIN acc.turns /\ acc.turns[k].emitted)
  BY <1>3 DEF EmptiedBuckets, NewlyFinal
<1>6. \/ acc2 = acc /\ (Quiet(r) \/ InTurn(acc))
      \/ SpoilsCurrent(acc, acc2)
      \/ BeginsUnbound(acc, acc2)
      \/ IsStart(r) /\ BeginsTurn(acc, acc2, new, r.id)
      \/ IsTerminal(r) /\ ClosesCurrent(acc, acc2, new)
  BY PushEffects
<1>7. /\ r.kind \in {"malformed", "task_started", "user_message"} =>
           ~Quiet(r) /\ ~IsTerminal(r) /\ TurnOf(acc, acc2, r) = acc2.current
      /\ r.kind \in {"malformed", "task_started", "user_message"} => r.kind # "agent_message"
      /\ IsStart(r) => r.kind = "task_started"
  BY TurnOfCases DEF Quiet, IsTerminal, TerminalKinds, IsStart
<1> HIDE DEF acc2, known, buckets2, finals, emptied
<1>8. /\ acc2.current # 0 => acc2.current \in DOMAIN acc2.turns
      /\ acc.current # 0 => acc.current \in DOMAIN acc2.turns
      /\ acc2.current # 0 => ~acc2.turns[acc2.current].emitted
      /\ \A k \in DOMAIN acc2.turns : k \in DOMAIN acc.turns \/ k = acc2.current
      /\ \A k \in DOMAIN acc.turns : k # acc.current => acc2.turns[k] = acc.turns[k]
      /\ acc2.current # acc.current => acc2.current = 0 \/ acc2.current \notin DOMAIN acc.turns
      /\ 0 \notin DOMAIN acc2.turns
  <2>1. CASE acc2 = acc
    BY <1>1, <2>1
  <2>2. CASE SpoilsCurrent(acc, acc2)
    BY <1>1, <2>2 DEF SpoilsCurrent, SameTurnsExcept, Current
  <2>3. CASE BeginsUnbound(acc, acc2)
    BY <1>1, <2>3 DEF BeginsUnbound, Current
  <2>4. CASE BeginsTurn(acc, acc2, new, r.id)
    BY <1>1, <2>4 DEF BeginsTurn, Current
  <2>5. CASE ClosesCurrent(acc, acc2, new)
    BY <1>1, <2>5 DEF ClosesCurrent, SameTurnsExcept
  <2> QED BY <1>6, <2>1, <2>2, <2>3, <2>4, <2>5
<1>9. finals \subseteq {acc.current}
  BY <1>5, <1>8
<1>10. finals # {} =>
         /\ acc.current # 0 /\ acc2.current # acc.current
         /\ IsStart(r) \/ IsTerminal(r)
         /\ \/ turn.superseded /\ turn.terminalLine = 0
            \/ /\ ~turn.superseded /\ turn.terminal # "none" /\ turn.terminalLine = new
               /\ lines2 = {}
  <2> SUFFICES ASSUME acc.current \in finals
               PROVE  /\ acc.current # 0 /\ acc2.current # acc.current
                      /\ IsStart(r) \/ IsTerminal(r)
                      /\ \/ turn.superseded /\ turn.terminalLine = 0
                         \/ /\ ~turn.superseded /\ turn.terminal # "none"
                            /\ turn.terminalLine = new /\ lines2 = {}
    BY <1>9
  <2>1. /\ acc.current \in DOMAIN acc2.turns /\ acc2.turns[acc.current].emitted
        /\ ~(acc.current \in DOMAIN acc.turns /\ acc.turns[acc.current].emitted)
    BY <1>5
  <2>2. acc.current # 0 /\ acc2.current # acc.current /\ acc2 # acc
    <3>1. acc2.current # acc.current
      BY <1>8, <2>1, <1>1
    <3>2. acc.current # 0
      <4>1. acc2.current # 0 => acc2.turns[acc2.current].emitted = FALSE
        BY <1>8
      <4> QED BY <1>1, <1>8, <2>1
    <3> QED BY <3>1, <3>2
  <2>3. ~SpoilsCurrent(acc, acc2) /\ ~BeginsUnbound(acc, acc2)
    BY <2>2 DEF SpoilsCurrent, BeginsUnbound
  <2>4. CASE IsStart(r) /\ BeginsTurn(acc, acc2, new, r.id)
    BY <1>1, <2>2, <2>4 DEF BeginsTurn
  <2>5. CASE IsTerminal(r) /\ ClosesCurrent(acc, acc2, new)
    BY <1>1, <2>2, <2>5 DEF ClosesCurrent, LinesOf
  <2> QED BY <1>6, <2>2, <2>3, <2>4, <2>5
<1>11. finals = {} => acc.current = 0 \/ acc2.current = acc.current
  BY <1>1, <1>5, <1>6, <1>8 DEF SpoilsCurrent, BeginsUnbound, BeginsTurn, ClosesCurrent
<1>12. acc.current # 0 =>
         /\ lines = buckets[acc.current]
         /\ lines \subseteq buckets2[acc.current] /\ buckets2[acc.current] \subseteq lines \cup {new}
  BY <1>1, <1>3, <1>4, <1>8 DEF LinesOf
<1>13. acc2.current # 0 => lines2 = buckets2[acc2.current]
  BY <1>5, <1>8 DEF LinesOf
<1>14. acc2.current = acc.current => lines \subseteq lines2 /\ lines2 \subseteq lines \cup {new}
  BY <1>12, <1>13 DEF LinesOf
<1>15. acc2.current # acc.current => lines2 \subseteq {new}
  <2>1. CASE acc2.current = 0
    BY <2>1 DEF LinesOf
  <2>2. CASE acc2.current # 0 /\ acc2.current # acc.current
    <3>1. known[acc2.current] = {}
      BY <1>4, <1>8, <2>2
    <3> QED BY <1>3, <1>8, <1>13, <2>2, <3>1
  <2> QED BY <2>1, <2>2
<1>16. r.kind \in {"malformed", "task_started", "user_message"} =>
         acc2.current # 0 /\ new \in lines2
  <2> SUFFICES ASSUME r.kind \in {"malformed", "task_started", "user_message"}
               PROVE  acc2.current # 0 /\ new \in lines2
    OBVIOUS
  <2>1. acc2.current # 0
    BY <1>1, <1>6, <1>7 DEF SpoilsCurrent, BeginsUnbound, BeginsTurn
  <2> QED BY <1>3, <1>7, <1>8, <1>13, <2>1
<1>17. acc.current = 0 => lines = {}
  BY DEF LinesOf
<1> HIDE DEF lines, lines2, turn
<1>18. /\ finals = {} => lines \subseteq lines2 /\ lines2 \subseteq lines \cup {new}
       /\ finals # {} =>
            /\ finals = {acc.current} /\ acc.current # 0 /\ acc2.current # acc.current
            /\ IsStart(r) \/ IsTerminal(r)
            /\ lines \subseteq buckets2[acc.current]
            /\ buckets2[acc.current] \subseteq lines \cup {new}
            /\ \/ turn.superseded /\ turn.terminalLine = 0
               \/ /\ ~turn.superseded /\ turn.terminal # "none" /\ turn.terminalLine = new
                  /\ lines2 = {}
       /\ lines2 \subseteq lines \cup {new}
  BY <1>9, <1>10, <1>11, <1>12, <1>14, <1>15, <1>17
<1> QED BY <1>14, <1>15, <1>16, <1>18
        DEF LinesGrowth, acc2, known, buckets2, finals, emptied, lines, lines2, turn

\* The lines of the current turn have all that counts against it.
LEMMA OpenStep ==
  ASSUME NEW S, RecordSet(S), NEW str \in Seq(S), NEW r \in S, r.kind # "drift",
         NEW acc, FeedInv(acc, str, {"drift"}),
         NEW buckets, BucketInv(acc, buckets, str), LinesGrowth(acc, buckets, str, r),
         OpenInv(acc, LinesOf(acc, buckets), str)
  PROVE  LET acc2 == Push(acc, Len(str) + 1, r)
             buckets2 == Ingest(str, KnownBuckets(acc2, buckets), TurnOf(acc, acc2, r), r)
             emptied == EmptiedBuckets(buckets2, NewlyFinal(acc, acc2))
         IN OpenInv(acc2, LinesOf(acc2, emptied), Append(str, r))
<1> DEFINE new == Len(str) + 1
           str2 == Append(str, r)
           acc2 == Push(acc, new, r)
           buckets2 == Ingest(str, KnownBuckets(acc2, buckets), TurnOf(acc, acc2, r), r)
           emptied == EmptiedBuckets(buckets2, NewlyFinal(acc, acc2))
           lines == LinesOf(acc, buckets)
           lines2 == LinesOf(acc2, emptied)
           start == Current(acc).startLine
<1>1. /\ DOMAIN str = 1 .. Len(str) /\ Len(str) \in Nat /\ Len(str2) = new
      /\ DOMAIN str2 = 1 .. new
      /\ \A k \in 1 .. Len(str) : str2[k] = str[k]
      /\ str2[new] = r
  BY Appended
<1>2. /\ acc2.current = acc.current => lines \subseteq lines2
      /\ acc2.current # acc.current => lines2 \subseteq {new}
      /\ lines2 \subseteq lines \cup {new}
      /\ r.kind \in {"malformed", "task_started", "user_message"} => new \in lines2
  BY DEF LinesGrowth
<1>3. /\ acc2.current # 0 /\ acc2.current = acc.current =>
           /\ Current(acc2).startLine = start
           /\ Current(acc2).errors = {} => Current(acc).errors = {}
           /\ Current(acc2).parseGap => Current(acc).parseGap \/ r.kind = "malformed"
           /\ ~IsStart(r)
      /\ acc2.current # 0 /\ acc2.current # acc.current =>
           /\ r.kind \in {"malformed", "task_started", "user_message"}
           /\ Current(acc2).startLine = new
           /\ Current(acc2).errors = {} => r.kind \in {"task_started", "malformed"}
           /\ Current(acc2).parseGap => r.kind = "malformed"
  BY PushCurrent DEF FeedInv
<1>4. acc.current # 0 => lines \subseteq 1 .. Len(str)
  <2>1. acc.current # 0 => acc.current \in DOMAIN acc.turns
    BY CurrentFacts DEF FeedInv
  <2> QED BY <1>1, <2>1 DEF LinesOf, BucketInv
<1>5. acc.current # 0 =>
        /\ start \in lines /\ lines \subseteq start .. Len(str)
        /\ \A k \in start .. Len(str) : str[k].kind \in {"malformed", "user_message"} => k \in lines
        /\ \A k \in start + 1 .. Len(str) : ~IsStart(str[k])
        /\ Current(acc).errors = {} => str[start].kind \in {"task_started", "malformed"}
        /\ Current(acc).parseGap => \E k \in lines : str[k].kind = "malformed"
  BY DEF OpenInv
<1> SUFFICES OpenInv(acc2, lines2, str2)
  OBVIOUS
<1> HIDE DEF acc2, str2, lines, lines2, emptied, start
<1>6. CASE acc2.current # 0 /\ acc2.current = acc.current
  <2>1. /\ start \in 1 .. Len(str) /\ acc.current # 0
        /\ \A k \in start .. new : k = new \/ k \in start .. Len(str)
        /\ \A k \in start + 1 .. new : k = new \/ k \in start + 1 .. Len(str)
        /\ \A k \in start .. Len(str) : str2[k] = str[k]
    BY <1>1, <1>4, <1>5, <1>6
  <2>2. start \in lines2 /\ lines2 \subseteq start .. new
    BY <1>1, <1>2, <1>5, <1>6, <2>1
  <2>3. \A k \in start .. new : str2[k].kind \in {"malformed", "user_message"} => k \in lines2
    BY <1>1, <1>2, <1>5, <1>6, <2>1
  <2>4. \A k \in start + 1 .. new : ~IsStart(str2[k])
    <3>1. \A k \in start + 1 .. Len(str) : k \in start .. Len(str)
      BY <2>1
    <3> QED BY <1>1, <1>3, <1>5, <1>6, <2>1, <3>1
  <2>5. Current(acc2).errors = {} => str2[start].kind \in {"task_started", "malformed"}
    BY <1>3, <1>5, <1>6, <1>1, <2>1
  <2>6. Current(acc2).parseGap => \E k \in lines2 : str2[k].kind = "malformed"
    <3>1. CASE r.kind = "malformed"
      BY <1>1, <1>2, <3>1
    <3>2. CASE Current(acc).parseGap
      <4>1. PICK k \in lines : str[k].kind = "malformed"
        BY <1>5, <2>1, <3>2
      <4> QED BY <1>1, <1>2, <1>4, <1>6, <2>1, <4>1
    <3> QED BY <1>3, <1>6, <3>1, <3>2
  <2> QED BY <1>1, <1>3, <1>6, <2>2, <2>3, <2>4, <2>5, <2>6 DEF OpenInv
<1>7. CASE acc2.current # 0 /\ acc2.current # acc.current
  <2>1. lines2 = {new} /\ Current(acc2).startLine = new
    BY <1>2, <1>3, <1>7
  <2>2. \A k \in new .. new : k = new
    BY <1>1
  <2>3. \A k \in new + 1 .. new : FALSE
    BY <1>1
  <2>4. {new} \subseteq new .. new
    BY <1>1
  <2> QED BY <1>1, <1>3, <1>7, <2>1, <2>2, <2>3, <2>4 DEF OpenInv
<1>8. CASE acc2.current = 0
  BY <1>8 DEF OpenInv
<1> QED BY <1>6, <1>7, <1>8

\* The answers after one more record: at most those that end with it are new.
LEMMA AnswersAppend ==
  ASSUME NEW S, NEW str \in Seq(S), NEW r \in S, NEW hidden
  PROVE  /\ \A o \in AnswerOccurrences(str, hidden) :
              o \in AnswerOccurrences(Append(str, r), hidden) /\ o.terminal \in 1 .. Len(str)
         /\ \A o \in AnswerOccurrences(Append(str, r), hidden) :
              \/ o \in AnswerOccurrences(str, hidden)
              \/ /\ o.terminal = Len(str) + 1 /\ o.start \in OpenStarts(str, hidden)
                 /\ IsTerminal(r) /\ r.id = str[o.start].id
<1> DEFINE str2 == Append(str, r)
           new == Len(str) + 1
<1>1. /\ DOMAIN str = 1 .. Len(str) /\ Len(str) \in Nat
      /\ DOMAIN str2 = 1 .. new
      /\ \A k \in 1 .. Len(str) : str2[k] = str[k]
  BY Appended
<1>2. CleanTurns(str2, hidden) =
           CleanTurns(str, hidden) \cup
           {<<s, new>> : s \in {x \in OpenStarts(str, hidden) :
                                           IsTerminal(r) /\ r.id = str[x].id}}
  BY CleanTurnsAppend
<1> HIDE DEF str2
<1>3. \A s, e : <<s, e>> \in CleanTurns(str, hidden) =>
        s \in DOMAIN str /\ e \in DOMAIN str /\ s < e
  BY DEF CleanTurns
<1>4. ASSUME NEW o, <<o.start, o.terminal>> \in CleanTurns(str, hidden), o.marker \in Nat
      PROVE  IsAnswer(o, str2, hidden) <=> IsAnswer(o, str, hidden)
  <2> DEFINE s == o.start
             e == o.terminal
             m == o.marker
  <2>1. /\ s \in DOMAIN str /\ e \in DOMAIN str /\ e \in 1 .. Len(str) + 1
        /\ str2[e] = str[e] /\ <<s, e>> \in CleanTurns(str2, hidden)
    BY <1>1, <1>2, <1>3, <1>4
  <2>2. CASE m \in s + 1 .. e - 1
    <3>1. /\ IsHandover(str2, s, m, e) <=> IsHandover(str, s, m, e)
          /\ Said(str2, s, m, e) = Said(str, s, m, e)
      BY <2>1, <2>2, HandoverAppend DEF str2
    <3>2. \A k \in Said(str, s, m, e) : str2[k] = str[k]
      BY <1>1, <2>1, <2>2 DEF Said
    <3>3. SaidFinally(str2, Said(str, s, m, e), o.text)
            <=> SaidFinally(str, Said(str, s, m, e), o.text)
      BY <3>2 DEF SaidFinally
    <3> QED BY <1>4, <2>1, <3>1, <3>3 DEF IsAnswer
  <2>3. CASE m \notin s + 1 .. e - 1
    <3>1. ~IsHandover(str2, s, m, e) /\ ~IsHandover(str, s, m, e)
      BY <1>1, <1>4, <2>1, <2>3 DEF IsHandover
    <3> QED BY <3>1 DEF IsAnswer
  <2> QED BY <2>2, <2>3
<1>5. ASSUME NEW o \in AnswerOccurrences(str, hidden)
      PROVE  o \in AnswerOccurrences(str2, hidden) /\ o.terminal \in 1 .. Len(str)
  <2>1. /\ o \in [marker : DOMAIN str, start : DOMAIN str, terminal : DOMAIN str,
                 status : {"complete"}, reason : {"none"}, text : Bodies]
        /\ IsAnswer(o, str, hidden)
    BY DEF AnswerOccurrences
  <2>2. o \in [marker : DOMAIN str2, start : DOMAIN str2, terminal : DOMAIN str2,
               status : {"complete"}, reason : {"none"}, text : Bodies]
    <3>1. DOMAIN str \subseteq DOMAIN str2
      BY <1>1
    <3> QED BY <2>1, <3>1
  <2>3. o.marker \in Nat /\ <<o.start, o.terminal>> \in CleanTurns(str, hidden)
    BY <1>1, <2>1 DEF IsAnswer
  <2>4. IsAnswer(o, str2, hidden)
    BY <1>4, <2>1, <2>3
  <2>5. o.terminal \in 1 .. Len(str)
    BY <1>1, <2>1
  <2> QED BY <2>2, <2>4, <2>5 DEF AnswerOccurrences
<1>6. ASSUME NEW o \in AnswerOccurrences(str2, hidden)
      PROVE  \/ o \in AnswerOccurrences(str, hidden)
             \/ /\ o.terminal = new /\ o.start \in OpenStarts(str, hidden)
                /\ IsTerminal(r) /\ r.id = str[o.start].id
  <2>1. /\ o \in [marker : DOMAIN str2, start : DOMAIN str2, terminal : DOMAIN str2,
                 status : {"complete"}, reason : {"none"}, text : Bodies]
        /\ IsAnswer(o, str2, hidden)
    BY DEF AnswerOccurrences
  <2>2. <<o.start, o.terminal>> \in CleanTurns(str2, hidden) /\ o.marker \in Nat
    BY <1>1, <2>1 DEF IsAnswer
  <2>3. CASE <<o.start, o.terminal>> \in CleanTurns(str, hidden)
    <3>1. IsAnswer(o, str, hidden)
      BY <1>4, <2>1, <2>2, <2>3
    <3>2. o.start \in DOMAIN str /\ o.terminal \in DOMAIN str
      BY <1>3, <2>3
    <3>3. o.marker \in DOMAIN str
      BY <1>1, <2>2, <3>1, <3>2 DEF IsAnswer, IsHandover
    <3>4. o \in [marker : DOMAIN str, start : DOMAIN str, terminal : DOMAIN str,
                 status : {"complete"}, reason : {"none"}, text : Bodies]
      BY <2>1, <3>2, <3>3
    <3> QED BY <3>1, <3>4 DEF AnswerOccurrences
  <2>4. CASE <<o.start, o.terminal>> \notin CleanTurns(str, hidden)
    BY <1>2, <2>2, <2>4
  <2> QED BY <2>3, <2>4
<1> QED BY <1>5, <1>6 DEF str2

\* A whole turn stays one.
LEMMA WholeAppend ==
  ASSUME NEW S, NEW str \in Seq(S), NEW r \in S, NEW hidden,
         NEW o, IsWhole(o, str, hidden), o.marker \in Nat
  PROVE  IsWhole(o, Append(str, r), hidden)
<1> DEFINE str2 == Append(str, r)
<1>1. /\ DOMAIN str = 1 .. Len(str) /\ Len(str) \in Nat
      /\ \A k \in 1 .. Len(str) : str2[k] = str[k]
  BY Appended
<1>2. /\ o.start \in DOMAIN str /\ o.terminal \in DOMAIN str
      /\ o.start < o.marker /\ o.marker < o.terminal
      /\ <<o.start, o.terminal>> \in CleanTurns(str2, hidden)
  <2>1. /\ <<o.start, o.terminal>> \in CleanTurns(str, hidden)
        /\ o.start < o.marker /\ o.marker < o.terminal
    BY DEF IsWhole, IsHandover
  <2>2. <<o.start, o.terminal>> \in (DOMAIN str) \X (DOMAIN str)
    BY <2>1 DEF CleanTurns
  <2>3. CleanTurns(str, hidden) \subseteq CleanTurns(str2, hidden)
    BY CleanTurnsAppend
  <2> HIDE DEF str2
  <2> QED BY <2>1, <2>2, <2>3
<1>3. o.marker \in o.start + 1 .. o.terminal - 1 /\ o.terminal \in 1 .. Len(str) + 1
  BY <1>1, <1>2
<1>4. IsHandover(str2, o.start, o.marker, o.terminal)
  BY <1>2, <1>3, HandoverAppend DEF IsWhole
<1> HIDE DEF str2
<1> QED BY <1>1, <1>2, <1>4 DEF IsWhole, str2

\* Where an occurrence comes from, and what its status says of its turn.
LEMMA OccurrenceShape ==
  ASSUME NEW str, NEW bucket \in SUBSET Nat, NEW turn, TaskLines(str, bucket) # {}
  PROVE  LET o == Occurrence(str, bucket, turn)
         IN /\ IsOccurrence(o)
            /\ o.marker \in TaskLines(str, bucket)
            /\ \A k \in TaskLines(str, bucket) : o.marker <= k
            /\ o.terminal = turn.terminalLine
            /\ o.start = IF OfKind(str, bucket, "task_started") = {} THEN 0
                         ELSE Max(OfKind(str, bucket, "task_started"))
            /\ Certifiable(o) => o.status = "complete"
            /\ o.status = "complete" => Activity(turn) = "closed" /\ ~turn.superseded
            /\ o.status = "pending" =>
                 /\ turn.terminal = "none" /\ ~turn.superseded /\ turn.errors = {}
                 /\ InWindowErrors(str, bucket, o.marker, turn) = {}
                 /\ \A k \in OfKind(str, bucket, "user_message") :
                      k > o.marker => SameDelivery(str[o.marker], str[k])
<1> DEFINE o == Occurrence(str, bucket, turn)
           m == Min(TaskLines(str, bucket))
           starts == OfKind(str, bucket, "task_started")
           from == IF starts = {} THEN 0 ELSE Max(starts)
           decision == Decision(str, MessagesAfter(str, bucket, m, turn),
                                str[turn.terminalLine].last)
           outcome(status, reason, text) ==
             [marker |-> m, start |-> from, terminal |-> turn.terminalLine, status |-> status,
              reason |-> reason, text |-> text]
           interrupted == \E k \in OfKind(str, bucket, "user_message") :
                            k > m /\ ~SameDelivery(str[m], str[k])
           unreadable == turn.errors # {} \/ InWindowErrors(str, bucket, m, turn) # {}
<1>1. m \in TaskLines(str, bucket) /\ \A k \in TaskLines(str, bucket) : m <= k
  <2> DEFINE T == TaskLines(str, bucket)
  <2>1. T \in SUBSET Nat /\ T # {}
    BY DEF TaskLines, OfKind
  <2> HIDE DEF T
  <2> QED BY <2>1, MinFacts DEF T
<1>2. o = IF turn.superseded THEN outcome("superseded", "unavailable", NoBody)
          ELSE IF unreadable THEN outcome("unavailable", "unparseable", NoBody)
          ELSE IF interrupted THEN outcome("unavailable", "ambiguous", NoBody)
          ELSE IF turn.terminal = "none" THEN outcome("pending", "pending", NoBody)
          ELSE IF Activity(turn) # "closed" THEN outcome("unavailable", "unparseable", NoBody)
          ELSE IF turn.terminal = "turn_aborted" THEN outcome("aborted", "unavailable", NoBody)
          ELSE IF decision.refused THEN outcome("unavailable", "unavailable", NoBody)
          ELSE outcome("complete", IF decision.body = NoBody THEN "unavailable" ELSE "none",
                       decision.body)
  BY DEF Occurrence
<1> HIDE DEF o, m, from, decision, interrupted, unreadable
<1>3. /\ o.marker = m /\ o.start = from /\ o.terminal = turn.terminalLine
      /\ Certifiable(o) => o.status = "complete"
      /\ o.status = "complete" => Activity(turn) = "closed" /\ ~turn.superseded
      /\ o.status = "pending" =>
           turn.terminal = "none" /\ ~turn.superseded /\ ~unreadable /\ ~interrupted
  <2>1. CASE turn.superseded
    BY <1>2, <2>1 DEF Certifiable
  <2>2. CASE ~turn.superseded /\ unreadable
    BY <1>2, <2>2 DEF Certifiable
  <2>3. CASE ~turn.superseded /\ ~unreadable /\ interrupted
    BY <1>2, <2>3 DEF Certifiable
  <2>4. CASE ~turn.superseded /\ ~unreadable /\ ~interrupted /\ turn.terminal = "none"
    BY <1>2, <2>4 DEF Certifiable
  <2>5. CASE ~turn.superseded /\ ~unreadable /\ ~interrupted /\ turn.terminal # "none"
    BY <1>2, <2>5 DEF Certifiable
  <2> QED BY <2>1, <2>2, <2>3, <2>4, <2>5
<1>4. \A status, reason, text : IsOccurrence(outcome(status, reason, text))
  BY DEF IsOccurrence
<1> HIDE DEF outcome
<1>5. IsOccurrence(o)
  BY <1>2, <1>4
<1> QED BY <1>1, <1>3, <1>5 DEF o, unreadable, interrupted, from

\* One record: what the correlator knows of the stream stays true.
LEMMA CorrelateStep ==
  ASSUME NEW S, S \subseteq AllLines, NEW str \in Seq(S), NEW r \in S, r.kind # "drift",
         NEW cor, CorrelatorInv(cor, str)
  PROVE  CorrelatorInv(CorrelateRecord(cor, str, r), Append(str, r))
<1> DEFINE hidden == {"drift"}
           acc == cor.acc
           buckets == cor.buckets
           occs == cor.occurrences
           new == Len(str) + 1
           acc2 == Push(acc, new, r)
           str2 == Append(str, r)
           buckets2 == Ingest(str, KnownBuckets(acc2, buckets), TurnOf(acc, acc2, r), r)
           finals == NewlyFinal(acc, acc2)
           emptied == EmptiedBuckets(buckets2, finals)
           c == acc.current
           turn == acc2.turns[c]
           q == Occurrence(str2, buckets2[c], turn)
           fresh == OccurrencesOf(str2, buckets2, acc2.turns, finals)
           occs2 == occs \cup fresh
           cor2 == [acc |-> acc2, buckets |-> emptied, occurrences |-> occs2]
           lines == LinesOf(acc, buckets)
           lines2 == LinesOf(acc2, emptied)
           given == c \in finals /\ TaskLines(str2, buckets2[c]) # {}
<1>1. /\ FeedInv(acc, str, hidden) /\ BucketInv(acc, buckets, str)
      /\ CertifiedInv(cor, str) /\ OrderInv(cor, str) /\ OpenInv(acc, lines, str)
      /\ RecordSet(S)
  BY LineFacts DEF CorrelatorInv
<1>2. CorrelateRecord(cor, str, r) = cor2
  BY DEF CorrelateRecord, KnownBuckets, EmptiedBuckets
<1>3. FeedInv(acc2, str2, hidden)
  BY <1>1, PushPreserves
<1>4. BucketGrowth(acc, buckets, str, r) /\ LinesGrowth(acc, buckets, str, r)
  BY <1>1, BucketStep, LinesStep
<1>5. /\ BucketInv(acc2, emptied, str2)
      /\ c \in finals /\ Activity(turn) = "closed" =>
           /\ IsTerminal(r) /\ turn.terminal = r.kind /\ turn.terminalLine = new
           /\ turn.turnId = r.id
           /\ turn.startLine \in OpenStarts(str, hidden)
           /\ str[turn.startLine].id = r.id
           /\ buckets2[c] = KeptLines(str, turn.startLine) \cup {new}
      /\ \A s \in OpenStarts(str, hidden) : IsTerminal(r) /\ r.id = str[s].id =>
           c \in finals /\ Activity(turn) = "closed" /\ turn.startLine = s
  BY <1>4 DEF BucketGrowth
<1>6. /\ finals = {} => lines \subseteq lines2
      /\ finals # {} =>
           /\ finals = {c} /\ c # 0
           /\ IsStart(r) \/ IsTerminal(r)
           /\ lines \subseteq buckets2[c] /\ buckets2[c] \subseteq lines \cup {new}
           /\ \/ turn.superseded /\ turn.terminalLine = 0
              \/ /\ ~turn.superseded /\ turn.terminal # "none" /\ turn.terminalLine = new
                 /\ lines2 = {}
      /\ lines2 \subseteq lines \cup {new}
      /\ finals # {} => lines2 \subseteq {new}
      /\ r.kind = "user_message" => new \in lines2
  BY <1>4 DEF LinesGrowth
<1>7. OpenInv(acc2, lines2, str2)
  BY <1>1, <1>4, OpenStep
<1>8. /\ DOMAIN str = 1 .. Len(str) /\ Len(str) \in Nat
      /\ DOMAIN str2 = 1 .. new /\ Len(str2) = new
      /\ \A k \in 1 .. Len(str) : str2[k] = str[k]
      /\ str2[new] = r
  BY Appended
<1>9. lines \subseteq 1 .. Len(str)
  <2>1. c # 0 => c \in DOMAIN acc.turns
    BY <1>1, CurrentFacts DEF FeedInv
  <2> QED BY <1>1, <1>8, <2>1 DEF LinesOf, BucketInv
<1>10. /\ \A o \in AnswerOccurrences(str, hidden) :
            o \in AnswerOccurrences(str2, hidden) /\ o.terminal \in 1 .. Len(str)
       /\ \A o \in AnswerOccurrences(str2, hidden) :
            \/ o \in AnswerOccurrences(str, hidden)
            \/ /\ o.terminal = new /\ o.start \in OpenStarts(str, hidden)
               /\ IsTerminal(r) /\ r.id = str[o.start].id
  BY AnswersAppend
<1>11. {o \in occs : Certifiable(o)} = AnswerOccurrences(str, hidden)
  BY <1>1 DEF CertifiedInv
<1>12. /\ \A o \in occs :
            /\ IsOccurrence(o)
            /\ o.marker \in DOMAIN str /\ IsTask(str[o.marker])
            /\ o.terminal \in 0 .. Len(str)
            /\ o.status # "pending" /\ (o.status = "complete" => o.terminal # 0)
            /\ \A k \in lines : o.marker < k /\ o.terminal < k
       /\ \A o, p \in occs : Certifiable(o) =>
            p = o \/ p.marker < o.marker \/ p.marker > o.terminal
       /\ \A o \in occs : Certifiable(o) =>
            \A k \in DOMAIN str : k > o.terminal /\ IsTask(str[k]) =>
              k \in lines \/ \E p \in occs : p.marker > o.terminal
  BY <1>1 DEF OrderInv, Before
<1>13. fresh = IF given THEN {q} ELSE {}
  <2>1. CASE finals = {}
    BY <2>1 DEF OccurrencesOf
  <2>2. CASE finals = {c}
    <3>1. CASE TaskLines(str2, buckets2[c]) = {}
      BY <2>2, <3>1 DEF OccurrencesOf
    <3>2. CASE TaskLines(str2, buckets2[c]) # {}
      BY <2>2, <3>2 DEF OccurrencesOf
    <3> QED BY <3>1, <3>2
  <2> QED BY <1>6, <2>1, <2>2
\* The occurrence of the turn that ends with the record.
<1>14. ASSUME given
       PROVE  /\ c \in finals /\ finals = {c} /\ c # 0
              /\ IsOccurrence(q)
              /\ q.marker \in lines /\ q.marker \in 1 .. Len(str) /\ IsTask(str[q.marker])
              /\ q.terminal \in {0, new} /\ q.status # "pending"
              /\ q.status = "complete" => q.terminal = new
              /\ Certifiable(q) => q.status = "complete"
              /\ q.status = "complete" => Activity(turn) = "closed"
              /\ q.terminal # 0 => lines2 = {}
              /\ \A k \in lines : IsTask(str[k]) => q.marker <= k
  <2>1. c \in finals /\ TaskLines(str2, buckets2[c]) # {}
    BY <1>14
  <2>2. finals # {} /\ finals = {c} /\ c # 0
    BY <1>6, <2>1
  <2>3. buckets2[c] \in SUBSET Nat
    BY <1>6, <1>8, <1>9, <2>2
  <2> HIDE DEF str2, buckets2, turn, finals
  <2>4. /\ IsOccurrence(q)
        /\ q.marker \in TaskLines(str2, buckets2[c])
        /\ \A k \in TaskLines(str2, buckets2[c]) : q.marker <= k
        /\ q.terminal = turn.terminalLine
        /\ Certifiable(q) => q.status = "complete"
        /\ q.status = "complete" => Activity(turn) = "closed" /\ ~turn.superseded
        /\ q.status = "pending" => turn.terminal = "none" /\ ~turn.superseded
    BY <2>1, <2>3, OccurrenceShape
  <2> HIDE DEF q, lines2
  <2>5. q.marker \in lines
    <3>1. q.marker \in lines \cup {new} /\ IsTask(str2[q.marker])
      BY <1>6, <2>2, <2>4 DEF TaskLines, OfKind, IsTask
    <3>2. q.marker # new
      BY <1>6, <1>8, <2>2, <3>1 DEF IsTask, IsStart, IsTerminal, TerminalKinds
    <3> QED BY <3>1, <3>2
  <2>6. q.marker \in 1 .. Len(str) /\ IsTask(str[q.marker])
    <3>1. IsTask(str2[q.marker])
      BY <2>4 DEF TaskLines, OfKind, IsTask
    <3> QED BY <1>8, <1>9, <2>5, <3>1
  <2>7. \/ (turn.superseded /\ turn.terminalLine = 0)
        \/ (/\ ~turn.superseded /\ turn.terminal # "none" /\ turn.terminalLine = new
               /\ lines2 = {})
    BY <1>6, <2>2
  <2>8. new # 0
    BY <1>8
  <2>9. \A k \in lines : IsTask(str[k]) => k \in TaskLines(str2, buckets2[c])
    BY <1>6, <1>8, <1>9, <2>2 DEF TaskLines, OfKind, IsTask
  <2> QED BY <2>1, <2>2, <2>4, <2>5, <2>6, <2>7, <2>8, <2>9
\* The end of a clean turn.
<1>15. ASSUME c \in finals, Activity(turn) = "closed"
       PROVE  /\ given /\ Certifiable(q) => q \in AnswerOccurrences(str2, hidden)
              /\ \A o \in AnswerOccurrences(str2, hidden) : o.terminal = new =>
                   given /\ o = q
              /\ given /\ q.status = "complete" => IsWhole(q, str2, hidden)
  <2> DEFINE s == turn.startLine
             bucket == KeptLines(str, s) \cup {new}
  <2>1. /\ s \in OpenStarts(str, {"drift"}) /\ IsTerminal(r) /\ r.id = str[s].id
        /\ turn.terminal = r.kind /\ turn.terminalLine = Len(str) + 1
        /\ buckets2[c] = bucket
    BY <1>5, <1>15
  <2> HIDE DEF turn
  <2>2. /\ TaskLines(str2, bucket) # {} /\ Certifiable(Occurrence(str2, bucket, turn)) =>
             Occurrence(str2, bucket, turn) \in AnswerOccurrences(str2, {"drift"})
        /\ \A o \in AnswerOccurrences(str2, {"drift"}) : o.terminal = Len(str) + 1 =>
             TaskLines(str2, bucket) # {} /\ o = Occurrence(str2, bucket, turn)
        /\ TaskLines(str2, bucket) # {} /\ Occurrence(str2, bucket, turn).status = "complete" =>
             IsWhole(Occurrence(str2, bucket, turn), str2, {"drift"})
    <3>1. turn.startLine = s
      OBVIOUS
    <3> HIDE DEF s
    <3>2. PICK z : z = s
      OBVIOUS
    <3>3. /\ z \in OpenStarts(str, {"drift"}) /\ IsTerminal(r) /\ r.id = str[z].id
          /\ turn.terminal = r.kind /\ turn.terminalLine = Len(str) + 1
          /\ turn.startLine = z /\ Activity(turn) = "closed"
      BY <1>15, <2>1, <3>1, <3>2
    <3>4. ClosedWell(Append(str, r), KeptLines(str, z) \cup {Len(str) + 1}, turn)
      BY <3>3, ClosedOccurrence
    <3>5. Len(str2) = Len(str) + 1
      BY <1>8
    <3> QED BY <3>2, <3>4, <3>5 DEF ClosedWell
  <2> HIDE DEF s
  <2>3. q = Occurrence(str2, bucket, turn)
    BY <2>1
  <2>4. given <=> TaskLines(str2, bucket) # {}
    BY <1>15, <2>1
  <2> HIDE DEF q, given, bucket, str2
  <2> QED BY <2>2, <2>3, <2>4
<1> HIDE DEF str2, acc2, buckets2, finals, turn, q, lines, lines2, given, emptied, fresh
<1>16. {o \in occs2 : Certifiable(o)} = AnswerOccurrences(str2, hidden)
  <2>1. ASSUME NEW o \in occs2, Certifiable(o)
        PROVE  o \in AnswerOccurrences(str2, hidden)
    <3>1. CASE o \in occs
      BY <1>10, <1>11, <2>1, <3>1
    <3>2. CASE given /\ o = q
      BY <1>14, <1>15, <2>1, <3>2
    <3> QED BY <1>13, <3>1, <3>2
  <2>2. ASSUME NEW o \in AnswerOccurrences(str2, hidden)
        PROVE  o \in occs2 /\ Certifiable(o)
    <3>1. Certifiable(o)
      BY ContentsAssumption DEF AnswerOccurrences, Certifiable
    <3>2. CASE o \in AnswerOccurrences(str, hidden)
      BY <1>11, <3>1, <3>2
    <3>3. CASE o \notin AnswerOccurrences(str, hidden)
      <4>1. /\ o.terminal = new /\ o.start \in OpenStarts(str, hidden)
            /\ IsTerminal(r) /\ r.id = str[o.start].id
        BY <1>10, <3>3
      <4>2. c \in finals /\ Activity(turn) = "closed"
        BY <1>5, <4>1
      <4>3. given /\ o = q
        BY <1>15, <4>1, <4>2
      <4> QED BY <1>13, <3>1, <4>3
    <3> QED BY <3>2, <3>3
  <2> QED BY <2>1, <2>2
<1>17. \A o \in occs2 :
         /\ IsOccurrence(o)
         /\ o.marker \in DOMAIN str2 /\ IsTask(str2[o.marker])
         /\ o.terminal \in 0 .. Len(str2)
         /\ o.status # "pending" /\ (o.status = "complete" => o.terminal # 0)
         /\ \A k \in lines2 : Before(o, k)
  <2>1. ASSUME NEW o \in occs
        PROVE  /\ IsOccurrence(o)
               /\ o.marker \in DOMAIN str2 /\ IsTask(str2[o.marker])
               /\ o.terminal \in 0 .. Len(str2)
               /\ o.status # "pending" /\ (o.status = "complete" => o.terminal # 0)
               /\ \A k \in lines2 : Before(o, k)
    <3>1. /\ o.marker \in 1 .. Len(str) /\ o.terminal \in 0 .. Len(str)
          /\ \A k \in lines : o.marker < k /\ o.terminal < k
      BY <1>8, <1>12
    <3>2. \A k \in lines2 : Before(o, k)
      BY <1>6, <1>8, <3>1 DEF Before
    <3> QED BY <1>8, <1>12, <3>1, <3>2
  <2>2. ASSUME given
        PROVE  /\ IsOccurrence(q)
               /\ q.marker \in DOMAIN str2 /\ IsTask(str2[q.marker])
               /\ q.terminal \in 0 .. Len(str2)
               /\ q.status # "pending" /\ (q.status = "complete" => q.terminal # 0)
               /\ \A k \in lines2 : Before(q, k)
    <3>1. \A k \in lines2 : Before(q, k)
      BY <1>6, <1>8, <1>14, <2>2 DEF Before
    <3> QED BY <1>8, <1>14, <2>2, <3>1
  <2> QED BY <1>13, <2>1, <2>2
<1>18. \A o, p \in occs2 : Certifiable(o) =>
         p = o \/ p.marker < o.marker \/ p.marker > o.terminal
  <2>1. ASSUME NEW o \in occs, given
        PROVE  q.marker > o.terminal /\ o.marker < q.marker
    <3>1. /\ q.marker \in lines /\ q.marker \in Nat
          /\ o.terminal \in Nat
      BY <1>8, <1>12, <1>14, <2>1
    <3>2. o.marker < q.marker /\ o.terminal < q.marker
      BY <1>12, <3>1
    <3> QED BY <3>1, <3>2
  <2> QED BY <1>12, <1>13, <2>1
<1>19. ASSUME NEW o \in occs2, Certifiable(o),
              NEW k \in DOMAIN str2, k > o.terminal, IsTask(str2[k])
       PROVE  k \in lines2 \/ \E p \in occs2 : p.marker > o.terminal
  <2>1. CASE o \notin occs
    <3>1. given /\ o = q
      BY <1>13, <2>1
    <3> QED BY <1>8, <1>14, <1>19, <3>1
  <2>2. CASE o \in occs /\ k = new
    BY <1>6, <1>8, <1>19, <2>2 DEF IsTask
  <2>3. CASE o \in occs /\ k # new
    <3>1. k \in DOMAIN str /\ IsTask(str[k])
      BY <1>8, <1>19, <2>3
    <3>2. k \in lines \/ \E p \in occs : p.marker > o.terminal
      BY <1>12, <1>19, <2>3, <3>1
    <3>3. CASE k \in lines /\ finals # {}
      <4>1. k \in TaskLines(str2, buckets2[c])
        BY <1>6, <1>19, <3>3 DEF TaskLines, OfKind, IsTask
      <4>2. given
        BY <1>6, <3>3, <4>1 DEF given
      <4>3. q.marker \in lines /\ q \in occs2 /\ q.marker \in Nat /\ o.terminal \in Nat
        BY <1>8, <1>12, <1>13, <1>14, <2>3, <4>2
      <4>4. o.terminal < q.marker
        BY <1>12, <2>3, <4>3
      <4> QED BY <4>3, <4>4
    <3> QED BY <1>6, <3>2, <3>3
  <2> QED BY <2>1, <2>2, <2>3
<1>20. OrderInv(cor2, str2)
  BY <1>17, <1>18, <1>19 DEF OrderInv, lines2
<1>21. CertifiedInv(cor2, str2)
  BY <1>16 DEF CertifiedInv
<1>22. \A o \in occs2 : o.status = "complete" => IsWhole(o, str2, hidden)
  <2>1. ASSUME NEW o \in occs, o.status = "complete"
        PROVE  IsWhole(o, str2, hidden)
    <3>1. IsWhole(o, str, hidden) /\ o.marker \in Nat
      BY <1>8, <1>12, <2>1 DEF CorrelatorInv, HandedInv
    <3> QED BY <3>1, WholeAppend DEF str2
  <2>2. ASSUME given, q.status = "complete"
        PROVE  IsWhole(q, str2, hidden)
    BY <1>14, <1>15, <2>2
  <2> QED BY <1>13, <2>1, <2>2
<1>23. ASSUME NEW k \in DOMAIN str2, IsTask(str2[k])
       PROVE  \/ k \in lines2
              \/ \E o \in occs2 : o.marker <= k /\ (o.terminal = 0 \/ k <= o.terminal)
  <2>1. CASE k = new
    BY <1>6, <1>8, <1>23, <2>1 DEF IsTask
  <2>2. CASE k # new
    <3>1. k \in DOMAIN str /\ IsTask(str[k]) /\ k \in Nat /\ k <= new
      BY <1>8, <1>23, <2>2
    <3>2. k \in lines \/ \E o \in occs : o.marker <= k /\ (o.terminal = 0 \/ k <= o.terminal)
      BY <3>1 DEF CorrelatorInv, HandedInv, lines
    <3>3. ASSUME k \in lines, finals # {}
          PROVE  given
      <4>1. k \in TaskLines(str2, buckets2[c])
        BY <1>6, <1>23, <3>3 DEF TaskLines, OfKind, IsTask
      <4> QED BY <1>6, <3>3, <4>1 DEF given
    <3>4. CASE k \in lines /\ finals # {}
      <4>1. given /\ q \in occs2 /\ q.marker <= k /\ q.terminal \in {0, new}
        BY <1>13, <1>14, <3>1, <3>3, <3>4
      <4> QED BY <3>1, <4>1
    <3> QED BY <1>6, <3>2, <3>4
  <2> QED BY <2>1, <2>2
<1>24. HandedInv(cor2, str2)
  BY <1>22, <1>23 DEF HandedInv, lines2
<1>25. CorrelatorInv(cor2, str2)
  BY <1>3, <1>5, <1>7, <1>20, <1>21, <1>24 DEF CorrelatorInv, lines2
<1> QED BY <1>2, <1>25 DEF str2, acc2, buckets2, finals, emptied, fresh, cor2

\* One line: a record of no known pair is not pushed, and changes nothing that
\* the correlator knows of the stream without it.
LEMMA CorrelateLineStep ==
  ASSUME NEW S, S \subseteq AllLines, NEW str \in Seq(S), NEW r \in S,
         NEW cor, CorrelatorInv(cor, str)
  PROVE  CorrelatorInv(CorrelateLine(cor, str, r), Append(str, r))
<1>1. CASE r.kind # "drift"
  BY <1>1, CorrelateStep DEF CorrelateLine
<1>2. CASE r.kind = "drift"
  <2> DEFINE str2 == Append(str, r)
             hidden == {"drift"}
             new == Len(str) + 1
             acc == cor.acc
             lines == LinesOf(acc, cor.buckets)
             start == Current(acc).startLine
  <2>1. FeedInv(acc, str2, hidden) /\ BucketInv(acc, cor.buckets, str2)
    BY <1>2, HiddenPreserves, HiddenBuckets DEF CorrelatorInv
  <2>2. /\ DOMAIN str = 1 .. Len(str) /\ Len(str) \in Nat
        /\ DOMAIN str2 = 1 .. new /\ Len(str2) = new
        /\ \A k \in 1 .. Len(str) : str2[k] = str[k]
        /\ str2[new] = r
    BY Appended
  <2>3. ~IsTerminal(r) /\ ~IsStart(r) /\ ~IsTask(r)
    BY <1>2 DEF IsTerminal, TerminalKinds, IsStart, IsTask
  <2>4. AnswerOccurrences(str2, hidden) = AnswerOccurrences(str, hidden)
    <3>1. \A o \in AnswerOccurrences(str, hidden) : o \in AnswerOccurrences(str2, hidden)
      BY AnswersAppend
    <3>2. \A o \in AnswerOccurrences(str2, hidden) :
            \/ o \in AnswerOccurrences(str, hidden)
            \/ /\ o.terminal = Len(str) + 1 /\ o.start \in OpenStarts(str, hidden)
               /\ IsTerminal(r) /\ r.id = str[o.start].id
      BY AnswersAppend
    <3> HIDE DEF str2
    <3> QED BY <2>3, <3>1, <3>2
  <2> HIDE DEF str2
  <2>5. CertifiedInv(cor, str2)
    BY <2>4 DEF CorrelatorInv, CertifiedInv
  <2>6. OrderInv(cor, str2)
    <3>1. \A o \in cor.occurrences :
            /\ o.marker \in DOMAIN str2 /\ IsTask(str2[o.marker])
            /\ o.terminal \in 0 .. Len(str2)
      BY <2>2 DEF CorrelatorInv, OrderInv
    <3>2. \A k \in DOMAIN str2 : IsTask(str2[k]) => k \in DOMAIN str /\ IsTask(str[k])
      BY <2>2, <2>3
    <3> QED BY <3>1, <3>2 DEF CorrelatorInv, OrderInv
  <2>7. OpenInv(acc, lines, str2)
    <3> SUFFICES ASSUME acc.current # 0 PROVE OpenInv(acc, lines, str2)
      BY DEF OpenInv
    <3>1. /\ start \in lines /\ lines \subseteq start .. Len(str)
          /\ \A k \in start .. Len(str) :
               str[k].kind \in {"malformed", "user_message"} => k \in lines
          /\ \A k \in start + 1 .. Len(str) : ~IsStart(str[k])
          /\ Current(acc).errors = {} => str[start].kind \in {"task_started", "malformed"}
          /\ Current(acc).parseGap => \E k \in lines : str[k].kind = "malformed"
      BY DEF CorrelatorInv, OpenInv
    <3>2. lines \subseteq 1 .. Len(str)
      <4>1. acc.current \in DOMAIN acc.turns
        BY CurrentFacts DEF CorrelatorInv, FeedInv
      <4> QED BY <2>2, <4>1 DEF LinesOf, CorrelatorInv, BucketInv
    <3> HIDE DEF lines, start
    <3>3. start \in 1 .. Len(str)
      BY <3>1, <3>2
    <3>4. /\ lines \subseteq start .. new
          /\ \A k \in start .. new : k = new \/ k \in start .. Len(str)
          /\ \A k \in start + 1 .. new : k = new \/ k \in start + 1 .. Len(str)
          /\ start .. Len(str) \subseteq 1 .. Len(str)
          /\ start + 1 .. Len(str) \subseteq 1 .. Len(str)
      BY <2>2, <3>1, <3>3
    <3>5. \A k \in start .. new : str2[k].kind \in {"malformed", "user_message"} => k \in lines
      BY <1>2, <2>2, <3>1, <3>4
    <3>6. \A k \in start + 1 .. new : ~IsStart(str2[k])
      BY <2>2, <2>3, <3>1, <3>4
    <3>7. Current(acc).parseGap => \E k \in lines : str2[k].kind = "malformed"
      BY <2>2, <3>1, <3>2
    <3> QED BY <2>2, <3>1, <3>3, <3>4, <3>5, <3>6, <3>7 DEF OpenInv, start
  <2>8. CorrelateLine(cor, str, r) = cor
    BY <1>2 DEF CorrelateLine
  <2>9. HandedInv(cor, str2)
    <3>1. \A o \in cor.occurrences : o.status = "complete" =>
            IsWhole(o, str, hidden) /\ o.marker \in Nat
      BY <2>2 DEF CorrelatorInv, HandedInv, OrderInv
    <3>2. \A o \in cor.occurrences : o.status = "complete" => IsWhole(o, str2, hidden)
      BY <3>1, WholeAppend DEF str2
    <3>3. \A k \in DOMAIN str2 : IsTask(str2[k]) => k \in DOMAIN str /\ IsTask(str[k])
      BY <2>2, <2>3
    <3> QED BY <3>2, <3>3 DEF CorrelatorInv, HandedInv
  <2> QED BY <2>1, <2>5, <2>6, <2>7, <2>8, <2>9 DEF CorrelatorInv, str2
<1> QED BY <1>1, <1>2

\* It holds before the first line.
LEMMA CorrelatorInit == CorrelatorInv(EmptyCorrelator, <<>>)
<1> DEFINE cor == EmptyCorrelator
<1>1. cor.acc = EmptyAccumulator /\ cor.buckets = <<>> /\ cor.occurrences = {}
  BY DEF EmptyCorrelator
<1>2. FeedInv(EmptyAccumulator, <<>>, {"drift"}) /\ EmptyAccumulator.current = 0
  BY FeedInvInit DEF EmptyAccumulator
<1>3. BucketInv(EmptyAccumulator, <<>>, <<>>)
  BY ConsumerInit DEF ConsumerInv, EmptyConsumer
<1>4. CertifiedInv(cor, <<>>)
  <2>1. \A o : o \notin AnswerOccurrences(<<>>, {"drift"})
    BY DEF AnswerOccurrences
  <2> QED BY <1>1, <2>1 DEF CertifiedInv
<1>5. OrderInv(cor, <<>>)
  BY <1>1 DEF OrderInv
<1>6. OpenInv(EmptyAccumulator, LinesOf(EmptyAccumulator, <<>>), <<>>)
  BY <1>2 DEF OpenInv
<1>7. HandedInv(cor, <<>>)
  BY <1>1 DEF HandedInv
<1> QED BY <1>1, <1>2, <1>3, <1>4, <1>5, <1>6, <1>7 DEF CorrelatorInv

-----------------------------------------------------------------------------
(***************************************************************************)
(* What finish makes of the occurrences.                                   *)
(***************************************************************************)

\* The turn that is open at the end of the read, as finish leaves it, and the
\* occurrence that it is, if it was given the task.
LeftOpen(cor, str) == Finish(cor.acc, DriftOf(str)).turns[cor.acc.current]

OpenOccurrence(cor, str) ==
  Occurrence(str, LinesOf(cor.acc, cor.buckets), LeftOpen(cor, str))

HasOpen(cor, str) ==
  cor.acc.current # 0 /\ TaskLines(str, LinesOf(cor.acc, cor.buckets)) # {}

Collected(cor, str) ==
  cor.occurrences \cup (IF HasOpen(cor, str) THEN {OpenOccurrence(cor, str)} ELSE {})

\* A bounded set of numbers has a greatest.
LEMMA GreatestOf ==
  ASSUME NEW n \in Nat, NEW T \in SUBSET (0 .. n), T # {}
  PROVE  \E m \in T : \A k \in T : k <= m
<1> DEFINE U == {n - k : k \in T}
<1>1. U \in SUBSET Nat /\ U # {}
  <2>1. \A k \in T : n - k \in Nat
    OBVIOUS
  <2>2. PICK k \in T : TRUE
    OBVIOUS
  <2>3. n - k \in U
    OBVIOUS
  <2>4. U \subseteq Nat
    BY <2>1
  <2> HIDE DEF U
  <2> QED BY <2>3, <2>4
<1>2. PICK u \in U : \A k \in U : u <= k
  <2> HIDE DEF U
  <2> QED BY <1>1, LeastOf
<1>3. PICK m \in T : u = n - m
  OBVIOUS
<1>4. \A k \in T : u <= n - k
  BY <1>2
<1> QED BY <1>3, <1>4

\* finish leaves the finalized turns alone, and closes the books on the one
\* that is open.
LEMMA OpenFacts ==
  ASSUME NEW S, S \subseteq AllLines, NEW str \in Seq(S), NEW cor, CorrelatorInv(cor, str)
  PROVE  /\ Occurrences(cor, str) = {SchemaIntegrity(str, o) : o \in Collected(cor, str)}
         /\ LinesOf(cor.acc, cor.buckets) \subseteq DOMAIN str
         /\ cor.acc.current # 0 =>
              /\ ~LeftOpen(cor, str).superseded /\ LeftOpen(cor, str).terminal = "none"
              /\ LeftOpen(cor, str).terminalLine = 0
              /\ LeftOpen(cor, str).errors = Current(cor.acc).errors
<1> DEFINE acc == cor.acc
           c == acc.current
           drift == DriftOf(str)
           acc2 == Finish(acc, drift)
           turn == acc2.turns[c]
           finals == NewlyFinal(acc, acc2)
           lines == LinesOf(acc, cor.buckets)
<1>1. AccInv(acc, str) /\ DriftOf(str) \in SUBSET Nat
  BY DriftCut DEF CorrelatorInv, FeedInv
<1>2. /\ c # 0 => c \in DOMAIN acc.turns /\ ~acc.turns[c].emitted /\ Current(acc) \in Turns
      /\ c = 0 => 0 \notin DOMAIN acc.turns
      /\ \A k \in DOMAIN acc.turns : k # c => acc.turns[k].emitted
  BY <1>1, CurrentFacts DEF Current
<1>3. /\ DOMAIN acc2.turns = DOMAIN acc.turns
      /\ \A k \in DOMAIN acc.turns : k # c => acc2.turns[k] = acc.turns[k]
      /\ c # 0 => /\ turn.terminal = "none" /\ turn.terminalLine = 0
                  /\ ~turn.superseded /\ turn.emitted
  BY <1>1, FinishEffect
<1>4. finals = IF c = 0 THEN {} ELSE {c}
  <2>1. \A k \in finals : k = c /\ c # 0
    BY <1>2, <1>3 DEF NewlyFinal
  <2>2. c # 0 => c \in finals
    BY <1>2, <1>3 DEF NewlyFinal
  <2> HIDE DEF finals
  <2> QED BY <2>1, <2>2
<1>5. c # 0 => turn.errors = Current(acc).errors
  <2> SUFFICES ASSUME c # 0 PROVE turn.errors = Current(acc).errors
    OBVIOUS
  <2>1. turn = FinishTurn(Current(acc), drift)
    BY <1>2 DEF Finish, Current
  <2>2. FinishTurn(Current(acc), drift).errors = Current(acc).errors
    BY <1>2 DEF FinishTurn, Turns
  <2> QED BY <2>1, <2>2
<1>6. c # 0 => lines = cor.buckets[c] /\ lines \subseteq DOMAIN str
  BY <1>2 DEF LinesOf, CorrelatorInv, BucketInv
<1>7. OccurrencesOf(str, cor.buckets, acc2.turns, finals) =
        IF HasOpen(cor, str) THEN {OpenOccurrence(cor, str)} ELSE {}
  <2>1. CASE c = 0
    BY <1>4, <2>1 DEF OccurrencesOf, HasOpen
  <2>2. CASE c # 0 /\ TaskLines(str, lines) = {}
    BY <1>4, <1>6, <2>2 DEF OccurrencesOf, HasOpen
  <2>3. CASE c # 0 /\ TaskLines(str, lines) # {}
    BY <1>4, <1>6, <2>3 DEF OccurrencesOf, HasOpen, OpenOccurrence, LeftOpen
  <2> QED BY <2>1, <2>2, <2>3
<1>8. Occurrences(cor, str) = {SchemaIntegrity(str, o) : o \in Collected(cor, str)}
  BY <1>7 DEF Occurrences, Collected
<1>9. lines \subseteq DOMAIN str
  BY <1>6 DEF LinesOf
<1> QED BY <1>3, <1>5, <1>8, <1>9 DEF LeftOpen

\* The occurrence of the turn that is open is not complete, and follows all
\* others.
LEMMA OpenOccurrenceFacts ==
  ASSUME NEW S, S \subseteq AllLines, NEW str \in Seq(S), NEW cor, CorrelatorInv(cor, str),
         HasOpen(cor, str)
  PROVE  /\ IsOccurrence(OpenOccurrence(cor, str))
         /\ OpenOccurrence(cor, str).marker \in DOMAIN str
         /\ IsTask(str[OpenOccurrence(cor, str).marker])
         /\ OpenOccurrence(cor, str).terminal = 0
         /\ OpenOccurrence(cor, str).status # "complete"
         /\ ~Certifiable(OpenOccurrence(cor, str))
         /\ \A o \in cor.occurrences : Before(o, OpenOccurrence(cor, str).marker)
<1> DEFINE lines == LinesOf(cor.acc, cor.buckets)
           turn == LeftOpen(cor, str)
           q == OpenOccurrence(cor, str)
<1>1. /\ lines \subseteq DOMAIN str
      /\ turn.terminal = "none" /\ turn.terminalLine = 0 /\ ~turn.superseded
  BY OpenFacts DEF HasOpen
<1>2. lines \in SUBSET Nat /\ TaskLines(str, lines) # {}
  BY <1>1 DEF HasOpen
<1>3. q = Occurrence(str, lines, turn)
  BY DEF OpenOccurrence
<1> HIDE DEF turn, lines, q
<1>4. /\ IsOccurrence(q)
      /\ q.marker \in TaskLines(str, lines)
      /\ q.terminal = turn.terminalLine
      /\ Certifiable(q) => q.status = "complete"
      /\ q.status = "complete" => Activity(turn) = "closed"
  BY <1>2, <1>3, OccurrenceShape
<1>5. Activity(turn) # "closed"
  BY <1>1 DEF Activity
<1>6. q.marker \in lines /\ IsTask(str[q.marker])
  BY <1>4 DEF TaskLines, OfKind, IsTask
<1>7. \A o \in cor.occurrences : Before(o, q.marker)
  BY <1>6 DEF CorrelatorInv, OrderInv, lines
<1> QED BY <1>1, <1>4, <1>5, <1>6, <1>7 DEF q

\* A record of no known pair inside a turn takes its occurrence's status and
\* text, and nothing else.
LEMMA IntegrityFacts ==
  ASSUME NEW str, NEW o, IsOccurrence(o)
  PROVE  /\ SchemaIntegrity(str, o).marker = o.marker
         /\ SchemaIntegrity(str, o).terminal = o.terminal
         /\ \/ SchemaIntegrity(str, o) = o
            \/ /\ ~Certifiable(SchemaIntegrity(str, o))
               /\ SchemaIntegrity(str, o).status = "unavailable"
               /\ o.status \in {"complete", "pending", "aborted"} /\ o.start # 0
               /\ \E d \in DriftOf(str) : d > o.start /\ (o.terminal = 0 \/ d < o.terminal)
         /\ SchemaIntegrity(str, o).status # "unavailable" =>
              ~(/\ o.status \in {"complete", "pending", "aborted"} /\ o.start # 0
                /\ \E d \in DriftOf(str) : d > o.start /\ (o.terminal = 0 \/ d < o.terminal))
<1> DEFINE spoilt == /\ o.status \in {"complete", "pending", "aborted"} /\ o.start # 0
                     /\ \E d \in DriftOf(str) : d > o.start /\ (o.terminal = 0 \/ d < o.terminal)
           gone == [o EXCEPT !.status = "unavailable", !.reason = "unparseable", !.text = NoBody]
<1>1. SchemaIntegrity(str, o) = IF spoilt THEN gone ELSE o
  BY DEF SchemaIntegrity
<1>2. /\ gone.marker = o.marker /\ gone.terminal = o.terminal
      /\ gone.status = "unavailable" /\ gone.text = NoBody
  BY DEF IsOccurrence
<1> HIDE DEF gone
<1>3. CASE spoilt
  BY <1>1, <1>2, <1>3 DEF Certifiable
<1>4. CASE ~spoilt
  BY <1>1, <1>4
<1> QED BY <1>3, <1>4

\* The occurrences that are collected.
LEMMA CollectedFacts ==
  ASSUME NEW S, S \subseteq AllLines, NEW str \in Seq(S), NEW cor, CorrelatorInv(cor, str)
  PROVE  \A o \in Collected(cor, str) :
           /\ IsOccurrence(o)
           /\ o.marker \in DOMAIN str /\ IsTask(str[o.marker])
           /\ Certifiable(o) => o \in AnswerOccurrences(str, {"drift"})
           /\ o.status = "complete" => o \in cor.occurrences /\ o.terminal \in 1 .. Len(str)
<1>1. ASSUME NEW o \in cor.occurrences
      PROVE  /\ IsOccurrence(o)
             /\ o.marker \in DOMAIN str /\ IsTask(str[o.marker])
             /\ Certifiable(o) => o \in AnswerOccurrences(str, {"drift"})
             /\ o.status = "complete" => o \in cor.occurrences /\ o.terminal \in 1 .. Len(str)
  <2>1. o.terminal \in 0 .. Len(str) /\ (o.status = "complete" => o.terminal # 0)
    BY DEF CorrelatorInv, OrderInv
  <2>2. Len(str) \in Nat
    OBVIOUS
  <2> QED BY <2>1, <2>2 DEF CorrelatorInv, OrderInv, CertifiedInv
<1>2. ASSUME HasOpen(cor, str)
      PROVE  /\ IsOccurrence(OpenOccurrence(cor, str))
             /\ OpenOccurrence(cor, str).marker \in DOMAIN str
             /\ IsTask(str[OpenOccurrence(cor, str).marker])
             /\ ~Certifiable(OpenOccurrence(cor, str))
             /\ OpenOccurrence(cor, str).status # "complete"
  BY <1>2, OpenOccurrenceFacts
<1> QED BY <1>1, <1>2 DEF Collected

\* The answers among the answers without the records of unknown pairs.
LEMMA DriftAnswers ==
  ASSUME NEW S, NEW str \in Seq(S), NEW o
  PROVE  o \in AnswerOccurrences(str, {}) <=>
           /\ o \in AnswerOccurrences(str, {"drift"})
           /\ ~\E d \in DriftOf(str) : d > o.start /\ (o.terminal = 0 \/ d < o.terminal)
<1> DEFINE w == <<o.start, o.terminal>>
<1>1. CleanTurns(str, {}) =
        {x \in CleanTurns(str, {"drift"}) :
           ~\E d \in DriftOf(str) : x[1] < d /\ (x[2] = 0 \/ d < x[2])}
      /\ DriftOf(str) \in SUBSET Nat
  BY DriftCut
<1>2. w \in CleanTurns(str, {"drift"}) => o.start \in Nat /\ o.terminal \in Nat
  BY DEF CleanTurns
<1>3. w \in CleanTurns(str, {}) <=>
        /\ w \in CleanTurns(str, {"drift"})
        /\ ~\E d \in DriftOf(str) : d > o.start /\ (o.terminal = 0 \/ d < o.terminal)
  BY <1>1, <1>2
<1> HIDE DEF w
<1>4. IsAnswer(o, str, {}) <=>
        /\ IsAnswer(o, str, {"drift"})
        /\ ~\E d \in DriftOf(str) : d > o.start /\ (o.terminal = 0 \/ d < o.terminal)
  BY <1>3 DEF IsAnswer, w
<1> QED BY <1>4 DEF AnswerOccurrences

\* What is certified at the end of the read are the answers of the stream.
LEMMA CertifiedFacts ==
  ASSUME NEW S, S \subseteq AllLines, NEW str \in Seq(S), NEW cor, CorrelatorInv(cor, str)
  PROVE  CertifiedOf(cor, str) = AnswerOccurrences(str, {})
<1>1. Occurrences(cor, str) = {SchemaIntegrity(str, o) : o \in Collected(cor, str)}
  BY OpenFacts
<1>2. ASSUME NEW x \in CertifiedOf(cor, str)
      PROVE  x \in AnswerOccurrences(str, {})
  <2>1. PICK o \in Collected(cor, str) : x = SchemaIntegrity(str, o)
    BY <1>1 DEF CertifiedOf
  <2>2. Certifiable(x)
    BY DEF CertifiedOf
  <2>3. IsOccurrence(o)
    BY CollectedFacts
  <2>4. x = o
    BY <2>1, <2>2, <2>3, IntegrityFacts
  <2>5. o \in AnswerOccurrences(str, {"drift"})
    BY <2>2, <2>4, CollectedFacts
  <2>6. o.status = "complete" /\ o.start # 0
    BY <2>5 DEF AnswerOccurrences
  <2>7. x.status # "unavailable"
    BY <2>4, <2>6
  <2>8. ~\E d \in DriftOf(str) : d > o.start /\ (o.terminal = 0 \/ d < o.terminal)
    BY <2>1, <2>3, <2>6, <2>7, IntegrityFacts
  <2> QED BY <2>4, <2>5, <2>8, DriftAnswers
<1>3. ASSUME NEW o \in AnswerOccurrences(str, {})
      PROVE  o \in CertifiedOf(cor, str)
  <2>1. /\ o \in AnswerOccurrences(str, {"drift"})
        /\ ~\E d \in DriftOf(str) : d > o.start /\ (o.terminal = 0 \/ d < o.terminal)
    BY DriftAnswers
  <2>2. o \in cor.occurrences /\ Certifiable(o)
    BY <2>1 DEF CorrelatorInv, CertifiedInv
  <2>3. o \in Collected(cor, str)
    BY <2>2 DEF Collected
  <2>4. IsOccurrence(o)
    BY <2>3, CollectedFacts
  <2>5. SchemaIntegrity(str, o) = o
    BY <2>1, <2>4, IntegrityFacts
  <2> QED BY <1>1, <2>2, <2>3, <2>5 DEF CertifiedOf
<1> QED BY <1>2, <1>3

\* They are the answers the reference reads off the stream.
LEMMA AnswersFacts ==
  ASSUME NEW str
  PROVE  {<<o.marker, o.terminal, o.text>> : o \in AnswerOccurrences(str, {})} = Answers(str)
<1>1. ASSUME NEW o \in AnswerOccurrences(str, {})
      PROVE  <<o.marker, o.terminal, o.text>> \in Answers(str)
  <2>1. /\ o.marker \in DOMAIN str /\ o.start \in DOMAIN str /\ o.terminal \in DOMAIN str
        /\ o.text \in Bodies /\ IsAnswer(o, str, {})
    BY DEF AnswerOccurrences
  <2> QED BY <2>1 DEF Answers, IsAnswer
<1>2. ASSUME NEW a \in Answers(str)
      PROVE  \E o \in AnswerOccurrences(str, {}) : a = <<o.marker, o.terminal, o.text>>
  <2>1. /\ a = <<a[1], a[2], a[3]>>
        /\ a[1] \in DOMAIN str /\ a[2] \in DOMAIN str /\ a[3] \in Bodies
        /\ str[a[2]].kind = "task_complete" /\ str[a[2]].last = a[3]
    BY DEF Answers
  <2>2. PICK s \in DOMAIN str : /\ IsHandover(str, s, a[1], a[2])
                                /\ <<s, a[2]>> \in CleanTurns(str, {})
                                /\ SaidFinally(str, Said(str, s, a[1], a[2]), a[3])
    BY DEF Answers
  <2> DEFINE o == [marker |-> a[1], start |-> s, terminal |-> a[2], status |-> "complete",
                   reason |-> "none", text |-> a[3]]
  <2>3. IsAnswer(o, str, {})
    BY <2>1, <2>2 DEF IsAnswer
  <2>4. o \in [marker : DOMAIN str, start : DOMAIN str, terminal : DOMAIN str,
               status : {"complete"}, reason : {"none"}, text : Bodies]
    BY <2>1, <2>2
  <2>5. a = <<o.marker, o.terminal, o.text>>
    BY <2>1
  <2>6. o \in AnswerOccurrences(str, {})
    <3> HIDE DEF o
    <3> QED BY <2>3, <2>4 DEF AnswerOccurrences
  <2> QED BY <2>5, <2>6
<1> QED BY <1>1, <1>2

\* The occurrences follow each other, the last of them above all; a task line
\* after an answer belongs to one of them.
LEMMA OccurrencesOrder ==
  ASSUME NEW S, S \subseteq AllLines, NEW str \in Seq(S), NEW cor, CorrelatorInv(cor, str)
  PROVE  /\ \A x \in Occurrences(cor, str) : x.marker \in DOMAIN str /\ IsTask(str[x.marker])
         /\ \A o \in CertifiedOf(cor, str) : \A x \in Occurrences(cor, str) :
              x = o \/ x.marker < o.marker \/ x.marker > o.terminal
         /\ \A o \in CertifiedOf(cor, str) : \A k \in DOMAIN str :
              k > o.terminal /\ IsTask(str[k]) =>
                \E x \in Occurrences(cor, str) : x.marker > o.terminal
<1> DEFINE occs == Occurrences(cor, str)
           q == OpenOccurrence(cor, str)
           lines == LinesOf(cor.acc, cor.buckets)
<1>1. occs = {SchemaIntegrity(str, o) : o \in Collected(cor, str)}
  BY OpenFacts
<1>2. \A o \in Collected(cor, str) :
        /\ SchemaIntegrity(str, o).marker = o.marker
        /\ o.marker \in DOMAIN str /\ IsTask(str[o.marker])
  BY CollectedFacts, IntegrityFacts
<1> HIDE DEF occs
<1>3. \A x \in occs : x.marker \in DOMAIN str /\ IsTask(str[x.marker])
  BY <1>1, <1>2
<1>4. ASSUME NEW o \in CertifiedOf(cor, str)
      PROVE  /\ o \in cor.occurrences /\ Certifiable(o) /\ SchemaIntegrity(str, o) = o
             /\ o \in AnswerOccurrences(str, {"drift"})
  <2>1. /\ o \in AnswerOccurrences(str, {"drift"})
        /\ ~\E d \in DriftOf(str) : d > o.start /\ (o.terminal = 0 \/ d < o.terminal)
    BY CertifiedFacts, DriftAnswers
  <2>2. o \in cor.occurrences /\ Certifiable(o)
    BY <2>1 DEF CorrelatorInv, CertifiedInv
  <2>3. IsOccurrence(o)
    BY <2>2, CollectedFacts DEF Collected
  <2> QED BY <2>1, <2>2, <2>3, IntegrityFacts
<1>5. ASSUME NEW o \in CertifiedOf(cor, str), NEW x \in occs
      PROVE  x = o \/ x.marker < o.marker \/ x.marker > o.terminal
  <2>1. PICK p \in Collected(cor, str) : x = SchemaIntegrity(str, p)
    BY <1>1
  <2>2. x.marker = p.marker
    BY <1>2, <2>1
  <2>3. CASE p \in cor.occurrences
    <3>1. p = o \/ p.marker < o.marker \/ p.marker > o.terminal
      BY <1>4, <2>3 DEF CorrelatorInv, OrderInv
    <3> QED BY <1>4, <2>1, <2>2, <3>1
  <2>4. CASE HasOpen(cor, str) /\ p = q
    <3>1. Before(o, q.marker)
      BY <1>4, <2>4, OpenOccurrenceFacts
    <3>2. o.terminal \in Nat /\ q.marker \in Nat
      <4>1. o.terminal \in DOMAIN str /\ q.marker \in DOMAIN str
        BY <1>4, <2>4, OpenOccurrenceFacts DEF AnswerOccurrences
      <4> QED BY <4>1
    <3> QED BY <2>2, <2>4, <3>1, <3>2 DEF Before
  <2> QED BY <2>3, <2>4 DEF Collected
<1>6. ASSUME NEW o \in CertifiedOf(cor, str), NEW k \in DOMAIN str,
             k > o.terminal, IsTask(str[k])
      PROVE  \E x \in occs : x.marker > o.terminal
  <2>1. k \in lines \/ \E p \in cor.occurrences : p.marker > o.terminal
    BY <1>4, <1>6 DEF CorrelatorInv, OrderInv
  <2>2. CASE \E p \in cor.occurrences : p.marker > o.terminal
    BY <1>1, <1>2, <2>2 DEF Collected
  <2>3. CASE k \in lines
    <3>1. k \in TaskLines(str, lines)
      BY <1>6, <2>3 DEF TaskLines, OfKind, IsTask
    <3>2. HasOpen(cor, str)
      BY <3>1 DEF HasOpen, LinesOf, TaskLines, OfKind
    <3>3. Before(o, q.marker) /\ q \in Collected(cor, str)
      BY <1>4, <3>2, OpenOccurrenceFacts DEF Collected
    <3>4. o.terminal \in Nat /\ q.marker \in Nat
      <4>1. o.terminal \in DOMAIN str /\ q.marker \in DOMAIN str
        BY <1>4, <3>2, OpenOccurrenceFacts DEF AnswerOccurrences
      <4> QED BY <4>1
    <3>5. SchemaIntegrity(str, q) \in occs /\ SchemaIntegrity(str, q).marker = q.marker
      BY <1>1, <1>2, <3>3
    <3> QED BY <3>3, <3>4, <3>5 DEF Before
  <2> QED BY <2>1, <2>2, <2>3
<1> QED BY <1>3, <1>5, <1>6 DEF occs

\* The occurrence given the task last is one of the occurrences.
LEMMA LatestFacts ==
  ASSUME NEW S, S \subseteq AllLines, NEW str \in Seq(S), NEW cor, CorrelatorInv(cor, str),
         Occurrences(cor, str) # {}
  PROVE  /\ LastBy(Occurrences(cor, str), MarkerOf) \in Occurrences(cor, str)
         /\ \A x \in Occurrences(cor, str) :
              x.marker <= LastBy(Occurrences(cor, str), MarkerOf).marker
<1> DEFINE occs == Occurrences(cor, str)
           T == {x.marker : x \in occs}
<1>1. Len(str) \in Nat /\ DOMAIN str = 1 .. Len(str)
  OBVIOUS
<1>2. \A x \in occs : x.marker \in DOMAIN str
  BY OccurrencesOrder
<1> HIDE DEF occs
<1>3. T \in SUBSET (0 .. Len(str)) /\ T # {}
  <2>1. \A x \in occs : x.marker \in 0 .. Len(str)
    BY <1>1, <1>2
  <2>2. PICK x \in occs : TRUE
    BY DEF occs
  <2> QED BY <2>1, <2>2
<1>4. PICK m \in T : \A k \in T : k <= m
  <2> HIDE DEF T
  <2> QED BY <1>1, <1>3, GreatestOf
<1>5. PICK o \in occs : o.marker = m
  OBVIOUS
<1>6. \A p \in occs : p.marker <= o.marker
  BY <1>4, <1>5
<1>7. LastBy(occs, MarkerOf) = CHOOSE z \in occs : \A p \in occs : p.marker <= z.marker
  BY DEF LastBy, MarkerOf
<1>8. /\ LastBy(occs, MarkerOf) \in occs
      /\ \A p \in occs : p.marker <= LastBy(occs, MarkerOf).marker
  BY <1>6, <1>7
<1> QED BY <1>8 DEF occs

\* Settled freshness.
LEMMA SettledFacts ==
  ASSUME NEW S, S \subseteq AllLines, NEW str \in Seq(S), NEW cor, CorrelatorInv(cor, str)
  PROVE  LET current == {a \in Answers(str) : \A k \in a[2] + 1 .. Len(str) :
                           ~IsTask(str[k]) /\ k \notin GapsOf(str)}
         IN /\ Freshness(cor, str) = "complete" <=> current # {}
            /\ \A a \in current : /\ Harvest(cor, str).status = "complete"
                                  /\ Harvest(cor, str).text = a[3]
<1> DEFINE occs == Occurrences(cor, str)
           certified == CertifiedOf(cor, str)
           last == LastBy(occs, MarkerOf)
           current == {a \in Answers(str) : \A k \in a[2] + 1 .. Len(str) :
                           ~IsTask(str[k]) /\ k \notin GapsOf(str)}
<1>1. /\ Len(str) \in Nat /\ DOMAIN str = 1 .. Len(str)
      /\ GapsOf(str) \subseteq DOMAIN str
  BY DEF GapsOf
<1>2. /\ \A x \in occs : x.marker \in DOMAIN str /\ IsTask(str[x.marker])
      /\ \A o \in certified : \A x \in occs :
           x = o \/ x.marker < o.marker \/ x.marker > o.terminal
      /\ \A o \in certified : \A k \in DOMAIN str :
           k > o.terminal /\ IsTask(str[k]) => \E x \in occs : x.marker > o.terminal
  BY OccurrencesOrder
<1>3. certified = {o \in occs : Certifiable(o)}
  BY DEF CertifiedOf
<1>4. \A o \in certified : /\ o.marker \in DOMAIN str /\ o.terminal \in DOMAIN str
                           /\ o.marker < o.terminal
  <2>1. certified = AnswerOccurrences(str, {})
    BY CertifiedFacts
  <2>2. \A o \in AnswerOccurrences(str, {}) :
          /\ o.marker \in DOMAIN str /\ o.terminal \in DOMAIN str /\ IsAnswer(o, str, {})
    BY DEF AnswerOccurrences
  <2>3. \A o : IsAnswer(o, str, {}) => o.marker < o.terminal
    BY DEF IsAnswer, IsHandover
  <2> QED BY <2>1, <2>2, <2>3
<1>5. {<<o.marker, o.terminal, o.text>> : o \in certified} = Answers(str)
  BY CertifiedFacts, AnswersFacts
<1>6. occs # {} => last \in occs /\ \A x \in occs : x.marker <= last.marker
  BY LatestFacts
<1>7. Freshness(cor, str) = "complete" <=>
        /\ occs # {} /\ Certifiable(last)
        /\ ~\E k \in GapsOf(str) :
              k > (IF last.terminal # 0 THEN last.terminal ELSE last.marker)
  BY DEF Freshness
<1>8. \/ /\ Harvest(cor, str).status = "complete"
         /\ Harvest(cor, str).text = LastBy(certified, TerminalOf).text
      \/ certified = {}
  <2>1. certified # {} => Harvest(cor, str) =
          [status |-> "complete", reason |-> "none",
           text |-> LastBy(certified, TerminalOf).text]
    BY <1>3 DEF Harvest
  <2> QED BY <2>1
<1> SUFFICES /\ Freshness(cor, str) = "complete" <=> current # {}
             /\ \A a \in current : /\ Harvest(cor, str).status = "complete"
                                   /\ Harvest(cor, str).text = a[3]
  OBVIOUS
<1> HIDE DEF occs, certified, last
<1>9. ASSUME NEW a \in current
      PROVE  /\ Freshness(cor, str) = "complete"
             /\ Harvest(cor, str).status = "complete" /\ Harvest(cor, str).text = a[3]
  <2>1. PICK o \in certified : a = <<o.marker, o.terminal, o.text>>
    BY <1>5
  <2>2. \A k \in DOMAIN str : k > o.terminal => ~IsTask(str[k]) /\ k \notin GapsOf(str)
    <3>1. a[2] = o.terminal /\ o.terminal \in 1 .. Len(str)
      BY <1>1, <1>4, <2>1
    <3>2. \A k \in DOMAIN str : k > o.terminal => k \in a[2] + 1 .. Len(str)
      BY <1>1, <3>1
    <3> QED BY <1>9, <3>2
  <2>3. \A x \in occs : x = o \/ x.marker < o.marker
    BY <1>2, <2>2
  <2>4. o \in occs /\ Certifiable(o)
    BY <1>3
  <2>5. last = o
    <3>1. last \in occs /\ o.marker <= last.marker
      BY <1>6, <2>4
    <3>2. o.marker \in Nat /\ last.marker \in Nat
      BY <1>1, <1>2, <2>4, <3>1
    <3> QED BY <2>3, <3>1, <3>2
  <2>6. Freshness(cor, str) = "complete"
    <3>1. o.terminal # 0
      BY <1>1, <1>4
    <3> QED BY <1>1, <1>7, <2>2, <2>4, <2>5, <3>1
  <2>7. ASSUME NEW x \in certified, x # o
        PROVE  x.terminal < o.terminal
    <3>1. x \in occs /\ o \in occs
      BY <1>3
    <3>2. x.marker < o.marker
      BY <2>3, <2>7, <3>1
    <3>3. o.marker < x.marker \/ o.marker > x.terminal
      BY <1>2, <2>7, <3>1
    <3>4. /\ x.marker \in Nat /\ o.marker \in Nat /\ x.terminal \in Nat /\ o.terminal \in Nat
          /\ o.marker < o.terminal
      BY <1>1, <1>4
    <3> QED BY <3>2, <3>3, <3>4
  <2>8. LastBy(certified, TerminalOf) = o
    <3>1. \A x \in certified : x.terminal <= o.terminal
      <4>1. \A x \in certified : x.terminal \in Nat
        BY <1>1, <1>4
      <4> QED BY <2>7, <4>1
    <3>2. LastBy(certified, TerminalOf) =
            CHOOSE z \in certified : \A p \in certified : p.terminal <= z.terminal
      BY DEF LastBy, TerminalOf
    <3>3. ASSUME NEW z \in certified, \A p \in certified : p.terminal <= z.terminal
          PROVE  z = o
      <4>1. o.terminal <= z.terminal /\ z.terminal \in Nat /\ o.terminal \in Nat
        BY <1>1, <1>4, <3>3
      <4> QED BY <2>7, <4>1
    <3> QED BY <3>1, <3>2, <3>3
  <2>9. a[3] = o.text
    BY <2>1
  <2> QED BY <1>8, <2>6, <2>8, <2>9
<1>10. ASSUME Freshness(cor, str) = "complete"
       PROVE  current # {}
  <2>1. /\ last \in certified /\ last \in occs
        /\ \A x \in occs : x.marker <= last.marker
    BY <1>3, <1>6, <1>7, <1>10
  <2>2. /\ last.marker \in Nat /\ last.terminal \in 1 .. Len(str)
        /\ last.marker < last.terminal
    BY <1>1, <1>4, <2>1
  <2>3. \A k \in GapsOf(str) : ~(k > last.terminal)
    BY <1>7, <1>10, <2>2
  <2>4. \A x \in occs : ~(x.marker > last.terminal)
    <3>1. \A x \in occs : x.marker \in Nat
      BY <1>1, <1>2
    <3> QED BY <2>1, <2>2, <3>1
  <2>5. \A k \in DOMAIN str : k > last.terminal => ~IsTask(str[k])
    BY <1>2, <2>1, <2>4
  <2> DEFINE a == <<last.marker, last.terminal, last.text>>
  <2>6. a \in Answers(str)
    BY <1>5, <2>1
  <2>7. \A k \in a[2] + 1 .. Len(str) : k \in DOMAIN str /\ k > last.terminal
    BY <1>1, <2>2
  <2> HIDE DEF a
  <2>8. a \in current
    BY <2>3, <2>5, <2>6, <2>7
  <2> QED BY <2>8
<1> QED BY <1>9, <1>10

\* A dispatch is complete exactly if one of its occurrences is.
LEMMA LifecycleFacts ==
  ASSUME NEW S, S \subseteq AllLines, NEW str \in Seq(S), NEW cor, CorrelatorInv(cor, str)
  PROVE  /\ Lifecycle(cor, str).status = "complete" <=>
              \E x \in Occurrences(cor, str) : x.status = "complete"
         /\ Lifecycle(cor, str).status = "pending" =>
              \/ Occurrences(cor, str) = {} /\ GapsOf(str) = {}
              \/ \E x \in Occurrences(cor, str) : x.status = "pending"
<1> DEFINE occs == Occurrences(cor, str)
           with(status) == {o \in occs : o.status = status}
           life == Lifecycle(cor, str)
           last == LastBy(occs, MarkerOf)
<1>1. with("complete") # {} => life.status = "complete"
  BY DEF Lifecycle
<1>2. with("complete") = {} =>
        life.status = IF with("unavailable") # {} THEN "unavailable"
                      ELSE IF with("pending") # {} THEN "pending"
                      ELSE IF occs # {} THEN last.status
                      ELSE IF GapsOf(str) # {} THEN "unavailable" ELSE "pending"
  BY DEF Lifecycle
<1>3. occs # {} => last \in occs
  BY LatestFacts
<1> HIDE DEF occs, life, last
<1>4. with("complete") # {} <=> \E x \in occs : x.status = "complete"
  OBVIOUS
<1>5. with("pending") # {} <=> \E x \in occs : x.status = "pending"
  OBVIOUS
<1>6. with("complete") = {} => life.status # "complete"
  <2>1. with("complete") = {} => \A x \in occs : x.status # "complete"
    BY <1>4
  <2> HIDE DEF with
  <2> QED BY <1>2, <1>3, <2>1
<1>7. life.status = "pending" =>
        (occs = {} /\ GapsOf(str) = {}) \/ \E x \in occs : x.status = "pending"
  <2> HIDE DEF with
  <2> QED BY <1>1, <1>2, <1>3, <1>5
<1> QED BY <1>1, <1>4, <1>6, <1>7 DEF occs, life

\* What one more line leaves.
LEMMA StayFacts ==
  ASSUME NEW S, S \subseteq AllLines, NEW str \in Seq(S), NEW r \in S,
         NEW cor, CorrelatorInv(cor, str)
  PROVE  /\ CertifiedOf(cor, str) \subseteq
              CertifiedOf(CorrelateLine(cor, str, r), Append(str, r))
         /\ Lifecycle(cor, str).status = "complete" =>
              Lifecycle(CorrelateLine(cor, str, r), Append(str, r)).status = "complete"
<1> DEFINE str2 == Append(str, r)
           cor2 == CorrelateLine(cor, str, r)
<1>1. str2 \in Seq(S) /\ CorrelatorInv(cor2, str2)
  BY CorrelateLineStep
<1>2. /\ DOMAIN str = 1 .. Len(str) /\ Len(str) \in Nat
      /\ DOMAIN str2 = 1 .. Len(str) + 1
      /\ \A k \in 1 .. Len(str) : str2[k] = str[k]
  BY Appended
<1>3. \A o \in AnswerOccurrences(str, {}) : o \in AnswerOccurrences(str2, {})
  BY AnswersAppend
<1>4. cor.occurrences \subseteq cor2.occurrences
  BY DEF CorrelateLine, CorrelateRecord
<1> HIDE DEF str2, cor2
<1>5. CertifiedOf(cor, str) \subseteq CertifiedOf(cor2, str2)
  <2>1. CertifiedOf(cor, str) = AnswerOccurrences(str, {})
    BY CertifiedFacts
  <2>2. CertifiedOf(cor2, str2) = AnswerOccurrences(str2, {})
    BY <1>1, CertifiedFacts
  <2> QED BY <1>3, <2>1, <2>2
<1>6. ASSUME Lifecycle(cor, str).status = "complete"
      PROVE  Lifecycle(cor2, str2).status = "complete"
  <2>1. PICK x \in Occurrences(cor, str) : x.status = "complete"
    BY <1>6, LifecycleFacts
  <2>2. PICK o \in Collected(cor, str) : x = SchemaIntegrity(str, o)
    BY OpenFacts
  <2>3. IsOccurrence(o)
    BY CollectedFacts
  <2>4. x = o
    BY <2>1, <2>2, <2>3, IntegrityFacts
  <2>5. /\ o.status = "complete" /\ o \in cor.occurrences /\ o.terminal \in 1 .. Len(str)
        /\ o.start = 0 \/ ~\E d \in DriftOf(str) : d > o.start /\ (o.terminal = 0 \/ d < o.terminal)
    BY <2>1, <2>2, <2>3, <2>4, CollectedFacts, IntegrityFacts
  <2>6. o \in Collected(cor2, str2)
    BY <1>4, <2>5 DEF Collected
  <2>7. \A d \in DriftOf(str2) : d \in DriftOf(str) \/ d = Len(str) + 1
    BY <1>2 DEF DriftOf
  <2>8. o.terminal # 0 /\ ~(Len(str) + 1 < o.terminal)
    <3>1. Len(str) \in Nat
      OBVIOUS
    <3> QED BY <2>5, <3>1
  <2>9. o.start = 0 \/
          ~\E d \in DriftOf(str2) : d > o.start /\ (o.terminal = 0 \/ d < o.terminal)
    BY <2>5, <2>7, <2>8
  <2>10. SchemaIntegrity(str2, o) = o
    BY <2>3, <2>9, IntegrityFacts
  <2>11. o \in Occurrences(cor2, str2)
    <3>1. Occurrences(cor2, str2) = {SchemaIntegrity(str2, p) : p \in Collected(cor2, str2)}
      BY <1>1, OpenFacts
    <3> QED BY <2>6, <2>10, <3>1
  <2> QED BY <1>1, <2>5, <2>11, LifecycleFacts
<1> QED BY <1>5, <1>6 DEF str2, cor2

\* Where a dispatch is pending.
LEMMA PendingFacts ==
  ASSUME NEW S, S \subseteq AllLines, NEW str \in Seq(S), NEW cor, CorrelatorInv(cor, str),
         Lifecycle(cor, str).status = "pending"
  PROVE  \/ Occurrences(cor, str) = {} /\ GapsOf(str) = {}
         \/ \E s \in OpenStarts(str, {}), m \in DOMAIN str :
              IsHandover(str, s, m, Len(str) + 1)
         \/ \E g, m \in DOMAIN str :
              /\ g < m /\ str[g].kind = "malformed" /\ IsTask(str[m])
              /\ \A k \in g + 1 .. Len(str) : ~IsStart(str[k])
              /\ \A k \in m + 1 .. Len(str) :
                   /\ str[k].kind # "malformed"
                   /\ str[k].kind = "user_message" => SameDelivery(str[m], str[k])
<1> DEFINE acc == cor.acc
           lines == LinesOf(acc, cor.buckets)
           turn == LeftOpen(cor, str)
           q == OpenOccurrence(cor, str)
           start == Current(acc).startLine
<1>1. \/ Occurrences(cor, str) = {} /\ GapsOf(str) = {}
      \/ \E x \in Occurrences(cor, str) : x.status = "pending"
  BY LifecycleFacts
<1>2. SUFFICES ASSUME NEW x \in Occurrences(cor, str), x.status = "pending"
               PROVE  \/ \E s \in OpenStarts(str, {}), m \in DOMAIN str :
                           IsHandover(str, s, m, Len(str) + 1)
                      \/ \E g, m \in DOMAIN str :
                           /\ g < m /\ str[g].kind = "malformed" /\ IsTask(str[m])
                           /\ \A k \in g + 1 .. Len(str) : ~IsStart(str[k])
                           /\ \A k \in m + 1 .. Len(str) :
                                /\ str[k].kind # "malformed"
                                /\ str[k].kind = "user_message" => SameDelivery(str[m], str[k])
  BY <1>1
<1>3. PICK o \in Collected(cor, str) : x = SchemaIntegrity(str, o)
  BY OpenFacts
<1>4. /\ o.status = "pending"
      /\ o.start = 0 \/ ~\E d \in DriftOf(str) : d > o.start /\ (o.terminal = 0 \/ d < o.terminal)
  <2>1. IsOccurrence(o)
    BY CollectedFacts
  <2>2. x = o
    BY <1>2, <1>3, <2>1, IntegrityFacts
  <2> QED BY <1>2, <1>3, <2>1, <2>2, IntegrityFacts
<1>5. HasOpen(cor, str) /\ o = q
  <2>1. o \notin cor.occurrences
    BY <1>4 DEF CorrelatorInv, OrderInv
  <2> QED BY <2>1 DEF Collected
<1>6. /\ lines \subseteq DOMAIN str /\ acc.current # 0
      /\ turn.terminal = "none" /\ turn.errors = Current(acc).errors
      /\ TaskLines(str, lines) # {}
  BY <1>5, OpenFacts DEF HasOpen
<1>7. DOMAIN str = 1 .. Len(str) /\ Len(str) \in Nat
  OBVIOUS
<1> DEFINE m == q.marker
           starts == OfKind(str, lines, "task_started")
<1> HIDE DEF turn, lines, q, start
<1>8. /\ m \in TaskLines(str, lines)
      /\ \A k \in TaskLines(str, lines) : m <= k
      /\ q.start = IF starts = {} THEN 0 ELSE Max(starts)
      /\ turn.errors = {}
      /\ InWindowErrors(str, lines, m, turn) = {}
      /\ \A k \in OfKind(str, lines, "user_message") : k > m => SameDelivery(str[m], str[k])
  <2>1. q = Occurrence(str, lines, turn)
    BY DEF q, OpenOccurrence, lines, turn
  <2>2. lines \in SUBSET Nat
    BY <1>6, <1>7
  <2>3. q.status = "pending"
    BY <1>4, <1>5
  <2> QED BY <1>6, <2>1, <2>2, <2>3, OccurrenceShape
<1>9. /\ start \in lines /\ lines \subseteq start .. Len(str)
      /\ \A k \in start .. Len(str) :
           str[k].kind \in {"malformed", "user_message"} => k \in lines
      /\ \A k \in start + 1 .. Len(str) : ~IsStart(str[k])
      /\ str[start].kind \in {"task_started", "malformed"}
      /\ Current(acc).parseGap => \E k \in lines : str[k].kind = "malformed"
  BY <1>6, <1>8 DEF CorrelatorInv, OpenInv, lines, start
<1>10. start \in 1 .. Len(str)
  BY <1>6, <1>7, <1>9
<1>11. /\ m \in lines /\ m \in 1 .. Len(str) /\ IsTask(str[m]) /\ start < m
  <2>1. m \in lines /\ IsTask(str[m])
    BY <1>8 DEF TaskLines, OfKind, IsTask
  <2>2. m # start
    BY <1>9, <2>1 DEF IsTask
  <2>3. m \in start .. Len(str)
    BY <1>9, <2>1
  <2> HIDE DEF m
  <2>4. m \in 1 .. Len(str) /\ start < m
    BY <1>7, <1>10, <2>2, <2>3
  <2> QED BY <2>1, <2>4
<1>12. \A k \in start .. Len(str) : str[k].kind = "user_message" =>
         /\ k < m => ~IsTask(str[k])
         /\ k > m => SameDelivery(str[m], str[k])
  <2>1. \A k \in start .. Len(str) : str[k].kind = "user_message" =>
          k \in OfKind(str, lines, "user_message")
    BY <1>9 DEF OfKind
  <2>2. \A k \in start .. Len(str) : IsTask(str[k]) => ~(k < m)
    <3>1. \A k \in start .. Len(str) : IsTask(str[k]) => k \in TaskLines(str, lines) /\ k \in Nat
      BY <1>10, <2>1 DEF IsTask, TaskLines
    <3> QED BY <1>8, <1>11, <3>1
  <2> QED BY <1>8, <2>1, <2>2
<1> HIDE DEF m
<1>13. CASE str[start].kind = "task_started"
  <2>1. starts = {start}
    <3>1. start \in starts
      BY <1>9, <1>13 DEF OfKind
    <3>2. ASSUME NEW k \in starts
          PROVE  k = start
      <4>1. k \in lines /\ str[k].kind = "task_started"
        BY <3>2 DEF OfKind
      <4>2. k \in start .. Len(str)
        BY <1>9, <4>1
      <4>3. k \notin start + 1 .. Len(str)
        BY <1>9, <4>1 DEF IsStart
      <4> QED BY <1>7, <1>10, <4>2, <4>3
    <3> QED BY <3>1, <3>2
  <2>2. q.start = start
    <3>1. Max({start}) = start
      BY <1>10 DEF Max
    <3> QED BY <1>8, <2>1, <3>1
  <2>3. \A k \in lines : str[k].kind # "malformed"
    <3> SUFFICES ASSUME NEW k \in lines, str[k].kind = "malformed" PROVE FALSE
      OBVIOUS
    <3>1. k > start
      BY <1>9, <1>10, <1>13
    <3>2. Max(starts) = start /\ starts # {}
      <4>1. Max({start}) = start
        BY <1>10 DEF Max
      <4> HIDE DEF starts
      <4> QED BY <2>1, <4>1
    <3>3. k \in InWindowErrors(str, lines, m, turn)
      <4> HIDE DEF starts
      <4> QED BY <1>6, <3>1, <3>2 DEF InWindowErrors, OfKind, starts
    <3> QED BY <1>8, <3>3
  <2>4. Clean(Current(acc))
    BY <1>6, <1>8, <1>9, <2>3 DEF Clean
  <2>5. start \in OpenStarts(str, {"drift"})
    BY <1>6, <2>4 DEF CorrelatorInv, FeedInv, CutInv, start
  <2>6. q.terminal = 0
    BY <1>5, OpenOccurrenceFacts DEF q
  <2>7. ~\E d \in DriftOf(str) : d > start
    BY <1>4, <1>5, <1>10, <2>2, <2>6
  <2>8. start \in OpenStarts(str, {})
    BY <2>5, <2>7, DriftCut
  <2>9. IsHandover(str, start, m, Len(str) + 1)
    <3>1. /\ Len(str) + 1 - 1 = Len(str) /\ m < Len(str) + 1
          /\ start + 1 .. Len(str) \subseteq start .. Len(str)
      BY <1>7, <1>10, <1>11
    <3> QED BY <1>11, <1>12, <3>1 DEF IsHandover
  <2> QED BY <1>7, <1>11, <2>8, <2>9
<1>14. CASE str[start].kind = "malformed"
  <2>1. starts = {}
    <3>1. \A k \in lines : k = start \/ k \in start + 1 .. Len(str)
      BY <1>7, <1>9, <1>10
    <3> QED BY <1>9, <1>14, <3>1 DEF OfKind, IsStart
  <2>2. ASSUME NEW k \in m + 1 .. Len(str)
        PROVE  /\ str[k].kind # "malformed"
               /\ str[k].kind = "user_message" => SameDelivery(str[m], str[k])
    <3>1. k \in start .. Len(str) /\ k > m
      BY <1>7, <1>10, <1>11
    <3>2. str[k].kind # "malformed"
      <4> SUFFICES ASSUME str[k].kind = "malformed" PROVE FALSE
        OBVIOUS
      <4>1. k \in InWindowErrors(str, lines, m, turn)
        <5> HIDE DEF starts
        <5> QED BY <1>6, <1>9, <2>1, <3>1 DEF InWindowErrors, OfKind, starts
      <4> QED BY <1>8, <4>1
    <3> QED BY <1>12, <3>1, <3>2
  <2>3. start \in DOMAIN str /\ m \in DOMAIN str
    BY <1>7, <1>10, <1>11
  <2> QED BY <1>9, <1>11, <1>14, <2>2, <2>3
<1> QED BY <1>9, <1>13, <1>14

\* What the marker consumer proves, the correlator certifies.
LEMMA AgreeFacts ==
  ASSUME NEW S, S \subseteq AllLines, NEW str \in Seq(S), NEW cor, CorrelatorInv(cor, str),
         NEW con, ConsumerInv(con, str), Proven(con, str)
  PROVE  \E o \in Occurrences(cor, str) :
           /\ o.start = con.candidate.start /\ o.terminal = con.candidate.terminal
           /\ o.status = "complete" /\ o.text = str[con.candidate.agent].body
<1> DEFINE c == con.candidate
<1>1. IsProof(c, str, {"drift"})
  BY DEF ConsumerInv, CandidateInv, Proven
<1>2. IsProof(c, str, {})
  BY <1>1, DriftProofs DEF Proven, IntegrityViolation
<1>3. /\ <<c.start, c.terminal>> \in CleanTurns(str, {})
      /\ str[c.terminal].kind = "task_complete" /\ str[c.terminal].last \in Marked
  BY <1>2 DEF IsProof
<1>4. PICK m \in c.start + 1 .. c.terminal - 1 :
        /\ IsHandover(str, c.start, m, c.terminal)
        /\ c.agent \in Said(str, c.start, m, c.terminal)
        /\ str[c.agent].final /\ str[c.agent].body = str[c.terminal].last
  BY <1>2 DEF IsProof
<1>5. c.start \in DOMAIN str /\ c.terminal \in DOMAIN str /\ DOMAIN str = 1 .. Len(str)
      /\ Len(str) \in Nat
  BY <1>3 DEF CleanTurns
<1> DEFINE o == [marker |-> m, start |-> c.start, terminal |-> c.terminal,
                 status |-> "complete", reason |-> "none", text |-> str[c.terminal].last]
<1>6. IsAnswer(o, str, {})
  BY <1>3, <1>4 DEF IsAnswer, SaidFinally
<1>7. m \in DOMAIN str
  BY <1>5
<1>8. o \in [marker : DOMAIN str, start : DOMAIN str, terminal : DOMAIN str,
             status : {"complete"}, reason : {"none"}, text : Bodies]
  BY <1>3, <1>5, <1>7, MarkerAssumption
<1>9. /\ o.start = c.start /\ o.terminal = c.terminal
      /\ o.status = "complete" /\ o.text = str[c.agent].body
  BY <1>4
<1>10. o \in AnswerOccurrences(str, {})
  <2> HIDE DEF o
  <2> QED BY <1>6, <1>8 DEF AnswerOccurrences
<1>11. o \in Occurrences(cor, str)
  <2>1. o \in CertifiedOf(cor, str)
    BY <1>10, CertifiedFacts
  <2> QED BY <2>1 DEF CertifiedOf
<1> QED BY <1>9, <1>11
=============================================================================
