----------------------------- MODULE ReaderProofs -----------------------------
(***************************************************************************)
(* Proofs about RolloutReader and the inspector beside it, for files of    *)
(* any length, any lines in them, and any number of reads and changes.     *)
(*                                                                         *)
(* WellFormed and OwnLines speak of a whole file; the three parsers go     *)
(* through it line by line.  The lemmas say what one line more does to     *)
(* either side.                                                            *)
(***************************************************************************)
EXTENDS Inspections, FiniteSetTheorems, WellFoundedInduction, TLAPS

USE RolloutHistoryAssumption, RolloutReaderAssumption

-----------------------------------------------------------------------------
(***************************************************************************)
(* Half lines.                                                             *)
(***************************************************************************)

LEMMA OddHalf ==
  ASSUME NEW n \in Nat, n % 2 = 1
  PROVE  n = 2 * (n \div 2) + 1 /\ (n + 1) \div 2 = n \div 2 + 1 /\ n \div 2 \in Nat
OBVIOUS

LEMMA LinesOfType ==
  ASSUME NEW half \in Seq(Lines)
  PROVE  /\ LinesOf(half) \in Seq(Lines) /\ Len(LinesOf(half)) = Len(half) \div 2
         /\ \A k \in 1 .. Len(half) \div 2 : LinesOf(half)[k] = Joined(half[2 * k - 1], half[2 * k])
<1>1. ASSUME NEW k \in 1 .. Len(half) \div 2 PROVE Joined(half[2 * k - 1], half[2 * k]) \in Lines
  <2>1. 2 * k - 1 \in 1 .. Len(half) /\ 2 * k \in 1 .. Len(half)
    OBVIOUS
  <2> QED BY <2>1 DEF Joined
<1>2. Len(half) \div 2 \in Nat
  OBVIOUS
<1> QED BY <1>1, <1>2 DEF LinesOf

LEMMA PendingFacts ==
  ASSUME NEW half \in Seq(Lines)
  PROVE  /\ PendingOf(half) = <<>> <=> Len(half) % 2 = 0
         /\ Len(half) % 2 = 1 => half # <<>> /\ PendingOf(half) = <<half[Len(half)]>>
                                 /\ PendingOf(half)[1] = half[Len(half)]
<1>1. Len(half) % 2 \in {0, 1}
  OBVIOUS
<1> QED BY <1>1 DEF PendingOf, Last

\* The first half of a line adds no line, the second one does.
LEMMA FirstHalf ==
  ASSUME NEW half \in Seq(Lines), NEW x \in Lines, PendingOf(half) = <<>>
  PROVE  LinesOf(Append(half, x)) = LinesOf(half)
<1>1. Len(half) % 2 = 0
  BY PendingFacts
<1>2. Append(half, x) \in Seq(Lines) /\ Len(Append(half, x)) = Len(half) + 1
  OBVIOUS
<1>3. (Len(half) + 1) \div 2 = Len(half) \div 2
  <2> DEFINE n == Len(half)
  <2>1. n \in Nat /\ n % 2 = 0
    BY <1>1
  <2> HIDE DEF n
  <2>2. (n + 1) \div 2 = n \div 2
    BY <2>1
  <2> QED BY <2>2 DEF n
<1>4. \A k \in 1 .. Len(half) \div 2 :
        /\ Append(half, x)[2 * k - 1] = half[2 * k - 1]
        /\ Append(half, x)[2 * k] = half[2 * k]
  OBVIOUS
<1> QED BY <1>2, <1>3, <1>4 DEF LinesOf

LEMMA SecondHalf ==
  ASSUME NEW half \in Seq(Lines), NEW x \in Lines, PendingOf(half) # <<>>
  PROVE  /\ Joined(PendingOf(half)[1], x) \in Lines
         /\ LinesOf(Append(half, x)) = Append(LinesOf(half), Joined(PendingOf(half)[1], x))
<1> DEFINE n == Len(half) \div 2
           more == Append(half, x)
           line == Joined(half[Len(half)], x)
<1>1. Len(half) % 2 = 1 /\ PendingOf(half)[1] = half[Len(half)]
  <2>1. Len(half) % 2 \in {0, 1}
    OBVIOUS
  <2> QED BY <2>1, PendingFacts
<1>2. Len(half) = 2 * n + 1 /\ (Len(half) + 1) \div 2 = n + 1 /\ n \in Nat
  <2>1. Len(half) \in Nat
    OBVIOUS
  <2> QED BY <1>1, <2>1, OddHalf
<1>3. more \in Seq(Lines) /\ Len(more) = Len(half) + 1 /\ more[Len(half) + 1] = x
      /\ \A k \in 1 .. Len(half) : more[k] = half[k]
  OBVIOUS
<1>4. line \in Lines
  BY <1>2 DEF Joined
<1>5. LinesOf(half) \in Seq(Lines) /\ Len(LinesOf(half)) = n
      /\ \A k \in 1 .. n : LinesOf(half)[k] = Joined(half[2 * k - 1], half[2 * k])
  BY LinesOfType
<1>6. LinesOf(more) \in Seq(Lines) /\ Len(LinesOf(more)) = n + 1
      /\ \A k \in 1 .. n + 1 : LinesOf(more)[k] = Joined(more[2 * k - 1], more[2 * k])
  BY <1>2, <1>3, LinesOfType
<1> HIDE DEF n, more
<1>7. LinesOf(more)[n + 1] = line
  <2>1. 2 * (n + 1) - 1 = Len(half) /\ 2 * (n + 1) = Len(half) + 1
    BY <1>2
  <2>2. Len(half) \in 1 .. Len(half)
    BY <1>2
  <2> QED BY <1>2, <1>3, <1>6, <2>1, <2>2
<1>8. \A k \in 1 .. n : LinesOf(more)[k] = LinesOf(half)[k]
  <2> TAKE k \in 1 .. n
  <2>1. 2 * k - 1 \in 1 .. Len(half) /\ 2 * k \in 1 .. Len(half) /\ k \in 1 .. n + 1
    BY <1>2
  <2> QED BY <1>3, <1>5, <1>6, <2>1
<1> HIDE DEF line
<1>9. LinesOf(more) = Append(LinesOf(half), line)
  BY <1>2, <1>4, <1>5, <1>6, <1>7, <1>8
<1> QED BY <1>1, <1>4, <1>9 DEF more, line

-----------------------------------------------------------------------------
(***************************************************************************)
(* A file and a longer one.                                                *)
(***************************************************************************)

\* The first lines of a file are another.
Begins(p, q) ==
  /\ p \in Seq(Lines) /\ q \in Seq(Lines) /\ p # <<>> /\ Len(p) <= Len(q)
  /\ \A k \in 1 .. Len(p) : q[k] = p[k]

LEMMA LineType ==
  ASSUME NEW line \in Lines
  PROVE  /\ line.kind \in Kinds /\ line.id \in Threads \cup {None}
         /\ line.fork \in Threads \cup {None, Invalid} /\ line.start \in Nat \cup {None}
         /\ line.ordinal \in Nat \cup {None} /\ line.claims \subseteq Threads \cup {Invalid}
         /\ IsFiniteSet(line.claims)
<1>1. line \in [kind : Kinds, id : Threads \cup {None},
                fork : Threads \cup {None, Invalid}, start : Nat \cup {None},
                ordinal : Nat \cup {None}, claims : SUBSET (Threads \cup {Invalid})]
  OBVIOUS
<1> QED BY <1>1

LEMMA BeginsFacts ==
  ASSUME NEW p, NEW q, Begins(p, q)
  PROVE  /\ Records(p) = Records(q) \cap 1 .. Len(p) /\ Metas(p) = Metas(q) \cap 1 .. Len(p)
         /\ Ordinal(q) <=> Ordinal(p)
         /\ \A k \in 1 .. Len(p) : Inherited(q, k) <=> Inherited(p, k)
         /\ \A k \in 1 .. Len(p) + 1 : DeclaredBefore(q, k) = DeclaredBefore(p, k)
         /\ OwnLines(p) = OwnLines(q) \cap 1 .. Len(p)
         /\ q # <<>> /\ q[1] = p[1] /\ 1 \in 1 .. Len(p)
<1>1. /\ p \in Seq(Lines) /\ q \in Seq(Lines) /\ Len(p) \in Nat \ {0} /\ Len(p) <= Len(q)
      /\ DOMAIN p = 1 .. Len(p) /\ DOMAIN q = 1 .. Len(q)
      /\ \A k \in 1 .. Len(p) : q[k] = p[k] /\ k \in DOMAIN q
      /\ q # <<>>
  BY DEF Begins
<1>2. q[1] = p[1] /\ 1 \in 1 .. Len(p)
  BY <1>1
<1>3. Records(p) = Records(q) \cap 1 .. Len(p)
  BY <1>1 DEF Records
<1>4. Metas(p) = Metas(q) \cap 1 .. Len(p)
  BY <1>1 DEF Metas
<1>5. Ordinal(q) <=> Ordinal(p)
  BY <1>2 DEF Ordinal
<1>6. \A k \in 1 .. Len(p) : Inherited(q, k) <=> Inherited(p, k)
  BY <1>1, <1>2, <1>3, <1>5 DEF Inherited
<1>7. ASSUME NEW k \in 1 .. Len(p) + 1 PROVE DeclaredBefore(q, k) = DeclaredBefore(p, k)
  <2>1. Metas(p) \cap 1 .. (k - 1) = Metas(q) \cap 1 .. (k - 1)
    BY <1>1, <1>4
  <2>2. \A j \in Metas(p) \cap 1 .. (k - 1) : q[j].fork = p[j].fork
    BY <1>1, <1>4
  <2> QED BY <1>2, <2>1, <2>2 DEF DeclaredBefore
<1>8. OwnLines(p) = OwnLines(q) \cap 1 .. Len(p)
  BY <1>1, <1>6 DEF OwnLines
<1> QED BY <1>1, <1>2, <1>3, <1>4, <1>5, <1>6, <1>7, <1>8

\* One line more.
LEMMA AppendBegins ==
  ASSUME NEW p \in Seq(Lines), p # <<>>, NEW line \in Lines
  PROVE  Begins(p, Append(p, line))
BY DEF Begins

LEMMA WellFormedBegins ==
  ASSUME NEW p, NEW q, Begins(p, q), NEW thread, WellFormed(q, thread)
  PROVE  WellFormed(p, thread)
<1>1. /\ Records(p) = Records(q) \cap 1 .. Len(p) /\ Metas(p) = Metas(q) \cap 1 .. Len(p)
      /\ Ordinal(q) <=> Ordinal(p)
      /\ \A k \in 1 .. Len(p) : Inherited(q, k) <=> Inherited(p, k)
      /\ \A k \in 1 .. Len(p) + 1 : DeclaredBefore(q, k) = DeclaredBefore(p, k)
      /\ q[1] = p[1]
  BY BeginsFacts
<1>2. /\ \A k \in 1 .. Len(p) : q[k] = p[k] /\ k \in DOMAIN q
      /\ DOMAIN p = 1 .. Len(p) /\ Len(p) \in Nat
  BY DEF Begins
<1>3. CountsUp(q) => CountsUp(p)
  <2> SUFFICES ASSUME CountsUp(q), NEW k \in Records(p)
               PROVE  /\ p[k].ordinal = Cardinality(Records(p) \cap 1 .. (k - 1))
                      /\ p[k].ordinal = p[1].start => p[k].kind = "thread_settings_applied"
    BY DEF CountsUp
  <2>1. k \in Records(q) /\ k \in 1 .. Len(p) /\ q[k] = p[k]
    BY <1>1, <1>2
  <2>2. Records(p) \cap 1 .. (k - 1) = Records(q) \cap 1 .. (k - 1)
    BY <1>1, <1>2, <2>1
  <2> QED BY <1>1, <2>1, <2>2 DEF CountsUp
<1>4. ForkIsDeclared(p)
  BY <1>1, <1>3 DEF WellFormed, ForkIsDeclared
<1>5. \A k \in Records(p) : ~Inherited(p, k) => p[k].claims \subseteq {thread}
  <2> SUFFICES ASSUME NEW k \in Records(p), ~Inherited(p, k) PROVE p[k].claims \subseteq {thread}
    OBVIOUS
  <2>1. k \in Records(q) /\ k \in 1 .. Len(p) /\ q[k] = p[k]
    BY <1>1, <1>2
  <2> QED BY <1>1, <2>1 DEF WellFormed
<1>6. \A k \in Metas(p) : p[k].id \in DeclaredBefore(p, k)
  <2> TAKE k \in Metas(p)
  <2>1. k \in Metas(q) /\ k \in 1 .. Len(p) /\ q[k] = p[k]
    BY <1>1, <1>2
  <2> QED BY <1>1, <1>2, <2>1 DEF WellFormed
<1>7. \A k \in DOMAIN p : p[k].kind # "undecodable"
  BY <1>2 DEF WellFormed
<1> QED BY <1>1, <1>4, <1>5, <1>6, <1>7 DEF WellFormed

-----------------------------------------------------------------------------
(***************************************************************************)
(* One line more.                                                          *)
(***************************************************************************)
IsRecord(line) == line.kind \notin {"blank", "malformed", "undecodable"}

\* What the next line must be for the file to remain a rollout of the thread.
OrdinalFits(lines, line) ==
  Ordinal(lines) => /\ line.ordinal = Cardinality(Records(lines))
                    /\ line.ordinal = lines[1].start => line.kind = "thread_settings_applied"
IsInherited(lines, line) == Ordinal(lines) /\ line.ordinal < lines[1].start
Fits(lines, line) ==
  /\ line.kind # "undecodable"
  /\ line.kind = "session_meta" => line.id \in DeclaredBefore(lines, Len(lines) + 1)
  /\ IsRecord(line) =>
       /\ OrdinalFits(lines, line)
       /\ ~IsInherited(lines, line) => line.claims \subseteq {Expected}

\* A line that declares a parent declares it for the lines after it.
LEMMA DeclaredIs ==
  ASSUME NEW q \in Seq(Lines), NEW k \in Nat
  PROVE  \A x : x \in DeclaredBefore(q, k) <=>
           x = q[1].id \/ (x \in Threads /\ \E j \in Metas(q) : j < k /\ q[j].fork = x)
<1>1. \A j \in Metas(q) : j \in 1 .. (k - 1) <=> j < k
  BY DEF Metas
<1> QED BY <1>1 DEF DeclaredBefore

\* What is said of the whole file is said of the line that was added.
LEMMA AppendFacts ==
  ASSUME NEW p \in Seq(Lines), p # <<>>, NEW line \in Lines
  PROVE  LET q == Append(p, line)
             n == Len(p) + 1
         IN /\ q \in Seq(Lines) /\ Len(q) = n /\ q[n] = line /\ q # <<>> /\ q[1] = p[1]
            /\ Records(q) = Records(p) \cup (IF IsRecord(line) THEN {n} ELSE {})
            /\ Metas(q) = Metas(p) \cup (IF line.kind = "session_meta" THEN {n} ELSE {})
            /\ Ordinal(q) <=> Ordinal(p)
            /\ Inherited(q, n) <=> IsRecord(line) /\ IsInherited(p, line)
            /\ DeclaredBefore(q, n) = DeclaredBefore(p, n)
            /\ DeclaredBefore(q, n + 1) =
                 DeclaredBefore(p, n) \cup
                   (IF line.kind = "session_meta" THEN {line.fork} \cap Threads ELSE {})
            /\ OwnLines(q) = OwnLines(p) \cup
                 (IF line.kind # "blank" /\ ~(IsRecord(line) /\ IsInherited(p, line))
                  THEN {n} ELSE {})
<1> DEFINE q == Append(p, line)
           n == Len(p) + 1
<1>1. Begins(p, q)
  BY AppendBegins
<1>2. /\ q \in Seq(Lines) /\ Len(q) = n /\ q[n] = line /\ q # <<>> /\ q[1] = p[1]
      /\ DOMAIN q = 1 .. n /\ DOMAIN p = 1 .. n - 1 /\ n \in Nat /\ n >= 2
      /\ \A k \in 1 .. n - 1 : q[k] = p[k]
  OBVIOUS
<1>3. /\ Records(p) = Records(q) \cap 1 .. n - 1 /\ Metas(p) = Metas(q) \cap 1 .. n - 1
      /\ Ordinal(q) <=> Ordinal(p)
      /\ DeclaredBefore(q, n) = DeclaredBefore(p, n)
      /\ OwnLines(p) = OwnLines(q) \cap 1 .. n - 1
  <2>1. n \in 1 .. Len(p) + 1 /\ Len(p) = n - 1
    BY <1>2
  <2> QED BY <1>1, <2>1, BeginsFacts
<1> HIDE DEF q, n
<1>4. Records(q) = Records(p) \cup (IF IsRecord(line) THEN {n} ELSE {})
  <2>1. Records(q) \subseteq 1 .. n /\ (n \in Records(q) <=> IsRecord(line))
    BY <1>2 DEF Records, IsRecord
  <2> QED BY <1>2, <1>3, <2>1
<1>5. Metas(q) = Metas(p) \cup (IF line.kind = "session_meta" THEN {n} ELSE {})
  <2>1. Metas(q) \subseteq 1 .. n /\ (n \in Metas(q) <=> line.kind = "session_meta")
    BY <1>2 DEF Metas
  <2> QED BY <1>2, <1>3, <2>1
<1>6. Inherited(q, n) <=> IsRecord(line) /\ IsInherited(p, line)
  <2>1. n \in Records(q) <=> IsRecord(line)
    BY <1>2 DEF Records, IsRecord
  <2> QED BY <1>2, <1>3, <2>1 DEF Inherited, IsInherited
<1>7. DeclaredBefore(q, n + 1) =
        DeclaredBefore(p, n) \cup
          (IF line.kind = "session_meta" THEN {line.fork} \cap Threads ELSE {})
  <2>1. \A x : x \in DeclaredBefore(q, n + 1) <=>
           x = q[1].id \/ (x \in Threads /\ \E j \in Metas(q) : j < n + 1 /\ q[j].fork = x)
    <3>1. q \in Seq(Lines) /\ n + 1 \in Nat
      BY <1>2
    <3> QED BY <3>1, DeclaredIs
  <2>2. \A x : x \in DeclaredBefore(p, n) <=>
           x = p[1].id \/ (x \in Threads /\ \E j \in Metas(p) : j < n /\ p[j].fork = x)
    BY <1>2, DeclaredIs
  <2>3. \A j \in Metas(p) : j < n /\ j < n + 1 /\ q[j].fork = p[j].fork
    BY <1>2, <1>3
  <2>4. \A x : (\E j \in Metas(q) : j < n + 1 /\ q[j].fork = x) <=>
             \/ \E j \in Metas(p) : j < n /\ p[j].fork = x
             \/ line.kind = "session_meta" /\ x = line.fork
    <3>1. CASE line.kind = "session_meta"
      <4>1. Metas(q) = Metas(p) \cup {n} /\ n < n + 1 /\ q[n].fork = line.fork
        BY <1>2, <1>5, <3>1
      <4> QED BY <2>3, <3>1, <4>1
    <3>2. CASE line.kind # "session_meta"
      <4>1. Metas(q) = Metas(p)
        BY <1>5, <3>2
      <4> QED BY <2>3, <3>2, <4>1
    <3> QED BY <3>1, <3>2
  <2>5. \A x : x \in DeclaredBefore(q, n + 1) <=>
           \/ x \in DeclaredBefore(p, n)
           \/ line.kind = "session_meta" /\ x = line.fork /\ x \in Threads
    <3> TAKE x
    <3>1. q[1] = p[1]
      BY <1>2
    <3> QED BY <3>1, <2>1, <2>2, <2>4
  <2>6. CASE line.kind = "session_meta"
    BY <2>5, <2>6
  <2>7. CASE line.kind # "session_meta"
    BY <2>5, <2>7
  <2> QED BY <2>6, <2>7
<1>8. OwnLines(q) = OwnLines(p) \cup
        (IF line.kind # "blank" /\ ~(IsRecord(line) /\ IsInherited(p, line)) THEN {n} ELSE {})
  <2>1. OwnLines(q) \subseteq 1 .. n
        /\ (n \in OwnLines(q) <=> line.kind # "blank" /\ ~Inherited(q, n))
    BY <1>2 DEF OwnLines
  <2> QED BY <1>2, <1>3, <1>6, <2>1
<1> QED BY <1>2, <1>3, <1>4, <1>5, <1>6, <1>7, <1>8 DEF q, n

\* A rollout remains one exactly if the next line fits.
LEMMA WellFormedAppend ==
  ASSUME NEW p \in Seq(Lines), p # <<>>, NEW line \in Lines, WellFormed(p, Expected)
  PROVE  WellFormed(Append(p, line), Expected) <=> Fits(p, line)
<1> DEFINE q == Append(p, line)
           n == Len(p) + 1
<1>1. /\ q \in Seq(Lines) /\ Len(q) = n /\ q[n] = line /\ q # <<>> /\ q[1] = p[1]
      /\ Records(q) = Records(p) \cup (IF IsRecord(line) THEN {n} ELSE {})
      /\ Metas(q) = Metas(p) \cup (IF line.kind = "session_meta" THEN {n} ELSE {})
      /\ Ordinal(q) <=> Ordinal(p)
      /\ Inherited(q, n) <=> IsRecord(line) /\ IsInherited(p, line)
      /\ DeclaredBefore(q, n) = DeclaredBefore(p, n)
  BY AppendFacts
<1>2. /\ Begins(p, q) /\ DOMAIN q = 1 .. n /\ DOMAIN p = 1 .. n - 1 /\ n \in Nat /\ n >= 2
      /\ \A k \in 1 .. n - 1 : q[k] = p[k]
  BY AppendBegins
<1>3. /\ \A k \in 1 .. n - 1 : Inherited(q, k) <=> Inherited(p, k)
      /\ \A k \in 1 .. n - 1 : DeclaredBefore(q, k) = DeclaredBefore(p, k)
  <2>1. Len(p) = n - 1 /\ \A k \in 1 .. n - 1 : k \in 1 .. Len(p) + 1
    OBVIOUS
  <2> QED BY <1>2, <2>1, BeginsFacts
<1>4. Records(p) \subseteq 1 .. n - 1 /\ Metas(p) \subseteq 1 .. n - 1
  BY <1>2 DEF Records, Metas
<1> HIDE DEF q, n
<1>5. (\A k \in DOMAIN q : q[k].kind # "undecodable") <=> line.kind # "undecodable"
  <2>1. \A k \in DOMAIN p : p[k].kind # "undecodable"
    BY DEF WellFormed
  <2>2. \A k \in DOMAIN q : k \in DOMAIN p \/ k = n
    BY <1>2
  <2>3. n \in DOMAIN q /\ \A k \in DOMAIN p : k \in DOMAIN q /\ q[k] = p[k]
    BY <1>2
  <2> QED BY <1>1, <2>1, <2>2, <2>3
<1>6. (\A k \in Metas(q) : q[k].id \in DeclaredBefore(q, k)) <=>
        (line.kind = "session_meta" => line.id \in DeclaredBefore(p, n))
  <2>1. \A k \in Metas(p) : p[k].id \in DeclaredBefore(p, k)
    BY DEF WellFormed
  <2>2. \A k \in Metas(p) : q[k].id \in DeclaredBefore(q, k)
    BY <1>2, <1>3, <1>4, <2>1
  <2> QED BY <1>1, <2>2
<1>7. Records(q) \cap 1 .. (n - 1) = Records(p)
  BY <1>1, <1>2, <1>4
<1>8. Ordinal(p) => (CountsUp(q) <=> (IsRecord(line) => OrdinalFits(p, line)))
  <2> SUFFICES ASSUME Ordinal(p) PROVE CountsUp(q) <=> (IsRecord(line) => OrdinalFits(p, line))
    OBVIOUS
  <2>1. CountsUp(p)
    BY DEF WellFormed, ForkIsDeclared
  <2>2. ASSUME NEW k \in Records(p)
        PROVE  /\ q[k].ordinal = Cardinality(Records(q) \cap 1 .. (k - 1))
               /\ q[k].ordinal = q[1].start => q[k].kind = "thread_settings_applied"
    <3>1. Records(q) \cap 1 .. (k - 1) = Records(p) \cap 1 .. (k - 1)
      BY <1>1, <1>2, <1>4
    <3>2. q[k] = p[k]
      BY <1>2, <1>4
    <3> QED BY <1>1, <2>1, <3>1, <3>2 DEF CountsUp
  <2>3. CASE ~IsRecord(line)
    <3>1. Records(q) = Records(p)
      BY <1>1, <2>3
    <3> QED BY <2>2, <2>3, <3>1 DEF CountsUp
  <2>4. CASE IsRecord(line)
    <3>1. Records(q) = Records(p) \cup {n}
      BY <1>1, <2>4
    <3> QED BY <1>1, <1>7, <2>2, <2>4, <3>1 DEF CountsUp, OrdinalFits
  <2> QED BY <2>3, <2>4
<1>9. ForkIsDeclared(q) <=> (IsRecord(line) => OrdinalFits(p, line))
  <2>1. ForkIsDeclared(p)
    BY DEF WellFormed
  <2> QED BY <1>1, <1>8, <2>1 DEF ForkIsDeclared, OrdinalFits
<1>10. (\A k \in Records(q) : ~Inherited(q, k) => q[k].claims \subseteq {Expected}) <=>
         (IsRecord(line) => (~IsInherited(p, line) => line.claims \subseteq {Expected}))
  <2>1. \A k \in Records(p) : ~Inherited(p, k) => p[k].claims \subseteq {Expected}
    BY DEF WellFormed
  <2>2. \A k \in Records(p) : ~Inherited(q, k) => q[k].claims \subseteq {Expected}
    BY <1>2, <1>3, <1>4, <2>1
  <2> QED BY <1>1, <2>2
<1>11. q[1].kind = "session_meta" /\ q[1].id = Expected
  BY <1>1 DEF WellFormed
<1> QED BY <1>5, <1>6, <1>9, <1>10, <1>11 DEF WellFormed, Fits, q, n

-----------------------------------------------------------------------------
(***************************************************************************)
(* The first line.                                                         *)
(***************************************************************************)
LEMMA FirstFacts ==
  ASSUME NEW line \in Lines
  PROVE  LET q == Append(<<>>, line)
         IN /\ q \in Seq(Lines) /\ Len(q) = 1 /\ q[1] = line /\ q # <<>> /\ DOMAIN q = {1}
            /\ Records(q) = IF IsRecord(line) THEN {1} ELSE {}
            /\ Metas(q) = IF line.kind = "session_meta" THEN {1} ELSE {}
            /\ DeclaredBefore(q, 1) = {line.id}
            /\ line.kind = "session_meta" =>
                 DeclaredBefore(q, 2) = {line.id} \cup ({line.fork} \cap Threads)
<1> DEFINE q == Append(<<>>, line)
<1>1. q \in Seq(Lines) /\ Len(q) = 1 /\ q[1] = line /\ q # <<>> /\ DOMAIN q = {1}
  OBVIOUS
<1> HIDE DEF q
<1>2. Records(q) = IF IsRecord(line) THEN {1} ELSE {}
  BY <1>1 DEF Records, IsRecord
<1>3. Metas(q) = IF line.kind = "session_meta" THEN {1} ELSE {}
  BY <1>1 DEF Metas
<1>4. \A x : x \in DeclaredBefore(q, 1) <=>
         x = q[1].id \/ (x \in Threads /\ \E j \in Metas(q) : j < 1 /\ q[j].fork = x)
  BY <1>1, DeclaredIs
<1>5. DeclaredBefore(q, 1) = {line.id}
  BY <1>1, <1>3, <1>4
<1>6. \A x : x \in DeclaredBefore(q, 2) <=>
         x = q[1].id \/ (x \in Threads /\ \E j \in Metas(q) : j < 2 /\ q[j].fork = x)
  BY <1>1, DeclaredIs
<1>7. line.kind = "session_meta" =>
        DeclaredBefore(q, 2) = {line.id} \cup ({line.fork} \cap Threads)
  BY <1>1, <1>3, <1>6
<1> QED BY <1>1, <1>2, <1>3, <1>5, <1>7 DEF q

\* What a first line must declare of its fork.
FirstDeclares(line) ==
  /\ line.fork # None => line.fork \in Threads \ {line.id}
  /\ line.fork # None /\ line.start = None => line.ordinal = None
  /\ line.fork # None /\ line.start # None => line.start >= 1 /\ line.ordinal = 0

LEMMA FirstWellFormed ==
  ASSUME NEW line \in Lines
  PROVE  LET q == Append(<<>>, line)
         IN /\ WellFormed(q, Expected) <=>
                 /\ line.kind = "session_meta" /\ line.id = Expected /\ FirstDeclares(line)
                 /\ ~Ordinal(q) => line.claims \subseteq {Expected}
            /\ Ordinal(q) <=> line.fork # None /\ line.start # None
            /\ FirstDeclares(line) =>
                 (Inherited(q, 1) <=> IsRecord(line) /\ Ordinal(q))
<1> DEFINE q == Append(<<>>, line)
<1>1. /\ q \in Seq(Lines) /\ Len(q) = 1 /\ q[1] = line /\ q # <<>> /\ DOMAIN q = {1}
      /\ Records(q) = IF IsRecord(line) THEN {1} ELSE {}
      /\ Metas(q) = IF line.kind = "session_meta" THEN {1} ELSE {}
      /\ DeclaredBefore(q, 1) = {line.id}
  BY FirstFacts
<1> HIDE DEF q
<1>2. Ordinal(q) <=> line.fork # None /\ line.start # None
  BY <1>1 DEF Ordinal
<1>3. ASSUME line.kind = "session_meta"
      PROVE  CountsUp(q) <=> line.ordinal = 0 /\ line.ordinal # line.start
  <2>1. Records(q) = {1}
    BY <1>1, <1>3 DEF IsRecord
  <2>2. Cardinality(Records(q) \cap 1 .. (1 - 1)) = 0
    <3>1. Records(q) \cap 1 .. (1 - 1) = {}
      OBVIOUS
    <3> QED BY <3>1, FS_EmptySet
  <2> QED BY <1>1, <1>3, <2>1, <2>2 DEF CountsUp
<1>4. ASSUME line.kind = "session_meta"
      PROVE  ForkIsDeclared(q) <=> FirstDeclares(line)
  <2>1. line.start \in Nat \cup {None}
    BY LineType
  <2> QED BY <1>1, <1>2, <1>3, <1>4, <2>1 DEF ForkIsDeclared, FirstDeclares
<1>5. FirstDeclares(line) => (Inherited(q, 1) <=> IsRecord(line) /\ Ordinal(q))
  <2>1. line.start \in Nat \cup {None}
    BY LineType
  <2> QED BY <1>1, <1>2, <2>1 DEF FirstDeclares, Inherited
<1>6. WellFormed(q, Expected) <=>
        /\ line.kind = "session_meta" /\ line.id = Expected /\ FirstDeclares(line)
        /\ ~Ordinal(q) => line.claims \subseteq {Expected}
  <2>1. CASE line.kind = "session_meta"
    <3>1. Records(q) = {1} /\ Metas(q) = {1}
      BY <1>1, <2>1 DEF IsRecord
    <3>2. FirstDeclares(line) => (Inherited(q, 1) <=> Ordinal(q))
      BY <1>5, <2>1 DEF IsRecord
    <3> QED BY <1>1, <1>4, <2>1, <3>1, <3>2 DEF WellFormed
  <2>2. CASE line.kind # "session_meta"
    BY <1>1, <2>2 DEF WellFormed
  <2> QED BY <2>1, <2>2
<1> QED BY <1>2, <1>5, <1>6 DEF q

-----------------------------------------------------------------------------
(***************************************************************************)
(* What the checks of one record decide, for a parser that knows the lines *)
(* before it.                                                              *)
(***************************************************************************)
MayDeclare(p, line) ==
  line.kind = "session_meta" =>
    line.id \in IF p = <<>> THEN {Expected} ELSE DeclaredBefore(p, Len(p) + 1)
MayStand(p, line) == IF p = <<>> THEN FirstDeclares(line) ELSE OrdinalFits(p, line)

\* advanceRolloutOwnerLineage accepts the ids that were declared.
LEMMA OwnerStep ==
  ASSUME NEW p \in Seq(Lines), NEW line \in Lines, NEW before \in {NoOwner, Asked},
         NEW seen \in SUBSET {Expected},
         p = <<>> => /\ seen = {} /\ line.kind = "session_meta"
                     /\ before = NoOwner => line.id = Expected,
         p # <<>> => WellFormed(p, Expected)
  PROVE  LET step == advanceRolloutOwnerLineage(line, OwnerOf(p, before), seen)
         IN /\ MayDeclare(p, line) => /\ step.status \in {"absent", "accepted"}
                                      /\ step.who = OwnerOf(Append(p, line), before)
            /\ ~MayDeclare(p, line) => step.status \in {"invalid", "mismatch"}
<1> DEFINE more == Append(p, line)
           who == OwnerOf(p, before)
           step == advanceRolloutOwnerLineage(line, who, seen)
<1>0. Expected # None /\ None \notin Threads
  OBVIOUS
<1>1. CASE p = <<>>
  <2>1. /\ more \in Seq(Lines) /\ Len(more) = 1 /\ more # <<>>
        /\ line.kind = "session_meta" /\ seen = {} /\ who = before
        /\ DeclaredBefore(more, 2) = {line.id} \cup ({line.fork} \cap Threads)
    BY <1>1, FirstFacts DEF OwnerOf
  <2>2. OwnerOf(more, before) = [owner |-> Expected,
                                 lineage |-> {line.id} \cup ({line.fork} \cap Threads)]
    <3> HIDE DEF more
    <3>1. Len(more) + 1 = 2
      BY <2>1
    <3> QED BY <2>1, <3>1 DEF OwnerOf
  <2>3. CASE MayDeclare(p, line)
    <3>1. line.id = Expected
      BY <1>1, <2>1, <2>3 DEF MayDeclare
    <3>2. Accepted(line, who) = OwnerOf(more, before)
      <4>1. who.owner \in {None, Expected} /\ Lineage(who) \subseteq {Expected}
        BY <2>1 DEF NoOwner, Asked, Lineage
      <4> QED BY <2>2, <3>1, <4>1 DEF Accepted
    <3>3. Declares(line, who, seen)
      BY <2>1, <3>1 DEF Declares, NoOwner, Asked, Lineage
    <3> QED BY <1>0, <2>1, <2>3, <3>1, <3>2, <3>3 DEF advanceRolloutOwnerLineage
  <2>4. CASE ~MayDeclare(p, line)
    <3>1. line.id # Expected
      BY <1>1, <2>4 DEF MayDeclare
    <3>2. before = Asked
      BY <1>1, <3>1
    <3>3. ~Declares(line, who, seen)
      BY <1>0, <2>1, <3>1, <3>2 DEF Declares, Asked, Lineage
    <3> QED BY <2>1, <2>4, <3>3 DEF advanceRolloutOwnerLineage
  <2> QED BY <2>3, <2>4
<1>2. CASE p # <<>>
  <2>1. /\ Len(more) = Len(p) + 1 /\ more # <<>>
        /\ DeclaredBefore(more, Len(p) + 1 + 1) =
             DeclaredBefore(p, Len(p) + 1) \cup
               (IF line.kind = "session_meta" THEN {line.fork} \cap Threads ELSE {})
    BY <1>2, AppendFacts
  <2> DEFINE D == DeclaredBefore(p, Len(p) + 1)
  <2>2. /\ who = [owner |-> Expected, lineage |-> D]
        /\ OwnerOf(more, before) =
             [owner |-> Expected,
              lineage |-> D \cup (IF line.kind = "session_meta" THEN {line.fork} \cap Threads
                                                                ELSE {})]
    BY <1>2, <2>1 DEF OwnerOf
  <2>3. Expected \in D /\ D \subseteq Threads
    <3>1. p[1].id = Expected
      BY <1>2 DEF WellFormed
    <3> QED BY <3>1 DEF DeclaredBefore
  <2>4. MayDeclare(p, line) <=> (line.kind = "session_meta" => line.id \in D)
    BY <1>2 DEF MayDeclare
  <2> HIDE DEF D
  <2>5. Lineage(who) = D
    BY <1>0, <2>2, <2>3 DEF Lineage
  <2>6. Declares(line, who, seen) <=> line.id \in D
    BY <1>0, <2>2, <2>5 DEF Declares
  <2>7. line.id \in D => Accepted(line, who) = [owner |-> Expected,
                                                lineage |-> D \cup ({line.fork} \cap Threads)]
    <3> SUFFICES ASSUME line.id \in D
                 PROVE  Accepted(line, who) = [owner |-> Expected,
                                               lineage |-> D \cup ({line.fork} \cap Threads)]
      OBVIOUS
    <3>1. Lineage(who) \cup {line.id} = D
      BY <2>5
    <3>2. who.owner = Expected
      BY <2>2
    <3> HIDE DEF who
    <3> QED BY <1>0, <3>1, <3>2 DEF Accepted
  <2>8. CASE line.kind # "session_meta"
    <3>1. OwnerOf(more, before) = who
      BY <2>2, <2>8
    <3> QED BY <2>4, <2>8, <3>1 DEF advanceRolloutOwnerLineage
  <2>9. CASE line.kind = "session_meta" /\ line.id \in D
    <3>1. line.id # None
      BY <1>0, <2>3, <2>9
    <3>2. OwnerOf(more, before) = Accepted(line, who)
      BY <2>2, <2>7, <2>9
    <3> QED BY <2>4, <2>6, <2>9, <3>1, <3>2 DEF advanceRolloutOwnerLineage
  <2>10. CASE line.kind = "session_meta" /\ line.id \notin D
    BY <2>4, <2>6, <2>10 DEF advanceRolloutOwnerLineage
  <2> QED BY <2>8, <2>9, <2>10
<1> QED BY <1>1, <1>2

LEMMA RecordsCount ==
  ASSUME NEW p \in Seq(Lines)
  PROVE  IsFiniteSet(Records(p)) /\ Cardinality(Records(p)) \in Nat
<1>1. Records(p) \subseteq 1 .. Len(p) /\ Len(p) \in Nat
  BY DEF Records
<1>2. IsFiniteSet(1 .. Len(p))
  BY <1>1, FS_Interval
<1> QED BY <1>1, <1>2, FS_Subset, FS_CardinalityType

LEMMA RecordsMore ==
  ASSUME NEW p \in Seq(Lines), p # <<>>, NEW line \in Lines, IsRecord(line)
  PROVE  /\ Cardinality(Records(Append(p, line))) = Cardinality(Records(p)) + 1
         /\ Ordinal(p) => (BoundaryReached(Append(p, line)) <=>
                             BoundaryReached(p) \/ line.ordinal = p[1].start)
<1> DEFINE q == Append(p, line)
           n == Len(p) + 1
<1>1. /\ q \in Seq(Lines) /\ Len(q) = n /\ q[n] = line /\ q # <<>> /\ q[1] = p[1]
      /\ Records(q) = Records(p) \cup {n}
      /\ Ordinal(q) <=> Ordinal(p)
  BY AppendFacts
<1>2. Records(p) \subseteq 1 .. n - 1 /\ n \notin Records(p) /\ \A k \in Records(p) : q[k] = p[k]
  BY DEF Records
<1>3. IsFiniteSet(Records(p))
  BY RecordsCount
<1> HIDE DEF q, n
<1>4. Cardinality(Records(p) \cup {n}) = Cardinality(Records(p)) + 1
  BY <1>2, <1>3, FS_AddElement, Zenon
<1>5. Ordinal(p) => (BoundaryReached(q) <=> BoundaryReached(p) \/ line.ordinal = p[1].start)
  BY <1>1, <1>2 DEF BoundaryReached
<1> QED BY <1>1, <1>4, <1>5 DEF q

LEMMA OrdinalIs ==
  ASSUME NEW line, NEW parent, NEW start, NEW next, NEW seen
  PROVE  LET after(s) == [mode |-> "producer-ordinal", parent |-> parent, start |-> start,
                          next |-> line.ordinal + 1, seen |-> s]
         IN OrdinalScope(line, [mode |-> "producer-ordinal", parent |-> parent, start |-> start,
                                next |-> next, seen |-> seen]) =
              IF line.ordinal < start THEN [status |-> "skip", scope |-> after(seen)]
              ELSE IF line.ordinal = start
                THEN IF line.kind = "thread_settings_applied"
                       THEN [status |-> "admit", scope |-> after(TRUE)]
                       ELSE [status |-> "invalid", scope |-> after(seen)]
              ELSE IF seen THEN [status |-> "admit", scope |-> after(seen)]
              ELSE [status |-> "invalid", scope |-> after(seen)]
<1> DEFINE scope == [mode |-> "producer-ordinal", parent |-> parent, start |-> start,
                     next |-> next, seen |-> seen]
           After(s) == [mode |-> "producer-ordinal", parent |-> parent, start |-> start,
                        next |-> line.ordinal + 1, seen |-> s]
<1>1. [scope EXCEPT !.next = line.ordinal + 1] = After(seen)
  OBVIOUS
<1>2. [After(seen) EXCEPT !.seen = TRUE] = After(TRUE)
  <2>1. ASSUME NEW x PROVE [After(seen) EXCEPT !.seen = x] = After(x)
    OBVIOUS
  <2> HIDE DEF After
  <2> QED BY <2>1
<1>3. scope.start = start /\ scope.seen = seen
  OBVIOUS
<1> HIDE DEF scope, After
<1>4. OrdinalScope(line, scope) =
        IF line.ordinal < start THEN [status |-> "skip", scope |-> After(seen)]
        ELSE IF line.ordinal = start
          THEN IF line.kind = "thread_settings_applied"
                 THEN [status |-> "admit", scope |-> After(TRUE)]
                 ELSE [status |-> "invalid", scope |-> After(seen)]
        ELSE IF seen THEN [status |-> "admit", scope |-> After(seen)]
        ELSE [status |-> "invalid", scope |-> After(seen)]
  BY <1>1, <1>2, <1>3 DEF OrdinalScope
<1> QED BY <1>4 DEF scope, After

\* advanceRolloutHistoryScope passes a record that stands where the fork says,
\* skips it if it is inherited, and then knows the scope of the longer file.
LEMMA ScopeStep ==
  ASSUME NEW p \in Seq(Lines), NEW line \in Lines, IsRecord(line),
         NEW first \in BOOLEAN, first <=> p = <<>>,
         p = <<>> => line.kind = "session_meta" /\ line.id = Expected,
         p # <<>> => WellFormed(p, Expected) /\ forkHistoryStateValid(ScopeOf(p))
  PROVE  LET step == advanceRolloutHistoryScope(line, ScopeOf(p), first)
             more == Append(p, line)
         IN /\ MayStand(p, line) =>
                 /\ step.scope = ScopeOf(more) /\ forkHistoryStateValid(ScopeOf(more))
                 /\ step.status = IF Inherited(more, Len(p) + 1) THEN "skip" ELSE "admit"
            /\ ~MayStand(p, line) => step.status \in {"missing", "invalid"}
<1> DEFINE step == advanceRolloutHistoryScope(line, ScopeOf(p), first)
           more == Append(p, line)
           n == Len(p) + 1
<1> SUFFICES /\ MayStand(p, line) =>
                  /\ step.scope = ScopeOf(more) /\ forkHistoryStateValid(ScopeOf(more))
                  /\ step.status = IF Inherited(more, n) THEN "skip" ELSE "admit"
             /\ ~MayStand(p, line) => step.status \in {"missing", "invalid"}
  OBVIOUS
<1> HIDE DEF step, more, n
<1>0. line.start \in Nat \cup {None} /\ line.ordinal \in Nat \cup {None}
      /\ line.fork \in Threads \cup {None, Invalid}
  BY LineType
<1>1. CASE p = <<>>
  <2>1. /\ more \in Seq(Lines) /\ Len(more) = 1 /\ more[1] = line /\ more # <<>>
        /\ Records(more) = {1} /\ n = 1
    BY <1>1, FirstFacts DEF IsRecord, more, n
  <2>2. /\ Ordinal(more) <=> line.fork # None /\ line.start # None
        /\ FirstDeclares(line) => (Inherited(more, n) <=> Ordinal(more))
    BY <1>1, <2>1, FirstWellFormed DEF IsRecord, more
  <2>3. step = FirstScope(line)
    BY <1>1 DEF step, advanceRolloutHistoryScope
  <2>4. MayStand(p, line) <=> FirstDeclares(line)
    BY <1>1 DEF MayStand
  <2>5. ~Ordinal(more) => ScopeOf(more) = NonFork /\ forkHistoryStateValid(NonFork)
    BY <2>1 DEF ScopeOf, forkHistoryStateValid, NonFork, NoScope
  <2>6. line.id = Expected /\ Expected # None
    BY <1>1
  <2>7. CASE line.fork = None
    <3>1. FirstDeclares(line) /\ ~Ordinal(more)
      BY <2>2, <2>7 DEF FirstDeclares
    <3> QED BY <2>2, <2>3, <2>4, <2>5, <2>7, <3>1 DEF FirstScope
  <2>8. CASE line.fork # None /\ (line.fork = Invalid \/ line.fork = line.id)
    <3>1. ~FirstDeclares(line)
      BY <2>8 DEF FirstDeclares
    <3> QED BY <2>3, <2>4, <2>8, <3>1 DEF FirstScope
  <2>9. CASE line.fork \in Threads \ {line.id} /\ line.start = None
    <3>1. FirstDeclares(line) <=> line.ordinal = None
      BY <2>9 DEF FirstDeclares
    <3>2. ~Ordinal(more)
      BY <2>2, <2>9
    <3>3. step.status = (IF line.ordinal = None THEN "admit" ELSE "missing")
          /\ (line.ordinal = None => step.scope = NonFork)
      BY <2>3, <2>6, <2>9 DEF FirstScope
    <3> QED BY <2>2, <2>4, <2>5, <3>1, <3>2, <3>3
  <2>10. CASE line.fork \in Threads \ {line.id} /\ line.start # None
    <3>1. FirstDeclares(line) <=> line.start >= 1 /\ line.ordinal = 0
      BY <2>10 DEF FirstDeclares
    <3>2. Ordinal(more)
      BY <2>2, <2>10
    <3>3. CASE ~FirstDeclares(line)
      <4>1. line.start = 0 \/ line.ordinal # 0
        BY <1>0, <2>10, <3>1, <3>3
      <4> QED BY <2>3, <2>4, <2>6, <2>10, <3>3, <4>1 DEF FirstScope
    <3>4. CASE FirstDeclares(line)
      <4>1. line.start # 0 /\ line.ordinal = 0 /\ line.start \in Nat /\ line.start >= 1
        BY <1>0, <2>10, <3>1, <3>4
      <4>2. /\ step.status = "skip"
            /\ step.scope = [mode |-> "producer-ordinal", parent |-> line.fork,
                             start |-> line.start, next |-> 1, seen |-> FALSE]
        BY <2>3, <2>6, <2>10, <4>1 DEF FirstScope
      <4>3. BoundaryReached(more) = FALSE
        BY <2>1, <3>2, <4>1 DEF BoundaryReached
      <4>4. Cardinality(Records(more)) = 1
        <5>1. Cardinality({1}) = 1
          BY FS_Singleton
        <5> QED BY <2>1, <5>1
      <4>5. ScopeOf(more) = step.scope
        BY <2>1, <3>2, <4>2, <4>3, <4>4 DEF ScopeOf
      <4>6. forkHistoryStateValid(step.scope)
        <5>1. /\ step.scope.mode = "producer-ordinal" /\ step.scope.start >= 1
              /\ step.scope.next >= 1 /\ step.scope.seen = FALSE
          BY <4>1, <4>2
        <5>2. (step.scope.next > step.scope.start) = FALSE
          BY <4>1, <4>2
        <5> QED BY <5>1, <5>2, Zenon DEF forkHistoryStateValid
      <4> QED BY <2>2, <2>4, <3>2, <3>4, <4>2, <4>5, <4>6
    <3> QED BY <3>3, <3>4
  <2>11. \/ line.fork = None
         \/ line.fork # None /\ (line.fork = Invalid \/ line.fork = line.id)
         \/ line.fork \in Threads \ {line.id}
    BY <1>0
  <2> QED BY <2>7, <2>8, <2>9, <2>10, <2>11
<1>2. CASE p # <<>> /\ ~Ordinal(p)
  <2>1. more # <<>> /\ ~Ordinal(more) /\ (Inherited(more, n) <=> IsRecord(line) /\ IsInherited(p, line))
    BY <1>2, AppendFacts DEF more, n
  <2>2. ScopeOf(p) = NonFork /\ ScopeOf(more) = NonFork /\ ~Inherited(more, n)
    BY <1>2, <2>1 DEF ScopeOf, IsInherited
  <2>3. forkHistoryStateValid(NonFork)
    BY <1>2, <2>2
  <2>4. MayStand(p, line)
    BY <1>2 DEF MayStand, OrdinalFits
  <2>5. step = [status |-> "admit", scope |-> NonFork]
    BY <1>2, <2>2, <2>3 DEF step, advanceRolloutHistoryScope, NonFork, NoScope
  <2> QED BY <2>2, <2>3, <2>4, <2>5
<1>3. CASE p # <<>> /\ Ordinal(p)
  <2> DEFINE c == Cardinality(Records(p))
             start == p[1].start
             b == BoundaryReached(p)
  <2>1. /\ more # <<>> /\ Ordinal(more) /\ more[1] = p[1]
        /\ Inherited(more, n) <=> line.ordinal < start
    <3>1. /\ more # <<>> /\ (Ordinal(more) <=> Ordinal(p)) /\ more[1] = p[1]
          /\ (Inherited(more, n) <=> IsRecord(line) /\ IsInherited(p, line))
      BY <1>3, AppendFacts DEF more, n
    <3> QED BY <1>3, <3>1 DEF IsInherited
  <2>2. /\ Cardinality(Records(more)) = c + 1 /\ c \in Nat
        /\ BoundaryReached(more) <=> b \/ line.ordinal = start
    BY <1>3, RecordsMore, RecordsCount DEF more
  <2>3. start \in Nat /\ start >= 1
    <3>1. ForkIsDeclared(p) /\ p[1] \in Lines
      BY <1>3 DEF WellFormed
    <3>2. p[1].start \in Nat \cup {None} /\ p[1].start # None
      BY <1>3, <3>1, LineType DEF Ordinal
    <3> QED BY <1>3, <3>1, <3>2 DEF ForkIsDeclared
  <2>4. b \in BOOLEAN /\ BoundaryReached(more) \in BOOLEAN
    BY DEF BoundaryReached
  <2> HIDE DEF c, start, b
  <2>5. ScopeOf(p) = [mode |-> "producer-ordinal", parent |-> p[1].fork, start |-> start,
                      next |-> c, seen |-> b]
    BY <1>3 DEF ScopeOf, c, start, b
  <2>6. ScopeOf(more) = [mode |-> "producer-ordinal", parent |-> p[1].fork, start |-> start,
                         next |-> c + 1, seen |-> BoundaryReached(more)]
    BY <2>1, <2>2 DEF ScopeOf, start
  <2>7. b <=> c > start
    <3>1. b = (c > start)
      BY <1>3, <2>5 DEF forkHistoryStateValid
    <3> QED BY <3>1
  <2>8. step = IF line.ordinal # c THEN [status |-> "invalid", scope |-> ScopeOf(p)]
               ELSE OrdinalScope(line, ScopeOf(p))
    BY <1>3, <2>5 DEF step, advanceRolloutHistoryScope
  <2> DEFINE After(seen) ==
        [mode |-> "producer-ordinal", parent |-> p[1].fork, start |-> start,
         next |-> line.ordinal + 1, seen |-> seen]
  <2>16. OrdinalScope(line, ScopeOf(p)) =
           IF line.ordinal < start THEN [status |-> "skip", scope |-> After(b)]
           ELSE IF line.ordinal = start
             THEN IF line.kind = "thread_settings_applied"
                    THEN [status |-> "admit", scope |-> After(TRUE)]
                    ELSE [status |-> "invalid", scope |-> After(b)]
           ELSE IF b THEN [status |-> "admit", scope |-> After(b)]
           ELSE [status |-> "invalid", scope |-> After(b)]
    BY <2>5, OrdinalIs
  <2>17. line.ordinal = c => ScopeOf(more) = After(BoundaryReached(more))
    BY <2>6
  <2> HIDE DEF After
  <2>9. MayStand(p, line) <=> /\ line.ordinal = c
                              /\ line.ordinal = start => line.kind = "thread_settings_applied"
    BY <1>3 DEF MayStand, OrdinalFits, c, start
  <2>10. CASE line.ordinal # c
    BY <2>8, <2>9, <2>10
  <2>11. ASSUME line.ordinal = c, BoundaryReached(more) <=> c + 1 > start
         PROVE  forkHistoryStateValid(ScopeOf(more))
    BY <2>2, <2>3, <2>4, <2>6, <2>11 DEF forkHistoryStateValid
  <2>12. CASE line.ordinal = c /\ c < start
    <3>1. BoundaryReached(more) = FALSE /\ b = FALSE
      BY <2>2, <2>3, <2>4, <2>7, <2>12
    <3>2. forkHistoryStateValid(ScopeOf(more))
      BY <2>2, <2>3, <2>11, <2>12, <3>1
    <3>3. step = [status |-> "skip", scope |-> ScopeOf(more)]
      BY <2>8, <2>12, <2>16, <2>17, <3>1
    <3> QED BY <2>1, <2>2, <2>3, <2>9, <2>12, <3>2, <3>3
  <2>13. CASE line.ordinal = c /\ c = start
    <3>1. BoundaryReached(more) = TRUE
      BY <2>2, <2>4, <2>13
    <3>2. forkHistoryStateValid(ScopeOf(more))
      BY <2>2, <2>3, <2>11, <2>13, <3>1
    <3>3. ~(line.ordinal < start)
      BY <2>3, <2>13
    <3>4. step.status = IF line.kind = "thread_settings_applied" THEN "admit" ELSE "invalid"
      BY <2>8, <2>13, <2>16, <3>3
    <3>5. line.kind = "thread_settings_applied" => step.scope = ScopeOf(more)
      BY <2>8, <2>13, <2>16, <2>17, <3>1, <3>3
    <3> QED BY <2>1, <2>9, <2>13, <3>2, <3>3, <3>4, <3>5
  <2>14. CASE line.ordinal = c /\ c > start
    <3>1. BoundaryReached(more) = TRUE /\ b = TRUE
      BY <2>2, <2>4, <2>7, <2>14
    <3>2. forkHistoryStateValid(ScopeOf(more))
      BY <2>2, <2>3, <2>11, <2>14, <3>1
    <3>3. ~(line.ordinal < start) /\ line.ordinal # start
      BY <2>2, <2>3, <2>14
    <3>4. step = [status |-> "admit", scope |-> ScopeOf(more)]
      BY <2>8, <2>14, <2>16, <2>17, <3>1, <3>3
    <3> QED BY <2>1, <2>9, <2>14, <3>2, <3>3, <3>4
  <2>15. line.ordinal # c \/ c < start \/ c = start \/ c > start
    BY <2>2, <2>3
  <2> QED BY <2>10, <2>12, <2>13, <2>14, <2>15
<1> QED BY <1>1, <1>2, <1>3

\* recordThreadIdentity finds no other thread than the expected one.
LEMMA ClaimStep ==
  ASSUME NEW line \in Lines
  PROVE  LET claim == recordThreadIdentity(line)
         IN line.claims \subseteq {Expected} <=>
              /\ claim \notin {"invalid", "conflict"}
              /\ claim = "valid" => Expected \in {None} \cup line.claims
<1>1. /\ line.claims \subseteq Threads \cup {Invalid} /\ IsFiniteSet(line.claims)
      /\ Expected # Invalid /\ Expected # None
  BY LineType
<1>2. CASE line.claims = {}
  BY <1>2 DEF recordThreadIdentity
<1>3. CASE line.claims # {} /\ Invalid \in line.claims
  BY <1>1, <1>3 DEF recordThreadIdentity
<1>4. CASE line.claims # {} /\ Invalid \notin line.claims
  <2>1. Cardinality(line.claims) = 1 <=> \E x : line.claims = {x}
    BY <1>1, FS_Singleton
  <2>2. CASE Cardinality(line.claims) = 1
    <3>1. recordThreadIdentity(line) = "valid"
      BY <1>4, <2>2 DEF recordThreadIdentity
    <3>2. PICK x : line.claims = {x}
      BY <2>1, <2>2
    <3> QED BY <1>1, <3>1, <3>2
  <2>3. CASE Cardinality(line.claims) # 1
    <3>1. recordThreadIdentity(line) = "conflict"
      BY <1>4, <2>3 DEF recordThreadIdentity
    <3>2. ~(line.claims \subseteq {Expected})
      <4>1. line.claims \subseteq {Expected} => line.claims = {Expected}
        BY <1>4
      <4> QED BY <2>1, <2>3, <4>1
    <3> QED BY <3>1, <3>2
  <2> QED BY <2>2, <2>3
<1> QED BY <1>2, <1>3, <1>4

\* The four ways to leave a line.
StateOf(first, who, noted, scope, number, last, verdict, out) ==
  [first |-> first, who |-> who, observed |-> noted, scope |-> scope,
   lineNumber |-> number, lastTimestamp |-> last, verdict |-> verdict, out |-> out]

LEMMA LeaveLine ==
  ASSUME NEW s, IsState(s)
  PROVE  /\ NextLine(s) = StateOf(FALSE, s.who, s.observed, s.scope, s.lineNumber + 1,
                                  s.lastTimestamp, s.verdict, "nothing")
         /\ \A x : [NextLine(s) EXCEPT !.out = x] =
                    StateOf(FALSE, s.who, s.observed, s.scope, s.lineNumber + 1,
                            s.lastTimestamp, s.verdict, x)
         /\ \A x : Refused(s, x) = StateOf(FALSE, s.who, s.observed, s.scope, s.lineNumber + 1,
                                           s.lastTimestamp, x, "nothing")
         /\ \A who, scope :
              Skipped(s, who, scope) = StateOf(FALSE, who, s.observed, scope, s.lineNumber + 1,
                                               s.lastTimestamp, s.verdict, "nothing")
         /\ \A line, who, scope :
              Admitted(line, s, who, scope) =
                StateOf(FALSE, who, s.observed \cup line.claims, scope, s.lineNumber + 1,
                        s.lineNumber + 1, s.verdict, "record")
<1> SUFFICES ASSUME NEW line, NEW who, NEW scope, NEW x
             PROVE
                 /\ NextLine(s) = StateOf(FALSE, s.who, s.observed, s.scope, s.lineNumber + 1,
                                         s.lastTimestamp, s.verdict, "nothing")
                 /\ [NextLine(s) EXCEPT !.out = x] =
                      StateOf(FALSE, s.who, s.observed, s.scope, s.lineNumber + 1,
                              s.lastTimestamp, s.verdict, x)
                 /\ Refused(s, x) = StateOf(FALSE, s.who, s.observed, s.scope, s.lineNumber + 1,
                                            s.lastTimestamp, x, "nothing")
                 /\ Skipped(s, who, scope) = StateOf(FALSE, who, s.observed, scope, s.lineNumber + 1,
                                                     s.lastTimestamp, s.verdict, "nothing")
                 /\ Admitted(line, s, who, scope) =
                      StateOf(FALSE, who, s.observed \cup line.claims, scope, s.lineNumber + 1,
                              s.lineNumber + 1, s.verdict, "record")
  OBVIOUS
<1> DEFINE n == s.lineNumber + 1
           a == s.first
           b == s.who
           c == s.observed
           d == s.scope
           f == s.lastTimestamp
           g == s.verdict
           wide == c \cup line.claims
<1>1. s = StateOf(a, b, c, d, s.lineNumber, f, g, s.out)
  BY DEF IsState, StateOf
<1> HIDE DEF n, a, b, c, d, f, g, wide
<1>2. PICK no : no = FALSE
  OBVIOUS
<1>3. [s EXCEPT !.lineNumber = @ + 1] = StateOf(a, b, c, d, n, f, g, s.out)
  BY <1>1 DEF StateOf, n
<1>4. [StateOf(a, b, c, d, n, f, g, s.out) EXCEPT !.first = no] =
        StateOf(no, b, c, d, n, f, g, s.out)
  BY DEF StateOf
<1>5. [StateOf(no, b, c, d, n, f, g, s.out) EXCEPT !.out = "nothing"] =
        StateOf(no, b, c, d, n, f, g, "nothing")
  BY DEF StateOf
<1>6. NextLine(s) = StateOf(no, b, c, d, n, f, g, "nothing")
  BY <1>2, <1>3, <1>4, <1>5 DEF NextLine
<1>7. [StateOf(no, b, c, d, n, f, g, "nothing") EXCEPT !.out = x] =
        StateOf(no, b, c, d, n, f, g, x)
  BY DEF StateOf
<1>8. [StateOf(no, b, c, d, n, f, g, "nothing") EXCEPT !.verdict = x] =
        StateOf(no, b, c, d, n, f, x, "nothing")
  BY DEF StateOf
<1>9. [StateOf(no, b, c, d, n, f, g, "nothing") EXCEPT !.who = who] =
        StateOf(no, who, c, d, n, f, g, "nothing")
  BY DEF StateOf
<1>10. [StateOf(no, who, c, d, n, f, g, "nothing") EXCEPT !.scope = scope] =
         StateOf(no, who, c, scope, n, f, g, "nothing")
  BY DEF StateOf
<1>11. Skipped(s, who, scope) = StateOf(no, who, c, scope, n, f, g, "nothing")
  BY <1>6, <1>9, <1>10 DEF Skipped
<1>12. [StateOf(no, who, c, scope, n, f, g, "nothing") EXCEPT !.observed = @ \cup line.claims] =
         StateOf(no, who, wide, scope, n, f, g, "nothing")
  <2>1. [StateOf(no, who, c, scope, n, f, g, "nothing") EXCEPT !.observed = wide] =
          StateOf(no, who, wide, scope, n, f, g, "nothing")
    BY DEF StateOf
  <2>2. StateOf(no, who, c, scope, n, f, g, "nothing").observed \cup line.claims = wide
    BY DEF StateOf, wide
  <2> QED BY <2>1, <2>2
<1>13. [StateOf(no, who, wide, scope, n, f, g, "nothing") EXCEPT !.lastTimestamp = n] =
         StateOf(no, who, wide, scope, n, n, g, "nothing")
  BY DEF StateOf
<1>14. [StateOf(no, who, wide, scope, n, n, g, "nothing") EXCEPT !.out = "record"] =
         StateOf(no, who, wide, scope, n, n, g, "record")
  BY DEF StateOf
<1>15. Admitted(line, s, who, scope) = StateOf(no, who, wide, scope, n, n, g, "record")
  <2>1. s.lineNumber + 1 = n
    BY DEF n
  <2>2. [NextLine(s) EXCEPT !.who = who, !.scope = scope, !.observed = @ \cup line.claims] =
          StateOf(no, who, wide, scope, n, f, g, "nothing")
    BY <1>6, <1>9, <1>10, <1>12
  <2>3. Admitted(line, s, who, scope) =
          [StateOf(no, who, wide, scope, n, f, g, "nothing")
             EXCEPT !.lastTimestamp = n, !.out = "record"]
    BY <2>1, <2>2 DEF Admitted
  <2> QED BY <1>13, <1>14, <2>3
<1> QED BY <1>2, <1>6, <1>7, <1>8, <1>11, <1>15 DEF Refused, n, a, b, c, d, f, g, wide

-----------------------------------------------------------------------------
(***************************************************************************)
(* One line more, parsed.                                                  *)
(***************************************************************************)
LEMMA OwnAppend ==
  ASSUME NEW p \in Seq(Lines), NEW line \in Lines
  PROVE  LET q == Append(p, line)
             n == Len(p) + 1
         IN /\ q \in Seq(Lines) /\ Len(q) = n /\ q # <<>> /\ n \in Nat /\ q[n] = line
            /\ \A k \in 1 .. Len(p) : q[k] = p[k] /\ k < n
            /\ Records(q) = Records(p) \cup (IF IsRecord(line) THEN {n} ELSE {})
            /\ OwnLines(q) = OwnLines(p) \cup
                 (IF line.kind # "blank" /\ ~Inherited(q, n) THEN {n} ELSE {})
            /\ Records(p) \subseteq 1 .. Len(p) /\ OwnLines(p) \subseteq 1 .. Len(p)
            /\ Inherited(q, n) => IsRecord(line)
<1> DEFINE q == Append(p, line)
           n == Len(p) + 1
<1>1. /\ q \in Seq(Lines) /\ Len(q) = n /\ q # <<>> /\ n \in Nat /\ q[n] = line
      /\ \A k \in 1 .. Len(p) : q[k] = p[k] /\ k < n
      /\ DOMAIN q = 1 .. n /\ DOMAIN p = 1 .. Len(p)
  OBVIOUS
<1>2. Records(p) \subseteq 1 .. Len(p) /\ OwnLines(p) \subseteq 1 .. Len(p)
  BY DEF Records, OwnLines
<1> HIDE DEF q, n
<1>3. Inherited(q, n) => IsRecord(line)
  BY <1>1 DEF Inherited, Records, IsRecord
<1>4. CASE p = <<>>
  <2>1. n = 1 /\ DOMAIN q = {1} /\ DOMAIN p = {}
    BY <1>1, <1>4 DEF n
  <2>2. Records(p) = {} /\ OwnLines(p) = {}
    BY <2>1 DEF Records, OwnLines
  <2>3. Records(q) = IF IsRecord(line) THEN {1} ELSE {}
    BY <1>1, <2>1 DEF Records, IsRecord
  <2>4. OwnLines(q) = IF line.kind # "blank" /\ ~Inherited(q, 1) THEN {1} ELSE {}
    BY <1>1, <2>1 DEF OwnLines
  <2> QED BY <1>1, <1>2, <1>3, <2>1, <2>2, <2>3, <2>4 DEF q, n
<1>5. CASE p # <<>>
  <2>1. /\ Records(q) = Records(p) \cup (IF IsRecord(line) THEN {n} ELSE {})
        /\ Inherited(q, n) <=> IsRecord(line) /\ IsInherited(p, line)
        /\ OwnLines(q) = OwnLines(p) \cup
             (IF line.kind # "blank" /\ ~(IsRecord(line) /\ IsInherited(p, line))
              THEN {n} ELSE {})
    BY <1>5, AppendFacts DEF q, n
  <2>2. OwnLines(q) = OwnLines(p) \cup
          (IF line.kind # "blank" /\ ~Inherited(q, n) THEN {n} ELSE {})
    BY <2>1
  <2> QED BY <1>1, <1>2, <1>3, <2>1, <2>2 DEF q, n
<1> QED BY <1>4, <1>5

\* A file with one line more is a rollout exactly if no check of that line fails.
LEMMA NextFits ==
  ASSUME NEW p \in Seq(Lines), NEW line \in Lines, p # <<>> => WellFormed(p, Expected)
  PROVE  WellFormed(Append(p, line), Expected) <=>
           /\ line.kind # "undecodable" /\ (p = <<>> => line.kind = "session_meta")
           /\ IsRecord(line) =>
                /\ MayDeclare(p, line) /\ MayStand(p, line)
                /\ ~Inherited(Append(p, line), Len(p) + 1) => line.claims \subseteq {Expected}
<1> DEFINE q == Append(p, line)
           n == Len(p) + 1
<1>1. CASE p = <<>>
  <2>1. /\ WellFormed(q, Expected) <=>
             /\ line.kind = "session_meta" /\ line.id = Expected /\ FirstDeclares(line)
             /\ ~Ordinal(q) => line.claims \subseteq {Expected}
        /\ FirstDeclares(line) => (Inherited(q, 1) <=> IsRecord(line) /\ Ordinal(q))
    BY <1>1, FirstWellFormed
  <2>2. /\ n = 1 /\ (MayStand(p, line) <=> FirstDeclares(line))
        /\ line.kind = "session_meta" => (MayDeclare(p, line) <=> line.id = Expected)
    BY <1>1 DEF MayStand, MayDeclare
  <2> HIDE DEF q, n
  <2> QED BY <1>1, <2>1, <2>2 DEF IsRecord, q, n
<1>2. CASE p # <<>>
  <2>1. WellFormed(q, Expected) <=> Fits(p, line)
    BY <1>2, WellFormedAppend
  <2>2. Inherited(q, n) <=> IsRecord(line) /\ IsInherited(p, line)
    BY <1>2, AppendFacts
  <2>3. /\ MayStand(p, line) <=> OrdinalFits(p, line)
        /\ MayDeclare(p, line) <=>
             (line.kind = "session_meta" => line.id \in DeclaredBefore(p, n))
    BY <1>2 DEF MayStand, MayDeclare
  <2> HIDE DEF q, n
  <2> QED BY <1>2, <2>1, <2>2, <2>3 DEF Fits, IsRecord, q, n
<1> QED BY <1>1, <1>2

LEMMA LatestMore ==
  ASSUME NEW p \in Seq(Lines), NEW line \in Lines, NEW last,
         IsLatest(last, Records(p) \cap OwnLines(p))
  PROVE  LET q == Append(p, line)
             n == Len(p) + 1
         IN IF IsRecord(line) /\ ~Inherited(q, n)
              THEN IsLatest(n, Records(q) \cap OwnLines(q))
              ELSE IsLatest(last, Records(q) \cap OwnLines(q))
<1> DEFINE q == Append(p, line)
           n == Len(p) + 1
<1>1. /\ Records(q) = Records(p) \cup (IF IsRecord(line) THEN {n} ELSE {})
      /\ OwnLines(q) = OwnLines(p) \cup
           (IF line.kind # "blank" /\ ~Inherited(q, n) THEN {n} ELSE {})
      /\ Records(p) \subseteq 1 .. Len(p) /\ OwnLines(p) \subseteq 1 .. Len(p)
      /\ n \in Nat /\ \A k \in 1 .. Len(p) : k <= n
  BY OwnAppend
<1> HIDE DEF q
<1>2. CASE IsRecord(line) /\ ~Inherited(q, n)
  <2>1. Records(q) \cap OwnLines(q) = (Records(p) \cap OwnLines(p)) \cup {n}
    <3>1. line.kind # "blank" /\ n \notin Records(p)
      BY <1>1, <1>2 DEF IsRecord
    <3>2. n \notin OwnLines(p)
      BY <1>1
    <3> QED BY <1>1, <1>2, <3>1, <3>2
  <2> QED BY <1>1, <1>2, <2>1 DEF IsLatest, q
<1>3. CASE ~(IsRecord(line) /\ ~Inherited(q, n))
  <2>1. Records(q) \cap OwnLines(q) = Records(p) \cap OwnLines(p)
    <3>1. n \notin Records(p) /\ n \notin OwnLines(p)
      BY <1>1
    <3> QED BY <1>1, <1>3, <3>1
  <2> QED BY <1>3, <2>1 DEF q
<1> QED BY <1>2, <1>3

\* After a record that passed, the parser has parsed the longer file.
LEMMA KeptRecord ==
  ASSUME NEW p \in Seq(Lines), NEW line \in Lines, NEW before \in {NoOwner, Asked}, NEW s,
         Parsed(s, p, before), IsRecord(line), WellFormed(Append(p, line), Expected),
         forkHistoryStateValid(ScopeOf(Append(p, line)))
  PROVE  LET q == Append(p, line)
             skipped == Skipped(s, OwnerOf(q, before), ScopeOf(q))
             admitted == Admitted(line, s, OwnerOf(q, before), ScopeOf(q))
         IN IF Inherited(q, Len(p) + 1)
              THEN Parsed(skipped, q, before) /\ skipped.out = "nothing"
              ELSE Parsed(admitted, q, before) /\ admitted.out = "record"
<1> DEFINE q == Append(p, line)
           n == Len(p) + 1
           skipped == Skipped(s, OwnerOf(q, before), ScopeOf(q))
           admitted == Admitted(line, s, OwnerOf(q, before), ScopeOf(q))
<1>1. /\ IsState(s) /\ s.verdict = "" /\ s.lineNumber = Len(p) /\ s.observed \subseteq {Expected}
      /\ IsLatest(s.lastTimestamp, Records(p) \cap OwnLines(p))
  BY DEF Parsed, Keeps
<1>2. q \in Seq(Lines) /\ Len(q) = n /\ q # <<>> /\ q[n] = line /\ n \in Records(q)
  <2>1. n \in DOMAIN q /\ q[n] = line
    OBVIOUS
  <2> QED BY <2>1 DEF Records, IsRecord
<1>3. IF ~Inherited(q, n) THEN IsLatest(n, Records(q) \cap OwnLines(q))
                          ELSE IsLatest(s.lastTimestamp, Records(q) \cap OwnLines(q))
  BY <1>1, LatestMore
<1>4. ~Inherited(q, n) => line.claims \subseteq {Expected}
  BY <1>2 DEF WellFormed
<1>5. /\ skipped = StateOf(FALSE, OwnerOf(q, before), s.observed, ScopeOf(q), n,
                           s.lastTimestamp, "", "nothing")
      /\ admitted = StateOf(FALSE, OwnerOf(q, before), s.observed \cup line.claims, ScopeOf(q), n,
                            n, "", "record")
  <2>1. s.lineNumber + 1 = n
    BY <1>1
  <2> HIDE DEF q, n
  <2>2. /\ \A who, scope :
             Skipped(s, who, scope) = StateOf(FALSE, who, s.observed, scope, s.lineNumber + 1,
                                              s.lastTimestamp, s.verdict, "nothing")
        /\ \A who, scope :
             Admitted(line, s, who, scope) =
               StateOf(FALSE, who, s.observed \cup line.claims, scope, s.lineNumber + 1,
                       s.lineNumber + 1, s.verdict, "record")
    BY <1>1, LeaveLine, Zenon
  <2> QED BY <1>1, <2>1, <2>2, Zenon
<1> HIDE DEF q, n, skipped, admitted
<1>6. CASE Inherited(q, n)
  <2>1. /\ skipped.first = FALSE /\ skipped.who = OwnerOf(q, before) /\ skipped.observed = s.observed
        /\ skipped.scope = ScopeOf(q) /\ skipped.lineNumber = n /\ skipped.verdict = ""
        /\ skipped.lastTimestamp = s.lastTimestamp /\ skipped.out = "nothing"
    BY <1>5 DEF StateOf
  <2>2. IsState(skipped)
    BY <1>5 DEF StateOf, IsState
  <2>3. Keeps(skipped, q, before)
    BY <1>2, <1>3, <1>6, <2>1 DEF Keeps, q
  <2>4. Parsed(skipped, q, before)
    BY <1>1, <1>2, <2>1, <2>2, <2>3 DEF Parsed
  <2> QED BY <1>6, <2>1, <2>4 DEF q, n, skipped
<1>7. CASE ~Inherited(q, n)
  <2>1. /\ admitted.first = FALSE /\ admitted.who = OwnerOf(q, before)
        /\ admitted.observed = s.observed \cup line.claims
        /\ admitted.scope = ScopeOf(q) /\ admitted.lineNumber = n /\ admitted.verdict = ""
        /\ admitted.lastTimestamp = n /\ admitted.out = "record"
    BY <1>5 DEF StateOf
  <2>2. IsState(admitted)
    BY <1>5 DEF StateOf, IsState
  <2>3. Keeps(admitted, q, before)
    BY <1>2, <1>3, <1>7, <2>1 DEF Keeps, q
  <2>4. admitted.observed \subseteq {Expected}
    BY <1>1, <1>4, <1>7, <2>1
  <2>5. Parsed(admitted, q, before)
    BY <1>2, <2>1, <2>2, <2>3, <2>4 DEF Parsed
  <2> QED BY <1>7, <2>1, <2>5 DEF q, n, admitted
<1> QED BY <1>6, <1>7

\* After a line that is no record the file says of its history what it said.
LEMMA OtherSays ==
  ASSUME NEW p \in Seq(Lines), p # <<>>, NEW line \in Lines, WellFormed(p, Expected),
         ~IsRecord(line), line.kind # "undecodable"
  PROVE  LET q == Append(p, line)
         IN /\ q \in Seq(Lines) /\ Len(q) = Len(p) + 1 /\ q # <<>> /\ WellFormed(q, Expected)
            /\ ScopeOf(q) = ScopeOf(p)
            /\ \A before : OwnerOf(q, before) = OwnerOf(p, before)
<1> DEFINE q == Append(p, line)
           n == Len(p) + 1
<1>1. /\ q \in Seq(Lines) /\ Len(q) = n /\ q # <<>> /\ q[1] = p[1]
      /\ Records(q) = Records(p) /\ (Ordinal(q) <=> Ordinal(p))
      /\ DeclaredBefore(q, n + 1) = DeclaredBefore(p, n)
  <2>1. line.kind # "session_meta"
    BY DEF IsRecord
  <2>2. DeclaredBefore(q, n + 1) = DeclaredBefore(p, n) \cup
          (IF line.kind = "session_meta" THEN {line.fork} \cap Threads ELSE {})
    BY AppendFacts
  <2>3. DeclaredBefore(q, n + 1) = DeclaredBefore(p, n)
    BY <2>1, <2>2
  <2>4. Records(q) = Records(p) \cup (IF IsRecord(line) THEN {n} ELSE {})
    BY AppendFacts
  <2>5. /\ q \in Seq(Lines) /\ Len(q) = n /\ q # <<>> /\ q[1] = p[1]
        /\ (Ordinal(q) <=> Ordinal(p))
    BY AppendFacts
  <2> QED BY <2>3, <2>4, <2>5
<1>2. \A k \in Records(p) : q[k] = p[k]
  BY DEF Records
<1>3. WellFormed(q, Expected)
  <2>1. line.kind # "session_meta"
    BY DEF IsRecord
  <2> QED BY <2>1, NextFits
<1> HIDE DEF q, n
<1>4. BoundaryReached(q) = BoundaryReached(p)
  <2>1. BoundaryReached(q) <=> BoundaryReached(p)
    BY <1>1, <1>2 DEF BoundaryReached
  <2>2. BoundaryReached(q) \in BOOLEAN /\ BoundaryReached(p) \in BOOLEAN
    BY DEF BoundaryReached
  <2> QED BY <2>1, <2>2
<1>5. ScopeOf(q) = ScopeOf(p) /\ \A before : OwnerOf(q, before) = OwnerOf(p, before)
  <2>1. Len(q) + 1 = n + 1
    BY <1>1
  <2> QED BY <1>1, <1>4, <2>1 DEF ScopeOf, OwnerOf, n
<1> QED BY <1>1, <1>3, <1>5 DEF q, n

\* A line that is no record changes nothing but the count.
LEMMA KeptOther ==
  ASSUME NEW p \in Seq(Lines), p # <<>>, NEW line \in Lines, NEW before \in {NoOwner, Asked},
         NEW s, Parsed(s, p, before), ~IsRecord(line), line.kind # "undecodable"
  PROVE  /\ Parsed(NextLine(s), Append(p, line), before) /\ NextLine(s).out = "nothing"
         /\ Parsed([NextLine(s) EXCEPT !.out = "parse-error"], Append(p, line), before)
         /\ [NextLine(s) EXCEPT !.out = "parse-error"].out = "parse-error"
<1> DEFINE q == Append(p, line)
           n == Len(p) + 1
<1>1. /\ IsState(s) /\ s.verdict = "" /\ s.observed \subseteq {Expected} /\ Keeps(s, p, before)
      /\ s.lineNumber = Len(p) /\ s.who = OwnerOf(p, before) /\ s.scope = ScopeOf(p)
      /\ IsLatest(s.lastTimestamp, Records(p) \cap OwnLines(p))
      /\ WellFormed(p, Expected) /\ forkHistoryStateValid(s.scope)
  BY DEF Parsed, Keeps
<1>2. /\ Len(q) = n /\ q # <<>> /\ WellFormed(q, Expected)
      /\ ScopeOf(q) = ScopeOf(p) /\ OwnerOf(q, before) = OwnerOf(p, before)
  BY <1>1, OtherSays
<1>3. IsLatest(s.lastTimestamp, Records(q) \cap OwnLines(q))
  BY <1>1, LatestMore
<1> HIDE DEF q, n
<1>4. ASSUME NEW out
      PROVE  Parsed(StateOf(FALSE, s.who, s.observed, s.scope, n, s.lastTimestamp, "", out), q, before)
  <2> DEFINE t == StateOf(FALSE, s.who, s.observed, s.scope, n, s.lastTimestamp, "", out)
  <2>1. /\ t.first = FALSE /\ t.who = s.who /\ t.observed = s.observed /\ t.scope = s.scope
        /\ t.lineNumber = n /\ t.verdict = "" /\ t.lastTimestamp = s.lastTimestamp
    BY DEF StateOf
  <2>2. IsState(t)
    BY DEF StateOf, IsState
  <2> HIDE DEF t
  <2>3. Keeps(t, q, before)
    BY <1>1, <1>2, <1>3, <2>1 DEF Keeps
  <2> QED BY <1>1, <1>2, <2>1, <2>2, <2>3 DEF Parsed, t
<1>5. /\ NextLine(s) = StateOf(FALSE, s.who, s.observed, s.scope, n, s.lastTimestamp, "", "nothing")
      /\ [NextLine(s) EXCEPT !.out = "parse-error"] =
           StateOf(FALSE, s.who, s.observed, s.scope, n, s.lastTimestamp, "", "parse-error")
  <2>1. s.lineNumber + 1 = n
    BY <1>1 DEF n
  <2>2. /\ NextLine(s) = StateOf(FALSE, s.who, s.observed, s.scope, s.lineNumber + 1,
                                 s.lastTimestamp, s.verdict, "nothing")
        /\ [NextLine(s) EXCEPT !.out = "parse-error"] =
             StateOf(FALSE, s.who, s.observed, s.scope, s.lineNumber + 1,
                     s.lastTimestamp, s.verdict, "parse-error")
    BY <1>1, LeaveLine, Zenon
  <2> QED BY <1>1, <2>1, <2>2, Zenon
<1>6. ASSUME NEW out
      PROVE  StateOf(FALSE, s.who, s.observed, s.scope, n, s.lastTimestamp, "", out).out = out
  BY DEF StateOf
<1>7. Parsed(NextLine(s), q, before) /\ NextLine(s).out = "nothing"
  <2> DEFINE t == StateOf(FALSE, s.who, s.observed, s.scope, n, s.lastTimestamp, "", "nothing")
  <2>1. Parsed(t, q, before) /\ t.out = "nothing"
    BY <1>4, <1>6
  <2>2. NextLine(s) = t
    BY <1>5
  <2> HIDE DEF t
  <2> QED BY <2>1, <2>2
<1>8. /\ Parsed([NextLine(s) EXCEPT !.out = "parse-error"], q, before)
      /\ [NextLine(s) EXCEPT !.out = "parse-error"].out = "parse-error"
  <2> DEFINE t == StateOf(FALSE, s.who, s.observed, s.scope, n, s.lastTimestamp, "", "parse-error")
  <2>1. Parsed(t, q, before) /\ t.out = "parse-error"
    BY <1>4, <1>6
  <2>2. [NextLine(s) EXCEPT !.out = "parse-error"] = t
    BY <1>5
  <2> HIDE DEF t
  <2> QED BY <2>1, <2>2
<1> QED BY <1>7, <1>8 DEF q

\* parseLine passes a line exactly if the file remains a rollout of the thread,
\* and delivers it exactly if it is one of the thread's own.
LEMMA ParseStep ==
  ASSUME NEW p \in Seq(Lines), NEW line \in Lines, NEW s, Parsed(s, p, Asked)
  PROVE  LET q == Append(p, line)
             t == ParseLine(line, s)
         IN /\ WellFormed(q, Expected) =>
                 /\ Parsed(t, q, Asked)
                 /\ t.out = "nothing" <=> Len(p) + 1 \notin OwnLines(q)
            /\ ~WellFormed(q, Expected) => t.verdict \in ContentReasons
<1> DEFINE q == Append(p, line)
           n == Len(p) + 1
           t == ParseLine(line, s)
<1> SUFFICES /\ WellFormed(q, Expected) =>
                  Parsed(t, q, Asked) /\ (t.out = "nothing" <=> n \notin OwnLines(q))
             /\ ~WellFormed(q, Expected) => t.verdict \in ContentReasons
  OBVIOUS
<1>1. /\ IsState(s) /\ s.verdict = "" /\ s.observed \subseteq {Expected}
      /\ (p = <<>> => s.observed = {}) /\ Keeps(s, p, Asked) /\ s.first \in BOOLEAN
      /\ (s.first <=> p = <<>>) /\ s.who = OwnerOf(p, Asked) /\ s.scope = ScopeOf(p)
      /\ (p # <<>> => WellFormed(p, Expected) /\ forkHistoryStateValid(ScopeOf(p)))
  BY DEF Parsed, Keeps
<1>2. WellFormed(q, Expected) <=>
        /\ line.kind # "undecodable" /\ (p = <<>> => line.kind = "session_meta")
        /\ IsRecord(line) =>
             /\ MayDeclare(p, line) /\ MayStand(p, line)
             /\ ~Inherited(q, n) => line.claims \subseteq {Expected}
  BY <1>1, NextFits
<1>3. n \in OwnLines(q) <=> line.kind # "blank" /\ ~Inherited(q, n)
  <2>1. /\ OwnLines(q) = OwnLines(p) \cup
             (IF line.kind # "blank" /\ ~Inherited(q, n) THEN {n} ELSE {})
        /\ OwnLines(p) \subseteq 1 .. Len(p)
    BY OwnAppend
  <2>2. n \notin 1 .. Len(p)
    OBVIOUS
  <2> HIDE DEF q, n
  <2> QED BY <2>1, <2>2
<1>4. Inherited(q, n) => IsRecord(line)
  BY OwnAppend
<1>5. \A reason : Refused(s, reason).verdict = reason
  <2>1. \A x : Refused(s, x) = StateOf(FALSE, s.who, s.observed, s.scope, s.lineNumber + 1,
                                      s.lastTimestamp, x, "nothing")
    BY <1>1, LeaveLine, Zenon
  <2>2. \A x : StateOf(FALSE, s.who, s.observed, s.scope, s.lineNumber + 1,
                      s.lastTimestamp, x, "nothing").verdict = x
    BY DEF StateOf
  <2> QED BY <2>1, <2>2
<1> HIDE DEF q, n, t
<1>6. CASE line.kind = "undecodable"
  <2>1. t = Refused(s, "invalid-utf8")
    BY <1>6 DEF t, ParseLine
  <2> QED BY <1>2, <1>5, <1>6, <2>1 DEF ContentReasons
<1>7. CASE line.kind \in {"blank", "malformed"} /\ p = <<>>
  <2>1. t = Refused(s, "rollout-owner-missing")
    BY <1>1, <1>7 DEF t, ParseLine
  <2> QED BY <1>2, <1>5, <1>7, <2>1 DEF ContentReasons
<1>8. CASE line.kind \in {"blank", "malformed"} /\ p # <<>>
  <2>1. ~IsRecord(line) /\ line.kind # "undecodable"
    BY <1>8 DEF IsRecord
  <2>2. WellFormed(q, Expected) /\ ~Inherited(q, n)
    BY <1>2, <1>4, <1>8, <2>1
  <2>3. /\ Parsed(NextLine(s), q, Asked) /\ NextLine(s).out = "nothing"
        /\ Parsed([NextLine(s) EXCEPT !.out = "parse-error"], q, Asked)
        /\ [NextLine(s) EXCEPT !.out = "parse-error"].out = "parse-error"
    <3>1. Asked \in {NoOwner, Asked}
      OBVIOUS
    <3> QED BY <1>8, <2>1, <3>1, KeptOther DEF q
  <2>4. t = IF line.kind = "blank" THEN NextLine(s)
            ELSE [NextLine(s) EXCEPT !.out = "parse-error"]
    BY <1>1, <1>8 DEF t, ParseLine
  <2>5. CASE line.kind = "blank"
    BY <1>3, <2>2, <2>3, <2>4, <2>5
  <2>6. CASE line.kind # "blank"
    <3>1. t.out = "parse-error" /\ Parsed(t, q, Asked)
      BY <2>3, <2>4, <2>6
    <3> QED BY <1>3, <2>2, <2>6, <3>1
  <2> QED BY <2>5, <2>6
<1>9. CASE IsRecord(line)
  <2> DEFINE owner == advanceRolloutOwnerLineage(line, s.who, s.observed)
             history == advanceRolloutHistoryScope(line, s.scope, s.first)
             claim == recordThreadIdentity(line)
             strange == claim = "valid" /\ owner.who.owner \notin {None} \cup line.claims
             refusal == RecordRefusal(line, s, owner, history)
  <2>1. t = IF refusal # "" THEN Refused(s, refusal)
            ELSE IF history.status = "skip" THEN Skipped(s, owner.who, history.scope)
            ELSE Admitted(line, s, owner.who, history.scope)
    BY <1>9 DEF t, ParseLine, ParseRecord, IsRecord
  <2>2. refusal =
          IF s.first /\ line.kind # "session_meta" THEN "rollout-owner-missing"
          ELSE IF owner.status = "invalid" THEN "rollout-owner-invalid"
          ELSE IF owner.status = "mismatch" THEN "rollout-owner-mismatch"
          ELSE IF history.status = "missing" THEN "rollout-history-boundary-missing"
          ELSE IF history.status = "invalid" THEN "rollout-history-boundary-invalid"
          ELSE IF history.status = "skip" THEN ""
          ELSE IF claim = "invalid" THEN "rollout-owner-invalid"
          ELSE IF claim = "conflict" \/ strange THEN "rollout-owner-mismatch"
          ELSE ""
    BY DEF RecordRefusal
  <2>3. ASSUME p = <<>> => line.kind = "session_meta"
        PROVE  /\ MayDeclare(p, line) => /\ owner.status \in {"absent", "accepted"}
                                         /\ owner.who = OwnerOf(q, Asked)
               /\ ~MayDeclare(p, line) => owner.status \in {"invalid", "mismatch"}
    <3>1. Asked # NoOwner /\ Asked \in {NoOwner, Asked}
      BY DEF Asked, NoOwner
    <3>2. owner = advanceRolloutOwnerLineage(line, OwnerOf(p, Asked), s.observed)
          /\ s.observed \in SUBSET {Expected}
      BY <1>1
    <3> HIDE DEF owner
    <3>3. p = <<>> => /\ s.observed = {} /\ line.kind = "session_meta"
                      /\ Asked = NoOwner => line.id = Expected
      BY <1>1, <2>3, <3>1
    <3>4. p # <<>> => WellFormed(p, Expected)
      BY <1>1
    <3> QED BY <3>1, <3>2, <3>3, <3>4, OwnerStep DEF q
  <2>4. ASSUME p = <<>> => line.kind = "session_meta" /\ line.id = Expected
        PROVE  /\ MayStand(p, line) =>
                    /\ history.scope = ScopeOf(q) /\ forkHistoryStateValid(ScopeOf(q))
                    /\ history.status = IF Inherited(q, n) THEN "skip" ELSE "admit"
               /\ ~MayStand(p, line) => history.status \in {"missing", "invalid"}
    <3>1. history = advanceRolloutHistoryScope(line, ScopeOf(p), s.first)
      BY <1>1
    <3> HIDE DEF history
    <3> QED BY <1>1, <1>9, <2>4, <3>1, ScopeStep DEF q, n
  <2>5. line.claims \subseteq {Expected} <=>
          /\ claim \notin {"invalid", "conflict"}
          /\ claim = "valid" => Expected \in {None} \cup line.claims
    BY ClaimStep
  <2>6. ASSUME WellFormed(q, Expected), forkHistoryStateValid(ScopeOf(q))
        PROVE  IF Inherited(q, n)
                 THEN /\ Parsed(Skipped(s, OwnerOf(q, Asked), ScopeOf(q)), q, Asked)
                      /\ Skipped(s, OwnerOf(q, Asked), ScopeOf(q)).out = "nothing"
                 ELSE /\ Parsed(Admitted(line, s, OwnerOf(q, Asked), ScopeOf(q)), q, Asked)
                      /\ Admitted(line, s, OwnerOf(q, Asked), ScopeOf(q)).out = "record"
    BY <1>9, <2>6, KeptRecord DEF q, n
  <2> HIDE DEF owner, history, claim, refusal
  <2>7. CASE p = <<>> /\ line.kind # "session_meta"
    <3>1. refusal = "rollout-owner-missing"
      BY <1>1, <2>2, <2>7
    <3>2. t.verdict = "rollout-owner-missing"
      BY <1>5, <2>1, <3>1
    <3> QED BY <1>2, <2>7, <3>2 DEF ContentReasons
  <2>8. CASE (p = <<>> => line.kind = "session_meta") /\ ~MayDeclare(p, line)
    <3>1. refusal \in {"rollout-owner-invalid", "rollout-owner-mismatch"}
      BY <1>1, <2>2, <2>3, <2>8
    <3>2. t.verdict \in {"rollout-owner-invalid", "rollout-owner-mismatch"}
      BY <1>5, <2>1, <3>1
    <3> QED BY <1>2, <1>9, <2>8, <3>2 DEF ContentReasons
  <2>9. CASE (p = <<>> => line.kind = "session_meta") /\ MayDeclare(p, line)
    <3>1. p = <<>> => line.kind = "session_meta" /\ line.id = Expected
      BY <2>9 DEF MayDeclare
    <3>2. owner.status \in {"absent", "accepted"} /\ owner.who = OwnerOf(q, Asked)
      BY <2>3, <2>9
    <3>3. ~(s.first /\ line.kind # "session_meta")
      BY <1>1, <2>9
    <3>4. owner.who.owner = Expected
      <4>1. q # <<>>
        BY DEF q
      <4> QED BY <3>2, <4>1 DEF OwnerOf
    <3>5. CASE ~MayStand(p, line)
      <4>1. refusal \in {"rollout-history-boundary-missing", "rollout-history-boundary-invalid"}
        BY <2>2, <2>4, <3>1, <3>2, <3>3, <3>5
      <4>2. t.verdict \in {"rollout-history-boundary-missing", "rollout-history-boundary-invalid"}
        BY <1>5, <2>1, <4>1
      <4> QED BY <1>2, <1>9, <3>5, <4>2 DEF ContentReasons
    <3>6. CASE MayStand(p, line) /\ Inherited(q, n)
      <4>1. history.status = "skip" /\ history.scope = ScopeOf(q) /\ forkHistoryStateValid(ScopeOf(q))
        BY <2>4, <3>1, <3>6
      <4>2. refusal = ""
        BY <2>2, <3>2, <3>3, <4>1
      <4>3. t = Skipped(s, OwnerOf(q, Asked), ScopeOf(q))
        BY <2>1, <3>2, <4>1, <4>2
      <4>4. WellFormed(q, Expected)
        BY <1>2, <1>9, <2>9, <3>6 DEF IsRecord
      <4> QED BY <1>3, <2>6, <3>6, <4>1, <4>3, <4>4
    <3>7. CASE MayStand(p, line) /\ ~Inherited(q, n)
      <4>1. history.status = "admit" /\ history.scope = ScopeOf(q) /\ forkHistoryStateValid(ScopeOf(q))
        BY <2>4, <3>1, <3>7
      <4>2. refusal = IF claim = "invalid" THEN "rollout-owner-invalid"
                      ELSE IF claim = "conflict" \/ strange THEN "rollout-owner-mismatch"
                      ELSE ""
        BY <2>2, <3>2, <3>3, <4>1
      <4>3. strange <=> claim = "valid" /\ Expected \notin {None} \cup line.claims
        BY <3>4
      <4> HIDE DEF strange
      <4>4. CASE line.claims \subseteq {Expected}
        <5>1. refusal = ""
          BY <2>5, <4>2, <4>3, <4>4
        <5>2. t = Admitted(line, s, OwnerOf(q, Asked), ScopeOf(q))
          BY <2>1, <3>2, <4>1, <5>1
        <5>3. WellFormed(q, Expected) /\ line.kind # "blank"
          BY <1>2, <1>9, <2>9, <3>7, <4>4 DEF IsRecord
        <5> QED BY <1>3, <2>6, <3>7, <4>1, <5>2, <5>3
      <4>5. CASE ~(line.claims \subseteq {Expected})
        <5>1. refusal \in {"rollout-owner-invalid", "rollout-owner-mismatch"}
          BY <2>5, <4>2, <4>3, <4>5
        <5>2. t.verdict \in {"rollout-owner-invalid", "rollout-owner-mismatch"}
          BY <1>5, <2>1, <5>1
        <5>3. ~WellFormed(q, Expected)
          BY <1>2, <1>9, <3>7, <4>5
        <5> QED BY <5>2, <5>3 DEF ContentReasons
      <4> QED BY <4>4, <4>5
    <3> QED BY <3>5, <3>6, <3>7
  <2> QED BY <2>7, <2>8, <2>9
<1>10. line.kind = "undecodable" \/ line.kind \in {"blank", "malformed"} \/ IsRecord(line)
  BY DEF IsRecord
<1> QED BY <1>6, <1>7, <1>8, <1>9, <1>10

\* replayLine passes every line of a rollout of the thread.
LEMMA ReplayStep ==
  ASSUME NEW p \in Seq(Lines), NEW line \in Lines, NEW s, Parsed(s, p, NoOwner),
         WellFormed(Append(p, line), Expected)
  PROVE  Parsed(ReplayLine(line, s), Append(p, line), NoOwner)
<1> DEFINE q == Append(p, line)
           n == Len(p) + 1
           t == ReplayLine(line, s)
<1> SUFFICES Parsed(t, q, NoOwner)
  OBVIOUS
<1>1. /\ IsState(s) /\ s.verdict = "" /\ s.observed \subseteq {Expected}
      /\ (p = <<>> => s.observed = {}) /\ Keeps(s, p, NoOwner) /\ s.first \in BOOLEAN
      /\ (s.first <=> p = <<>>) /\ s.who = OwnerOf(p, NoOwner) /\ s.scope = ScopeOf(p)
      /\ (p # <<>> => WellFormed(p, Expected) /\ forkHistoryStateValid(ScopeOf(p)))
  BY DEF Parsed, Keeps
<1>2. /\ line.kind # "undecodable" /\ (p = <<>> => line.kind = "session_meta")
      /\ IsRecord(line) =>
           /\ MayDeclare(p, line) /\ MayStand(p, line)
           /\ ~Inherited(q, n) => line.claims \subseteq {Expected}
  BY <1>1, NextFits
<1>3. NoOwner \in {NoOwner, Asked}
  OBVIOUS
<1>4. CASE ~IsRecord(line)
  <2>1. p # <<>> /\ line.kind \in {"blank", "malformed"}
    BY <1>2, <1>4 DEF IsRecord
  <2>2. Parsed(NextLine(s), q, NoOwner)
    BY <1>2, <1>3, <1>4, <2>1, KeptOther
  <2>3. t = NextLine(s)
    BY <1>1, <2>1 DEF ReplayLine
  <2> QED BY <2>2, <2>3
<1>5. CASE IsRecord(line)
  <2> DEFINE owner == advanceRolloutOwnerLineage(line, s.who, s.observed)
             history == advanceRolloutHistoryScope(line, s.scope, s.first)
             claim == recordThreadIdentity(line)
             ours == claim = "valid" => owner.who.owner \in {None} \cup line.claims
  <2>1. p = <<>> => line.kind = "session_meta" /\ line.id = Expected
    BY <1>2, <1>5 DEF MayDeclare
  <2>2. owner.status \in {"absent", "accepted"} /\ owner.who = OwnerOf(q, NoOwner)
    <3>1. owner = advanceRolloutOwnerLineage(line, OwnerOf(p, NoOwner), s.observed)
          /\ s.observed \in SUBSET {Expected}
      BY <1>1
    <3> HIDE DEF owner
    <3>2. p = <<>> => /\ s.observed = {} /\ line.kind = "session_meta"
                      /\ NoOwner = NoOwner => line.id = Expected
      BY <1>1, <2>1
    <3>3. (p # <<>> => WellFormed(p, Expected)) /\ MayDeclare(p, line)
      BY <1>1, <1>2, <1>5
    <3> QED BY <1>3, <3>1, <3>2, <3>3, OwnerStep
  <2>3. /\ history.scope = ScopeOf(q) /\ forkHistoryStateValid(ScopeOf(q))
        /\ history.status = IF Inherited(q, n) THEN "skip" ELSE "admit"
    <3>1. history = advanceRolloutHistoryScope(line, ScopeOf(p), s.first)
      BY <1>1
    <3> HIDE DEF history
    <3> QED BY <1>1, <1>2, <1>5, <2>1, <3>1, ScopeStep
  <2>4. line.claims \subseteq {Expected} <=>
          /\ claim \notin {"invalid", "conflict"}
          /\ claim = "valid" => Expected \in {None} \cup line.claims
    BY ClaimStep
  <2>5. IF Inherited(q, n)
          THEN Parsed(Skipped(s, OwnerOf(q, NoOwner), ScopeOf(q)), q, NoOwner)
          ELSE Parsed(Admitted(line, s, OwnerOf(q, NoOwner), ScopeOf(q)), q, NoOwner)
    BY <1>3, <1>5, <2>3, KeptRecord
  <2>6. owner.who.owner = Expected
    <3>1. OwnerOf(q, NoOwner).owner = Expected
      BY DEF OwnerOf
    <3> HIDE DEF owner
    <3> QED BY <2>2, <3>1
  <2>7. t = IF s.first /\ line.kind # "session_meta" THEN Refused(s, "prefix")
            ELSE IF owner.status \in {"invalid", "mismatch"}
                    \/ history.status \in {"missing", "invalid"}
              THEN Refused(s, "prefix")
            ELSE IF history.status = "skip" THEN Skipped(s, owner.who, history.scope)
            ELSE IF claim \in {"invalid", "conflict"} \/ ~ours THEN Refused(s, "prefix")
            ELSE Admitted(line, s, owner.who, history.scope)
    BY <1>5 DEF ReplayLine, IsRecord
  <2>8. ours <=> (claim = "valid" => Expected \in {None} \cup line.claims)
    <3> HIDE DEF owner
    <3> QED BY <2>6
  <2>9. ~(s.first /\ line.kind # "session_meta")
    BY <1>1, <2>1
  <2> HIDE DEF q, n, t, owner, history, claim, ours
  <2>10. CASE Inherited(q, n)
    <3>1. t = Skipped(s, OwnerOf(q, NoOwner), ScopeOf(q))
      BY <2>2, <2>3, <2>7, <2>9, <2>10
    <3> QED BY <2>5, <2>10, <3>1
  <2>11. CASE ~Inherited(q, n)
    <3>1. claim \notin {"invalid", "conflict"} /\ ours
      BY <1>2, <1>5, <2>4, <2>8, <2>11
    <3>2. t = Admitted(line, s, OwnerOf(q, NoOwner), ScopeOf(q))
      BY <2>2, <2>3, <2>7, <2>9, <2>11, <3>1
    <3> QED BY <2>5, <2>11, <3>2
  <2> QED BY <2>10, <2>11
<1> QED BY <1>4, <1>5

\* What a parser knows before the first line.
LEMMA ParsedNothing ==
  ASSUME NEW before
  PROVE  Parsed(Fresh(before), <<>>, before)
<1>1. Records(<<>>) \cap OwnLines(<<>>) = {}
  BY DEF Records
<1>2. /\ Fresh(before).first = TRUE /\ Fresh(before).who = before /\ Fresh(before).observed = {}
      /\ Fresh(before).scope = NoScope /\ Fresh(before).lineNumber = 0
      /\ Fresh(before).lastTimestamp = 0 /\ Fresh(before).verdict = ""
  BY DEF Fresh
<1>3. IsState(Fresh(before))
  BY DEF Fresh, IsState
<1>4. IsLatest(0, Records(<<>>) \cap OwnLines(<<>>))
  BY <1>1 DEF IsLatest
<1>5. Keeps(Fresh(before), <<>>, before)
  BY <1>2, <1>4 DEF Keeps, OwnerOf, ScopeOf
<1> QED BY <1>2, <1>3, <1>5 DEF Parsed

-----------------------------------------------------------------------------
(***************************************************************************)
(* A whole file, replayed.                                                 *)
(***************************************************************************)

\* A set that has 0, and with a number the next one up to a bound, has all of
\* them.
LEMMA CountTo ==
  ASSUME NEW last \in Nat, NEW S, 0 \in S, \A n \in 1 .. last : n - 1 \in S => n \in S
  PROVE  \A n \in 0 .. last : n \in S
<1> DEFINE missing == {n \in 0 .. last : n \notin S}
<1> SUFFICES ASSUME missing # {} PROVE FALSE
  OBVIOUS
<1>1. missing \subseteq Nat
  OBVIOUS
<1>2. PICK x \in missing : \A y \in missing : ~ (<<y, x>> \in OpToRel(<, Nat))
  BY <1>1, NatLessThanWellFounded, WFMin
<1>3. \A y \in missing : ~ (y < x)
  BY <1>1, <1>2 DEF OpToRel
<1>4. x \in 1 .. last
  OBVIOUS
<1>5. x - 1 \in missing /\ x - 1 < x
  BY <1>4
<1> QED BY <1>3, <1>5

\* The next state of a replay.
ReplayNext(s, line) == IF s.verdict # "" THEN s ELSE ReplayLine(line, s)

\* The recursion Replayed is defined by has a solution.
LEMMA ReplayExists ==
  ASSUME NEW lines, Len(lines) \in Nat
  PROVE  \E f : f = [n \in 0 .. Len(lines) |->
                       IF n = 0 THEN Fresh(NoOwner) ELSE ReplayNext(f[n - 1], lines[n])]
<1> DEFINE Step(f, m) == [n \in 0 .. m |->
                            IF n = 0 THEN Fresh(NoOwner) ELSE ReplayNext(f[n - 1], lines[n])]
           Solved == {m \in Nat : \E f : f = Step(f, m)}
<1>1. 0 \in Solved
  <2> DEFINE f == [n \in 0 .. 0 |-> Fresh(NoOwner)]
  <2>1. \A n \in 0 .. 0 : n = 0
    OBVIOUS
  <2>2. f = Step(f, 0)
    BY <2>1
  <2> QED BY <2>2
<1>2. ASSUME NEW m \in 1 .. Len(lines), m - 1 \in Solved
      PROVE  m \in Solved
  <2>1. PICK f : f = Step(f, m - 1)
    BY <1>2
  <2> DEFINE g == [n \in 0 .. m |-> IF n = m THEN ReplayNext(f[m - 1], lines[m]) ELSE f[n]]
  <2>2. \A n \in 0 .. m - 1 :
          f[n] = IF n = 0 THEN Fresh(NoOwner) ELSE ReplayNext(f[n - 1], lines[n])
    BY <2>1
  <2>3. \A n \in 0 .. m - 1 : g[n] = f[n]
    BY <1>2
  <2>4. g[m] = ReplayNext(f[m - 1], lines[m])
    BY <1>2
  <2>5. ASSUME NEW n \in 0 .. m
        PROVE  g[n] = IF n = 0 THEN Fresh(NoOwner) ELSE ReplayNext(g[n - 1], lines[n])
    <3> HIDE DEF g
    <3>1. CASE n = m
      <4>1. m # 0 /\ m - 1 \in 0 .. m - 1
        BY <1>2
      <4> QED BY <2>3, <2>4, <3>1, <4>1
    <3>2. CASE n # m
      <4>1. n \in 0 .. m - 1 /\ (n # 0 => n - 1 \in 0 .. m - 1)
        BY <1>2, <3>2
      <4> QED BY <2>2, <2>3, <4>1
    <3> QED BY <3>1, <3>2
  <2>6. g = Step(g, m)
    BY <2>5
  <2>7. \E h : h = Step(h, m)
    <3> HIDE DEF g, Step
    <3> QED BY <2>6
  <2>8. m \in Nat
    BY <1>2
  <2> QED BY <2>7, <2>8
<1>3. \A m \in 0 .. Len(lines) : m \in Solved
  <2> HIDE DEF Solved
  <2> QED BY <1>1, <1>2, CountTo
<1>4. Len(lines) \in Solved
  BY <1>3
<1> QED BY <1>4

LEMMA ReplayUnfolds ==
  ASSUME NEW lines \in Seq(Lines)
  PROVE  \E f : /\ f[0] = Fresh(NoOwner)
                /\ \A n \in 1 .. Len(lines) : f[n] = ReplayNext(f[n - 1], lines[n])
                /\ Replayed(lines) = f[Len(lines)]
<1> DEFINE F == CHOOSE f : f = [n \in 0 .. Len(lines) |->
                  IF n = 0 THEN Fresh(NoOwner) ELSE ReplayNext(f[n - 1], lines[n])]
<1>1. Len(lines) \in Nat
  OBVIOUS
<1>2. F = [n \in 0 .. Len(lines) |->
             IF n = 0 THEN Fresh(NoOwner) ELSE ReplayNext(F[n - 1], lines[n])]
  BY <1>1, ReplayExists
<1>3. Replayed(lines) = F[Len(lines)]
  BY DEF Replayed, ReplayNext
<1> HIDE DEF F
<1>4. F[0] = Fresh(NoOwner)
  BY <1>1, <1>2
<1>5. \A n \in 1 .. Len(lines) : F[n] = ReplayNext(F[n - 1], lines[n])
  BY <1>1, <1>2
<1> QED BY <1>3, <1>4, <1>5

LEMMA PrefixFacts ==
  ASSUME NEW lines \in Seq(Lines)
  PROVE  /\ SubSeq(lines, 1, 0) = <<>> /\ SubSeq(lines, 1, Len(lines)) = lines
         /\ \A n \in 1 .. Len(lines) :
              /\ SubSeq(lines, 1, n - 1) \in Seq(Lines) /\ Len(SubSeq(lines, 1, n - 1)) + 1 = n
              /\ lines[n] \in Lines /\ Begins(SubSeq(lines, 1, n), lines)
              /\ SubSeq(lines, 1, n) = Append(SubSeq(lines, 1, n - 1), lines[n])
<1>1. SubSeq(lines, 1, 0) = <<>> /\ SubSeq(lines, 1, Len(lines)) = lines
  OBVIOUS
<1>2. ASSUME NEW n \in 1 .. Len(lines)
      PROVE  /\ SubSeq(lines, 1, n - 1) \in Seq(Lines) /\ Len(SubSeq(lines, 1, n - 1)) + 1 = n
             /\ lines[n] \in Lines
             /\ SubSeq(lines, 1, n) = Append(SubSeq(lines, 1, n - 1), lines[n])
  OBVIOUS
<1>3. ASSUME NEW n \in 1 .. Len(lines)
      PROVE  Begins(SubSeq(lines, 1, n), lines)
  BY DEF Begins
<1> QED BY <1>1, <1>2, <1>3

\* The replay of the consumed lines of a rollout passes all of them.
LEMMA ReplayedIs ==
  ASSUME NEW lines \in Seq(Lines), lines # <<>> => WellFormed(lines, Expected)
  PROVE  Parsed(Replayed(lines), lines, NoOwner)
<1> DEFINE P(f, n) == Parsed(f[n], SubSeq(lines, 1, n), NoOwner)
<1>1. PICK f : /\ f[0] = Fresh(NoOwner)
               /\ \A n \in 1 .. Len(lines) : f[n] = ReplayNext(f[n - 1], lines[n])
               /\ Replayed(lines) = f[Len(lines)]
  BY ReplayUnfolds
<1>2. Len(lines) \in Nat
  OBVIOUS
<1>3. /\ SubSeq(lines, 1, 0) = <<>> /\ SubSeq(lines, 1, Len(lines)) = lines
      /\ \A n \in 1 .. Len(lines) :
           /\ SubSeq(lines, 1, n - 1) \in Seq(Lines) /\ Len(SubSeq(lines, 1, n - 1)) + 1 = n
           /\ lines[n] \in Lines /\ Begins(SubSeq(lines, 1, n), lines)
           /\ SubSeq(lines, 1, n) = Append(SubSeq(lines, 1, n - 1), lines[n])
  BY PrefixFacts
<1>4. P(f, 0)
  BY <1>1, <1>3, ParsedNothing
<1>5. ASSUME NEW n \in 1 .. Len(lines), P(f, n - 1)
      PROVE  P(f, n)
  <2> DEFINE pre == SubSeq(lines, 1, n - 1)
             s == f[n - 1]
  <2>1. /\ pre \in Seq(Lines) /\ lines[n] \in Lines
        /\ SubSeq(lines, 1, n) = Append(pre, lines[n])
        /\ f[n] = ReplayNext(s, lines[n])
    BY <1>1, <1>3
  <2>2. Parsed(s, pre, NoOwner)
    BY <1>5
  <2>3. WellFormed(SubSeq(lines, 1, n), Expected)
    <3>1. lines # <<>> /\ Begins(SubSeq(lines, 1, n), lines)
      BY <1>3
    <3> QED BY <3>1, WellFormedBegins
  <2> HIDE DEF pre, s
  <2>4. s.verdict = ""
    BY <2>2 DEF Parsed
  <2>5. Parsed(ReplayLine(lines[n], s), Append(pre, lines[n]), NoOwner)
    BY <2>1, <2>2, <2>3, ReplayStep
  <2> QED BY <2>1, <2>4, <2>5 DEF ReplayNext
<1> HIDE DEF P
<1>6. \A n \in 0 .. Len(lines) : P(f, n)
  <2> DEFINE S == {n \in Nat : P(f, n)}
  <2>1. 0 \in S
    BY <1>4
  <2>2. \A n \in 1 .. Len(lines) : n - 1 \in S => n \in S
    BY <1>5
  <2> HIDE DEF S
  <2>3. \A n \in 0 .. Len(lines) : n \in S
    BY <1>2, <2>1, <2>2, CountTo
  <2> QED BY <2>3 DEF S
<1>7. P(f, Len(lines))
  BY <1>2, <1>6
<1> QED BY <1>1, <1>3, <1>7 DEF P

-----------------------------------------------------------------------------
(***************************************************************************)
(* What the caller has been given.                                         *)
(***************************************************************************)
Delivery == [at : Nat, line : Lines]

LEMMA ListingNothing == IsListing(<<>>, <<>>)
<1>1. OwnLines(<<>>) = {}
  BY DEF OwnLines
<1>2. {<<>>[i].at : i \in DOMAIN <<>>} = {}
  OBVIOUS
<1> QED BY <1>1, <1>2 DEF IsListing

LEMMA ListingMore ==
  ASSUME NEW p \in Seq(Lines), NEW line \in Lines, NEW list \in Seq(Delivery),
         IsListing(list, p)
  PROVE  LET q == Append(p, line)
             n == Len(p) + 1
             one == [at |-> n, line |-> line]
         IN IF n \in OwnLines(q)
              THEN Append(list, one) \in Seq(Delivery) /\ IsListing(Append(list, one), q)
              ELSE IsListing(list, q)
<1> DEFINE q == Append(p, line)
           n == Len(p) + 1
           one == [at |-> n, line |-> line]
           more == Append(list, one)
<1>1. /\ Len(q) = n /\ n \in Nat /\ q[n] = line
      /\ \A k \in 1 .. Len(p) : q[k] = p[k] /\ k < n
      /\ OwnLines(q) = OwnLines(p) \cup
           (IF line.kind # "blank" /\ ~Inherited(q, n) THEN {n} ELSE {})
      /\ OwnLines(p) \subseteq 1 .. Len(p)
  BY OwnAppend
<1>2. /\ {list[i].at : i \in DOMAIN list} = OwnLines(p)
      /\ \A i \in DOMAIN list : list[i] = [at |-> list[i].at, line |-> p[list[i].at]]
      /\ \A i, j \in DOMAIN list : i < j => list[i].at < list[j].at
  BY DEF IsListing
<1>3. /\ one \in Delivery /\ one.at = n /\ one.line = line
      /\ one = [at |-> n, line |-> line]
  BY DEF Delivery
<1>4. \A i \in DOMAIN list : list[i].at \in 1 .. Len(p)
  BY <1>1, <1>2
<1> HIDE DEF q, n, one
<1>5. /\ more \in Seq(Delivery) /\ DOMAIN more = 1 .. Len(list) + 1
      /\ more[Len(list) + 1] = one /\ DOMAIN list = 1 .. Len(list) /\ Len(list) \in Nat
      /\ \A i \in DOMAIN list : more[i] = list[i]
  BY <1>3
<1> HIDE DEF more
<1>6. \A i \in DOMAIN list : list[i] = [at |-> list[i].at, line |-> q[list[i].at]]
  BY <1>1, <1>2, <1>4
<1>7. CASE n \in OwnLines(q)
  <2>1. OwnLines(q) = OwnLines(p) \cup {n}
    BY <1>1, <1>7
  <2>2. {more[i].at : i \in DOMAIN more} = OwnLines(q)
    <3>1. ASSUME NEW i \in DOMAIN more PROVE more[i].at \in OwnLines(q)
      <4>1. CASE i \in DOMAIN list
        BY <1>2, <1>5, <2>1, <4>1
      <4>2. CASE i = Len(list) + 1
        BY <1>3, <1>5, <2>1, <4>2
      <4> QED BY <1>5, <4>1, <4>2
    <3>2. ASSUME NEW k \in OwnLines(q) PROVE \E i \in DOMAIN more : more[i].at = k
      <4>1. CASE k \in OwnLines(p)
        <5>1. PICK i \in DOMAIN list : list[i].at = k
          BY <1>2, <4>1
        <5> QED BY <1>5, <5>1
      <4>2. CASE k = n
        <5>1. Len(list) + 1 \in DOMAIN more
          BY <1>5
        <5> QED BY <1>3, <1>5, <4>2, <5>1
      <4> QED BY <2>1, <4>1, <4>2
    <3> QED BY <3>1, <3>2
  <2>3. ASSUME NEW i \in DOMAIN more
        PROVE  more[i] = [at |-> more[i].at, line |-> q[more[i].at]]
    <3>1. CASE i \in DOMAIN list
      BY <1>5, <1>6, <3>1
    <3>2. CASE i = Len(list) + 1
      BY <1>1, <1>3, <1>5, <3>2
    <3> QED BY <1>5, <3>1, <3>2
  <2>4. ASSUME NEW i \in DOMAIN more, NEW j \in DOMAIN more, i < j
        PROVE  more[i].at < more[j].at
    <3>1. i \in DOMAIN list
      BY <1>5, <2>4
    <3>2. CASE j \in DOMAIN list
      BY <1>2, <1>5, <2>4, <3>1, <3>2
    <3>3. CASE j = Len(list) + 1
      <4>1. list[i].at < n
        BY <1>1, <1>4, <3>1
      <4> QED BY <1>3, <1>5, <3>1, <3>3, <4>1
    <3> QED BY <1>5, <3>2, <3>3
  <2>5. IsListing(more, q)
    BY <2>2, <2>3, <2>4 DEF IsListing
  <2> QED BY <1>5, <1>7, <2>5 DEF q, n, one, more
<1>8. CASE n \notin OwnLines(q)
  <2>1. OwnLines(q) = OwnLines(p)
    BY <1>1, <1>8
  <2>2. IsListing(list, q)
    BY <1>2, <1>6, <2>1 DEF IsListing
  <2> QED BY <1>8, <2>2 DEF q, n
<1> QED BY <1>7, <1>8

\* There is one last number.
LEMMA LatestIsOne ==
  ASSUME NEW S, S \subseteq Nat, NEW a, NEW b, IsLatest(a, S), IsLatest(b, S)
  PROVE  a = b
<1>1. a \in Nat /\ b \in Nat /\ (a = 0 \/ a \in S) /\ (b = 0 \/ b \in S)
  BY DEF IsLatest
<1>2. (\A k \in S : k <= a) /\ (\A k \in S : k <= b)
  BY DEF IsLatest
<1>3. b \in S => b <= a
  BY <1>2
<1>4. a \in S => a <= b
  BY <1>2
<1> QED BY <1>1, <1>3, <1>4

\* Whatever lines are replayed, the replay ends in a state.
LEMMA ReplayState ==
  ASSUME NEW s, IsState(s), NEW line
  PROVE  IsState(ReplayNext(s, line))
<1>2. IsState(NextLine(s))
  <2> DEFINE t == StateOf(FALSE, s.who, s.observed, s.scope, s.lineNumber + 1,
                          s.lastTimestamp, s.verdict, "nothing")
  <2>1. NextLine(s) = t
    BY LeaveLine, Zenon
  <2>2. IsState(t)
    BY DEF IsState, StateOf
  <2> HIDE DEF t
  <2> QED BY <2>1, <2>2
<1>3. \A reason : IsState(Refused(s, reason))
  <2> TAKE reason
  <2> DEFINE t == StateOf(FALSE, s.who, s.observed, s.scope, s.lineNumber + 1,
                          s.lastTimestamp, reason, "nothing")
  <2>1. Refused(s, reason) = t
    BY LeaveLine, Zenon
  <2>2. IsState(t)
    BY DEF IsState, StateOf
  <2> HIDE DEF t
  <2> QED BY <2>1, <2>2
<1>4. \A who, scope : IsState(Skipped(s, who, scope))
  <2> TAKE who, scope
  <2> DEFINE t == StateOf(FALSE, who, s.observed, scope, s.lineNumber + 1,
                          s.lastTimestamp, s.verdict, "nothing")
  <2>1. Skipped(s, who, scope) = t
    BY LeaveLine, Zenon
  <2>2. IsState(t)
    BY DEF IsState, StateOf
  <2> HIDE DEF t
  <2> QED BY <2>1, <2>2
<1>5. \A who, scope : IsState(Admitted(line, s, who, scope))
  <2> TAKE who, scope
  <2> DEFINE t == StateOf(FALSE, who, s.observed \cup line.claims, scope, s.lineNumber + 1,
                          s.lineNumber + 1, s.verdict, "record")
  <2>1. \A x, w, c :
          Admitted(x, s, w, c) =
            StateOf(FALSE, w, s.observed \cup x.claims, c, s.lineNumber + 1,
                    s.lineNumber + 1, s.verdict, "record")
    BY LeaveLine, Zenon
  <2>2. IsState(t)
    BY DEF IsState, StateOf
  <2>3. Admitted(line, s, who, scope) = t
    BY <2>1, Zenon
  <2> HIDE DEF t
  <2> QED BY <2>2, <2>3
<1>6. \/ ReplayLine(line, s) = Refused(s, "prefix") \/ ReplayLine(line, s) = NextLine(s)
      \/ \E who, scope : \/ ReplayLine(line, s) = Skipped(s, who, scope)
                         \/ ReplayLine(line, s) = Admitted(line, s, who, scope)
  BY DEF ReplayLine
<1>7. IsState(ReplayLine(line, s))
  BY <1>2, <1>3, <1>4, <1>5, <1>6
<1> QED BY <1>7 DEF ReplayNext

LEMMA ReplayedState ==
  ASSUME NEW lines \in Seq(Lines)
  PROVE  IsState(Replayed(lines))
<1>1. PICK f : /\ f[0] = Fresh(NoOwner)
               /\ \A n \in 1 .. Len(lines) : f[n] = ReplayNext(f[n - 1], lines[n])
               /\ Replayed(lines) = f[Len(lines)]
  BY ReplayUnfolds
<1>2. Len(lines) \in Nat
  OBVIOUS
<1> DEFINE S == {n \in Nat : IsState(f[n])}
<1>3. 0 \in S
  <2>1. IsState(Fresh(NoOwner))
    BY ParsedNothing DEF Parsed
  <2> QED BY <1>1, <2>1
<1>4. \A n \in 1 .. Len(lines) : n - 1 \in S => n \in S
  BY <1>1, ReplayState
<1> HIDE DEF S
<1>5. Len(lines) \in S
  <2>1. Len(lines) \in 0 .. Len(lines)
    BY <1>2
  <2> QED BY <1>2, <1>3, <1>4, <2>1, CountTo
<1> QED BY <1>1, <1>5 DEF S

-----------------------------------------------------------------------------
(***************************************************************************)
(* A file and what was seen of it.                                         *)
(***************************************************************************)
LEMMA PrefixIs ==
  ASSUME NEW file \in Seq(Lines), NEW end \in Nat
  PROVE  /\ PrefixOf(file, end) \in Seq(Lines)
         /\ end <= Len(file) => /\ Len(PrefixOf(file, end)) = end
                                /\ \A i \in 1 .. end : PrefixOf(file, end)[i] = file[i]
BY DEF PrefixOf

LEMMA SeenIs ==
  ASSUME NEW file \in Seq(Lines), NEW prefix \in Seq(Lines), Len(prefix) <= Len(file)
  PROVE  PrefixOf(file, Len(prefix)) = prefix <=> \A i \in 1 .. Len(prefix) : file[i] = prefix[i]
<1>1. /\ PrefixOf(file, Len(prefix)) \in Seq(Lines)
      /\ Len(PrefixOf(file, Len(prefix))) = Len(prefix)
      /\ \A i \in 1 .. Len(prefix) : PrefixOf(file, Len(prefix))[i] = file[i]
  <2>1. Len(prefix) \in Nat
    OBVIOUS
  <2> QED BY <2>1, PrefixIs
<1> QED BY <1>1

\* What was seen of a file is still there when the file has only grown.
Grown(file, longer) ==
  Len(file) <= Len(longer) /\ \A i \in 1 .. Len(file) : longer[i] = file[i]

LEMMA GrownKeeps ==
  ASSUME NEW file \in Seq(Lines), NEW longer \in Seq(Lines), Grown(file, longer)
  PROVE  /\ \A end \in 0 .. Len(file) : AnchorAt(longer, end) = AnchorAt(file, end)
         /\ \A prefix \in Seq(Lines) :
              Len(prefix) <= Len(file) /\ PrefixOf(file, Len(prefix)) = prefix =>
                Len(prefix) <= Len(longer) /\ PrefixOf(longer, Len(prefix)) = prefix
<1>1. ASSUME NEW end \in 0 .. Len(file)
      PROVE  AnchorAt(longer, end) = AnchorAt(file, end)
  <2> DEFINE start == IF end > AnchorLength THEN end - AnchorLength + 1 ELSE 1
  <2>1. start \in Nat /\ start >= 1
    OBVIOUS
  <2> HIDE DEF start
  <2>2. SubSeq(longer, start, end) = SubSeq(file, start, end)
    BY <2>1 DEF Grown
  <2> QED BY <2>2 DEF AnchorAt, start
<1>2. ASSUME NEW prefix \in Seq(Lines), Len(prefix) <= Len(file),
             PrefixOf(file, Len(prefix)) = prefix
      PROVE  Len(prefix) <= Len(longer) /\ PrefixOf(longer, Len(prefix)) = prefix
  <2>1. Len(prefix) <= Len(longer)
    BY <1>2 DEF Grown
  <2>2. \A i \in 1 .. Len(prefix) : file[i] = prefix[i]
    BY <1>2, SeenIs
  <2>3. \A i \in 1 .. Len(prefix) : longer[i] = prefix[i]
    BY <1>2, <2>2 DEF Grown
  <2> QED BY <2>1, <2>3, SeenIs
<1> QED BY <1>1, <1>2

LEMMA HalvesType ==
  ASSUME NEW lines \in Seq(Lines)
  PROVE  Halves(lines) \in Seq(Lines)
<1>1. \A i \in 1 .. 2 * Len(lines) : (i + 1) \div 2 \in 1 .. Len(lines)
  OBVIOUS
<1>2. 2 * Len(lines) \in Nat
  OBVIOUS
<1> QED BY <1>1, <1>2 DEF Halves

LEMMA OwnerType ==
  ASSUME NEW lines \in Seq(Lines), lines # <<>> => WellFormed(lines, Expected)
  PROVE  OwnerOf(lines, Asked) \in [owner : Threads \cup {None}, lineage : SUBSET Threads]
<1>1. CASE lines = <<>>
  BY <1>1 DEF OwnerOf, Asked
<1>2. CASE lines # <<>>
  <2>1. DeclaredBefore(lines, Len(lines) + 1) \subseteq Threads
    BY <1>2 DEF DeclaredBefore, WellFormed
  <2> QED BY <1>2, <2>1 DEF OwnerOf
<1> QED BY <1>1, <1>2

-----------------------------------------------------------------------------
(***************************************************************************)
(* The invariant.                                                          *)
(***************************************************************************)
Reasons == ContentReasons \cup ChangeReasons \cup {"deadline-exceeded"}

LEMMA SeenNothing ==
  ASSUME NEW file \in Seq(Lines)
  PROVE  PrefixOf(file, Len(<<>>)) = <<>> /\ Len(<<>>) <= Len(file) /\ AnchorAt(file, 0) = <<>>
BY DEF PrefixOf, AnchorAt

\* What the parts of the invariant say of the types.
LEMMA Parts ==
  ASSUME ReaderInv
  PROVE  /\ TypeOK /\ CursorInv /\ ContentInv /\ GrowthInv /\ ReadsExactly
         /\ RefusesOnlyInvalid /\ ResumeNeverRefused /\ inode <= 1 + tampering
         /\ disk \in Seq(Lines) /\ Len(disk) \in Nat /\ unlinked \in Seq(Lines)
         /\ observed \in Seq(Lines) /\ Len(observed) \in Nat /\ witness \in Seq(Lines)
         /\ inode \in Nat /\ inode >= 1 /\ tampering \in Nat /\ growth \in Nat
         /\ caught \in Nat /\ reads \in 0 .. MaxReads
         /\ fresh \in Seq(Delivery) /\ delivered \in Seq(Delivery)
<1>1. /\ TypeOK /\ CursorInv /\ ContentInv /\ GrowthInv /\ ReadsExactly
      /\ RefusesOnlyInvalid /\ ResumeNeverRefused /\ inode <= 1 + tampering
  BY DEF ReaderInv
<1>2. /\ disk \in Seq(Lines) /\ unlinked \in Seq(Lines) /\ observed \in Seq(Lines)
      /\ witness \in Seq(Lines) /\ inode \in 1..(1 + MaxTampering)
      /\ tampering \in 0..MaxTampering /\ growth \in 0..MaxGrowth /\ caught \in Nat
      /\ reads \in 0 .. MaxReads
      /\ fresh \in Seq([at : Nat, line : Lines]) /\ delivered \in Seq([at : Nat, line : Lines])
  BY <1>1 DEF TypeOK
<1>3. Len(disk) \in Nat /\ Len(observed) \in Nat
  BY <1>2
<1>4. inode \in Nat /\ inode >= 1 /\ tampering \in Nat /\ growth \in Nat
  BY <1>2
<1> QED BY <1>1, <1>2, <1>3, <1>4 DEF Delivery

\* A read that fails is forgotten.
LEMMA FailKeeps ==
  ASSUME ReaderInv, NEW reason \in Reasons, Fail(reason), UNCHANGED world,
         tampering = 0 => reason \notin ChangeReasons,
         reads' \in 0 .. MaxReads, witness' \in Seq(Lines),
         reason \in ContentReasons /\ LinesOf(witness') # <<>> =>
           ~(WellFormed(LinesOf(witness'), Expected) /\ BoundaryReached(LinesOf(witness')))
  PROVE  ReaderInv'
<1>0. /\ TypeOK /\ CursorInv /\ ContentInv /\ GrowthInv /\ ReadsExactly
      /\ RefusesOnlyInvalid /\ ResumeNeverRefused /\ inode <= 1 + tampering
  BY Parts
<1>1. /\ pc' = "idle" /\ outcome' = reason /\ opened' = NotOpen /\ state' = Fresh(NoOwner)
      /\ observed' = <<>> /\ fresh' = <<>> /\ caught' = 0 /\ cursor' = cursor
      /\ delivered' = delivered
      /\ disk' = disk /\ inode' = inode /\ unlinked' = unlinked /\ growth' = growth
      /\ tampering' = tampering
  BY DEF Fail, world
<1>2. TypeOK'
  <2>1. state'.who \in [owner : Threads \cup {None}, lineage : SUBSET Threads]
    BY <1>1 DEF Fresh, NoOwner
  <2>2. <<>> \in Seq(Lines) /\ <<>> \in Seq([at : Nat, line : Lines])
    OBVIOUS
  <2> QED BY <1>0, <1>1, <2>1, <2>2 DEF TypeOK, Reasons
<1>3. CursorInv'
  BY <1>0, <1>1 DEF CursorInv
<1>4. ContentInv'
  BY <1>0, <1>1 DEF ContentInv, Reading
<1>5. GrowthInv'
  <2> SUFFICES ASSUME tampering = 0 PROVE GrowthInv'
    BY <1>1 DEF GrowthInv
  <2>1. disk \in Seq(Lines) /\ Len(disk) \in Nat
    BY Parts
  <2>2. PrefixOf(disk, Len(<<>>)) = <<>> /\ Len(<<>>) <= Len(disk) /\ AnchorAt(disk, 0) = <<>>
    BY <2>1, SeenNothing
  <2>3. opened'.size = 0 /\ opened'.anchor = <<>>
    BY <1>1 DEF NotOpen
  <2> QED BY <1>0, <1>1, <2>1, <2>2, <2>3 DEF GrowthInv, Seen
<1>6. ReadsExactly' /\ RefusesOnlyInvalid' /\ ResumeNeverRefused'
  <2>1. reason # "ok"
    BY DEF Reasons, ContentReasons, ChangeReasons
  <2> QED BY <1>1, <2>1 DEF ReadsExactly, RefusesOnlyInvalid, ResumeNeverRefused
<1> QED BY <1>0, <1>1, <1>2, <1>3, <1>4, <1>5, <1>6 DEF ReaderInv

\* While the file has only grown, a step that leaves what the reader and its
\* caller keep leaves the invariant.
LEMMA GrowKeeps ==
  ASSUME ReaderInv, Grow
  PROVE  ReaderInv'
<1>0. /\ TypeOK /\ CursorInv /\ ContentInv /\ GrowthInv /\ ReadsExactly
      /\ RefusesOnlyInvalid /\ ResumeNeverRefused /\ inode <= 1 + tampering
  BY Parts
<1>1. UNCHANGED <<inode, unlinked, tampering, pc, reading, outcome, caller, witness>>
  BY DEF Grow
<1>2. /\ pc' = pc /\ outcome' = outcome /\ witness' = witness /\ tampering' = tampering
      /\ opened' = opened /\ state' = state /\ observed' = observed /\ fresh' = fresh
      /\ caught' = caught /\ reads' = reads /\ cursor' = cursor /\ delivered' = delivered
      /\ inode' = inode /\ unlinked' = unlinked
  BY <1>1 DEF reading, caller
<1>3. disk' \in Seq(Lines) /\ Grown(disk, disk')
  <2>1. disk \in Seq(Lines) /\ PendingOf(disk) \in Seq(Lines)
    <3>1. disk \in Seq(Lines)
      BY Parts
    <3>2. PendingOf(disk) # <<>> => PendingOf(disk) = <<disk[Len(disk)]>> /\ disk # <<>>
      BY <3>1, PendingFacts DEF PendingOf
    <3>3. disk # <<>> => disk[Len(disk)] \in Lines
      BY <3>1
    <3>4. CASE PendingOf(disk) = <<>>
      BY <3>1, <3>4
    <3>5. CASE PendingOf(disk) # <<>>
      <4>1. <<disk[Len(disk)]>> \in Seq(Lines)
        BY <3>2, <3>3, <3>5
      <4> QED BY <3>1, <3>2, <3>5, <4>1
    <3> QED BY <3>4, <3>5
  <2>2. CASE disk' = disk \o PendingOf(disk)
    BY <2>1, <2>2 DEF Grown
  <2>3. ASSUME NEW line \in Written, disk' \in {Append(disk, line), disk \o <<line, line>>}
        PROVE  disk' \in Seq(Lines) /\ Grown(disk, disk')
    <3>1. line \in Lines /\ <<line, line>> \in Seq(Lines)
      OBVIOUS
    <3>2. CASE disk' = Append(disk, line)
      BY <2>1, <3>1, <3>2 DEF Grown
    <3>3. CASE disk' = disk \o <<line, line>>
      BY <2>1, <3>1, <3>3 DEF Grown
    <3> QED BY <2>3, <3>2, <3>3
  <2> QED BY <2>2, <2>3 DEF Grow
<1>4. TypeOK'
  <2>1. growth' \in 0 .. MaxGrowth
    <3>1. growth \in Nat /\ growth < MaxGrowth /\ growth' = growth + 1
      BY Parts DEF Grow
    <3> QED BY <3>1
  <2> QED BY <1>0, <1>2, <1>3, <2>1 DEF TypeOK
<1>5. CursorInv' /\ ContentInv'
  BY <1>0, <1>2 DEF CursorInv, ContentInv
<1>6. GrowthInv'
  <2> SUFFICES ASSUME tampering = 0 PROVE GrowthInv'
    BY <1>2 DEF GrowthInv
  <2>1. /\ disk \in Seq(Lines) /\ Len(disk) \in Nat /\ Len(disk') \in Nat
        /\ Len(disk) <= Len(disk') /\ caught \in Nat
    <3>1. disk \in Seq(Lines) /\ caught \in Nat
      BY Parts
    <3> QED BY <1>3, <3>1 DEF Grown
  <2>2. /\ \A end \in 0 .. Len(disk) : AnchorAt(disk', end) = AnchorAt(disk, end)
        /\ \A prefix \in Seq(Lines) :
             Len(prefix) <= Len(disk) /\ PrefixOf(disk, Len(prefix)) = prefix =>
               Len(prefix) <= Len(disk') /\ PrefixOf(disk', Len(prefix)) = prefix
    BY <1>3, <2>1, GrownKeeps
  <2>3. observed \in Seq(Lines) /\ (cursor # NoCursor => cursor.prefix \in Seq(Lines))
    BY <1>0 DEF TypeOK, CursorInv
  <2> QED BY <1>0, <1>2, <2>1, <2>2, <2>3 DEF GrowthInv, Seen
<1>7. ReadsExactly' /\ RefusesOnlyInvalid' /\ ResumeNeverRefused'
  BY <1>0, <1>2 DEF ReadsExactly, RefusesOnlyInvalid, ResumeNeverRefused
<1> QED BY <1>0, <1>2, <1>4, <1>5, <1>6, <1>7 DEF ReaderInv

\* After that the file is no longer one that has only grown.
LEMMA TamperKeeps ==
  ASSUME ReaderInv, Rewrite \/ Truncate \/ Replace
  PROVE  ReaderInv'
<1>0. /\ TypeOK /\ CursorInv /\ ContentInv /\ GrowthInv /\ ReadsExactly
      /\ RefusesOnlyInvalid /\ ResumeNeverRefused /\ inode <= 1 + tampering
  BY Parts
<1>1. /\ tampering' = tampering + 1 /\ tampering < MaxTampering
      /\ UNCHANGED <<growth, pc, reading, outcome, caller, witness>>
  BY DEF Rewrite, Truncate, Replace, Tamper
<1>2. /\ pc' = pc /\ outcome' = outcome /\ witness' = witness /\ growth' = growth
      /\ opened' = opened /\ state' = state /\ observed' = observed /\ fresh' = fresh
      /\ caught' = caught /\ reads' = reads /\ cursor' = cursor /\ delivered' = delivered
  BY <1>1 DEF reading, caller
<1>3. /\ disk \in Seq(Lines) /\ unlinked \in Seq(Lines) /\ inode \in Nat /\ inode >= 1
      /\ inode <= 1 + tampering /\ tampering \in Nat
  BY Parts
<1>4. /\ disk' \in Seq(Lines) /\ unlinked' \in Seq(Lines)
      /\ inode' \in Nat /\ inode' >= 1 /\ inode' <= 1 + tampering'
  <2>1. CASE Rewrite
    <3>1. PICK k \in 1..(Len(disk) \div 2), line \in Rewritten :
            disk' = [disk EXCEPT ![2 * k - 1] = line, ![2 * k] = line]
      BY <2>1 DEF Rewrite
    <3>2. line \in Lines
      OBVIOUS
    <3>3. disk' \in Seq(Lines)
      BY <1>3, <3>1, <3>2
    <3> QED BY <1>1, <1>3, <2>1, <3>3 DEF Rewrite
  <2>2. CASE Truncate
    <3>1. disk' \in Seq(Lines)
      BY <1>3, <2>2 DEF Truncate, Front
    <3> QED BY <1>1, <1>3, <2>2, <3>1 DEF Truncate
  <2>3. CASE Replace
    <3>1. disk' \in Seq(Lines)
      BY <2>3, HalvesType DEF Replace
    <3> QED BY <1>1, <1>3, <2>3, <3>1 DEF Replace
  <2> QED BY <2>1, <2>2, <2>3
<1>5. TypeOK'
  <2>1. tampering' \in 0 .. MaxTampering /\ inode' \in 1 .. (1 + MaxTampering)
    BY <1>1, <1>3, <1>4
  <2> QED BY <1>0, <1>2, <1>4, <2>1 DEF TypeOK
<1>6. CursorInv' /\ ContentInv'
  BY <1>0, <1>2 DEF CursorInv, ContentInv
<1>7. tampering' # 0
  BY <1>1, <1>3
<1>8. GrowthInv' /\ ResumeNeverRefused'
  BY <1>7 DEF GrowthInv, ResumeNeverRefused
<1>9. ReadsExactly' /\ RefusesOnlyInvalid'
  BY <1>0, <1>2 DEF ReadsExactly, RefusesOnlyInvalid
<1> QED BY <1>4, <1>5, <1>6, <1>8, <1>9 DEF ReaderInv

\* What the descriptor reads while the file has only grown.
LEMMA DescriptorIs ==
  ASSUME ReaderInv
  PROVE  Descriptor \in Seq(Lines) /\ (tampering = 0 /\ pc # "idle" => Descriptor = disk)
<1>1. disk \in Seq(Lines) /\ unlinked \in Seq(Lines) /\ GrowthInv
  BY Parts
<1> QED BY <1>1 DEF Descriptor, GrowthInv

LEMMA OpenKeeps ==
  ASSUME ReaderInv, Open
  PROVE  ReaderInv'
<1>0. /\ TypeOK /\ CursorInv /\ ContentInv /\ GrowthInv /\ ReadsExactly
      /\ RefusesOnlyInvalid /\ ResumeNeverRefused /\ inode <= 1 + tampering
  BY Parts
<1>1. /\ pc = "idle" /\ reads' = reads + 1 /\ witness' = <<>> /\ UNCHANGED world
      /\ disk \in Seq(Lines) /\ Len(disk) \in Nat
  BY Parts DEF Open
<1>2. reads' \in 0 .. MaxReads
  <2>1. reads \in 0 .. MaxReads /\ tampering \in Nat
    BY Parts
  <2>2. reads + tampering < MaxReads /\ reads' = reads + 1
    BY DEF Open
  <2> QED BY <2>1, <2>2
<1>3. <<>> \in Seq(Lines) /\ LinesOf(<<>>) = <<>>
  BY DEF LinesOf
<1>4. CASE Refusal # ""
  <2>1. Fail(Refusal) /\ Refusal \in {"file-replaced", "file-truncated"}
    BY <1>4 DEF Open, Refusal
  <2>2. tampering # 0
    <3> SUFFICES ASSUME tampering = 0 PROVE FALSE
      OBVIOUS
    <3>1. cursor # NoCursor => cursor.inode = inode /\ cursor.size \in 0 .. Len(disk)
      BY <1>0 DEF GrowthInv
    <3>2. Refusal = ""
      BY <1>1, <3>1 DEF Refusal
    <3> QED BY <1>4, <3>2
  <2>3. Refusal \in Reasons /\ Refusal \notin ContentReasons
    BY <2>1 DEF Reasons, ContentReasons, ChangeReasons
  <2>4. witness' \in Seq(Lines)
    BY <1>1, <1>3
  <2> QED BY <1>1, <1>2, <2>1, <2>2, <2>3, <2>4, FailKeeps
<1>5. CASE Refusal = ""
  <2>1. /\ opened' = [inode |-> inode, size |-> Len(disk), anchor |-> AnchorAt(disk, Len(disk))]
        /\ pc' = (IF cursor = NoCursor THEN "read" ELSE "verify")
        /\ state' = Fresh([owner |-> Expected, lineage |-> {Expected}])
        /\ observed' = <<>> /\ fresh' = <<>> /\ caught' = 0
        /\ outcome' = "" /\ cursor' = cursor /\ delivered' = delivered
    BY <1>5 DEF Open
  <2>2. /\ disk' = disk /\ inode' = inode /\ unlinked' = unlinked /\ growth' = growth
        /\ tampering' = tampering
    BY <1>1 DEF world
  <2>3. TypeOK'
    <3>1. state'.who \in [owner : Threads \cup {None}, lineage : SUBSET Threads]
      BY <2>1 DEF Fresh
    <3>2. <<>> \in Seq([at : Nat, line : Lines])
      OBVIOUS
    <3> QED BY <1>0, <1>1, <1>2, <1>3, <2>1, <2>2, <3>1, <3>2 DEF TypeOK
  <2>4. CursorInv'
    BY <1>0, <2>1 DEF CursorInv
  <2>5. ContentInv'
    <3>1. cursor = NoCursor => delivered = <<>>
      BY <1>0 DEF ContentInv
    <3>2. CASE cursor = NoCursor
      <4>1. Parsed(state', LinesOf(observed'), Asked)
        BY <1>3, <2>1, ParsedNothing DEF Asked
      <4>2. IsListing(delivered' \o fresh', LinesOf(observed'))
        <5>1. <<>> \o <<>> = <<>>
          OBVIOUS
        <5> QED BY <1>3, <2>1, <3>1, <3>2, <5>1, ListingNothing
      <4> QED BY <2>1, <3>1, <3>2, <4>1, <4>2 DEF ContentInv
    <3>3. CASE cursor # NoCursor
      BY <2>1, <3>1, <3>3 DEF ContentInv, Reading
    <3> QED BY <3>2, <3>3
  <2>6. GrowthInv'
    <3> SUFFICES ASSUME tampering = 0 PROVE GrowthInv'
      BY <2>2 DEF GrowthInv
    <3>1. PrefixOf(disk, Len(<<>>)) = <<>> /\ Len(<<>>) <= Len(disk)
      BY <1>1, SeenNothing
    <3>2. Seen(observed)'
      BY <2>1, <2>2, <3>1 DEF Seen
    <3>3. opened'.inode = inode' /\ opened'.size = Len(disk) /\ Len(disk) \in 0 .. Len(disk)
      <4>1. opened'.inode = inode /\ opened'.size = Len(disk)
        BY <2>1
      <4>2. Len(disk) \in 0 .. Len(disk)
        BY <1>1
      <4> QED BY <2>2, <4>1, <4>2
    <3>4. opened'.anchor = AnchorAt(disk, Len(disk))
      BY <2>1
    <3>5. cursor # NoCursor =>
            cursor.inode = inode /\ cursor.size \in 0 .. Len(disk) /\ Seen(cursor.prefix)
      BY <1>0 DEF GrowthInv
    <3> QED BY <1>1, <2>1, <2>2, <3>2, <3>3, <3>4, <3>5 DEF GrowthInv, Seen
  <2>7. ReadsExactly' /\ RefusesOnlyInvalid' /\ ResumeNeverRefused'
    BY <2>1 DEF ReadsExactly, RefusesOnlyInvalid, ResumeNeverRefused, ContentReasons, ChangeReasons
  <2> QED BY <1>0, <2>2, <2>3, <2>4, <2>5, <2>6, <2>7 DEF ReaderInv
<1> QED BY <1>4, <1>5

LEMMA VerifyKeeps ==
  ASSUME ReaderInv, VerifyPrefix
  PROVE  ReaderInv'
<1>0. /\ TypeOK /\ CursorInv /\ ContentInv /\ GrowthInv /\ ReadsExactly
      /\ RefusesOnlyInvalid /\ ResumeNeverRefused /\ inode <= 1 + tampering
  BY Parts
<1>1. /\ pc = "verify" /\ UNCHANGED world /\ reads' = reads /\ witness' = witness
      /\ reads \in 0 .. MaxReads /\ witness \in Seq(Lines)
  BY Parts DEF VerifyPrefix
<1>2. /\ cursor # NoCursor /\ cursor.prefix \in Seq(Lines)
      /\ cursor.offset = Len(cursor.prefix) /\ fresh = <<>>
  BY <1>0, <1>1 DEF ContentInv, CursorInv
<1> DEFINE end == cursor.offset
<1>3. /\ Descriptor \in Seq(Lines)
      /\ tampering = 0 => Descriptor = disk /\ end <= Len(disk) /\ PrefixOf(disk, end) = cursor.prefix
  <2>1. tampering = 0 => Seen(cursor.prefix)
    BY <1>0, <1>2 DEF GrowthInv
  <2> QED BY <1>1, <1>2, <2>1, DescriptorIs DEF Seen
<1>4. ASSUME NEW reason \in {"unreadable", "file-replaced"}, Fail(reason), tampering # 0
      PROVE  ReaderInv'
  <2>1. reason \in Reasons /\ reason \notin ContentReasons
    BY DEF Reasons, ContentReasons, ChangeReasons
  <2> QED BY <1>1, <1>4, <2>1, FailKeeps
<1>5. CASE Len(Descriptor) < end
  <2>1. Fail("unreadable")
    BY <1>5 DEF VerifyPrefix
  <2>2. tampering # 0
    <3>1. Len(Descriptor) \in Nat /\ end \in Nat
      BY <1>2, <1>3
    <3> QED BY <1>3, <1>5, <3>1
  <2> QED BY <1>4, <2>1, <2>2
<1>6. CASE ~(Len(Descriptor) < end) /\ PrefixOf(Descriptor, end) # cursor.prefix
  <2>1. Fail("file-replaced") /\ tampering # 0
    BY <1>3, <1>6 DEF VerifyPrefix
  <2> QED BY <1>4, <2>1
<1>7. CASE ~(Len(Descriptor) < end) /\ PrefixOf(Descriptor, end) = cursor.prefix
  <2>1. /\ pc' = "replay" /\ observed' = cursor.prefix
        /\ opened' = opened /\ state' = state /\ fresh' = fresh /\ caught' = caught
        /\ outcome' = outcome /\ cursor' = cursor /\ delivered' = delivered
    BY <1>7 DEF VerifyPrefix
  <2>2. /\ disk' = disk /\ inode' = inode /\ unlinked' = unlinked /\ growth' = growth
        /\ tampering' = tampering
    BY <1>1 DEF world
  <2>3. TypeOK'
    BY <1>0, <1>1, <1>2, <2>1, <2>2 DEF TypeOK
  <2>4. CursorInv'
    BY <1>0, <2>1 DEF CursorInv
  <2>5. ContentInv'
    BY <1>0, <1>1, <1>2, <2>1 DEF ContentInv, Reading
  <2>6. GrowthInv'
    BY <1>0, <1>1, <1>2, <2>1, <2>2 DEF GrowthInv, Seen
  <2>7. ReadsExactly' /\ RefusesOnlyInvalid' /\ ResumeNeverRefused'
    BY <1>0, <2>1, <2>2 DEF ReadsExactly, RefusesOnlyInvalid, ResumeNeverRefused
  <2> QED BY <1>0, <2>2, <2>3, <2>4, <2>5, <2>6, <2>7 DEF ReaderInv
<1> QED BY <1>5, <1>6, <1>7

LEMMA EndKeeps ==
  ASSUME ReaderInv, EndOfFile
  PROVE  ReaderInv'
<1>0. /\ TypeOK /\ CursorInv /\ ContentInv /\ GrowthInv /\ ReadsExactly
      /\ RefusesOnlyInvalid /\ ResumeNeverRefused /\ inode <= 1 + tampering
  BY Parts
<1>1. /\ pc = "read" /\ pc' = "recheck" /\ outcome' = outcome /\ witness' = witness
      /\ opened' = opened /\ state' = state /\ observed' = observed /\ fresh' = fresh
      /\ caught' = caught /\ reads' = reads /\ cursor' = cursor /\ delivered' = delivered
      /\ disk' = disk /\ inode' = inode /\ unlinked' = unlinked /\ growth' = growth
      /\ tampering' = tampering
  BY DEF EndOfFile, world, reading, caller
<1>2. TypeOK' /\ CursorInv'
  BY <1>0, <1>1 DEF TypeOK, CursorInv
<1>3. ContentInv'
  BY <1>0, <1>1 DEF ContentInv, Reading
<1>4. GrowthInv'
  BY <1>0, <1>1 DEF GrowthInv, Seen
<1>5. ReadsExactly' /\ RefusesOnlyInvalid' /\ ResumeNeverRefused'
  BY <1>0, <1>1 DEF ReadsExactly, RefusesOnlyInvalid, ResumeNeverRefused
<1> QED BY <1>0, <1>1, <1>2, <1>3, <1>4, <1>5 DEF ReaderInv

LEMMA DeadlineKeeps ==
  ASSUME ReaderInv, Deadline
  PROVE  ReaderInv'
<1>1. /\ Fail("deadline-exceeded") /\ UNCHANGED world /\ reads' = reads /\ witness' = witness
      /\ reads \in 0 .. MaxReads /\ witness \in Seq(Lines)
  BY Parts DEF Deadline
<1>2. /\ "deadline-exceeded" \in Reasons /\ "deadline-exceeded" \notin ChangeReasons
      /\ "deadline-exceeded" \notin ContentReasons
  BY DEF Reasons, ChangeReasons, ContentReasons
<1> QED BY <1>1, <1>2, FailKeeps

LEMMA StartOverKeeps ==
  ASSUME ReaderInv, StartOver
  PROVE  ReaderInv'
<1>0. /\ TypeOK /\ CursorInv /\ ContentInv /\ GrowthInv /\ ReadsExactly
      /\ RefusesOnlyInvalid /\ ResumeNeverRefused /\ inode <= 1 + tampering
  BY Parts
<1>1. /\ pc = "idle" /\ pc' = pc /\ outcome' = "" /\ witness' = witness
      /\ opened' = opened /\ state' = state /\ observed' = observed /\ fresh' = fresh
      /\ caught' = caught /\ reads' = reads /\ cursor' = NoCursor /\ delivered' = <<>>
      /\ disk' = disk /\ inode' = inode /\ unlinked' = unlinked /\ growth' = growth
      /\ tampering' = tampering
  BY DEF StartOver, world, reading
<1>2. TypeOK'
  <2>1. <<>> \in Seq([at : Nat, line : Lines])
    OBVIOUS
  <2> QED BY <1>0, <1>1, <2>1 DEF TypeOK
<1>3. CursorInv'
  BY <1>1 DEF CursorInv
<1>4. ContentInv'
  BY <1>0, <1>1 DEF ContentInv, Reading
<1>5. GrowthInv'
  BY <1>0, <1>1 DEF GrowthInv, Seen
<1>6. ReadsExactly' /\ RefusesOnlyInvalid' /\ ResumeNeverRefused'
  BY <1>1 DEF ReadsExactly, RefusesOnlyInvalid, ResumeNeverRefused, ContentReasons, ChangeReasons
<1> QED BY <1>0, <1>1, <1>2, <1>3, <1>4, <1>5, <1>6 DEF ReaderInv

\* Recheck: the last look at the descriptor.
LEMMA RecheckKeeps ==
  ASSUME ReaderInv, Recheck
  PROVE  ReaderInv'
<1>0. /\ TypeOK /\ CursorInv /\ ContentInv /\ GrowthInv /\ ReadsExactly
      /\ RefusesOnlyInvalid /\ ResumeNeverRefused /\ inode <= 1 + tampering
  BY Parts
<1>1. /\ pc = "recheck" /\ UNCHANGED world /\ reads' = reads /\ reads \in 0 .. MaxReads
      /\ observed \in Seq(Lines) /\ Len(observed) \in Nat
      /\ witness' = PrefixOf(Descriptor, Len(observed))
  BY Parts DEF Recheck
<1>2. /\ Descriptor \in Seq(Lines) /\ Len(Descriptor) \in Nat /\ witness' \in Seq(Lines)
      /\ tampering = 0 => Descriptor = disk
  BY <1>1, DescriptorIs, PrefixIs
<1>3. tampering = 0 => /\ ~(Len(Descriptor) < opened.size \/ Len(Descriptor) < Len(observed))
                       /\ Unchanged
  <2> SUFFICES ASSUME tampering = 0
               PROVE  /\ ~(Len(Descriptor) < opened.size \/ Len(Descriptor) < Len(observed))
                      /\ Unchanged
    OBVIOUS
  <2>1. /\ Seen(observed) /\ opened.size \in 0 .. Len(disk)
        /\ opened.anchor = AnchorAt(disk, opened.size) /\ Descriptor = disk
    BY <1>0, <1>2 DEF GrowthInv
  <2> QED BY <1>1, <1>2, <2>1 DEF Seen, Unchanged
<1>4. ASSUME NEW reason \in {"file-truncated", "file-replaced"}, Fail(reason), tampering # 0
      PROVE  ReaderInv'
  <2>1. reason \in Reasons /\ reason \notin ContentReasons
    BY DEF Reasons, ContentReasons, ChangeReasons
  <2> QED BY <1>1, <1>2, <1>4, <2>1, FailKeeps
<1>5. CASE Len(Descriptor) < opened.size \/ Len(Descriptor) < Len(observed)
  <2>1. Fail("file-truncated") /\ tampering # 0
    BY <1>3, <1>5 DEF Recheck
  <2> QED BY <1>4, <2>1
<1>6. CASE ~(Len(Descriptor) < opened.size \/ Len(Descriptor) < Len(observed)) /\ ~Unchanged
  <2>1. Fail("file-replaced") /\ tampering # 0
    BY <1>3, <1>6 DEF Recheck
  <2> QED BY <1>4, <2>1
<1>7. CASE ~(Len(Descriptor) < opened.size \/ Len(Descriptor) < Len(observed)) /\ Unchanged
  <2>1. /\ pc' = "path" /\ caught' = Len(Descriptor)
        /\ opened' = opened /\ state' = state /\ observed' = observed /\ fresh' = fresh
        /\ outcome' = outcome /\ cursor' = cursor /\ delivered' = delivered
    BY <1>7 DEF Recheck
  <2>2. /\ disk' = disk /\ inode' = inode /\ unlinked' = unlinked /\ growth' = growth
        /\ tampering' = tampering
    BY <1>1 DEF world
  <2>3. witness' = observed
    BY <1>1, <1>7 DEF Unchanged
  <2>4. TypeOK'
    BY <1>0, <1>1, <1>2, <2>1, <2>2 DEF TypeOK
  <2>5. CursorInv'
    BY <1>0, <2>1 DEF CursorInv
  <2>6. ContentInv'
    BY <1>0, <1>1, <2>1, <2>3 DEF ContentInv, Reading
  <2>7. GrowthInv'
    <3> SUFFICES ASSUME tampering = 0 PROVE GrowthInv'
      BY <2>2 DEF GrowthInv
    <3>1. caught' <= Len(disk)
      BY <1>2, <2>1
    <3> QED BY <1>0, <1>1, <2>1, <2>2, <3>1 DEF GrowthInv, Seen
  <2>8. ReadsExactly' /\ RefusesOnlyInvalid' /\ ResumeNeverRefused'
    BY <1>0, <2>1, <2>2 DEF ReadsExactly, RefusesOnlyInvalid, ResumeNeverRefused
  <2> QED BY <1>0, <2>2, <2>4, <2>5, <2>6, <2>7, <2>8 DEF ReaderInv
<1> QED BY <1>5, <1>6, <1>7

\* The scope is settled when the inherited part is complete.
LEMMA ScopeSettles ==
  ASSUME NEW lines, lines # <<>>, forkHistoryStateValid(ScopeOf(lines))
  PROVE  BoundaryKnown(ScopeOf(lines)) <=> BoundaryReached(lines)
<1>1. CASE ~Ordinal(lines)
  <2>1. ScopeOf(lines) = NonFork /\ NonFork.mode = "nonfork" /\ BoundaryReached(lines)
    BY <1>1 DEF ScopeOf, NonFork, NoScope, BoundaryReached
  <2> QED BY <2>1 DEF BoundaryKnown
<1>2. CASE Ordinal(lines)
  <2>1. /\ ScopeOf(lines).mode = "producer-ordinal"
        /\ ScopeOf(lines).seen = BoundaryReached(lines)
    BY <1>2 DEF ScopeOf
  <2> QED BY <2>1, Zenon DEF BoundaryKnown
<1> QED BY <1>1, <1>2

\* CheckPath: the last look at the path, and the cursor of a good read.
LEMMA PathKeeps ==
  ASSUME ReaderInv, CheckPath
  PROVE  ReaderInv'
<1>0. /\ TypeOK /\ CursorInv /\ ContentInv /\ GrowthInv /\ ReadsExactly
      /\ RefusesOnlyInvalid /\ ResumeNeverRefused /\ inode <= 1 + tampering
  BY Parts
<1>1. /\ pc = "path" /\ UNCHANGED world /\ reads' = reads /\ reads \in 0 .. MaxReads
      /\ witness' = witness /\ witness \in Seq(Lines)
      /\ observed \in Seq(Lines) /\ Len(observed) \in Nat
  BY Parts DEF CheckPath
<1> DEFINE lines == LinesOf(observed)
<1>2. /\ witness = observed /\ lines \in Seq(Lines) /\ Parsed(state, lines, Asked)
      /\ IsListing(delivered \o fresh, lines)
  BY <1>0, <1>1, LinesOfType DEF ContentInv, Reading
<1>3. /\ Keeps(state, lines, Asked) /\ state.first \in BOOLEAN /\ (state.first <=> lines = <<>>)
      /\ state.scope = ScopeOf(lines)
      /\ lines # <<>> => WellFormed(lines, Expected) /\ forkHistoryStateValid(ScopeOf(lines))
  BY <1>2 DEF Parsed, Keeps
<1>4. lines # <<>> => (BoundaryKnown(ScopeOf(lines)) <=> BoundaryReached(lines))
  BY <1>3, ScopeSettles
<1>5. LinesOf(<<>>) = <<>>
  BY DEF LinesOf
<1>6. CASE FinalRefusal # ""
  <2>1. Fail(FinalRefusal)
    BY <1>6 DEF CheckPath
  <2>2. FinalRefusal \in ChangeReasons \cup
          {"rollout-owner-missing", "rollout-history-boundary-invalid"}
    BY <1>6 DEF FinalRefusal, ChangeReasons
  <2>3. FinalRefusal \in Reasons
    BY <2>2 DEF Reasons, ContentReasons
  <2>4. ASSUME tampering = 0 PROVE FinalRefusal \notin ChangeReasons
    <3>1. inode = opened.inode /\ caught <= Len(disk) /\ Len(observed) <= Len(disk)
      BY <1>0, <1>1, <2>4 DEF GrowthInv, Seen
    <3>2. caught \in Nat /\ Len(disk) \in Nat
      BY Parts
    <3> QED BY <1>1, <3>1, <3>2 DEF FinalRefusal, ChangeReasons
  <2>5. ASSUME FinalRefusal \in ContentReasons, lines # <<>>
        PROVE  ~BoundaryReached(lines)
    <3>1. observed # <<>>
      BY <1>5, <2>5
    <3>2. ~ScopeSettled(state.scope)
      BY <2>5, <3>1 DEF FinalRefusal, ContentReasons
    <3> QED BY <1>3, <1>4, <2>5, <3>2 DEF ScopeSettled
  <2>6. FinalRefusal \in ContentReasons /\ LinesOf(witness') # <<>> =>
          ~(WellFormed(LinesOf(witness'), Expected) /\ BoundaryReached(LinesOf(witness')))
    BY <1>1, <1>2, <2>5
  <2>7. reads' \in 0 .. MaxReads /\ witness' \in Seq(Lines)
    BY <1>1
  <2> HIDE DEF lines
  <2> QED BY <1>1, <2>1, <2>3, <2>4, <2>6, <2>7, FailKeeps
<1>7. CASE FinalRefusal = ""
  <2>1. /\ pc' = "idle" /\ outcome' = "ok" /\ opened' = NotOpen /\ state' = Fresh(NoOwner)
        /\ observed' = <<>> /\ fresh' = <<>> /\ caught' = 0 /\ delivered' = delivered \o fresh
        /\ cursor' = [inode |-> inode, size |-> Len(disk), offset |-> Len(observed),
                      prefix |-> observed, pending |-> PendingOf(observed),
                      lineNumber |-> state.lineNumber, first |-> state.first,
                      lastTimestamp |-> state.lastTimestamp,
                      scope |-> state.scope, who |-> state.who]
    BY <1>7 DEF CheckPath
  <2>2. /\ disk' = disk /\ inode' = inode /\ unlinked' = unlinked /\ growth' = growth
        /\ tampering' = tampering
    BY <1>1 DEF world
  <2>3. /\ cursor'.inode = inode /\ cursor'.size = Len(disk) /\ cursor'.offset = Len(observed)
        /\ cursor'.prefix = observed /\ cursor'.pending = PendingOf(observed)
        /\ cursor'.lineNumber = state.lineNumber /\ cursor'.lastTimestamp = state.lastTimestamp
        /\ cursor'.scope = state.scope /\ cursor'.who = state.who
    BY <2>1
  <2>4. cursor'.first = state.first
    BY <2>1, Zenon
  <2>5. cursor' # NoCursor
    <3>1. inode >= 1 /\ inode \in Nat
      BY Parts
    <3>2. NoCursor.inode = 0
      BY DEF NoCursor
    <3> QED BY <2>3, <3>1, <3>2
  <2>6. lines # <<>> => BoundaryReached(lines)
    <3>1. ASSUME lines # <<>> PROVE ScopeSettled(state.scope)
      <4>1. observed # <<>> /\ ~state.first
        BY <1>3, <1>5, <3>1
      <4> QED BY <1>7, <4>1 DEF FinalRefusal
    <3> QED BY <1>3, <1>4, <3>1 DEF ScopeSettled
  <2>7. delivered' \in Seq([at : Nat, line : Lines])
    <3>1. delivered \in Seq(Delivery) /\ fresh \in Seq(Delivery)
      BY Parts
    <3> QED BY <2>1, <3>1 DEF Delivery
  <2>8. TypeOK'
    <3>1. state'.who \in [owner : Threads \cup {None}, lineage : SUBSET Threads]
      BY <2>1 DEF Fresh, NoOwner
    <3>2. <<>> \in Seq(Lines) /\ <<>> \in Seq([at : Nat, line : Lines])
      OBVIOUS
    <3> QED BY <1>0, <1>1, <2>1, <2>2, <2>7, <3>1, <3>2 DEF TypeOK
  <2>9. CursorInv'
    <3>1. Keeps(cursor', lines, Asked)
      <4> HIDE DEF lines
      <4> QED BY <1>3, <2>3, <2>4 DEF Keeps
    <3> QED BY <1>1, <1>2, <2>1, <2>3, <2>6, <3>1 DEF CursorInv
  <2>10. ContentInv'
    BY <2>1, <2>5 DEF ContentInv, Reading
  <2>11. GrowthInv'
    <3> SUFFICES ASSUME tampering = 0 PROVE GrowthInv'
      BY <2>2 DEF GrowthInv
    <3>1. disk \in Seq(Lines) /\ Len(disk) \in Nat
      BY Parts
    <3>2. PrefixOf(disk, Len(<<>>)) = <<>> /\ Len(<<>>) <= Len(disk) /\ AnchorAt(disk, 0) = <<>>
      BY <3>1, SeenNothing
    <3>3. opened'.size = 0 /\ opened'.anchor = <<>>
      BY <2>1 DEF NotOpen
    <3>4. Seen(observed)
      BY <1>0 DEF GrowthInv
    <3> QED BY <2>1, <2>2, <2>3, <3>1, <3>2, <3>3, <3>4 DEF GrowthInv, Seen
  <2>12. ReadsExactly'
    BY <1>1, <1>2, <1>3, <2>1, <2>6 DEF ReadsExactly
  <2>13. RefusesOnlyInvalid' /\ ResumeNeverRefused'
    BY <2>1 DEF RefusesOnlyInvalid, ResumeNeverRefused, ContentReasons, ChangeReasons
  <2> QED BY <1>0, <2>2, <2>8, <2>9, <2>10, <2>11, <2>12, <2>13 DEF ReaderInv
<1> QED BY <1>6, <1>7

\* Replay: the consumed prefix once more, from nothing.
LEMMA ReplayedFields ==
  ASSUME NEW s, IsState(s), NEW who
  PROVE  [s EXCEPT !.who = who, !.observed = {}, !.out = "nothing"] =
           StateOf(s.first, who, {}, s.scope, s.lineNumber, s.lastTimestamp, s.verdict, "nothing")
<1> DEFINE a == s.first
           d == s.scope
           n == s.lineNumber
           f == s.lastTimestamp
           g == s.verdict
<1>1. s = StateOf(a, s.who, s.observed, d, n, f, g, s.out)
  BY DEF IsState, StateOf
<1> HIDE DEF a, d, n, f, g
<1>2. PICK none : none = {}
  OBVIOUS
<1>3. [s EXCEPT !.who = who] = StateOf(a, who, s.observed, d, n, f, g, s.out)
  BY <1>1 DEF StateOf
<1>4. [StateOf(a, who, s.observed, d, n, f, g, s.out) EXCEPT !.observed = none] =
        StateOf(a, who, none, d, n, f, g, s.out)
  BY DEF StateOf
<1>5. [StateOf(a, who, none, d, n, f, g, s.out) EXCEPT !.out = "nothing"] =
        StateOf(a, who, none, d, n, f, g, "nothing")
  BY DEF StateOf
<1>6. [s EXCEPT !.who = who, !.observed = none, !.out = "nothing"] =
        StateOf(a, who, none, d, n, f, g, "nothing")
  BY <1>3, <1>4, <1>5
<1> QED BY <1>2, <1>6 DEF a, d, n, f, g

\* A replay of the lines of the cursor agrees with it.
LEMMA ReplayAgrees ==
  ASSUME ReaderInv, cursor # NoCursor
  PROVE  LET replay == Replayed(LinesOf(cursor.prefix))
         IN ReplayCompletes(replay) /\ CursorMatches(replay, PendingOf(cursor.prefix))
<1> DEFINE lines == LinesOf(cursor.prefix)
           replay == Replayed(lines)
<1>1. /\ cursor.prefix \in Seq(Lines) /\ cursor.pending = PendingOf(cursor.prefix)
      /\ Keeps(cursor, lines, Asked) /\ (lines # <<>> => BoundaryReached(lines))
  BY Parts DEF CursorInv
<1>2. lines \in Seq(Lines)
  BY <1>1, LinesOfType
<1>3. /\ cursor.lineNumber = Len(lines) /\ (cursor.first <=> lines = <<>>)
      /\ cursor.first \in BOOLEAN /\ cursor.who = OwnerOf(lines, Asked)
      /\ cursor.scope = ScopeOf(lines)
      /\ IsLatest(cursor.lastTimestamp, Records(lines) \cap OwnLines(lines))
      /\ lines # <<>> => WellFormed(lines, Expected) /\ forkHistoryStateValid(ScopeOf(lines))
  BY <1>1 DEF Keeps
<1>4. Parsed(replay, lines, NoOwner)
  BY <1>2, <1>3, ReplayedIs
<1> HIDE DEF lines, replay
<1>5. /\ replay.lineNumber = Len(lines) /\ (replay.first <=> lines = <<>>)
      /\ replay.first \in BOOLEAN /\ replay.who = OwnerOf(lines, NoOwner)
      /\ replay.scope = ScopeOf(lines) /\ replay.verdict = ""
      /\ IsLatest(replay.lastTimestamp, Records(lines) \cap OwnLines(lines))
  BY <1>4 DEF Parsed, Keeps
<1>6. ReplayCompletes(replay)
  <2>1. CASE lines = <<>>
    BY <1>5, <2>1 DEF ReplayCompletes
  <2>2. CASE lines # <<>>
    <3>1. BoundaryKnown(ScopeOf(lines))
      BY <1>1, <1>3, <2>2, ScopeSettles DEF lines
    <3> QED BY <1>5, <3>1 DEF ReplayCompletes
  <2> QED BY <2>1, <2>2
<1>7. cursor.lastTimestamp = replay.lastTimestamp
  <2>1. Records(lines) \cap OwnLines(lines) \subseteq Nat
    BY <1>2 DEF Records
  <2> QED BY <1>3, <1>5, <2>1, LatestIsOne
<1>8. cursor.who = ReplayedOwner(replay)
  <2>1. CASE lines = <<>>
    BY <1>3, <1>5, <2>1 DEF ReplayedOwner, OwnerOf, Asked
  <2>2. CASE lines # <<>>
    BY <1>3, <1>5, <2>2 DEF ReplayedOwner, OwnerOf
  <2> QED BY <2>1, <2>2
<1>9. cursor.first = replay.first
  BY <1>3, <1>5, Zenon
<1>10. CursorMatches(replay, PendingOf(cursor.prefix))
  BY <1>1, <1>3, <1>5, <1>7, <1>8, <1>9, Zenon DEF CursorMatches
<1> QED BY <1>6, <1>10 DEF lines, replay

LEMMA ReplayKeeps ==
  ASSUME ReaderInv, Replay
  PROVE  ReaderInv'
<1>0. /\ TypeOK /\ CursorInv /\ ContentInv /\ GrowthInv /\ ReadsExactly
      /\ RefusesOnlyInvalid /\ ResumeNeverRefused /\ inode <= 1 + tampering
  BY Parts
<1>1. /\ pc = "replay" /\ UNCHANGED world /\ reads' = reads /\ witness' = witness
      /\ reads \in 0 .. MaxReads /\ witness \in Seq(Lines)
  BY Parts DEF Replay
<1> DEFINE end == cursor.offset
           prefix == PrefixOf(Descriptor, end)
           replay == Replayed(LinesOf(prefix))
           lines == LinesOf(cursor.prefix)
<1>2. /\ cursor # NoCursor /\ cursor.prefix \in Seq(Lines) /\ observed = cursor.prefix
      /\ end = Len(cursor.prefix) /\ end \in Nat /\ fresh = <<>>
      /\ Keeps(cursor, lines, Asked) /\ IsListing(delivered, lines)
  BY <1>0, <1>1 DEF ContentInv, CursorInv
<1>3. /\ Descriptor \in Seq(Lines) /\ prefix \in Seq(Lines) /\ LinesOf(prefix) \in Seq(Lines)
      /\ lines \in Seq(Lines) /\ IsState(replay)
  BY <1>2, DescriptorIs, PrefixIs, LinesOfType, ReplayedState
<1>4. tampering = 0 => end <= Len(Descriptor) /\ prefix = cursor.prefix
  <2>1. tampering = 0 => Seen(cursor.prefix) /\ Descriptor = disk
    BY <1>0, <1>1, <1>2, DescriptorIs DEF GrowthInv
  <2> QED BY <1>2, <2>1 DEF Seen
<1>5. ASSUME NEW reason \in {"unreadable", "invalid-cursor"}, Fail(reason), tampering # 0
      PROVE  ReaderInv'
  <2>1. reason \in Reasons /\ reason \notin ContentReasons
    BY DEF Reasons, ContentReasons, ChangeReasons
  <2> QED BY <1>1, <1>5, <2>1, FailKeeps
<1>6. CASE Len(Descriptor) < end
  <2>1. Fail("unreadable")
    BY <1>6 DEF Replay
  <2>2. tampering # 0
    <3>1. Len(Descriptor) \in Nat
      BY <1>3
    <3> QED BY <1>2, <1>4, <1>6, <3>1
  <2> QED BY <1>5, <2>1, <2>2
<1>7. CASE ~(Len(Descriptor) < end) /\
           ~(ReplayCompletes(replay) /\ CursorMatches(replay, PendingOf(prefix)))
  <2>1. Fail("invalid-cursor")
    BY <1>7 DEF Replay
  <2>2. ReplayCompletes(Replayed(lines)) /\
        CursorMatches(Replayed(lines), PendingOf(cursor.prefix))
    BY <1>2, ReplayAgrees
  <2>3. tampering # 0
    BY <1>4, <1>7, <2>2
  <2> QED BY <1>5, <2>1, <2>3
<1>8. CASE ~(Len(Descriptor) < end) /\
           (ReplayCompletes(replay) /\ CursorMatches(replay, PendingOf(prefix)))
  <2>1. /\ pc' = "read"
        /\ state' = [replay EXCEPT !.who = ReplayedOwner(replay),
                                   !.observed = {}, !.out = "nothing"]
        /\ opened' = opened /\ observed' = observed /\ fresh' = fresh /\ caught' = caught
        /\ outcome' = outcome /\ cursor' = cursor /\ delivered' = delivered
    BY <1>8 DEF Replay
  <2>2. /\ disk' = disk /\ inode' = inode /\ unlinked' = unlinked /\ growth' = growth
        /\ tampering' = tampering
    BY <1>1 DEF world
  <2>3. /\ cursor.lineNumber = replay.lineNumber /\ cursor.lastTimestamp = replay.lastTimestamp
        /\ cursor.first = replay.first /\ cursor.scope = replay.scope
        /\ cursor.who = ReplayedOwner(replay) /\ replay.verdict = ""
    BY <1>8, Zenon DEF CursorMatches, ReplayCompletes
  <2> HIDE DEF end, prefix, replay, lines
  <2>4. state' = StateOf(replay.first, ReplayedOwner(replay), {}, replay.scope,
                         replay.lineNumber, replay.lastTimestamp, replay.verdict, "nothing")
    BY <1>3, <2>1, ReplayedFields
  <2>5. /\ state'.lineNumber = cursor.lineNumber /\ state'.lastTimestamp = cursor.lastTimestamp
        /\ state'.scope = cursor.scope /\ state'.who = cursor.who /\ state'.verdict = ""
        /\ state'.observed = {}
    BY <2>3, <2>4 DEF StateOf
  <2>6. state'.first = cursor.first
    BY <2>3, <2>4, Zenon DEF StateOf
  <2>7. IsState(state')
    <3> DEFINE t == StateOf(replay.first, ReplayedOwner(replay), {}, replay.scope,
                            replay.lineNumber, replay.lastTimestamp, replay.verdict, "nothing")
    <3>1. IsState(t)
      BY DEF IsState, StateOf
    <3> HIDE DEF t
    <3>2. state' = t
      BY <2>4 DEF t
    <3> QED BY <3>1, <3>2
  <2>8. Parsed(state', lines, Asked)
    <3>1. Keeps(state', lines, Asked)
      BY <1>2, <2>5, <2>6 DEF Keeps
    <3> QED BY <2>5, <2>7, <3>1 DEF Parsed
  <2>9. TypeOK'
    <3>1. cursor.who = OwnerOf(lines, Asked) /\ (lines # <<>> => WellFormed(lines, Expected))
      BY <1>2 DEF Keeps
    <3>2. state'.who \in [owner : Threads \cup {None}, lineage : SUBSET Threads]
      BY <1>3, <2>5, <3>1, OwnerType
    <3> QED BY <1>0, <1>1, <2>1, <2>2, <3>2 DEF TypeOK
  <2>10. CursorInv'
    BY <1>0, <2>1 DEF CursorInv
  <2>11. ContentInv'
    <3>1. IsListing(delivered' \o fresh', lines)
      <4>1. delivered \in Seq(Delivery)
        BY Parts
      <4>2. delivered \o <<>> = delivered
        BY <4>1
      <4> QED BY <1>2, <2>1, <4>2
    <3>2. lines = LinesOf(observed')
      BY <1>2, <2>1 DEF lines
    <3> QED BY <1>2, <2>1, <2>8, <3>1, <3>2 DEF ContentInv
  <2>12. GrowthInv'
    BY <1>0, <1>1, <2>1, <2>2 DEF GrowthInv, Seen
  <2>13. ReadsExactly' /\ RefusesOnlyInvalid' /\ ResumeNeverRefused'
    BY <1>0, <2>1, <2>2 DEF ReadsExactly, RefusesOnlyInvalid, ResumeNeverRefused
  <2> QED BY <1>0, <2>2, <2>9, <2>10, <2>11, <2>12, <2>13 DEF ReaderInv
<1> QED BY <1>6, <1>7, <1>8

\* ReadHalf: a half line more that the read does not refuse.
LEMMA ReadOn ==
  ASSUME ReaderInv, pc = "read", NEW half \in Lines, Len(observed) < Len(Descriptor),
         half = Descriptor[Len(observed) + 1], observed' = Append(observed, half),
         Parsed(state', LinesOf(observed'), Asked), fresh' \in Seq(Delivery),
         IsListing(delivered \o fresh', LinesOf(observed')),
         UNCHANGED <<pc, opened, caught, outcome, cursor, delivered, witness, world, reads>>
  PROVE  ReaderInv'
<1>0. /\ TypeOK /\ CursorInv /\ ContentInv /\ GrowthInv /\ ReadsExactly
      /\ RefusesOnlyInvalid /\ ResumeNeverRefused /\ inode <= 1 + tampering
  BY Parts
<1>1. /\ observed \in Seq(Lines) /\ Len(observed) \in Nat /\ observed' \in Seq(Lines)
      /\ Len(observed') = Len(observed) + 1 /\ observed'[Len(observed) + 1] = half
      /\ \A i \in 1 .. Len(observed) : observed'[i] = observed[i]
  <2>1. observed \in Seq(Lines) /\ Len(observed) \in Nat
    BY Parts
  <2> QED BY <2>1
<1>2. /\ disk' = disk /\ inode' = inode /\ unlinked' = unlinked /\ growth' = growth
      /\ tampering' = tampering /\ pc' = pc /\ opened' = opened /\ caught' = caught
      /\ outcome' = outcome /\ cursor' = cursor /\ delivered' = delivered
      /\ witness' = witness /\ reads' = reads
  BY DEF world
<1>3. TypeOK'
  <2>1. /\ state'.who = OwnerOf(LinesOf(observed'), Asked)
        /\ LinesOf(observed') # <<>> => WellFormed(LinesOf(observed'), Expected)
    BY DEF Parsed, Keeps
  <2>2. state'.who \in [owner : Threads \cup {None}, lineage : SUBSET Threads]
    <3>1. LinesOf(observed') \in Seq(Lines)
      BY <1>1, LinesOfType
    <3> QED BY <2>1, <3>1, OwnerType
  <2> QED BY <1>0, <1>1, <1>2, <2>2 DEF TypeOK, Delivery
<1>4. CursorInv'
  BY <1>0, <1>2 DEF CursorInv
<1>5. ContentInv'
  BY <1>0, <1>2 DEF ContentInv, Reading
<1>6. GrowthInv'
  <2> SUFFICES ASSUME tampering = 0 PROVE GrowthInv'
    BY <1>2 DEF GrowthInv
  <2>1. disk \in Seq(Lines) /\ Len(disk) \in Nat /\ Descriptor = disk
    BY Parts, DescriptorIs
  <2>2. Seen(observed)
    BY <1>0 DEF GrowthInv
  <2>3. \A i \in 1 .. Len(observed) : disk[i] = observed[i]
    BY <1>1, <2>1, <2>2, SeenIs DEF Seen
  <2>4. Len(observed') <= Len(disk)
    BY <1>1, <2>1
  <2>5. \A i \in 1 .. Len(observed') : disk[i] = observed'[i]
    BY <1>1, <2>1, <2>3
  <2>6. Seen(observed')
    BY <1>1, <2>1, <2>4, <2>5, SeenIs DEF Seen
  <2> QED BY <1>0, <1>2, <2>6 DEF GrowthInv, Seen
<1>7. ReadsExactly' /\ RefusesOnlyInvalid' /\ ResumeNeverRefused'
  BY <1>0, <1>2 DEF ReadsExactly, RefusesOnlyInvalid, ResumeNeverRefused
<1> QED BY <1>0, <1>2, <1>3, <1>4, <1>5, <1>6, <1>7 DEF ReaderInv

LEMMA AppendBehind ==
  ASSUME NEW S, NEW a \in Seq(S), NEW b \in Seq(S), NEW x \in S
  PROVE  Append(a \o b, x) = a \o Append(b, x) /\ Append(b, x) \in Seq(S)
<1> DEFINE left == Append(a \o b, x)
           right == a \o Append(b, x)
           n == Len(a) + Len(b) + 1
<1>1. /\ a \o b \in Seq(S) /\ Append(b, x) \in Seq(S) /\ Len(a) \in Nat /\ Len(b) \in Nat
      /\ Len(Append(b, x)) = Len(b) + 1 /\ Len(a \o b) = Len(a) + Len(b)
  OBVIOUS
<1>2. left \in Seq(S) /\ Len(left) = n
  BY <1>1
<1>3. right \in Seq(S) /\ Len(right) = n
  BY <1>1
<1>4. ASSUME NEW i \in 1 .. n PROVE left[i] = right[i]
  <2>1. CASE i <= Len(a)
    BY <1>1, <2>1
  <2>2. CASE i > Len(a) /\ i <= Len(a) + Len(b)
    BY <1>1, <2>2
  <2>3. CASE i = n
    BY <1>1, <2>3
  <2> QED BY <1>1, <2>1, <2>2, <2>3
<1> HIDE DEF left, right, n
<1>5. left = right
  <2>1. DOMAIN left = 1 .. n /\ DOMAIN right = 1 .. n
    BY <1>2, <1>3
  <2> QED BY <1>2, <1>3, <1>4, <2>1
<1> QED BY <1>1, <1>5 DEF left, right

LEMMA ReadKeeps ==
  ASSUME ReaderInv, ReadHalf
  PROVE  ReaderInv'
<1>0. /\ TypeOK /\ CursorInv /\ ContentInv /\ GrowthInv /\ ReadsExactly
      /\ RefusesOnlyInvalid /\ ResumeNeverRefused /\ inode <= 1 + tampering
  BY Parts
<1>1. /\ pc = "read" /\ UNCHANGED world /\ reads' = reads /\ reads \in 0 .. MaxReads
      /\ Len(observed) < Len(Descriptor)
      /\ observed \in Seq(Lines) /\ Len(observed) \in Nat /\ Descriptor \in Seq(Lines)
      /\ fresh \in Seq(Delivery) /\ delivered \in Seq(Delivery)
  BY Parts, DescriptorIs DEF ReadHalf
<1> DEFINE half == Descriptor[Len(observed) + 1]
           pending == PendingOf(observed)
           line == Joined(pending[1], half)
           after == ParseLine(line, state)
           more == Append(observed, half)
           lines == LinesOf(observed)
           q == Append(lines, line)
           list == delivered \o fresh
           one == [at |-> Len(lines) + 1, line |-> line]
<1>2. half \in Lines /\ more \in Seq(Lines) /\ lines \in Seq(Lines)
  <2>1. Len(Descriptor) \in Nat
    BY <1>1
  <2>2. half \in Lines
    BY <1>1, <2>1
  <2> HIDE DEF half
  <2>3. more \in Seq(Lines) /\ lines \in Seq(Lines)
    BY <1>1, <2>2, LinesOfType
  <2> QED BY <2>2, <2>3
<1>3. /\ Parsed(state, lines, Asked) /\ IsListing(list, lines) /\ list \in Seq(Delivery)
  BY <1>0, <1>1 DEF ContentInv, Reading
<1>4. /\ pending # <<>> /\ after.verdict # "" => Fail(after.verdict) /\ witness' = more
      /\ ~(pending # <<>> /\ after.verdict # "") =>
           /\ observed' = more
           /\ UNCHANGED <<pc, opened, caught, outcome, cursor, delivered, witness>>
           /\ pending = <<>> => state' = state /\ fresh' = fresh
           /\ pending # <<>> =>
                /\ state' = after
                /\ fresh' = IF after.out = "nothing" THEN fresh
                            ELSE Append(fresh, [at |-> after.lineNumber, line |-> line])
  BY DEF ReadHalf
<1>5. pending # <<>> => line \in Lines /\ LinesOf(more) = q
  <2> HIDE DEF half
  <2> QED BY <1>1, <1>2, SecondHalf
<1>6. pending # <<>> =>
        /\ WellFormed(q, Expected) =>
             Parsed(after, q, Asked) /\ (after.out = "nothing" <=> Len(lines) + 1 \notin OwnLines(q))
        /\ ~WellFormed(q, Expected) => after.verdict \in ContentReasons
  <2> HIDE DEF lines, half, pending
  <2>1. ASSUME line \in Lines
        PROVE  /\ WellFormed(q, Expected) =>
                    /\ Parsed(after, q, Asked)
                    /\ (after.out = "nothing" <=> Len(lines) + 1 \notin OwnLines(q))
               /\ ~WellFormed(q, Expected) => after.verdict \in ContentReasons
    <3> HIDE DEF line
    <3> QED BY <1>2, <1>3, <2>1, ParseStep
  <2> QED BY <1>5, <2>1
<1> HIDE DEF lines, half, pending, more, line, after, q, list, one
<1>7. UNCHANGED <<pc, opened, caught, outcome, cursor, delivered, witness>> =>
        UNCHANGED <<pc, opened, caught, outcome, cursor, delivered, witness, world, reads>>
  BY <1>1
<1>8. CASE pending = <<>>
  <2>1. LinesOf(more) = lines
    BY <1>1, <1>2, <1>8, FirstHalf DEF more, lines, pending
  <2>2. /\ observed' = more /\ state' = state /\ fresh' = fresh
        /\ UNCHANGED <<pc, opened, caught, outcome, cursor, delivered, witness, world, reads>>
    BY <1>4, <1>7, <1>8
  <2>3. Parsed(state', LinesOf(observed'), Asked) /\ IsListing(delivered \o fresh', LinesOf(observed'))
    BY <1>3, <2>1, <2>2 DEF list
  <2> QED BY <1>1, <1>2, <2>2, <2>3, ReadOn DEF half, more
<1>9. CASE pending # <<>> /\ WellFormed(q, Expected)
  <2>1. /\ Parsed(after, q, Asked) /\ (after.out = "nothing" <=> Len(lines) + 1 \notin OwnLines(q))
        /\ line \in Lines /\ LinesOf(more) = q
    BY <1>5, <1>6, <1>9
  <2>2. after.verdict = "" /\ after.lineNumber = Len(lines) + 1
    <3>1. Len(q) = Len(lines) + 1
      BY <1>2, <2>1 DEF q
    <3> QED BY <2>1, <3>1 DEF Parsed, Keeps
  <2>3. /\ observed' = more /\ state' = after
        /\ fresh' = IF after.out = "nothing" THEN fresh ELSE Append(fresh, one)
        /\ UNCHANGED <<pc, opened, caught, outcome, cursor, delivered, witness, world, reads>>
    BY <1>4, <1>7, <1>9, <2>2 DEF one
  <2>4. /\ Len(lines) + 1 \in OwnLines(q) =>
             Append(list, one) \in Seq(Delivery) /\ IsListing(Append(list, one), q)
        /\ Len(lines) + 1 \notin OwnLines(q) => IsListing(list, q)
    BY <1>2, <1>3, <2>1, ListingMore DEF q, one
  <2>5. one \in Delivery
    <3>1. Len(lines) + 1 \in Nat
      BY <1>2
    <3> QED BY <2>1, <3>1 DEF one, Delivery
  <2>6. Append(list, one) = delivered \o Append(fresh, one) /\ Append(fresh, one) \in Seq(Delivery)
    BY <1>1, <2>5, AppendBehind DEF list
  <2>7. fresh' \in Seq(Delivery) /\ IsListing(delivered \o fresh', LinesOf(observed'))
    <3>1. CASE after.out = "nothing"
      BY <1>1, <2>1, <2>3, <2>4, <3>1 DEF list
    <3>2. CASE after.out # "nothing"
      BY <2>1, <2>3, <2>4, <2>6, <3>2
    <3> QED BY <3>1, <3>2
  <2>8. Parsed(state', LinesOf(observed'), Asked)
    BY <2>1, <2>3
  <2> QED BY <1>1, <1>2, <2>3, <2>7, <2>8, ReadOn DEF half, more
<1>10. CASE pending # <<>> /\ ~WellFormed(q, Expected)
  <2>1. after.verdict \in ContentReasons /\ LinesOf(more) = q
    BY <1>5, <1>6, <1>10
  <2>2. /\ after.verdict # "" /\ after.verdict \notin ChangeReasons /\ after.verdict \in Reasons
    BY <2>1 DEF ContentReasons, ChangeReasons, Reasons
  <2>3. Fail(after.verdict) /\ witness' = more
    BY <1>4, <1>10, <2>2
  <2>4. witness' \in Seq(Lines) /\ ~WellFormed(LinesOf(witness'), Expected)
    BY <1>2, <1>10, <2>1, <2>3
  <2> QED BY <1>1, <2>2, <2>3, <2>4, FailKeeps
<1> QED BY <1>8, <1>9, <1>10

LEMMA InitHolds ==
  ASSUME Init
  PROVE  ReaderInv
<1>1. PICK lines \in Files : disk = Halves(lines)
  BY DEF Init
<1>2. disk \in Seq(Lines) /\ Len(disk) \in Nat
  <2>1. disk \in Seq(Lines)
    BY <1>1, HalvesType
  <2> QED BY <2>1
<1>3. /\ inode = 1 /\ unlinked = <<>> /\ growth = 0 /\ tampering = 0
      /\ pc = "idle" /\ opened = NotOpen /\ state = Fresh(NoOwner)
      /\ observed = <<>> /\ fresh = <<>> /\ caught = 0 /\ outcome = ""
      /\ reads = 0 /\ cursor = NoCursor /\ delivered = <<>> /\ witness = <<>>
  BY DEF Init
<1>4. inode = 1 /\ growth = 0 /\ tampering = 0 /\ caught = 0 /\ reads = 0
  BY DEF Init
<1>5. TypeOK
  <2>1. state.who \in [owner : Threads \cup {None}, lineage : SUBSET Threads]
    BY <1>3 DEF Fresh, NoOwner
  <2>2. <<>> \in Seq(Lines) /\ <<>> \in Seq([at : Nat, line : Lines])
    OBVIOUS
  <2>3. /\ inode \in 1..(1 + MaxTampering) /\ growth \in 0..MaxGrowth
        /\ tampering \in 0..MaxTampering /\ reads \in 0..MaxReads
    BY <1>4
  <2>4. pc \in {"idle", "verify", "replay", "read", "recheck", "path"}
    BY <1>3
  <2>5. outcome \in {"", "ok", "deadline-exceeded"} \cup ContentReasons \cup ChangeReasons
    BY <1>3
  <2> QED BY <1>2, <1>3, <2>1, <2>2, <2>3, <2>4, <2>5 DEF TypeOK
<1>6. CursorInv /\ ContentInv
  BY <1>3 DEF CursorInv, ContentInv, Reading
<1>7. GrowthInv
  <2>1. PrefixOf(disk, Len(<<>>)) = <<>> /\ Len(<<>>) <= Len(disk) /\ AnchorAt(disk, 0) = <<>>
    BY <1>2, SeenNothing
  <2>2. opened.size = 0 /\ opened.anchor = <<>>
    BY <1>3 DEF NotOpen
  <2>3. Seen(observed)
    BY <1>3, <2>1 DEF Seen
  <2>4. opened.size \in 0 .. Len(disk) /\ opened.anchor = AnchorAt(disk, opened.size)
    BY <1>2, <2>1, <2>2
  <2>5. caught <= Len(disk)
    BY <1>2, <1>4
  <2> QED BY <1>3, <2>3, <2>4, <2>5 DEF GrowthInv
<1>8. ReadsExactly /\ RefusesOnlyInvalid /\ ResumeNeverRefused
  BY <1>3 DEF ReadsExactly, RefusesOnlyInvalid, ResumeNeverRefused, ContentReasons, ChangeReasons
<1>9. inode <= 1 + tampering
  BY <1>4
<1> QED BY <1>5, <1>6, <1>7, <1>8, <1>9 DEF ReaderInv

LEMMA StepKeeps ==
  ASSUME ReaderInv, [Next]_vars
  PROVE  ReaderInv'
<1>1. CASE Grow
  BY <1>1, GrowKeeps
<1>2. CASE Rewrite \/ Truncate \/ Replace
  BY <1>2, TamperKeeps
<1>3. CASE Open
  BY <1>3, OpenKeeps
<1>4. CASE VerifyPrefix
  BY <1>4, VerifyKeeps
<1>5. CASE Replay
  BY <1>5, ReplayKeeps
<1>6. CASE ReadHalf
  BY <1>6, ReadKeeps
<1>7. CASE EndOfFile
  BY <1>7, EndKeeps
<1>8. CASE Recheck
  BY <1>8, RecheckKeeps
<1>9. CASE CheckPath
  BY <1>9, PathKeeps
<1>10. CASE Deadline
  BY <1>10, DeadlineKeeps
<1>11. CASE StartOver
  BY <1>11, StartOverKeeps
<1>12. CASE UNCHANGED vars
  <2>1. /\ disk' = disk /\ inode' = inode /\ unlinked' = unlinked /\ growth' = growth
        /\ tampering' = tampering /\ pc' = pc /\ outcome' = outcome /\ witness' = witness
        /\ opened' = opened /\ state' = state /\ observed' = observed /\ fresh' = fresh
        /\ caught' = caught /\ reads' = reads /\ cursor' = cursor /\ delivered' = delivered
    BY <1>12 DEF vars, world, reading, caller
  <2>2. /\ TypeOK /\ CursorInv /\ ContentInv /\ GrowthInv /\ ReadsExactly
        /\ RefusesOnlyInvalid /\ ResumeNeverRefused /\ inode <= 1 + tampering
    BY Parts
  <2>3. TypeOK' /\ CursorInv' /\ ContentInv'
    <3>1. TypeOK'
      BY <2>1, <2>2 DEF TypeOK
    <3>2. CursorInv'
      BY <2>1, <2>2 DEF CursorInv
    <3>3. ContentInv'
      BY <2>1, <2>2 DEF ContentInv
    <3> QED BY <3>1, <3>2, <3>3
  <2>4. GrowthInv'
    BY <2>1, <2>2 DEF GrowthInv, Seen
  <2>5. ReadsExactly' /\ RefusesOnlyInvalid' /\ ResumeNeverRefused'
    BY <2>1, <2>2 DEF ReadsExactly, RefusesOnlyInvalid, ResumeNeverRefused
  <2> QED BY <2>1, <2>2, <2>3, <2>4, <2>5 DEF ReaderInv
<1> QED BY <1>1, <1>2, <1>3, <1>4, <1>5, <1>6, <1>7, <1>8, <1>9, <1>10, <1>11, <1>12
     DEF Next, ReadStep

-----------------------------------------------------------------------------
(***************************************************************************)
(* The inspector's parser.                                                 *)
(***************************************************************************)
PageState(lines, parsed, who, scope, meta, sound, forked, pushed) ==
  [lines |-> lines, parsed |-> parsed, who |-> who, scope |-> scope, meta |-> meta,
   sound |-> sound, forked |-> forked, pushed |-> pushed]

IsPage(s) ==
  s = PageState(s.lines, s.parsed, s.who, s.scope, s.meta, s.sound, s.forked, s.pushed)

AfterRecord(s, a, b, c, d, e, f, g, h) ==
  [s EXCEPT !.lines = a, !.parsed = b, !.who = c, !.scope = d, !.meta = e,
            !.forked = g, !.sound = f, !.pushed = h]
AfterOther(s, a, h) == [s EXCEPT !.lines = a, !.pushed = h]

LEMMA PageUpdate ==
  ASSUME NEW s, IsPage(s), NEW a, NEW b, NEW c, NEW d, NEW e, NEW f, NEW g, NEW h, NEW t,
         t = AfterRecord(s, a, b, c, d, e, f, g, h)
  PROVE  /\ IsPage(t) /\ t.lines = a /\ t.parsed = b /\ t.who = c /\ t.scope = d
         /\ t.meta = e /\ t.sound = f /\ t.forked = g /\ t.pushed = h
<1> DEFINE Fields == {"lines", "parsed", "who", "scope", "meta", "sound", "forked", "pushed"}
<1>1. s = [x \in Fields |-> s[x]]
  BY DEF IsPage, PageState
<1>2. /\ t = [x \in Fields |-> t[x]] /\ t.lines = a /\ t.parsed = b /\ t.who = c
      /\ t.scope = d /\ t.meta = e /\ t.forked = g /\ t.sound = f /\ t.pushed = h
  BY <1>1 DEF AfterRecord
<1>3. IsPage(t)
  BY <1>2 DEF IsPage, PageState
<1> QED BY <1>2, <1>3

LEMMA LineUpdate ==
  ASSUME NEW s, IsPage(s), NEW a, NEW h, NEW t, t = AfterOther(s, a, h)
  PROVE  /\ IsPage(t) /\ t.lines = a /\ t.parsed = s.parsed /\ t.who = s.who
         /\ t.scope = s.scope /\ t.meta = s.meta /\ t.sound = s.sound /\ t.forked = s.forked
         /\ t.pushed = h
<1> DEFINE Fields == {"lines", "parsed", "who", "scope", "meta", "sound", "forked", "pushed"}
<1>1. s = [x \in Fields |-> s[x]]
  BY DEF IsPage, PageState
<1>2. /\ t = [x \in Fields |-> t[x]] /\ t.lines = a /\ t.pushed = h
      /\ \A x \in Fields \ {"lines", "pushed"} : t[x] = s[x]
  BY <1>1 DEF AfterOther
<1>3. IsPage(t)
  BY <1>2 DEF IsPage, PageState
<1> QED BY <1>2, <1>3

\* What one record does to what the inspector keeps.
LEMMA RecordInspected ==
  ASSUME NEW s, IsPage(s), NEW line, NEW at
  PROVE  LET owner == InspectLineage(line, s.who, Expected)
             history == advanceRolloutHistoryScope(line, s.scope, s.parsed = 0)
             declared == owner.status \notin {"invalid", "mismatch"}
             forked == s.forked /\ history.status \notin {"missing", "invalid"}
             own == forked /\ history.status # "skip"
             strange == declared /\ own /\ ClaimsOther(line, owner.who, Expected)
             t == InspectRecord(line, s, at, Expected)
         IN /\ IsPage(t) /\ t.parsed = s.parsed + 1 /\ t.who = owner.who
            /\ t.scope = IF forked THEN history.scope ELSE s.scope
            /\ t.meta <=> s.meta \/ (owner.status = "accepted" /\ line.id = owner.who.owner)
            /\ t.forked <=> forked
            /\ t.sound <=> s.sound /\ declared /\ forked /\ ~strange
            /\ t.pushed = IF own THEN Append(s.pushed, [at |-> at, line |-> line]) ELSE s.pushed
<1> DEFINE owner == InspectLineage(line, s.who, Expected)
           history == advanceRolloutHistoryScope(line, s.scope, s.parsed = 0)
           declared == owner.status \notin {"invalid", "mismatch"}
           forked == s.forked /\ history.status \notin {"missing", "invalid"}
           own == forked /\ history.status # "skip"
           strange == declared /\ own /\ ClaimsOther(line, owner.who, Expected)
           t == InspectRecord(line, s, at, Expected)
           count == s.lines + 1
           parsed == s.parsed + 1
           who == owner.who
           scope == IF forked THEN history.scope ELSE s.scope
           meta == s.meta \/ (owner.status = "accepted" /\ line.id = owner.who.owner)
           sound == s.sound /\ declared /\ forked /\ ~strange
           pushed == IF own THEN Append(s.pushed, [at |-> at, line |-> line]) ELSE s.pushed
<1>1. t = AfterRecord(s, count, parsed, who, scope, meta, sound, forked, pushed)
  BY DEF InspectRecord, AfterRecord
<1> SUFFICES /\ IsPage(t) /\ t.parsed = parsed /\ t.who = who
             /\ t.scope = scope /\ (t.meta <=> meta) /\ (t.forked <=> forked)
             /\ (t.sound <=> sound) /\ t.pushed = pushed
  OBVIOUS
<1> HIDE DEF count, parsed, who, scope, meta, forked, sound, pushed, t
<1>2. /\ IsPage(t) /\ t.parsed = parsed /\ t.who = who /\ t.scope = scope
      /\ t.meta = meta /\ t.sound = sound /\ t.forked = forked /\ t.pushed = pushed
  BY <1>1, PageUpdate
<1> QED BY <1>2, Zenon

\* The inspector's state is that of the lines it has passed: it has nothing to
\* say against their owner exactly if they are a rollout of the thread.
Inspects(s, p) ==
  /\ IsPage(s) /\ s.parsed \in Nat
  /\ (p = <<>> \/ WellFormed(p, Expected)) =>
       /\ s.sound /\ s.forked /\ (p # <<>> => s.meta /\ forkHistoryStateValid(s.scope))
       /\ s.who = OwnerOf(p, NoOwner) /\ s.scope = ScopeOf(p) /\ (s.parsed = 0 <=> p = <<>>)
       /\ s.pushed \in Seq(Delivery) /\ IsListing(s.pushed, p)
  /\ ~(p = <<>> \/ WellFormed(p, Expected)) => ~s.sound

LEMMA InspectsNothing == Inspects(Unread, <<>>)
<1> DEFINE s == Unread
<1>1. /\ IsPage(s) /\ s.parsed = 0 /\ s.who = NoOwner /\ s.scope = NoScope /\ s.pushed = <<>>
  BY DEF Unread, IsPage, PageState
<1>2. s.sound /\ s.forked
  BY DEF Unread
<1>3. <<>> \in Seq(Delivery) /\ IsListing(<<>>, <<>>)
  BY ListingNothing
<1> HIDE DEF s
<1>4. Inspects(s, <<>>)
  BY <1>1, <1>2, <1>3 DEF Inspects, OwnerOf, ScopeOf
<1> QED BY <1>4 DEF s

\* ClaimsOther and the reader's checks of a claim are one.
LEMMA ClaimsOtherIs ==
  ASSUME NEW line \in Lines, NEW who, who.owner = Expected
  PROVE  ClaimsOther(line, who, Expected) <=> ~(line.claims \subseteq {Expected})
<1> DEFINE claim == recordThreadIdentity(line)
<1>1. line.claims \subseteq {Expected} <=>
        /\ claim \notin {"invalid", "conflict"}
        /\ claim = "valid" => Expected \in {None} \cup line.claims
  BY ClaimStep
<1>2. claim \in {"absent", "invalid", "conflict", "valid"} /\ (claim = "absent" <=> line.claims = {})
  BY DEF recordThreadIdentity
<1>3. ClaimsOther(line, who, Expected) <=>
        /\ line.claims # {}
        /\ claim # "valid" \/ line.claims # {Expected} \/ Expected \notin {None} \cup line.claims
  BY DEF ClaimsOther
<1> HIDE DEF claim
<1>4. CASE line.claims \subseteq {Expected}
  BY <1>1, <1>2, <1>3, <1>4
<1>5. CASE ~(line.claims \subseteq {Expected})
  BY <1>3, <1>5
<1> QED BY <1>4, <1>5

\* InspectLineage accepts what the reader's advanceRolloutOwnerLineage accepts.
LEMMA InspectLineageIs ==
  ASSUME NEW p \in Seq(Lines), NEW line \in Lines,
         p = <<>> => line.kind = "session_meta" /\ line.id = Expected,
         p # <<>> => WellFormed(p, Expected)
  PROVE  LET step == InspectLineage(line, OwnerOf(p, NoOwner), Expected)
         IN /\ MayDeclare(p, line) => /\ step.status \in {"absent", "accepted"}
                                      /\ step.who = OwnerOf(Append(p, line), NoOwner)
            /\ ~MayDeclare(p, line) => step.status \in {"invalid", "mismatch"}
            /\ line.kind = "session_meta" => step.status # "absent"
<1> DEFINE step == advanceRolloutOwnerLineage(line, OwnerOf(p, NoOwner), {})
<1>1. InspectLineage(line, OwnerOf(p, NoOwner), Expected) = step
  <2>1. CASE p = <<>>
    BY <2>1 DEF InspectLineage
  <2>2. CASE p # <<>>
    <3>1. OwnerOf(p, NoOwner).owner # None
      BY <2>2 DEF OwnerOf
    <3> QED BY <3>1 DEF InspectLineage
  <2> QED BY <2>1, <2>2
<1>2. /\ MayDeclare(p, line) => /\ step.status \in {"absent", "accepted"}
                                /\ step.who = OwnerOf(Append(p, line), NoOwner)
      /\ ~MayDeclare(p, line) => step.status \in {"invalid", "mismatch"}
  <2>1. NoOwner \in {NoOwner, Asked} /\ {} \in SUBSET {Expected}
    OBVIOUS
  <2> QED BY <2>1, OwnerStep
<1>3. line.kind = "session_meta" => step.status # "absent"
  BY DEF advanceRolloutOwnerLineage
<1> HIDE DEF step
<1> QED BY <1>1, <1>2, <1>3

\* Whatever a record says, it is counted, and mends nothing.
LEMMA RecordCounts ==
  ASSUME NEW s, IsPage(s), NEW line, NEW at
  PROVE  LET t == InspectRecord(line, s, at, Expected)
         IN IsPage(t) /\ t.parsed = s.parsed + 1 /\ (t.sound => s.sound)
<1> DEFINE t == InspectRecord(line, s, at, Expected)
           count == s.lines + 1
           parsed == s.parsed + 1
<1>1. PICK who, scope, meta, x, forked, pushed :
        t = AfterRecord(s, count, parsed, who, scope, meta, s.sound /\ x, forked, pushed)
  <2> DEFINE owner == InspectLineage(line, s.who, Expected)
             history == advanceRolloutHistoryScope(line, s.scope, s.parsed = 0)
             declared == owner.status \notin {"invalid", "mismatch"}
             fork == s.forked /\ history.status \notin {"missing", "invalid"}
             own == fork /\ history.status # "skip"
             strange == declared /\ own /\ ClaimsOther(line, owner.who, Expected)
             scope == IF fork THEN history.scope ELSE s.scope
             meta == s.meta \/ (owner.status = "accepted" /\ line.id = owner.who.owner)
             x == declared /\ fork /\ ~strange
             pushed == IF own THEN Append(s.pushed, [at |-> at, line |-> line]) ELSE s.pushed
  <2>1. t = AfterRecord(s, count, parsed, owner.who, scope, meta, s.sound /\ x, fork, pushed)
    BY DEF InspectRecord, AfterRecord
  <2> HIDE DEF t, count, parsed, owner, scope, meta, x, fork, pushed
  <2> QED BY <2>1
<1> DEFINE sound == s.sound /\ x
<1> HIDE DEF t, count, parsed, sound
<1>2. IsPage(t) /\ t.parsed = parsed /\ t.sound = sound
  <2>1. t = AfterRecord(s, count, parsed, who, scope, meta, sound, forked, pushed)
    BY <1>1 DEF sound
  <2> QED BY <2>1, PageUpdate
<1>3. sound => s.sound
  BY DEF sound
<1> QED BY <1>2, <1>3 DEF t, parsed

\* What the inspector has said against the owner stays said.
LEMMA UnsoundStays ==
  ASSUME NEW s, IsPage(s), s.parsed \in Nat, NEW line, NEW at
  PROVE  LET t == InspectLine(line, s, at, Expected)
         IN IsPage(t) /\ t.parsed \in Nat /\ (~s.sound => ~t.sound)
<1> DEFINE t == InspectLine(line, s, at, Expected)
<1>1. CASE line.kind = "blank"
  BY <1>1 DEF InspectLine
<1>2. CASE line.kind \in {"malformed", "undecodable"}
  <2> DEFINE count == s.lines + 1
             pushed == Append(s.pushed, [at |-> at, line |-> line])
  <2>1. t = AfterOther(s, count, pushed)
    BY <1>2 DEF InspectLine, AfterOther
  <2> HIDE DEF t, count, pushed
  <2>2. IsPage(t) /\ t.parsed = s.parsed /\ t.sound = s.sound
    BY <2>1, LineUpdate
  <2> QED BY <2>2, Zenon DEF t
<1>3. CASE line.kind \notin {"blank", "malformed", "undecodable"}
  <2>1. t = InspectRecord(line, s, at, Expected)
    BY <1>3 DEF InspectLine
  <2> HIDE DEF t
  <2> DEFINE r == InspectRecord(line, s, at, Expected)
  <2>3. IsPage(r) /\ r.parsed = s.parsed + 1 /\ (r.sound => s.sound)
    BY RecordCounts
  <2> HIDE DEF r
  <2>4. t = r
    BY <2>1 DEF r
  <2> QED BY <2>3, <2>4 DEF t
<1> QED BY <1>1, <1>2, <1>3

\* One line more, inspected.
LEMMA InspectOther ==
  ASSUME NEW p \in Seq(Lines), p # <<>>, NEW line \in Lines, NEW s, Inspects(s, p),
         WellFormed(p, Expected), ~IsRecord(line), line.kind # "undecodable"
  PROVE  Inspects(InspectLine(line, s, Len(p) + 1, Expected), Append(p, line))
<1> DEFINE q == Append(p, line)
           n == Len(p) + 1
           one == [at |-> n, line |-> line]
           t == InspectLine(line, s, n, Expected)
<1>1. /\ IsPage(s) /\ s.parsed \in Nat /\ s.parsed # 0
      /\ s.sound /\ s.forked /\ s.meta /\ forkHistoryStateValid(s.scope)
      /\ s.who = OwnerOf(p, NoOwner) /\ s.scope = ScopeOf(p)
      /\ s.pushed \in Seq(Delivery) /\ IsListing(s.pushed, p)
  BY DEF Inspects
<1>2. /\ q # <<>> /\ WellFormed(q, Expected) /\ ScopeOf(q) = ScopeOf(p)
      /\ OwnerOf(q, NoOwner) = OwnerOf(p, NoOwner)
  BY OtherSays
<1>3. n \in OwnLines(q) <=> line.kind # "blank"
  <2>1. /\ OwnLines(q) = OwnLines(p) \cup
             (IF line.kind # "blank" /\ ~Inherited(q, n) THEN {n} ELSE {})
        /\ OwnLines(p) \subseteq 1 .. Len(p) /\ ~Inherited(q, n)
    BY OwnAppend
  <2>2. n \notin 1 .. Len(p)
    OBVIOUS
  <2> HIDE DEF q, n
  <2> QED BY <2>1, <2>2
<1>4. IF n \in OwnLines(q)
        THEN Append(s.pushed, one) \in Seq(Delivery) /\ IsListing(Append(s.pushed, one), q)
        ELSE IsListing(s.pushed, q)
  BY <1>1, ListingMore
<1>5. CASE line.kind = "blank"
  <2>1. t = s
    BY <1>5 DEF InspectLine
  <2> HIDE DEF q, n, one, t
  <2> QED BY <1>1, <1>2, <1>3, <1>4, <1>5, <2>1 DEF Inspects, q, t, n
<1>6. CASE line.kind # "blank"
  <2> DEFINE count == s.lines + 1
             pushed == Append(s.pushed, one)
  <2>1. t = AfterOther(s, count, pushed)
    BY <1>6 DEF InspectLine, AfterOther, IsRecord
  <2> HIDE DEF q, n, one, t, count, pushed
  <2>0. IsPage(s)
    BY <1>1
  <2>2. /\ IsPage(t) /\ t.parsed = s.parsed /\ t.who = s.who /\ t.scope = s.scope
        /\ t.meta = s.meta /\ t.sound = s.sound /\ t.forked = s.forked /\ t.pushed = pushed
    BY <2>0, <2>1, LineUpdate
  <2>3. t.meta /\ t.sound /\ t.forked
    BY <1>1, <2>2, Zenon
  <2>4. t.pushed \in Seq(Delivery) /\ IsListing(t.pushed, q)
    BY <1>3, <1>4, <1>6, <2>2 DEF pushed
  <2>5. Inspects(t, q)
    BY <1>1, <1>2, <2>2, <2>3, <2>4 DEF Inspects
  <2> QED BY <2>5 DEF t, q, n
<1> QED BY <1>5, <1>6

LEMMA InspectRecordStep ==
  ASSUME NEW p \in Seq(Lines), NEW line \in Lines, NEW s, Inspects(s, p), IsRecord(line),
         p = <<>> => line.kind = "session_meta" /\ line.id = Expected,
         p # <<>> => WellFormed(p, Expected)
  PROVE  Inspects(InspectLine(line, s, Len(p) + 1, Expected), Append(p, line))
<1> DEFINE q == Append(p, line)
           n == Len(p) + 1
           one == [at |-> n, line |-> line]
           owner == InspectLineage(line, s.who, Expected)
           first == s.parsed = 0
           history == advanceRolloutHistoryScope(line, s.scope, first)
           declared == owner.status \notin {"invalid", "mismatch"}
           forked == s.forked /\ history.status \notin {"missing", "invalid"}
           own == forked /\ history.status # "skip"
           strange == declared /\ own /\ ClaimsOther(line, owner.who, Expected)
           t == InspectLine(line, s, n, Expected)
<1>1. /\ IsPage(s) /\ s.parsed \in Nat /\ (s.parsed = 0 <=> p = <<>>)
      /\ s.sound /\ s.forked /\ (p # <<>> => s.meta /\ forkHistoryStateValid(s.scope))
      /\ s.who = OwnerOf(p, NoOwner) /\ s.scope = ScopeOf(p)
      /\ s.pushed \in Seq(Delivery) /\ IsListing(s.pushed, p)
  BY DEF Inspects
<1>2. /\ IsPage(t) /\ t.parsed = s.parsed + 1 /\ t.who = owner.who
      /\ t.scope = (IF forked THEN history.scope ELSE s.scope)
      /\ t.meta <=> s.meta \/ (owner.status = "accepted" /\ line.id = owner.who.owner)
      /\ t.forked <=> forked
      /\ t.sound <=> s.sound /\ declared /\ forked /\ ~strange
      /\ t.pushed = (IF own THEN Append(s.pushed, one) ELSE s.pushed)
  <2> DEFINE u == InspectRecord(line, s, n, Expected)
  <2>1. IsPage(s)
    BY <1>1
  <2>2. /\ IsPage(u) /\ u.parsed = s.parsed + 1 /\ u.who = owner.who
        /\ u.scope = (IF forked THEN history.scope ELSE s.scope)
        /\ u.meta <=> s.meta \/ (owner.status = "accepted" /\ line.id = owner.who.owner)
        /\ u.forked <=> forked
        /\ u.sound <=> s.sound /\ declared /\ forked /\ ~strange
        /\ u.pushed = (IF own THEN Append(s.pushed, one) ELSE s.pushed)
    BY <2>1, RecordInspected
  <2>3. t = u
    BY DEF InspectLine, IsRecord
  <2> HIDE DEF t, u, owner, history, declared, forked, own, strange, one
  <2> QED BY <2>2, <2>3, Zenon
<1>3. /\ MayDeclare(p, line) => /\ owner.status \in {"absent", "accepted"}
                                /\ owner.who = OwnerOf(q, NoOwner)
      /\ ~MayDeclare(p, line) => owner.status \in {"invalid", "mismatch"}
      /\ line.kind = "session_meta" => owner.status # "absent"
  BY <1>1, InspectLineageIs
<1>4. /\ MayStand(p, line) =>
           /\ history.scope = ScopeOf(q) /\ forkHistoryStateValid(ScopeOf(q))
           /\ history.status = IF Inherited(q, n) THEN "skip" ELSE "admit"
      /\ ~MayStand(p, line) => history.status \in {"missing", "invalid"}
  <2>1. first \in BOOLEAN /\ (first <=> p = <<>>)
    BY <1>1
  <2>2. history = advanceRolloutHistoryScope(line, ScopeOf(p), first)
    BY <1>1
  <2> HIDE DEF first, history
  <2> QED BY <1>1, <2>1, <2>2, ScopeStep
<1>5. WellFormed(q, Expected) <=>
        /\ line.kind # "undecodable" /\ (p = <<>> => line.kind = "session_meta")
        /\ IsRecord(line) =>
             /\ MayDeclare(p, line) /\ MayStand(p, line)
             /\ ~Inherited(q, n) => line.claims \subseteq {Expected}
  BY NextFits
<1>6. IsRecord(line) => line.kind # "undecodable" /\ line.kind # "blank"
  BY DEF IsRecord
<1>7. /\ n \in OwnLines(q) <=> ~Inherited(q, n)
      /\ q # <<>> /\ Len(p) \in Nat
  <2>1. /\ OwnLines(q) = OwnLines(p) \cup
             (IF line.kind # "blank" /\ ~Inherited(q, n) THEN {n} ELSE {})
        /\ OwnLines(p) \subseteq 1 .. Len(p) /\ q # <<>>
    BY OwnAppend
  <2>2. n \notin 1 .. Len(p) /\ Len(p) \in Nat
    OBVIOUS
  <2> HIDE DEF q, n
  <2> QED BY <1>6, <2>1, <2>2
<1>8. IF n \in OwnLines(q)
        THEN Append(s.pushed, one) \in Seq(Delivery) /\ IsListing(Append(s.pushed, one), q)
        ELSE IsListing(s.pushed, q)
  BY <1>1, ListingMore
<1>9. OwnerOf(q, NoOwner).owner = Expected
  BY <1>7 DEF OwnerOf
<1>10. MayDeclare(p, line) =>
         (ClaimsOther(line, owner.who, Expected) <=> ~(line.claims \subseteq {Expected}))
  BY <1>3, <1>9, ClaimsOtherIs
<1>11. t.parsed \in Nat /\ t.parsed # 0
  <2> HIDE DEF t
  <2> QED BY <1>1, <1>2
<1> HIDE DEF q, n, one, owner, first, history, t
<1>12. CASE WellFormed(q, Expected)
  <2>1. /\ MayDeclare(p, line) /\ MayStand(p, line)
        /\ ~Inherited(q, n) => line.claims \subseteq {Expected}
    BY <1>5, <1>12
  <2>2. declared /\ forked /\ (own <=> ~Inherited(q, n)) /\ ~strange
    BY <1>1, <1>3, <1>4, <1>10, <2>1
  <2> HIDE DEF declared, forked, own, strange
  <2>3. t.sound /\ t.forked
    BY <1>1, <1>2, <2>2
  <2>4. t.meta
    <3>1. CASE p # <<>>
      BY <1>1, <1>2, <3>1
    <3>2. CASE p = <<>>
      <4>1. owner.status = "accepted" /\ line.id = owner.who.owner
        BY <1>3, <1>9, <2>1, <3>2
      <4> QED BY <1>2, <4>1
    <3> QED BY <3>1, <3>2
  <2>5. t.who = OwnerOf(q, NoOwner) /\ t.scope = ScopeOf(q) /\ forkHistoryStateValid(t.scope)
    BY <1>2, <1>3, <1>4, <2>1, <2>2
  <2>6. t.pushed \in Seq(Delivery) /\ IsListing(t.pushed, q)
    BY <1>1, <1>2, <1>7, <1>8, <2>2
  <2>7. Inspects(t, q)
    BY <1>2, <1>7, <1>11, <1>12, <2>3, <2>4, <2>5, <2>6 DEF Inspects
  <2> QED BY <2>7 DEF t, q, n
<1>13. CASE ~WellFormed(q, Expected)
  <2>1. ~t.sound
    <3>1. CASE ~MayDeclare(p, line)
      BY <1>2, <1>3, <3>1
    <3>2. CASE ~MayStand(p, line)
      BY <1>2, <1>4, <3>2
    <3>3. CASE MayDeclare(p, line) /\ MayStand(p, line)
      <4>1. ~Inherited(q, n) /\ ~(line.claims \subseteq {Expected})
        BY <1>5, <1>6, <1>13, <3>3
      <4>2. strange
        BY <1>1, <1>3, <1>4, <1>10, <3>3, <4>1
      <4> HIDE DEF strange
      <4> QED BY <1>2, <4>2
    <3> QED BY <3>1, <3>2, <3>3
  <2>2. Inspects(t, q)
    BY <1>2, <1>7, <1>11, <1>13, <2>1 DEF Inspects
  <2> QED BY <2>2 DEF t, q, n
<1> QED BY <1>12, <1>13

LEMMA InspectStep ==
  ASSUME NEW p \in Seq(Lines), NEW line \in Lines, NEW s, Inspects(s, p),
         p = <<>> => line.kind = "session_meta" /\ line.id = Expected,
         line.kind # "undecodable"
  PROVE  Inspects(InspectLine(line, s, Len(p) + 1, Expected), Append(p, line))
<1>1. CASE p # <<>> /\ ~WellFormed(p, Expected)
  <2> DEFINE t == InspectLine(line, s, Len(p) + 1, Expected)
             q == Append(p, line)
  <2>1. IsPage(s) /\ s.parsed \in Nat /\ ~s.sound
    BY <1>1 DEF Inspects
  <2>2. IsPage(t) /\ t.parsed \in Nat /\ ~t.sound
    BY <2>1, UnsoundStays
  <2>3. ~WellFormed(q, Expected)
    <3>1. Begins(p, q)
      BY <1>1, AppendBegins
    <3> QED BY <1>1, <3>1, WellFormedBegins
  <2>4. q # <<>>
    BY OwnAppend
  <2> HIDE DEF t, q
  <2>5. Inspects(t, q)
    BY <2>2, <2>3, <2>4 DEF Inspects
  <2> QED BY <2>5 DEF t, q
<1>2. CASE (p = <<>> \/ WellFormed(p, Expected)) /\ IsRecord(line)
  BY <1>2, InspectRecordStep
<1>3. CASE p # <<>> /\ WellFormed(p, Expected) /\ ~IsRecord(line)
  BY <1>3, InspectOther
<1>4. p = <<>> => IsRecord(line)
  BY DEF IsRecord
<1> QED BY <1>1, <1>2, <1>3, <1>4

\* The recursion parseRollout is defined by has a solution.
LEMMA InspectExists ==
  ASSUME NEW lines, Len(lines) \in Nat
  PROVE  \E f : f = [n \in 0 .. Len(lines) |->
                       IF n = 0 THEN Unread ELSE InspectLine(lines[n], f[n - 1], n, Expected)]
<1> DEFINE Step(f, m) == [n \in 0 .. m |->
                            IF n = 0 THEN Unread ELSE InspectLine(lines[n], f[n - 1], n, Expected)]
           Solved == {m \in Nat : \E f : f = Step(f, m)}
<1>1. 0 \in Solved
  <2> DEFINE f == [n \in 0 .. 0 |-> Unread]
  <2>1. \A n \in 0 .. 0 : n = 0
    OBVIOUS
  <2>2. f = Step(f, 0)
    BY <2>1
  <2> QED BY <2>2
<1>2. ASSUME NEW m \in 1 .. Len(lines), m - 1 \in Solved
      PROVE  m \in Solved
  <2>1. PICK f : f = Step(f, m - 1)
    BY <1>2
  <2> DEFINE g == [n \in 0 .. m |-> IF n = m THEN InspectLine(lines[m], f[m - 1], m, Expected)
                                    ELSE f[n]]
  <2>2. \A n \in 0 .. m - 1 :
          f[n] = IF n = 0 THEN Unread ELSE InspectLine(lines[n], f[n - 1], n, Expected)
    BY <2>1
  <2>3. \A n \in 0 .. m - 1 : g[n] = f[n]
    BY <1>2
  <2>4. g[m] = InspectLine(lines[m], f[m - 1], m, Expected)
    BY <1>2
  <2>5. ASSUME NEW n \in 0 .. m
        PROVE  g[n] = IF n = 0 THEN Unread ELSE InspectLine(lines[n], g[n - 1], n, Expected)
    <3> HIDE DEF g
    <3>1. CASE n = m
      <4>1. m # 0 /\ m - 1 \in 0 .. m - 1
        BY <1>2
      <4> QED BY <2>3, <2>4, <3>1, <4>1
    <3>2. CASE n # m
      <4>1. n \in 0 .. m - 1 /\ (n # 0 => n - 1 \in 0 .. m - 1)
        BY <1>2, <3>2
      <4> QED BY <2>2, <2>3, <4>1
    <3> QED BY <3>1, <3>2
  <2>6. g = Step(g, m)
    BY <2>5
  <2>7. \E h : h = Step(h, m)
    <3> HIDE DEF g, Step
    <3> QED BY <2>6
  <2>8. m \in Nat
    BY <1>2
  <2> QED BY <2>7, <2>8
<1>3. \A m \in 0 .. Len(lines) : m \in Solved
  <2> HIDE DEF Solved
  <2> QED BY <1>1, <1>2, CountTo
<1>4. Len(lines) \in Solved
  BY <1>3
<1> QED BY <1>4

LEMMA InspectUnfolds ==
  ASSUME NEW lines \in Seq(Lines)
  PROVE  \E f : /\ f[0] = Unread
                /\ \A n \in 1 .. Len(lines) : f[n] = InspectLine(lines[n], f[n - 1], n, Expected)
                /\ LET s == f[Len(lines)]
                   IN parseRollout(lines, Expected) =
                        [parsedOk |-> s.parsed > 0 /\ s.parsed = s.lines,
                         sound |-> s.sound /\ EndsWell(s), pushed |-> s.pushed]
<1> DEFINE F == CHOOSE f : f = [n \in 0 .. Len(lines) |->
                  IF n = 0 THEN Unread ELSE InspectLine(lines[n], f[n - 1], n, Expected)]
<1>1. Len(lines) \in Nat
  OBVIOUS
<1>2. F = [n \in 0 .. Len(lines) |->
             IF n = 0 THEN Unread ELSE InspectLine(lines[n], F[n - 1], n, Expected)]
  BY <1>1, InspectExists
<1>3. parseRollout(lines, Expected) =
        [parsedOk |-> F[Len(lines)].parsed > 0 /\ F[Len(lines)].parsed = F[Len(lines)].lines,
         sound |-> F[Len(lines)].sound /\ EndsWell(F[Len(lines)]),
         pushed |-> F[Len(lines)].pushed]
  BY DEF parseRollout
<1> HIDE DEF F
<1>4. F[0] = Unread
  BY <1>1, <1>2
<1>5. \A n \in 1 .. Len(lines) : F[n] = InspectLine(lines[n], F[n - 1], n, Expected)
  BY <1>1, <1>2
<1> QED BY <1>3, <1>4, <1>5

\* The inspector finds a page sound exactly if it is a rollout of the thread
\* that has reached its boundary, and then has the thread's own lines of it.
LEMMA InspectorIs ==
  ASSUME NEW lines \in Seq(Lines), lines # <<>>,
         lines[1].kind = "session_meta", lines[1].id = Expected,
         \A k \in DOMAIN lines : lines[k].kind # "undecodable"
  PROVE  LET page == parseRollout(lines, Expected)
         IN /\ page.sound <=> WellFormed(lines, Expected) /\ BoundaryReached(lines)
            /\ page.sound => page.pushed \in Seq(Delivery) /\ IsListing(page.pushed, lines)
<1>1. PICK f : /\ f[0] = Unread
               /\ \A n \in 1 .. Len(lines) : f[n] = InspectLine(lines[n], f[n - 1], n, Expected)
               /\ LET s == f[Len(lines)]
                  IN parseRollout(lines, Expected) =
                       [parsedOk |-> s.parsed > 0 /\ s.parsed = s.lines,
                        sound |-> s.sound /\ EndsWell(s), pushed |-> s.pushed]
  BY InspectUnfolds
<1> DEFINE P(n) == Inspects(f[n], SubSeq(lines, 1, n))
<1>2. Len(lines) \in Nat
  OBVIOUS
<1>3. /\ SubSeq(lines, 1, 0) = <<>> /\ SubSeq(lines, 1, Len(lines)) = lines
      /\ \A n \in 1 .. Len(lines) :
           /\ SubSeq(lines, 1, n - 1) \in Seq(Lines) /\ Len(SubSeq(lines, 1, n - 1)) + 1 = n
           /\ lines[n] \in Lines
           /\ SubSeq(lines, 1, n) = Append(SubSeq(lines, 1, n - 1), lines[n])
  BY PrefixFacts
<1>4. P(0)
  BY <1>1, <1>3, InspectsNothing
<1>5. ASSUME NEW n \in 1 .. Len(lines), P(n - 1)
      PROVE  P(n)
  <2> DEFINE pre == SubSeq(lines, 1, n - 1)
             s == f[n - 1]
  <2>1. /\ pre \in Seq(Lines) /\ lines[n] \in Lines /\ Len(pre) + 1 = n
        /\ SubSeq(lines, 1, n) = Append(pre, lines[n])
        /\ f[n] = InspectLine(lines[n], s, n, Expected)
    BY <1>1, <1>3
  <2>2. Inspects(s, pre)
    BY <1>5
  <2> HIDE DEF pre, s
  <2>3. pre = <<>> => n = 1
    BY <2>1
  <2>4. /\ lines[n].kind # "undecodable"
        /\ pre = <<>> => lines[n].kind = "session_meta" /\ lines[n].id = Expected
    BY <1>2, <2>3
  <2>5. Inspects(InspectLine(lines[n], s, Len(pre) + 1, Expected), Append(pre, lines[n]))
    BY <2>1, <2>2, <2>4, InspectStep
  <2> QED BY <2>1, <2>5
<1> HIDE DEF P
<1>6. P(Len(lines))
  <2> DEFINE S == {n \in Nat : P(n)}
  <2>1. 0 \in S
    BY <1>4
  <2>2. \A n \in 1 .. Len(lines) : n - 1 \in S => n \in S
    BY <1>5
  <2> HIDE DEF S
  <2>3. \A n \in 0 .. Len(lines) : n \in S
    BY <1>2, <2>1, <2>2, CountTo
  <2>4. Len(lines) \in S
    BY <1>2, <2>3
  <2> QED BY <2>4 DEF S
<1> DEFINE s == f[Len(lines)]
<1>7. Inspects(s, lines)
  BY <1>3, <1>6 DEF P
<1>8. LET page == parseRollout(lines, Expected)
      IN page.pushed = s.pushed /\ (page.sound <=> s.sound /\ EndsWell(s))
  <2> DEFINE whole == s.parsed > 0 /\ s.parsed = s.lines
             well == s.sound /\ EndsWell(s)
             page == parseRollout(lines, Expected)
  <2>1. page = [parsedOk |-> whole, sound |-> well, pushed |-> s.pushed]
    BY <1>1
  <2> HIDE DEF whole, well, page
  <2>2. page.sound = well /\ page.pushed = s.pushed
    BY <2>1
  <2> QED BY <2>2, Zenon DEF well, page
<1> HIDE DEF s
<1>9. CASE WellFormed(lines, Expected)
  <2>1. /\ s.sound /\ s.forked /\ s.meta /\ forkHistoryStateValid(ScopeOf(lines))
        /\ s.scope = ScopeOf(lines) /\ s.pushed \in Seq(Delivery) /\ IsListing(s.pushed, lines)
    BY <1>7, <1>9 DEF Inspects
  <2>2. EndsWell(s) <=> BoundaryReached(lines)
    <3>1. CASE ~Ordinal(lines)
      <4>1. BoundaryReached(lines) /\ ScopeOf(lines).mode = "nonfork"
        BY <3>1 DEF BoundaryReached, ScopeOf, NonFork, NoScope
      <4> QED BY <2>1, <4>1 DEF EndsWell
    <3>2. CASE Ordinal(lines)
      <4>1. ScopeOf(lines).mode = "producer-ordinal" /\ ScopeOf(lines).seen = BoundaryReached(lines)
        BY <3>2 DEF ScopeOf
      <4> QED BY <2>1, <4>1, Zenon DEF EndsWell
    <3> QED BY <3>1, <3>2
  <2> QED BY <1>8, <1>9, <2>1, <2>2
<1>10. CASE ~WellFormed(lines, Expected)
  <2>1. ~s.sound
    BY <1>7, <1>10 DEF Inspects
  <2> QED BY <1>8, <1>10, <2>1
<1> QED BY <1>9, <1>10

\* There is one listing of a file.
LEMMA ListingIsOne ==
  ASSUME NEW lines, NEW a \in Seq(Delivery), NEW b \in Seq(Delivery),
         IsListing(a, lines), IsListing(b, lines)
  PROVE  a = b
<1> DEFINE la == Len(a)
           lb == Len(b)
<1>0. DOMAIN a = 1 .. la /\ DOMAIN b = 1 .. lb /\ la \in Nat /\ lb \in Nat
  OBVIOUS
<1> HIDE DEF la, lb
<1>1. /\ DOMAIN a = 1 .. la /\ DOMAIN b = 1 .. lb /\ la \in Nat /\ lb \in Nat
      /\ \A i \in DOMAIN a : a[i].at \in Nat
      /\ \A i \in DOMAIN b : b[i].at \in Nat
  <2>1. \A x \in Delivery : x.at \in Nat
    BY DEF Delivery
  <2>2. (\A i \in DOMAIN a : a[i] \in Delivery) /\ (\A i \in DOMAIN b : b[i] \in Delivery)
    OBVIOUS
  <2> QED BY <1>0, <2>1, <2>2
<1>2. /\ \A i \in DOMAIN a : a[i] = [at |-> a[i].at, line |-> lines[a[i].at]]
      /\ \A i \in DOMAIN b : b[i] = [at |-> b[i].at, line |-> lines[b[i].at]]
      /\ \A i, j \in DOMAIN a : i < j => a[i].at < a[j].at
      /\ \A i, j \in DOMAIN b : i < j => b[i].at < b[j].at
  BY DEF IsListing
<1>3. /\ \A i \in DOMAIN a : \E k \in DOMAIN b : b[k].at = a[i].at
      /\ \A i \in DOMAIN b : \E k \in DOMAIN a : a[k].at = b[i].at
  <2>1. {a[i].at : i \in DOMAIN a} = {b[i].at : i \in DOMAIN b}
    BY DEF IsListing
  <2>2. ASSUME NEW i \in DOMAIN a PROVE \E k \in DOMAIN b : b[k].at = a[i].at
    <3>1. a[i].at \in {b[k].at : k \in DOMAIN b}
      BY <2>1
    <3> QED BY <3>1
  <2>3. ASSUME NEW i \in DOMAIN b PROVE \E k \in DOMAIN a : a[k].at = b[i].at
    <3>1. b[i].at \in {a[k].at : k \in DOMAIN a}
      BY <2>1
    <3> QED BY <3>1
  <2> QED BY <2>2, <2>3
<1> DEFINE least == IF la <= lb THEN la ELSE lb
           Agree == {n \in Nat : \A i \in 1 .. n : a[i].at = b[i].at}
<1>4. least \in Nat /\ 0 \in Agree /\ least <= la /\ least <= lb
      /\ (least = la \/ least = lb)
  BY <1>1
<1>5. ASSUME NEW n \in 1 .. least, n - 1 \in Agree
      PROVE  n \in Agree
  <2>1. n \in DOMAIN a /\ n \in DOMAIN b /\ n \in Nat
    BY <1>1, <1>4
  <2>2. \A i \in 1 .. n - 1 : a[i].at = b[i].at /\ i \in DOMAIN a /\ i \in DOMAIN b /\ i < n
    BY <1>1, <1>5, <2>1
  <2>3. PICK k \in DOMAIN b : b[k].at = a[n].at
    BY <1>3, <2>1
  <2>4. PICK l \in DOMAIN a : a[l].at = b[n].at
    BY <1>3, <2>1
  <2>5. ~(k < n)
    <3> SUFFICES ASSUME k < n PROVE FALSE
      OBVIOUS
    <3>1. k \in 1 .. n - 1
      BY <1>1, <2>1
    <3>2. a[k].at = b[k].at /\ a[k].at < a[n].at
      BY <1>2, <2>1, <2>2, <3>1
    <3> QED BY <1>1, <2>1, <2>3, <3>2
  <2>6. ~(l < n)
    <3> SUFFICES ASSUME l < n PROVE FALSE
      OBVIOUS
    <3>1. l \in 1 .. n - 1
      BY <1>1, <2>1
    <3>2. a[l].at = b[l].at /\ b[l].at < b[n].at
      BY <1>2, <2>1, <2>2, <3>1
    <3> QED BY <1>1, <2>1, <2>4, <3>2
  <2>7. b[n].at <= a[n].at
    <3>1. n = k \/ n < k
      BY <1>1, <2>1, <2>5
    <3> QED BY <1>1, <1>2, <2>1, <2>3, <3>1
  <2>8. a[n].at <= b[n].at
    <3>1. n = l \/ n < l
      BY <1>1, <2>1, <2>6
    <3> QED BY <1>1, <1>2, <2>1, <2>4, <3>1
  <2>9. a[n].at = b[n].at
    BY <1>1, <2>1, <2>7, <2>8
  <2>10. \A i \in 1 .. n : i \in 1 .. n - 1 \/ i = n
    BY <2>1
  <2> QED BY <2>1, <2>2, <2>9, <2>10
<1>6. \A i \in 1 .. least : a[i].at = b[i].at
  <2> HIDE DEF Agree
  <2>1. \A n \in 0 .. least : n \in Agree
    BY <1>4, <1>5, CountTo
  <2>2. least \in Agree
    BY <1>4, <2>1
  <2> QED BY <2>2 DEF Agree
<1> HIDE DEF least, Agree
<1>7. la = lb
  <2>1. ~(la < lb)
    <3> SUFFICES ASSUME la < lb PROVE FALSE
      OBVIOUS
    <3>1. lb \in DOMAIN b /\ least = la
      BY <1>0, <1>4
    <3>2. PICK k \in DOMAIN a : a[k].at = b[lb].at
      BY <1>3, <3>1
    <3>3. k \in DOMAIN b /\ k < lb /\ a[k].at = b[k].at
      <4>1. k \in 1 .. least /\ k \in DOMAIN b /\ k < lb
        BY <1>0, <3>1
      <4> QED BY <1>6, <4>1
    <3>4. b[k].at < b[lb].at
      BY <1>2, <3>1, <3>3
    <3>5. b[k].at = b[lb].at /\ b[k].at \in Nat
      BY <1>1, <3>2, <3>3
    <3> HIDE DEF la, lb
    <3> QED BY <3>4, <3>5
  <2>2. ~(lb < la)
    <3> SUFFICES ASSUME lb < la PROVE FALSE
      OBVIOUS
    <3>1. la \in DOMAIN a /\ least = lb
      BY <1>0, <1>4
    <3>2. PICK k \in DOMAIN b : b[k].at = a[la].at
      BY <1>3, <3>1
    <3>3. k \in DOMAIN a /\ k < la /\ a[k].at = b[k].at
      <4>1. k \in 1 .. least /\ k \in DOMAIN a /\ k < la
        BY <1>0, <3>1
      <4> QED BY <1>6, <4>1
    <3>4. a[k].at < a[la].at
      BY <1>2, <3>1, <3>3
    <3>5. a[k].at = a[la].at /\ a[k].at \in Nat
      BY <1>1, <3>2, <3>3
    <3> HIDE DEF la, lb
    <3> QED BY <3>4, <3>5
  <2> QED BY <1>0, <2>1, <2>2
<1>8. \A i \in 1 .. la : a[i] = b[i]
  <2>1. least = la
    BY <1>4, <1>7
  <2> QED BY <1>1, <1>2, <1>6, <1>7, <2>1
<1> QED BY <1>1, <1>7, <1>8 DEF la, lb

\* What the last read ended on, while it can be compared: the inspector finds
\* the page sound exactly if that read was good, and then with its lines.
LEMMA Agreement ==
  ASSUME ReaderInv, Comparable
  PROVE  /\ Inspected.sound <=> outcome = "ok"
         /\ Inspected.sound => Inspected.pushed = delivered
<1> DEFINE lines == LinesOf(witness)
           page == parseRollout(lines, Expected)
           good == WellFormed(lines, Expected) /\ BoundaryReached(lines)
<1>1. /\ pc = "idle" /\ lines # <<>>
      /\ lines[1].kind = "session_meta" /\ lines[1].id = Expected
      /\ \A k \in DOMAIN lines : lines[k].kind # "undecodable"
      /\ outcome \in ContentReasons \cup {"ok"}
  BY DEF Comparable
<1>2. /\ witness \in Seq(Lines) /\ delivered \in Seq(Delivery)
      /\ ReadsExactly /\ RefusesOnlyInvalid
  BY DEF ReaderInv, TypeOK, Delivery
<1>3. lines \in Seq(Lines)
  BY <1>2, LinesOfType
<1>4. outcome = "ok" => good /\ IsListing(delivered, lines)
  BY <1>1, <1>2 DEF ReadsExactly
<1>5. outcome # "ok" => ~good
  BY <1>1, <1>2 DEF RefusesOnlyInvalid
<1> HIDE DEF lines
<1>6. /\ page.sound <=> good
      /\ page.sound => page.pushed \in Seq(Delivery) /\ IsListing(page.pushed, lines)
  BY <1>1, <1>3, InspectorIs
<1>7. Inspected = page
  BY DEF Inspected, lines
<1> HIDE DEF page, good
<1>8. page.sound => page.pushed = delivered
  BY <1>2, <1>4, <1>5, <1>6, ListingIsOne
<1> QED BY <1>4, <1>5, <1>6, <1>7, <1>8

\* What findRolloutCandidates can answer.
LEMMA CandidateFacts ==
  ASSUME NEW t \in Targets
  PROVE  /\ ~Selected(t) /\ findRolloutCandidates(t).authority = "none" =>
              t.page = "none" /\ t.found = 0 /\ ~t.rejected
         /\ Selected(t) /\ findRolloutCandidates(t).authority = "db" => t.page = "valid"
<1>1. /\ t.page \in {"none", "valid", "invalid"} /\ t.found \in 0 .. 2 /\ t.rejected \in BOOLEAN
  BY InspectionsAssumption DEF Target
<1>2. CASE t.page = "invalid"
  BY <1>2 DEF Selected, findRolloutCandidates
<1>3. CASE t.page = "valid"
  BY <1>3 DEF Selected, findRolloutCandidates
<1>4. CASE t.page = "none"
  <2>1. t.page # "invalid" /\ t.page # "valid"
    BY <1>4
  <2>2. CASE t.rejected \/ t.found > 1
    <3>1. findRolloutCandidates(t) = [status |-> "ambiguous", authority |-> "root"]
      BY <1>4, <2>1, <2>2 DEF findRolloutCandidates
    <3> QED BY <3>1 DEF Selected
  <2>3. CASE ~t.rejected /\ t.found = 1
    <3>1. findRolloutCandidates(t) = [status |-> "found", authority |-> "root"]
      BY <1>4, <2>1, <2>3 DEF findRolloutCandidates
    <3> QED BY <3>1 DEF Selected
  <2>4. CASE ~t.rejected /\ t.found = 0
    <3>1. findRolloutCandidates(t) = [status |-> "unavailable", authority |-> "none"]
      BY <1>4, <2>1, <2>4 DEF findRolloutCandidates
    <3> QED BY <1>4, <2>4, <3>1 DEF Selected
  <2> QED BY <1>1, <2>2, <2>3, <2>4
<1> QED BY <1>1, <1>2, <1>3, <1>4

LEMMA ParentsFinite ==
  ASSUME NEW t \in Targets
  PROVE  Cardinality(Parents(t)) \in Nat
<1> DEFINE named == t.edges \cup {Spawner(t), PageParent(t)}
<1>1. IsFiniteSet(t.edges)
  BY InspectionsAssumption
<1>2. IsFiniteSet({Spawner(t), PageParent(t)})
  <2>1. IsFiniteSet({} \cup {Spawner(t)})
    BY FS_EmptySet, FS_AddElement
  <2>2. IsFiniteSet(({} \cup {Spawner(t)}) \cup {PageParent(t)})
    BY <2>1, FS_AddElement
  <2>3. ({} \cup {Spawner(t)}) \cup {PageParent(t)} = {Spawner(t), PageParent(t)}
    OBVIOUS
  <2> QED BY <2>2, <2>3
<1>3. IsFiniteSet(named)
  BY <1>1, <1>2, FS_Union
<1>4. Parents(t) \subseteq named
  BY DEF Parents
<1> QED BY <1>3, <1>4, FS_Subset, FS_CardinalityType

\* What ClassOf says of the thread a message goes to.
LEMMA EligibleFacts ==
  ASSUME NEW t \in Targets, NEW page, Eligible(t, page)
  PROVE  /\ t.db = "read" /\ t.exists /\ t.archived = "no" /\ t.model
         /\ t.threadSource \in {"absent", "root"} /\ t.source \in {"absent", "benign"}
         /\ t.agent = "absent" /\ t.edgesReadable /\ t.edges = {}
         /\ Selected(t) => t.parent = None /\ page.sound
         /\ ~Selected(t) => t.page = "none" /\ t.found = 0 /\ ~t.rejected
<1> DEFINE kind == classifyTarget(t, page)
<1>1. /\ t.exists \in BOOLEAN /\ t.archived \in {"no", "yes", "strange"} /\ t.model \in BOOLEAN
      /\ t.threadSource \in {"absent", "root", "child", "strange"}
      /\ t.source \in {"absent", "benign", "internal", "subagent", "strange"}
      /\ t.agent \in {"absent", "present", "strange"}
      /\ t.edges \subseteq Threads \cup {Invalid} /\ t.parent \in Threads \cup {None, Invalid}
  BY InspectionsAssumption DEF Target, Parent
<1>2. /\ t.db = "read" /\ t.exists /\ t.archived \notin {"yes", "strange"} /\ t.model
      /\ kind # "ambiguous" /\ kind # "non-root"
  <2> HIDE DEF kind
  <2>1. ClassOf(t, page) \in {"active", "legacy-root-assumed"}
    BY DEF Eligible
  <2> QED BY <2>1, Zenon DEF ClassOf, kind
<1>3. ~SaysNothingClear(t, page) /\ ~SaysChild(t)
  BY <1>2 DEF classifyTarget
<1>4. /\ ~PageStrange(t, page) /\ t.edgesReadable
      /\ "strange" \notin {t.threadSource, t.source, t.agent}
      /\ Invalid \notin t.edges \cup {Spawner(t), PageParent(t)}
  BY <1>3 DEF SaysNothingClear
<1>5. /\ t.threadSource # "child" /\ t.source \notin {"internal", "subagent"}
      /\ t.agent # "present" /\ t.edges \cap Threads = {} /\ PageParent(t) \notin Threads
  BY <1>3 DEF SaysChild
<1>6. t.edges = {}
  BY <1>1, <1>4, <1>5
<1>7. ASSUME Selected(t) PROVE t.parent = None /\ page.sound
  <2>1. PageParent(t) = t.parent
    BY <1>7 DEF PageParent
  <2>2. t.parent = None
    BY <1>1, <1>4, <1>5, <2>1
  <2>3. PageStrange(t, page) <=> ~page.parsedOk \/ ~page.sound
    BY <1>7 DEF PageStrange
  <2> QED BY <1>4, <2>2, <2>3
<1>8. ASSUME ~Selected(t) PROVE t.page = "none" /\ t.found = 0 /\ ~t.rejected
  <2>1. PageStrange(t, page) <=> findRolloutCandidates(t).authority # "none"
    BY <1>8 DEF PageStrange
  <2> QED BY <1>4, <1>8, <2>1, CandidateFacts
<1>9. /\ t.archived = "no" /\ t.threadSource \in {"absent", "root"}
      /\ t.source \in {"absent", "benign"} /\ t.agent = "absent"
  BY <1>1, <1>2, <1>4, <1>5
<1> QED BY <1>2, <1>4, <1>6, <1>7, <1>8, <1>9

\* A child has one parent at most.
LEMMA ChildFacts ==
  ASSUME NEW t \in Targets, NEW page, ClassOf(t, page) = "non-root"
  PROVE  Cardinality(Parents(t)) <= 1
<1> DEFINE kind == classifyTarget(t, page)
           many == Cardinality(Parents(t)) > 1
<1>1. kind = "non-root"
  <2>1. kind \in {"ambiguous", "non-root", "root", "legacy-root-assumed"}
    BY DEF classifyTarget
  <2> HIDE DEF kind
  <2> QED BY <2>1, SMT DEF ClassOf, kind
<1>2. ~many
  <2> SUFFICES ASSUME many PROVE kind = "ambiguous"
    BY <1>1
  <2> HIDE DEF many
  <2> QED BY DEF classifyTarget, many
<1> QED BY <1>2, ParentsFinite

-----------------------------------------------------------------------------
(***************************************************************************)
(* A chain of reads is a chain of glimpses (AtomicReads).                  *)
(***************************************************************************)
LEMMA PrefixByItem ==
  ASSUME NEW S, NEW a \in Seq(S), NEW b \in Seq(S)
  PROVE  IsPrefix(a, b) <=> Len(a) <= Len(b) /\ \A i \in 1 .. Len(a) : a[i] = b[i]
<1>1. Len(a) \in Nat /\ Len(b) \in Nat
  OBVIOUS
<1>2. ASSUME Len(a) <= Len(b)
      PROVE  SubSeq(a, 1, Len(a)) = SubSeq(b, 1, Len(a)) <=> \A i \in 1 .. Len(a) : a[i] = b[i]
  <2>1. /\ SubSeq(a, 1, Len(a)) \in Seq(S) /\ SubSeq(b, 1, Len(a)) \in Seq(S)
        /\ Len(SubSeq(a, 1, Len(a))) = Len(a) /\ Len(SubSeq(b, 1, Len(a))) = Len(a)
        /\ \A i \in 1 .. Len(a) : SubSeq(a, 1, Len(a))[i] = a[i] /\ SubSeq(b, 1, Len(a))[i] = b[i]
    BY <1>1, <1>2
  <2> QED BY <2>1
<1> QED BY <1>1, <1>2 DEF IsPrefix

\* Of two files, of which one is a prefix of the other, so are the lines.
LEMMA LinesOfPrefix ==
  ASSUME NEW a \in Seq(Lines), NEW b \in Seq(Lines), Len(a) <= Len(b),
         \A i \in 1 .. Len(a) : a[i] = b[i]
  PROVE  /\ LinesOf(a) \in Seq(Lines) /\ LinesOf(b) \in Seq(Lines)
         /\ Len(LinesOf(a)) <= Len(LinesOf(b))
         /\ \A k \in 1 .. Len(LinesOf(a)) : LinesOf(a)[k] = LinesOf(b)[k]
<1> DEFINE n == Len(a) \div 2
           m == Len(b) \div 2
<1>1. n \in Nat /\ m \in Nat /\ n <= m
  <2>1. Len(a) \in Nat /\ Len(b) \in Nat
    OBVIOUS
  <2> QED BY <2>1
<1>2. /\ LinesOf(a) \in Seq(Lines) /\ Len(LinesOf(a)) = n
      /\ \A k \in 1 .. n : LinesOf(a)[k] = Joined(a[2 * k - 1], a[2 * k])
  BY LinesOfType
<1>3. /\ LinesOf(b) \in Seq(Lines) /\ Len(LinesOf(b)) = m
      /\ \A k \in 1 .. m : LinesOf(b)[k] = Joined(b[2 * k - 1], b[2 * k])
  BY LinesOfType
<1>4. ASSUME NEW k \in 1 .. n PROVE LinesOf(a)[k] = LinesOf(b)[k]
  <2>1. 2 * k - 1 \in 1 .. Len(a) /\ 2 * k \in 1 .. Len(a)
    OBVIOUS
  <2>2. a[2 * k - 1] = b[2 * k - 1] /\ a[2 * k] = b[2 * k]
    BY <2>1
  <2>3. k \in 1 .. m
    BY <1>1
  <2> QED BY <1>2, <1>3, <2>2, <2>3
<1> HIDE DEF n, m
<1> QED BY <1>1, <1>2, <1>3, <1>4

LEMMA ChainStarts == Init => ChainInv
BY DEF Init, ChainInv, Reading

\* No step lets the descriptor run ahead of the path, or what is read fall
\* back behind the caller's cursor.
LEMMA ChainKeeps ==
  ASSUME ReaderInv, ChainInv, [Next]_vars
  PROVE  ChainInv'
<1>0. inode \in Nat /\ inode >= 1 /\ observed \in Seq(Lines)
  BY Parts
<1>1. ASSUME UNCHANGED <<inode, opened, cursor, observed>>, pc' \in Reading => pc \in Reading,
             pc = "idle" => pc' = "idle"
      PROVE  ChainInv'
  BY <1>1 DEF ChainInv
<1>2. ASSUME pc' = "idle" PROVE ChainInv'
  BY <1>2 DEF ChainInv, Reading
<1>3. CASE Grow \/ Rewrite \/ Truncate
  <2>1. UNCHANGED <<inode, opened, cursor, observed, pc>>
    BY <1>3 DEF Grow, Rewrite, Truncate, Tamper, reading, caller
  <2> QED BY <1>1, <2>1
<1>4. CASE Replace
  <2>1. UNCHANGED <<opened, cursor, observed, pc>> /\ inode' = inode + 1
    BY <1>4 DEF Replace, Tamper, reading, caller
  <2>2. opened.inode \in 1 .. inode => opened.inode \in 1 .. inode'
    BY <1>0, <2>1
  <2> QED BY <2>1, <2>2 DEF ChainInv
<1>5. CASE Open
  <2>1. CASE Refusal # ""
    BY <1>2, <1>5, <2>1 DEF Open, Fail
  <2>2. CASE Refusal = ""
    <3>1. /\ opened'.inode = inode /\ inode' = inode /\ cursor' = cursor
          /\ pc' = (IF cursor = NoCursor THEN "read" ELSE "verify")
      <4>1. /\ opened' = [inode |-> inode, size |-> Len(disk),
                           anchor |-> AnchorAt(disk, Len(disk))]
            /\ pc' = (IF cursor = NoCursor THEN "read" ELSE "verify")
            /\ UNCHANGED <<cursor, delivered>> /\ UNCHANGED world
        BY <1>5, <2>2, Zenon DEF Open
      <4> QED BY <4>1 DEF world
    <3> QED BY <1>0, <3>1 DEF ChainInv, Reading
  <2> QED BY <2>1, <2>2
<1>6. CASE VerifyPrefix
  <2>1. CASE pc' = "idle"
    BY <1>2, <2>1
  <2>2. CASE pc' # "idle"
    <3>1. pc' = "replay" /\ pc = "verify" /\ UNCHANGED <<opened, inode>>
      BY <1>6, <2>2 DEF VerifyPrefix, Fail, world
    <3> QED BY <3>1 DEF ChainInv, Reading
  <2> QED BY <2>1, <2>2
<1>7. CASE Replay
  <2>1. CASE pc' = "idle"
    BY <1>2, <2>1
  <2>2. CASE pc' # "idle"
    <3>1. pc = "replay" /\ pc' = "read" /\ UNCHANGED <<opened, inode, observed, cursor>>
      BY <1>7, <2>2 DEF Replay, Fail, world
    <3>2. observed = cursor.prefix
      BY <3>1, Parts DEF ContentInv
    <3>3. IsPrefix(cursor.prefix, observed)
      BY <1>0, <3>2, PrefixByItem
    <3> QED BY <3>1, <3>3 DEF ChainInv
  <2> QED BY <2>1, <2>2
<1>8. CASE ReadHalf
  <2>1. CASE pc' = "idle"
    BY <1>2, <2>1
  <2>2. CASE pc' # "idle"
    <3>1. /\ pc = "read" /\ pc' = "read" /\ UNCHANGED <<opened, inode, cursor>>
          /\ Len(observed) < Len(Descriptor)
          /\ observed' = Append(observed, Descriptor[Len(observed) + 1])
      BY <1>8, <2>2 DEF ReadHalf, Fail, world
    <3>2. Descriptor[Len(observed) + 1] \in Lines
      BY <1>0, <3>1, DescriptorIs
    <3>3. ASSUME cursor # NoCursor PROVE IsPrefix(cursor.prefix, observed')
      <4>1. cursor.prefix \in Seq(Lines) /\ IsPrefix(cursor.prefix, observed)
        BY <3>1, <3>3, Parts DEF CursorInv, ChainInv, Reading
      <4>2. /\ Len(cursor.prefix) <= Len(observed)
            /\ \A i \in 1 .. Len(cursor.prefix) : cursor.prefix[i] = observed[i]
        BY <1>0, <4>1, PrefixByItem
      <4>3. /\ observed' \in Seq(Lines) /\ Len(observed') = Len(observed) + 1
            /\ \A i \in 1 .. Len(observed) : observed'[i] = observed[i]
        BY <1>0, <3>1, <3>2
      <4>4. /\ Len(cursor.prefix) <= Len(observed')
            /\ \A i \in 1 .. Len(cursor.prefix) : cursor.prefix[i] = observed'[i]
        BY <1>0, <4>1, <4>2, <4>3
      <4> QED BY <4>1, <4>3, <4>4, PrefixByItem
    <3> QED BY <3>1, <3>3 DEF ChainInv, Reading
  <2> QED BY <2>1, <2>2
<1>9. CASE EndOfFile
  <2>1. pc = "read" /\ pc' = "recheck" /\ UNCHANGED <<inode, opened, cursor, observed>>
    BY <1>9 DEF EndOfFile, world, reading, caller
  <2> QED BY <1>1, <2>1 DEF Reading
<1>10. CASE Recheck
  <2>1. CASE pc' = "idle"
    BY <1>2, <2>1
  <2>2. CASE pc' # "idle"
    <3>1. pc = "recheck" /\ UNCHANGED <<inode, opened, cursor, observed>>
      BY <1>10, <2>2 DEF Recheck, Fail, world
    <3> QED BY <1>1, <3>1 DEF Reading
  <2> QED BY <2>1, <2>2
<1>11. CASE CheckPath \/ Deadline
  BY <1>2, <1>11 DEF CheckPath, Deadline, Fail
<1>12. CASE StartOver
  BY <1>2, <1>12 DEF StartOver
<1>13. CASE UNCHANGED vars
  <2>1. UNCHANGED <<inode, opened, cursor, observed, pc>>
    BY <1>13 DEF vars, world, reading, caller
  <2> QED BY <1>1, <2>1
<1> QED BY <1>3, <1>4, <1>5, <1>6, <1>7, <1>8, <1>9, <1>10, <1>11, <1>12, <1>13
     DEF Next, ReadStep

LEMMA ReadsStart ==
  ASSUME Init
  PROVE  Reads!Init
<1>1. disk \in Seq(Lines)
  BY InitHolds, Parts
<1>2. LinesOf(disk) \in Seq(Lines)
  BY <1>1, LinesOfType
<1>3. pc = "idle" /\ cursor = NoCursor /\ delivered = <<>>
  BY DEF Init
<1> QED BY <1>2, <1>3 DEF Reads!Init, Glimpsed, HeldLines

\* A step of the others, at most, voids the glimpse of a read.
LEMMA OthersChange ==
  ASSUME ReaderInv, ReaderInv', HeldLines' = HeldLines, delivered' = delivered,
         Glimpsed' \in {Glimpsed, <<>>}
  PROVE  Reads!Change
<1>1. disk' \in Seq(Lines)
  BY DEF ReaderInv, TypeOK
<1>2. LinesOf(disk') \in Seq(Lines)
  BY <1>1, LinesOfType
<1> QED BY <1>2 DEF Reads!Change

\* A step of the reader that looks at nothing and hands on nothing.
LEMMA ReaderSilent ==
  ASSUME UNCHANGED <<disk, cursor, delivered>>, Glimpsed' \in {Glimpsed, <<>>}
  PROVE  [Reads!Next]_Reads!vars
<1>1. LinesOf(disk)' = LinesOf(disk) /\ HeldLines' = HeldLines /\ delivered' = delivered
  BY DEF HeldLines
<1>2. CASE Glimpsed' = Glimpsed
  BY <1>1, <1>2 DEF Reads!vars
<1>3. CASE Glimpsed' = <<>>
  BY <1>1, <1>3 DEF Reads!Next, Reads!Fail
<1> QED BY <1>2, <1>3

\* Recheck: what was read is what the file at the path begins with, if the
\* descriptor is still of that.
LEMMA RecheckGlimpses ==
  ASSUME ReaderInv, Recheck
  PROVE  [Reads!Next]_Reads!vars
<1>1. /\ pc = "recheck" /\ UNCHANGED <<disk, inode>> /\ UNCHANGED <<cursor, delivered>>
      /\ pc' \in {"idle", "path"}
  BY DEF Recheck, Fail, world
<1>2. Glimpsed = <<>>
  BY <1>1 DEF Glimpsed
<1>3. CASE Glimpsed' = <<>>
  BY <1>1, <1>2, <1>3, ReaderSilent
<1>4. CASE Glimpsed' # <<>>
  <2>1. pc' = "path" /\ inode' = opened'.inode /\ Glimpsed' = LinesOf(observed')
    BY <1>4 DEF Glimpsed
  <2>2. /\ Len(Descriptor) >= Len(observed) /\ PrefixOf(Descriptor, Len(observed)) = observed
        /\ opened' = opened /\ observed' = observed
    <3>1. pc' # "idle"
      BY <2>1
    <3>2. /\ ~(Len(Descriptor) < opened.size \/ Len(Descriptor) < Len(observed))
          /\ Unchanged /\ opened' = opened /\ observed' = observed
      BY <3>1 DEF Recheck, Fail
    <3>3. Len(Descriptor) \in Nat /\ Len(observed) \in Nat
      BY Parts, DescriptorIs
    <3> QED BY <3>2, <3>3 DEF Unchanged
  <2>3. Descriptor = disk
    BY <1>1, <2>1, <2>2 DEF Descriptor
  <2>4. disk \in Seq(Lines) /\ observed \in Seq(Lines) /\ Len(observed) <= Len(disk)
    BY <2>2, <2>3, Parts
  <2>5. \A i \in 1 .. Len(observed) : observed[i] = disk[i]
    BY <2>2, <2>3, <2>4, SeenIs
  <2> DEFINE part == LinesOf(observed)
             whole == LinesOf(disk)
  <2>6. /\ part \in Seq(Lines) /\ whole \in Seq(Lines) /\ Len(part) <= Len(whole)
        /\ \A k \in 1 .. Len(part) : part[k] = whole[k]
    BY <2>4, <2>5, LinesOfPrefix
  <2>7. Glimpsed' = part /\ LinesOf(disk)' = whole /\ HeldLines' = HeldLines
        /\ delivered' = delivered
    BY <1>1, <2>1, <2>2 DEF HeldLines
  <2> HIDE DEF part, whole
  <2>8. Len(part) \in 1 .. Len(whole) /\ part = SubSeq(whole, 1, Len(part))
    <3>1. part # <<>> /\ Len(part) \in Nat /\ Len(whole) \in Nat
      BY <1>4, <2>6, <2>7
    <3>2. Len(part) # 0
      BY <2>6, <3>1
    <3>3. Len(part) \in 1 .. Len(whole)
      BY <2>6, <3>1, <3>2
    <3> QED BY <2>6, <3>1, <3>3
  <2> QED BY <2>7, <2>8 DEF Reads!Next, Reads!Glimpse, whole
<1> QED BY <1>3, <1>4

\* CheckPath: a read that ends well hands on what was glimpsed.
LEMMA PathSucceeds ==
  ASSUME ReaderInv, ReaderInv', ChainInv, CheckPath
  PROVE  [Reads!Next]_Reads!vars
<1>1. pc = "path" /\ pc' = "idle" /\ disk' = disk /\ inode' = inode /\ witness' = witness
  BY DEF CheckPath, Fail, world
<1>2. Glimpsed' = <<>>
  BY <1>1 DEF Glimpsed
<1>3. CASE FinalRefusal # ""
  <2>1. UNCHANGED <<cursor, delivered>>
    BY <1>3 DEF CheckPath, Fail
  <2> QED BY <1>1, <1>2, <2>1, ReaderSilent
<1>4. CASE FinalRefusal = ""
  <2> DEFINE lines == LinesOf(observed)
  <2>1. inode = opened.inode
    BY <1>4 DEF FinalRefusal
  <2>2. /\ observed \in Seq(Lines) /\ delivered \in Seq(Delivery) /\ fresh \in Seq(Delivery)
        /\ witness = observed
    BY <1>1, Parts DEF ContentInv
  <2>3. outcome' = "ok" /\ delivered' = delivered \o fresh /\ cursor'.prefix = observed
        /\ cursor'.inode = inode
    <3>1. /\ outcome' = "ok" /\ delivered' = delivered \o fresh
          /\ cursor' = [inode |-> inode, size |-> Len(disk), offset |-> Len(observed),
                        prefix |-> observed, pending |-> PendingOf(observed),
                        lineNumber |-> state.lineNumber, first |-> state.first,
                        lastTimestamp |-> state.lastTimestamp,
                        scope |-> state.scope, who |-> state.who]
      BY <1>4 DEF CheckPath
    <3> QED BY <3>1
  <2>4. Glimpsed = lines
    BY <1>1, <2>1 DEF Glimpsed
  <2>5. HeldLines' = lines
    <3>1. cursor' # NoCursor
      <4>1. inode >= 1 /\ inode \in Nat
        BY Parts
      <4>2. NoCursor.inode = 0
        BY DEF NoCursor
      <4> QED BY <2>3, <4>1, <4>2
    <3> QED BY <2>3, <3>1 DEF HeldLines
  <2>6. IsListing(delivered', lines) /\ Acceptable(lines)
    <3>1. ReadsExactly'
      BY DEF ReaderInv
    <3>2. LinesOf(witness') = lines
      BY <1>1, <2>2
    <3> QED BY <1>1, <2>3, <3>1, <3>2 DEF ReadsExactly, Acceptable
  <2>7. IsPrefix(HeldLines, lines)
    <3>1. lines \in Seq(Lines)
      BY <2>2, LinesOfType
    <3>2. CASE cursor = NoCursor
      <4> DEFINE none == <<>>
      <4>1. HeldLines = none
        BY <3>2 DEF HeldLines
      <4> HIDE DEF lines
      <4>2. /\ none \in Seq(Lines) /\ Len(none) <= Len(lines)
            /\ \A i \in 1 .. Len(none) : none[i] = lines[i]
        BY <3>1
      <4> HIDE DEF none
      <4> QED BY <3>1, <4>1, <4>2, PrefixByItem
    <3>3. CASE cursor # NoCursor
      <4>1. cursor.prefix \in Seq(Lines) /\ IsPrefix(cursor.prefix, observed)
        BY <1>1, <3>3, Parts DEF CursorInv, ChainInv, Reading
      <4>2. /\ Len(cursor.prefix) <= Len(observed)
            /\ \A i \in 1 .. Len(cursor.prefix) : cursor.prefix[i] = observed[i]
        BY <2>2, <4>1, PrefixByItem
      <4> DEFINE before == LinesOf(cursor.prefix)
      <4>3. /\ before \in Seq(Lines) /\ Len(before) <= Len(lines)
            /\ \A k \in 1 .. Len(before) : before[k] = lines[k]
        BY <2>2, <4>1, <4>2, LinesOfPrefix
      <4>4. HeldLines = before
        BY <3>3 DEF HeldLines
      <4> HIDE DEF lines, before
      <4> QED BY <3>1, <4>3, <4>4, PrefixByItem
    <3> QED BY <3>2, <3>3
  <2>8. IsPrefix(delivered, delivered')
    <3>1. /\ delivered' \in Seq(Delivery) /\ Len(delivered) <= Len(delivered')
          /\ \A i \in 1 .. Len(delivered) : delivered[i] = delivered'[i]
      BY <2>2, <2>3
    <3> QED BY <2>2, <3>1, PrefixByItem
  <2> HIDE DEF lines
  <2>9. LinesOf(disk)' = LinesOf(disk)
    BY <1>1
  <2>10. Reads!IsPrefix(HeldLines, Glimpsed) /\ Reads!IsPrefix(delivered, delivered')
    BY <2>4, <2>7, <2>8 DEF Reads!IsPrefix, IsPrefix
  <2> QED BY <1>2, <2>4, <2>5, <2>6, <2>9, <2>10 DEF Reads!Next, Reads!Succeed
<1> QED BY <1>3, <1>4

\* Every step is one of AtomicReads, or none.
LEMMA ReadsStep ==
  ASSUME ReaderInv, ReaderInv', ChainInv, [Next]_vars
  PROVE  [Reads!Next]_Reads!vars
<1>1. CASE Grow \/ Rewrite \/ Truncate
  <2>1. UNCHANGED <<inode, opened, cursor, observed, pc, delivered>>
    BY <1>1 DEF Grow, Rewrite, Truncate, Tamper, reading, caller
  <2>2. HeldLines' = HeldLines /\ Glimpsed' = Glimpsed
    BY <2>1 DEF HeldLines, Glimpsed
  <2> QED BY <2>1, <2>2, OthersChange DEF Reads!Next
<1>2. CASE Replace
  <2>1. UNCHANGED <<opened, cursor, observed, pc, delivered>> /\ inode' = inode + 1
    BY <1>2 DEF Replace, Tamper, reading, caller
  <2>2. HeldLines' = HeldLines
    BY <2>1 DEF HeldLines
  <2>3. Glimpsed' = <<>>
    <3>1. inode \in Nat /\ (pc = "path" => opened.inode \in 1 .. inode)
      BY Parts DEF ChainInv
    <3>2. pc = "path" => inode' # opened'.inode
      BY <2>1, <3>1
    <3> QED BY <2>1, <3>2 DEF Glimpsed
  <2> QED BY <2>1, <2>2, <2>3, OthersChange DEF Reads!Next
<1>3. ASSUME UNCHANGED <<disk, cursor, delivered>>, pc' # "path"
      PROVE  [Reads!Next]_Reads!vars
  <2>1. Glimpsed' = <<>>
    BY <1>3 DEF Glimpsed
  <2> QED BY <1>3, <2>1, ReaderSilent
<1>4. CASE Open \/ VerifyPrefix \/ Replay \/ ReadHalf \/ EndOfFile \/ Deadline
  <2>1. UNCHANGED <<disk, cursor, delivered>> /\ pc' # "path"
    <3>1. CASE Open
      BY <3>1 DEF Open, Fail, world
    <3>2. CASE VerifyPrefix
      BY <3>2 DEF VerifyPrefix, Fail, world
    <3>3. CASE Replay
      BY <3>3 DEF Replay, Fail, world
    <3>4. CASE ReadHalf
      BY <3>4 DEF ReadHalf, Fail, world
    <3>5. CASE EndOfFile
      BY <3>5 DEF EndOfFile, world, caller
    <3>6. CASE Deadline
      BY <3>6 DEF Deadline, Fail, world
    <3> QED BY <1>4, <3>1, <3>2, <3>3, <3>4, <3>5, <3>6
  <2> QED BY <1>3, <2>1
<1>5. CASE Recheck
  BY <1>5, RecheckGlimpses
<1>6. CASE CheckPath
  BY <1>6, PathSucceeds
<1>7. CASE StartOver
  <2>1. /\ pc = "idle" /\ pc' = "idle" /\ cursor' = NoCursor /\ delivered' = <<>>
        /\ disk' = disk
    BY <1>7 DEF StartOver, world
  <2>2. /\ HeldLines' = <<>> /\ Glimpsed = <<>> /\ Glimpsed' = <<>>
        /\ LinesOf(disk)' = LinesOf(disk)
    BY <2>1 DEF HeldLines, Glimpsed
  <2> QED BY <2>1, <2>2 DEF Reads!Next, Reads!StartOver
<1>8. CASE UNCHANGED vars
  <2>1. UNCHANGED <<disk, inode, opened, cursor, observed, pc, delivered>>
    BY <1>8 DEF vars, world, reading, caller
  <2>2. Glimpsed' = Glimpsed
    BY <2>1 DEF Glimpsed
  <2> QED BY <2>1, <2>2, ReaderSilent
<1> QED BY <1>1, <1>2, <1>4, <1>5, <1>6, <1>7, <1>8 DEF Next, ReadStep

-----------------------------------------------------------------------------
(***************************************************************************)
(* The theorems.                                                           *)
(***************************************************************************)

\* The invariant of readRolloutFile and its caller: the reader's state is that
\* of the lines it has consumed, the caller's lines are those of its cursor,
\* and what was seen of a file that only grew is still there.
THEOREM ReaderInvariance == Spec => []ReaderInv
<1>1. Init => ReaderInv
  BY InitHolds
<1>2. ReaderInv /\ [Next]_vars => ReaderInv'
  BY StepKeeps
<1> QED BY <1>1, <1>2, PTL DEF Spec

\* Every variable of readRolloutFile and its caller keeps its type.
THEOREM ReaderTypes == Spec => []TypeOK
<1>1. ReaderInv => TypeOK
  BY DEF ReaderInv
<1> QED BY <1>1, ReaderInvariance, PTL

\* After a good read the caller has each of the thread's own lines of the file
\* once and in order, whatever was written, torn, rewritten or replaced while
\* the chain of reads was under way (readRolloutFile, chained by its cursor).
THEOREM ReadIsExact == Spec => []ReadsExactly
<1>1. ReaderInv => ReadsExactly
  BY DEF ReaderInv
<1> QED BY <1>1, ReaderInvariance, PTL

\* parseLine and the end of readRolloutFile refuse no rollout of the thread
\* that has reached its boundary for what it says.
THEOREM NoValidRefusal == Spec => []RefusesOnlyInvalid
<1>1. ReaderInv => RefusesOnlyInvalid
  BY DEF ReaderInv
<1> QED BY <1>1, ReaderInvariance, PTL

\* While the file is only appended to, replayConsumedHistoryScope agrees with
\* the read before, and no cursor is refused.
THEOREM NoResumeRefused == Spec => []ResumeNeverRefused
<1>1. ReaderInv => ResumeNeverRefused
  BY DEF ReaderInv
<1> QED BY <1>1, ReaderInvariance, PTL

\* The inspector's parser and readRolloutFile tell one story of one page
\* (parseRollout, and the reader that waits and proves).
THEOREM OneStory == Spec => []InspectorAgrees
<1>1. ReaderInv => InspectorAgrees
  BY Agreement DEF InspectorAgrees
<1> QED BY <1>1, ReaderInvariance, PTL

\* Only a thread of which everything that was found says that it is nobody's
\* child is written to, on a page the reader certifies (classifyTarget and
\* classify_inspected_target).
THEOREM OnlyRootsEligible == Spec => []EligibleIsProven
<1>1. ASSUME ReaderInv PROVE EligibleIsProven
  <2> SUFFICES ASSUME Comparable, NEW t \in Targets
               PROVE  LET page == Inspected
                      IN /\ Eligible(t, page) =>
                              /\ t.db = "read" /\ t.exists /\ t.archived = "no" /\ t.model
                              /\ t.threadSource \in {"absent", "root"}
                              /\ t.source \in {"absent", "benign"}
                              /\ t.agent = "absent" /\ t.edgesReadable /\ t.edges = {}
                              /\ Selected(t) => t.parent = None /\ outcome = "ok"
                              /\ ~Selected(t) => t.page = "none" /\ t.found = 0 /\ ~t.rejected
                         /\ ClassOf(t, page) = "non-root" => Cardinality(Parents(t)) <= 1
                         /\ Eligible(t, page) /\ NamesPage(t, page) =>
                              t.page = "valid" /\ outcome = "ok"
    BY DEF EligibleIsProven
  <2> DEFINE page == Inspected
  <2>1. page.sound <=> outcome = "ok"
    BY <1>1, Agreement
  <2> HIDE DEF page
  <2>2. ASSUME Eligible(t, page)
        PROVE  /\ t.db = "read" /\ t.exists /\ t.archived = "no" /\ t.model
               /\ t.threadSource \in {"absent", "root"} /\ t.source \in {"absent", "benign"}
               /\ t.agent = "absent" /\ t.edgesReadable /\ t.edges = {}
               /\ Selected(t) => t.parent = None /\ outcome = "ok"
               /\ ~Selected(t) => t.page = "none" /\ t.found = 0 /\ ~t.rejected
    BY <2>1, <2>2, EligibleFacts
  <2>3. ASSUME ClassOf(t, page) = "non-root" PROVE Cardinality(Parents(t)) <= 1
    BY <2>3, ChildFacts
  <2>4. ASSUME Eligible(t, page), NamesPage(t, page)
        PROVE  t.page = "valid" /\ outcome = "ok"
    <3>1. Selected(t) /\ findRolloutCandidates(t).authority = "db"
      BY <2>4 DEF NamesPage
    <3> QED BY <2>2, <2>4, <3>1, CandidateFacts
  <2> QED BY <2>2, <2>3, <2>4 DEF page
<1> QED BY <1>1, ReaderInvariance, PTL

\* The open descriptor is of a file that has been at the path, and a read goes
\* on from what its caller holds (readRolloutFile, from its cursor).
THEOREM ChainInvariance == Spec => []ChainInv
<1>1. ReaderInv /\ ChainInv /\ [Next]_vars => ChainInv'
  BY ChainKeeps
<1> QED BY <1>1, ChainStarts, ReaderInvariance, PTL DEF Spec

\* A chain of reads of readRolloutFile implements AtomicReads: with any number
\* of changes to the file between its accesses, a good read hands on what the
\* file at its path held at one moment of the read, and nothing else does.
THEOREM ReadsRefine == Spec => ReadsAreAtomic
<1>1. Init => Reads!Init
  BY ReadsStart
<1>2. ReaderInv /\ ReaderInv' /\ ChainInv /\ [Next]_vars => [Reads!Next]_Reads!vars
  BY ReadsStep
<1> QED BY <1>1, <1>2, ReaderInvariance, ChainInvariance, PTL
     DEF Spec, ReadsAreAtomic, Reads!Spec
=============================================================================
