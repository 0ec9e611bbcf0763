--------------------------- MODULE PageHarvestProofs ---------------------------
(***************************************************************************)
(* Proofs about PageHarvest, for directories of any finite number of       *)
(* paths, any contents, and any number of changes to them.                 *)
(*                                                                         *)
(* Files keep their first record for good.  So what a candidate claimed    *)
(* when it was checked it claimed when the root was listed, and a claim    *)
(* missed then is one that no check could have refuted.                    *)
(***************************************************************************)
EXTENDS PageHarvest, FiniteSetTheorems, WellFoundedInduction, TLAPS

USE RolloutPagesAssumption, PageHarvestAssumption

-----------------------------------------------------------------------------
(***************************************************************************)
(* Lemmas about numbers and files.                                         *)
(***************************************************************************)

LEMMA MinIsMember ==
  ASSUME NEW S \in SUBSET Nat, S # {}
  PROVE  Min(S) \in S
<1>1. PICK x \in S : \A y \in S : ~ (<<y, x>> \in OpToRel(<, Nat))
  BY NatLessThanWellFounded, WFMin
<1>2. ASSUME NEW y \in S PROVE x =< y
  <2>1. y < x => <<y, x>> \in OpToRel(<, Nat)
    BY DEF OpToRel
  <2>2. ~ (y < x)
    BY <1>1, <2>1
  <2> QED BY <2>2
<1> QED BY <1>2 DEF Min

LEMMA CountIsNat == Cardinality(Paths) \in Nat
BY FS_CardinalityType

LEMMA FileWithHeader ==
  ASSUME NEW f \in File, NEW h \in {"unterminated", "terminated"}, NEW n \in Nat
  PROVE  [f EXCEPT !.header = h] \in File /\ [f EXCEPT !.header = h, !.size = n] \in File
BY DEF File

\* A file that is written to keeps its number and its first record.
LEMMA FinishedFile ==
  ASSUME NEW f \in File
  PROVE  /\ Finished(f) \in File /\ Finished(f).inode = f.inode
         /\ Finished(f).owner = f.owner /\ Finished(f).base = f.base
         /\ Finished(f).size >= f.size
<1>1. /\ [f EXCEPT !.header = "unterminated"] \in File
      /\ [f EXCEPT !.header = "terminated", !.size = f.size + 1] \in File
  <2>1. f.size + 1 \in Nat
    BY DEF File
  <2> QED BY <2>1, FileWithHeader, Zenon
<1>2. LET g == [f EXCEPT !.header = "unterminated"]
      IN g.inode = f.inode /\ g.owner = f.owner /\ g.base = f.base /\ g.size = f.size
  BY DEF File
<1>3. LET g == [f EXCEPT !.header = "terminated", !.size = f.size + 1]
      IN g.inode = f.inode /\ g.owner = f.owner /\ g.base = f.base /\ g.size = f.size + 1
  BY DEF File
<1>4. f.size \in Nat
  BY DEF File
<1> QED BY <1>1, <1>2, <1>3, <1>4 DEF Finished

LEMMA GrownFile ==
  ASSUME NEW f \in File, NEW n \in Nat
  PROVE  LET g == [f EXCEPT !.size = n]
         IN /\ g \in File /\ g.inode = f.inode /\ g.owner = f.owner /\ g.base = f.base
            /\ g.size = n /\ f.size \in Nat
BY DEF File

LEMMA RenumberedFile ==
  ASSUME NEW f \in File, NEW n \in Nat
  PROVE  LET g == [f EXCEPT !.inode = n]
         IN /\ g \in File /\ g.inode = n /\ g.owner = f.owner /\ g.base = f.base
            /\ g.size = f.size /\ f.size \in Nat
BY DEF File

-----------------------------------------------------------------------------
(***************************************************************************)
(* The world.                                                              *)
(***************************************************************************)

World == NewPage \/ FinishHeader \/ Grow \/ Replace \/ Disturb

\* The numbers of the files: none is taken yet that a new file may get, and
\* paths with one number have one first record.
NumbersAreSound ==
  /\ \A p \in Present(dir) : dir[p].inode <= Cardinality(Paths) + changes
  /\ \A p, q \in Present(dir) : dir[p].inode = dir[q].inode => dir[p].base = dir[q].base

\* The harvester's page is there.
PageIsPresent == page # NoPage => page.path \in Present(dir)

\* What becomes of a file in one step: it stays, with its first record; only
\* the page being read may get another number; what is said of it changes only
\* when it grows.
FileStays(p) ==
  /\ p \in Present(dir') /\ dir'[p].base = dir[p].base /\ dir'[p].owner = dir[p].owner
  /\ dir'[p].inode = dir[p].inode \/ (page # NoPage /\ p = page.path)
  /\ dir[p].size \in Nat /\ dir'[p].size \in Nat /\ dir'[p].size >= dir[p].size
  /\ dir'[p].size = dir[p].size => says'[p] = says[p]

LEMMA PresentIsFile ==
  ASSUME TypeOK, NEW p \in Present(dir)
  PROVE  p \in Paths /\ dir[p] \in File /\ dir[p].size \in Nat /\ dir[p].inode \in Nat
<1>1. p \in Paths /\ dir[p] \in File
  BY DEF TypeOK, Present
<1> QED BY <1>1 DEF File

\* A file that keeps its number and its first record, and does not shrink.
Kept(f, g) ==
  /\ g \in File /\ g.inode = f.inode /\ g.base = f.base /\ g.owner = f.owner
  /\ g.size \in Nat /\ g.size >= f.size

LEMMA FilesKept ==
  ASSUME TypeOK, NumbersAreSound, changes' = changes + 1,
         \A q \in Paths : dir'[q] = dir[q] \/ (q \in Present(dir) /\ Kept(dir[q], dir'[q]))
  PROVE  /\ Present(dir') = Present(dir) /\ NumbersAreSound'
         /\ \A q \in Present(dir) : Kept(dir[q], dir'[q])
<1>1. ASSUME NEW q \in Present(dir) PROVE Kept(dir[q], dir'[q]) /\ q \in Paths
  BY PresentIsFile DEF Kept
<1>2. ASSUME NEW q \in Paths PROVE q \in Present(dir') <=> q \in Present(dir)
  BY <1>1 DEF Present, Kept
<1>3. Present(dir') = Present(dir)
  BY <1>2 DEF Present
<1>4. changes \in Nat /\ Cardinality(Paths) \in Nat
  BY CountIsNat DEF TypeOK
<1>5. \A q \in Present(dir) : dir[q].inode \in Nat /\ dir'[q].inode = dir[q].inode
                              /\ dir'[q].base = dir[q].base
  BY <1>1, PresentIsFile DEF Kept
<1>6. \A p \in Present(dir') : dir'[p].inode <= Cardinality(Paths) + changes'
  BY <1>3, <1>4, <1>5 DEF NumbersAreSound
<1>7. \A p, q \in Present(dir') : dir'[p].inode = dir'[q].inode => dir'[p].base = dir'[q].base
  BY <1>3, <1>5 DEF NumbersAreSound
<1> QED BY <1>1, <1>3, <1>6, <1>7 DEF NumbersAreSound

LEMMA Untouched ==
  ASSUME TypeOK, NEW q \in Present(dir), q \in Present(dir'), dir'[q] = dir[q], says'[q] = says[q]
  PROVE  FileStays(q)
<1>1. dir[q].size \in Nat /\ dir[q].size >= dir[q].size
  BY PresentIsFile
<1> QED BY <1>1, Zenon DEF FileStays

LEMMA FinishHeaderStep ==
  ASSUME TypeOK, NumbersAreSound, FinishHeader
  PROVE  /\ dir' \in [Paths -> File \cup {None}] /\ says' = says /\ NumbersAreSound'
         /\ \A q \in Present(dir) : FileStays(q)
<1>1. PICK p \in Present(dir) :
        dir' = [q \in Paths |-> IF q \in Links(p) THEN Finished(dir[q]) ELSE dir[q]]
  BY DEF FinishHeader
<1>2. \A q \in Paths : dir'[q] = dir[q] \/ (q \in Present(dir) /\ Kept(dir[q], dir'[q]))
  <2>1. ASSUME NEW q \in Links(p) PROVE q \in Present(dir) /\ Kept(dir[q], Finished(dir[q]))
    <3>1. q \in Present(dir) /\ dir[q] \in File
      BY <2>1, PresentIsFile DEF Links
    <3>2. Finished(dir[q]).size \in Nat
      BY <3>1, FinishedFile DEF File
    <3> QED BY <3>1, <3>2, FinishedFile DEF Kept
  <2> QED BY <1>1, <2>1
<1>3. changes' = changes + 1 /\ says' = says
  BY DEF FinishHeader, Change
<1>4. /\ Present(dir') = Present(dir) /\ NumbersAreSound'
      /\ \A q \in Present(dir) : Kept(dir[q], dir'[q])
  BY <1>2, <1>3, FilesKept
<1>5. dir' \in [Paths -> File \cup {None}]
  BY <1>1, <1>4 DEF TypeOK, Kept, Present
<1> QED BY <1>3, <1>4, <1>5, PresentIsFile DEF FileStays, Kept

LEMMA GrowStep ==
  ASSUME TypeOK, NumbersAreSound, Grow
  PROVE  /\ dir' \in [Paths -> File \cup {None}] /\ says' \in [Paths -> Dispatches]
         /\ NumbersAreSound' /\ \A q \in Present(dir) : FileStays(q)
<1>1. PICK p \in Present(dir), more \in {1, 2} :
        /\ dir' = [q \in Paths |-> IF q \in Links(p) THEN [dir[q] EXCEPT !.size = @ + more]
                                   ELSE dir[q]]
        /\ IF (dir[p].size + more) % 2 = 0
           THEN \E next \in Follows[says[p]] :
                  says' = [q \in Paths |-> IF q \in Links(p) THEN next ELSE says[q]]
           ELSE UNCHANGED says
  BY DEF Grow
<1>2. p \in Paths
  BY PresentIsFile
<1>3. /\ says' \in [Paths -> Dispatches]
      /\ \A q \in Paths : q \notin Links(p) => says'[q] = says[q]
  <2>1. CASE UNCHANGED says
    BY <2>1 DEF TypeOK
  <2>2. ASSUME NEW next \in Follows[says[p]],
               says' = [q \in Paths |-> IF q \in Links(p) THEN next ELSE says[q]]
        PROVE  /\ says' \in [Paths -> Dispatches]
               /\ \A q \in Paths : q \notin Links(p) => says'[q] = says[q]
    <3>1. next \in Dispatches
      BY <1>2 DEF TypeOK
    <3> QED BY <2>2, <3>1 DEF TypeOK
  <2> QED BY <1>1, <2>1, <2>2
<1>4. ASSUME NEW q \in Links(p)
      PROVE  q \in Present(dir) /\ Kept(dir[q], dir'[q]) /\ dir'[q].size # dir[q].size
  <2>1. q \in Present(dir) /\ q \in Paths /\ dir[q] \in File
    BY <1>4, PresentIsFile DEF Links
  <2>2. dir[q].size \in Nat /\ dir[q].size + more \in Nat
    BY <2>1, PresentIsFile
  <2> DEFINE grown == [dir[q] EXCEPT !.size = dir[q].size + more]
  <2>3. /\ grown \in File /\ grown.inode = dir[q].inode /\ grown.owner = dir[q].owner
        /\ grown.base = dir[q].base /\ grown.size = dir[q].size + more
    BY <2>1, <2>2, GrownFile
  <2>4. dir'[q] = grown
    BY <1>1, <1>4, <2>1
  <2> HIDE DEF grown
  <2> QED BY <2>1, <2>2, <2>3, <2>4 DEF Kept
<1>5. ASSUME NEW q \in Paths, q \notin Links(p) PROVE dir'[q] = dir[q]
  BY <1>1, <1>5
<1>6. changes' = changes + 1
  BY DEF Grow, Change
<1>7. /\ Present(dir') = Present(dir) /\ NumbersAreSound'
      /\ \A q \in Present(dir) : Kept(dir[q], dir'[q])
  BY <1>4, <1>5, <1>6, FilesKept
<1>8. dir' \in [Paths -> File \cup {None}]
  BY <1>1, <1>7 DEF TypeOK, Kept, Present
<1>9. ASSUME NEW q \in Present(dir) PROVE FileStays(q)
  <2>1. q \in Paths /\ dir[q].size \in Nat /\ Kept(dir[q], dir'[q])
    BY <1>7, PresentIsFile
  <2>2. dir'[q].size = dir[q].size => says'[q] = says[q]
    BY <1>3, <1>4, <2>1
  <2> QED BY <1>7, <2>1, <2>2 DEF FileStays, Kept
<1> QED BY <1>3, <1>7, <1>8, <1>9

\* A number that is free.
LEMMA FreshIsFree ==
  ASSUME TypeOK, NumbersAreSound
  PROVE  FreshInode \in Nat /\ \A q \in Present(dir) : dir[q].inode < FreshInode
<1>1. Cardinality(Paths) \in Nat /\ changes \in Nat
  BY CountIsNat DEF TypeOK
<1>2. \A q \in Present(dir) : dir[q].inode \in Nat
  BY PresentIsFile
<1> QED BY <1>1, <1>2 DEF FreshInode, NumbersAreSound

\* One path gets a file with a free number.
LEMMA FreshFile ==
  ASSUME TypeOK, NumbersAreSound, NEW p \in Paths, NEW file \in File,
         file.inode = FreshInode, dir' = [dir EXCEPT ![p] = file], changes' = changes + 1
  PROVE  /\ dir' \in [Paths -> File \cup {None}] /\ NumbersAreSound'
         /\ Present(dir') = Present(dir) \cup {p}
<1>1. dir' \in [Paths -> File \cup {None}] /\ dir'[p] = file
      /\ \A q \in Paths \ {p} : dir'[q] = dir[q]
  BY DEF TypeOK
<1>2. Present(dir') = Present(dir) \cup {p}
  BY <1>1 DEF Present
<1>3. FreshInode \in Nat /\ \A q \in Present(dir) : dir[q].inode < FreshInode
  BY FreshIsFree
<1>4. Cardinality(Paths) \in Nat /\ changes \in Nat
  BY CountIsNat DEF TypeOK
<1>5. \A q \in Present(dir') \ {p} : q \in Present(dir) /\ dir'[q] = dir[q] /\ dir[q].inode \in Nat
  BY <1>1, <1>2, PresentIsFile
<1>6. \A q \in Present(dir') : dir'[q].inode <= Cardinality(Paths) + changes'
  BY <1>1, <1>3, <1>4, <1>5 DEF NumbersAreSound, FreshInode
<1>7. \A q, r \in Present(dir') : dir'[q].inode = dir'[r].inode => dir'[q].base = dir'[r].base
  BY <1>1, <1>3, <1>5 DEF NumbersAreSound
<1> QED BY <1>1, <1>2, <1>6, <1>7 DEF NumbersAreSound

LEMMA NewPageStep ==
  ASSUME TypeOK, NumbersAreSound, NewPage
  PROVE  /\ dir' \in [Paths -> File \cup {None}] /\ says' = says /\ NumbersAreSound'
         /\ \A q \in Present(dir) : FileStays(q)
<1>1. PICK p \in Paths \ Present(dir), f \in NewFiles :
        dir' = [dir EXCEPT ![p] = [f EXCEPT !.inode = FreshInode]]
  BY DEF NewPage
<1> DEFINE file == [f EXCEPT !.inode = FreshInode]
<1>2. file \in File /\ file.inode = FreshInode
  BY FreshIsFree, RenumberedFile
<1>3. dir' = [dir EXCEPT ![p] = file] /\ changes' = changes + 1 /\ says' = says
  BY <1>1 DEF NewPage, Change
<1> HIDE DEF file
<1>4. /\ dir' \in [Paths -> File \cup {None}] /\ NumbersAreSound'
      /\ Present(dir') = Present(dir) \cup {p}
  BY <1>2, <1>3, FreshFile
<1>5. ASSUME NEW q \in Present(dir) PROVE FileStays(q)
  <2>1. q \in Paths /\ q # p /\ dir[q].size \in Nat
    BY PresentIsFile
  <2>2. dir'[q] = dir[q] /\ says'[q] = says[q]
    BY <1>3, <2>1 DEF TypeOK
  <2> QED BY <1>4, <2>1, <2>2, Untouched
<1> QED BY <1>3, <1>4, <1>5

LEMMA ReplaceStep ==
  ASSUME TypeOK, NumbersAreSound, PageIsPresent, Replace
  PROVE  /\ dir' \in [Paths -> File \cup {None}] /\ says' = says /\ NumbersAreSound'
         /\ \A q \in Present(dir) : FileStays(q)
<1>1. page # NoPage /\ page.path \in Present(dir)
  BY DEF Replace, PageIsPresent
<1> DEFINE file == [dir[page.path] EXCEPT !.inode = FreshInode]
<1>2. page.path \in Paths /\ dir[page.path] \in File
  BY <1>1, PresentIsFile
<1>3. /\ file \in File /\ file.inode = FreshInode /\ file.owner = dir[page.path].owner
      /\ file.base = dir[page.path].base /\ file.size = dir[page.path].size /\ file.size \in Nat
  BY <1>2, FreshIsFree, RenumberedFile
<1>4. dir' = [dir EXCEPT ![page.path] = file] /\ changes' = changes + 1 /\ says' = says
  BY <1>2 DEF Replace, Change, TypeOK
<1> HIDE DEF file
<1>5. /\ dir' \in [Paths -> File \cup {None}] /\ NumbersAreSound'
      /\ Present(dir') = Present(dir) \cup {page.path}
  BY <1>2, <1>3, <1>4, FreshFile
<1>6. ASSUME NEW q \in Present(dir) PROVE FileStays(q)
  <2>1. q \in Paths /\ dir[q].size \in Nat
    BY PresentIsFile
  <2>2. dir'[q] = IF q = page.path THEN file ELSE dir[q]
    BY <1>2, <1>4, <2>1 DEF TypeOK
  <2>3. q \in Present(dir') /\ says'[q] = says[q]
    BY <1>4, <1>5
  <2>4. CASE q = page.path
    <3>1. dir'[q].size \in Nat /\ dir'[q].size >= dir[q].size
      BY <1>3, <2>1, <2>2, <2>4
    <3>2. dir'[q].base = dir[q].base /\ dir'[q].owner = dir[q].owner
      BY <1>3, <2>2, <2>4
    <3> QED BY <1>1, <2>1, <2>3, <2>4, <3>1, <3>2, Zenon DEF FileStays
  <2>5. CASE q # page.path
    BY <2>2, <2>3, <2>5, Untouched
  <2> QED BY <2>4, <2>5
<1> QED BY <1>4, <1>5, <1>6

\* What the world does to the directory.
LEMMA WorldStep ==
  ASSUME TypeOK, NumbersAreSound, PageIsPresent, World
  PROVE  /\ TypeOK' /\ NumbersAreSound' /\ \A q \in Present(dir) : FileStays(q)
         /\ UNCHANGED <<pc, choice, primary, page, assessing, answer, listed, judged>>
         /\ pc \in {"locate", "read", "bound", "list", "check"}
<1>1. /\ dir' \in [Paths -> File \cup {None}] /\ says' \in [Paths -> Dispatches] /\ NumbersAreSound'
      /\ \A q \in Present(dir) : FileStays(q)
  <2>1. CASE Disturb
    <3>1. dir' = dir /\ says' = says /\ changes' = changes + 1
      BY <2>1 DEF Disturb, Change
    <3>2. changes \in Nat /\ \A p \in Present(dir) : dir[p].inode \in Nat
      BY PresentIsFile DEF TypeOK
    <3>3. NumbersAreSound'
      BY <3>1, <3>2, CountIsNat DEF NumbersAreSound
    <3>4. \A q \in Present(dir) : FileStays(q)
      BY <3>1, Untouched
    <3> QED BY <3>1, <3>3, <3>4 DEF TypeOK
  <2> QED BY <2>1, FinishHeaderStep, GrowStep, NewPageStep, ReplaceStep DEF World, TypeOK
<1>2. /\ UNCHANGED <<pc, choice, primary, page, assessing, answer, listed, judged>>
      /\ pc \in {"locate", "read", "bound", "list", "check"}
      /\ changes' = changes + 1 /\ reply' = reply /\ (oddity' = oddity \/ oddity' = TRUE)
  BY DEF World, NewPage, FinishHeader, Grow, Replace, Disturb, Change
<1>3. UNCHANGED <<todo, known, broken, successors>>
  BY <1>2 DEF assessing
<1>4. TypeOK'
  <2>1. changes' \in Nat
    <3>1. changes \in Nat
      BY DEF TypeOK
    <3> QED BY <1>2, <3>1
  <2>2. oddity' \in BOOLEAN
    BY <1>2, Zenon DEF TypeOK
  <2> QED BY <1>1, <1>2, <1>3, <2>1, <2>2, Zenon DEF TypeOK
<1> QED BY <1>1, <1>2, <1>4

-----------------------------------------------------------------------------
(***************************************************************************)
(* The inductive invariant.                                                *)
(***************************************************************************)

\* A page that was located is there, whatever has happened to it.
PageSound ==
  /\ choice \in Paths \cup {None}
  /\ pc \in {"read", "bound", "list", "check", "decide"} => page # NoPage
  /\ page # NoPage => page.path \in Present(dir) /\ page.inode \in Nat

\* Until the bound page is looked at again it has kept what was read of it,
\* unless it has grown.
ReadSound ==
  /\ pc \in {"bound", "list", "check", "decide"} => page.says \in Dispatches
  /\ pc = "bound" => page.size \in Nat /\ dir[page.path].size >= page.size
  /\ pc = "bound" /\ dir[page.path].size = page.size => says[page.path] = page.says

\* A page that passed that look says what was read of it.
JudgedSound ==
  pc \in {"list", "check"} \/ (pc = "decide" /\ ~broken) =>
    judged.says = page.says /\ judged.file.inode = page.inode

ListedRivals == Rivals(Matches(listed), page.path)

\* What was listed is still there, with the first record it had.
ListedSound ==
  pc = "check" =>
    /\ page.path \in Present(listed)
    /\ \A q \in Present(listed) :
         /\ q \in Present(dir) /\ dir[q].base = listed[q].base /\ dir[q].owner = listed[q].owner
         /\ q # page.path => dir[q].inode = listed[q].inode
    /\ \A q, r \in Present(listed) : listed[q].inode = listed[r].inode => listed[q].base = listed[r].base
    /\ todo \subseteq ListedRivals
    /\ known \subseteq {page.inode} \cup {listed[r].inode : r \in ListedRivals \ todo}

\* A candidate that was passed did not continue the bound page when it was listed.
Passed(q) == listed[q].inode = page.inode \/ listed[q].base # PageId(listed, page.path)
PassedSound ==
  /\ pc \in {"check", "decide"} /\ ~broken /\ successors = {} =>
       \A q \in ListedRivals \ todo : Passed(q)
  /\ (pc = "check" /\ broken) \/ (pc = "decide" /\ ~broken) => todo = {}

AnswerSound ==
  /\ pc # "done" => answer = NoAnswer
  /\ pc = "done" => FallbackIsCurrent /\ SilenceIsEarned

HarvestInv ==
  /\ TypeOK /\ NumbersAreSound /\ PageSound /\ ReadSound
  /\ JudgedSound /\ ListedSound /\ PassedSound /\ AnswerSound

LEMMA InitEstablishesInv == Init => HarvestInv
<1> SUFFICES ASSUME Init PROVE HarvestInv
  OBVIOUS
<1>1. TypeOK
  <2>1. dir \in [Paths -> File \cup {None}] /\ changes \in Nat
    BY DirectoriesAssumption DEF Init
  <2>2. says \in [Paths -> Dispatches] /\ todo \subseteq Paths /\ known \subseteq Nat
        /\ successors \subseteq Nat \X Nat /\ reply \in {"absent", "regular"}
    BY DEF Init
  <2>3. oddity \in BOOLEAN /\ primary \in BOOLEAN /\ broken \in BOOLEAN
    BY Zenon DEF Init
  <2>4. answer \in Answers
    BY DEF Init, Answers
  <2> QED BY <2>1, <2>2, <2>3, <2>4 DEF Init, TypeOK
<1>2. NumbersAreSound
  <2>1. \A p \in Present(dir) : dir[p].inode \in Nat /\ dir[p].inode <= Cardinality(Paths)
    BY <1>1, PresentIsFile, DirectoriesAssumption DEF Init
  <2>2. changes = 0 /\ Cardinality(Paths) \in Nat
    BY CountIsNat DEF Init
  <2>3. \A p, q \in Present(dir) : dir[p].inode = dir[q].inode => dir[p] = dir[q]
    BY DirectoriesAssumption DEF Init
  <2> QED BY <2>1, <2>2, <2>3 DEF NumbersAreSound
<1>3. choice \in Paths \cup {None} /\ page = NoPage /\ pc = "start" /\ answer = NoAnswer
  BY DEF Init
<1> QED
  BY <1>1, <1>2, <1>3
  DEF HarvestInv, PageSound, ReadSound, JudgedSound, ListedSound, PassedSound, AnswerSound

LEMMA WorldKeepsInv == HarvestInv /\ World => HarvestInv'
<1> SUFFICES ASSUME HarvestInv, World PROVE HarvestInv'
  OBVIOUS
<1>1. /\ TypeOK' /\ NumbersAreSound' /\ \A q \in Present(dir) : FileStays(q)
      /\ UNCHANGED <<pc, choice, primary, page, assessing, answer, listed, judged>>
      /\ pc \in {"locate", "read", "bound", "list", "check"}
  BY WorldStep DEF HarvestInv, PageSound, PageIsPresent
<1>2. UNCHANGED <<pc, choice, page, todo, known, broken, successors, answer, listed, judged>>
  BY <1>1 DEF assessing
<1>3. PageSound'
  BY <1>1, <1>2 DEF HarvestInv, PageSound, FileStays
<1>4. ReadSound'
  <2>1. CASE pc = "bound"
    <3>1. /\ page.path \in Present(dir) /\ page.size \in Nat /\ dir[page.path].size >= page.size
          /\ dir[page.path].size = page.size => says[page.path] = page.says
      BY <1>1, <2>1 DEF HarvestInv, PageSound, ReadSound
    <3>2. \A q \in Present(dir) :
            /\ dir'[q].size \in Nat /\ dir[q].size \in Nat /\ dir'[q].size >= dir[q].size
            /\ dir'[q].size = dir[q].size => says'[q] = says[q]
      BY <1>1 DEF FileStays
    <3>3. /\ dir'[page.path].size \in Nat /\ dir[page.path].size \in Nat
          /\ dir'[page.path].size >= dir[page.path].size
          /\ dir'[page.path].size = dir[page.path].size => says'[page.path] = says[page.path]
      BY <3>1, <3>2, Zenon
    <3>4. /\ dir'[page.path].size >= page.size
          /\ dir'[page.path].size = page.size => dir[page.path].size = page.size
      BY <3>1, <3>3
    <3>5. page.says \in Dispatches
      BY <2>1 DEF HarvestInv, ReadSound
    <3>6. page' = page /\ pc' = pc
      BY <1>2
    <3> QED BY <3>1, <3>3, <3>4, <3>5, <3>6, Zenon DEF ReadSound
  <2>2. CASE pc # "bound"
    BY <1>2, <2>2 DEF HarvestInv, ReadSound
  <2> QED BY <2>1, <2>2
<1>5. JudgedSound'
  BY <1>2 DEF HarvestInv, JudgedSound
<1>6. ListedSound'
  <2> SUFFICES ASSUME pc = "check" PROVE ListedSound'
    BY <1>2 DEF ListedSound
  <2>1. \A q \in Present(listed) :
          /\ q \in Present(dir') /\ dir'[q].base = listed[q].base
          /\ dir'[q].owner = listed[q].owner
          /\ q # page.path => dir'[q].inode = listed[q].inode
    BY <1>1 DEF HarvestInv, ListedSound, FileStays
  <2>2. /\ page.path \in Present(listed)
        /\ \A q, r \in Present(listed) : listed[q].inode = listed[r].inode => listed[q].base = listed[r].base
        /\ todo \subseteq ListedRivals
        /\ known \subseteq {page.inode} \cup {listed[r].inode : r \in ListedRivals \ todo}
    BY DEF HarvestInv, ListedSound
  <2>3. ListedRivals' = ListedRivals /\ Present(listed') = Present(listed)
        /\ listed' = listed /\ page' = page /\ todo' = todo /\ known' = known
    BY <1>2, Zenon DEF ListedRivals, Rivals, Matches, Present
  <2> QED BY <2>1, <2>2, <2>3 DEF ListedSound, Present
<1>7. PassedSound'
  BY <1>2 DEF HarvestInv, PassedSound, ListedRivals, Rivals, Matches, Present, Passed, PageId
<1>8. AnswerSound'
  BY <1>1, <1>2 DEF HarvestInv, AnswerSound
<1> QED BY <1>1, <1>3, <1>4, <1>5, <1>6, <1>7, <1>8 DEF HarvestInv

-----------------------------------------------------------------------------
(***************************************************************************)
(* The harvester's steps.                                                  *)
(***************************************************************************)

\* A file that is served beside a reason for not confirming it has a caution.
LEMMA WithholdWarns ==
  ASSUME NEW reason \in Reasons, Withhold(reason)
  PROVE  /\ pc' = "done" /\ answer' \in Answers
         /\ answer'.source # "rollout-fallback"
         /\ ~(answer'.source = "reply-file" /\ ~answer'.caution)
<1>1. CASE primary
  <2>1. PICK status \in {"pending", "unavailable"} :
          pc' = "done" /\ answer' = [source |-> "reply-file", status |-> status, caution |-> TRUE]
    BY <1>1 DEF Withhold, Return
  <2>2. answer' \in [source : {"reply-file"}, caution : BOOLEAN,
                     status : {"pending", "unavailable", "confirmed", "not-seen"}]
    BY <2>1
  <2> QED BY <2>1, <2>2 DEF Answers
<1>2. CASE ~primary
  <2>1. pc' = "done" /\ answer' = [source |-> "none", status |-> reason, caution |-> FALSE]
    BY <1>2 DEF Withhold, Return
  <2>2. answer' \in [source : {"none"}, caution : {FALSE}, status : Reasons]
    BY <2>1
  <2> QED BY <2>1, <2>2 DEF Answers
<1> QED BY <1>1, <1>2

\* A step of the harvester leaves the world alone.
LEMMA WorldUnchanged ==
  ASSUME TypeOK, NumbersAreSound, UNCHANGED world
  PROVE  /\ dir' \in [Paths -> File \cup {None}] /\ says' \in [Paths -> Dispatches]
         /\ oddity' \in BOOLEAN /\ reply' \in {"absent", "regular"} /\ changes' \in Nat
         /\ NumbersAreSound' /\ Present(dir') = Present(dir) /\ dir' = dir /\ says' = says
<1>1. dir' = dir /\ says' = says /\ oddity' = oddity /\ reply' = reply /\ changes' = changes
  BY DEF world
<1>2. NumbersAreSound'
  BY <1>1 DEF NumbersAreSound, Present
<1>3. oddity' \in BOOLEAN
  BY <1>1, Zenon DEF TypeOK
<1> QED BY <1>1, <1>2, <1>3 DEF TypeOK, Present

\* Giving up keeps the invariant, wherever it happens.
LEMMA WithholdKeepsInv ==
  ASSUME HarvestInv, NEW reason \in Reasons, Withhold(reason),
         UNCHANGED <<world, choice, primary, page, assessing, listed, judged>>
  PROVE  HarvestInv'
<1>1. /\ pc' = "done" /\ answer' \in Answers
      /\ answer'.source # "rollout-fallback"
      /\ ~(answer'.source = "reply-file" /\ ~answer'.caution)
  BY WithholdWarns
<1>2. /\ dir' \in [Paths -> File \cup {None}] /\ says' \in [Paths -> Dispatches]
      /\ oddity' \in BOOLEAN /\ reply' \in {"absent", "regular"} /\ changes' \in Nat
      /\ NumbersAreSound' /\ Present(dir') = Present(dir) /\ dir' = dir /\ says' = says
  BY WorldUnchanged DEF HarvestInv
<1>3. /\ choice' = choice /\ page' = page /\ primary' = primary
      /\ todo' = todo /\ known' = known /\ broken' = broken /\ successors' = successors
  BY DEF assessing
<1>4. TypeOK'
  <2>1. primary' \in BOOLEAN /\ broken' \in BOOLEAN
    BY <1>3, Zenon DEF HarvestInv, TypeOK
  <2> QED BY <1>1, <1>2, <1>3, <2>1 DEF HarvestInv, TypeOK
<1>5. PageSound'
  BY <1>1, <1>2, <1>3 DEF HarvestInv, PageSound
<1>6. AnswerSound'
  BY <1>1 DEF AnswerSound, FallbackIsCurrent, SilenceIsEarned
<1> QED
  BY <1>1, <1>2, <1>4, <1>5, <1>6
  DEF HarvestInv, ReadSound, JudgedSound, ListedSound, PassedSound

LEMMA LookForReplyKeepsInv == HarvestInv /\ LookForReply => HarvestInv'
<1> SUFFICES ASSUME HarvestInv, LookForReply PROVE HarvestInv'
  OBVIOUS
<1>1. /\ dir' \in [Paths -> File \cup {None}] /\ says' \in [Paths -> Dispatches]
      /\ oddity' \in BOOLEAN /\ reply' \in {"absent", "regular"} /\ changes' \in Nat
      /\ NumbersAreSound' /\ Present(dir') = Present(dir) /\ dir' = dir /\ says' = says
  BY WorldUnchanged DEF HarvestInv, LookForReply
<1>2. /\ pc = "start" /\ pc' = "locate" /\ choice' = choice /\ page' = page /\ answer' = answer
      /\ todo' = todo /\ known' = known /\ broken' = broken /\ successors' = successors
  BY DEF LookForReply, assessing
<1>3. TypeOK'
  <2>1. broken' \in BOOLEAN
    BY <1>2, Zenon DEF HarvestInv, TypeOK
  <2>2. primary' \in BOOLEAN
    BY DEF LookForReply
  <2> QED BY <1>1, <1>2, <2>1, <2>2 DEF HarvestInv, TypeOK
<1> QED
  BY <1>1, <1>2, <1>3
  DEF HarvestInv, PageSound, ReadSound, JudgedSound, ListedSound, PassedSound, AnswerSound

\* What the locator finds is there.
LEMMA FoundIsPresent ==
  /\ \A odd : Located(dir, odd).status \in {"found", "unavailable", "ambiguous"}
  /\ \A odd : Located(dir, odd).status = "found" => Located(dir, odd).path \in Present(dir)
  /\ \A p \in Paths :
       /\ LocatedAt(dir, p).status \in {"found", "unavailable"}
       /\ LocatedAt(dir, p).status = "found" => LocatedAt(dir, p).path \in Present(dir)
<1>1. \A odd : /\ Located(dir, odd).status \in {"found", "unavailable", "ambiguous"}
               /\ Located(dir, odd).status = "found" => Located(dir, odd).path \in Present(dir)
  <2> TAKE odd
  <2> DEFINE candidates == OnePerFile(dir, {p \in Matches(dir) : Valid(dir, p)})
  <2>1. candidates \subseteq Present(dir) /\ candidates \in SUBSET Nat
    BY DEF OnePerFile, Matches, Present
  <2>2. candidates # {} => Min(candidates) \in Present(dir)
    BY <2>1, MinIsMember
  <2> QED BY <2>2 DEF Located
<1>2. \A p \in Paths :
       /\ LocatedAt(dir, p).status \in {"found", "unavailable"}
       /\ LocatedAt(dir, p).status = "found" => LocatedAt(dir, p).path \in Present(dir)
  BY DEF LocatedAt, Valid, Present
<1> QED BY <1>1, <1>2

LEMMA LocateKeepsInv == HarvestInv /\ Locate => HarvestInv'
<1> SUFFICES ASSUME HarvestInv, Locate PROVE HarvestInv'
  OBVIOUS
<1> DEFINE found == IF choice = None THEN Located(dir, oddity) ELSE LocatedAt(dir, choice)
<1>1. found.status \in {"found", "unavailable", "ambiguous"}
      /\ (found.status = "found" => found.path \in Present(dir))
  <2>1. choice \in Paths \cup {None}
    BY DEF HarvestInv, PageSound
  <2> QED BY <2>1, FoundIsPresent, Zenon
<1>2. IF found.status = "found"
      THEN /\ page' = [path |-> found.path, inode |-> dir[found.path].inode]
           /\ pc' = "read" /\ UNCHANGED answer
      ELSE Withhold(found.status) /\ UNCHANGED page
  BY DEF Locate
<1>3. pc = "locate" /\ UNCHANGED <<world, choice, primary, assessing, listed, judged>>
  BY DEF Locate
<1> HIDE DEF found
<1>4. CASE found.status # "found"
  <2>1. found.status \in Reasons
    BY <1>1, <1>4 DEF Reasons
  <2> QED BY <1>2, <1>3, <1>4, <2>1, WithholdKeepsInv
<1>5. CASE found.status = "found"
  <2>1. /\ dir' \in [Paths -> File \cup {None}] /\ says' \in [Paths -> Dispatches]
        /\ oddity' \in BOOLEAN /\ reply' \in {"absent", "regular"} /\ changes' \in Nat
        /\ NumbersAreSound' /\ Present(dir') = Present(dir) /\ dir' = dir /\ says' = says
    BY <1>3, WorldUnchanged DEF HarvestInv
  <2>2. /\ pc = "locate" /\ pc' = "read" /\ choice' = choice /\ answer' = answer
        /\ todo' = todo /\ known' = known /\ broken' = broken /\ successors' = successors
        /\ primary' = primary
    BY <1>2, <1>3, <1>5 DEF assessing
  <2>3. page'.path \in Present(dir) /\ page'.inode \in Nat /\ page' # NoPage
    <3>1. page'.path = found.path /\ page'.inode = dir[found.path].inode
      BY <1>2, <1>5
    <3>2. found.path \in Paths /\ dir[found.path].inode \in Nat
      BY <1>1, <1>5, PresentIsFile DEF HarvestInv
    <3>3. page'.path # None
      BY <3>1, <3>2
    <3> QED BY <1>1, <1>5, <3>1, <3>2, <3>3 DEF NoPage
  <2>4. TypeOK'
    <3>1. primary' \in BOOLEAN /\ broken' \in BOOLEAN
      BY <2>2, Zenon DEF HarvestInv, TypeOK
    <3> QED BY <2>1, <2>2, <3>1 DEF HarvestInv, TypeOK
  <2>5. PageSound'
    BY <2>1, <2>2, <2>3 DEF HarvestInv, PageSound
  <2> QED
    BY <2>1, <2>2, <2>4, <2>5
    DEF HarvestInv, ReadSound, JudgedSound, ListedSound, PassedSound, AnswerSound
<1> QED BY <1>4, <1>5

LEMMA ReadKeepsInv == HarvestInv /\ Read => HarvestInv'
<1> SUFFICES ASSUME HarvestInv, Read PROVE HarvestInv'
  OBVIOUS
<1>1. page # NoPage /\ page.path \in Present(dir) /\ page.inode \in Nat /\ page.path \in Paths
      /\ dir[page.path].size \in Nat /\ says[page.path] \in Dispatches
  <2>1. page # NoPage /\ page.path \in Present(dir) /\ page.inode \in Nat
    BY DEF HarvestInv, PageSound, Read
  <2> QED BY <2>1, PresentIsFile DEF HarvestInv, TypeOK
<1>2. pc = "read" /\ UNCHANGED <<world, choice, primary, assessing, listed, judged>>
  BY DEF Read
<1>3. CASE UNCHANGED page /\ (Withhold("unparseable") \/ Withhold("pending"))
  BY <1>2, <1>3, WithholdKeepsInv DEF Reasons
<1>4. CASE /\ page' = [path |-> page.path, inode |-> page.inode, size |-> dir[page.path].size,
                       says |-> says[page.path]]
           /\ pc' = "bound" /\ UNCHANGED answer
  <2>1. /\ dir' \in [Paths -> File \cup {None}] /\ says' \in [Paths -> Dispatches]
        /\ oddity' \in BOOLEAN /\ reply' \in {"absent", "regular"} /\ changes' \in Nat
        /\ NumbersAreSound' /\ Present(dir') = Present(dir) /\ dir' = dir /\ says' = says
    BY <1>2, WorldUnchanged DEF HarvestInv
  <2>2. /\ pc = "read" /\ pc' = "bound" /\ choice' = choice /\ answer' = answer
        /\ todo' = todo /\ known' = known /\ broken' = broken /\ successors' = successors
        /\ primary' = primary
    BY <1>2, <1>4 DEF assessing
  <2>3. /\ page'.path = page.path /\ page'.inode = page.inode
        /\ page'.size = dir[page.path].size /\ page'.says = says[page.path]
    BY <1>4
  <2>4. TypeOK'
    <3>1. primary' \in BOOLEAN /\ broken' \in BOOLEAN
      BY <2>2, Zenon DEF HarvestInv, TypeOK
    <3> QED BY <2>1, <2>2, <3>1 DEF HarvestInv, TypeOK
  <2>5. PageSound'
    <3>1. page'.path # None
      BY <1>1, <2>3
    <3>2. page' # NoPage
      BY <3>1 DEF NoPage
    <3> QED BY <1>1, <2>1, <2>2, <2>3, <3>2 DEF HarvestInv, PageSound
  <2>6. ReadSound'
    <3>1. page'.size \in Nat /\ dir[page'.path].size = page'.size /\ page'.says \in Dispatches
          /\ says[page'.path] = page'.says
      BY <1>1, <2>3, Zenon
    <3> QED BY <2>1, <2>2, <3>1 DEF ReadSound
  <2> QED
    BY <2>1, <2>2, <2>4, <2>5, <2>6
    DEF HarvestInv, JudgedSound, ListedSound, PassedSound, AnswerSound
<1> QED BY <1>3, <1>4 DEF Read

\* The bound page is looked at again.
LEMMA LookAtBoundKeepsInv == HarvestInv /\ LookAtBound => HarvestInv'
<1> SUFFICES ASSUME HarvestInv, LookAtBound PROVE HarvestInv'
  OBVIOUS
<1>1. /\ dir' \in [Paths -> File \cup {None}] /\ says' \in [Paths -> Dispatches]
      /\ oddity' \in BOOLEAN /\ reply' \in {"absent", "regular"} /\ changes' \in Nat
      /\ NumbersAreSound' /\ Present(dir') = Present(dir) /\ dir' = dir /\ says' = says
  BY WorldUnchanged DEF HarvestInv, LookAtBound
<1>2. /\ pc = "bound" /\ choice' = choice /\ page' = page /\ primary' = primary /\ answer' = answer
      /\ todo' = todo /\ known' = known /\ successors' = successors
      /\ judged' = [file |-> dir[page.path], says |-> says[page.path]]
  BY DEF LookAtBound
<1>3. broken' = ~BoundUnchanged(dir, page.path, page.inode, page.size)
      /\ pc' = IF broken' THEN "decide" ELSE "list"
  BY DEF LookAtBound
<1>4. broken' \in BOOLEAN /\ pc' \in {"list", "decide"} /\ (pc' = "list" <=> ~broken')
  BY <1>3
<1>5. TypeOK'
  <2>1. primary' \in BOOLEAN
    BY <1>2, Zenon DEF HarvestInv, TypeOK
  <2> QED BY <1>1, <1>2, <1>4, <2>1 DEF HarvestInv, TypeOK
<1>6. PageSound' /\ ReadSound'
  BY <1>1, <1>2, <1>4 DEF HarvestInv, PageSound, ReadSound
<1>7. JudgedSound'
  <2>1. ~broken' => dir[page.path].inode = page.inode /\ dir[page.path].size = page.size
    BY <1>3 DEF BoundUnchanged
  <2>2. ~broken' => says[page.path] = page.says
    BY <1>2, <2>1 DEF HarvestInv, ReadSound
  <2>3. judged'.says = says[page.path] /\ judged'.file = dir[page.path]
    BY <1>2
  <2> QED BY <1>2, <1>4, <2>1, <2>2, <2>3 DEF JudgedSound
<1>8. ListedSound' /\ PassedSound' /\ AnswerSound'
  BY <1>2, <1>4 DEF HarvestInv, ListedSound, PassedSound, AnswerSound
<1> QED BY <1>1, <1>5, <1>6, <1>7, <1>8 DEF HarvestInv

\* The names are read.
LEMMA ListKeepsInv == HarvestInv /\ List => HarvestInv'
<1> SUFFICES ASSUME HarvestInv, List PROVE HarvestInv'
  OBVIOUS
<1>1. /\ dir' \in [Paths -> File \cup {None}] /\ says' \in [Paths -> Dispatches]
      /\ oddity' \in BOOLEAN /\ reply' \in {"absent", "regular"} /\ changes' \in Nat
      /\ NumbersAreSound' /\ Present(dir') = Present(dir) /\ dir' = dir /\ says' = says
  BY WorldUnchanged DEF HarvestInv, List
<1>2. /\ pc = "list" /\ pc' = "check" /\ choice' = choice /\ page' = page /\ primary' = primary
      /\ answer' = answer /\ judged' = judged /\ listed' = dir
      /\ known' = {page.inode} /\ successors' = {}
  BY DEF List
<1>3. broken' = oddity /\ todo' = IF oddity THEN {} ELSE ListedRivals'
  BY <1>2, Zenon DEF List, ListedRivals
<1>4. ListedRivals' \subseteq Present(dir)
  BY <1>2 DEF ListedRivals, Rivals, Matches
<1>5. page # NoPage /\ page.path \in Present(dir) /\ page.inode \in Nat
  BY <1>2 DEF HarvestInv, PageSound
<1>6. TypeOK'
  <2>1. primary' \in BOOLEAN /\ broken' \in BOOLEAN
    BY <1>2, <1>3, Zenon DEF HarvestInv, TypeOK
  <2>2. todo' \subseteq Paths
    BY <1>3, <1>4 DEF Present
  <2> QED BY <1>1, <1>2, <1>5, <2>1, <2>2 DEF HarvestInv, TypeOK
<1>7. PageSound' /\ ReadSound' /\ JudgedSound' /\ AnswerSound'
  BY <1>1, <1>2 DEF HarvestInv, PageSound, ReadSound, JudgedSound, AnswerSound
<1>8. ListedSound'
  <2>1. todo' \subseteq ListedRivals'
    BY <1>3
  <2>2. \A q, r \in Present(dir) : dir[q].inode = dir[r].inode => dir[q].base = dir[r].base
    BY DEF HarvestInv, NumbersAreSound
  <2> QED BY <1>1, <1>2, <1>5, <2>1, <2>2 DEF ListedSound, Present
<1>9. PassedSound'
  BY <1>2, <1>3, Zenon DEF PassedSound
<1> QED BY <1>1, <1>6, <1>7, <1>8, <1>9 DEF HarvestInv

\* One candidate is checked.
LEMMA CheckKeepsInv == HarvestInv /\ Check => HarvestInv'
<1> SUFFICES ASSUME HarvestInv, Check PROVE HarvestInv'
  OBVIOUS
<1> DEFINE p == Min(todo)
           bound == [page |-> PageId(dir, page.path), size |-> page.size]
           claim == IF ~Valid(dir, p) THEN "broken"
                    ELSE IF dir[p].inode \in known THEN "same" ELSE Claim(dir, bound, p)
<1>1. /\ dir' \in [Paths -> File \cup {None}] /\ says' \in [Paths -> Dispatches]
      /\ oddity' \in BOOLEAN /\ reply' \in {"absent", "regular"} /\ changes' \in Nat
      /\ NumbersAreSound' /\ Present(dir') = Present(dir) /\ dir' = dir /\ says' = says
  BY WorldUnchanged DEF HarvestInv, Check
<1>2. /\ pc = "check" /\ pc' = pc /\ choice' = choice /\ page' = page /\ primary' = primary
      /\ answer' = answer /\ judged' = judged /\ listed' = listed /\ todo # {}
  BY DEF Check
<1>3. /\ broken' = (claim = "broken")
      /\ todo' = IF broken' THEN {} ELSE todo \ {p}
      /\ known' = IF Valid(dir, p) THEN known \cup {dir[p].inode} ELSE known
      /\ successors' = IF claim = "successor"
                       THEN successors \cup {<<dir[p].inode, dir[p].cutoff>>} ELSE successors
  BY DEF Check
<1>4. p \in todo
  <2>1. todo \in SUBSET Nat
    BY DEF HarvestInv, TypeOK
  <2> QED BY <1>2, <2>1, MinIsMember
<1>5. claim = "successor" => Valid(dir, p) /\ CutoffSound(dir[p].cutoff, bound.size)
  BY DEF Claim
<1>6. ~broken' /\ claim # "successor" =>
        /\ Valid(dir, p)
        /\ dir[p].inode \in known \/ dir[p].base # PageId(dir, page.path)
  <2>1. Claim(dir, bound, p) \in {"broken", "successor"} \/ dir[p].base # bound.page
    BY DEF Claim
  <2> QED BY <1>3, <2>1
<1> HIDE DEF p, bound, claim
<1>7. /\ page.path \in Present(listed)
      /\ \A q \in Present(listed) :
           /\ q \in Present(dir) /\ dir[q].base = listed[q].base /\ dir[q].owner = listed[q].owner
           /\ q # page.path => dir[q].inode = listed[q].inode
      /\ \A q, r \in Present(listed) : listed[q].inode = listed[r].inode => listed[q].base = listed[r].base
      /\ todo \subseteq ListedRivals
      /\ known \subseteq {page.inode} \cup {listed[r].inode : r \in ListedRivals \ todo}
  BY <1>2 DEF HarvestInv, ListedSound
<1>8. \A q \in ListedRivals : q \in Present(listed) /\ q # page.path
  BY DEF ListedRivals, Rivals, Matches
<1>9. ListedRivals' = ListedRivals
  BY <1>2, Zenon DEF ListedRivals
<1>10. /\ p \in Present(dir) /\ p \in Present(listed) /\ p \in ListedRivals
       /\ dir[p].inode = listed[p].inode /\ dir[p].base = listed[p].base
  BY <1>4, <1>7, <1>8
<1>11. PageId(dir, page.path) = PageId(listed, page.path)
  BY <1>7, Zenon DEF PageId
<1>12. TypeOK'
  <2>1. primary' \in BOOLEAN /\ broken' \in BOOLEAN
    <3>1. broken' \in BOOLEAN
      BY <1>3
    <3> QED BY <1>2, <3>1, Zenon DEF HarvestInv, TypeOK
  <2>2. dir[p] \in File /\ dir[p].inode \in Nat
    BY <1>10, PresentIsFile DEF HarvestInv
  <2>3. claim = "successor" => dir[p].cutoff \in Nat
    BY <1>5, <2>2 DEF File, CutoffSound
  <2>4. todo' \subseteq Paths /\ known' \subseteq Nat
    BY <1>3, <2>2 DEF HarvestInv, TypeOK
  <2>5. successors' \subseteq Nat \X Nat
    BY <1>3, <2>2, <2>3 DEF HarvestInv, TypeOK
  <2> QED BY <1>1, <1>2, <2>1, <2>4, <2>5 DEF HarvestInv, TypeOK
<1>13. PageSound' /\ ReadSound' /\ JudgedSound' /\ AnswerSound'
  BY <1>1, <1>2 DEF HarvestInv, PageSound, ReadSound, JudgedSound, AnswerSound
<1>14. todo' \subseteq ListedRivals /\ todo' \subseteq todo /\ p \notin todo'
  BY <1>3, <1>7
<1>15. ListedSound'
  <2>1. known' \subseteq {page.inode} \cup {listed[r].inode : r \in ListedRivals \ todo'}
    <3>1. {listed[r].inode : r \in ListedRivals \ todo}
            \subseteq {listed[r].inode : r \in ListedRivals \ todo'}
      BY <1>14
    <3>2. dir[p].inode \in {listed[r].inode : r \in ListedRivals \ todo'}
      BY <1>10, <1>14
    <3> QED BY <1>3, <1>7, <3>1, <3>2
  <2>2. \A q \in Present(listed) :
           /\ q \in Present(dir') /\ dir'[q].base = listed[q].base
           /\ dir'[q].owner = listed[q].owner
           /\ q # page.path => dir'[q].inode = listed[q].inode
    BY <1>1, <1>7
  <2> QED BY <1>2, <1>7, <1>9, <1>14, <2>1, <2>2 DEF ListedSound, Present
<1>16. PassedSound'
  <2>1. ASSUME ~broken', successors' = {} PROVE \A q \in ListedRivals \ todo' : Passed(q)
    <3>1. successors = {} /\ claim # "successor"
      BY <1>3, <2>1
    <3>2. ~broken
      BY <1>2, Zenon DEF HarvestInv, PassedSound
    <3>3. \A q \in ListedRivals \ todo : Passed(q)
      BY <1>2, <3>1, <3>2 DEF HarvestInv, PassedSound
    <3>4. dir[p].inode \in known \/ dir[p].base # PageId(dir, page.path)
      BY <1>6, <2>1, <3>1
    <3>5. CASE dir[p].base # PageId(dir, page.path)
      <4>1. Passed(p)
        BY <1>10, <1>11, <3>5 DEF Passed
      <4> QED BY <1>3, <2>1, <3>3, <4>1
    <3>6. CASE dir[p].inode \in known
      <4>1. CASE listed[p].inode = page.inode
        <5>1. Passed(p)
          BY <4>1 DEF Passed
        <5> QED BY <1>3, <2>1, <3>3, <5>1
      <4>2. CASE listed[p].inode # page.inode
        <5>1. PICK r \in ListedRivals \ todo : listed[r].inode = listed[p].inode
          BY <1>7, <1>10, <3>6, <4>2
        <5>2. listed[r].base = listed[p].base
          BY <1>7, <1>8, <1>10, <5>1
        <5>3. Passed(p)
          BY <3>3, <4>2, <5>1, <5>2 DEF Passed
        <5> QED BY <1>3, <2>1, <3>3, <5>3
      <4> QED BY <4>1, <4>2
    <3> QED BY <3>4, <3>5, <3>6
  <2>2. broken' => todo' = {}
    BY <1>3
  <2>3. pc' = "check"
    BY <1>2
  <2>4. ASSUME NEW q PROVE Passed(q)' <=> Passed(q)
    BY <1>2, Zenon DEF Passed
  <2> QED BY <1>9, <2>1, <2>2, <2>3, <2>4 DEF PassedSound, Passed
<1> QED BY <1>1, <1>12, <1>13, <1>15, <1>16 DEF HarvestInv

LEMMA CheckedKeepsInv == HarvestInv /\ Checked => HarvestInv'
<1> SUFFICES ASSUME HarvestInv, Checked PROVE HarvestInv'
  OBVIOUS
<1>1. /\ dir' \in [Paths -> File \cup {None}] /\ says' \in [Paths -> Dispatches]
      /\ oddity' \in BOOLEAN /\ reply' \in {"absent", "regular"} /\ changes' \in Nat
      /\ NumbersAreSound' /\ Present(dir') = Present(dir) /\ dir' = dir /\ says' = says
  BY WorldUnchanged DEF HarvestInv, Checked
<1>2. /\ pc = "check" /\ pc' = "decide" /\ choice' = choice /\ page' = page /\ primary' = primary
      /\ answer' = answer /\ judged' = judged /\ listed' = listed /\ todo = {} /\ todo' = todo
      /\ known' = known /\ broken' = broken /\ successors' = successors
  BY DEF Checked, assessing
<1>3. TypeOK'
  <2>1. primary' \in BOOLEAN /\ broken' \in BOOLEAN
    BY <1>2, Zenon DEF HarvestInv, TypeOK
  <2> QED BY <1>1, <1>2, <2>1 DEF HarvestInv, TypeOK
<1>4. PageSound' /\ ReadSound' /\ JudgedSound' /\ ListedSound' /\ AnswerSound'
  BY <1>1, <1>2 DEF HarvestInv, PageSound, ReadSound, JudgedSound, ListedSound, AnswerSound
<1>5. PassedSound'
  <2>1. ~broken /\ successors = {} => \A q \in ListedRivals \ todo : Passed(q)
    BY <1>2 DEF HarvestInv, PassedSound
  <2>2. ListedRivals' = ListedRivals
    BY <1>2, Zenon DEF ListedRivals
  <2>3. ASSUME NEW q PROVE Passed(q)' <=> Passed(q)
    BY <1>2, Zenon DEF Passed
  <2> QED BY <1>2, <2>1, <2>2, <2>3 DEF PassedSound, Passed
<1> QED BY <1>1, <1>3, <1>4, <1>5 DEF HarvestInv

\* The answer is given.
LEMMA DecideKeepsInv == HarvestInv /\ Decide => HarvestInv'
<1> SUFFICES ASSUME HarvestInv, Decide PROVE HarvestInv'
  OBVIOUS
<1> DEFINE verdict == page.says
           Refusal == \E reason \in Reasons : Withhold(reason)
           Served == /\ ~broken /\ successors = {} /\ ~(verdict.duplicates > 1) /\ verdict.certified
                     /\ \/ /\ primary /\ verdict.superseding
                           /\ Return("reply-file", "confirmed", ~Settled(verdict))
                        \/ /\ Settled(verdict) /\ primary /\ ~verdict.superseding
                           /\ Return("reply-file", "not-seen", FALSE)
                        \/ /\ Settled(verdict) /\ ~primary /\ Return("rollout-fallback", "", FALSE)
<1>1. pc = "decide" /\ UNCHANGED <<world, choice, primary, page, assessing, listed, judged>>
  BY DEF Decide
<1>2. Refusal \/ Served
  <2>1. Verdict(broken, successors, verdict.marker) = "current" => ~broken /\ successors = {}
    BY DEF Verdict
  <2>2. Unsettled(verdict) \in {"pending", "unavailable"}
    BY DEF Unsettled
  <2>3. verdict.reason \in Reasons
    BY <1>1 DEF HarvestInv, ReadSound
  <2>4. /\ Withhold(Unsettled(verdict)) => Refusal
        /\ Withhold("unavailable") => Refusal
        /\ Withhold(verdict.reason) => Refusal
    BY <2>2, <2>3 DEF Reasons
  <2> QED BY <2>1, <2>4, Zenon DEF Decide
<1>3. CASE Refusal
  BY <1>1, <1>3, WithholdKeepsInv
<1>4. CASE Served
  <2>1. /\ dir' \in [Paths -> File \cup {None}] /\ says' \in [Paths -> Dispatches]
        /\ oddity' \in BOOLEAN /\ reply' \in {"absent", "regular"} /\ changes' \in Nat
        /\ NumbersAreSound' /\ Present(dir') = Present(dir) /\ dir' = dir /\ says' = says
    BY <1>1, WorldUnchanged DEF HarvestInv
  <2>2. /\ choice' = choice /\ page' = page /\ primary' = primary /\ judged' = judged /\ listed' = listed
        /\ todo' = todo /\ known' = known /\ broken' = broken /\ successors' = successors
    BY <1>1 DEF assessing
  <2>3. /\ verdict \in Dispatches /\ judged.says = verdict /\ judged.file.inode = page.inode
        /\ \A q \in ListedRivals : Passed(q)
    BY <1>1, <1>4 DEF HarvestInv, ReadSound, JudgedSound, PassedSound
  <2>4. verdict.duplicates \in Nat /\ verdict.superseding \in BOOLEAN
    BY <2>3
  <2>5. verdict.duplicates < 2
    <3>1. ~(verdict.duplicates > 1)
      BY <1>4, Zenon
    <3> HIDE DEF verdict
    <3> QED BY <2>4, <3>1
  <2>6. ~Continued(listed, page.path)
    BY <2>3 DEF Continued, ListedRivals, Rivals, Passed
  <2>7. ASSUME NEW status \in {"confirmed", "not-seen"},
               Return("reply-file", status, ~Settled(verdict)),
               (status = "confirmed") = verdict.superseding
        PROVE  pc' = "done" /\ answer' \in Answers /\ FallbackIsCurrent' /\ SilenceIsEarned'
    <3> DEFINE caution == ~Settled(verdict)
    <3>1. caution \in BOOLEAN
      OBVIOUS
    <3>2. pc' = "done" /\ answer' = [source |-> "reply-file", status |-> status, caution |-> caution]
      BY <2>7 DEF Return
    <3>3. ~caution => verdict.certified /\ verdict.fresh = "settled"
      BY DEF Settled
    <3> HIDE DEF caution
    <3>4. answer' \in [source : {"reply-file"}, caution : BOOLEAN,
                       status : {"pending", "unavailable", "confirmed", "not-seen"}]
      BY <3>1, <3>2
    <3>5. answer'.source = "reply-file" /\ answer'.status = status /\ answer'.caution = caution
      BY <3>2
    <3>6. FallbackIsCurrent'
      BY <3>5 DEF FallbackIsCurrent
    <3>7. SilenceIsEarned'
      BY <2>2, <2>3, <2>5, <2>6, <2>7, <3>3, <3>5, Zenon DEF SilenceIsEarned, Continued
    <3> QED BY <3>2, <3>4, <3>6, <3>7 DEF Answers
  <2>8. ASSUME Settled(verdict), Return("rollout-fallback", "", FALSE)
        PROVE  pc' = "done" /\ answer' \in Answers /\ FallbackIsCurrent' /\ SilenceIsEarned'
    <3>1. pc' = "done" /\ answer' = [source |-> "rollout-fallback", status |-> "", caution |-> FALSE]
      BY <2>8 DEF Return
    <3>2. answer'.source = "rollout-fallback"
      BY <3>1
    <3>3. FallbackIsCurrent'
      BY <2>2, <2>3, <2>5, <2>6, <2>8, Zenon DEF FallbackIsCurrent, Continued, Settled
    <3>4. SilenceIsEarned'
      BY <3>2 DEF SilenceIsEarned
    <3> QED BY <3>1, <3>3, <3>4 DEF Answers
  <2>9. pc' = "done" /\ answer' \in Answers /\ FallbackIsCurrent' /\ SilenceIsEarned'
    <3>1. CASE primary /\ verdict.superseding /\ Return("reply-file", "confirmed", ~Settled(verdict))
      <4>1. ("confirmed" = "confirmed") = verdict.superseding
        BY <2>4, <3>1
      <4> QED BY <2>7, <3>1, <4>1
    <3>2. CASE Settled(verdict) /\ ~verdict.superseding /\ Return("reply-file", "not-seen", FALSE)
      <4>1. ("not-seen" = "confirmed") = verdict.superseding
        BY <2>4, <3>2
      <4>2. Return("reply-file", "not-seen", ~Settled(verdict))
        BY <3>2 DEF Return
      <4> QED BY <2>7, <4>1, <4>2
    <3> QED BY <1>4, <2>8, <3>1, <3>2
  <2>10. TypeOK'
    <3>1. primary' \in BOOLEAN /\ broken' \in BOOLEAN
      BY <2>2, Zenon DEF HarvestInv, TypeOK
    <3> QED BY <2>1, <2>2, <2>9, <3>1 DEF HarvestInv, TypeOK
  <2>11. PageSound'
    BY <2>1, <2>2, <2>9 DEF HarvestInv, PageSound
  <2> QED
    BY <2>1, <2>2, <2>9, <2>10, <2>11
    DEF HarvestInv, ReadSound, JudgedSound, ListedSound, PassedSound, AnswerSound
<1> QED BY <1>2, <1>3, <1>4

-----------------------------------------------------------------------------
(***************************************************************************)
(* The theorems.                                                           *)
(***************************************************************************)

LEMMA StutterKeepsInv == HarvestInv /\ UNCHANGED vars => HarvestInv'
<1> SUFFICES ASSUME HarvestInv, UNCHANGED vars PROVE HarvestInv'
  OBVIOUS
<1>1. /\ dir' = dir /\ says' = says /\ oddity' = oddity /\ reply' = reply /\ changes' = changes
      /\ pc' = pc /\ choice' = choice /\ primary' = primary /\ page' = page /\ answer' = answer
      /\ todo' = todo /\ known' = known /\ broken' = broken /\ successors' = successors
      /\ listed' = listed /\ judged' = judged
  BY DEF vars, world, assessing
<1>2. /\ dir' \in [Paths -> File \cup {None}] /\ says' \in [Paths -> Dispatches]
      /\ oddity' \in BOOLEAN /\ reply' \in {"absent", "regular"} /\ changes' \in Nat
      /\ NumbersAreSound' /\ Present(dir') = Present(dir) /\ dir' = dir /\ says' = says
  BY <1>1, WorldUnchanged DEF HarvestInv, world
<1>3. TypeOK'
  <2>1. primary' \in BOOLEAN /\ broken' \in BOOLEAN
    BY <1>1, Zenon DEF HarvestInv, TypeOK
  <2> QED BY <1>1, <1>2, <2>1 DEF HarvestInv, TypeOK
<1>4. PageSound' /\ ReadSound' /\ JudgedSound'
  BY <1>1, <1>2 DEF HarvestInv, PageSound, ReadSound, JudgedSound
<1>5. ListedRivals' = ListedRivals
  BY <1>1, Zenon DEF ListedRivals
<1>6. ASSUME NEW q PROVE Passed(q)' <=> Passed(q)
  BY <1>1, Zenon DEF Passed
<1>7. ListedSound'
  BY <1>1, <1>2, <1>5 DEF HarvestInv, ListedSound, Present
<1>8. PassedSound'
  BY <1>1, <1>5, <1>6 DEF HarvestInv, PassedSound, Passed
<1>9. FallbackIsCurrent' <=> FallbackIsCurrent
  BY <1>1, Zenon DEF FallbackIsCurrent, Continued
<1>10. SilenceIsEarned' <=> SilenceIsEarned
  BY <1>1, Zenon DEF SilenceIsEarned, Continued
<1>11. AnswerSound'
  BY <1>1, <1>9, <1>10 DEF HarvestInv, AnswerSound
<1> QED BY <1>2, <1>3, <1>4, <1>7, <1>8, <1>11 DEF HarvestInv

\* HarvestInv holds in every reachable state of harvestDispatch.
THEOREM Invariance == Spec => []HarvestInv
<1>1. HarvestInv /\ [Next]_vars => HarvestInv'
  <2>1. HarvestInv /\ World => HarvestInv'
    BY WorldKeepsInv
  <2>2. HarvestInv /\ HarvestStep => HarvestInv'
    BY LookForReplyKeepsInv, LocateKeepsInv, ReadKeepsInv, LookAtBoundKeepsInv, ListKeepsInv,
       CheckKeepsInv, CheckedKeepsInv, DecideKeepsInv
    DEF HarvestStep
  <2> QED BY <2>1, <2>2, StutterKeepsInv DEF Next, World
<1> QED BY <1>1, InitEstablishesInv, PTL DEF Spec

\* The variables of a harvest have their types; see TypeOK.
THEOREM HarvestTypeOK == Spec => []TypeOK
<1>1. HarvestInv => TypeOK
  BY DEF HarvestInv
<1> QED BY <1>1, Invariance, PTL

\* A body is taken from the rollout only if, when the page was looked at again,
\* it still said just that, and nothing continued it when the root was listed.
THEOREM BodiesAreCurrent == Spec => []FallbackIsCurrent
<1>1. HarvestInv => FallbackIsCurrent
  <2>1. NoAnswer.source = ""
    BY DEF NoAnswer
  <2>2. answer = NoAnswer => FallbackIsCurrent
    BY <2>1 DEF FallbackIsCurrent
  <2> QED BY <2>2 DEF HarvestInv, AnswerSound
<1> QED BY <1>1, Invariance, PTL

\* A reply file is served without a caution only on the same evidence.
THEOREM SilenceNeedsEvidence == Spec => []SilenceIsEarned
<1>1. HarvestInv => SilenceIsEarned
  <2>1. NoAnswer.source = ""
    BY DEF NoAnswer
  <2>2. answer = NoAnswer => SilenceIsEarned
    BY <2>1 DEF SilenceIsEarned
  <2> QED BY <2>2 DEF HarvestInv, AnswerSound
<1> QED BY <1>1, Invariance, PTL

-----------------------------------------------------------------------------
(***************************************************************************)
(* One page of a sound lineage keeps its authority.                        *)
(***************************************************************************)

\* Page q is another page than p and names it as the one it continues.
Continues(q, p) == p # q /\ Paginated(q) /\ dir[q].base = PageId(dir, p)

\* Lineage, in terms of Continues.
LEMMA LineageFacts ==
  ASSUME Lineage(dir)
  PROVE  /\ \A p \in Matches(dir) : Valid(dir, p) /\ dir[p].header = "terminated"
         /\ \A p, q \in Matches(dir) :
              p # q => PageId(dir, p) # PageId(dir, q) /\ dir[p].inode # dir[q].inode
         /\ Cardinality({p \in Matches(dir) : ~Paginated(p)}) = 1
         /\ \A p \in Matches(dir) : Cardinality({q \in Matches(dir) : Continues(q, p)}) <= 1
         /\ \A q \in Matches(dir) : Paginated(q) =>
              \E p \in Matches(dir) :
                Continues(q, p) /\ CutoffSound(dir[q].cutoff, dir[p].size)
BY DEF Lineage, Continues

\* A page of it is current exactly if no page continues it: the others claim
\* nothing, and whatever continues it does so with a sound cutoff.
LEMMA CurrentIsLast ==
  ASSUME Lineage(dir), NEW p \in Matches(dir)
  PROVE  Assess(dir, FALSE, p, dir[p].inode, dir[p].size, None) = "current" <=>
           ~\E q \in Matches(dir) : Continues(q, p)
<1> DEFINE pages == Matches(dir)
           bound == [page |-> PageId(dir, p), size |-> dir[p].size]
           rivals == Rivals(Matches(dir), p)
           others == OnePerFile(dir, {q \in rivals : dir[q].inode # dir[p].inode})
           claims == [q \in others |-> Claim(dir, bound, q)]
           counted == {<<dir[q].inode, dir[q].cutoff>> :
                         q \in {r \in others : claims[r] = "successor"}}
<1>1. /\ \A q \in pages : Valid(dir, q) /\ dir[q].header = "terminated"
      /\ \A q, r \in pages :
           q # r => PageId(dir, q) # PageId(dir, r) /\ dir[q].inode # dir[r].inode
      /\ \A q \in pages : Paginated(q) =>
           \E r \in pages : Continues(q, r) /\ CutoffSound(dir[q].cutoff, dir[r].size)
  BY LineageFacts
<1>2. rivals = {q \in pages \ {p} : Paginated(q)}
  BY DEF Rivals
<1>3. others = rivals
  <2>1. {q \in rivals : dir[q].inode # dir[p].inode} = rivals
    BY <1>1, <1>2
  <2>2. \A q \in rivals : \A r \in rivals : dir[r].inode = dir[q].inode => q <= r
    <3>1. \A q \in rivals : q \in Nat
      BY <1>2 DEF Matches, Present
    <3>2. \A q, r \in rivals : dir[r].inode = dir[q].inode => q = r
      BY <1>1, <1>2
    <3> QED BY <3>1, <3>2
  <2> HIDE DEF rivals
  <2> QED BY <2>1, <2>2 DEF OnePerFile
<1>4. ASSUME NEW q \in others
      PROVE  claims[q] = IF Continues(q, p) THEN "successor" ELSE "other"
  <2>1. q \in pages /\ q # p /\ Paginated(q) /\ dir[q].header = "terminated"
    BY <1>1, <1>2, <1>3
  <2>2. Names[q].page # bound.page
    BY <1>1, <2>1 DEF PageId
  <2>3. CASE ~Continues(q, p)
    BY <2>1, <2>2, <2>3 DEF Claim, Continues
  <2>4. CASE Continues(q, p)
    <3>1. PICK r \in pages : Continues(q, r) /\ CutoffSound(dir[q].cutoff, dir[r].size)
      BY <1>1, <2>1
    <3>2. r = p
      BY <1>1, <2>4, <3>1 DEF Continues
    <3> QED BY <2>1, <2>2, <2>4, <3>1, <3>2 DEF Claim, Continues
  <2> QED BY <2>3, <2>4
<1>5. ~\E q \in others : claims[q] = "broken"
  BY <1>4
<1>6. counted = {} <=> ~\E q \in pages : Continues(q, p)
  <2>1. {r \in others : claims[r] = "successor"} = {r \in others : Continues(r, p)}
    BY <1>4
  <2>2. {r \in others : Continues(r, p)} = {r \in pages : Continues(r, p)}
    BY <1>2, <1>3 DEF Continues
  <2> HIDE DEF others, claims, pages
  <2>3. counted = {<<dir[q].inode, dir[q].cutoff>> : q \in {r \in pages : Continues(r, p)}}
    BY <2>1, <2>2
  <2> HIDE DEF counted
  <2>4. ASSUME NEW q \in pages, Continues(q, p) PROVE counted # {}
    <3>1. <<dir[q].inode, dir[q].cutoff>> \in counted
      BY <2>3, <2>4
    <3> QED BY <3>1
  <2>5. ASSUME counted # {} PROVE \E q \in pages : Continues(q, p)
    <3>1. PICK x \in counted : TRUE
      BY <2>5
    <3> QED BY <2>3, <3>1
  <2> QED BY <2>4, <2>5
<1>7. BoundUnchanged(dir, p, dir[p].inode, dir[p].size)
  BY <1>1 DEF BoundUnchanged
<1>8. ~\E q \in rivals : ~Valid(dir, q)
  BY <1>1, <1>2
<1>9. Assess(dir, FALSE, p, dir[p].inode, dir[p].size, None) =
        Verdict(\E q \in others : claims[q] = "broken", counted, None)
  BY <1>7, <1>8 DEF Assess
<1>10. Verdict(FALSE, counted, None) = "current" <=> counted = {}
  <2> HIDE DEF counted
  <2>1. Cardinality({}) = 0
    BY FS_EmptySet
  <2>2. counted = {} => Verdict(FALSE, counted, None) = "current"
    BY <2>1 DEF Verdict
  <2>3. counted # {} => Verdict(FALSE, counted, None) # "current"
    BY DEF Verdict
  <2> QED BY <2>2, <2>3
<1> HIDE DEF counted, others, claims, pages
<1> QED BY <1>5, <1>6, <1>9, <1>10 DEF pages

LEMMA TwoElements ==
  ASSUME NEW x, NEW y, x # y
  PROVE  Cardinality({x} \cup {y}) = 2
<1> DEFINE one == Cardinality({x})
           two == Cardinality({x} \cup {y})
<1>1. IsFiniteSet({x}) /\ one = 1
  BY FS_Singleton
<1>2. y \notin {x}
  OBVIOUS
<1>3. two = one + 1
  BY <1>1, <1>2, FS_AddElement
<1> HIDE DEF one, two
<1>4. two = 2
  BY <1>1, <1>3
<1> QED BY <1>4 DEF two

\* Every page but the first continues one page, no two the same, so that one
\* is left which nothing continues.
LEMMA OneIsLast ==
  ASSUME Lineage(dir)
  PROVE  Cardinality({p \in Matches(dir) : ~\E q \in Matches(dir) : Continues(q, p)}) = 1
<1> DEFINE pages == Matches(dir)
           first == {p \in pages : ~Paginated(p)}
           later == pages \ first
           f == [q \in later |-> CHOOSE p \in pages : Continues(q, p)]
           continued == {p \in pages : \E q \in pages : Continues(q, p)}
<1>1. /\ \A p, q \in pages : p # q => PageId(dir, p) # PageId(dir, q)
      /\ Cardinality(first) = 1
      /\ \A p \in pages : Cardinality({q \in pages : Continues(q, p)}) <= 1
      /\ \A q \in pages : Paginated(q) => \E p \in pages : Continues(q, p)
  BY LineageFacts
<1>2. IsFiniteSet(pages) /\ first \subseteq pages
  <2>1. pages \subseteq Paths
    BY DEF Matches, Present
  <2> QED BY <2>1, FS_Subset
<1>3. \A q \in later : f[q] \in pages /\ Continues(q, f[q])
  BY <1>1
<1>4. \A q, r \in pages : \A p \in pages : Continues(q, p) /\ Continues(r, p) => q = r
  <2> SUFFICES ASSUME NEW q \in pages, NEW r \in pages, NEW p \in pages,
                      Continues(q, p), Continues(r, p), q # r
               PROVE  FALSE
    OBVIOUS
  <2> DEFINE S == {x \in pages : Continues(x, p)}
  <2>1. IsFiniteSet(S) /\ {q, r} \subseteq S
    BY <1>2, FS_Subset
  <2>2. Cardinality({q} \cup {r}) = 2
    BY TwoElements
  <2>3. {q} \cup {r} \subseteq S
    BY <2>1
  <2>4. 2 <= Cardinality(S)
    BY <2>1, <2>2, <2>3, FS_Subset
  <2> QED BY <1>1, <2>1, <2>4, FS_CardinalityType
<1>5. f \in Surjection(later, continued) /\ f \in Injection(later, continued)
  <2>1. \A q \in later : f[q] \in continued
    BY <1>3
  <2>2. \A p \in continued : \E q \in later : f[q] = p
    <3> SUFFICES ASSUME NEW p \in continued PROVE \E q \in later : f[q] = p
      OBVIOUS
    <3>1. PICK q \in pages : Continues(q, p)
      OBVIOUS
    <3>2. q \in later
      BY <3>1 DEF Continues
    <3>3. f[q] = p
      BY <1>1, <1>3, <3>1, <3>2 DEF Continues
    <3> QED BY <3>2, <3>3
  <2>3. \A q, r \in later : f[q] = f[r] => q = r
    BY <1>3, <1>4
  <2> HIDE DEF continued
  <2>4. f \in [later -> continued]
    BY <2>1
  <2> HIDE DEF f, later
  <2> QED BY <2>2, <2>3, <2>4 DEF Surjection, Injection, IsInjective
<1> HIDE DEF f
<1>6. IsFiniteSet(later) /\ Cardinality(later) = Cardinality(pages) - 1
  <2>1. pages \cap first = first
    BY <1>2
  <2>2. /\ IsFiniteSet(later)
        /\ Cardinality(later) = Cardinality(pages) - Cardinality(pages \cap first)
    BY <1>2, FS_Difference
  <2> QED BY <1>1, <2>1, <2>2
<1>7. Cardinality(continued) = Cardinality(later)
  BY <1>5, <1>6, FS_Surjection
<1>8. Cardinality(pages \ continued) = Cardinality(pages) - Cardinality(continued)
  <2>1. pages \cap continued = continued
    OBVIOUS
  <2> QED BY <1>2, <2>1, FS_Difference
<1>9. Cardinality(pages) \in Nat
  BY <1>2, FS_CardinalityType
<1>10. pages \ continued = {p \in pages : ~\E q \in pages : Continues(q, p)}
  OBVIOUS
<1> HIDE DEF pages, later, continued
<1>11. Cardinality(pages \ continued) = 1
  BY <1>6, <1>7, <1>8, <1>9
<1> QED BY <1>10, <1>11 DEF pages

\* In a directory where every link is sound, exactly one page keeps its
\* authority (assessRolloutPageSupersession), in every state of a harvest and
\* for any number of pages.
THEOREM OnePageIsCurrent == Spec => []OnePageKeepsAuthority
<1>1. OnePageKeepsAuthority
  <2> SUFFICES ASSUME Lineage(dir)
               PROVE  Cardinality({p \in Matches(dir) :
                        Assess(dir, FALSE, p, dir[p].inode, dir[p].size, None) = "current"}) = 1
    BY DEF OnePageKeepsAuthority
  <2>1. {p \in Matches(dir) :
           Assess(dir, FALSE, p, dir[p].inode, dir[p].size, None) = "current"} =
        {p \in Matches(dir) : ~\E q \in Matches(dir) : Continues(q, p)}
    BY CurrentIsLast
  <2> QED BY <2>1, OneIsLast
<1> QED BY <1>1, PTL
=============================================================================
