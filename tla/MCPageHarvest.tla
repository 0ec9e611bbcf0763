----------------------------- MODULE MCPageHarvest -----------------------------
EXTENDS PageHarvest

CONSTANTS T, U, A, B

\* The first rollout of the thread, two pages of it, and one whose name says
\* the page that the second one has, in another directory.
MCNames ==
  << [root |-> T, page |-> None], [root |-> T, page |-> A], [root |-> T, page |-> B],
     [root |-> U, page |-> T] >>

First(inode, size) ==
  [inode |-> inode, header |-> "terminated", owner |-> T, session |-> T, base |-> None,
   cutoff |-> None, size |-> size]
Page(inode, header, base, cutoff, size) ==
  [inode |-> inode, header |-> header, owner |-> T, session |-> T, base |-> base,
   cutoff |-> cutoff, size |-> size]

MCDirectories ==
  { <<First(1, 4), None, None, None>>,
    <<First(1, 4), Page(2, "terminated", T, 4, 4), None, None>>,
    <<First(1, 5), Page(2, "terminated", T, 4, 4), Page(3, "terminated", A, 2, 4), None>>,
    <<First(1, 4), Page(2, "terminated", B, 2, 4), Page(3, "terminated", A, 2, 4), None>>,
    <<None, Page(2, "terminated", T, 2, 4), None, Page(2, "terminated", T, 2, 4)>>,
    <<First(1, 4), First(1, 4), None, None>>,
    <<First(1, 4), Page(2, "torn", T, 2, 1), None, None>>,
    <<First(1, 4), Page(2, "unterminated", T, 3, 1), None, None>>,
    <<None, None, None, None>> }

MCNewFiles ==
  { Page(3, "torn", T, 2, 1), Page(3, "torn", T, 3, 1), Page(3, "torn", A, 2, 1),
    Page(3, "torn", A, 6, 1) }

MCRequests == {None, 1, 2}

Seen(certified, reason, superseding, fresh, duplicates, marker) ==
  [certified |-> certified, reason |-> reason, superseding |-> superseding,
   fresh |-> fresh, duplicates |-> duplicates, marker |-> marker]
Absent == Seen(FALSE, "pending", FALSE, "unavailable", 0, None)
Open == Seen(FALSE, "pending", FALSE, "pending", 1, 2)
Garbled == Seen(FALSE, "unparseable", FALSE, "unavailable", 1, 2)
Complete == Seen(TRUE, "pending", FALSE, "settled", 1, 2)
Replaced == Seen(TRUE, "pending", TRUE, "settled", 1, 2)
NewTurn == Seen(TRUE, "pending", FALSE, "pending", 1, 2)
Drifted == Seen(TRUE, "pending", TRUE, "unavailable", 1, 2)
Twice == Seen(TRUE, "pending", FALSE, "settled", 2, 2)

MCDispatches == {Absent, Open, Garbled, Complete, Replaced, NewTurn, Drifted, Twice}
MCFollows ==
  [v \in MCDispatches |->
     CASE v = Absent -> {Absent, Open} [] v = Open -> {Open, Garbled, Complete, Replaced}
       [] v = Complete -> {NewTurn, Twice} [] v = NewTurn -> {Replaced}
       [] v = Replaced -> {Drifted} [] OTHER -> {v}]
=============================================================================
