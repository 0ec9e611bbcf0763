------------------------------- MODULE Transport -------------------------------
(***************************************************************************)
(* The file transport of handoff_to_codex.sh.  A dispatcher first sweeps   *)
(* what is older than the retention, then makes its channel directory and  *)
(* publishes its envelope under a path nobody has used.  Every process     *)
(* that dispatches does the same in the same directories, and Codex writes *)
(* replies next to the envelopes; find's listing, each deletion, and each  *)
(* command of atomic_write are steps of their own.                         *)
(***************************************************************************)
EXTENDS Naturals, FiniteSets

CONSTANTS Dispatchers, Foreign,   \* the processes, and whoever else makes a file
          Paths, Dest,            \* envelopes, and the one each process is to write
          Channels, Channel,      \* directories, and the one of each envelope
          Retention, MaxDay,      \* CODEX_IPC_RETENTION_DAYS, 0 to keep all; days in view
          Pasts, None             \* what earlier dispatches may have left

Nothing == [kind |-> "none", by |-> None, day |-> 0]
Envelope == [kind : {"none", "file", "directory"},
             by : Dispatchers \cup {Foreign, None}, day : Nat]

ASSUME TransportAssumption ==
  /\ Dest \in [Dispatchers -> Paths] /\ Channel \in [Paths -> Channels]
  /\ Foreign \notin Dispatchers /\ None \notin Dispatchers /\ None \notin Nat
  /\ Retention \in Nat /\ MaxDay \in Nat

\* What is left was written by others, and what has a reply was replied to.
ASSUME PastsAssumption ==
  \A past \in Pasts :
    /\ past.envelopes \in [Paths -> Envelope] /\ past.replies \in [Paths -> Nat \cup {None}]
    /\ past.dirs \in [Channels -> Nat \cup {None}] /\ past.answered \subseteq Paths
    /\ \A p \in Paths : past.envelopes[p].by \notin Dispatchers
    /\ \A p \in Paths : past.replies[p] # None => p \in past.answered

VARIABLES
  day,
  envelopes,  \* what is at each *.task.md path
  replies,    \* the day each *.reply.md was written, None without one
  dirs,       \* the day each directory was last changed, None without one
  staging,    \* the temporary file of each process
  at, todo,   \* todo: what find has listed and is not dealt with
  answered    \* history: the envelopes that were replied to

disk == <<envelopes, replies, dirs, staging>>
transportVars == <<day, disk, at, todo, answered>>

\* find -mtime +N
Aged(written) == day - written > Retention /\ day > written

\* A directory changes whenever an entry of it is made or removed.
Touch(p) == dirs' = [dirs EXCEPT ![Channel[p]] = day]

Empty(c) ==
  /\ \A p \in Paths : Channel[p] = c => envelopes[p].kind = "none" /\ replies[p] = None
  /\ \A d \in Dispatchers : Channel[Dest[d]] = c => staging[d] = "none"

Goto(d, label) == at' = [at EXCEPT ![d] = label]

-----------------------------------------------------------------------------
(***************************************************************************)
(* The retention sweep.                                                    *)
(***************************************************************************)

StartSweep(d) ==
  /\ at[d] = "start"
  /\ IF Retention = 0 THEN Goto(d, "mkdir") /\ UNCHANGED todo
     ELSE /\ todo' = [todo EXCEPT ![d] =
                        {p \in Paths : envelopes[p].kind = "file" /\ Aged(envelopes[p].day)}]
          /\ Goto(d, "tasks")
  /\ UNCHANGED <<day, disk, answered>>

Remove(p) == envelopes' = [envelopes EXCEPT ![p] = Nothing] /\ Touch(p)

\* Fault: a reply of any dispatch of the channel is taken for the reply.
SweepTaskOfChannel(d, p) ==
  /\ at[d] = "tasks" /\ p \in todo[d]
  /\ todo' = [todo EXCEPT ![d] = @ \ {p}]
  /\ IF envelopes[p].kind = "file" /\ \E q \in Paths : Channel[q] = Channel[p] /\ replies[q] # None
     THEN Remove(p) ELSE UNCHANGED <<envelopes, dirs>>
  /\ UNCHANGED <<day, replies, staging, at, answered>>

\* An aged task goes only if its reply is there; the removal may fail.
SweepTask(d, p) ==
  /\ at[d] = "tasks" /\ p \in todo[d]
  /\ todo' = [todo EXCEPT ![d] = @ \ {p}]
  /\ \/ envelopes[p].kind = "file" /\ replies[p] # None /\ Remove(p)
     \/ UNCHANGED <<envelopes, dirs>>
  /\ UNCHANGED <<day, replies, staging, at, answered>>

StartReplies(d) ==
  /\ at[d] = "tasks" /\ todo[d] = {}
  /\ todo' = [todo EXCEPT ![d] = {p \in Paths : replies[p] # None /\ Aged(replies[p])}]
  /\ Goto(d, "replies")
  /\ UNCHANGED <<day, disk, answered>>

SweepReply(d, p) ==
  /\ at[d] = "replies" /\ p \in todo[d]
  /\ todo' = [todo EXCEPT ![d] = @ \ {p}]
  /\ \/ replies[p] # None /\ replies' = [replies EXCEPT ![p] = None] /\ Touch(p)
     \/ UNCHANGED <<replies, dirs>>
  /\ UNCHANGED <<day, envelopes, staging, at, answered>>

StartDirs(d) ==
  /\ at[d] = "replies" /\ todo[d] = {}
  /\ todo' = [todo EXCEPT ![d] = {c \in Channels : dirs[c] # None}]
  /\ Goto(d, "dirs")
  /\ UNCHANGED <<day, disk, answered>>

\* rmdir removes no directory that has an entry.
SweepDir(d, c) ==
  /\ at[d] = "dirs" /\ c \in todo[d]
  /\ todo' = [todo EXCEPT ![d] = @ \ {c}]
  /\ IF dirs[c] # None /\ Empty(c) /\ Aged(dirs[c])
     THEN dirs' = [dirs EXCEPT ![c] = None] ELSE UNCHANGED dirs
  /\ UNCHANGED <<day, envelopes, replies, staging, at, answered>>

EndSweep(d) ==
  /\ at[d] = "dirs" /\ todo[d] = {}
  /\ Goto(d, "mkdir")
  /\ UNCHANGED <<day, disk, todo, answered>>

-----------------------------------------------------------------------------
(***************************************************************************)
(* mkdir -p, and atomic_write, which does it again.                        *)
(***************************************************************************)

MakeDir(d) ==
  /\ at[d] \in {"mkdir", "write"}
  /\ IF dirs[Channel[Dest[d]]] = None THEN Touch(Dest[d]) ELSE UNCHANGED dirs
  /\ Goto(d, IF at[d] = "mkdir" THEN "write" ELSE "check")
  /\ UNCHANGED <<day, envelopes, replies, staging, todo, answered>>

\* Whatever occupies the path, nothing is written.
CheckDest(d) ==
  /\ at[d] = "check"
  /\ Goto(d, IF envelopes[Dest[d]].kind = "none" THEN "stage" ELSE "failed")
  /\ UNCHANGED <<day, disk, todo, answered>>

\* mktemp needs the directory, which another sweep may have taken.
Stage(d) ==
  /\ at[d] = "stage"
  /\ IF dirs[Channel[Dest[d]]] = None
     THEN Goto(d, "failed") /\ UNCHANGED <<dirs, staging>>
     ELSE /\ staging' = [staging EXCEPT ![d] = "partial"] /\ Touch(Dest[d])
          /\ Goto(d, "fill")
  /\ UNCHANGED <<day, envelopes, replies, todo, answered>>

Fill(d) ==
  /\ at[d] = "fill"
  /\ staging' = [staging EXCEPT ![d] = "whole"] /\ Goto(d, "link")
  /\ UNCHANGED <<day, envelopes, replies, dirs, todo, answered>>

\* Fault: the staging file is renamed to its place, over what is there.
Rename(d) ==
  /\ at[d] = "link"
  /\ envelopes' = [envelopes EXCEPT ![Dest[d]] = [kind |-> "file", by |-> d, day |-> day]]
  /\ Touch(Dest[d]) /\ Goto(d, "verify") /\ UNCHANGED staging
  /\ UNCHANGED <<day, replies, todo, answered>>

\* ln fails on a file, and puts the link into a directory.
Link(d) ==
  /\ at[d] = "link"
  /\ \/ /\ envelopes[Dest[d]].kind = "none"
        /\ envelopes' = [envelopes EXCEPT ![Dest[d]] = [kind |-> "file", by |-> d, day |-> day]]
        /\ Touch(Dest[d]) /\ Goto(d, "verify") /\ UNCHANGED staging
     \/ /\ envelopes[Dest[d]].kind = "directory"
        /\ Goto(d, "verify") /\ UNCHANGED <<envelopes, dirs, staging>>
     \/ /\ envelopes[Dest[d]].kind = "file"
        /\ staging' = [staging EXCEPT ![d] = "none"] /\ Touch(Dest[d])
        /\ Goto(d, "failed") /\ UNCHANGED envelopes
  /\ UNCHANGED <<day, replies, todo, answered>>

\* The staging file is removed; that it may stay is no failure.
Verify(d) ==
  /\ at[d] = "verify"
  /\ Goto(d, IF envelopes[Dest[d]].kind = "file" THEN "published" ELSE "failed")
  /\ \/ staging' = [staging EXCEPT ![d] = "none"] /\ Touch(Dest[d])
     \/ UNCHANGED <<staging, dirs>>
  /\ UNCHANGED <<day, envelopes, replies, todo, answered>>

\* A process may be killed anywhere; what it staged stays behind.
Killed(d) ==
  /\ at[d] \notin {"published", "failed", "killed"}
  /\ Goto(d, "killed")
  /\ UNCHANGED <<day, disk, todo, answered>>

-----------------------------------------------------------------------------
(***************************************************************************)
(* The world: time, Codex, and others.                                     *)
(***************************************************************************)

NextDay == day < MaxDay /\ day' = day + 1 /\ UNCHANGED <<disk, at, todo, answered>>

\* Codex replies once to an envelope it was given, whoever wrote it.
Reply(p) ==
  /\ envelopes[p].kind = "file" /\ p \notin answered
  /\ replies' = [replies EXCEPT ![p] = day] /\ Touch(p)
  /\ answered' = answered \cup {p}
  /\ UNCHANGED <<day, envelopes, staging, at, todo>>

Occupy(p) ==
  /\ envelopes[p].kind = "none" /\ dirs[Channel[p]] # None
  /\ \A q \in Paths : envelopes[q].by # Foreign
  /\ \E kind \in {"file", "directory"} :
       envelopes' = [envelopes EXCEPT ![p] = [kind |-> kind, by |-> Foreign, day |-> day]]
  /\ Touch(p)
  /\ UNCHANGED <<day, replies, staging, at, todo, answered>>

Dispatch(d) ==
  \/ StartSweep(d) \/ StartReplies(d) \/ StartDirs(d) \/ EndSweep(d)
  \/ \E p \in Paths : SweepTask(d, p) \/ SweepReply(d, p)
  \/ \E c \in Channels : SweepDir(d, c)
  \/ MakeDir(d) \/ CheckDest(d) \/ Stage(d) \/ Fill(d) \/ Link(d) \/ Verify(d)
  \/ Killed(d)

TransportInit ==
  /\ day = Retention + 1
  /\ \E past \in Pasts :
       /\ envelopes = past.envelopes /\ replies = past.replies
       /\ dirs = past.dirs /\ answered = past.answered
  /\ staging = [d \in Dispatchers |-> "none"]
  /\ at = [d \in Dispatchers |-> "start"] /\ todo = [d \in Dispatchers |-> {}]

TransportNext ==
  \/ NextDay
  \/ \E p \in Paths : Reply(p) \/ Occupy(p)
  \/ \E d \in Dispatchers : Dispatch(d)

TransportSpec == TransportInit /\ [][TransportNext]_transportVars

-----------------------------------------------------------------------------
(***************************************************************************)
(* Properties.                                                             *)
(***************************************************************************)

\* The variables hold what is on disk and where each process stands.
TransportTypes ==
  /\ day \in Nat /\ envelopes \in [Paths -> Envelope]
  /\ replies \in [Paths -> Nat \cup {None}] /\ dirs \in [Channels -> Nat \cup {None}]
  /\ staging \in [Dispatchers -> {"none", "partial", "whole"}]
  /\ at \in [Dispatchers -> {"start", "tasks", "replies", "dirs", "mkdir", "write", "check",
                             "stage", "fill", "link", "verify", "published", "failed", "killed"}]
  /\ todo \in [Dispatchers -> SUBSET (Paths \cup Channels)]
  /\ answered \subseteq Paths

\* No sweep, of whichever process, takes an envelope that has never been
\* replied to (handoff_to_codex.sh:484-491).
UnrepliedKept ==
  [][\A p \in Paths : envelopes[p].kind = "file" /\ envelopes'[p].kind # "file" =>
       p \in answered]_transportVars

\* A process that reports its envelope as published owns the file at its path,
\* and keeps it until it is replied to: nobody writes over it, whoever chose
\* the same path, and it has not ended up inside somebody's directory
\* (atomic_write).
PublishedIsOurs ==
  \A d \in Dispatchers : at[d] = "published" =>
    envelopes[Dest[d]].by = d \/ Dest[d] \in answered
=============================================================================
