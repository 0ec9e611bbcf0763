------------------------------ MODULE AtomicReads ------------------------------
(***************************************************************************)
(* What a chain of reads promises its caller.                              *)
(*                                                                         *)
(* A read takes many accesses to a file that others write to, and carries  *)
(* on from what the caller holds of an earlier one.  It is nevertheless as *)
(* if it had glimpsed the file at its path once, at one moment between its *)
(* beginning and its end:  the caller goes on to hold what was glimpsed,   *)
(* which goes on from what it held, and is given the listing of exactly    *)
(* that; or it keeps what it has.                                          *)
(***************************************************************************)
EXTENDS SequencesExt

CONSTANTS Lines,
          Acceptable(_),    \* of lines: they may be handed on
          IsListing(_, _)   \* of a listing and lines: it is the one they have

VARIABLES file,       \* the complete lines of the file at the path
          glimpse,    \* what the read under way has seen of them, once it has
          held,       \* the lines the caller's cursor stands behind
          delivered   \* the listing it has been given

vars == <<file, glimpse, held, delivered>>

Init == file \in Seq(Lines) /\ glimpse = <<>> /\ held = <<>> /\ delivered = <<>>

\* Others do to the file what they want; a glimpse may become worthless by it.
Change ==
  /\ file' \in Seq(Lines) /\ glimpse' \in {glimpse, <<>>}
  /\ UNCHANGED <<held, delivered>>

Glimpse ==
  /\ \E n \in 1 .. Len(file) : glimpse' = SubSeq(file, 1, n)
  /\ UNCHANGED <<file, held, delivered>>

Succeed ==
  /\ Acceptable(glimpse) /\ IsPrefix(held, glimpse)
  /\ held' = glimpse /\ glimpse' = <<>>
  /\ IsListing(delivered', held') /\ IsPrefix(delivered, delivered')
  /\ UNCHANGED file

Fail ==
  /\ glimpse' = <<>>
  /\ UNCHANGED <<file, held, delivered>>

\* The caller lets go of what it holds, to have the file read from its start.
StartOver ==
  /\ glimpse = <<>> /\ held' = <<>> /\ delivered' = <<>>
  /\ UNCHANGED <<file, glimpse>>

Next == Change \/ Glimpse \/ Succeed \/ Fail \/ StartOver

Spec == Init /\ [][Next]_vars
=============================================================================
