------------------------- MODULE AtMostOnceDelivery -------------------------
(***************************************************************************)
(* What one dispatch promises to its operator.                             *)
(*                                                                         *)
(* A task envelope is published once.  Its task may then be started by two *)
(* routes: the Desktop pipe, or an operator who pastes the pickup line.    *)
(* The dispatcher eventually tells the operator one thing about it, its    *)
(* claim, and the claim decides which route is still open:                 *)
(*                                                                         *)
(*   "pickup"     the task was not started and never will be by the pipe;  *)
(*                pasting the pickup line is safe                          *)
(*   "refused"    the task was not started by the pipe and never will be,  *)
(*                but no pickup is offered either                          *)
(*   "delivered"  the pipe started it                                      *)
(*   "unknown"    the pipe may have started it or may still do so          *)
(***************************************************************************)

VARIABLES published,  \* TRUE once the envelope is on disk
          claim,      \* what the operator has been told
          started     \* which route has started the task, if any

vars == <<published, claim, started>>

Claims == {"none", "pickup", "refused", "delivered", "unknown"}
Routes == {"none", "pipe", "paste"}

Init == /\ published = FALSE
        /\ claim = "none"
        /\ started = "none"

Publish == /\ ~published
           /\ published' = TRUE
           /\ UNCHANGED <<claim, started>>

\* The pipe may start the task late: after an "unknown" claim, but never
\* after a claim that calls it not started.
StartByPipe == /\ published
               /\ started = "none"
               /\ claim \in {"none", "unknown"}
               /\ started' = "pipe"
               /\ UNCHANGED <<published, claim>>

StartByPaste == /\ claim = "pickup"
                /\ started = "none"
                /\ started' = "paste"
                /\ UNCHANGED <<published, claim>>

MakeClaim(c) == /\ published
                /\ claim = "none"
                /\ c = "delivered" => started = "pipe"
                /\ c \in {"pickup", "refused"} => started = "none"
                /\ claim' = c
                /\ UNCHANGED <<published, started>>

Next == \/ Publish
        \/ StartByPipe
        \/ StartByPaste
        \/ \E c \in Claims \ {"none"} : MakeClaim(c)

Spec == Init /\ [][Next]_vars
=============================================================================
