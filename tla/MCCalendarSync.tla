--------------------------- MODULE MCCalendarSync ---------------------------
(* The instance of CalendarSync that TLC checks; see mirror.cfg.  Processes *)
(* are not declared symmetric: the run checks liveness.                     *)
EXTENDS CalendarSync

\* The times are interchangeable: the booking is made at one of them, and the
\* others are where it moves.
BookedAtFirst ==
  moves = 0 /\ edits = 0 => row.time \in {NULL, CHOOSE t \in Times : TRUE}

\* What both properties excuse is not looked into further.
NotExcused == ~ unguarded /\ ~ skipped

\* A move of the customer, a move of the owner, or a fault.  Calls that fail
\* come on top.
Bounded == moves + edits + faults <= 1

=============================================================================
