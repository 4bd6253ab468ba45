----------------------------- MODULE MCBookings -----------------------------
(* The instance of Bookings that TLC checks. *)
EXTENDS Bookings, TLC

CallerSymmetry == Permutations(Procs) \cup Permutations(Bookings)

\* DayCapacity and KeptApart say nothing about what follows a write that
\* straddled a change of calendar, nor DayCapacity about what follows a move
\* that overtook another, nor KeptApart about what follows a write beside a row
\* left behind: TLC does not go on from there.  (The state of the write itself
\* is checked, and with two bookings both are held in it.)
NotExcused == ~ straddled /\ ~ blind /\ ~ overtaken

=============================================================================
