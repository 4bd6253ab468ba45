----------------------------- MODULE MCChannels -----------------------------
(* Instance of Channels for TLC. *)
EXTENDS Channels, TLC

Interchangeable ==
  Permutations(Events) \cup Permutations(Workers) \cup Permutations(Tasks)

\* OneThread says nothing about what follows a race of two reopenings: TLC does
\* not go on from there.  Events, faults and posts share one budget.
Bounded ==
  /\ ~ raced
  /\ Cardinality({e \in Events : log[e] # "none"}) + faults + posts <= 4

=============================================================================
