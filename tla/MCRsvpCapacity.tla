--------------------------- MODULE MCRsvpCapacity ---------------------------
(* RsvpCapacity for TLC: interchangeable members and processes. *)
EXTENDS RsvpCapacity, TLC

RsvpSymmetry == Permutations(Members) \cup Permutations(Processes)
=============================================================================
