------------------------ MODULE MCScheduledDelivery ------------------------
(* Small instances of ScheduledDelivery for TLC. *)
EXTENDS ScheduledDelivery, TLC

EventSymmetry == Permutations(Events)
=============================================================================
