------------------------------ MODULE PushOnce ------------------------------
(***************************************************************************)
(* What scheduled delivery promises the owner of a browser subscription,   *)
(* with logs, claims, workers and crashes left out: for one reminder of    *)
(* one event, the push service is asked by one caller at a time, and once  *)
(* a call may have arrived nobody calls again.                             *)
(***************************************************************************)

CONSTANT Targets      \* the (reminder, endpoint) pairs

VARIABLE phase        \* phase[t]: "open", "calling" or "closed"

Phases == {"open", "calling", "closed"}

Init == phase = [t \in Targets |-> "open"]

Move(t, from, to) ==
    /\ phase[t] = from
    /\ phase' = [phase EXCEPT ![t] = to]

Call(t)   == Move(t, "open", "calling")
Refuse(t) == Move(t, "calling", "open")     \* the push service said no
Close(t)  == Move(t, "calling", "closed")   \* accepted, or never known

Next == \E t \in Targets : Call(t) \/ Refuse(t) \/ Close(t)

Spec == Init /\ [][Next]_phase
=============================================================================
