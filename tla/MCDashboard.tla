----------------------------- MODULE MCDashboard -----------------------------
(* Model checking of Dashboard: the first list has no devices to show.       *)
EXTENDS Dashboard

MCVisible == [f \in {"all"} |-> {1}]
=============================================================================
