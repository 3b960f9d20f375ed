----------------------------- MODULE MCDashboard -----------------------------
(* Instances of Dashboard for TLC. *)
EXTENDS Dashboard

\* The second frame leaves out a field the first one carries.
TwoFrames == <<{"always", "optional"}, {"always"}>>
=============================================================================
