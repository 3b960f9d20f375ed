------------------------- MODULE MCTelemetrySource -------------------------
(* TLC instance of TelemetrySource. *)
EXTENDS TelemetrySource
=============================================================================
