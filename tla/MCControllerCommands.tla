------------------------ MODULE MCControllerCommands ------------------------
(* Instance of ControllerCommands for TLC. *)
EXTENDS ControllerCommands
=============================================================================
