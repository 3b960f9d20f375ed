--------------------------- MODULE MCPushDelivery ---------------------------
(* Instances of PushDelivery for TLC. *)
EXTENDS PushDelivery, TLC

\* Requests run in interchangeable slots.
WorkerSymmetry == Permutations(Workers)
=============================================================================
