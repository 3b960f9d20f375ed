------------------------ MODULE MCNotificationWorker ------------------------
(* Instances of NotificationWorker for TLC. *)
EXTENDS NotificationWorker, TLC

\* Keys, deliveries and tabs are interchangeable.
WorkerSymmetry ==
  Permutations(Keys) \cup Permutations(Deliveries) \cup Permutations(Tabs)
=============================================================================
