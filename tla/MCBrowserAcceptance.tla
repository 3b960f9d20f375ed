------------------------- MODULE MCBrowserAcceptance -------------------------
(* Instances of BrowserAcceptance for TLC. *)
EXTENDS BrowserAcceptance

\* The gateway's snapshot has a state of charge of its own and no settings.
Snapshot == [soc |-> 61, topic |-> "none", loads |-> TRUE]
=============================================================================
