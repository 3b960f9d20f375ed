--------------------------- MODULE CommandOutcome ---------------------------
(***************************************************************************)
(* What a browser may conclude from the answer to a command: "ok" to a     *)
(* setpoint override means that the controller took a command with that    *)
(* request ID and that value ("only settle override after an exact fresh   *)
(* controller readback", controller_commands.go:104).  An error promises   *)
(* nothing: the command may still arrive, or have been taken.              *)
(***************************************************************************)
CONSTANTS Calls, Payloads, NoPayload

VARIABLES
  outcome,   \* "new", "pending", "ok" or "error"
  asked,     \* the override each call asks for, NoPayload for other commands
  accepted   \* overrides the controller took

vars == <<outcome, asked, accepted>>

Init ==
  /\ outcome = [c \in Calls |-> "new"] /\ asked = [c \in Calls |-> NoPayload]
  /\ accepted = {}

Ask(c, p) ==
  /\ outcome[c] = "new"
  /\ outcome' = [outcome EXCEPT ![c] = "pending"] /\ asked' = [asked EXCEPT ![c] = p]
  /\ UNCHANGED accepted

\* From this dashboard or another one, maybe after the call has given up.
Accept(p) ==
  /\ accepted' = accepted \cup {p} /\ UNCHANGED <<outcome, asked>>

Settle(c) ==
  /\ outcome[c] = "pending" /\ (asked[c] = NoPayload \/ asked[c] \in accepted)
  /\ outcome' = [outcome EXCEPT ![c] = "ok"] /\ UNCHANGED <<asked, accepted>>

GiveUp(c) ==
  /\ outcome[c] = "pending"
  /\ outcome' = [outcome EXCEPT ![c] = "error"] /\ UNCHANGED <<asked, accepted>>

Next ==
  \/ \E c \in Calls : (\E p \in Payloads \cup {NoPayload} : Ask(c, p)) \/ Settle(c) \/ GiveUp(c)
  \/ \E p \in Payloads : Accept(p)

Spec == Init /\ [][Next]_vars
=============================================================================
