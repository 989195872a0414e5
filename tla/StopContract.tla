---------------------------- MODULE StopContract ----------------------------
(***************************************************************************)
(* What a supervised run promises to the clients that ask it to stop the   *)
(* VM, without attempts, forces, connections or teardown: a stop is        *)
(* answered "stopped" only when the VM is down, and the run ends, leaving  *)
(* its exit record, only when nobody is waiting for an answer.             *)
(***************************************************************************)
CONSTANT Clients

VARIABLES
  vm,       \* "up", "down", or "recorded" once the exit record is left
  request   \* of each client: "idle", "asked", "stopped" or "refused"

vars == <<vm, request>>

Init == vm = "up" /\ request = [c \in Clients |-> "idle"]

Set(c, from, to) ==
  request[c] \in from /\ request' = [request EXCEPT ![c] = to]

Ask(c)      == vm # "recorded" /\ Set(c, {"idle"}, "asked") /\ UNCHANGED vm
Confirm(c)  == vm = "down" /\ Set(c, {"asked"}, "stopped") /\ UNCHANGED vm
Refuse(c)   == Set(c, {"asked"}, "refused") /\ UNCHANGED vm
HangUp(c)   == Set(c, {"stopped", "refused"}, "idle") /\ UNCHANGED vm

GoDown == vm = "up" /\ vm' = "down" /\ UNCHANGED request

Record ==
  /\ vm = "down" /\ \A c \in Clients : request[c] = "idle"
  /\ vm' = "recorded" /\ UNCHANGED request

Next ==
  \/ GoDown \/ Record
  \/ \E c \in Clients : Ask(c) \/ Confirm(c) \/ Refuse(c) \/ HangUp(c)

Spec == Init /\ [][Next]_vars
=============================================================================
