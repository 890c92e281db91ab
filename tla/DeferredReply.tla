---------------------------- MODULE DeferredReply ----------------------------
(***************************************************************************)
(* What a GenServer that answers its callers later promises them: a call   *)
(* waits, then is given one answer, and that answer never changes.  The    *)
(* server may answer several callers in one step (it stops, or it fails    *)
(* everything in flight).  Client.handle_call/3 returns {:noreply, ..} for *)
(* peer requests and control requests and AuthManager for setups, and each *)
(* keeps `from' in a collection of its own; their modules implement this   *)
(* specification.                                                          *)
(***************************************************************************)

CONSTANTS Requests,   \* the calls
          Answers     \* what a call can be told

VARIABLE status       \* of each call: "unasked", "waiting", or its answer

Status == {"unasked", "waiting"} \cup Answers

Init == status = [r \in Requests |-> "unasked"]

(***************************************************************************)
(* The moves one call may make; anything else is a lost, a second or a     *)
(* changed answer.                                                         *)
(***************************************************************************)
Moves(old, new) ==
  \/ new = old
  \/ old = "unasked" /\ new = "waiting"
  \/ old = "unasked" /\ new \in Answers
  \/ old = "waiting" /\ new \in Answers

Next == /\ status' \in [Requests -> Status]
        /\ \A r \in Requests : Moves(status[r], status'[r])

Spec == Init /\ [][Next]_status
==============================================================================
