---------------------------- MODULE PoolContract ----------------------------
(***************************************************************************)
(* What a worker pool promises to the consumer that feeds it: an item it   *)
(* accepts is taken over once and settled once, settled for certain while  *)
(* the pool is open, and a call of Stop comes to an end. Nothing is        *)
(* promised for items still held when the pool is being stopped.           *)
(***************************************************************************)
CONSTANT Items

VARIABLES
  state,  \* each item: "new", "held" by the pool, or "settled"
  phase   \* the pool: "open", "stopping", "stopped" or "panicked"

contractVars == <<state, phase>>

Init ==
  /\ state = [i \in Items |-> "new"]
  /\ phase = "open"

Accept(i) ==
  /\ state[i] = "new"
  /\ state' = [state EXCEPT ![i] = "held"]
  /\ UNCHANGED phase

Settle(i) ==
  /\ state[i] = "held"
  /\ state' = [state EXCEPT ![i] = "settled"]
  /\ UNCHANGED phase

StopBegins ==
  /\ phase = "open"
  /\ phase' = "stopping"
  /\ UNCHANGED state

StopEnds ==
  /\ phase = "stopping"
  /\ phase' \in {"stopped", "panicked"}
  /\ UNCHANGED state

Next ==
  \/ \E i \in Items : Accept(i) \/ Settle(i)
  \/ StopBegins \/ StopEnds

Fairness ==
  /\ \A i \in Items : WF_contractVars(phase = "open" /\ Settle(i))
  /\ WF_contractVars(StopEnds)

SafeSpec == Init /\ [][Next]_contractVars
Spec     == SafeSpec /\ Fairness
=============================================================================
