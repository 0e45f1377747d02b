------------------------------ MODULE OreLedger ------------------------------
(***************************************************************************)
(* What the mining simulation promises about ore, with no tick, cache or   *)
(* handler in it: a unit leaves the ground once, for one agent, and stays  *)
(* credited to that agent.  Only an interruption of the process (a crash,  *)
(* a failed tick, an exit) may change what an agent is credited with, and  *)
(* then only within what it has taken out of the ground.                   *)
(***************************************************************************)
CONSTANTS Agents, Ore

VARIABLES
  ground,      \* units still in some hex
  dug,         \* dug[a]: the units agent a has taken out of the ground
  credit,      \* credit[a]: the units agent a is credited with
  interrupted  \* the process has been interrupted

vars == <<ground, dug, credit, interrupted>>

Init ==
  /\ ground \subseteq Ore
  /\ dug = [a \in Agents |-> {}]
  /\ credit = [a \in Agents |-> {}]
  /\ interrupted = FALSE

Dig(a, units) ==
  /\ units \subseteq ground
  /\ ground' = ground \ units
  /\ dug' = [dug EXCEPT ![a] = @ \cup units]
  /\ credit' = [credit EXCEPT ![a] = @ \cup units]
  /\ UNCHANGED interrupted

Interrupt ==
  /\ interrupted' = TRUE
  /\ \A a \in Agents : credit'[a] \subseteq dug[a]
  /\ UNCHANGED <<ground, dug>>

Next == Interrupt \/ \E a \in Agents : \E units \in SUBSET ground : Dig(a, units)

Spec == Init /\ [][Next]_vars
=============================================================================
