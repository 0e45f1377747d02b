---------------------------- MODULE AgentPromise ----------------------------
(***************************************************************************)
(* What a deployment promises: a payment brings its payer one agent, at    *)
(* most once, and the agent stays.                                         *)
(***************************************************************************)
CONSTANTS Payments, Agents, Users, Nobody

VARIABLES
  payer,    \* who made a payment
  bought    \* the agents each payment brought, each with its owner

vars == <<payer, bought>>

Init ==
  /\ payer  = [p \in Payments |-> Nobody]
  /\ bought = [p \in Payments |-> {}]

Pay(p, u) ==
  /\ payer[p] = Nobody
  /\ payer' = [payer EXCEPT ![p] = u]
  /\ UNCHANGED bought

Redeem(p, a) ==
  /\ payer[p] \in Users
  /\ bought[p] = {}
  /\ \A q \in Payments, u \in Users : <<a, u>> \notin bought[q]
  /\ bought' = [bought EXCEPT ![p] = {<<a, payer[p]>>}]
  /\ UNCHANGED payer

Next ==
  \E p \in Payments : \/ \E u \in Users : Pay(p, u)
                      \/ \E a \in Agents : Redeem(p, a)

Spec == Init /\ [][Next]_vars
=============================================================================
