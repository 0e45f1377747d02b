---------------------------- MODULE PayoutPromise ----------------------------
(***************************************************************************)
(* What the fee vault promises to those who fund it and those who claim:   *)
(* a claimer is paid up to an allowance that was published for it and      *)
(* never more, however often it asks, and all claimers together are paid   *)
(* at most half of what was deposited.                                     *)
(***************************************************************************)
EXTENDS Naturals

CONSTANTS Claimers

VARIABLES
  funds,   \* lamports deposited so far
  due,     \* the allowances published so far: pairs of claimer and lamports
  paid,    \* paid[c]: lamports paid to claimer c
  out      \* lamports paid to all claimers

vars == <<funds, due, paid, out>>

Init == funds = 0 /\ due = {} /\ paid = [c \in Claimers |-> 0] /\ out = 0

Fund ==
  /\ funds' > funds
  /\ UNCHANGED <<due, paid, out>>

Publish ==
  /\ due \subseteq due'
  /\ UNCHANGED <<funds, paid, out>>

Pay(c, allowance) ==
  /\ allowance > paid[c]
  /\ paid' = [paid EXCEPT ![c] = allowance]
  /\ out' = out + (allowance - paid[c])
  /\ 2 * out' <= funds
  /\ UNCHANGED <<funds, due>>

Next == Fund \/ Publish \/ \E leaf \in due : Pay(leaf[1], leaf[2])

Spec == Init /\ [][Next]_vars
=============================================================================
