------------------------------ MODULE MCServer ------------------------------
(***************************************************************************)
(* Small instances, for TLC, of the parts of the server beside the mining  *)
(* loop: contracts, gold rushes, the sky, the economy configuration, the   *)
(* seasons and the Merkle tree of the allowances.  They share no state, so *)
(* a behaviour moves one of them, `part', and leaves the others at one     *)
(* initial state.                                                          *)
(***************************************************************************)
EXTENDS DailyContract, GoldRush, Sky, EconomyConfig, Seasons, MerkleTree

CONSTANTS r1, r2, p1, g1, g2, c1, c2

VARIABLE part

\* Rain over marsh and plain, an ember front that ends soon, dust from the edge.
Paths ==
  { [type |-> "rain",  origin |-> <<0, 0>>,  velocity |-> <<1, 0>>,  radius |-> 1, life |-> 4],
    [type |-> "ember", origin |-> <<1, 0>>,  velocity |-> <<-1, 1>>, radius |-> 1, life |-> 2],
    [type |-> "dust",  origin |-> <<2, -1>>, velocity |-> <<-1, 0>>, radius |-> 1, life |-> 4] }
\* Clocks that are right, a minute behind and a minute ahead.
BrowserErrors == {-1, 0, 1}
PlotSet == {[hex |-> <<1, 0>>, biome |-> "MARSH"], [hex |-> <<0, 0>>, biome |-> "PLAINS"]}

\* Trees of up to six leaves, and the same users a snapshot later: a share's leaf lies
\* elsewhere for another allowance.
EachShare == (1..6) \X {1, 2}
LeafOrder == [s \in EachShare |-> IF s[2] = 1 THEN 2 * s[1] ELSE 13 - 2 * s[1]]
EachSnapshot ==
  {S \X {1} : S \in SUBSET (1..6) \ {{}}}
    \cup {(1..5) \X {2}, {1, 2, 3} \X {2} \cup {4, 5, 6} \X {1}}

WalletOrder == [g \in {g1, g2} |-> IF g = g1 THEN 1 ELSE 2]

ServerInit ==
  /\ part \in {"contract", "rush", "sky", "economy", "season", "tree"}
  /\ ContractInit /\ (part # "contract" => agentCount = 0)
  /\ RushInit /\ SkyInit /\ EconomyInit /\ SeasonInit /\ TreeInit

ServerNext ==
  /\ \/ /\ part = "contract" /\ ContractNext
        /\ UNCHANGED <<rushVars, skyVars, economyVars, seasonVars, treeVars>>
     \/ /\ part = "rush" /\ RushNext
        /\ UNCHANGED <<contractVars, skyVars, economyVars, seasonVars, treeVars>>
     \/ /\ part = "sky" /\ SkyNext
        /\ UNCHANGED <<contractVars, rushVars, economyVars, seasonVars, treeVars>>
     \/ /\ part = "economy" /\ EconomyNext
        /\ UNCHANGED <<contractVars, rushVars, skyVars, seasonVars, treeVars>>
     \/ /\ part = "season" /\ SeasonNext
        /\ UNCHANGED <<contractVars, rushVars, skyVars, economyVars, treeVars>>
     \/ /\ part = "tree" /\ TreeNext
        /\ UNCHANGED <<contractVars, rushVars, skyVars, economyVars, seasonVars>>
  /\ UNCHANGED part

serverVars == <<contractVars, rushVars, skyVars, economyVars, seasonVars, treeVars,
                part>>

\* The fairness of the part that moves (RushFair, EconomyFair).
ServerFair ==
  /\ WF_rushVars(part = "rush" /\ TimePasses)
  /\ WF_rushVars(part = "rush" /\ RushTickMoves)
  /\ WF_rushVars(part = "rush" /\ \E ok \in BOOLEAN : RehydrateGoldRush(ok))
  /\ WF_rushVars(part = "rush" /\ \E ok \in BOOLEAN : TouchWritten(ok))
  /\ WF_economyVars(part = "economy" /\ CacheExpires)
  /\ WF_economyVars(part = "economy" /\ \E ok \in BOOLEAN : ConfigInvalidated(ok))
  /\ \A r \in Readers : /\ WF_economyVars(part = "economy" /\ ConfigRead(r))
                        /\ WF_economyVars(part = "economy" /\ ConfigStored(r))

ServerSpec == ServerInit /\ [][ServerNext]_serverVars /\ ServerFair

-----------------------------------------------------------------------------
(* Properties. *)

ServerTypeOK == ContractTypeOK /\ RushTypeOK /\ SkyTypeOK /\ EconomyTypeOK /\ SeasonTypeOK
                /\ TreeTypeOK

\* What was interrupted comes right: an achieved rush is settled, and the copy of
\* the configuration is the row's again or gone.
ServerCatchesUp == RushSettles /\ ConfigCatchesUp
=============================================================================
