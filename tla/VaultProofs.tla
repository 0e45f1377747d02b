----------------------------- MODULE VaultProofs -----------------------------
(***************************************************************************)
(* Proofs about the on-chain program, for any claimers, amounts and roots. *)
(***************************************************************************)
EXTENDS FeeVault, TLAPS

VaultInv == ChainTypeOK /\ NoOverpayment /\ VaultBooks

\* The vault starts with its books in order.
LEMMA VaultStart == ASSUME ChainInit PROVE VaultInv
<1>1. ChainTypeOK
  <2>1. 0 \in Lamports
    BY VaultAssumption DEF Lamports
  <2>2. [c \in Claimers |-> 0] \in [Claimers -> Lamports]
    BY <2>1
  <2>3. [c \in Claimers |-> 0] \in [Claimers -> Nat]
    OBVIOUS
  <2> QED BY <2>1, <2>2, <2>3 DEF ChainInit, ChainTypeOK
<1>2. NoOverpayment
  BY DEF ChainInit, NoOverpayment
<1>3. VaultBooks
  BY DEF ChainInit, VaultBooks
<1> QED BY <1>1, <1>2, <1>3 DEF VaultInv

\* What is known of a claim that is accepted: its leaf was published, and the
\* payout fits the vault's share and the treasury.
LEMMA ClaimFacts ==
  ASSUME VaultInv, NEW leaf \in merkle_root, Claimable(leaf[1], leaf[2])
  PROVE  /\ leaf[1] \in Claimers /\ leaf[2] \in Lamports
         /\ <<leaf[1], leaf[2]>> \in published
         /\ Payout(leaf[1], leaf[2]) \in Nat /\ Payout(leaf[1], leaf[2]) > 0
         /\ total_claimed + Payout(leaf[1], leaf[2]) <= total_deposited \div 2
         /\ treasury >= Payout(leaf[1], leaf[2])
<1>1. leaf \in Claimers \X Lamports
  BY DEF VaultInv, ChainTypeOK, Leaves
<1>2. leaf = <<leaf[1], leaf[2]>> /\ leaf[1] \in Claimers /\ leaf[2] \in Lamports
  BY <1>1
<1>3. <<leaf[1], leaf[2]>> \in published
  BY <1>2 DEF VaultInv, VaultBooks
<1>4. claimed_total[leaf[1]] \in Nat /\ leaf[2] \in Nat
  BY <1>2, VaultAssumption DEF VaultInv, ChainTypeOK, Lamports
<1>5. Payout(leaf[1], leaf[2]) \in Nat /\ Payout(leaf[1], leaf[2]) > 0
  BY <1>4 DEF Claimable, Payout
<1>6. total_claimed + Payout(leaf[1], leaf[2]) <= total_deposited \div 2
  BY DEF Claimable
<1>7. /\ total_claimed \in Nat /\ total_deposited \in Nat /\ treasury \in Nat
      /\ treasury >= total_deposited - total_claimed
  BY VaultAssumption DEF VaultInv, VaultBooks, ChainTypeOK, Lamports
<1>8. treasury >= Payout(leaf[1], leaf[2])
  BY <1>5, <1>6, <1>7
<1> QED BY <1>2, <1>3, <1>5, <1>6, <1>8

\* Every instruction keeps the books in order.
LEMMA VaultStep == ASSUME VaultInv, [ChainNext]_chain PROVE VaultInv'
<1> USE VaultAssumption
<1>1. CASE UNCHANGED chain
  BY <1>1 DEF VaultInv, ChainTypeOK, NoOverpayment, VaultBooks, chain, accounts, lamports
<1>2. CASE Initialize
  BY <1>2 DEF Initialize, VaultInv, ChainTypeOK, NoOverpayment, VaultBooks, accounts,
              lamports, Lamports
<1>3. CASE InitializeVault
  BY <1>3 DEF InitializeVault, VaultInv, ChainTypeOK, NoOverpayment, VaultBooks, accounts,
              lamports
<1>4. CASE DeployAgent
  BY <1>4 DEF DeployAgent, VaultInv, ChainTypeOK, NoOverpayment, VaultBooks, accounts,
              Lamports
<1>5. CASE PauseVault
  BY <1>5 DEF PauseVault, VaultInv, ChainTypeOK, NoOverpayment, VaultBooks, accounts,
              lamports
<1>6. CASE UnpauseVault
  BY <1>6 DEF UnpauseVault, VaultInv, ChainTypeOK, NoOverpayment, VaultBooks, accounts,
              lamports
<1>7. ASSUME NEW amount \in Amounts, DepositFees(amount) PROVE VaultInv'
  BY <1>7 DEF DepositFees, VaultInv, ChainTypeOK, NoOverpayment, VaultBooks, Lamports
<1>8. ASSUME NEW leaf \in merkle_root, ClaimEarnings(leaf[1], leaf[2]) PROVE VaultInv'
  <2> DEFINE c == leaf[1]  allowance == leaf[2]  pay == Payout(leaf[1], leaf[2])
  <2>1. /\ c \in Claimers /\ allowance \in Lamports /\ <<c, allowance>> \in published
        /\ pay \in Nat /\ pay > 0 /\ total_claimed + pay <= total_deposited \div 2
        /\ treasury >= pay
    BY <1>8, ClaimFacts DEF ClaimEarnings
  <2>2. pay = allowance - claimed_total[c]
    BY DEF Payout
  <2>3. /\ treasury' = treasury - pay /\ total_claimed' = total_claimed + pay
        /\ total_distributed' = total_distributed + pay
        /\ received' = [received EXCEPT ![c] = @ + pay]
        /\ claimed_total' = [claimed_total EXCEPT ![c] = allowance]
        /\ UNCHANGED <<total_agents, ready, merkle_root, total_deposited, paused, published>>
    BY <1>8 DEF ClaimEarnings
  <2> HIDE DEF c, allowance, pay
  <2>4. ChainTypeOK'
    BY <2>1, <2>3 DEF VaultInv, ChainTypeOK, VaultBooks, Lamports
  <2>5. NoOverpayment'
    <3>1. /\ received \in [Claimers -> Nat] /\ claimed_total \in [Claimers -> Lamports]
          /\ claimed_total[c] \in Nat /\ allowance \in Nat
          /\ received[c] = claimed_total[c]
      <4>1. Lamports \subseteq Nat
        BY DEF Lamports
      <4>2. claimed_total[c] \in Lamports
        BY <2>1 DEF VaultInv, ChainTypeOK
      <4> QED BY <2>1, <4>1, <4>2 DEF VaultInv, ChainTypeOK, NoOverpayment
    <3>2. received[c] + pay = allowance
      BY <2>2, <3>1
    <3>3. received'[c] = allowance /\ claimed_total'[c] = allowance
      BY <2>1, <2>3, <3>1, <3>2
    <3>4. \A d \in Claimers \ {c} :
            received'[d] = received[d] /\ claimed_total'[d] = claimed_total[d]
      BY <2>3, <3>1
    <3>5. published' = published
      BY <2>3
    <3> QED BY <2>1, <3>3, <3>4, <3>5 DEF VaultInv, NoOverpayment
  <2>6. VaultBooks'
    BY <2>1, <2>3 DEF VaultInv, ChainTypeOK, VaultBooks, Lamports
  <2> QED BY <2>4, <2>5, <2>6 DEF VaultInv
<1>9. ASSUME NEW new_root \in SUBSET Leaves, UpdateMerkleRoot(new_root) PROVE VaultInv'
  BY <1>9 DEF UpdateMerkleRoot, VaultInv, ChainTypeOK, NoOverpayment, VaultBooks, accounts,
              lamports
<1> QED BY <1>1, <1>2, <1>3, <1>4, <1>5, <1>6, <1>7, <1>8, <1>9 DEF ChainNext

\* The books stay in order for ever.
LEMMA VaultAlways == ChainSpec => []VaultInv
<1>1. ChainInit => VaultInv
  BY VaultStart
<1>2. VaultInv /\ [ChainNext]_chain => VaultInv'
  BY VaultStep
<1> QED BY <1>1, <1>2, PTL DEF ChainSpec

\* Nobody is paid more than an allowance that was published for them, whatever
\* sequence of roots and claims there is.
THEOREM NoClaimOverpays == ChainSpec => []NoOverpayment
<1>1. VaultInv => NoOverpayment
  BY DEF VaultInv
<1> QED BY <1>1, VaultAlways, PTL

\* The treasury always has what an acceptable claim is owed, and the platform's
\* half of the deposits: the balance check of claim_earnings never fails.
THEOREM TreasuryCovers == ChainSpec => []InTreasury
<1>1. ASSUME VaultInv PROVE InTreasury
  <2>1. treasury >= total_deposited - total_deposited \div 2
    BY <1>1, VaultAssumption DEF VaultInv, ChainTypeOK, VaultBooks, Lamports
  <2>2. ASSUME NEW leaf \in merkle_root, Claimable(leaf[1], leaf[2])
        PROVE  treasury >= Payout(leaf[1], leaf[2])
    BY <1>1, <2>2, ClaimFacts
  <2> QED BY <2>1, <2>2 DEF InTreasury
<1>2. VaultInv => InTreasury
  BY <1>1
<1> QED BY <1>2, VaultAlways, PTL

\* The program pays what was published and no more, and can pay what it owes.
THEOREM VaultStaysSafe == ChainSpec => []VaultIsSafe
<1>1. NoOverpayment /\ InTreasury => VaultIsSafe
  BY DEF VaultIsSafe
<1> QED BY <1>1, NoClaimOverpays, TreasuryCovers, PTL

\* The program implements the payout promise.
THEOREM ImplementsPromise == ChainSpec => PromiseSpec
<1>1. ChainInit => Promise!Init
  BY DEF ChainInit, Promise!Init
<1>2. ASSUME VaultInv, [ChainNext]_chain PROVE [Promise!Next]_(Promise!vars)
  <2>1. CASE UNCHANGED chain
    BY <2>1 DEF chain, accounts, lamports, Promise!vars
  <2>2. CASE Initialize \/ InitializeVault \/ DeployAgent \/ PauseVault \/ UnpauseVault
    BY <2>2 DEF Initialize, InitializeVault, DeployAgent, PauseVault, UnpauseVault,
                accounts, lamports, Promise!vars
  <2>3. ASSUME NEW amount \in Amounts, DepositFees(amount) PROVE Promise!Fund
    BY <1>2, <2>3, VaultAssumption
    DEF DepositFees, Promise!Fund, VaultInv, ChainTypeOK, Lamports
  <2>4. ASSUME NEW leaf \in merkle_root, ClaimEarnings(leaf[1], leaf[2])
        PROVE  Promise!Next
    <3>1. /\ leaf[1] \in Claimers /\ leaf[2] \in Lamports /\ leaf \in published
          /\ Payout(leaf[1], leaf[2]) \in Nat /\ Payout(leaf[1], leaf[2]) > 0
          /\ total_claimed + Payout(leaf[1], leaf[2]) <= total_deposited \div 2
      BY <1>2, <2>4, ClaimFacts DEF ClaimEarnings, VaultInv, VaultBooks
    <3>2. /\ received \in [Claimers -> Nat] /\ received[leaf[1]] = claimed_total[leaf[1]]
          /\ claimed_total[leaf[1]] \in Nat /\ leaf[2] \in Nat
          /\ total_claimed \in Nat /\ total_deposited \in Nat
      <4>1. Lamports \subseteq Nat
        BY VaultAssumption DEF Lamports
      <4>2. claimed_total[leaf[1]] \in Lamports
        BY <1>2, <3>1 DEF VaultInv, ChainTypeOK
      <4> QED BY <1>2, <3>1, <4>1, <4>2 DEF VaultInv, ChainTypeOK, NoOverpayment
    <3>3. Payout(leaf[1], leaf[2]) = leaf[2] - received[leaf[1]]
      BY <3>2 DEF Payout
    <3>4. leaf[2] > received[leaf[1]]
      BY <3>1, <3>2, <3>3
    <3>5. received' = [received EXCEPT ![leaf[1]] = leaf[2]]
      <4>1. received[leaf[1]] + Payout(leaf[1], leaf[2]) = leaf[2]
        BY <3>2, <3>3
      <4>2. received' = [received EXCEPT ![leaf[1]] = @ + Payout(leaf[1], leaf[2])]
        BY <2>4 DEF ClaimEarnings
      <4> QED BY <4>1, <4>2
    <3>6. total_claimed' = total_claimed + (leaf[2] - received[leaf[1]])
      BY <2>4, <3>3 DEF ClaimEarnings
    <3>7. 2 * total_claimed' <= total_deposited
      BY <3>1, <3>2, <3>3, <3>6
    <3>8. UNCHANGED <<total_deposited, published>>
      BY <2>4 DEF ClaimEarnings
    <3>9. Promise!Pay(leaf[1], leaf[2])
      BY <3>4, <3>5, <3>6, <3>7, <3>8 DEF Promise!Pay
    <3> QED BY <3>1, <3>9 DEF Promise!Next
  <2>5. ASSUME NEW new_root \in SUBSET Leaves, UpdateMerkleRoot(new_root)
        PROVE  Promise!Publish
    BY <2>5 DEF UpdateMerkleRoot, Promise!Publish, accounts, lamports
  <2> QED BY <1>2, <2>1, <2>2, <2>3, <2>4, <2>5 DEF ChainNext, Promise!Next
<1>3. VaultInv /\ [ChainNext]_chain => [Promise!Next]_(Promise!vars)
  BY <1>2
<1> QED BY <1>1, <1>3, VaultAlways, PTL DEF ChainSpec, PromiseSpec, Promise!Spec
=============================================================================
