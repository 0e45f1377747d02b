------------------------------ MODULE FeeVault ------------------------------
(***************************************************************************)
(* The on-chain program: the agent counter, the treasury, the fee vault    *)
(* with its Merkle root, and the cumulative claims.  An instruction is one *)
(* action: a transaction that fails a require! changes nothing.            *)
(*                                                                         *)
(* A Merkle root stands for the set of leaves of its tree, and verify_proof *)
(* for membership in it (the hash has no collisions); the empty set is the *)
(* zero root.  Amounts are lamports, at most U64.                          *)
(***************************************************************************)
EXTENDS Integers, FiniteSets

CONSTANTS
  Claimers,     \* wallets
  DEPLOY_COST,  \* the fee of a deployment
  MIN_CLAIM,    \* the least payout
  U64,          \* the largest u64
  Amounts       \* the deposits made in this instance

ASSUME VaultAssumption ==
  /\ DEPLOY_COST \in Nat \ {0} /\ MIN_CLAIM \in Nat \ {0} /\ U64 \in Nat
  /\ Amounts \subseteq Nat

Lamports == 0 .. U64
Leaves   == Claimers \X Lamports

VARIABLES
  total_agents,      \* Config.total_agents, or -1 before initialize
  ready,             \* initialize_vault has been called
  merkle_root,       \* FeeVaultState, field by field
  total_deposited,
  total_claimed,
  total_distributed,
  paused,
  claimed_total,     \* ClaimState.claimed_total of each claimer (0: no account)
  treasury,          \* lamports in the treasury account
  received,          \* history: lamports each claimer was paid
  published          \* history: the leaves of every root there has been

accounts   == <<total_deposited, total_claimed, total_distributed, claimed_total>>
lamports   == <<treasury, received>>
chain      == <<total_agents, ready, merkle_root, accounts, paused, lamports, published>>

ChainInit ==
  /\ total_agents = -1 /\ ready = FALSE
  /\ merkle_root = {} /\ paused = FALSE
  /\ total_deposited = 0 /\ total_claimed = 0 /\ total_distributed = 0
  /\ claimed_total = [c \in Claimers |-> 0]
  /\ treasury = 0 /\ received = [c \in Claimers |-> 0]
  /\ published = {}

\* initialize and initialize_vault create their account, so they succeed once.
Initialize ==
  /\ total_agents = -1
  /\ total_agents' = 0
  /\ UNCHANGED <<ready, merkle_root, accounts, paused, lamports, published>>

InitializeVault ==
  /\ ~ready
  /\ ready' = TRUE
  /\ UNCHANGED <<total_agents, merkle_root, accounts, paused, lamports, published>>

\* deploy_agent: the fee reaches the treasury, the vault is not told.
DeployAgent ==
  /\ total_agents \in 0 .. U64 - 1
  /\ treasury' = treasury + DEPLOY_COST
  /\ total_agents' = total_agents + 1
  /\ UNCHANGED <<ready, merkle_root, accounts, paused, received, published>>

DepositFees(amount) ==
  /\ ready /\ amount > 0
  /\ total_deposited + amount <= U64
  /\ treasury' = treasury + amount
  /\ total_deposited' = total_deposited + amount
  /\ UNCHANGED <<total_agents, ready, merkle_root, total_claimed, total_distributed,
                 claimed_total, paused, received, published>>

\* The payout that claim_earnings owes for an allowance.
Payout(c, allowance) == allowance - claimed_total[c]

\* The require!s of claim_earnings that look at the claim itself.
ClaimableNoShare(c, allowance) ==   \* Variant: the vault's share is not enforced.
  /\ ready /\ ~paused /\ <<c, allowance>> \in merkle_root
  /\ allowance > claimed_total[c]
  /\ Payout(c, allowance) >= MIN_CLAIM

Claimable(c, allowance) ==
  /\ ready /\ ~paused /\ <<c, allowance>> \in merkle_root
  /\ allowance > claimed_total[c]
  /\ Payout(c, allowance) >= MIN_CLAIM
  /\ total_claimed + Payout(c, allowance) <= total_deposited \div 2

\* claim_earnings.  The treasury's balance is checked as well: InTreasury below
\* says that this check never fails.
ClaimForgets(c, allowance) ==   \* Variant: the claimer's total is not recorded.
  /\ Claimable(c, allowance)
  /\ treasury >= Payout(c, allowance)
  /\ treasury' = treasury - Payout(c, allowance)
  /\ received' = [received EXCEPT ![c] = @ + Payout(c, allowance)]
  /\ total_claimed' = total_claimed + Payout(c, allowance)
  /\ total_distributed' = total_distributed + Payout(c, allowance)
  /\ UNCHANGED <<total_agents, ready, merkle_root, total_deposited, claimed_total,
                 paused, published>>

ClaimEarnings(c, allowance) ==
  /\ Claimable(c, allowance)
  /\ treasury >= Payout(c, allowance)
  /\ treasury' = treasury - Payout(c, allowance)
  /\ received' = [received EXCEPT ![c] = @ + Payout(c, allowance)]
  /\ claimed_total' = [claimed_total EXCEPT ![c] = allowance]
  /\ total_claimed' = total_claimed + Payout(c, allowance)
  /\ total_distributed' = total_distributed + Payout(c, allowance)
  /\ UNCHANGED <<total_agents, ready, merkle_root, total_deposited, paused, published>>

PauseVault ==
  /\ ready /\ ~paused
  /\ paused' = TRUE
  /\ UNCHANGED <<total_agents, ready, merkle_root, accounts, lamports, published>>

UnpauseVault ==
  /\ ready /\ paused
  /\ paused' = FALSE
  /\ UNCHANGED <<total_agents, ready, merkle_root, accounts, lamports, published>>

\* update_merkle_root accepts any root.
UpdateMerkleRoot(new_root) ==
  /\ ready
  /\ merkle_root' = new_root
  /\ published' = published \cup new_root
  /\ UNCHANGED <<total_agents, ready, accounts, paused, lamports>>

ChainNext ==
  \/ Initialize \/ InitializeVault \/ DeployAgent \/ PauseVault \/ UnpauseVault
  \/ \E amount \in Amounts : DepositFees(amount)
  \/ \E leaf \in merkle_root : ClaimEarnings(leaf[1], leaf[2])
  \/ \E new_root \in SUBSET Leaves : UpdateMerkleRoot(new_root)

ChainSpec == ChainInit /\ [][ChainNext]_chain

-----------------------------------------------------------------------------
ChainTypeOK ==
  /\ total_agents \in {-1} \cup Lamports
  /\ ready \in BOOLEAN /\ paused \in BOOLEAN
  /\ merkle_root \subseteq Leaves /\ published \subseteq Leaves
  /\ total_deposited \in Lamports /\ total_claimed \in Lamports
  /\ total_distributed \in Lamports
  /\ claimed_total \in [Claimers -> Lamports]
  /\ treasury \in Nat
  /\ received \in [Claimers -> Nat]

\* Whatever roots the admin publishes, and in whatever order allowances grow,
\* shrink or return: a claimer has been paid exactly what its claim account says,
\* and that is an allowance once published for it.
NoOverpayment ==
  \A c \in Claimers : /\ received[c] = claimed_total[c]
                      /\ claimed_total[c] # 0 => <<c, claimed_total[c]>> \in published

\* The treasury keeps the platform's half of the deposits: a claim that passes
\* every other check never finds it short.
InTreasury ==
  /\ treasury >= total_deposited - total_deposited \div 2
  /\ \A leaf \in merkle_root :
       Claimable(leaf[1], leaf[2]) => treasury >= Payout(leaf[1], leaf[2])

\* What the program is trusted with: it pays what was published and no more, and it can
\* always pay what it owes.
VaultIsSafe == NoOverpayment /\ InTreasury

\* What makes both inductive: the vault's books agree with the treasury, and the
\* root in force has been published.
VaultBooks ==
  /\ merkle_root \subseteq published
  /\ total_distributed = total_claimed
  /\ 2 * total_claimed <= total_deposited
  /\ treasury >= total_deposited - total_claimed

\* The vault keeps the promise.
Promise == INSTANCE PayoutPromise WITH
  funds <- total_deposited, due <- published, paid <- received, out <- total_claimed
PromiseSpec == Promise!Spec
=============================================================================
