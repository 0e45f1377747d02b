--------------------------- MODULE EarningsClaims ---------------------------
(***************************************************************************)
(* The server's half of a payout: fee deposits recorded in the database,   *)
(* snapshots of the mined scores, the cached Merkle tree, the claim        *)
(* transactions handed to clients and the confirmations of those that      *)
(* landed, beside the on-chain program of FeeVault.                        *)
(*                                                                         *)
(* An await is a point where other steps may come between: a claim request *)
(* reads its user's earnings, then the list of snapshots, then one user's  *)
(* share after another, and then gets a tree.                              *)
(***************************************************************************)
EXTENDS FeeVault, Sequences, FiniteSetsExt, Functions

CONSTANTS
  Outside,     \* score of the user's agents that are not in the cache
  MaxScore,    \* largest score the cached agents of a user reach
  Rent,        \* lamports a claimer's first claim pays for its claim account
  Monitors,    \* checks of the treasury's history that run at a time
  Confirms,    \* confirmation requests in flight at a time
  MaxInflows,  \* bound: deposits on the chain
  MaxFlushes,  \* bound: flushes of the mined scores
  MaxOffers    \* bound: claim transactions handed out

ASSUME ServerAssumption ==
  /\ IsFiniteSet(Claimers)
  /\ Outside \in [Claimers -> Nat]
  /\ MaxScore \in Nat /\ MaxInflows \in Nat /\ MaxFlushes \in Nat /\ MaxOffers \in Nat
  /\ Rent \in 0 .. MIN_CLAIM - 1

VARIABLES
  inflow,       \* amounts that reached the treasury or the fee wallet, in order
  deposits,     \* FeeDeposit rows: positions in inflow
  pool,         \* sum of the unprocessed FeeDeposit rows
  checking,     \* checking[m]: the signatures a check of the monitor has yet to do
  score,        \* score of a user's cached agents, as the MiningState rows have it
  snapshot,     \* EarningsSnapshot.weightedScore, -1: no row
  flushes,      \* flushes so far
  flushing,     \* a flush has committed and not yet invalidated the tree
  tree,         \* cachedTree: its leaves, {} when there is none
  call,         \* call[c]: the claim request of user c
  offers,       \* claim transactions handed out, with the tree of their proof
  landed,       \* claim transactions that landed: claimer and balance change
  claims,       \* Claim rows: positions in landed
  confirming,   \* confirming[k]: position in landed past the pre-check, 0: idle
  recorded      \* EarningsSnapshot.totalClaimed

monitor == <<deposits, pool, checking>>
scores  == <<score, snapshot, flushes, flushing>>
books   == <<claims, confirming, recorded>>
server  == <<monitor, scores, tree, call, offers, landed, books>>
vars    == <<chain, inflow, server>>

Quiet == [step |-> "quiet", allowance |-> 0, left |-> {}, shares |-> {}]

Init ==
  /\ ChainInit
  /\ inflow = <<>> /\ deposits = {} /\ pool = 0 /\ checking = [m \in Monitors |-> {}]
  /\ score = [c \in Claimers |-> 0] /\ snapshot = [c \in Claimers |-> -1]
  /\ flushes = 0 /\ flushing = FALSE /\ tree = {}
  /\ call = [c \in Claimers |-> Quiet]
  /\ offers = {} /\ landed = <<>>
  /\ claims = {} /\ confirming = [k \in Confirms |-> 0]
  /\ recorded = [c \in Claimers |-> 0]

-----------------------------------------------------------------------------
\* The chain, seen from outside.  The monitor reads the history of two accounts:
\* the treasury, and the fee wallet of the token, which the program knows not of.
Inflow(amount) ==
  /\ Len(inflow) < MaxInflows
  /\ inflow' = Append(inflow, amount)
  /\ UNCHANGED server

Deposit == \/ \E amount \in Amounts : DepositFees(amount) /\ Inflow(amount)
           \/ DeployAgent /\ Inflow(DEPLOY_COST)

TradingFee(amount) == UNCHANGED chain /\ Inflow(amount)

Admin == /\ Initialize \/ InitializeVault \/ PauseVault \/ UnpauseVault
         /\ UNCHANGED <<inflow, server>>

\* The admin publishes the root of a tree that a claim response showed.
Publish(offer) == UpdateMerkleRoot(offer.tree) /\ UNCHANGED <<inflow, server>>

\* A client signs and sends its transaction.  The proof is one of the tree it was
\* handed out with.  The first claim also pays for the claim account, so the
\* balance grows by less than the payout.
BalanceChange(offer) ==
  Payout(offer.claimer, offer.allowance)
    - (IF claimed_total[offer.claimer] = 0 THEN Rent ELSE 0)

Send(offer) ==
  /\ merkle_root = offer.tree
  /\ ClaimEarnings(offer.claimer, offer.allowance)
  /\ landed' = Append(landed, [claimer |-> offer.claimer, change |-> BalanceChange(offer)])
  /\ UNCHANGED <<inflow, monitor, scores, tree, call, offers, books>>

-----------------------------------------------------------------------------
\* The fee monitor: a check lists the signatures that have no row yet, and then
\* records them one by one; a row with the same signature is refused.  The timer
\* starts a check whether or not the last one is done.
CheckDeposits(m) ==
  /\ checking[m] = {} /\ DOMAIN inflow \ deposits # {}
  /\ checking' = [checking EXCEPT ![m] = DOMAIN inflow \ deposits]
  /\ UNCHANGED <<chain, inflow, deposits, pool, scores, tree, call, offers, landed, books>>

RecordDepositTwice(m) ==   \* Variant: the signature is not unique.
  \E i \in checking[m] :
    /\ checking' = [checking EXCEPT ![m] = @ \ {i}]
    /\ deposits' = deposits \cup {i}
    /\ pool' = pool + inflow[i]
    /\ UNCHANGED <<chain, inflow, scores, tree, call, offers, landed, books>>

RecordDeposit(m) ==
  \E i \in checking[m] :
    /\ checking' = [checking EXCEPT ![m] = @ \ {i}]
    /\ deposits' = deposits \cup {i}
    /\ pool' = IF i \in deposits THEN pool ELSE pool + inflow[i]
    /\ UNCHANGED <<chain, inflow, scores, tree, call, offers, landed, books>>

-----------------------------------------------------------------------------
\* A flush writes the rows of a batch of agents and the snapshots of their owners
\* in one transaction.  The leaderboard comes next, and only then is the tree
\* invalidated: when the leaderboard's write fails, it is not.
FlushCommit(owners, mined) ==
  /\ ~flushing /\ flushes < MaxFlushes
  /\ score' = [c \in Claimers |-> IF c \in owners THEN mined[c] ELSE score[c]]
  /\ snapshot' = [c \in Claimers |-> IF c \in owners THEN mined[c] ELSE snapshot[c]]
  /\ flushes' = flushes + 1 /\ flushing' = TRUE
  /\ UNCHANGED <<chain, inflow, monitor, tree, call, offers, landed, books>>

FlushInvalidate ==
  /\ flushing /\ flushing' = FALSE
  /\ tree' = {}
  /\ UNCHANGED <<chain, inflow, monitor, score, snapshot, flushes, call, offers, landed, books>>

FlushFails ==
  /\ flushing /\ flushing' = FALSE
  /\ UNCHANGED <<chain, inflow, monitor, score, snapshot, flushes, tree, call, offers,
                 landed, books>>

-----------------------------------------------------------------------------
\* getEarningsForUser: half of the pool, by the user's score over all snapshots.
Snapshotted    == {c \in Claimers : snapshot[c] >= 0}
totalPoolScore == SumFunctionOnSet(snapshot, Snapshotted)
Allowance(c) ==
  IF totalPoolScore = 0 THEN 0
  ELSE ((pool \div 2) * (score[c] + Outside[c])) \div totalPoolScore

Busy == {c \in Claimers : call[c].step # "quiet"}

\* POST /claim.  A claim that is too small is turned away; so is one while claims
\* are paused, which the model leaves to the request not being made.
ReadEarnings(c) ==
  /\ call[c].step = "quiet" /\ Cardinality(offers) + Cardinality(Busy) < MaxOffers
  /\ Allowance(c) - recorded[c] >= MIN_CLAIM
  /\ call' = [call EXCEPT ![c] = [Quiet EXCEPT !.step = "list", !.allowance = Allowance(c)]]
  /\ UNCHANGED <<chain, inflow, monitor, scores, tree, offers, landed, books>>

ListSnapshots(c) ==
  /\ call[c].step = "list"
  /\ call' = [call EXCEPT ![c].step = "shares", ![c].left = Snapshotted]
  /\ UNCHANGED <<chain, inflow, monitor, scores, tree, offers, landed, books>>

ReadShare(c) ==
  /\ call[c].step = "shares"
  /\ \E d \in call[c].left :
       call' = [call EXCEPT ![c].left = @ \ {d},
                            ![c].shares = @ \cup ({<<d, Allowance(d)>>} \ {<<d, 0>>})]
  /\ UNCHANGED <<chain, inflow, monitor, scores, tree, offers, landed, books>>

\* A leaf is hashed with its allowance modulo 2^64.
hashLeafWide(share) == share   \* Variant: the allowance is not cut to 64 bits.
hashLeaf(share) == <<share[1], share[2] % (U64 + 1)>>
getOrBuildMerkleTree(shares) == IF tree # {} THEN tree ELSE {hashLeaf(s) : s \in shares}

\* The transaction is built with its proof.  The request fails when the tree has no
\* leaf for the wallet, and when the allowance does not fit the instruction.

Respond(c) ==
  /\ call[c].step = "shares" /\ call[c].left = {}
  /\ LET built == getOrBuildMerkleTree(call[c].shares)
     IN  IF call[c].shares = {}
         THEN UNCHANGED <<tree, offers>>
         ELSE /\ tree' = built
              /\ offers' = IF (\A leaf \in built : leaf[1] # c) \/ call[c].allowance > U64
                           THEN offers
                           ELSE offers \cup {[claimer   |-> c,
                                              allowance |-> call[c].allowance,
                                              tree      |-> built]}
  /\ call' = [call EXCEPT ![c] = Quiet]
  /\ UNCHANGED <<chain, inflow, monitor, scores, landed, books>>

-----------------------------------------------------------------------------
\* POST /confirm.  The pre-check refuses a signature that has a row; the insert,
\* in one transaction with the new total, is refused when another request has
\* made the row since.
PreCheck(k) ==
  /\ confirming[k] = 0
  /\ \E i \in DOMAIN landed \ claims :
       /\ snapshot[landed[i].claimer] >= 0 /\ landed[i].change > 0
       /\ confirming' = [confirming EXCEPT ![k] = i]
  /\ UNCHANGED <<chain, inflow, monitor, scores, tree, call, offers, landed, claims, recorded>>

RecordClaimTwice(k) ==   \* Variant: the pre-check is all there is.
  /\ confirming[k] # 0
  /\ claims' = claims \cup {confirming[k]}
  /\ LET c == landed[confirming[k]].claimer
     IN  recorded' = [recorded EXCEPT ![c] = @ + landed[confirming[k]].change]
  /\ confirming' = [confirming EXCEPT ![k] = 0]
  /\ UNCHANGED <<chain, inflow, monitor, scores, tree, call, offers, landed>>

RecordClaim(k) ==
  /\ confirming[k] # 0
  /\ confirming' = [confirming EXCEPT ![k] = 0]
  /\ IF confirming[k] \in claims
     THEN UNCHANGED <<claims, recorded>>
     ELSE LET c == landed[confirming[k]].claimer
          IN  /\ claims' = claims \cup {confirming[k]}
              /\ recorded' = [recorded EXCEPT ![c] = @ + landed[confirming[k]].change]
  /\ UNCHANGED <<chain, inflow, monitor, scores, tree, call, offers, landed>>

\* A restart: whatever is in flight is lost, and so is the cached tree.
Restart ==
  /\ checking' = [m \in Monitors |-> {}] /\ flushing' = FALSE /\ tree' = {}
  /\ call' = [c \in Claimers |-> Quiet] /\ confirming' = [k \in Confirms |-> 0]
  /\ UNCHANGED <<chain, inflow, deposits, pool, score, snapshot, flushes, offers, landed,
                 claims, recorded>>

Next ==
  \/ Deposit \/ Admin \/ \E amount \in Amounts : TradingFee(amount)
  \/ \E offer \in offers : Publish(offer) \/ Send(offer)
  \/ \E m \in Monitors : CheckDeposits(m) \/ RecordDeposit(m)
  \/ \E owners \in SUBSET Claimers \ {{}}, mined \in [Claimers -> 0 .. MaxScore] :
        (\A c \in owners : mined[c] >= score[c]) /\ FlushCommit(owners, mined)
  \/ FlushInvalidate \/ FlushFails
  \/ \E c \in Claimers : ReadEarnings(c) \/ ListSnapshots(c) \/ ReadShare(c) \/ Respond(c)
  \/ \E k \in Confirms : PreCheck(k) \/ RecordClaim(k)
  \/ Restart

Spec == Init /\ [][Next]_vars

-----------------------------------------------------------------------------
\* The chain and the server hold values of their types: no counter of the program
\* passes u64, no row names a transaction there has not been.
TypeOK ==
  /\ ChainTypeOK
  /\ deposits \subseteq DOMAIN inflow /\ claims \subseteq DOMAIN landed
  /\ checking \in [Monitors -> SUBSET DOMAIN inflow]
  /\ confirming \in [Confirms -> {0} \cup DOMAIN landed]
  /\ score \in [Claimers -> 0 .. MaxScore] /\ snapshot \in [Claimers -> -1 .. MaxScore]
  /\ recorded \in [Claimers -> Nat] /\ pool \in Nat

\* Two checks of the monitor overlap, a restart interrupts them, and a deposit is
\* still counted once: the pool is the sum of the deposits that have a row.
PoolCountsOnce == pool = SumFunctionOnSet(inflow, deposits)

\* The server's books and the program's agree: what is recorded as claimed, what
\* landed and is not yet recorded, and the rent of the claim account make up what
\* the program paid.  So a lost confirmation leaves the record low, and no
\* repeated one brings it above the chain.
BooksAgree ==
  \A c \in Claimers :
    LET mine  == {i \in DOMAIN landed : landed[i].claimer = c}
        change == [i \in mine |-> landed[i].change]
    IN  recorded[c] + SumFunctionOnSet(change, mine \ claims)
          + (IF mine = {} THEN 0 ELSE Rent) = claimed_total[c]

\* What merkleService says of its cache, "The tree only changes when snapshot data
\* changes", and earnings.ts of the transaction, "total_allowance committed for
\* this wallet": a transaction handed out carries the allowance of its tree.
OfferIsInTree == \A offer \in offers : <<offer.claimer, offer.allowance>> \in offer.tree
=============================================================================
