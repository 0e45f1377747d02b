----------------------------- MODULE MerkleTree -----------------------------
(***************************************************************************)
(* The Merkle tree over the users' allowances: how the server builds it    *)
(* and takes proofs from it, and how the program checks them.  FeeVault    *)
(* and EarningsClaims have a set of leaves for a root and membership for   *)
(* verify_proof; here the levels are built pair by pair.                   *)
(*                                                                         *)
(* A hash is the term of what was hashed: keccak_256 is taken to have no   *)
(* collisions.  A pair is hashed in the order of its bytes, so its term    *)
(* holds the set of the two.                                               *)
(***************************************************************************)
EXTENDS Naturals, Sequences, FiniteSets

CONSTANTS
  Shares,      \* UserShares: pairs of a wallet and its cumulative allowance
  HashOrder,   \* the place of a share's leaf in the order of the leaves' bytes
  Snapshots    \* the lists of shares that trees are built of

ASSUME TreeAssumption ==
  /\ \A s \in Shares : s = <<s[1], s[2]>>
  /\ HashOrder \in [Shares -> Nat]
  /\ \A s, t \in Shares : HashOrder[s] = HashOrder[t] => s = t
  /\ \A shares \in Snapshots :
       /\ shares \subseteq Shares /\ IsFiniteSet(shares)
       /\ \A s, t \in shares : s[1] = t[1] => s = t

VARIABLES
  merkleRoot,   \* FeeVaultState.merkle_root
  rooted,       \* history: the shares of the tree that merkleRoot is of
  handed        \* the claim transaction in the hands of a client, if any

treeVars == <<merkleRoot, rooted, handed>>

LEAF_PREFIX == 0
NODE_PREFIX == 1
ZeroRoot    == <<>>

LeafOf(share)  == <<LEAF_PREFIX, share[1], share[2]>>
hashPair(a, b) == <<NODE_PREFIX, {a, b}>>

-----------------------------------------------------------------------------
\* The leaves in the order of their bytes.
Before(shares, s) == {t \in shares : HashOrder[t] < HashOrder[s]}
SortedShares(shares) ==
  [n \in 1 .. Cardinality(shares) |->
     CHOOSE s \in shares : Cardinality(Before(shares, s)) = n - 1]
SortedLeaves(shares) ==
  [n \in 1 .. Cardinality(shares) |-> LeafOf(SortedShares(shares)[n])]

\* The level above: the last node of an odd level is its own partner.
Partner(level, n) == IF 2 * n <= Len(level) THEN level[2 * n] ELSE level[2 * n - 1]
NextLevelCarries(level) ==   \* Variant: the last node of an odd level is carried up.
  [n \in 1 .. (Len(level) + 1) \div 2 |->
     IF 2 * n <= Len(level) THEN hashPair(level[2 * n - 1], level[2 * n])
     ELSE level[2 * n - 1]]
NextLevel(level) ==
  [n \in 1 .. (Len(level) + 1) \div 2 |-> hashPair(level[2 * n - 1], Partner(level, n))]

\* The levels from the leaves up, and the number of the first one with a single node.
Levels(leaves) ==
  LET levels[n \in 0 .. Len(leaves)] ==
        IF n = 0 THEN leaves ELSE NextLevel(levels[n - 1])
  IN  levels
Height(leaves) ==
  CHOOSE h \in 0 .. Len(leaves) :
    /\ Len(Levels(leaves)[h]) <= 1
    /\ \A n \in 0 .. h - 1 : Len(Levels(leaves)[n]) > 1
RootOf(leaves) == Levels(leaves)[Height(leaves)][1]

\* The way from a leaf to the root, counted from 0 in each level, and what each node
\* on it is hashed with.
IndexAt(leafIndex, height) ==
  LET index[n \in 0 .. height] == IF n = 0 THEN leafIndex ELSE index[n - 1] \div 2
  IN  index
Sibling(level, index) ==
  LET sibling == IF index % 2 = 0 THEN index + 1 ELSE index - 1
  IN  IF sibling < Len(level) THEN level[sibling + 1] ELSE level[index + 1]
ProofFromLevels(leafIndex, leaves) ==
  LET height == Height(leaves)
      levels == Levels(leaves)
      index  == IndexAt(leafIndex, height)
  IN  [n \in 1 .. height |-> Sibling(levels[n - 1], index[n - 1])]

\* generateMerkleTree: the root, and of each wallet its proof.
generateMerkleTree(shares) ==
  IF shares = {} THEN [root |-> ZeroRoot, proofs |-> <<>>]
  ELSE LET leaves == SortedLeaves(shares)
           IndexOf(w) == Cardinality(Before(shares, CHOOSE s \in shares : s[1] = w))
       IN  [root   |-> RootOf(leaves),
            proofs |-> [w \in {s[1] : s \in shares} |-> ProofFromLevels(IndexOf(w), leaves)]]

\* Each snapshot's tree, built once.
Trees == [shares \in Snapshots |-> generateMerkleTree(shares)]

\* verify_proof, and what claim_earnings requires of the proof it is given.
Computed(proof, leaf) ==
  LET hash[n \in 0 .. Len(proof)] ==
        IF n = 0 THEN leaf ELSE hashPair(hash[n - 1], proof[n])
  IN  hash
verify_proof(proof, root, leaf) == Computed(proof, leaf)[Len(proof)] = root
ProofAccepted(tx) == merkleRoot # ZeroRoot /\ verify_proof(tx.proof, merkleRoot, LeafOf(tx.share))

-----------------------------------------------------------------------------
TreeInit == merkleRoot = ZeroRoot /\ rooted = {} /\ handed = {}

\* POST /claim: the allowance is read now, the proof is from the cached tree, which may
\* be of other shares.
HandOut(shares, share) ==
  LET built == Trees[shares]
  IN  /\ handed = {} /\ share[1] \in DOMAIN built.proofs
      /\ handed' = {[share |-> share, proof |-> built.proofs[share[1]],
                     root |-> built.root, shares |-> shares]}
      /\ UNCHANGED <<merkleRoot, rooted>>

\* update_merkle_root with the root that a claim response showed.
PublishRoot ==
  \E tx \in handed :
    /\ merkleRoot' = tx.root /\ rooted' = tx.shares
    /\ UNCHANGED handed

\* The transaction lands, or its blockhash expires.
TxGone == handed # {} /\ handed' = {} /\ UNCHANGED <<merkleRoot, rooted>>

TreeNext ==
  \/ \E shares \in Snapshots : \E share \in Shares : HandOut(shares, share)
  \/ PublishRoot \/ TxGone

TreeSpec == TreeInit /\ [][TreeNext]_treeVars

-----------------------------------------------------------------------------
IsList(list) == Len(list) \in Nat /\ list = [n \in 1 .. Len(list) |-> list[n]]
TreeTypeOK ==
  /\ rooted \in Snapshots \cup {{}}
  /\ \A tx \in handed : tx.share \in Shares /\ tx.shares \in Snapshots /\ IsList(tx.proof)

\* What FeeVault's membership in the published tree stands for: the program accepts no
\* proof, of the present tree or of another, for a share that is not in the published
\* tree, and it accepts the proof that was made of that tree for each of its shares.
ProofsVerify ==
  \A tx \in handed :
    /\ ProofAccepted(tx) => tx.share \in rooted
    /\ tx.shares = rooted /\ tx.share \in rooted => ProofAccepted(tx)
=============================================================================
