--------------------------- MODULE EarningsProofs ---------------------------
(***************************************************************************)
(* Proofs about the server's half of a payout, for any users, amounts,     *)
(* monitors and confirmations: the counters keep their types, a deposit is *)
(* counted once, the server's books agree with the program's, and what the *)
(* server does to the chain is what the program of FeeVault allows.        *)
(*                                                                         *)
(* The first part is about sums over finite sets, which the library folds  *)
(* by a recursive function: that the fold's function exists, and what one  *)
(* element contributes, follow from a least counterexample in the order of *)
(* strict subsets.                                                         *)
(***************************************************************************)
EXTENDS EarningsClaims, VaultProofs, FiniteSetTheorems, WellFoundedInduction

\* One element of a nonempty set, the one a fold takes first.
First(s) == CHOOSE x \in s : TRUE

\* g computes the sum of f over the subsets of S.
Sums(g, f, S) ==
  g = [s \in SUBSET S |-> IF s = {} THEN 0 ELSE f[First(s)] + g[s \ {First(s)}]]

LEMMA SumIsChosen ==
  ASSUME NEW f, NEW S
  PROVE  SumFunctionOnSet(f, S) = (CHOOSE g : Sums(g, f, S))[S]
  BY DEF SumFunctionOnSet, FoldFunctionOnSet, MapThenFoldSet, Sums, First

LEMMA FirstIsIn == ASSUME NEW s, s # {} PROVE First(s) \in s
  BY DEF First

LEMMA MinimalSubset ==
  ASSUME NEW S, IsFiniteSet(S), NEW T \in SUBSET SUBSET S, T # {}
  PROVE  \E s \in T : \A t \in SUBSET s : t # s => t \notin T
<1>1. \A s \in SUBSET S : s \in FiniteSubsetsOf(S)
  BY FS_Subset DEF FiniteSubsetsOf
<1>2. IsWellFoundedOn(StrictSubsetOrdering(S), FiniteSubsetsOf(S))
  BY FS_StrictSubsetOrderingWellFounded
<1>3. PICK s \in T : \A t \in T : <<t, s>> \notin StrictSubsetOrdering(S)
  BY <1>1, <1>2, WFMin
<1>4. ASSUME NEW t \in SUBSET s, t # s PROVE t \notin T
  <2>1. <<t, s>> \in StrictSubsetOrdering(S)
    BY <1>4 DEF StrictSubsetOrdering
  <2> QED BY <1>3, <2>1
<1>5. WITNESS s \in T
<1> QED BY <1>4

\* g agrees with the equation on the subsets of S of at most n elements.
SumsUpTo(g, f, S, n) ==
  \A s \in SUBSET S : Cardinality(s) <= n =>
    g[s] = IF s = {} THEN 0 ELSE f[First(s)] + g[s \ {First(s)}]

LEMMA SumExists ==
  ASSUME NEW f, NEW S, IsFiniteSet(S)
  PROVE  \E g : Sums(g, f, S)
<1> DEFINE Good(c) == \E g : SumsUpTo(g, f, S, Cardinality(c))
           Bad == {c \in SUBSET S : ~Good(c)}
<1>c. \A c \in SUBSET S : IsFiniteSet(c) /\ Cardinality(c) \in Nat
                           /\ Cardinality(c) <= Cardinality(S)
  BY FS_Subset, FS_CardinalityType
<1>e. \A c \in SUBSET S : Cardinality(c) = 0 <=> c = {}
  BY <1>c, FS_EmptySet
<1>r. \A c \in SUBSET S : \A x \in c : Cardinality(c \ {x}) = Cardinality(c) - 1
  BY <1>c, FS_RemoveElement
<1>1. Bad = {}
  <2> SUFFICES ASSUME Bad # {} PROVE FALSE
    OBVIOUS
  <2>1. PICK c \in Bad : \A t \in SUBSET c : t # c => t \notin Bad
    <3>1. Bad \in SUBSET SUBSET S /\ Bad # {}
      OBVIOUS
    <3> HIDE DEF Bad
    <3> QED BY <3>1, MinimalSubset
  <2>2. c \in SUBSET S /\ ~Good(c)
    OBVIOUS
  <2>3. CASE c = {}
    <3> DEFINE g == [s \in SUBSET S |-> 0]
    <3>1. SumsUpTo(g, f, S, Cardinality(c))
      <4> SUFFICES ASSUME NEW s \in SUBSET S, Cardinality(s) <= Cardinality(c)
                   PROVE  g[s] = IF s = {} THEN 0 ELSE f[First(s)] + g[s \ {First(s)}]
        BY DEF SumsUpTo
      <4>1. s = {}
        BY <1>c, <1>e, <2>2, <2>3
      <4> QED BY <4>1
    <3> HIDE DEF g
    <3> QED BY <2>2, <3>1
  <2>4. CASE c # {}
    <3> DEFINE d == c \ {First(c)}  n == Cardinality(c)
    <3>1. First(c) \in c /\ d \in SUBSET c /\ d # c
      BY <2>4, FirstIsIn
    <3>2. d \in SUBSET S /\ Good(d) /\ Cardinality(d) = n - 1 /\ n \in Nat
      BY <1>c, <1>r, <2>1, <2>2, <3>1
    <3> HIDE DEF d, n
    <3>3. PICK h : SumsUpTo(h, f, S, n - 1)
      BY <3>2
    <3> DEFINE g == [s \in SUBSET S |-> IF Cardinality(s) <= n - 1 THEN h[s]
                                        ELSE f[First(s)] + h[s \ {First(s)}]]
    <3>4. SumsUpTo(g, f, S, n)
      <4> SUFFICES ASSUME NEW s \in SUBSET S, Cardinality(s) <= n
                   PROVE  g[s] = IF s = {} THEN 0 ELSE f[First(s)] + g[s \ {First(s)}]
        BY DEF SumsUpTo
      <4>1. ASSUME s # {} PROVE s \ {First(s)} \in SUBSET S
                               /\ Cardinality(s \ {First(s)}) = Cardinality(s) - 1
        BY <1>r, <4>1, FirstIsIn
      <4>2. ASSUME s # {} PROVE g[s \ {First(s)}] = h[s \ {First(s)}]
        BY <1>c, <3>2, <4>1, <4>2
      <4>3. CASE Cardinality(s) <= n - 1
        <5>1. h[s] = IF s = {} THEN 0 ELSE f[First(s)] + h[s \ {First(s)}]
          BY <3>3, <4>3 DEF SumsUpTo
        <5>2. g[s] = h[s]
          BY <4>3
        <5> HIDE DEF g
        <5> QED BY <4>2, <5>1, <5>2
      <4>4. CASE ~(Cardinality(s) <= n - 1)
        <5>1. s # {}
          BY <1>c, <1>e, <2>4, <3>2, <4>4, <2>2 DEF n
        <5>2. g[s] = f[First(s)] + h[s \ {First(s)}]
          BY <4>4
        <5> HIDE DEF g
        <5> QED BY <4>2, <5>1, <5>2
      <4> QED BY <4>3, <4>4
    <3> HIDE DEF g
    <3> QED BY <2>2, <3>4 DEF n
  <2> QED BY <2>3, <2>4
<1>2. PICK h : SumsUpTo(h, f, S, Cardinality(S))
  BY <1>1
<1> DEFINE g == [s \in SUBSET S |-> h[s]]
<1>3. ASSUME NEW s \in SUBSET S
      PROVE  g[s] = IF s = {} THEN 0 ELSE f[First(s)] + g[s \ {First(s)}]
  <2>1. h[s] = IF s = {} THEN 0 ELSE f[First(s)] + h[s \ {First(s)}]
    BY <1>c, <1>2 DEF SumsUpTo
  <2>2. s \ {First(s)} \in SUBSET S
    OBVIOUS
  <2> QED BY <2>1, <2>2
<1>4. g = [s \in SUBSET S |-> g[s]]
  OBVIOUS
<1> HIDE DEF g
<1>5. Sums(g, f, S)
  BY <1>3, <1>4 DEF Sums
<1> QED BY <1>5

\* The solution, and its equation.
SumOver(f, S) == CHOOSE g : Sums(g, f, S)

LEMMA SumSolves ==
  ASSUME NEW f, NEW S, IsFiniteSet(S), NEW s \in SUBSET S
  PROVE  SumOver(f, S)[s] = IF s = {} THEN 0
                            ELSE f[First(s)] + SumOver(f, S)[s \ {First(s)}]
<1>1. Sums(SumOver(f, S), f, S)
  BY SumExists DEF SumOver
<1> QED BY <1>1 DEF Sums

\* Functions that agree on a set have one sum over it, whichever sets they are summed in.
LEMMA SumsAgree ==
  ASSUME NEW f, NEW h, NEW S, NEW T, IsFiniteSet(S), IsFiniteSet(T),
         NEW s \in (SUBSET S) \cap (SUBSET T), \A x \in s : f[x] = h[x]
  PROVE  SumOver(f, S)[s] = SumOver(h, T)[s]
<1> DEFINE Bad == {c \in SUBSET s : SumOver(f, S)[c] # SumOver(h, T)[c]}
<1> SUFFICES ASSUME Bad # {} PROVE FALSE
  OBVIOUS
<1>1. IsFiniteSet(s) /\ Bad \in SUBSET SUBSET s /\ Bad # {}
  BY FS_Subset
<1> HIDE DEF Bad
<1>2. PICK c \in Bad : \A t \in SUBSET c : t # c => t \notin Bad
  BY <1>1, MinimalSubset
<1>3. c \in SUBSET s /\ SumOver(f, S)[c] # SumOver(h, T)[c]
  BY DEF Bad
<1>4. /\ SumOver(f, S)[c] = IF c = {} THEN 0 ELSE f[First(c)] + SumOver(f, S)[c \ {First(c)}]
      /\ SumOver(h, T)[c] = IF c = {} THEN 0 ELSE h[First(c)] + SumOver(h, T)[c \ {First(c)}]
  <2>1. c \in SUBSET S /\ c \in SUBSET T
    BY <1>3
  <2>2. SumOver(f, S)[c] = IF c = {} THEN 0 ELSE f[First(c)] + SumOver(f, S)[c \ {First(c)}]
    BY <2>1, SumSolves
  <2>3. SumOver(h, T)[c] = IF c = {} THEN 0 ELSE h[First(c)] + SumOver(h, T)[c \ {First(c)}]
    BY <2>1, SumSolves
  <2> QED BY <2>2, <2>3
<1>5. c # {}
  BY <1>3, <1>4
<1>6. First(c) \in c
  BY <1>5, FirstIsIn
<1>7. c \ {First(c)} \in SUBSET c /\ c \ {First(c)} # c
  BY <1>6
<1>8. SumOver(f, S)[c \ {First(c)}] = SumOver(h, T)[c \ {First(c)}]
  BY <1>2, <1>3, <1>7 DEF Bad
<1>9. f[First(c)] = h[First(c)]
  BY <1>3, <1>6
<1> QED BY <1>3, <1>4, <1>5, <1>8, <1>9

LEMMA SumEmpty == ASSUME NEW f PROVE SumFunctionOnSet(f, {}) = 0
<1>1. IsFiniteSet({}) /\ {} \in SUBSET {}
  BY FS_EmptySet
<1>2. SumOver(f, {})[{}] = 0
  BY <1>1, SumSolves
<1> QED BY <1>2, SumIsChosen DEF SumOver

LEMMA SumSame ==
  ASSUME NEW f, NEW h, NEW S, IsFiniteSet(S), \A x \in S : f[x] = h[x]
  PROVE  SumFunctionOnSet(f, S) = SumFunctionOnSet(h, S)
<1>1. S \in (SUBSET S) \cap (SUBSET S)
  OBVIOUS
<1>2. SumOver(f, S)[S] = SumOver(h, S)[S]
  BY <1>1, SumsAgree
<1> QED BY <1>2, SumIsChosen DEF SumOver

\* The equation, with the element a fold takes first.
LEMMA SumFirst ==
  ASSUME NEW f, NEW S, IsFiniteSet(S), S # {}
  PROVE  SumFunctionOnSet(f, S) = f[First(S)] + SumFunctionOnSet(f, S \ {First(S)})
<1> DEFINE T == S \ {First(S)}
<1>1. IsFiniteSet(T) /\ T \in (SUBSET S) \cap (SUBSET T) /\ S \in SUBSET S
  BY FS_Subset
<1>2. SumOver(f, S)[S] = f[First(S)] + SumOver(f, S)[T]
  BY <1>1, SumSolves
<1>3. SumOver(f, S)[T] = SumOver(f, T)[T]
  <2> HIDE DEF T
  <2> QED BY <1>1, SumsAgree
<1>4. SumFunctionOnSet(f, S) = SumOver(f, S)[S] /\ SumFunctionOnSet(f, T) = SumOver(f, T)[T]
  BY SumIsChosen DEF SumOver
<1> QED BY <1>2, <1>3, <1>4

LEMMA SumInt ==
  ASSUME NEW f, NEW S, IsFiniteSet(S), \A x \in S : f[x] \in Nat
  PROVE  SumFunctionOnSet(f, S) \in Nat
<1> DEFINE Bad == {c \in SUBSET S : SumFunctionOnSet(f, c) \notin Nat}
<1> SUFFICES ASSUME Bad # {} PROVE FALSE
  OBVIOUS
<1>0. Bad \in SUBSET SUBSET S /\ Bad # {}
  OBVIOUS
<1> HIDE DEF Bad
<1>1. PICK c \in Bad : \A t \in SUBSET c : t # c => t \notin Bad
  BY <1>0, MinimalSubset
<1>2. c \in SUBSET S /\ SumFunctionOnSet(f, c) \notin Nat
  BY DEF Bad
<1>3. c # {}
  BY <1>2, SumEmpty
<1>4. First(c) \in c /\ IsFiniteSet(c)
  BY <1>2, <1>3, FirstIsIn, FS_Subset
<1>5. SumFunctionOnSet(f, c) = f[First(c)] + SumFunctionOnSet(f, c \ {First(c)})
  BY <1>3, <1>4, SumFirst
<1>6. SumFunctionOnSet(f, c \ {First(c)}) \in Nat
  BY <1>1, <1>2, <1>4 DEF Bad
<1> QED BY <1>2, <1>4, <1>5, <1>6

\* Any element may be taken first.
LEMMA SumTake ==
  ASSUME NEW f, NEW S, IsFiniteSet(S), \A x \in S : f[x] \in Nat, NEW y \in S
  PROVE  SumFunctionOnSet(f, S) = f[y] + SumFunctionOnSet(f, S \ {y})
<1> DEFINE Bad == {c \in SUBSET S : \E z \in c :
                     SumFunctionOnSet(f, c) # f[z] + SumFunctionOnSet(f, c \ {z})}
<1> SUFFICES ASSUME Bad # {} PROVE FALSE
  OBVIOUS
<1>0. Bad \in SUBSET SUBSET S /\ Bad # {}
  OBVIOUS
<1> HIDE DEF Bad
<1>1. PICK c \in Bad : \A t \in SUBSET c : t # c => t \notin Bad
  BY <1>0, MinimalSubset
<1>2. PICK z \in c : SumFunctionOnSet(f, c) # f[z] + SumFunctionOnSet(f, c \ {z})
  BY DEF Bad
<1>3. c \in SUBSET S
  BY DEF Bad
<1> DEFINE x == First(c)
<1>4. x \in c /\ IsFiniteSet(c)
  BY <1>3, FirstIsIn, FS_Subset
<1>5. SumFunctionOnSet(f, c) = f[x] + SumFunctionOnSet(f, c \ {x})
  BY <1>4, SumFirst
<1> HIDE DEF x
<1>6. x # z
  BY <1>2, <1>5
<1>7. /\ c \ {x} \in SUBSET c /\ c \ {x} # c /\ z \in c \ {x}
      /\ c \ {z} \in SUBSET c /\ c \ {z} # c /\ x \in c \ {z}
      /\ (c \ {x}) \ {z} = (c \ {z}) \ {x}
  BY <1>4, <1>6
<1>8. SumFunctionOnSet(f, c \ {x}) = f[z] + SumFunctionOnSet(f, (c \ {x}) \ {z})
  BY <1>1, <1>3, <1>7 DEF Bad
<1>9. SumFunctionOnSet(f, c \ {z}) = f[x] + SumFunctionOnSet(f, (c \ {z}) \ {x})
  BY <1>1, <1>3, <1>7 DEF Bad
<1>10. SumFunctionOnSet(f, (c \ {x}) \ {z}) \in Nat /\ f[x] \in Nat /\ f[z] \in Nat
  <2>1. IsFiniteSet((c \ {x}) \ {z}) /\ \A w \in (c \ {x}) \ {z} : f[w] \in Nat
    BY <1>3, <1>4, FS_Subset
  <2> QED BY <1>3, <1>4, <2>1, SumInt
<1>11. SumFunctionOnSet(f, c) = f[x] + (f[z] + SumFunctionOnSet(f, (c \ {x}) \ {z}))
  BY <1>5, <1>8
<1>12. f[z] + SumFunctionOnSet(f, c \ {z})
         = f[z] + (f[x] + SumFunctionOnSet(f, (c \ {x}) \ {z}))
  BY <1>7, <1>9
<1> DEFINE rest == SumFunctionOnSet(f, (c \ {x}) \ {z})
<1>13. rest \in Nat
  BY <1>10
<1> HIDE DEF rest
<1>14. f[x] + (f[z] + rest) = f[z] + (f[x] + rest)
  BY <1>10, <1>13
<1> QED BY <1>2, <1>11, <1>12, <1>14 DEF rest

LEMMA SumAdd ==
  ASSUME NEW f, NEW S, IsFiniteSet(S), NEW y, y \notin S, \A x \in S \cup {y} : f[x] \in Nat
  PROVE  SumFunctionOnSet(f, S \cup {y}) = f[y] + SumFunctionOnSet(f, S)
<1>1. IsFiniteSet(S \cup {y}) /\ y \in S \cup {y} /\ (S \cup {y}) \ {y} = S
  BY FS_AddElement
<1> QED BY <1>1, SumTake

-----------------------------------------------------------------------------
\* The types of what the server keeps beside the counters of TypeOK.
Request == [step : {"quiet", "list", "shares"}, allowance : Nat,
            left : SUBSET Claimers, shares : SUBSET (Claimers \X Nat)]
Offer   == [claimer : Claimers, allowance : Lamports, tree : SUBSET Leaves]
Landed  == [claimer : Claimers, change : Nat]

RecordTypes ==
  /\ inflow \in Seq(Nat)
  /\ tree \subseteq Leaves /\ offers \subseteq Offer
  /\ call \in [Claimers -> Request]
  /\ landed \in Seq(Landed)

\* The inductive invariant of the types.
EarningTypes == VaultInv /\ TypeOK /\ RecordTypes

LEMMA EarningTypesStart == ASSUME Init PROVE EarningTypes
<1> USE VaultAssumption, ServerAssumption
<1>1. VaultInv
  BY VaultStart DEF Init
<1>2. inflow = <<>> /\ landed = <<>> /\ DOMAIN inflow = {} /\ DOMAIN landed = {}
  BY DEF Init
<1>3. TypeOK
  BY <1>1, <1>2 DEF Init, TypeOK, VaultInv
<1>4. Quiet \in Request
  BY DEF Quiet, Request
<1>5. RecordTypes
  BY <1>2, <1>4 DEF Init, RecordTypes
<1> QED BY <1>1, <1>3, <1>5 DEF EarningTypes

\* A user's share of the pool is a number.
LEMMA AllowanceType == ASSUME TypeOK, NEW c \in Claimers PROVE Allowance(c) \in Nat
<1>1. IsFiniteSet(Snapshotted) /\ \A d \in Snapshotted : snapshot[d] \in Nat
  <2>1. Snapshotted \subseteq Claimers
    BY DEF Snapshotted
  <2>2. \A d \in Snapshotted : snapshot[d] \in Nat
    BY ServerAssumption DEF Snapshotted, TypeOK
  <2> QED BY <2>1, <2>2, ServerAssumption, FS_Subset
<1>2. totalPoolScore \in Nat
  BY <1>1, SumInt DEF totalPoolScore
<1>3. score[c] + Outside[c] \in Nat /\ pool \div 2 \in Nat
  BY ServerAssumption DEF TypeOK
<1>4. \A x, y \in Nat : x * y \in Nat
  OBVIOUS
<1>5. (pool \div 2) * (score[c] + Outside[c]) \in Nat
  BY <1>3, <1>4
<1>6. \A x \in Nat, y \in Nat \ {0} : x \div y \in Nat
  OBVIOUS
<1> QED BY <1>2, <1>5, <1>6 DEF Allowance

\* Every step of the server is one of the program, or leaves the chain alone.
LEMMA ServerOnChain == ASSUME EarningTypes, [Next]_vars PROVE [ChainNext]_chain
<1>1. CASE UNCHANGED vars
  BY <1>1 DEF vars
<1>2. CASE Deposit
  BY <1>2 DEF Deposit, ChainNext
<1>3. CASE Admin
  BY <1>3 DEF Admin, ChainNext
<1>4. ASSUME NEW amount \in Amounts, TradingFee(amount) PROVE UNCHANGED chain
  BY <1>4 DEF TradingFee
<1>5. ASSUME NEW offer \in offers, Publish(offer) PROVE ChainNext
  <2>1. offer.tree \in SUBSET Leaves
    BY DEF EarningTypes, RecordTypes, Offer
  <2> QED BY <1>5, <2>1 DEF Publish, ChainNext
<1>6. ASSUME NEW offer \in offers, Send(offer) PROVE ChainNext
  <2> DEFINE leaf == <<offer.claimer, offer.allowance>>
  <2>1. leaf \in merkle_root /\ ClaimEarnings(leaf[1], leaf[2])
    BY <1>6 DEF Send, ClaimEarnings, Claimable
  <2> QED BY <2>1 DEF ChainNext
<1>7. ASSUME NEW m \in Monitors, CheckDeposits(m) \/ RecordDeposit(m) PROVE UNCHANGED chain
  BY <1>7 DEF CheckDeposits, RecordDeposit
<1>8. ASSUME NEW owners, NEW mined, FlushCommit(owners, mined) PROVE UNCHANGED chain
  BY <1>8 DEF FlushCommit
<1>9. CASE FlushInvalidate \/ FlushFails
  BY <1>9 DEF FlushInvalidate, FlushFails
<1>10. ASSUME NEW c \in Claimers, ReadEarnings(c) \/ ListSnapshots(c) \/ ReadShare(c) \/ Respond(c)
       PROVE  UNCHANGED chain
  BY <1>10 DEF ReadEarnings, ListSnapshots, ReadShare, Respond
<1>11. ASSUME NEW k \in Confirms, PreCheck(k) \/ RecordClaim(k) PROVE UNCHANGED chain
  BY <1>11 DEF PreCheck, RecordClaim
<1>12. CASE Restart
  BY <1>12 DEF Restart
<1> QED BY <1>1, <1>2, <1>3, <1>4, <1>5, <1>6, <1>7, <1>8, <1>9, <1>10, <1>11, <1>12 DEF Next

\* What an appended sequence looks like.
LEMMA Appended ==
  ASSUME NEW S, NEW s \in Seq(S), NEW e \in S
  PROVE  /\ Append(s, e) \in Seq(S) /\ Len(s) \in Nat
         /\ DOMAIN s = 1 .. Len(s) /\ DOMAIN Append(s, e) = 1 .. Len(s) + 1
         /\ \A i \in DOMAIN s : Append(s, e)[i] = s[i]
         /\ Append(s, e)[Len(s) + 1] = e
OBVIOUS

\* The change of balance a claim that lands brings is positive.
LEMMA ChangeType ==
  ASSUME EarningTypes, NEW offer \in offers, Send(offer)
  PROVE  /\ offer.claimer \in Claimers /\ offer.allowance \in Nat
         /\ claimed_total[offer.claimer] \in Nat
         /\ offer.allowance > claimed_total[offer.claimer]
         /\ BalanceChange(offer) \in Nat /\ BalanceChange(offer) > 0
         /\ BalanceChange(offer) = offer.allowance - claimed_total[offer.claimer]
              - (IF claimed_total[offer.claimer] = 0 THEN Rent ELSE 0)
         /\ claimed_total' = [claimed_total EXCEPT ![offer.claimer] = offer.allowance]
<1>1. Lamports \subseteq Nat
  BY DEF Lamports
<1>2. /\ offer.claimer \in Claimers /\ offer.allowance \in Nat
      /\ claimed_total[offer.claimer] \in Nat
  BY <1>1 DEF EarningTypes, RecordTypes, Offer, VaultInv, ChainTypeOK
<1>3. /\ Payout(offer.claimer, offer.allowance) >= MIN_CLAIM
      /\ offer.allowance > claimed_total[offer.claimer]
      /\ claimed_total' = [claimed_total EXCEPT ![offer.claimer] = offer.allowance]
  BY DEF Send, ClaimEarnings, Claimable
<1>4. Rent \in Nat /\ Rent < MIN_CLAIM /\ MIN_CLAIM \in Nat
  BY ServerAssumption, VaultAssumption
<1> QED BY <1>2, <1>3, <1>4 DEF BalanceChange, Payout

\* Every step keeps the types.
LEMMA EarningTypesStep == ASSUME EarningTypes, [Next]_vars PROVE EarningTypes'
<1> USE VaultAssumption, ServerAssumption
<1>0. VaultInv' /\ ChainTypeOK'
  BY ServerOnChain, VaultStep DEF EarningTypes, VaultInv
<1>1. SUFFICES TypeOK' /\ RecordTypes'
  BY <1>0 DEF EarningTypes
<1>2. ASSUME NEW amount \in Nat, Inflow(amount) PROVE TypeOK' /\ RecordTypes'
  <2>1. inflow' = Append(inflow, amount) /\ UNCHANGED server
    BY <1>2 DEF Inflow
  <2>2. inflow' \in Seq(Nat) /\ DOMAIN inflow \subseteq DOMAIN inflow'
    BY <2>1, Appended DEF EarningTypes, RecordTypes
  <2>3. TypeOK'
    BY <1>0, <2>1, <2>2 DEF EarningTypes, TypeOK, server, monitor, scores, books
  <2>4. RecordTypes'
    BY <2>1, <2>2 DEF EarningTypes, RecordTypes, server, monitor, scores, books
  <2> QED BY <2>3, <2>4
<1>3. CASE UNCHANGED <<inflow, server>>
  BY <1>0, <1>3 DEF EarningTypes, TypeOK, RecordTypes, server, monitor, scores, books
<1>4. ASSUME NEW offer \in offers, Send(offer) PROVE TypeOK' /\ RecordTypes'
  <2> DEFINE e == [claimer |-> offer.claimer, change |-> BalanceChange(offer)]
  <2>1. e \in Landed
    BY <1>4, ChangeType DEF Landed
  <2>2. landed' = Append(landed, e) /\ UNCHANGED <<inflow, monitor, scores, tree, call, offers, books>>
    BY <1>4 DEF Send
  <2> HIDE DEF e
  <2>3. landed' \in Seq(Landed) /\ DOMAIN landed \subseteq DOMAIN landed'
    BY <2>1, <2>2, Appended DEF EarningTypes, RecordTypes
  <2>4. TypeOK'
    BY <1>0, <2>2, <2>3 DEF EarningTypes, TypeOK, monitor, scores, books
  <2>5. RecordTypes'
    BY <2>2, <2>3 DEF EarningTypes, RecordTypes, monitor, scores, books
  <2> QED BY <2>4, <2>5
<1>5. ASSUME NEW m \in Monitors, CheckDeposits(m) PROVE TypeOK' /\ RecordTypes'
  BY <1>0, <1>5 DEF CheckDeposits, EarningTypes, TypeOK, RecordTypes, scores, books
<1>6. ASSUME NEW m \in Monitors, RecordDeposit(m) PROVE TypeOK' /\ RecordTypes'
  <2>1. PICK i \in checking[m] :
          /\ checking' = [checking EXCEPT ![m] = @ \ {i}]
          /\ deposits' = deposits \cup {i}
          /\ pool' = IF i \in deposits THEN pool ELSE pool + inflow[i]
          /\ UNCHANGED <<chain, inflow, scores, tree, call, offers, landed, books>>
    BY <1>6 DEF RecordDeposit
  <2>2. i \in DOMAIN inflow /\ inflow[i] \in Nat
    BY DEF EarningTypes, TypeOK, RecordTypes
  <2>3. pool' \in Nat
    BY <2>1, <2>2 DEF EarningTypes, TypeOK
  <2>4. TypeOK'
    BY <1>0, <2>1, <2>2, <2>3 DEF EarningTypes, TypeOK, scores, books
  <2>5. RecordTypes'
    BY <2>1 DEF EarningTypes, RecordTypes, scores, books
  <2> QED BY <2>4, <2>5
<1>7. ASSUME NEW owners \in SUBSET Claimers, NEW mined \in [Claimers -> 0 .. MaxScore],
             FlushCommit(owners, mined)
      PROVE  TypeOK' /\ RecordTypes'
  BY <1>0, <1>7 DEF FlushCommit, EarningTypes, TypeOK, RecordTypes, monitor, books
<1>8. CASE FlushInvalidate \/ FlushFails
  BY <1>0, <1>8 DEF FlushInvalidate, FlushFails, EarningTypes, TypeOK, RecordTypes, monitor, books
<1>9. ASSUME NEW c \in Claimers, ReadEarnings(c) PROVE TypeOK' /\ RecordTypes'
  <2>1. Allowance(c) \in Nat
    BY AllowanceType DEF EarningTypes
  <2>2. /\ call' = [call EXCEPT ![c] = [Quiet EXCEPT !.step = "list", !.allowance = Allowance(c)]]
        /\ UNCHANGED <<inflow, monitor, scores, tree, offers, landed, books>>
    BY <1>9 DEF ReadEarnings
  <2>3. [Quiet EXCEPT !.step = "list", !.allowance = Allowance(c)] \in Request
    BY <2>1 DEF Quiet, Request
  <2>4. TypeOK'
    BY <1>0, <2>2 DEF EarningTypes, TypeOK, monitor, scores, books
  <2>5. RecordTypes'
    BY <2>2, <2>3 DEF EarningTypes, RecordTypes, monitor, scores, books
  <2> QED BY <2>4, <2>5
<1>10. ASSUME NEW c \in Claimers, ListSnapshots(c) PROVE TypeOK' /\ RecordTypes'
  <2>1. /\ call' = [call EXCEPT ![c].step = "shares", ![c].left = Snapshotted]
        /\ UNCHANGED <<inflow, monitor, scores, tree, offers, landed, books>>
    BY <1>10 DEF ListSnapshots
  <2>2. call' \in [Claimers -> Request]
    <3>1. call \in [Claimers -> Request] /\ Snapshotted \in SUBSET Claimers
      BY DEF EarningTypes, RecordTypes, Snapshotted
    <3> DEFINE r == [call[c] EXCEPT !.step = "shares", !.left = Snapshotted]
    <3>2. r \in Request
      <4>1. call[c] \in Request
        BY <3>1
      <4> HIDE DEF Snapshotted
      <4> QED BY <3>1, <4>1 DEF Request
    <3>3. call' = [call EXCEPT ![c] = r]
      BY <2>1, <3>1
    <3> HIDE DEF r
    <3> QED BY <3>1, <3>2, <3>3
  <2>3. TypeOK'
    BY <1>0, <2>1 DEF EarningTypes, TypeOK, monitor, scores, books
  <2>4. RecordTypes'
    BY <2>1, <2>2 DEF EarningTypes, RecordTypes, monitor, scores, books
  <2> QED BY <2>3, <2>4
<1>11. ASSUME NEW c \in Claimers, ReadShare(c) PROVE TypeOK' /\ RecordTypes'
  <2>1. call \in [Claimers -> Request]
    BY DEF EarningTypes, RecordTypes
  <2>2. PICK d \in call[c].left :
          call' = [call EXCEPT ![c].left = @ \ {d},
                               ![c].shares = @ \cup ({<<d, Allowance(d)>>} \ {<<d, 0>>})]
    BY <1>11 DEF ReadShare
  <2>3. UNCHANGED <<inflow, monitor, scores, tree, offers, landed, books>>
    BY <1>11 DEF ReadShare
  <2>4. d \in Claimers /\ Allowance(d) \in Nat
    BY <2>1, AllowanceType DEF EarningTypes, Request
  <2>5. {<<d, Allowance(d)>>} \ {<<d, 0>>} \in SUBSET (Claimers \X Nat)
    BY <2>4
  <2>6. call' \in [Claimers -> Request]
    <3> DEFINE share == {<<d, Allowance(d)>>} \ {<<d, 0>>}
    <3> HIDE DEF share
    <3>1. share \in SUBSET (Claimers \X Nat)
      BY <2>5 DEF share
    <3>2. call' = [call EXCEPT ![c].left = @ \ {d}, ![c].shares = @ \cup share]
      BY <2>2 DEF share
    <3> DEFINE r == [call[c] EXCEPT !.left = @ \ {d}, !.shares = @ \cup share]
    <3>3. r \in Request
      <4>1. call[c] \in Request /\ call[c].left \ {d} \in SUBSET Claimers
        BY <2>1 DEF Request
      <4>2. call[c].shares \cup share \in SUBSET (Claimers \X Nat)
        BY <2>1, <3>1 DEF Request
      <4> DEFINE left == call[c].left \ {d}  shares == call[c].shares \cup share
      <4>3. r = [call[c] EXCEPT !.left = left, !.shares = shares]
        OBVIOUS
      <4> HIDE DEF left, shares, r
      <4> QED BY <4>1, <4>2, <4>3 DEF Request, left, shares
    <3>4. call' = [call EXCEPT ![c] = r]
      BY <2>1, <3>2
    <3> HIDE DEF r
    <3> QED BY <2>1, <3>3, <3>4
  <2>7. TypeOK'
    BY <1>0, <2>3 DEF EarningTypes, TypeOK, monitor, scores, books
  <2>8. RecordTypes'
    BY <2>3, <2>6 DEF EarningTypes, RecordTypes, monitor, scores, books
  <2> QED BY <2>7, <2>8
<1>12. ASSUME NEW c \in Claimers, Respond(c) PROVE TypeOK' /\ RecordTypes'
  <2> DEFINE built == getOrBuildMerkleTree(call[c].shares)
             offer == [claimer |-> c, allowance |-> call[c].allowance, tree |-> built]
  <2>1. call \in [Claimers -> Request] /\ tree \subseteq Leaves /\ offers \subseteq Offer
    BY DEF EarningTypes, RecordTypes
  <2>2. built \in SUBSET Leaves
    <3>1. ASSUME NEW s \in Claimers \X Nat PROVE hashLeaf(s) \in Leaves
      <4>1. s[1] \in Claimers /\ s[2] \in Nat
        OBVIOUS
      <4>2. \A x \in Nat, y \in Nat : x % (y + 1) \in 0 .. y
        OBVIOUS
      <4> QED BY <4>1, <4>2 DEF hashLeaf, Leaves, Lamports
    <3>2. call[c].shares \in SUBSET (Claimers \X Nat)
      BY <2>1 DEF Request
    <3> QED BY <2>1, <3>1, <3>2 DEF getOrBuildMerkleTree
  <2>3. call[c].allowance \in Nat
    BY <2>1 DEF Request
  <2> HIDE DEF built
  <2>4. call[c].allowance <= U64 => offer \in Offer
    BY <2>2, <2>3 DEF Offer, Lamports
  <2>5. /\ tree' \in {tree, built} /\ offers' \in {offers, offers \cup {offer}}
        /\ offers' # offers => call[c].allowance <= U64
        /\ call' = [call EXCEPT ![c] = Quiet]
        /\ UNCHANGED <<inflow, monitor, scores, landed, books>>
    BY <1>12, <2>3 DEF Respond, built
  <2>6. Quiet \in Request
    BY DEF Quiet, Request
  <2> HIDE DEF offer
  <2>7. tree' \subseteq Leaves /\ offers' \subseteq Offer /\ call' \in [Claimers -> Request]
    BY <2>1, <2>2, <2>4, <2>5, <2>6
  <2>8. TypeOK'
    BY <1>0, <2>5 DEF EarningTypes, TypeOK, monitor, scores, books
  <2>9. RecordTypes'
    BY <2>5, <2>7 DEF EarningTypes, RecordTypes, monitor, scores, books
  <2> QED BY <2>8, <2>9
<1>13. ASSUME NEW k \in Confirms, PreCheck(k) PROVE TypeOK' /\ RecordTypes'
  BY <1>0, <1>13 DEF PreCheck, EarningTypes, TypeOK, RecordTypes, monitor, scores
<1>14. ASSUME NEW k \in Confirms, RecordClaim(k) PROVE TypeOK' /\ RecordTypes'
  <2>1. confirming[k] \in DOMAIN landed
    BY <1>14 DEF RecordClaim, EarningTypes, TypeOK
  <2>2. /\ landed[confirming[k]].claimer \in Claimers /\ landed[confirming[k]].change \in Nat
    <3>1. landed[confirming[k]] \in Landed
      BY <2>1 DEF EarningTypes, RecordTypes
    <3> QED BY <3>1 DEF Landed
  <2>3. /\ claims' \subseteq claims \cup {confirming[k]}
        /\ \/ recorded' = recorded
           \/ recorded' = [recorded EXCEPT ![landed[confirming[k]].claimer] = @ + landed[confirming[k]].change]
        /\ confirming' = [confirming EXCEPT ![k] = 0]
        /\ UNCHANGED <<inflow, monitor, scores, tree, call, offers, landed>>
    BY <1>14 DEF RecordClaim
  <2>4. recorded' \in [Claimers -> Nat]
    BY <2>2, <2>3 DEF EarningTypes, TypeOK
  <2>5. TypeOK'
    BY <1>0, <2>1, <2>3, <2>4 DEF EarningTypes, TypeOK, monitor, scores
  <2>6. RecordTypes'
    BY <2>3 DEF EarningTypes, RecordTypes, monitor, scores
  <2> QED BY <2>5, <2>6
<1>15. CASE Restart
  <2>1. Quiet \in Request
    BY DEF Quiet, Request
  <2>2. RecordTypes'
    BY <1>15, <2>1 DEF Restart, EarningTypes, RecordTypes
  <2>3. TypeOK'
    BY <1>0, <1>15 DEF Restart, EarningTypes, TypeOK
  <2> QED BY <2>2, <2>3
<1>16. CASE UNCHANGED vars
  BY <1>3, <1>16 DEF vars
<1>17. CASE Deposit
  BY <1>2, <1>17 DEF Deposit
<1>18. CASE Admin
  BY <1>3, <1>18 DEF Admin
<1>19. ASSUME NEW amount \in Amounts, TradingFee(amount) PROVE TypeOK' /\ RecordTypes'
  BY <1>2, <1>19 DEF TradingFee
<1>20. ASSUME NEW offer \in offers, Publish(offer) PROVE TypeOK' /\ RecordTypes'
  BY <1>3, <1>20 DEF Publish
<1> QED BY <1>4, <1>5, <1>6, <1>7, <1>8, <1>9, <1>10, <1>11, <1>12, <1>13, <1>14, <1>15,
           <1>16, <1>17, <1>18, <1>19, <1>20 DEF Next

LEMMA EarningTypesAlways == Spec => []EarningTypes
<1>1. Init => EarningTypes
  BY EarningTypesStart
<1>2. EarningTypes /\ [Next]_vars => EarningTypes'
  BY EarningTypesStep
<1> QED BY <1>1, <1>2, PTL DEF Spec

\* The values of the chain and of the server keep their types, for any users,
\* amounts and interleaving of requests: no u64 of the program overflows, and no
\* row of the database names a transaction that did not land.
THEOREM EarningsTypeCorrect == Spec => []TypeOK
<1>1. EarningTypes => TypeOK
  BY DEF EarningTypes
<1> QED BY <1>1, EarningTypesAlways, PTL

\* Whatever the server publishes and its clients send is a behaviour of the
\* on-chain program, so what is proved of the program holds beside the server.
THEOREM ServerKeepsChain == Spec => ChainSpec
<1>1. Init => ChainInit
  BY DEF Init
<1>2. EarningTypes /\ [Next]_vars => [ChainNext]_chain
  BY ServerOnChain
<1> QED BY <1>1, <1>2, EarningTypesAlways, PTL DEF Spec, ChainSpec

\* Nobody is paid beyond a published allowance, and the treasury covers every
\* claim that is due, with the server's own trees for roots.
THEOREM PayoutsAreSafe == Spec => []VaultIsSafe /\ PromiseSpec
BY ServerKeepsChain, VaultStaysSafe, ImplementsPromise, PTL

-----------------------------------------------------------------------------
\* The rows of the deposits, a set of positions of a sequence, are finitely many.
LEMMA RowsAreFinite ==
  ASSUME NEW S, NEW s \in Seq(S), NEW rows \in SUBSET DOMAIN s
  PROVE  IsFiniteSet(rows)
<1>1. IsFiniteSet(1 .. Len(s)) /\ DOMAIN s = 1 .. Len(s)
  BY FS_Interval
<1> QED BY <1>1, FS_Subset

LEMMA PoolStep ==
  ASSUME EarningTypes, PoolCountsOnce, [Next]_vars
  PROVE  PoolCountsOnce'
<1>1. /\ inflow \in Seq(Nat) /\ deposits \subseteq DOMAIN inflow /\ IsFiniteSet(deposits)
      /\ \A i \in DOMAIN inflow : inflow[i] \in Nat
  BY RowsAreFinite DEF EarningTypes, TypeOK, RecordTypes
<1>2. CASE UNCHANGED <<inflow, deposits, pool>>
  BY <1>2 DEF PoolCountsOnce
<1>3. ASSUME NEW amount \in Nat, Inflow(amount) PROVE PoolCountsOnce'
  <2>1. inflow' = Append(inflow, amount) /\ UNCHANGED <<deposits, pool>>
    BY <1>3 DEF Inflow, server, monitor
  <2>2. \A i \in deposits : inflow[i] = inflow'[i]
    BY <1>1, <2>1, Appended
  <2>3. SumFunctionOnSet(inflow, deposits) = SumFunctionOnSet(inflow', deposits)
    BY <1>1, <2>2, SumSame
  <2> QED BY <2>1, <2>3 DEF PoolCountsOnce
<1>4. ASSUME NEW m \in Monitors, RecordDeposit(m) PROVE PoolCountsOnce'
  <2>1. PICK i \in checking[m] :
          /\ deposits' = deposits \cup {i} /\ inflow' = inflow
          /\ pool' = IF i \in deposits THEN pool ELSE pool + inflow[i]
    BY <1>4 DEF RecordDeposit
  <2>2. i \in DOMAIN inflow
    BY DEF EarningTypes, TypeOK
  <2>3. CASE i \in deposits
    <3>1. deposits' = deposits
      BY <2>1, <2>3
    <3> QED BY <2>1, <2>3, <3>1 DEF PoolCountsOnce
  <2>4. CASE i \notin deposits
    <3>1. SumFunctionOnSet(inflow, deposits \cup {i}) = inflow[i] + SumFunctionOnSet(inflow, deposits)
      BY <1>1, <2>2, <2>4, SumAdd
    <3>2. SumFunctionOnSet(inflow, deposits) \in Nat /\ inflow[i] \in Nat
      BY <1>1, <2>2, SumInt
    <3>3. SumFunctionOnSet(inflow', deposits') = SumFunctionOnSet(inflow, deposits \cup {i})
      BY <2>1
    <3> QED BY <2>1, <2>4, <3>1, <3>2, <3>3 DEF PoolCountsOnce
  <2> QED BY <2>3, <2>4
<1>5. CASE UNCHANGED vars
  BY <1>2, <1>5 DEF vars, server, monitor
<1>6. CASE Deposit
  BY <1>3, <1>6, VaultAssumption DEF Deposit
<1>7. CASE Admin
  BY <1>2, <1>7 DEF Admin, server, monitor
<1>8. ASSUME NEW amount \in Amounts, TradingFee(amount) PROVE PoolCountsOnce'
  BY <1>3, <1>8, VaultAssumption DEF TradingFee
<1>9. ASSUME NEW offer \in offers, Publish(offer) \/ Send(offer) PROVE PoolCountsOnce'
  BY <1>2, <1>9 DEF Publish, Send, server, monitor
<1>10. ASSUME NEW m \in Monitors, CheckDeposits(m) PROVE PoolCountsOnce'
  BY <1>2, <1>10 DEF CheckDeposits
<1>11. ASSUME NEW owners, NEW mined, FlushCommit(owners, mined) PROVE PoolCountsOnce'
  BY <1>2, <1>11 DEF FlushCommit, monitor
<1>12. CASE FlushInvalidate \/ FlushFails
  BY <1>2, <1>12 DEF FlushInvalidate, FlushFails, monitor
<1>13. ASSUME NEW c \in Claimers, ReadEarnings(c) \/ ListSnapshots(c) \/ ReadShare(c) \/ Respond(c)
       PROVE  PoolCountsOnce'
  BY <1>2, <1>13 DEF ReadEarnings, ListSnapshots, ReadShare, Respond, monitor
<1>14. ASSUME NEW k \in Confirms, PreCheck(k) \/ RecordClaim(k) PROVE PoolCountsOnce'
  BY <1>2, <1>14 DEF PreCheck, RecordClaim, monitor
<1>15. CASE Restart
  BY <1>2, <1>15 DEF Restart
<1> QED BY <1>4, <1>5, <1>6, <1>7, <1>8, <1>9, <1>10, <1>11, <1>12, <1>13, <1>14, <1>15 DEF Next

\* Checks of the treasury that overlap, fail and restart, as many as there may be,
\* count every deposit once: the pool is the sum of the deposits with a row.
THEOREM DepositsCountOnce == Spec => []PoolCountsOnce
<1>1. Init => PoolCountsOnce
  BY SumEmpty DEF Init, PoolCountsOnce
<1>2. EarningTypes /\ PoolCountsOnce /\ [Next]_vars => PoolCountsOnce'
  BY PoolStep
<1> QED BY <1>1, <1>2, EarningTypesAlways, PTL DEF Spec

-----------------------------------------------------------------------------
\* The landed claims of a user, and what they changed.
MyLanded(c) == {i \in DOMAIN landed : landed[i].claimer = c}
MyChange(c) == [i \in MyLanded(c) |-> landed[i].change]
Unrecorded(c) == SumFunctionOnSet(MyChange(c), MyLanded(c) \ claims)
RentOf(c) == IF MyLanded(c) = {} THEN 0 ELSE Rent

\* BooksAgree, and what makes it inductive: the claim account is empty exactly
\* as long as no claim of its user has landed.
FirstClaim == \A c \in Claimers : MyLanded(c) = {} <=> claimed_total[c] = 0
BooksInv == BooksAgree /\ FirstClaim

LEMMA BooksByUser ==
  BooksAgree <=> \A c \in Claimers : recorded[c] + Unrecorded(c) + RentOf(c) = claimed_total[c]
BY DEF BooksAgree, Unrecorded, MyChange, MyLanded, RentOf

\* The types the sums below need.
LEMMA MyLandedType ==
  ASSUME EarningTypes, NEW c \in Claimers
  PROVE  /\ IsFiniteSet(MyLanded(c)) /\ MyLanded(c) \subseteq DOMAIN landed
         /\ IsFiniteSet(MyLanded(c) \ claims)
         /\ \A i \in MyLanded(c) : MyChange(c)[i] = landed[i].change /\ MyChange(c)[i] \in Nat
         /\ Unrecorded(c) \in Nat /\ RentOf(c) \in Nat /\ recorded[c] \in Nat
<1>1. MyLanded(c) \subseteq DOMAIN landed
  BY DEF MyLanded
<1>2. IsFiniteSet(MyLanded(c)) /\ IsFiniteSet(MyLanded(c) \ claims)
  BY <1>1, RowsAreFinite DEF EarningTypes, RecordTypes
<1>3. ASSUME NEW i \in MyLanded(c)
      PROVE  MyChange(c)[i] = landed[i].change /\ MyChange(c)[i] \in Nat
  <2>1. landed[i] \in Landed
    BY <1>1 DEF EarningTypes, RecordTypes
  <2> QED BY <2>1 DEF MyChange, Landed
<1>4. Unrecorded(c) \in Nat
  BY <1>2, <1>3, SumInt DEF Unrecorded
<1>5. RentOf(c) \in Nat /\ recorded[c] \in Nat
  BY ServerAssumption, VaultAssumption DEF RentOf, EarningTypes, TypeOK
<1> QED BY <1>1, <1>2, <1>3, <1>4, <1>5

\* A claim lands: what is paid is what is yet to be recorded, and the rent.
LEMMA SendBooks ==
  ASSUME EarningTypes, EarningTypes', BooksInv, NEW offer \in offers, Send(offer)
  PROVE  BooksInv'
<1> DEFINE o == offer.claimer  n == Len(landed) + 1
           e == [claimer |-> o, change |-> BalanceChange(offer)]
<1>1. /\ o \in Claimers /\ offer.allowance \in Nat
      /\ claimed_total[o] \in Nat /\ offer.allowance > claimed_total[o]
      /\ BalanceChange(offer) \in Nat
      /\ BalanceChange(offer) = offer.allowance - claimed_total[o]
           - (IF claimed_total[o] = 0 THEN Rent ELSE 0)
      /\ claimed_total' = [claimed_total EXCEPT ![o] = offer.allowance]
  BY ChangeType
<1>2. landed' = Append(landed, e) /\ claims' = claims /\ recorded' = recorded
  BY DEF Send, books
<1>3. landed \in Seq(Landed) /\ e \in Landed
  BY <1>1 DEF Landed, EarningTypes, RecordTypes
<1>4. e.claimer = o /\ e.change = BalanceChange(offer)
  OBVIOUS
<1> HIDE DEF o, e
<1>5. /\ DOMAIN landed = 1 .. Len(landed) /\ DOMAIN landed' = 1 .. n /\ Len(landed) \in Nat
      /\ \A i \in DOMAIN landed : landed'[i] = landed[i]
      /\ landed'[n] = e
  BY <1>2, <1>3, Appended
<1>6. n \notin DOMAIN landed /\ DOMAIN landed' = DOMAIN landed \cup {n} /\ n \notin claims
  BY <1>5 DEF EarningTypes, TypeOK
<1> HIDE DEF n
<1>7. ASSUME NEW c \in Claimers, c # o
      PROVE  /\ MyLanded(c)' = MyLanded(c) /\ Unrecorded(c)' = Unrecorded(c)
             /\ claimed_total'[c] = claimed_total[c]
  <2>1. MyLanded(c)' = MyLanded(c)
    BY <1>4, <1>5, <1>6, <1>7 DEF MyLanded
  <2>2. MyChange(c)' = MyChange(c)
    BY <1>5, <2>1 DEF MyChange, MyLanded
  <2>3. claimed_total \in [Claimers -> Lamports]
    BY DEF EarningTypes, VaultInv, ChainTypeOK
  <2> QED BY <1>1, <1>2, <1>7, <2>1, <2>2, <2>3 DEF Unrecorded
<1>8. MyLanded(o)' = MyLanded(o) \cup {n} /\ n \notin MyLanded(o)
  BY <1>4, <1>5, <1>6 DEF MyLanded
<1>9. claimed_total'[o] = offer.allowance
  <2>1. claimed_total \in [Claimers -> Lamports]
    BY DEF EarningTypes, VaultInv, ChainTypeOK
  <2> QED BY <1>1, <2>1
<1>10. Unrecorded(o)' = BalanceChange(offer) + Unrecorded(o)
  <2> DEFINE rest == MyLanded(o) \ claims  f == MyChange(o)'
  <2>1. MyLanded(o)' \ claims' = rest \cup {n} /\ n \notin rest
    BY <1>2, <1>6, <1>8
  <2>2. IsFiniteSet(rest) /\ \A i \in MyLanded(o) : MyChange(o)[i] = landed[i].change
    BY <1>1, MyLandedType
  <2>3. f = [i \in MyLanded(o)' |-> landed'[i].change]
    BY DEF MyChange
  <2>4. \A i \in rest : f[i] = MyChange(o)[i]
    BY <1>5, <1>8, <2>2, <2>3 DEF MyLanded
  <2>5. f[n] = BalanceChange(offer)
    BY <1>4, <1>5, <1>8, <2>3
  <2>6. \A i \in rest \cup {n} : f[i] \in Nat
    <3>1. \A i \in rest : MyChange(o)[i] \in Nat
      BY <1>1, MyLandedType
    <3> QED BY <1>1, <2>4, <2>5, <3>1
  <2>7. Unrecorded(o)' = SumFunctionOnSet(f, rest \cup {n})
    BY <2>1 DEF Unrecorded
  <2> HIDE DEF rest, f
  <2>8. SumFunctionOnSet(f, rest \cup {n}) = f[n] + SumFunctionOnSet(f, rest)
    BY <2>1, <2>2, <2>6, SumAdd
  <2>9. SumFunctionOnSet(f, rest) = SumFunctionOnSet(MyChange(o), rest)
    BY <2>2, <2>4, SumSame
  <2> QED BY <2>5, <2>7, <2>8, <2>9 DEF Unrecorded, rest
<1>11. FirstClaim'
  <2>1. MyLanded(o)' # {} /\ claimed_total'[o] # 0
    BY <1>1, <1>8, <1>9
  <2>2. \A c \in Claimers \ {o} : MyLanded(c)' = {} <=> claimed_total'[c] = 0
    BY <1>7 DEF BooksInv, FirstClaim
  <2> QED BY <2>1, <2>2 DEF FirstClaim
<1>12. \A c \in Claimers : recorded'[c] + Unrecorded(c)' + RentOf(c)' = claimed_total'[c]
  <2>1. \A c \in Claimers : recorded[c] + Unrecorded(c) + RentOf(c) = claimed_total[c]
    BY BooksByUser DEF BooksInv
  <2>2. ASSUME NEW c \in Claimers, c # o
        PROVE  recorded'[c] + Unrecorded(c)' + RentOf(c)' = claimed_total'[c]
    <3>1. RentOf(c)' = RentOf(c)
      BY <1>7, <2>2 DEF RentOf
    <3> QED BY <1>2, <1>7, <2>1, <2>2, <3>1
  <2>3. recorded'[o] + Unrecorded(o)' + RentOf(o)' = claimed_total'[o]
    <3>1. RentOf(o)' = Rent
      BY <1>8 DEF RentOf
    <3>2. RentOf(o) = IF claimed_total[o] = 0 THEN 0 ELSE Rent
      BY <1>1 DEF RentOf, BooksInv, FirstClaim
    <3>3. recorded[o] \in Nat /\ Unrecorded(o) \in Nat /\ Rent \in Nat
      <4>1. recorded[o] \in Nat /\ Unrecorded(o) \in Nat
        BY <1>1, MyLandedType
      <4>2. Rent \in Nat
        BY ServerAssumption, VaultAssumption
      <4> QED BY <4>1, <4>2
    <3>4. recorded[o] + Unrecorded(o) + RentOf(o) = claimed_total[o]
      BY <1>1, <2>1
    <3>5. recorded'[o] = recorded[o]
      BY <1>2
    <3>6. CASE claimed_total[o] = 0
      BY <1>1, <1>9, <1>10, <3>1, <3>2, <3>3, <3>4, <3>5, <3>6
    <3>7. CASE claimed_total[o] # 0
      BY <1>1, <1>9, <1>10, <3>1, <3>2, <3>3, <3>4, <3>5, <3>7
    <3> QED BY <3>6, <3>7
  <2> QED BY <2>2, <2>3
<1>13. BooksAgree'
  <2>1. BooksAgree' <=> \A c \in Claimers :
                          recorded'[c] + Unrecorded(c)' + RentOf(c)' = claimed_total'[c]
    BY DEF BooksAgree, Unrecorded, MyChange, MyLanded, RentOf
  <2> QED BY <1>12, <2>1
<1> QED BY <1>11, <1>13 DEF BooksInv

\* A confirmation is recorded: one claim moves from the unrecorded to the record.
LEMMA RecordBooks ==
  ASSUME EarningTypes, BooksInv, NEW k \in Confirms, RecordClaim(k)
  PROVE  BooksInv'
<1>1. UNCHANGED <<landed, claimed_total>>
  BY DEF RecordClaim, chain, accounts
<1>2. PICK i \in DOMAIN landed : i = confirming[k]
  BY DEF RecordClaim, EarningTypes, TypeOK
<1>3. PICK o \in Claimers : o = landed[i].claimer
  <2>1. landed[i] \in Landed
    BY <1>2 DEF EarningTypes, RecordTypes
  <2> QED BY <2>1 DEF Landed
<1>4. \A c : MyLanded(c)' = MyLanded(c) /\ MyChange(c)' = MyChange(c) /\ RentOf(c)' = RentOf(c)
  BY <1>1 DEF MyLanded, MyChange, RentOf
<1>5. FirstClaim'
  BY <1>1, <1>4 DEF BooksInv, FirstClaim
<1>6. CASE i \in claims
  <2>1. claims' = claims /\ recorded' = recorded
    BY <1>2, <1>6 DEF RecordClaim
  <2> QED BY <1>1, <1>5, <2>1 DEF BooksInv, BooksAgree
<1>7. CASE i \notin claims
  <2>1. claims' = claims \cup {i} /\ recorded' = [recorded EXCEPT ![o] = @ + landed[i].change]
    BY <1>2, <1>3, <1>7 DEF RecordClaim
  <2>2. recorded \in [Claimers -> Nat]
    BY DEF EarningTypes, TypeOK
  <2>3. i \in MyLanded(o) \ claims
    BY <1>2, <1>3, <1>7 DEF MyLanded
  <2>4. \A c \in Claimers : recorded[c] + Unrecorded(c) + RentOf(c) = claimed_total[c]
    BY BooksByUser DEF BooksInv
  <2>5. \A c : Unrecorded(c)' = SumFunctionOnSet(MyChange(c), MyLanded(c) \ claims')
    BY <1>4 DEF Unrecorded
  <2>6. ASSUME NEW c \in Claimers, c # o
        PROVE  recorded'[c] + Unrecorded(c)' + RentOf(c)' = claimed_total'[c]
    <3>1. i \notin MyLanded(c)
      BY <1>3, <2>6 DEF MyLanded
    <3>2. MyLanded(c) \ claims' = MyLanded(c) \ claims
      BY <2>1, <3>1
    <3>3. Unrecorded(c)' = Unrecorded(c)
      BY <2>5, <3>2 DEF Unrecorded
    <3>4. recorded'[c] = recorded[c]
      BY <2>1, <2>2, <2>6
    <3> QED BY <1>1, <1>4, <2>4, <3>3, <3>4
  <2>7. recorded'[o] + Unrecorded(o)' + RentOf(o)' = claimed_total'[o]
    <3> DEFINE rest == MyLanded(o) \ claims
    <3>1. MyLanded(o) \ claims' = rest \ {i}
      BY <2>1
    <3>2. /\ IsFiniteSet(rest) /\ IsFiniteSet(rest \ {i}) /\ MyChange(o)[i] = landed[i].change
          /\ \A j \in rest : MyChange(o)[j] \in Nat
      BY <1>3, <2>3, MyLandedType, FS_Subset
    <3>3. Unrecorded(o)' = SumFunctionOnSet(MyChange(o), rest \ {i})
      BY <2>5, <3>1
    <3>4. i \in rest
      BY <2>3
    <3> HIDE DEF rest
    <3>5. SumFunctionOnSet(MyChange(o), rest) = MyChange(o)[i] + SumFunctionOnSet(MyChange(o), rest \ {i})
      BY <3>2, <3>4, SumTake
    <3>6. SumFunctionOnSet(MyChange(o), rest \ {i}) \in Nat /\ MyChange(o)[i] \in Nat
      BY <3>2, <3>4, SumInt
    <3>7. Unrecorded(o) = MyChange(o)[i] + Unrecorded(o)'
      BY <3>3, <3>5 DEF Unrecorded, rest
    <3>8. recorded'[o] = recorded[o] + MyChange(o)[i]
      BY <1>3, <2>1, <2>2, <3>2
    <3>9. recorded[o] \in Nat /\ RentOf(o) \in Nat /\ Unrecorded(o)' \in Nat
      BY <1>3, <3>3, <3>6, MyLandedType
    <3>10. recorded[o] + Unrecorded(o) + RentOf(o) = claimed_total[o]
      BY <1>3, <2>4
    <3>11. RentOf(o)' = RentOf(o) /\ claimed_total'[o] = claimed_total[o]
      BY <1>1, <1>4
    <3> QED BY <3>6, <3>7, <3>8, <3>9, <3>10, <3>11
  <2>8. BooksAgree' <=> \A c \in Claimers :
                          recorded'[c] + Unrecorded(c)' + RentOf(c)' = claimed_total'[c]
    BY DEF BooksAgree, Unrecorded, MyChange, MyLanded, RentOf
  <2>9. BooksAgree'
    BY <2>6, <2>7, <2>8
  <2> QED BY <1>5, <2>9 DEF BooksInv
<1> QED BY <1>6, <1>7

\* A step that leaves the chain's claims and both sets of books alone.
LEMMA BooksStand ==
  ASSUME BooksInv, UNCHANGED <<landed, claims, recorded, claimed_total>>
  PROVE  BooksInv'
<1>1. BooksAgree'
  BY DEF BooksInv, BooksAgree
<1>2. FirstClaim'
  BY DEF BooksInv, FirstClaim, MyLanded
<1> QED BY <1>1, <1>2 DEF BooksInv

LEMMA BooksStep ==
  ASSUME EarningTypes, EarningTypes', BooksInv, [Next]_vars
  PROVE  BooksInv'
<1>1. CASE UNCHANGED <<landed, books, claimed_total>>
  BY <1>1, BooksStand DEF books
<1>2. CASE UNCHANGED vars
  BY <1>1, <1>2 DEF vars, server, chain, accounts
<1>3. CASE Deposit
  BY <1>1, <1>3 DEF Deposit, Inflow, DepositFees, DeployAgent, server, accounts
<1>4. CASE Admin
  BY <1>1, <1>4 DEF Admin, Initialize, InitializeVault, PauseVault, UnpauseVault, server, accounts
<1>5. ASSUME NEW amount \in Amounts, TradingFee(amount) PROVE BooksInv'
  BY <1>1, <1>5 DEF TradingFee, Inflow, server, chain, accounts
<1>6. ASSUME NEW offer \in offers, Publish(offer) PROVE BooksInv'
  BY <1>1, <1>6 DEF Publish, UpdateMerkleRoot, server, accounts
<1>7. ASSUME NEW offer \in offers, Send(offer) PROVE BooksInv'
  BY <1>7, SendBooks
<1>8. ASSUME NEW m \in Monitors, CheckDeposits(m) \/ RecordDeposit(m) PROVE BooksInv'
  BY <1>1, <1>8 DEF CheckDeposits, RecordDeposit, chain, accounts
<1>9. ASSUME NEW owners, NEW mined, FlushCommit(owners, mined) PROVE BooksInv'
  BY <1>1, <1>9 DEF FlushCommit, chain, accounts
<1>10. CASE FlushInvalidate \/ FlushFails
  BY <1>1, <1>10 DEF FlushInvalidate, FlushFails, chain, accounts
<1>11. ASSUME NEW c \in Claimers, ReadEarnings(c) \/ ListSnapshots(c) \/ ReadShare(c) \/ Respond(c)
       PROVE  BooksInv'
  BY <1>1, <1>11 DEF ReadEarnings, ListSnapshots, ReadShare, Respond, chain, accounts
<1>12. ASSUME NEW k \in Confirms, PreCheck(k) PROVE BooksInv'
  BY <1>12 DEF PreCheck, BooksInv, BooksAgree, FirstClaim, MyLanded, chain, accounts
<1>13. ASSUME NEW k \in Confirms, RecordClaim(k) PROVE BooksInv'
  BY <1>13, RecordBooks
<1>14. CASE Restart
  BY <1>14, BooksStand DEF Restart, chain, accounts
<1> QED BY <1>2, <1>3, <1>4, <1>5, <1>6, <1>7, <1>8, <1>9, <1>10, <1>11, <1>12, <1>13, <1>14
        DEF Next

\* The server's books and the program's agree whatever confirmations are lost,
\* repeated or raced: recorded, yet unrecorded and rent make up what was paid.
THEOREM BooksAlwaysAgree == Spec => []BooksAgree
<1>1. ASSUME Init PROVE BooksInv
  <2>1. landed = <<>> /\ claims = {} /\ DOMAIN landed = {}
    BY <1>1 DEF Init
  <2>2. \A c : MyLanded(c) = {}
    BY <2>1 DEF MyLanded
  <2>3. \A c : RentOf(c) = 0 /\ Unrecorded(c) = 0
    <3>1. \A c : MyLanded(c) \ claims = {}
      BY <2>2
    <3>2. \A c : Unrecorded(c) = 0
      BY <3>1, SumEmpty DEF Unrecorded
    <3> QED BY <2>2, <3>2 DEF RentOf
  <2>4. \A c \in Claimers : recorded[c] = 0 /\ claimed_total[c] = 0
    BY <1>1 DEF Init, ChainInit
  <2> QED BY <2>2, <2>3, <2>4, BooksByUser DEF BooksInv, FirstClaim
<1>2. Init => BooksInv
  BY <1>1
<1>3. EarningTypes /\ EarningTypes' /\ BooksInv /\ [Next]_vars => BooksInv'
  BY BooksStep
<1>4. BooksInv => BooksAgree
  BY DEF BooksInv
<1> QED BY <1>2, <1>3, <1>4, EarningTypesAlways, PTL DEF Spec
=============================================================================
