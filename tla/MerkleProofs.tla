---------------------------- MODULE MerkleProofs ----------------------------
(***************************************************************************)
(* Proofs about the Merkle tree, for any shares, any order of their hashes *)
(* and any number of leaves: verify_proof accepts what the server made of  *)
(* the published tree, and nothing that is not in it.                      *)
(*                                                                         *)
(* The levels, the indexes and the hashes of a path are computed by        *)
(* recursion.  That such a function exists, and what holds of all of its   *)
(* values, follows from a set of numbers that holds 0 and the successor of *)
(* each of its members (CountUp).                                          *)
(***************************************************************************)
EXTENDS MerkleTree, FiniteSetTheorems, WellFoundedInduction, TLAPS

-----------------------------------------------------------------------------
(* Counting up. *)

\* A nonempty set of numbers up to N has a least one: the smallest of the intervals that
\* end in it.
LEMMA LeastNat ==
  ASSUME NEW N \in Nat, NEW T \in SUBSET (0..N), T # {}
  PROVE  \E n \in T : \A m \in T : n <= m
<1> DEFINE S == 0..N  U == {0..n : n \in T}
<1>1. IsFiniteSet(S)
  BY FS_Interval
<1>2. U \subseteq SUBSET S /\ U # {}
  <2>1. \A n \in T : 0..n \subseteq S
    OBVIOUS
  <2> QED BY <2>1
<1>3. \A s \in SUBSET S : s \in FiniteSubsetsOf(S)
  BY <1>1, FS_Subset DEF FiniteSubsetsOf
<1>4. IsWellFoundedOn(StrictSubsetOrdering(S), FiniteSubsetsOf(S))
  BY FS_StrictSubsetOrderingWellFounded
<1>5. PICK u \in U : \A v \in U : <<v, u>> \notin StrictSubsetOrdering(S)
  <2> HIDE DEF S, U
  <2> QED BY <1>2, <1>3, <1>4, WFMin
<1>6. PICK n \in T : u = 0..n
  BY <1>5
<1>7. ASSUME NEW m \in T, m < n PROVE FALSE
  <2>1. 0..m \in U /\ 0..m \in SUBSET S /\ u \in SUBSET S
    BY <1>2, <1>6
  <2>2. 0..m \subseteq u /\ 0..m # u
    BY <1>6, <1>7
  <2>3. <<0..m, u>> \in StrictSubsetOrdering(S)
    BY <2>1, <2>2 DEF StrictSubsetOrdering
  <2> QED BY <1>5, <2>1, <2>3
<1> QED BY <1>7

\* A set of the numbers up to N that holds 0 and counts up holds them all.
LEMMA CountUp ==
  ASSUME NEW N \in Nat, NEW T, 0 \in T, \A n \in 0 .. N - 1 : n \in T => n + 1 \in T
  PROVE  \A n \in 0 .. N : n \in T
<1> SUFFICES ASSUME NEW bad, bad = {n \in 0 .. N : n \notin T}, bad # {} PROVE FALSE
  OBVIOUS
<1>1. PICK n \in bad : \A m \in bad : n <= m
  BY LeastNat
<1>2. n \in 1 .. N
  BY <1>1
<1>3. n - 1 \in 0 .. N - 1 /\ n - 1 \notin bad
  BY <1>1, <1>2
<1>4. (n - 1) + 1 \in T
  BY <1>3
<1> QED BY <1>1, <1>2, <1>4

\* The recursive functions are what their equations say.
LEMMA LevelsStep ==
  ASSUME NEW leaves, Len(leaves) \in Nat
  PROVE  Levels(leaves) = [n \in 0 .. Len(leaves) |->
                  IF n = 0 THEN leaves ELSE NextLevel(Levels(leaves)[n - 1])]
<1> DEFINE Is(f, N) == f = [n \in 0 .. N |-> IF n = 0 THEN leaves ELSE NextLevel(f[n - 1])]
           T == {N \in 0 .. Len(leaves) : \E f : Is(f, N)}
<1>1. 0 \in T
  <2>1. Is([n \in {0} |-> leaves], 0)
    OBVIOUS
  <2> HIDE DEF Is
  <2> QED BY <2>1
<1>2. ASSUME NEW N \in 0 .. Len(leaves) - 1, N \in T PROVE N + 1 \in T
  <2>1. PICK f : Is(f, N)
    BY <1>2
  <2> DEFINE g == [n \in 0 .. N + 1 |-> IF n = N + 1 THEN NextLevel(f[N]) ELSE f[n]]
  <2>2. \A n \in 0 .. N : g[n] = f[n]
    OBVIOUS
  <2>3. \A n \in 0 .. N + 1 : g[n] = IF n = 0 THEN leaves ELSE NextLevel(g[n - 1])
    <3>1. \A n \in 0 .. N : f[n] = IF n = 0 THEN leaves ELSE NextLevel(f[n - 1])
      BY <2>1
    <3>2. g[N + 1] = NextLevel(g[N])
      OBVIOUS
    <3> HIDE DEF g
    <3> QED BY <2>2, <3>1, <3>2
  <2>4. g = [n \in 0 .. N + 1 |-> g[n]]
    OBVIOUS
  <2>5. Is(g, N + 1)
    <3> HIDE DEF g
    <3> QED BY <2>3, <2>4
  <2> HIDE DEF Is, g
  <2> QED BY <2>5
<1>3. \E f : Is(f, Len(leaves))
  <2> HIDE DEF T
  <2>1. \A n \in 0 .. Len(leaves) : n \in T
    BY <1>1, <1>2, CountUp
  <2> QED BY <2>1 DEF T
<1>4. Levels(leaves) = CHOOSE f : Is(f, Len(leaves))
  BY DEF Levels
<1>5. Is(Levels(leaves), Len(leaves))
  <2> HIDE DEF Is, T
  <2> QED BY <1>3, <1>4
<1> QED BY <1>5

LEMMA IndexStep ==
  ASSUME NEW start, NEW height \in Nat
  PROVE  IndexAt(start, height) = [n \in 0 .. height |->
                  IF n = 0 THEN start ELSE IndexAt(start, height)[n - 1] \div 2]
<1> DEFINE Is(f, N) == f = [n \in 0 .. N |-> IF n = 0 THEN start ELSE f[n - 1] \div 2]
           T == {N \in 0 .. height : \E f : Is(f, N)}
<1>1. 0 \in T
  <2>1. Is([n \in {0} |-> start], 0)
    OBVIOUS
  <2> HIDE DEF Is
  <2> QED BY <2>1
<1>2. ASSUME NEW N \in 0 .. height - 1, N \in T PROVE N + 1 \in T
  <2>1. PICK f : Is(f, N)
    BY <1>2
  <2> DEFINE g == [n \in 0 .. N + 1 |-> IF n = N + 1 THEN f[N] \div 2 ELSE f[n]]
  <2>2. \A n \in 0 .. N : g[n] = f[n]
    OBVIOUS
  <2>3. \A n \in 0 .. N + 1 : g[n] = IF n = 0 THEN start ELSE g[n - 1] \div 2
    <3>1. \A n \in 0 .. N : f[n] = IF n = 0 THEN start ELSE f[n - 1] \div 2
      BY <2>1
    <3>2. g[N + 1] = g[N] \div 2
      OBVIOUS
    <3> HIDE DEF g
    <3> QED BY <2>2, <3>1, <3>2
  <2>4. g = [n \in 0 .. N + 1 |-> g[n]]
    OBVIOUS
  <2>5. Is(g, N + 1)
    <3> HIDE DEF g
    <3> QED BY <2>3, <2>4
  <2> HIDE DEF Is, g
  <2> QED BY <2>5
<1>3. \E f : Is(f, height)
  <2> HIDE DEF T
  <2>1. \A n \in 0 .. height : n \in T
    BY <1>1, <1>2, CountUp
  <2> QED BY <2>1 DEF T
<1>4. IndexAt(start, height) = CHOOSE f : Is(f, height)
  BY DEF IndexAt
<1>5. Is(IndexAt(start, height), height)
  <2> HIDE DEF Is, T
  <2> QED BY <1>3, <1>4
<1> QED BY <1>5

LEMMA ComputedStep ==
  ASSUME NEW proof, NEW leaf, Len(proof) \in Nat
  PROVE  Computed(proof, leaf) = [n \in 0 .. Len(proof) |->
                  IF n = 0 THEN leaf ELSE hashPair(Computed(proof, leaf)[n - 1], proof[n])]
<1> DEFINE Is(f, N) == f = [n \in 0 .. N |-> IF n = 0 THEN leaf ELSE hashPair(f[n - 1], proof[n])]
           T == {N \in 0 .. Len(proof) : \E f : Is(f, N)}
<1>1. 0 \in T
  <2>1. Is([n \in {0} |-> leaf], 0)
    OBVIOUS
  <2> HIDE DEF Is
  <2> QED BY <2>1
<1>2. ASSUME NEW N \in 0 .. Len(proof) - 1, N \in T PROVE N + 1 \in T
  <2>1. PICK f : Is(f, N)
    BY <1>2
  <2> DEFINE g == [n \in 0 .. N + 1 |-> IF n = N + 1 THEN hashPair(f[N], proof[N + 1]) ELSE f[n]]
  <2>2. \A n \in 0 .. N : g[n] = f[n]
    OBVIOUS
  <2>3. \A n \in 0 .. N + 1 : g[n] = IF n = 0 THEN leaf ELSE hashPair(g[n - 1], proof[n])
    <3>1. \A n \in 0 .. N : f[n] = IF n = 0 THEN leaf ELSE hashPair(f[n - 1], proof[n])
      BY <2>1
    <3>2. g[N + 1] = hashPair(g[N], proof[N + 1])
      OBVIOUS
    <3> HIDE DEF g
    <3> QED BY <2>2, <3>1, <3>2
  <2>4. g = [n \in 0 .. N + 1 |-> g[n]]
    OBVIOUS
  <2>5. Is(g, N + 1)
    <3> HIDE DEF g
    <3> QED BY <2>3, <2>4
  <2> HIDE DEF Is, g
  <2> QED BY <2>5
<1>3. \E f : Is(f, Len(proof))
  <2> HIDE DEF T
  <2>1. \A n \in 0 .. Len(proof) : n \in T
    BY <1>1, <1>2, CountUp
  <2> QED BY <2>1 DEF T
<1>4. Computed(proof, leaf) = CHOOSE f : Is(f, Len(proof))
  BY DEF Computed
<1>5. Is(Computed(proof, leaf), Len(proof))
  <2> HIDE DEF Is, T
  <2> QED BY <1>3, <1>4
<1> QED BY <1>5

-----------------------------------------------------------------------------
(* The levels. *)

LEMMA NextLevelIs ==
  ASSUME NEW level, IsList(level)
  PROVE  /\ IsList(NextLevel(level)) /\ Len(NextLevel(level)) = (Len(level) + 1) \div 2
         /\ \A n \in 1 .. (Len(level) + 1) \div 2 :
              NextLevel(level)[n] = hashPair(level[2 * n - 1], Partner(level, n))
<1> DEFINE N == (Len(level) + 1) \div 2
<1>1. N \in Nat
  BY DEF IsList
<1>2. NextLevel(level) = [n \in 1 .. N |-> hashPair(level[2 * n - 1], Partner(level, n))]
  BY DEF NextLevel
<1>3. Len(NextLevel(level)) = N
  <2> HIDE DEF N
  <2> QED BY <1>1, <1>2
<1> QED BY <1>1, <1>2, <1>3 DEF IsList

\* Half of a level, rounded up: a level of more nodes shrinks.
LEMMA Halves ==
  ASSUME NEW size \in Nat
  PROVE  /\ (size + 1) \div 2 \in Nat
         /\ size >= 1 => (size + 1) \div 2 >= 1
         /\ size = 1 => (size + 1) \div 2 = 1
         /\ size > 1 => (size + 1) \div 2 <= size - 1
         /\ \A i \in 0 .. size - 1 : i \div 2 \in 0 .. (size + 1) \div 2 - 1
OBVIOUS

\* Every level has a node; until there is only one, each level is shorter than the last.
LEMMA LevelLengths ==
  ASSUME NEW leaves, IsList(leaves), Len(leaves) >= 1
  PROVE  \A n \in 0 .. Len(leaves) :
           /\ IsList(Levels(leaves)[n]) /\ Len(Levels(leaves)[n]) >= 1
           /\ Len(Levels(leaves)[n]) = 1 \/ Len(Levels(leaves)[n]) <= Len(leaves) - n
<1> DEFINE L == Levels(leaves)
           T == {n \in 0 .. Len(leaves) :
                   /\ IsList(L[n]) /\ Len(L[n]) >= 1
                   /\ Len(L[n]) = 1 \/ Len(L[n]) <= Len(leaves) - n}
<1>0. Len(leaves) \in Nat
  BY DEF IsList
<1>1. L[0] = leaves /\ \A n \in 1 .. Len(leaves) : L[n] = NextLevel(L[n - 1])
  BY <1>0, LevelsStep
<1> HIDE DEF L
<1>2. 0 \in T
  BY <1>0, <1>1
<1>3. ASSUME NEW n \in 0 .. Len(leaves) - 1, n \in T PROVE n + 1 \in T
  <2>1. L[n + 1] = NextLevel(L[n])
    BY <1>0, <1>1
  <2>2. IsList(L[n]) /\ Len(L[n]) \in Nat /\ Len(L[n]) >= 1
    BY <1>3 DEF IsList
  <2>3. IsList(L[n + 1]) /\ Len(L[n + 1]) = (Len(L[n]) + 1) \div 2
    BY <2>1, <2>2, NextLevelIs
  <2> DEFINE size == Len(L[n])  above == Len(L[n + 1])
  <2>4. /\ size \in Nat /\ above \in Nat /\ above >= 1
        /\ size = 1 => above = 1
        /\ size > 1 => above <= size - 1
    BY <2>2, <2>3, Halves
  <2>5. size = 1 \/ size <= Len(leaves) - n
    BY <1>3
  <2>6. size >= 1
    BY <2>2
  <2> HIDE DEF size, above
  <2>7. above = 1 \/ above <= Len(leaves) - (n + 1)
    BY <1>0, <2>4, <2>5, <2>6
  <2>8. IsList(L[n + 1]) /\ n + 1 \in 0 .. Len(leaves)
    BY <1>0, <2>3
  <2>9. Len(L[n + 1]) >= 1 /\ (Len(L[n + 1]) = 1 \/ Len(L[n + 1]) <= Len(leaves) - (n + 1))
    BY <2>4, <2>7 DEF above
  <2> QED BY <2>8, <2>9
<1>4. \A n \in 0 .. Len(leaves) : n \in T
  <2> HIDE DEF T
  <2> QED BY <1>0, <1>2, <1>3, CountUp
<1> QED BY <1>4 DEF L

\* The loop ends, at the first level with a single node: the root.
LEMMA HeightIs ==
  ASSUME NEW leaves, IsList(leaves), Len(leaves) >= 1
  PROVE  /\ Height(leaves) \in 0 .. Len(leaves)
         /\ Len(Levels(leaves)[Height(leaves)]) = 1
         /\ \A n \in 0 .. Height(leaves) - 1 : Len(Levels(leaves)[n]) > 1
<1> DEFINE L == Levels(leaves)
           T == {n \in 0 .. Len(leaves) : Len(L[n]) <= 1}
           Ends(h) == Len(L[h]) <= 1 /\ \A n \in 0 .. h - 1 : Len(L[n]) > 1
<1>0. Len(leaves) \in Nat
  BY DEF IsList
<1>1. \A n \in 0 .. Len(leaves) : Len(L[n]) \in Nat /\ Len(L[n]) >= 1
  BY LevelLengths DEF IsList
<1>2. Len(L[Len(leaves)]) = 1 \/ Len(L[Len(leaves)]) <= Len(leaves) - Len(leaves)
  <2>1. Len(leaves) \in 0 .. Len(leaves)
    BY <1>0
  <2>2. \A n \in 0 .. Len(leaves) : Len(L[n]) = 1 \/ Len(L[n]) <= Len(leaves) - n
    BY LevelLengths
  <2> HIDE DEF L
  <2> QED BY <2>1, <2>2
<1> HIDE DEF L
<1>3. Len(leaves) \in T
  <2>1. Len(L[Len(leaves)]) <= 1
    <3> DEFINE top == Len(L[Len(leaves)])
    <3>1. top \in Nat /\ (top = 1 \/ top <= 0)
      BY <1>0, <1>1, <1>2
    <3> HIDE DEF top
    <3>2. top <= 1
      BY <3>1
    <3> QED BY <3>2 DEF top
  <2> QED BY <1>0, <2>1
<1>4. PICK h \in T : \A m \in T : h <= m
  BY <1>0, <1>3, LeastNat
<1>5. h \in 0 .. Len(leaves) /\ Ends(h)
  <2>1. \A n \in 0 .. h - 1 : n \in 0 .. Len(leaves) /\ n \notin T
    BY <1>0, <1>4
  <2> QED BY <1>0, <1>1, <1>4, <2>1
<1>6. Height(leaves) = CHOOSE k \in 0 .. Len(leaves) : Ends(k)
  BY DEF Height, L
<1>7. Height(leaves) \in 0 .. Len(leaves) /\ Ends(Height(leaves))
  <2> HIDE DEF Ends
  <2> QED BY <1>5, <1>6
<1>8. Len(L[Height(leaves)]) = 1
  <2> DEFINE top == Len(L[Height(leaves)])
  <2>1. top \in Nat /\ top >= 1 /\ top <= 1
    BY <1>1, <1>7
  <2> HIDE DEF top
  <2>2. top = 1
    BY <2>1
  <2> QED BY <2>2 DEF top
<1> QED BY <1>7, <1>8 DEF L

-----------------------------------------------------------------------------
(* The proofs. *)

\* The nodes of a leaf's way lie in their levels.
LEMMA IndexLies ==
  ASSUME NEW leaves, IsList(leaves), NEW start \in 0 .. Len(leaves) - 1
  PROVE  \A n \in 0 .. Height(leaves) :
           IndexAt(start, Height(leaves))[n] \in 0 .. Len(Levels(leaves)[n]) - 1
<1> DEFINE L == Levels(leaves)  h == Height(leaves)  at == IndexAt(start, h)
           T == {n \in 0 .. h : at[n] \in 0 .. Len(L[n]) - 1}
<1>0. Len(leaves) \in Nat /\ Len(leaves) >= 1
  BY DEF IsList
<1>1. h \in 0 .. Len(leaves)
  BY <1>0, HeightIs
<1>2. L[0] = leaves /\ \A n \in 1 .. Len(leaves) : L[n] = NextLevel(L[n - 1])
  BY <1>0, LevelsStep
<1>3. at[0] = start /\ \A n \in 1 .. h : at[n] = at[n - 1] \div 2
  <2>1. h \in Nat
    BY <1>0, <1>1
  <2> HIDE DEF h
  <2> QED BY <2>1, IndexStep
<1>4. \A n \in 0 .. Len(leaves) : IsList(L[n])
  BY <1>0, LevelLengths
<1> HIDE DEF L, h, at
<1>5. 0 \in T
  BY <1>0, <1>1, <1>2, <1>3
<1>6. ASSUME NEW n \in 0 .. h - 1, n \in T PROVE n + 1 \in T
  <2>1. L[n + 1] = NextLevel(L[n]) /\ IsList(L[n])
    BY <1>0, <1>1, <1>2, <1>4
  <2>2. Len(L[n + 1]) = (Len(L[n]) + 1) \div 2
    BY <2>1, NextLevelIs
  <2>3. at[n + 1] = at[n] \div 2
    BY <1>0, <1>1, <1>3
  <2>4. Len(L[n]) \in Nat /\ at[n] \in 0 .. Len(L[n]) - 1
    BY <1>6, <2>1 DEF IsList
  <2>5. at[n] \div 2 \in 0 .. (Len(L[n]) + 1) \div 2 - 1
    BY <2>4, Halves
  <2>6. at[n + 1] \in 0 .. Len(L[n + 1]) - 1
    BY <2>2, <2>3, <2>5
  <2>7. n + 1 \in 0 .. h
    BY <1>0, <1>1
  <2> QED BY <2>6, <2>7
<1>7. \A n \in 0 .. h : n \in T
  <2> HIDE DEF T
  <2> QED BY <1>0, <1>1, <1>5, <1>6, CountUp
<1> QED BY <1>7 DEF L, h, at

\* A node hashed with its sibling is the node above it.
LEMMA SiblingJoins ==
  ASSUME NEW level, IsList(level), NEW index \in 0 .. Len(level) - 1
  PROVE  hashPair(level[index + 1], Sibling(level, index)) = NextLevel(level)[index \div 2 + 1]
<1> DEFINE k == index \div 2
<1>1. Len(level) \in Nat
  BY DEF IsList
<1>2. k + 1 \in 1 .. (Len(level) + 1) \div 2 /\ k \in Nat
  BY <1>1
<1>3. NextLevel(level)[k + 1] = hashPair(level[2 * (k + 1) - 1], Partner(level, k + 1))
  <2> HIDE DEF k
  <2> QED BY <1>2, NextLevelIs
<1>4. CASE index % 2 = 0
  <2>1. index = 2 * k /\ 2 * (k + 1) - 1 = index + 1 /\ 2 * (k + 1) = index + 2
    BY <1>1, <1>4
  <2>2. Sibling(level, index) = Partner(level, k + 1)
    <3> HIDE DEF k
    <3>1. Sibling(level, index) = IF index + 1 < Len(level) THEN level[index + 2] ELSE level[index + 1]
      BY <1>4 DEF Sibling
    <3>2. index + 1 < Len(level) <=> index + 2 <= Len(level)
      BY <1>1
    <3> QED BY <2>1, <3>1, <3>2 DEF Partner
  <2>3. 2 * (k + 1) - 1 = index + 1
    BY <2>1
  <2> HIDE DEF k
  <2>4. NextLevel(level)[k + 1] = hashPair(level[index + 1], Sibling(level, index))
    BY <1>3, <2>2, <2>3
  <2> QED BY <2>4 DEF k
<1>5. CASE index % 2 # 0
  <2>1. index = 2 * k + 1 /\ 2 * (k + 1) - 1 = index /\ 2 * (k + 1) = index + 1
    BY <1>1, <1>5
  <2> HIDE DEF k
  <2>2. Partner(level, k + 1) = level[index + 1]
    BY <1>1, <2>1 DEF Partner
  <2>3. Sibling(level, index) = level[index]
    BY <1>1, <1>5 DEF Sibling
  <2>4. NextLevel(level)[k + 1] = hashPair(level[index], level[index + 1])
    BY <1>3, <2>1, <2>2
  <2>5. \A a, b : hashPair(a, b) = hashPair(b, a)
    BY DEF hashPair
  <2> QED BY <2>3, <2>4, <2>5 DEF k
<1> QED BY <1>4, <1>5

\* A proof that was made of the levels leads from its leaf to their root.
LEMMA MadeProofVerifies ==
  ASSUME NEW leaves, IsList(leaves), NEW start \in 0 .. Len(leaves) - 1
  PROVE  /\ IsList(ProofFromLevels(start, leaves))
         /\ verify_proof(ProofFromLevels(start, leaves), RootOf(leaves), leaves[start + 1])
<1> DEFINE L == Levels(leaves)  h == Height(leaves)  at == IndexAt(start, h)
           p == ProofFromLevels(start, leaves)  leaf == leaves[start + 1]
           c == Computed(p, leaf)
           T == {n \in 0 .. h : c[n] = L[n][at[n] + 1]}
<1>0. Len(leaves) \in Nat /\ Len(leaves) >= 1
  BY DEF IsList
<1>1. h \in 0 .. Len(leaves) /\ h \in Nat /\ Len(L[h]) = 1
  BY <1>0, HeightIs
<1>2. L[0] = leaves /\ \A n \in 1 .. Len(leaves) : L[n] = NextLevel(L[n - 1])
  BY <1>0, LevelsStep
<1>3. at[0] = start /\ \A n \in 1 .. h : at[n] = at[n - 1] \div 2
  <2> HIDE DEF h
  <2> QED BY <1>1, IndexStep
<1>4. \A n \in 0 .. Len(leaves) : IsList(L[n])
  BY <1>0, LevelLengths
<1>5. \A n \in 0 .. h : at[n] \in 0 .. Len(L[n]) - 1
  BY IndexLies
<1>6. p = [n \in 1 .. h |-> Sibling(L[n - 1], at[n - 1])]
  BY DEF ProofFromLevels
<1> HIDE DEF L, h, at, p
<1>7. Len(p) = h /\ IsList(p)
  BY <1>1, <1>6 DEF IsList
<1>8. c[0] = leaf /\ \A n \in 1 .. h : c[n] = hashPair(c[n - 1], p[n])
  <2> HIDE DEF leaf
  <2> QED BY <1>1, <1>7, ComputedStep
<1> HIDE DEF c
<1>9. 0 \in T
  BY <1>1, <1>2, <1>3, <1>8
<1>10. ASSUME NEW n \in 0 .. h - 1, n \in T PROVE n + 1 \in T
  <2>1. L[n + 1] = NextLevel(L[n]) /\ IsList(L[n]) /\ at[n] \in 0 .. Len(L[n]) - 1
    BY <1>0, <1>1, <1>2, <1>4, <1>5
  <2>2. p[n + 1] = Sibling(L[n], at[n]) /\ at[n + 1] = at[n] \div 2
    BY <1>1, <1>3, <1>6
  <2>3. c[n + 1] = hashPair(L[n][at[n] + 1], Sibling(L[n], at[n]))
    BY <1>1, <1>8, <1>10, <2>2
  <2>4. hashPair(L[n][at[n] + 1], Sibling(L[n], at[n])) = NextLevel(L[n])[at[n] \div 2 + 1]
    BY <2>1, SiblingJoins
  <2> QED BY <1>1, <2>1, <2>2, <2>3, <2>4
<1>11. \A n \in 0 .. h : n \in T
  <2> HIDE DEF T
  <2> QED BY <1>1, <1>9, <1>10, CountUp
<1>12. c[h] = L[h][1]
  <2>0. h \in 0 .. h
    BY <1>1
  <2>1. at[h] \in 0 .. Len(L[h]) - 1 /\ c[h] = L[h][at[h] + 1]
    BY <1>5, <1>11, <2>0
  <2>2. at[h] \in 0 .. 1 - 1
    BY <1>1, <2>1
  <2>3. at[h] = 0 /\ at[h] + 1 = 1
    BY <2>2
  <2> QED BY <2>1, <2>3
<1> QED BY <1>7, <1>12 DEF verify_proof, RootOf, c, p, L, h

\* The hash of a pair tells its two from any others, and is not a leaf's.
LEMMA PairsDiffer ==
  /\ \A a, b, d, e : hashPair(a, b) = hashPair(d, e) => a \in {d, e}
  /\ \A a, b : hashPair(a, b)[1] # LEAF_PREFIX
<1>1. \A a, b : hashPair(a, b)[1] = 1 /\ hashPair(a, b)[2] = {a, b}
  BY DEF hashPair, NODE_PREFIX
<1>2. ASSUME NEW a, NEW b, NEW d, NEW e, hashPair(a, b) = hashPair(d, e) PROVE {a, b} = {d, e}
  <2>1. hashPair(a, b)[2] = hashPair(d, e)[2]
    BY <1>2
  <2>2. hashPair(a, b)[2] = {a, b} /\ hashPair(d, e)[2] = {d, e}
    BY DEF hashPair
  <2> QED BY <2>1, <2>2
<1> QED BY <1>1, <1>2 DEF LEAF_PREFIX

\* What leads to the root is a leaf of the levels, whatever it is hashed with on the way.
LEMMA OnlyLeavesVerify ==
  ASSUME NEW leaves, IsList(leaves), Len(leaves) >= 1, NEW proof, IsList(proof),
         NEW leaf, leaf[1] = LEAF_PREFIX, \A n \in 1 .. Len(leaves) : leaves[n][1] = LEAF_PREFIX,
         verify_proof(proof, RootOf(leaves), leaf)
  PROVE  \E n \in 1 .. Len(leaves) : leaf = leaves[n]
<1> DEFINE L == Levels(leaves)  h == Height(leaves)  m == Len(proof)  c == Computed(proof, leaf)
           N == IF m <= h THEN m ELSE h
           T == {k \in 0 .. N : \E n \in 1 .. Len(L[h - k]) : c[m - k] = L[h - k][n]}
<1>0. Len(leaves) \in Nat /\ m \in Nat
  BY DEF IsList
<1>1. h \in 0 .. Len(leaves) /\ h \in Nat /\ Len(L[h]) = 1
  BY <1>0, HeightIs
<1>2. L[0] = leaves /\ \A n \in 1 .. Len(leaves) : L[n] = NextLevel(L[n - 1])
  BY <1>0, LevelsStep
<1>3. \A n \in 0 .. Len(leaves) : IsList(L[n])
  BY <1>0, LevelLengths
<1>4. c[0] = leaf /\ \A n \in 1 .. m : c[n] = hashPair(c[n - 1], proof[n])
  BY <1>0, ComputedStep
<1>5. c[m] = L[h][1]
  BY DEF verify_proof, RootOf
<1> HIDE DEF L, h, m, c
<1>6. N \in Nat /\ N <= m /\ N <= h
  BY <1>0, <1>1
<1> HIDE DEF N
<1>7. 0 \in T
  BY <1>0, <1>1, <1>5, <1>6
\* The nodes above the leaves are pairs of those below.
<1>8. ASSUME NEW i \in 1 .. h, NEW n \in 1 .. Len(L[i])
      PROVE  \E a, b \in 1 .. Len(L[i - 1]) : L[i][n] = hashPair(L[i - 1][a], L[i - 1][b])
  <2> DEFINE below == L[i - 1]
  <2>1. L[i] = NextLevel(below) /\ IsList(below)
    BY <1>0, <1>1, <1>2, <1>3
  <2> HIDE DEF below
  <2>2. Len(below) \in Nat /\ Len(L[i]) = (Len(below) + 1) \div 2
    BY <2>1, NextLevelIs DEF IsList
  <2>3. L[i][n] = hashPair(below[2 * n - 1], Partner(below, n))
    BY <2>1, <2>2, NextLevelIs
  <2>4. 2 * n - 1 \in 1 .. Len(below)
    BY <2>2
  <2>5. \E b \in 1 .. Len(below) : Partner(below, n) = below[b]
    <3>1. CASE 2 * n <= Len(below)
      BY <2>2, <3>1 DEF Partner
    <3>2. CASE ~(2 * n <= Len(below))
      BY <2>4, <3>2 DEF Partner
    <3> QED BY <3>1, <3>2
  <2> QED BY <2>3, <2>4, <2>5 DEF below
<1>9. ASSUME NEW k \in 0 .. N - 1, k \in T PROVE k + 1 \in T
  <2>1. PICK n \in 1 .. Len(L[h - k]) : c[m - k] = L[h - k][n]
    BY <1>9
  <2>2. h - k \in 1 .. h /\ m - k \in 1 .. m
    BY <1>0, <1>1, <1>6
  <2>3. PICK a, b \in 1 .. Len(L[h - k - 1]) :
               L[h - k][n] = hashPair(L[h - k - 1][a], L[h - k - 1][b])
    BY <1>8, <2>2
  <2>4. c[m - k] = hashPair(c[m - k - 1], proof[m - k])
    BY <1>4, <2>2
  <2>5. c[m - k - 1] \in {L[h - k - 1][a], L[h - k - 1][b]}
    BY <2>1, <2>3, <2>4, PairsDiffer
  <2>6. h - (k + 1) = h - k - 1 /\ m - (k + 1) = m - k - 1 /\ k + 1 \in 0 .. N
    BY <1>0, <1>1, <1>6
  <2> QED BY <2>5, <2>6
<1>10. N \in T
  <2>1. \A k \in 0 .. N : k \in T
    <3> HIDE DEF T
    <3> QED BY <1>6, <1>7, <1>9, CountUp
  <2> QED BY <1>6, <2>1
<1>11. PICK n \in 1 .. Len(L[h - N]) : c[m - N] = L[h - N][n]
  BY <1>10
\* A pair is not a leaf, so both ends are reached at once.
<1>12. m = h
  <2>1. CASE m < h
    <3>1. N = m /\ h - m \in 1 .. h
      BY <1>0, <1>1, <2>1 DEF N
    <3>2. leaf = L[h - m][n] /\ n \in 1 .. Len(L[h - m])
      BY <1>0, <1>4, <1>11, <3>1
    <3>3. PICK a, b \in 1 .. Len(L[h - m - 1]) :
                 L[h - m][n] = hashPair(L[h - m - 1][a], L[h - m - 1][b])
      BY <1>8, <3>1, <3>2
    <3> QED BY <3>2, <3>3, PairsDiffer
  <2>2. CASE m > h
    <3>1. N = h /\ m - h \in 1 .. m
      BY <1>0, <1>1, <2>2 DEF N
    <3>2. c[m - h] = leaves[n] /\ n \in 1 .. Len(leaves)
      BY <1>1, <1>2, <1>11, <3>1
    <3>3. c[m - h] = hashPair(c[m - h - 1], proof[m - h])
      BY <1>4, <3>1
    <3>4. c[m - h][1] # LEAF_PREFIX
      BY <3>3, PairsDiffer
    <3> QED BY <3>2, <3>4
  <2> QED BY <1>0, <1>1, <2>1, <2>2
<1>13. N = h /\ h - N = 0 /\ m - N = 0
  BY <1>1, <1>12 DEF N
<1> QED BY <1>2, <1>4, <1>11, <1>13

\* What has led from a leaf is not the root that no tree has.
LEMMA VerifiedIsNotZero ==
  ASSUME NEW proof, IsList(proof), NEW root, NEW leaf, leaf # ZeroRoot, verify_proof(proof, root, leaf)
  PROVE  root # ZeroRoot
<1>1. Len(proof) \in Nat
  BY DEF IsList
<1>2. CASE Len(proof) = 0
  <2>1. Computed(proof, leaf)[0] = leaf
    BY <1>1, ComputedStep
  <2> QED BY <1>2, <2>1 DEF verify_proof
<1>3. CASE Len(proof) # 0
  <2>1. root = hashPair(Computed(proof, leaf)[Len(proof) - 1], proof[Len(proof)])
    BY <1>1, <1>3, ComputedStep DEF verify_proof
  <2>2. \A a, b : hashPair(a, b) # ZeroRoot
    BY DEF hashPair, ZeroRoot
  <2> QED BY <2>1, <2>2
<1> QED BY <1>2, <1>3

-----------------------------------------------------------------------------
(* The order of the leaves. *)

\* A share's place is the number of those before it; no two share a place.
LEMMA Places ==
  ASSUME TreeAssumption, NEW shares \in Snapshots
  PROVE  /\ IsFiniteSet(shares) /\ Cardinality(shares) \in Nat
         /\ \A s \in shares : Cardinality(Before(shares, s)) \in 0 .. Cardinality(shares) - 1
         /\ \A s, t \in shares :
              Cardinality(Before(shares, s)) = Cardinality(Before(shares, t)) => s = t
<1>1. IsFiniteSet(shares) /\ shares \subseteq Shares /\ Cardinality(shares) \in Nat
  BY FS_CardinalityType DEF TreeAssumption
<1>2. \A s \in shares : HashOrder[s] \in Nat
  BY <1>1 DEF TreeAssumption
<1>3. ASSUME NEW s \in shares PROVE Cardinality(Before(shares, s)) \in 0 .. Cardinality(shares) - 1
  <2>1. Before(shares, s) \in SUBSET (shares \ {s})
    BY <1>2 DEF Before
  <2>2. IsFiniteSet(shares \ {s}) /\ Cardinality(shares \ {s}) = Cardinality(shares) - 1
    BY <1>1, FS_RemoveElement
  <2>3. IsFiniteSet(Before(shares, s)) /\ Cardinality(Before(shares, s)) <= Cardinality(shares \ {s})
    BY <2>1, <2>2, FS_Subset
  <2>4. Cardinality(Before(shares, s)) \in Nat
    BY <2>3, FS_CardinalityType
  <2> QED BY <1>1, <2>2, <2>3, <2>4
<1>4. ASSUME NEW s \in shares, NEW t \in shares, HashOrder[s] < HashOrder[t]
      PROVE  Cardinality(Before(shares, s)) # Cardinality(Before(shares, t))
  <2>1. Before(shares, s) \in SUBSET Before(shares, t) /\ s \in Before(shares, t)
    BY <1>2, <1>4 DEF Before
  <2>2. s \notin Before(shares, s)
    BY <1>2 DEF Before
  <2>3. IsFiniteSet(Before(shares, t))
    BY <1>1, FS_Subset DEF Before
  <2> QED BY <2>1, <2>2, <2>3, FS_Subset
<1>5. ASSUME NEW s \in shares, NEW t \in shares,
             Cardinality(Before(shares, s)) = Cardinality(Before(shares, t))
      PROVE  s = t
  <2>1. HashOrder[s] = HashOrder[t]
    BY <1>2, <1>4, <1>5
  <2> QED BY <1>1, <2>1 DEF TreeAssumption
<1> QED BY <1>1, <1>3, <1>5

\* The sorted list holds each share at its place, and nothing else.
LEMMA SortedHoldsAll ==
  ASSUME TreeAssumption, NEW shares \in Snapshots
  PROVE  /\ \A s \in shares : SortedShares(shares)[Cardinality(Before(shares, s)) + 1] = s
         /\ \A n \in 1 .. Cardinality(shares) : SortedShares(shares)[n] \in shares
<1> DEFINE N == Cardinality(shares)
           place == [s \in shares |-> Cardinality(Before(shares, s))]
<1>1. /\ IsFiniteSet(shares) /\ N \in Nat /\ place \in [shares -> 0 .. N - 1]
      /\ \A s, t \in shares : place[s] = place[t] => s = t
  BY Places
<1>2. \A n \in 1 .. N : SortedShares(shares)[n] = CHOOSE s \in shares : place[s] = n - 1
  BY DEF SortedShares
<1> HIDE DEF N, place
<1>3. ASSUME NEW s \in shares PROVE SortedShares(shares)[place[s] + 1] = s
  <2>1. place[s] \in 0 .. N - 1 /\ place[s] + 1 \in 1 .. N /\ (place[s] + 1) - 1 = place[s]
    BY <1>1
  <2>2. SortedShares(shares)[place[s] + 1] = CHOOSE t \in shares : place[t] = place[s]
    BY <1>2, <2>1
  <2> QED BY <1>1, <2>2
<1>4. IsFiniteSet(0 .. N - 1) /\ Cardinality(0 .. N - 1) = N
  <2>1. \A a, b \in Int : IsFiniteSet(a .. b) /\ Cardinality(a .. b) = IF a > b THEN 0 ELSE b - a + 1
    BY FS_Interval
  <2>2. PICK last \in Int : last = N - 1
    BY <1>1
  <2>3. IF 0 > last THEN N = 0 ELSE last - 0 + 1 = N
    BY <1>1, <2>2
  <2>4. IsFiniteSet(0 .. last) /\ Cardinality(0 .. last) = N
    BY <2>1, <2>3
  <2> QED BY <2>2, <2>4
<1>5. place \in Injection(shares, 0 .. N - 1)
  BY <1>1 DEF Injection, IsInjective
<1>6. place \in Surjection(shares, 0 .. N - 1)
  BY <1>1, <1>4, <1>5, FS_Injection DEF N
<1>7. ASSUME NEW n \in 1 .. N PROVE SortedShares(shares)[n] \in shares
  <2>1. n - 1 \in 0 .. N - 1
    BY <1>1
  <2>2. \E s \in shares : place[s] = n - 1
    BY <1>6, <2>1 DEF Surjection
  <2> QED BY <1>2, <2>2
<1> QED BY <1>3, <1>7 DEF N, place

LEMMA SortedLeavesAre ==
  ASSUME TreeAssumption, NEW shares \in Snapshots
  PROVE  /\ IsList(SortedLeaves(shares)) /\ Len(SortedLeaves(shares)) = Cardinality(shares)
         /\ \A n \in 1 .. Cardinality(shares) :
              /\ SortedLeaves(shares)[n] = LeafOf(SortedShares(shares)[n])
              /\ SortedLeaves(shares)[n][1] = LEAF_PREFIX
<1> DEFINE N == Cardinality(shares)
<1>1. N \in Nat
  BY Places
<1>2. SortedLeaves(shares) = [n \in 1 .. N |-> LeafOf(SortedShares(shares)[n])]
  BY DEF SortedLeaves
<1>3. \A s : LeafOf(s)[1] = LEAF_PREFIX
  BY DEF LeafOf
<1> HIDE DEF N
<1>4. Len(SortedLeaves(shares)) = N
  BY <1>1, <1>2
<1>5. IsList(SortedLeaves(shares))
  BY <1>1, <1>2, <1>4 DEF IsList
<1>6. \A n \in 1 .. N : SortedLeaves(shares)[n] = LeafOf(SortedShares(shares)[n])
  BY <1>2
<1> QED BY <1>3, <1>4, <1>5, <1>6 DEF N

-----------------------------------------------------------------------------
(* The trees. *)

LEMMA TreeOf ==
  ASSUME NEW shares \in Snapshots, shares # {}
  PROVE  /\ Trees[shares].root = RootOf(SortedLeaves(shares))
         /\ DOMAIN Trees[shares].proofs = {s[1] : s \in shares}
         /\ \A w \in {s[1] : s \in shares} :
              Trees[shares].proofs[w] =
                ProofFromLevels(Cardinality(Before(shares, CHOOSE s \in shares : s[1] = w)),
                                SortedLeaves(shares))
BY DEF Trees, generateMerkleTree

\* The program accepts, for every share that a tree was built of, the proof that the
\* server took from that tree: levels of odd length included, where the last node is its
\* own sibling in the builder, in the proof and in the program.
THEOREM MembersVerify ==
  ASSUME TreeAssumption, NEW shares \in Snapshots, NEW share \in shares
  PROVE  /\ share[1] \in DOMAIN Trees[shares].proofs
         /\ IsList(Trees[shares].proofs[share[1]])
         /\ verify_proof(Trees[shares].proofs[share[1]], Trees[shares].root, LeafOf(share))
<1> DEFINE at == Cardinality(Before(shares, share))
<1>1. share[1] \in {s[1] : s \in shares} /\ shares # {}
  OBVIOUS
<1>2. (CHOOSE s \in shares : s[1] = share[1]) = share
  BY DEF TreeAssumption
<1>3. Trees[shares].proofs[share[1]] = ProofFromLevels(at, SortedLeaves(shares))
  BY <1>1, <1>2, TreeOf
<1>4. at \in 0 .. Cardinality(shares) - 1 /\ Cardinality(shares) \in Nat
  BY Places
<1>5. SortedShares(shares)[at + 1] = share
  BY SortedHoldsAll
<1> HIDE DEF at
<1>6. at \in 0 .. Len(SortedLeaves(shares)) - 1 /\ IsList(SortedLeaves(shares))
  BY <1>4, SortedLeavesAre
<1>7. SortedLeaves(shares)[at + 1] = LeafOf(share)
  <2>1. at + 1 \in 1 .. Cardinality(shares)
    BY <1>4
  <2> QED BY <1>5, <2>1, SortedLeavesAre
<1>8. /\ IsList(ProofFromLevels(at, SortedLeaves(shares)))
      /\ verify_proof(ProofFromLevels(at, SortedLeaves(shares)), RootOf(SortedLeaves(shares)),
                      SortedLeaves(shares)[at + 1])
  BY <1>6, MadeProofVerifies
<1> QED BY <1>1, <1>3, <1>7, <1>8, TreeOf

\* The program accepts no list of hashes whatever for a wallet and an allowance that the
\* tree was not built of: a node is no leaf, for the one byte that comes first.
THEOREM OnlyMembersVerify ==
  ASSUME TreeAssumption, NEW shares \in Snapshots, shares # {},
         NEW share \in Shares, NEW proof, IsList(proof),
         verify_proof(proof, Trees[shares].root, LeafOf(share))
  PROVE  share \in shares
<1> DEFINE leaves == SortedLeaves(shares)  leaf == LeafOf(share)
<1>1. IsList(leaves) /\ Len(leaves) = Cardinality(shares) /\ Len(leaves) >= 1
  <2>1. Cardinality(shares) \in Nat /\ Cardinality(shares) # 0
    BY Places, FS_EmptySet
  <2> QED BY <2>1, SortedLeavesAre
<1>2. leaf[1] = LEAF_PREFIX /\ \A n \in 1 .. Len(leaves) : leaves[n][1] = LEAF_PREFIX
  BY <1>1, SortedLeavesAre DEF LeafOf
<1>3. verify_proof(proof, RootOf(leaves), leaf)
  BY TreeOf
<1> HIDE DEF leaves, leaf
<1>4. PICK n \in 1 .. Len(leaves) : leaf = leaves[n]
  BY <1>1, <1>2, <1>3, OnlyLeavesVerify
<1>5. LeafOf(share) = LeafOf(SortedShares(shares)[n]) /\ SortedShares(shares)[n] \in shares
  BY <1>1, <1>4, SortedLeavesAre, SortedHoldsAll DEF leaves, leaf
<1>6. share = SortedShares(shares)[n]
  <2> DEFINE other == SortedShares(shares)[n]
  <2>1. other \in Shares
    BY <1>5 DEF TreeAssumption
  <2> HIDE DEF other
  <2>2. share = <<share[1], share[2]>> /\ other = <<other[1], other[2]>>
    BY <2>1 DEF TreeAssumption
  <2>3. LeafOf(share)[2] = LeafOf(other)[2] /\ LeafOf(share)[3] = LeafOf(other)[3]
    BY <1>5 DEF other
  <2>4. share[1] = other[1] /\ share[2] = other[2]
    BY <2>3 DEF LeafOf
  <2>5. share = other
    BY <2>2, <2>4
  <2> QED BY <2>5 DEF other
<1> QED BY <1>5, <1>6

\* No tree of a share has the root that stands for none.
LEMMA RootIsNotZero ==
  ASSUME TreeAssumption, NEW shares \in Snapshots, NEW share \in shares
  PROVE  Trees[shares].root # ZeroRoot
<1>1. LeafOf(share) # ZeroRoot
  BY DEF LeafOf, ZeroRoot
<1> QED BY <1>1, MembersVerify, VerifiedIsNotZero

-----------------------------------------------------------------------------
(* The vault's root and the proofs in hand. *)

\* The root is the published tree's; what a client holds is of the tree it was taken from.
TreeInv ==
  /\ rooted \in Snapshots \cup {{}}
  /\ rooted = {} => merkleRoot = ZeroRoot
  /\ rooted # {} => merkleRoot = Trees[rooted].root
  /\ \A tx \in handed :
       /\ tx.share \in Shares /\ tx.shares \in Snapshots /\ tx.shares # {}
       /\ tx.share[1] \in {s[1] : s \in tx.shares}
       /\ tx.proof = Trees[tx.shares].proofs[tx.share[1]] /\ tx.root = Trees[tx.shares].root

LEMMA TreeInvStarts == TreeInit => TreeInv
BY DEF TreeInit, TreeInv

LEMMA TreeInvStep == TreeAssumption /\ TreeInv /\ [TreeNext]_treeVars => TreeInv'
<1> SUFFICES ASSUME TreeAssumption, TreeInv, [TreeNext]_treeVars PROVE TreeInv'
  OBVIOUS
<1> USE DEF TreeInv
<1>1. ASSUME NEW shares \in Snapshots, NEW share \in Shares, HandOut(shares, share) PROVE TreeInv'
  <2>1. shares # {}
    <3>1. share[1] \in DOMAIN Trees[shares].proofs
      BY <1>1 DEF HandOut
    <3>2. shares = {} => DOMAIN Trees[shares].proofs = {}
      BY DEF Trees, generateMerkleTree
    <3> QED BY <3>1, <3>2
  <2>2. share[1] \in {s[1] : s \in shares}
    BY <1>1, <2>1, TreeOf DEF HandOut
  <2> QED BY <1>1, <2>1, <2>2 DEF HandOut
<1>2. CASE PublishRoot
  BY <1>2 DEF PublishRoot
<1>3. CASE TxGone
  BY <1>3 DEF TxGone
<1>4. CASE UNCHANGED treeVars
  BY <1>4 DEF treeVars
<1> QED BY <1>1, <1>2, <1>3, <1>4 DEF TreeNext

\* What is held and published is what the theorems above are about.
LEMMA TreeInvVerifies == TreeAssumption /\ TreeInv => TreeTypeOK /\ ProofsVerify
<1> SUFFICES ASSUME TreeAssumption, TreeInv PROVE TreeTypeOK /\ ProofsVerify
  OBVIOUS
<1> USE DEF TreeInv
<1>1. ASSUME NEW tx \in handed PROVE IsList(tx.proof)
  <2>1. PICK s \in tx.shares : s[1] = tx.share[1]
    OBVIOUS
  <2> QED BY <2>1, MembersVerify
<1>2. ASSUME NEW tx \in handed, ProofAccepted(tx) PROVE tx.share \in rooted
  <2>1. rooted # {} /\ verify_proof(tx.proof, Trees[rooted].root, LeafOf(tx.share))
    BY <1>2 DEF ProofAccepted
  <2> QED BY <1>1, <2>1, OnlyMembersVerify
<1>3. ASSUME NEW tx \in handed, tx.shares = rooted, tx.share \in rooted PROVE ProofAccepted(tx)
  <2>1. merkleRoot = Trees[rooted].root /\ rooted \in Snapshots
    BY <1>3
  <2> QED BY <1>3, <2>1, MembersVerify, RootIsNotZero DEF ProofAccepted
<1> QED BY <1>1, <1>2, <1>3 DEF TreeTypeOK, ProofsVerify

\* Whatever is handed out, published and kept too long: the vault's check is membership
\* in the published tree, for any number of users and any order of their hashes.
THEOREM ProofsStayVerified == TreeSpec => [](TreeTypeOK /\ ProofsVerify)
<1>1. TreeInit => TreeInv
  BY TreeInvStarts
<1>2. TreeInv /\ [TreeNext]_treeVars => TreeInv'
  BY TreeAssumption, TreeInvStep
<1>3. TreeInv => TreeTypeOK /\ ProofsVerify
  BY TreeAssumption, TreeInvVerifies
<1> QED BY <1>1, <1>2, <1>3, PTL DEF TreeSpec
=============================================================================
