---------------------------- MODULE DeployProofs ----------------------------
(***************************************************************************)
(* Proofs about deployment, for any users, agents, hexes, signatures and   *)
(* requests at once.                                                       *)
(***************************************************************************)
EXTENDS Deployment, FiniteSetTheorems, TLAPS

\* The database and the handlers start with their types.
LEMMA TypeStart == ASSUME Init PROVE TypeOK
<1> USE DeployAssumption DEF Init
<1>1. /\ owner \in [Agents -> Users \cup {Null}] /\ deployTxSig \in [Agents -> Sigs \cup {Null}]
      /\ hexId \in [Agents -> Hexes \cup {Null}] /\ told \in [Agents -> Hexes \cup {Null}]
      /\ offered \in [Sigs -> Users \cup {Null}]
  OBVIOUS
<1>2. agentIndex \in [Agents -> 0 .. MaxIndex] /\ mintAddress \in [Agents -> 0 .. MaxIndex]
  OBVIOUS
<1>3. /\ pc \in [Handlers -> Steps] /\ again \in [Handlers -> BOOLEAN]
      /\ user \in [Handlers -> Users \cup {Null}] /\ sig \in [Handlers -> Sigs \cup {Null}]
      /\ agent \in [Handlers -> Agents \cup {Null}] /\ index \in [Handlers -> 0 .. MaxIndex]
      /\ spot \in [Handlers -> Hexes \cup {Null}]
  BY DEF Steps
<1>4. \A a \in Agents : ~Exists(a)
  BY DEF Exists
<1>5. \A k \in Handlers : pc[k] = "idle" /\ pc[k] \notin AtWork
  BY DEF AtWork
<1>6. restarts \in 0 .. MaxRestarts /\ fakeMode \in BOOLEAN /\ trouble \in BOOLEAN
  <2>1. restarts \in 0 .. MaxRestarts
    OBVIOUS
  <2>2. fakeMode \in BOOLEAN
    BY Zenon
  <2>3. trouble \in BOOLEAN
    BY Zenon
  <2> QED BY <2>1, <2>2, <2>3
<1>7. /\ miningState \subseteq Agents /\ cached \subseteq Agents /\ barren \subseteq Hexes
      /\ confirmed \subseteq Sigs /\ turnedAway \subseteq Agents
  OBVIOUS
<1> HIDE DEF Init
<1>8. \A a \in Agents : Exists(a) => agentIndex[a] >= 1 /\ deployTxSig[a] \in Sigs
  BY <1>4
<1>9. \A k \in Handlers :
        /\ pc[k] # "idle" => user[k] \in Users /\ sig[k] \in Sigs
        /\ pc[k] \in AtWork => agent[k] \in Agents
        /\ pc[k] \in {"create"} => index[k] >= 1
  BY <1>5
<1> QED BY <1>1, <1>2, <1>3, <1>6, <1>7, <1>8, <1>9, Zenon DEF TypeOK

\* Every step keeps the types.
LEMMA TypeStep == ASSUME TypeOK, [Next]_vars PROVE TypeOK'
<1> USE DeployAssumption
<1> USE DEF rows, money, request, history, process
<1>1. CASE UNCHANGED vars
  BY <1>1 DEF TypeOK, vars, Exists
<1>2. ASSUME NEW u \in Users, NEW s \in Sigs, Deploy(u, s) PROVE TypeOK'
  BY <1>2 DEF Deploy, TypeOK, Exists
<1>3. ASSUME NEW s \in Sigs, Send(s) PROVE TypeOK'
  BY <1>3 DEF Send, TypeOK, Exists
<1>4. ASSUME NEW h \in Hexes, Exhaust(h) PROVE TypeOK'
  BY <1>4 DEF Exhaust, TypeOK, Exists
<1>5. ASSUME NEW k \in Handlers, HandlerStep(k) PROVE TypeOK'
  <2>1. ASSUME NEW u \in Users, NEW s \in Sigs, Confirm(k, u, s) PROVE TypeOK'
    BY <2>1 DEF Confirm, Goto, TypeOK, Exists, Steps, AtWork
  <2>2. CASE VerifyDeployPayment(k)
    BY <2>2 DEF VerifyDeployPayment, Goto, TypeOK, Exists, Steps, AtWork
  <2>3. CASE CountAgents(k)
    BY <2>3 DEF CountAgents, Goto, TypeOK, Exists, Steps, AtWork
  <2>4. CASE ReadIndex(k)
    BY <2>4 DEF ReadIndex, Goto, TypeOK, Exists, Steps, AtWork
  <2>5. ASSUME NEW a \in Agents, CreateAgent(k, a) PROVE TypeOK'
    BY <2>5 DEF CreateAgent, Goto, TypeOK, Exists, Steps, AtWork
  <2>6. CASE GiveUp(k)
    BY <2>6 DEF GiveUp, Finish, TypeOK, Exists, Steps, AtWork
  <2>7. CASE Mint(k)
    BY <2>7 DEF Mint, Goto, TypeOK, Exists, Steps, AtWork
  <2>8. CASE RecordMint(k)
    BY <2>8 DEF RecordMint, Goto, TypeOK, Exists, Steps, AtWork
  <2>9. CASE CatchMintError(k)
    BY <2>9 DEF CatchMintError, TypeOK, Exists, Steps, AtWork
  <2>10. CASE FindHex(k)
    BY <2>10 DEF FindHex, Goto, HexesWithRoom, TypeOK, Exists, Steps, AtWork
  <2>11. CASE AssignHex(k)
    BY <2>11 DEF AssignHex, Goto, TypeOK, Exists, Steps, AtWork
  <2>12. CASE EnsureMiningState(k)
    <3>1. agent[k] \in Agents /\ pc[k] = "state"
      BY <2>12 DEF EnsureMiningState, TypeOK, AtWork
    <3>2. CASE ~IsFake(sig[k])
      <4>1. /\ told' = [told EXCEPT ![agent[k]] = spot[k]]
            /\ miningState' = miningState \cup {agent[k]} /\ Finish(k)
            /\ UNCHANGED <<owner, deployTxSig, agentIndex, mintAddress, hexId, cached, barren,
                           money, turnedAway, trouble, process>>
        BY <2>12, <3>2 DEF EnsureMiningState, Answer
      <4> QED BY <3>1, <4>1 DEF Finish, TypeOK, Exists, Steps, AtWork
    <3>3. CASE IsFake(sig[k])
      BY <2>12, <3>1, <3>3 DEF EnsureMiningState, Goto, TypeOK, Exists, Steps, AtWork
    <3> QED BY <3>2, <3>3
  <2>13. CASE NoRoom(k)
    <3>1. agent[k] \in Agents /\ pc[k] = "find"
      BY <2>13 DEF NoRoom, TypeOK, AtWork
    <3>2. CASE ~IsFake(sig[k])
      <4>1. /\ turnedAway' = turnedAway \cup {agent[k]} /\ Finish(k)
            /\ UNCHANGED <<rows, cached, barren, money, told, trouble, process>>
        BY <2>13, <3>2 DEF NoRoom
      <4> QED BY <3>1, <4>1 DEF Finish, TypeOK, Exists, Steps, AtWork
    <3>3. CASE IsFake(sig[k])
      BY <2>13, <3>1, <3>3 DEF NoRoom, Goto, TypeOK, Exists, Steps, AtWork
    <3> QED BY <3>2, <3>3
  <2>14. CASE DeleteAgent(k)
    BY <2>14 DEF DeleteAgent, Finish, TypeOK, Exists, Steps, AtWork
  <2>15. CASE CacheAgent(k)
    BY <2>15 DEF CacheAgent, Answer, Finish, TypeOK, Exists, Steps, AtWork
  <2>16. CASE RetryPlacement(k)
    BY <2>16 DEF RetryPlacement, TypeOK, Exists, Steps, AtWork
  <2>17. CASE BreakOff(k)
    BY <2>17 DEF BreakOff, Finish, TypeOK, Exists, Steps, AtWork
  <2> QED BY <1>5, <2>1, <2>2, <2>3, <2>4, <2>5, <2>6, <2>7, <2>8, <2>9, <2>10, <2>11,
             <2>12, <2>13, <2>14, <2>15, <2>16, <2>17 DEF HandlerStep
<1>6. CASE Restart
  BY <1>6 DEF Restart, TypeOK, Exists, Steps, AtWork
<1> QED BY <1>1, <1>2, <1>3, <1>4, <1>5, <1>6 DEF Next

\* Every column and every handler variable keeps its type, and a row its index.
THEOREM DeployTypeCorrect == Spec => []TypeOK
BY TypeStart, TypeStep, PTL DEF Spec

-----------------------------------------------------------------------------
(* The cap.  A user's agents together with the confirmations that have      *)
(* counted them and not inserted yet stay within the cap and the overrun.   *)

Counted(u) == {k \in Handlers : pc[k] \in {"index", "create"} /\ user[k] = u}

OverrunInv ==
  \A u \in Users :
    Cardinality(AgentsOf(u)) + Cardinality(Counted(u))
      <= MAX_AGENTS_PER_USER - 1 + Cardinality(Handlers)

\* The sets counted are finite.
LEMMA Countable ==
  ASSUME NEW u
  PROVE  /\ IsFiniteSet(AgentsOf(u)) /\ Cardinality(AgentsOf(u)) \in Nat
         /\ IsFiniteSet(Counted(u)) /\ Cardinality(Counted(u)) \in Nat
         /\ Cardinality(Counted(u)) <= Cardinality(Handlers)
         /\ Cardinality(Handlers) \in Nat
<1>1. AgentsOf(u) \subseteq Agents /\ Counted(u) \subseteq Handlers
  BY DEF AgentsOf, Counted
<1>2. IsFiniteSet(AgentsOf(u)) /\ IsFiniteSet(Counted(u))
  BY <1>1, DeployAssumption, FS_Subset
<1>3. Cardinality(Counted(u)) <= Cardinality(Handlers)
  BY <1>1, DeployAssumption, FS_Subset
<1> QED BY <1>2, <1>3, DeployAssumption, FS_CardinalityType

\* A step that adds no agent of the user and no counted confirmation keeps the bound.
LEMMA NothingAdded ==
  ASSUME NEW u \in Users, AgentsOf(u)' \subseteq AgentsOf(u), Counted(u)' \subseteq Counted(u),
         OverrunInv
  PROVE  Cardinality(AgentsOf(u)') + Cardinality(Counted(u)')
           <= MAX_AGENTS_PER_USER - 1 + Cardinality(Handlers)
<1>1. Cardinality(AgentsOf(u)') <= Cardinality(AgentsOf(u)) /\ Cardinality(AgentsOf(u)') \in Nat
  BY Countable, FS_Subset, FS_CardinalityType
<1>2. Cardinality(Counted(u)') <= Cardinality(Counted(u)) /\ Cardinality(Counted(u)') \in Nat
  BY Countable, FS_Subset, FS_CardinalityType
<1> QED BY <1>1, <1>2, Countable, DeployAssumption DEF OverrunInv

\* Only the count and the insert matter for the bound.
LEMMA OtherSteps ==
  ASSUME TypeOK, [Next]_vars,
         ~\E k \in Handlers : CountAgents(k) \/ \E a \in Agents : CreateAgent(k, a),
         NEW u \in Users
  PROVE  AgentsOf(u)' \subseteq AgentsOf(u) /\ Counted(u)' \subseteq Counted(u)
<1> USE DeployAssumption
<1> USE DEF rows, money, request, history, process, AgentsOf, Counted
<1>1. CASE UNCHANGED vars
  BY <1>1 DEF vars
<1>2. ASSUME NEW v \in Users, NEW s \in Sigs, Deploy(v, s) PROVE UNCHANGED <<owner, pc, user>>
  BY <1>2 DEF Deploy
<1>3. ASSUME NEW s \in Sigs, Send(s) PROVE UNCHANGED <<owner, pc, user>>
  BY <1>3 DEF Send
<1>4. ASSUME NEW h \in Hexes, Exhaust(h) PROVE UNCHANGED <<owner, pc, user>>
  BY <1>4 DEF Exhaust
<1>5. ASSUME NEW k \in Handlers, HandlerStep(k)
      PROVE  AgentsOf(u)' \subseteq AgentsOf(u) /\ Counted(u)' \subseteq Counted(u)
  <2> USE DEF TypeOK
  <2>1. ASSUME NEW v \in Users, NEW s \in Sigs, Confirm(k, v, s)
        PROVE  AgentsOf(u)' \subseteq AgentsOf(u) /\ Counted(u)' \subseteq Counted(u)
    BY <2>1 DEF Confirm, Goto
  <2>2. CASE VerifyDeployPayment(k)
    BY <2>2 DEF VerifyDeployPayment, Goto
  <2>4. CASE ReadIndex(k)
    BY <2>4 DEF ReadIndex, Goto
  <2>6. CASE GiveUp(k)
    BY <2>6 DEF GiveUp, Finish
  <2>7. CASE Mint(k)
    BY <2>7 DEF Mint, Goto
  <2>8. CASE RecordMint(k)
    BY <2>8 DEF RecordMint, Goto
  <2>9. CASE CatchMintError(k)
    BY <2>9 DEF CatchMintError
  <2>10. CASE FindHex(k)
    BY <2>10 DEF FindHex, Goto
  <2>11. CASE AssignHex(k)
    BY <2>11 DEF AssignHex, Goto
  <2>12. CASE EnsureMiningState(k)
    BY <2>12 DEF EnsureMiningState, Goto, Finish
  <2>13. CASE NoRoom(k)
    BY <2>13 DEF NoRoom, Goto, Finish
  <2>14. CASE DeleteAgent(k)
    BY <2>14 DEF DeleteAgent, Finish
  <2>15. CASE CacheAgent(k)
    BY <2>15 DEF CacheAgent, Finish
  <2>16. CASE RetryPlacement(k)
    BY <2>16 DEF RetryPlacement
  <2>17. CASE BreakOff(k)
    BY <2>17 DEF BreakOff, Finish
  <2> QED BY <1>5, <2>1, <2>2, <2>4, <2>6, <2>7, <2>8, <2>9, <2>10, <2>11, <2>12, <2>13,
             <2>14, <2>15, <2>16, <2>17 DEF HandlerStep
<1>6. CASE Restart
  BY <1>6 DEF Restart
<1> QED BY <1>1, <1>2, <1>3, <1>4, <1>5, <1>6 DEF Next

\* The bound holds at the start.
LEMMA OverrunStart == ASSUME Init PROVE OverrunInv
<1> SUFFICES ASSUME NEW u \in Users
             PROVE  Cardinality(AgentsOf(u)) + Cardinality(Counted(u))
                      <= MAX_AGENTS_PER_USER - 1 + Cardinality(Handlers)
  BY DEF OverrunInv
<1>1. AgentsOf(u) = {}
  BY DeployAssumption DEF Init, AgentsOf
<1> QED BY <1>1, Countable, FS_EmptySet, DeployAssumption

\* Every step keeps the bound.
LEMMA OverrunStep == ASSUME TypeOK, OverrunInv, [Next]_vars PROVE OverrunInv'
<1> SUFFICES ASSUME NEW u \in Users
             PROVE  Cardinality(AgentsOf(u)') + Cardinality(Counted(u)')
                      <= MAX_AGENTS_PER_USER - 1 + Cardinality(Handlers)
  BY DEF OverrunInv
<1>1. ASSUME NEW k \in Handlers, CountAgents(k)
      PROVE  Cardinality(AgentsOf(u)') + Cardinality(Counted(u)')
               <= MAX_AGENTS_PER_USER - 1 + Cardinality(Handlers)
  <2>1. AgentsOf(u)' = AgentsOf(u)
    BY <1>1 DEF CountAgents, AgentsOf, rows
  <2>2. CASE user[k] = u
    <3>1. Cardinality(AgentsOf(u)) < MAX_AGENTS_PER_USER
      BY <1>1, <2>2 DEF CountAgents
    <3>2. Cardinality(Counted(u)') <= Cardinality(Handlers) /\ Cardinality(Counted(u)') \in Nat
      <4>1. Counted(u)' \subseteq Handlers
        BY DEF Counted
      <4> QED BY <4>1, DeployAssumption, FS_Subset, FS_CardinalityType
    <3> QED BY <2>1, <3>1, <3>2, Countable, DeployAssumption
  <2>3. CASE user[k] # u
    <3>1. Counted(u)' \subseteq Counted(u)
      BY <1>1, <2>3 DEF CountAgents, Goto, Counted, request, TypeOK
    <3> QED BY <2>1, <3>1, NothingAdded
  <2> QED BY <2>2, <2>3
<1>2. ASSUME NEW k \in Handlers, NEW a \in Agents, CreateAgent(k, a)
      PROVE  Cardinality(AgentsOf(u)') + Cardinality(Counted(u)')
               <= MAX_AGENTS_PER_USER - 1 + Cardinality(Handlers)
  <2>1. CASE user[k] = u
    <3>1. k \in Counted(u) /\ Counted(u)' \subseteq Counted(u) \ {k}
      BY <1>2, <2>1 DEF CreateAgent, Goto, Counted, TypeOK, IsFake
    <3>2. a \notin AgentsOf(u) /\ AgentsOf(u)' = AgentsOf(u) \cup {a}
      BY <1>2, <2>1, DeployAssumption DEF CreateAgent, AgentsOf, Exists, TypeOK
    <3>3. Cardinality(AgentsOf(u)') = Cardinality(AgentsOf(u)) + 1
      BY <3>2, Countable, FS_AddElement
    <3>4. /\ Cardinality(Counted(u) \ {k}) = Cardinality(Counted(u)) - 1
          /\ IsFiniteSet(Counted(u) \ {k})
      BY <3>1, Countable, FS_RemoveElement
    <3>5. /\ Cardinality(Counted(u)') <= Cardinality(Counted(u) \ {k})
          /\ Cardinality(Counted(u)') \in Nat
      BY <3>1, <3>4, FS_Subset, FS_CardinalityType
    <3> QED BY <3>3, <3>4, <3>5, Countable, DeployAssumption DEF OverrunInv
  <2>2. CASE user[k] # u
    <3>1. Counted(u)' \subseteq Counted(u)
      BY <1>2, <2>2 DEF CreateAgent, Goto, Counted, TypeOK
    <3>2. AgentsOf(u)' \subseteq AgentsOf(u)
      BY <1>2, <2>2 DEF CreateAgent, AgentsOf, TypeOK
    <3> QED BY <3>1, <3>2, NothingAdded
  <2> QED BY <2>1, <2>2
<1>3. CASE ~\E k \in Handlers : CountAgents(k) \/ \E a \in Agents : CreateAgent(k, a)
  BY <1>3, OtherSteps, NothingAdded
<1> QED BY <1>1, <1>2, <1>3

\* However requests interleave, a user's agents exceed the cap by less than the
\* number of requests served at once; with one at a time the cap is kept.
THEOREM OverrunIsBounded == Spec => []OverrunBounded
<1>1. OverrunInv => OverrunBounded
  <2> SUFFICES ASSUME OverrunInv, NEW u \in Users
               PROVE  Cardinality(AgentsOf(u)) <= MAX_AGENTS_PER_USER - 1 + Cardinality(Handlers)
    BY DEF OverrunBounded
  <2> QED BY Countable, DeployAssumption DEF OverrunInv
<1> QED BY <1>1, TypeStart, TypeStep, OverrunStart, OverrunStep, PTL DEF Spec

-----------------------------------------------------------------------------
(* What the handlers know.                                                  *)

\* A transaction on the chain was built for a user, and a confirmation past the
\* payment check has one of its own user.
PaymentChecked ==
  /\ \A s \in confirmed : offered[s] \in Users
  /\ \A k \in Handlers : pc[k] \in {"count", "index", "create"} /\ ~IsFake(sig[k])
       => sig[k] \in confirmed /\ offered[sig[k]] = user[k]

\* A handler past its insert owns its agent, which carries its signature and was not
\* answered yet; a handler that has chosen a hex knows it.
OwnAgent ==
  /\ \A k \in Handlers : pc[k] \in AtWork =>
       /\ Exists(agent[k]) /\ deployTxSig[agent[k]] = sig[k] /\ told[agent[k]] = Null
       /\ \A j \in Handlers \ {k} : pc[j] \in AtWork => agent[j] # agent[k]
  /\ \A k \in Handlers :
       /\ pc[k] \in {"delete", "register"} => IsFake(sig[k])
       /\ pc[k] \in {"assign", "state", "register"} => spot[k] \in Hexes
       /\ pc[k] \in {"state", "register"} => hexId[agent[k]] = spot[k]
       /\ pc[k] = "register" => agent[k] \in miningState

HandlerInv == PaymentChecked /\ OwnAgent /\ AnswerKept

\* They know it at the start.
LEMMA HandlerStart == ASSUME Init PROVE HandlerInv
<1>1. \A k \in Handlers : pc[k] = "idle" /\ pc[k] \notin AtWork
  BY DEF Init, AtWork
<1>2. PaymentChecked /\ OwnAgent
  BY <1>1 DEF Init, PaymentChecked, OwnAgent
<1>3. AnswerKept
  BY DEF Init, AnswerKept
<1> QED BY <1>2, <1>3 DEF HandlerInv

\* The payment check stays true.
LEMMA PaymentStep == ASSUME TypeOK, PaymentChecked, [Next]_vars PROVE PaymentChecked'
<1> USE DeployAssumption
<1> USE DEF rows, money, request, history, process, PaymentChecked
<1>1. CASE UNCHANGED vars
  BY <1>1 DEF vars, IsFake
<1>2. ASSUME NEW u \in Users, NEW s \in Sigs, Deploy(u, s) PROVE PaymentChecked'
  BY <1>2 DEF Deploy, TypeOK, IsFake
<1>3. ASSUME NEW s \in Sigs, Send(s) PROVE PaymentChecked'
  BY <1>3 DEF Send, TypeOK, IsFake
<1>4. ASSUME NEW h \in Hexes, Exhaust(h) PROVE PaymentChecked'
  BY <1>4 DEF Exhaust, IsFake
<1>5. ASSUME NEW k \in Handlers, HandlerStep(k) PROVE PaymentChecked'
  <2> USE DEF TypeOK, IsFake
  <2>1. ASSUME NEW u \in Users, NEW s \in Sigs, Confirm(k, u, s) PROVE PaymentChecked'
    BY <2>1 DEF Confirm, Goto
  <2>2. CASE VerifyDeployPayment(k)
    BY <2>2 DEF VerifyDeployPayment, Goto
  <2>3. CASE CountAgents(k)
    BY <2>3 DEF CountAgents, Goto
  <2>4. CASE ReadIndex(k)
    BY <2>4 DEF ReadIndex, Goto
  <2>5. ASSUME NEW a \in Agents, CreateAgent(k, a) PROVE PaymentChecked'
    BY <2>5 DEF CreateAgent, Goto
  <2>6. CASE GiveUp(k)
    BY <2>6 DEF GiveUp, Finish
  <2>7. CASE Mint(k)
    BY <2>7 DEF Mint, Goto
  <2>8. CASE RecordMint(k)
    BY <2>8 DEF RecordMint, Goto
  <2>9. CASE CatchMintError(k)
    BY <2>9 DEF CatchMintError
  <2>10. CASE FindHex(k)
    BY <2>10 DEF FindHex, Goto
  <2>11. CASE AssignHex(k)
    BY <2>11 DEF AssignHex, Goto
  <2>12. CASE EnsureMiningState(k)
    BY <2>12 DEF EnsureMiningState, Goto, Finish
  <2>13. CASE NoRoom(k)
    BY <2>13 DEF NoRoom, Goto, Finish
  <2>14. CASE DeleteAgent(k)
    BY <2>14 DEF DeleteAgent, Finish
  <2>15. CASE CacheAgent(k)
    BY <2>15 DEF CacheAgent, Finish
  <2>16. CASE RetryPlacement(k)
    BY <2>16 DEF RetryPlacement
  <2>17. CASE BreakOff(k)
    BY <2>17 DEF BreakOff, Finish
  <2> QED BY <1>5, <2>1, <2>2, <2>3, <2>4, <2>5, <2>6, <2>7, <2>8, <2>9, <2>10, <2>11,
             <2>12, <2>13, <2>14, <2>15, <2>16, <2>17 DEF HandlerStep
<1>6. CASE Restart
  BY <1>6 DEF Restart
<1> QED BY <1>1, <1>2, <1>3, <1>4, <1>5, <1>6 DEF Next

\* Handlers keep their agents apart, and answers stay true.
LEMMA AnswerStep ==
  ASSUME TypeOK, OwnAgent, AnswerKept, [Next]_vars
  PROVE  OwnAgent' /\ AnswerKept'
<1> USE DeployAssumption
<1> USE DEF rows, money, request, history, process, OwnAgent, AnswerKept, Exists, IsFake, AtWork
<1>1. CASE UNCHANGED vars
  BY <1>1 DEF vars
<1>2. ASSUME NEW u \in Users, NEW s \in Sigs, Deploy(u, s) PROVE OwnAgent' /\ AnswerKept'
  BY <1>2 DEF Deploy, TypeOK
<1>3. ASSUME NEW s \in Sigs, Send(s) PROVE OwnAgent' /\ AnswerKept'
  BY <1>3 DEF Send, TypeOK
<1>4. ASSUME NEW h \in Hexes, Exhaust(h) PROVE OwnAgent' /\ AnswerKept'
  BY <1>4 DEF Exhaust
<1>5. ASSUME NEW k \in Handlers, HandlerStep(k) PROVE OwnAgent' /\ AnswerKept'
  <2> USE DEF TypeOK
  <2>1. ASSUME NEW u \in Users, NEW s \in Sigs, Confirm(k, u, s) PROVE OwnAgent' /\ AnswerKept'
    BY <2>1 DEF Confirm, Goto
  <2>2. CASE VerifyDeployPayment(k)
    BY <2>2 DEF VerifyDeployPayment, Goto
  <2>3. CASE CountAgents(k)
    BY <2>3 DEF CountAgents, Goto
  <2>4. CASE ReadIndex(k)
    BY <2>4 DEF ReadIndex, Goto
  <2>5. ASSUME NEW a \in Agents, CreateAgent(k, a) PROVE OwnAgent' /\ AnswerKept'
    BY <2>5 DEF CreateAgent, Goto
  <2>6. CASE GiveUp(k)
    BY <2>6 DEF GiveUp, Finish
  <2>7. CASE Mint(k)
    BY <2>7 DEF Mint, Goto
  <2>8. CASE RecordMint(k)
    BY <2>8 DEF RecordMint, Goto
  <2>9. CASE CatchMintError(k)
    BY <2>9 DEF CatchMintError
  <2>10. CASE FindHex(k)
    <3>1. PICK h \in Hexes : spot' = [spot EXCEPT ![k] = h]
      BY <2>10 DEF FindHex, HexesWithRoom
    <3>2. pc[k] = "find" /\ pc' = [pc EXCEPT ![k] = "assign"]
      BY <2>10 DEF FindHex, Goto
    <3>3. UNCHANGED <<rows, cached, sig, agent, told>>
      BY <2>10 DEF FindHex
    <3> QED BY <3>1, <3>2, <3>3
  <2>11. CASE AssignHex(k)
    BY <2>11 DEF AssignHex, Goto
  <2>12. CASE EnsureMiningState(k)
    BY <2>12, SMTT(20) DEF EnsureMiningState, Answer, Goto, Finish
  <2>13. CASE NoRoom(k)
    BY <2>13 DEF NoRoom, Goto, Finish
  <2>14. CASE DeleteAgent(k)
    BY <2>14 DEF DeleteAgent, Finish
  <2>15. CASE CacheAgent(k)
    BY <2>15 DEF CacheAgent, Answer, Finish
  <2>16. CASE RetryPlacement(k)
    BY <2>16 DEF RetryPlacement
  <2>17. CASE BreakOff(k)
    BY <2>17 DEF BreakOff, Finish
  <2> QED BY <1>5, <2>1, <2>2, <2>3, <2>4, <2>5, <2>6, <2>7, <2>8, <2>9, <2>10, <2>11,
             <2>12, <2>13, <2>14, <2>15, <2>16, <2>17 DEF HandlerStep
<1>6. CASE Restart
  BY <1>6 DEF Restart
<1> QED BY <1>1, <1>2, <1>3, <1>4, <1>5, <1>6 DEF Next

\* A step leaves no half-made agent behind without being noticed.
LEMMA HalfStep ==
  ASSUME TypeOK, OwnAgent, NoHalfAgents, [Next]_vars
  PROVE  NoHalfAgents'
<1> USE DeployAssumption
<1> USE DEF rows, money, request, history, process, OwnAgent, NoHalfAgents, Exists, IsFake, AtWork
<1>1. CASE UNCHANGED vars
  BY <1>1 DEF vars
<1>2. ASSUME NEW u \in Users, NEW s \in Sigs, Deploy(u, s) PROVE NoHalfAgents'
  BY <1>2 DEF Deploy, TypeOK
<1>3. ASSUME NEW s \in Sigs, Send(s) PROVE NoHalfAgents'
  BY <1>3 DEF Send, TypeOK
<1>4. ASSUME NEW h \in Hexes, Exhaust(h) PROVE NoHalfAgents'
  BY <1>4 DEF Exhaust
<1>5. ASSUME NEW k \in Handlers, HandlerStep(k) PROVE NoHalfAgents'
  <2> USE DEF TypeOK
  <2>1. ASSUME NEW u \in Users, NEW s \in Sigs, Confirm(k, u, s) PROVE NoHalfAgents'
    BY <2>1 DEF Confirm, Goto
  <2>2. CASE VerifyDeployPayment(k)
    BY <2>2 DEF VerifyDeployPayment, Goto
  <2>3. CASE CountAgents(k)
    BY <2>3 DEF CountAgents, Goto
  <2>4. CASE ReadIndex(k)
    BY <2>4 DEF ReadIndex, Goto
  <2>5. ASSUME NEW a \in Agents, CreateAgent(k, a) PROVE NoHalfAgents'
    BY <2>5 DEF CreateAgent, Goto
  <2>6. CASE GiveUp(k)
    BY <2>6 DEF GiveUp, Finish
  <2>7. CASE Mint(k)
    BY <2>7 DEF Mint, Goto
  <2>8. CASE RecordMint(k)
    BY <2>8 DEF RecordMint, Goto
  <2>9. CASE CatchMintError(k)
    BY <2>9 DEF CatchMintError
  <2>10. CASE FindHex(k)
    BY <2>10 DEF FindHex, Goto
  <2>11. CASE AssignHex(k)
    BY <2>11 DEF AssignHex, Goto
  <2>12. CASE EnsureMiningState(k)
    BY <2>12, SMTT(20) DEF EnsureMiningState, Answer, Goto, Finish
  <2>13. CASE NoRoom(k)
    BY <2>13 DEF NoRoom, Goto, Finish
  <2>14. CASE DeleteAgent(k)
    BY <2>14 DEF DeleteAgent, Finish
  <2>15. CASE CacheAgent(k)
    BY <2>15 DEF CacheAgent, Answer, Finish
  <2>16. CASE RetryPlacement(k)
    BY <2>16 DEF RetryPlacement
  <2>17. CASE BreakOff(k)
    BY <2>17 DEF BreakOff, Finish
  <2> QED BY <1>5, <2>1, <2>2, <2>3, <2>4, <2>5, <2>6, <2>7, <2>8, <2>9, <2>10, <2>11,
             <2>12, <2>13, <2>14, <2>15, <2>16, <2>17 DEF HandlerStep
<1>6. CASE Restart
  BY <1>6 DEF Restart
<1> QED BY <1>1, <1>2, <1>3, <1>4, <1>5, <1>6 DEF Next

\* The handlers' knowledge is kept by every step.
LEMMA HandlerStepKept == ASSUME TypeOK, HandlerInv, [Next]_vars PROVE HandlerInv'
  BY PaymentStep, AnswerStep DEF HandlerInv

\* What an answer says of an agent stays true, whatever other requests do.
THEOREM AnswersAreKept == Spec => []AnswerKept
<1>1. HandlerInv => AnswerKept
  BY DEF HandlerInv
<1> QED BY <1>1, TypeStart, TypeStep, HandlerStart, HandlerStepKept, PTL DEF Spec

\* Without an internal error, a request leaves its agent placed and answered.
THEOREM NoAgentIsHalfMade == Spec => []NoHalfAgents
<1>1. Init => NoHalfAgents
  BY DEF Init, NoHalfAgents, Exists
<1>2. TypeOK /\ HandlerInv /\ NoHalfAgents /\ [Next]_vars => NoHalfAgents'
  BY HalfStep DEF HandlerInv
<1> QED BY <1>1, <1>2, TypeStart, TypeStep, HandlerStart, HandlerStepKept, PTL DEF Spec

-----------------------------------------------------------------------------
(* The refinement.                                                          *)

\* Steps that leave the payments and the rows of paid agents alone.
LEMMA Stutters ==
  ASSUME UNCHANGED <<owner, deployTxSig, offered, confirmed>>
  PROVE  [Promise!Next]_(Promise!vars)
  BY DEF Promise!vars, Payer, Bought, Exists

\* A transaction for a user who has not paid with it changes no payer.
LEMMA DeployStutters ==
  ASSUME TypeOK, PaymentChecked, NEW u \in Users, NEW s \in Sigs, Deploy(u, s)
  PROVE  [Promise!Next]_(Promise!vars)
<1>1. s \notin confirmed /\ offered' = [offered EXCEPT ![s] = u] /\ confirmed' = confirmed
  BY DeployAssumption DEF Deploy, PaymentChecked
<1>2. Payer' = Payer
  BY <1>1 DEF Payer, TypeOK, Payments
<1>3. Bought' = Bought
  BY DEF Deploy, rows, Bought, Exists
<1> QED BY <1>2, <1>3 DEF Promise!vars

\* A transaction that is confirmed is a payment, unless it was one already.
LEMMA SendPays ==
  ASSUME TypeOK, NEW s \in Sigs, Send(s)
  PROVE  [Promise!Next]_(Promise!vars)
<1>1. Bought' = Bought
  BY DEF Send, rows, Bought, Exists
<1>2. confirmed' = confirmed \cup {s} /\ offered' = offered /\ offered[s] \in Users
  BY DEF Send, TypeOK
<1>3. CASE s \in confirmed \/ s \notin Payments
  <2>1. Payer' = Payer
    BY <1>2, <1>3 DEF Payer
  <2> QED BY <1>1, <2>1 DEF Promise!vars
<1>4. CASE s \notin confirmed /\ s \in Payments
  <2>1. Payer[s] = Null /\ Payer' = [Payer EXCEPT ![s] = offered[s]]
    BY <1>2, <1>4 DEF Payer
  <2> QED BY <1>1, <1>2, <1>4, <2>1 DEF Promise!Next, Promise!Pay
<1> QED BY <1>3, <1>4

\* The insert of a paid agent redeems its payment.
LEMMA CreateRedeems ==
  ASSUME TypeOK, PaymentChecked, NEW k \in Handlers, NEW a \in Agents, CreateAgent(k, a)
  PROVE  [Promise!Next]_(Promise!vars)
<1>1. /\ ~Exists(a) /\ ~Used(sig[k]) /\ sig[k] \in Sigs /\ user[k] \in Users
      /\ owner' = [owner EXCEPT ![a] = user[k]]
      /\ deployTxSig' = [deployTxSig EXCEPT ![a] = sig[k]]
      /\ UNCHANGED money /\ pc[k] = "create"
  BY DEF CreateAgent, Goto, TypeOK
<1>2. Payer' = Payer
  BY <1>1 DEF money, Payer
<1>3. ASSUME NEW s \in Payments, s # sig[k] PROVE Bought'[s] = Bought[s]
  BY <1>1, <1>3, DeployAssumption DEF Bought, Exists, TypeOK
<1>4. CASE sig[k] \notin Payments
  <2>1. Bought' = Bought
    BY <1>3, <1>4 DEF Bought
  <2> QED BY <1>2, <2>1 DEF Promise!vars
<1>5. CASE sig[k] \in Payments
  <2>1. Payer[sig[k]] = user[k]
    BY <1>1, <1>5 DEF PaymentChecked, Payer, Payments, IsFake
  <2>2. Bought[sig[k]] = {}
    BY <1>1, <1>5 DEF Bought, Used
  <2>3. Bought'[sig[k]] = {<<a, user[k]>>}
    BY <1>1, <1>5, DeployAssumption DEF Bought, Used, Exists, TypeOK
  <2>4. Bought' = [Bought EXCEPT ![sig[k]] = {<<a, Payer[sig[k]]>>}]
    BY <1>3, <2>1, <2>3 DEF Bought
  <2>5. \A q \in Payments, u \in Users : <<a, u>> \notin Bought[q]
    BY <1>1 DEF Bought
  <2> QED BY <1>1, <1>2, <1>5, <2>1, <2>2, <2>4, <2>5 DEF Promise!Next, Promise!Redeem
<1> QED BY <1>4, <1>5

\* Only the test mode deletes a row, and only its own.
LEMMA DeleteStutters ==
  ASSUME TypeOK, OwnAgent, NEW k \in Handlers, DeleteAgent(k)
  PROVE  [Promise!Next]_(Promise!vars)
<1>1. /\ agent[k] \in Agents /\ deployTxSig[agent[k]] \in FakeSigs
      /\ owner' = [owner EXCEPT ![agent[k]] = Null] /\ UNCHANGED <<deployTxSig, money>>
  BY DEF DeleteAgent, OwnAgent, TypeOK, AtWork, IsFake
<1>2. Payer' = Payer
  BY <1>1 DEF money, Payer
<1>3. ASSUME NEW s \in Payments PROVE Bought'[s] = Bought[s]
  BY <1>1 DEF Bought, Exists, TypeOK, Payments
<1>4. Bought' = Bought
  BY <1>3 DEF Bought
<1> QED BY <1>2, <1>4 DEF Promise!vars

\* Every step of the handlers is a step of the promise or a stutter.
LEMMA PromiseStep ==
  ASSUME TypeOK, HandlerInv, [Next]_vars PROVE [Promise!Next]_(Promise!vars)
<1> USE DEF rows, money
<1>1. CASE UNCHANGED vars
  BY <1>1, Stutters DEF vars
<1>2. ASSUME NEW u \in Users, NEW s \in Sigs, Deploy(u, s) PROVE [Promise!Next]_(Promise!vars)
  BY <1>2, DeployStutters DEF HandlerInv
<1>3. ASSUME NEW s \in Sigs, Send(s) PROVE [Promise!Next]_(Promise!vars)
  BY <1>3, SendPays
<1>4. ASSUME NEW h \in Hexes, Exhaust(h) PROVE [Promise!Next]_(Promise!vars)
  BY <1>4, Stutters DEF Exhaust
<1>5. ASSUME NEW k \in Handlers, HandlerStep(k) PROVE [Promise!Next]_(Promise!vars)
  <2>1. ASSUME NEW u \in Users, NEW s \in Sigs, Confirm(k, u, s)
        PROVE  [Promise!Next]_(Promise!vars)
    BY <2>1, Stutters DEF Confirm
  <2>2. ASSUME NEW a \in Agents, CreateAgent(k, a) PROVE [Promise!Next]_(Promise!vars)
    BY <2>2, CreateRedeems DEF HandlerInv
  <2>3. CASE DeleteAgent(k)
    BY <2>3, DeleteStutters DEF HandlerInv
  <2>4. CASE VerifyDeployPayment(k) \/ CountAgents(k) \/ ReadIndex(k) \/ GiveUp(k) \/ Mint(k)
    BY <2>4, Stutters DEF VerifyDeployPayment, CountAgents, ReadIndex, GiveUp, Mint
  <2>5. CASE RecordMint(k) \/ CatchMintError(k) \/ FindHex(k) \/ AssignHex(k)
    BY <2>5, Stutters DEF RecordMint, CatchMintError, FindHex, AssignHex
  <2>6. CASE EnsureMiningState(k) \/ NoRoom(k) \/ CacheAgent(k)
    BY <2>6, Stutters DEF EnsureMiningState, NoRoom, CacheAgent
  <2>7. CASE RetryPlacement(k) \/ BreakOff(k)
    BY <2>7, Stutters DEF RetryPlacement, BreakOff
  <2> QED BY <1>5, <2>1, <2>2, <2>3, <2>4, <2>5, <2>6, <2>7 DEF HandlerStep
<1>6. CASE Restart
  BY <1>6, Stutters DEF Restart
<1> QED BY <1>1, <1>2, <1>3, <1>4, <1>5, <1>6 DEF Next

\* The two handlers implement the promise: a payment brings its payer one agent, at
\* most once, and the agent stays.
THEOREM ImplementsAgentPromise == Spec => AgentPromiseSpec
<1>1. ASSUME Init PROVE Promise!Init
  <2>1. Payer = [s \in Payments |-> Null]
    BY <1>1 DEF Init, Payer, Payments
  <2>2. Bought = [s \in Payments |-> {}]
    BY <1>1 DEF Init, Bought, Exists
  <2> QED BY <2>1, <2>2 DEF Promise!Init
<1>2. TypeOK /\ HandlerInv /\ [Next]_vars => [Promise!Next]_(Promise!vars)
  BY PromiseStep
<1> QED BY <1>1, <1>2, TypeStart, TypeStep, HandlerStart, HandlerStepKept, PTL
        DEF Spec, AgentPromiseSpec, Promise!Spec
=============================================================================
