----------------------------- MODULE Deployment -----------------------------
(***************************************************************************)
(* POST /agents/deploy and POST /agents/confirm, await by await: the check *)
(* of the payment, the cap on a user's agents, the mint and the placement, *)
(* with the test mode in which a signature is made up and nothing is paid. *)
(*                                                                         *)
(* A handler is one confirmation in progress.  The row of an agent is a    *)
(* column per field; owner[a] = Null means that there is none.  status is  *)
(* not kept: the placement sets it together with hexId.  A transaction     *)
(* that pays too little, or another account, is like none at all.          *)
(***************************************************************************)
EXTENDS Integers, FiniteSets

CONSTANTS
  Users, Handlers, Hexes,
  Agents,                \* ids of agents
  Sigs, FakeSigs,        \* transaction signatures; those with the FAKE- prefix
  Null,
  MAX_AGENTS_PER_USER, MAX_AGENTS_PER_HEX,
  MaxIndex, MaxRestarts  \* bounds of an instance

ASSUME DeployAssumption ==
  /\ IsFiniteSet(Handlers) /\ IsFiniteSet(Agents)
  /\ FakeSigs \subseteq Sigs
  /\ Null \notin Users \cup Sigs \cup Agents \cup Hexes
  /\ MAX_AGENTS_PER_USER \in Nat \ {0} /\ MAX_AGENTS_PER_HEX \in Nat \ {0}
  /\ MaxIndex \in Nat /\ MaxRestarts \in Nat

VARIABLES
  owner, deployTxSig, agentIndex, mintAddress, hexId,   \* columns of Agent
  miningState,   \* the agents with a MiningState row
  cached,        \* the agents in Redis
  barren,        \* the hexes without ore
  offered,       \* for whom /deploy built a transaction
  confirmed,     \* the transactions on the chain
  fakeMode,      \* FAKE_SOL_MODE of this process
  pc,            \* the next step of a handler
  user, sig,     \* its request,
  agent, index,  \* the agent it created and the index it computed,
  spot,          \* the hex it chose,
  again,         \* and whether it is in the catch block of the mint
  told,          \* history: the hex an answer named for an agent
  turnedAway,    \* history: agents answered with no hex
  trouble,       \* history: a request died between its insert and its answer
  restarts

rows    == <<owner, deployTxSig, agentIndex, mintAddress, hexId, miningState>>
money   == <<offered, confirmed>>
request == <<user, sig, agent, index, spot, again>>
history == <<told, turnedAway, trouble>>
process == <<fakeMode, restarts>>
vars    == <<rows, cached, barren, money, pc, request, history, process>>

Exists(a)     == owner[a] # Null
AgentsOf(u)   == {a \in Agents : owner[a] = u}
Occupants(h)  == {a \in Agents : Exists(a) /\ hexId[a] = h}
Used(s)       == \E a \in Agents : Exists(a) /\ deployTxSig[a] = s
IsFake(s)     == s \in FakeSigs
HexesWithRoom == {h \in Hexes \ barren : Cardinality(Occupants(h)) < MAX_AGENTS_PER_HEX}

\* The steps after the insert, and all of them.
AtWork == {"mint", "record", "find", "assign", "state", "delete", "register"}
Steps  == AtWork \cup {"idle", "verify", "count", "index", "create"}

Init ==
  /\ owner       = [a \in Agents |-> Null]
  /\ deployTxSig = [a \in Agents |-> Null]
  /\ agentIndex  = [a \in Agents |-> 0]
  /\ mintAddress = [a \in Agents |-> 0]
  /\ hexId       = [a \in Agents |-> Null]
  /\ miningState = {} /\ cached = {} /\ barren = {}
  /\ offered = [s \in Sigs |-> Null] /\ confirmed = {}
  /\ fakeMode \in BOOLEAN /\ restarts = 0
  /\ pc    = [k \in Handlers |-> "idle"]
  /\ user  = [k \in Handlers |-> Null]
  /\ sig   = [k \in Handlers |-> Null]
  /\ agent = [k \in Handlers |-> Null]
  /\ index = [k \in Handlers |-> 0]
  /\ spot  = [k \in Handlers |-> Null]
  /\ again = [k \in Handlers |-> FALSE]
  /\ told  = [a \in Agents |-> Null]
  /\ turnedAway = {} /\ trouble = FALSE

-----------------------------------------------------------------------------
(* Before the confirmation. *)

\* /deploy builds the transfer of the fee; in the test mode it only makes up a
\* signature, which any FAKE- string would do for.
Deploy(u, s) ==
  /\ ~fakeMode /\ ~IsFake(s)
  /\ Cardinality(AgentsOf(u)) < MAX_AGENTS_PER_USER
  /\ offered[s] = Null
  /\ offered' = [offered EXCEPT ![s] = u]
  /\ UNCHANGED <<rows, cached, barren, confirmed, pc, request, history, process>>

\* The wallet signs and sends it, and the network confirms it.
Send(s) ==
  /\ offered[s] # Null
  /\ confirmed' = confirmed \cup {s}
  /\ UNCHANGED <<rows, cached, barren, offered, pc, request, history, process>>

\* Mining takes the last ore of a hex.
Exhaust(h) ==
  /\ barren' = barren \cup {h}
  /\ UNCHANGED <<rows, cached, money, pc, request, history, process>>

-----------------------------------------------------------------------------
(* The confirmation, up to the row. *)

Goto(k, from, to) == pc[k] = from /\ pc' = [pc EXCEPT ![k] = to]

\* The handler returns; its variables are gone.
Finish(k) ==
  /\ pc'    = [pc EXCEPT ![k] = "idle"]
  /\ user'  = [user EXCEPT ![k] = Null]
  /\ sig'   = [sig EXCEPT ![k] = Null]
  /\ agent' = [agent EXCEPT ![k] = Null]
  /\ index' = [index EXCEPT ![k] = 0]
  /\ spot'  = [spot EXCEPT ![k] = Null]
  /\ again' = [again EXCEPT ![k] = FALSE]

\* The pre-check: a signature that some agent carries is refused.
Confirm(k, u, s) ==
  /\ ~Used(s)
  /\ Goto(k, "idle", IF fakeMode /\ IsFake(s) THEN "count" ELSE "verify")
  /\ user'  = [user EXCEPT ![k] = u]
  /\ sig'   = [sig EXCEPT ![k] = s]
  /\ UNCHANGED <<rows, cached, barren, money, agent, index, spot, again, history, process>>

VerifyDeployPayment(k) ==
  /\ Goto(k, "verify", "count")
  /\ sig[k] \in confirmed /\ offered[sig[k]] = user[k]
  /\ UNCHANGED <<rows, cached, barren, money, request, history, process>>

\* A plausible bug: one agent too many is let through.
CountAgentsLoosely(k) ==
  /\ Goto(k, "count", "index")
  /\ Cardinality(AgentsOf(user[k])) <= MAX_AGENTS_PER_USER
  /\ UNCHANGED <<rows, cached, barren, money, request, history, process>>

\* The transaction runs at READ COMMITTED: count sees what others have committed,
\* not what they are about to insert.
CountAgents(k) ==
  /\ Goto(k, "count", "index")
  /\ Cardinality(AgentsOf(user[k])) < MAX_AGENTS_PER_USER
  /\ UNCHANGED <<rows, cached, barren, money, request, history, process>>

\* A plausible bug: the last index is taken again.
ReadLastIndex(k) ==
  /\ Goto(k, "index", "create")
  /\ \E i \in {0} \cup {agentIndex[a] : a \in {b \in Agents : Exists(b)}} :
       /\ \A a \in Agents : Exists(a) => agentIndex[a] <= i
       /\ index' = [index EXCEPT ![k] = i]
  /\ UNCHANGED <<rows, cached, barren, money, user, sig, agent, spot, again, history,
                 process>>

ReadIndex(k) ==
  /\ Goto(k, "index", "create")
  /\ \E i \in {0} \cup {agentIndex[a] : a \in {b \in Agents : Exists(b)}} :
       /\ \A a \in Agents : Exists(a) => agentIndex[a] <= i
       /\ i < MaxIndex
       /\ index' = [index EXCEPT ![k] = i + 1]
  /\ UNCHANGED <<rows, cached, barren, money, user, sig, agent, spot, again, history,
                 process>>

\* A plausible bug: deploy_tx_sig has no unique index, only the pre-check.
CreateAgentUnchecked(k, a) ==
  /\ Goto(k, "create", IF IsFake(sig[k]) THEN "find" ELSE "mint")
  /\ ~Exists(a)
  /\ owner'       = [owner EXCEPT ![a] = user[k]]
  /\ deployTxSig' = [deployTxSig EXCEPT ![a] = sig[k]]
  /\ agentIndex'  = [agentIndex EXCEPT ![a] = index[k]]
  /\ mintAddress' = [mintAddress EXCEPT ![a] = 0]
  /\ agent'       = [agent EXCEPT ![k] = a]
  /\ UNCHANGED <<hexId, miningState, cached, barren, money, user, sig, index, spot, again,
                 history, process>>

\* The insert and the commit; deploy_tx_sig is unique.
CreateAgent(k, a) ==
  /\ Goto(k, "create", IF IsFake(sig[k]) THEN "find" ELSE "mint")
  /\ ~Exists(a) /\ ~Used(sig[k])
  /\ owner'       = [owner EXCEPT ![a] = user[k]]
  /\ deployTxSig' = [deployTxSig EXCEPT ![a] = sig[k]]
  /\ agentIndex'  = [agentIndex EXCEPT ![a] = index[k]]
  /\ mintAddress' = [mintAddress EXCEPT ![a] = 0]
  /\ agent'       = [agent EXCEPT ![k] = a]
  /\ UNCHANGED <<hexId, miningState, cached, barren, money, user, sig, index, spot, again,
                 history, process>>

\* 400, 409 and 500 before the row exists leave nothing behind; any await can fail.
GiveUp(k) ==
  /\ pc[k] \in {"verify", "count", "index", "create"}
  /\ Finish(k)
  /\ UNCHANGED <<rows, cached, barren, money, history, process>>

-----------------------------------------------------------------------------
(* The confirmation, from the row on: mint, placement, answer. *)

\* The asset id is computed from the index and stored; mint_address is unique.
Mint(k) ==
  /\ Goto(k, "mint", "record")
  /\ UNCHANGED <<rows, cached, barren, money, request, history, process>>

RecordMint(k) ==
  /\ Goto(k, "record", "find")
  /\ \A a \in Agents : Exists(a) => mintAddress[a] # index[k]
  /\ mintAddress' = [mintAddress EXCEPT ![agent[k]] = index[k]]
  /\ UNCHANGED <<owner, deployTxSig, agentIndex, hexId, miningState, cached, barren, money,
                 request, history, process>>

\* The mint fails, or its asset id is taken, or the update fails: the catch block.
CatchMintError(k) ==
  /\ pc[k] \in {"mint", "record"}
  /\ pc'    = [pc EXCEPT ![k] = "find"]
  /\ again' = [again EXCEPT ![k] = TRUE]
  /\ UNCHANGED <<rows, cached, barren, money, user, sig, agent, index, spot, history, process>>

\* placeAgentOnHex in three awaits: the hexes with their occupants, the update of
\* the agent, the mining state.
FindHex(k) ==
  /\ Goto(k, "find", "assign")
  /\ \E h \in HexesWithRoom : spot' = [spot EXCEPT ![k] = h]
  /\ UNCHANGED <<rows, cached, barren, money, user, sig, agent, index, again, history, process>>

\* A plausible bug: an agent that has a hex already is not moved again.
AssignHexOnce(k) ==
  /\ Goto(k, "assign", "state")
  /\ hexId' = IF hexId[agent[k]] = Null THEN [hexId EXCEPT ![agent[k]] = spot[k]] ELSE hexId
  /\ UNCHANGED <<owner, deployTxSig, agentIndex, mintAddress, miningState, cached, barren,
                 money, request, history, process>>

AssignHex(k) ==
  /\ Goto(k, "assign", "state")
  /\ hexId' = [hexId EXCEPT ![agent[k]] = spot[k]]
  /\ UNCHANGED <<owner, deployTxSig, agentIndex, mintAddress, miningState, cached, barren,
                 money, request, history, process>>

Answer(k) == told' = [told EXCEPT ![agent[k]] = spot[k]]

\* The paid path answers here; the test mode still has to register the agent.
EnsureMiningState(k) ==
  /\ pc[k] = "state"
  /\ miningState' = miningState \cup {agent[k]}
  /\ \/ ~IsFake(sig[k]) /\ Answer(k) /\ Finish(k)
     \/ IsFake(sig[k]) /\ Goto(k, "state", "register") /\ UNCHANGED <<request, told>>
  /\ UNCHANGED <<owner, deployTxSig, agentIndex, mintAddress, hexId, cached, barren, money,
                 turnedAway, trouble, process>>

\* A plausible bug: the test mode answers 503 and leaves the row.
NoRoomKeepsRow(k) ==
  /\ pc[k] = "find"
  /\ HexesWithRoom = {}
  /\ turnedAway' = IF IsFake(sig[k]) THEN turnedAway ELSE turnedAway \cup {agent[k]}
  /\ Finish(k)
  /\ UNCHANGED <<rows, cached, barren, money, told, trouble, process>>

\* No hex has room: the paid path answers that the agent is nowhere, the test mode
\* takes the row back.
NoRoom(k) ==
  /\ pc[k] = "find"
  /\ HexesWithRoom = {}
  /\ \/ ~IsFake(sig[k]) /\ turnedAway' = turnedAway \cup {agent[k]} /\ Finish(k)
     \/ IsFake(sig[k]) /\ Goto(k, "find", "delete") /\ UNCHANGED <<request, turnedAway>>
  /\ UNCHANGED <<rows, cached, barren, money, told, trouble, process>>

DeleteAgent(k) ==
  /\ pc[k] = "delete"
  /\ owner' = [owner EXCEPT ![agent[k]] = Null]
  /\ Finish(k)
  /\ UNCHANGED <<deployTxSig, agentIndex, mintAddress, hexId, miningState, cached, barren,
                 money, history, process>>

CacheAgent(k) ==
  /\ pc[k] = "register"
  /\ cached' = cached \cup {agent[k]}
  /\ Answer(k) /\ Finish(k)
  /\ UNCHANGED <<rows, barren, money, turnedAway, trouble, process>>

\* A store fails after the row exists.  Inside the try block of the mint the
\* placement is done again; anywhere else the request ends, with 500 (or with 503
\* where it was the delete that failed), and the row stays.
RetryPlacement(k) ==
  /\ pc[k] \in {"find", "assign", "state"} /\ ~IsFake(sig[k]) /\ ~again[k]
  /\ pc'    = [pc EXCEPT ![k] = "find"]
  /\ again' = [again EXCEPT ![k] = TRUE]
  /\ UNCHANGED <<rows, cached, barren, money, user, sig, agent, index, spot, history, process>>

BreakOff(k) ==
  /\ pc[k] \in {"find", "assign", "state", "delete", "register"}
  /\ IsFake(sig[k]) \/ again[k]
  /\ Finish(k)
  /\ trouble' = TRUE
  /\ UNCHANGED <<rows, cached, barren, money, told, turnedAway, process>>

\* A crash ends every request; the next process may run in the other mode, and
\* loads the placed agents that have a mining state into Redis.
Restart ==
  /\ restarts < MaxRestarts
  /\ restarts' = restarts + 1
  /\ fakeMode' \in BOOLEAN
  /\ \E kept \in {cached, {}} :
       cached' = kept \cup {a \in miningState : Exists(a) /\ hexId[a] # Null}
  /\ trouble' = (trouble \/ \E k \in Handlers : pc[k] \in AtWork)
  /\ pc'    = [k \in Handlers |-> "idle"]
  /\ user'  = [k \in Handlers |-> Null]
  /\ sig'   = [k \in Handlers |-> Null]
  /\ agent' = [k \in Handlers |-> Null]
  /\ index' = [k \in Handlers |-> 0]
  /\ spot'  = [k \in Handlers |-> Null]
  /\ again' = [k \in Handlers |-> FALSE]
  /\ UNCHANGED <<rows, barren, money, told, turnedAway>>

HandlerStep(k) ==
  \/ \E u \in Users, s \in Sigs : Confirm(k, u, s)
  \/ VerifyDeployPayment(k) \/ CountAgents(k) \/ ReadIndex(k)
  \/ \E a \in Agents : CreateAgent(k, a)
  \/ GiveUp(k)
  \/ Mint(k) \/ RecordMint(k) \/ CatchMintError(k)
  \/ FindHex(k) \/ AssignHex(k) \/ EnsureMiningState(k) \/ NoRoom(k)
  \/ DeleteAgent(k) \/ CacheAgent(k) \/ RetryPlacement(k) \/ BreakOff(k)

Next ==
  \/ \E u \in Users, s \in Sigs : Deploy(u, s)
  \/ \E s \in Sigs : Send(s)
  \/ \E h \in Hexes : Exhaust(h)
  \/ \E k \in Handlers : HandlerStep(k)
  \/ Restart

Spec == Init /\ [][Next]_vars

-----------------------------------------------------------------------------
(* Properties. *)

\* Columns and handlers have their types; an agent that exists has an index from 1
\* and a signature, and a handler past its insert has an agent.
TypeOK ==
  /\ owner \in [Agents -> Users \cup {Null}]
  /\ deployTxSig \in [Agents -> Sigs \cup {Null}]
  /\ agentIndex \in [Agents -> 0 .. MaxIndex] /\ mintAddress \in [Agents -> 0 .. MaxIndex]
  /\ hexId \in [Agents -> Hexes \cup {Null}]
  /\ miningState \subseteq Agents /\ cached \subseteq Agents /\ barren \subseteq Hexes
  /\ offered \in [Sigs -> Users \cup {Null}] /\ confirmed \subseteq Sigs
  /\ fakeMode \in BOOLEAN /\ restarts \in 0 .. MaxRestarts
  /\ pc \in [Handlers -> Steps]
  /\ user \in [Handlers -> Users \cup {Null}] /\ sig \in [Handlers -> Sigs \cup {Null}]
  /\ agent \in [Handlers -> Agents \cup {Null}] /\ index \in [Handlers -> 0 .. MaxIndex]
  /\ spot \in [Handlers -> Hexes \cup {Null}] /\ again \in [Handlers -> BOOLEAN]
  /\ told \in [Agents -> Hexes \cup {Null}] /\ turnedAway \subseteq Agents
  /\ trouble \in BOOLEAN
  /\ \A a \in Agents : Exists(a) => agentIndex[a] >= 1 /\ deployTxSig[a] \in Sigs
  /\ \A k \in Handlers :
       /\ pc[k] # "idle" => user[k] \in Users /\ sig[k] \in Sigs
       /\ pc[k] \in AtWork => agent[k] \in Agents
       /\ pc[k] \in {"create"} => index[k] >= 1

\* The count and the insert of a confirmation are two statements, so confirmations of
\* one user can pass the cap together; but by no more than the requests served at once.
OverrunBounded ==
  \A u \in Users :
    Cardinality(AgentsOf(u)) <= MAX_AGENTS_PER_USER - 1 + Cardinality(Handlers)

\* An answer that names a hex is true and complete, also after a placement that was
\* done twice and after a restart: the agent is there, it has a mining state, and in
\* the test mode it is in Redis.
AnswerKept ==
  \A a \in Agents : told[a] # Null =>
    /\ Exists(a) /\ hexId[a] = told[a] /\ a \in miningState
    /\ IsFake(deployTxSig[a]) => a \in cached

\* "roll back the half-created agent": unless a request broke off, an agent no request
\* is working on was placed and answered, or a paid one found no hex with room.
NoHalfAgents ==
  ~trouble => \A a \in Agents :
    Exists(a) /\ (\A k \in Handlers : pc[k] \in AtWork => agent[k] # a)
      => \/ told[a] # Null
         \/ a \in turnedAway /\ ~IsFake(deployTxSig[a])

Payments == Sigs \ FakeSigs
Payer    == [s \in Payments |-> IF s \in confirmed THEN offered[s] ELSE Null]
Bought   == [s \in Payments |->
               {<<a, owner[a]>> : a \in {b \in Agents : Exists(b) /\ deployTxSig[b] = s}}]

\* A payment brings its payer one agent, at most once, and the agent stays.
Promise == INSTANCE AgentPromise WITH Nobody <- Null, payer <- Payer, bought <- Bought

AgentPromiseSpec == Promise!Spec

\* agents.ts says of the insert that counting inside its transaction "closes the
\* count-then-create race": no user has more agents than the cap.
CapRespected == \A u \in Users : Cardinality(AgentsOf(u)) <= MAX_AGENTS_PER_USER
=============================================================================
