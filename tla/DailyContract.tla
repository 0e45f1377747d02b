--------------------------- MODULE DailyContract ----------------------------
(***************************************************************************)
(* One player's daily contracts: made by the first GET /api/contracts of a *)
(* UTC day, filled by the tick loop, one day apart.  Progress is kept in a *)
(* Redis buffer between flushes, the row and the streak are written by one *)
(* transaction on completion, and the boost is a Redis field of its own;   *)
(* each is a statement with an await before the next, and the process may  *)
(* stop between any two.                                                   *)
(*                                                                         *)
(* A contract is named by its day.  A tick works for the day on which it   *)
(* started and with the rows it read then.                                 *)
(***************************************************************************)
EXTENDS Integers, FiniteSets

CONSTANTS
  MaxDay, Requests,
  CONTRACT_BASE_TARGET,
  MaxAgents,            \* bound: agents of the player
  MaxAmount,             \* bound: one agent's yield in one tick
  MaxMined,             \* bound: mined for one contract
  MaxFaults             \* bound: failed statements, crashes and losses of Redis

ASSUME ContractAssumption ==
  /\ {MaxDay, CONTRACT_BASE_TARGET, MaxAgents, MaxAmount} \subseteq Nat \ {0}
  /\ {MaxMined, MaxFaults} \subseteq Nat

VARIABLES
  today, agentCount,
  target, dbProgress, completed,   \* rows; target[d] = 0 means that there is none
  contractStreak,
  buffer, boostUntil,              \* Redis: progress per contract, the day the boost ends
  opening,                         \* GET /api/contracts: the day of a request past its reads
  saw,                             \* and whether it found the row
  tickPc, tickDay, active, seenProgress, next, touched,
  mined, safe,                     \* history: mined for a contract; what of it Redis or
                                   \* Postgres has and no failure took away
  contractFaults

contractRows   == <<target, dbProgress, completed, contractStreak>>
contractRedis  == <<buffer, boostUntil>>
contractGets   == <<opening, saw>>
contractTick   == <<tickPc, tickDay, active, seenProgress, next, touched>>
contractVars   == <<today, agentCount, contractRows, contractRedis, contractGets, contractTick,
                    mined, safe, contractFaults>>

Days == 1..MaxDay
Larger(x, y) == IF x > y THEN x ELSE y

\* base * max(1, agentCount).
ContractTarget(n) == CONTRACT_BASE_TARGET * Larger(1, n)

ContractInit ==
  /\ today = 1 /\ agentCount \in 0..MaxAgents
  /\ target = [d \in Days |-> 0] /\ dbProgress = [d \in Days |-> 0]
  /\ completed = [d \in Days |-> FALSE] /\ contractStreak = 0
  /\ buffer = [d \in Days |-> 0] /\ boostUntil = 0
  /\ opening = [r \in Requests |-> 0] /\ saw = [r \in Requests |-> FALSE]
  /\ tickPc = "idle" /\ tickDay = 1 /\ active = FALSE /\ seenProgress = 0 /\ next = 0
  /\ touched = FALSE
  /\ mined = [d \in Days |-> 0] /\ safe = [d \in Days |-> 0] /\ contractFaults = 0

ContractFault == contractFaults < MaxFaults /\ contractFaults' = contractFaults + 1

-----------------------------------------------------------------------------
(* getOrCreateTodayContract. *)

OpenContract(r) ==
  /\ opening[r] = 0
  /\ opening' = [opening EXCEPT ![r] = today]
  /\ saw' = [saw EXCEPT ![r] = target[today] # 0]
  /\ UNCHANGED <<today, agentCount, contractRows, contractRedis, contractTick, mined, safe,
                 contractFaults>>

\* unique(userId, dateUTC): of two requests that found nothing one creates the row
\* and the other reads it back.  The answer prefers the buffer to the row.
ContractOpened(r) ==
  /\ opening[r] # 0
  /\ LET d == opening[r] IN
       target' = IF saw[r] \/ target[d] # 0 THEN target
                 ELSE [target EXCEPT ![d] = ContractTarget(agentCount)]
  /\ opening' = [opening EXCEPT ![r] = 0] /\ saw' = [saw EXCEPT ![r] = FALSE]
  /\ UNCHANGED <<today, agentCount, dbProgress, completed, contractStreak, contractRedis,
                 contractTick, mined, safe, contractFaults>>

Shown(d) == Larger(buffer[d], dbProgress[d])

-----------------------------------------------------------------------------
(* The tick: loadContractBoosts, loadActiveContracts, accrueContractProgress,*)
(* flushContractProgress.                                                    *)

ContractTickStarts ==
  /\ tickPc = "idle" /\ tickPc' = "mining" /\ tickDay' = today /\ touched' = FALSE
  /\ boostUntil' = IF boostUntil < today THEN 0 ELSE boostUntil
  /\ active' = (target[today] # 0 /\ ~completed[today])
  /\ seenProgress' = dbProgress[today]
  /\ UNCHANGED <<today, agentCount, contractRows, buffer, contractGets, next, mined, safe,
                 contractFaults>>

\* The buffer, or the row where the buffer has less.
Buffered == Larger(buffer[tickDay], seenProgress)

\* An agent has mined of the contract's resource.  The buffer is written before
\* anything else, and whether this completes the contract depends on what it had.
Accrue(amount) ==
  /\ tickPc = "mining" /\ active /\ mined[tickDay] + amount <= MaxMined
  /\ next' = Buffered + amount
  /\ buffer' = [buffer EXCEPT ![tickDay] = next']
  /\ touched' = TRUE
  /\ tickPc' = IF Buffered < target[tickDay] /\ next' >= target[tickDay]
               THEN "completing" ELSE "mining"
  /\ mined' = [mined EXCEPT ![tickDay] = @ + amount]
  /\ safe' = [safe EXCEPT ![tickDay] = @ + amount]
  /\ UNCHANGED <<today, agentCount, contractRows, boostUntil, contractGets, tickDay, active,
                 seenProgress, contractFaults>>

PersistCompletionApart(ok) ==   \* Variant: the streak is written on its own.
  /\ tickPc = "completing" /\ tickPc' = "boosting"
  /\ IF ok
     THEN /\ dbProgress' = [dbProgress EXCEPT ![tickDay] = next]
          /\ completed' = [completed EXCEPT ![tickDay] = TRUE]
          /\ UNCHANGED contractFaults
     ELSE ContractFault /\ UNCHANGED <<dbProgress, completed>>
  /\ contractStreak' = contractStreak + 1
  /\ UNCHANGED <<today, agentCount, target, contractRedis, contractGets, tickDay, active,
                 seenProgress, next, touched, mined, safe>>

\* The transaction over the contract and the user.  A failure is only logged.
PersistCompletion(ok) ==
  /\ tickPc = "completing" /\ tickPc' = "boosting"
  /\ IF ok
     THEN /\ dbProgress' = [dbProgress EXCEPT ![tickDay] = next]
          /\ completed' = [completed EXCEPT ![tickDay] = TRUE]
          /\ contractStreak' = contractStreak + 1
          /\ UNCHANGED contractFaults
     ELSE ContractFault /\ UNCHANGED <<dbProgress, completed, contractStreak>>
  /\ UNCHANGED <<today, agentCount, target, contractRedis, contractGets, tickDay, active,
                 seenProgress, next, touched, mined, safe>>

SetOwnerBoost ==
  /\ tickPc = "boosting" /\ tickPc' = "clearing"
  /\ boostUntil' = tickDay
  /\ UNCHANGED <<today, agentCount, contractRows, buffer, contractGets, tickDay, active,
                 seenProgress, next, touched, mined, safe, contractFaults>>

\* Its failure is ignored.  The contract leaves the tick's map either way.
ClearBuffer(ok) ==
  /\ tickPc = "clearing" /\ tickPc' = "mining" /\ active' = FALSE
  /\ IF ok THEN /\ buffer' = [buffer EXCEPT ![tickDay] = 0]
                /\ safe' = [safe EXCEPT ![tickDay] =
                               IF completed[tickDay] THEN @ ELSE dbProgress[tickDay]]
                /\ UNCHANGED contractFaults
     ELSE ContractFault /\ UNCHANGED <<buffer, safe>>
  /\ UNCHANGED <<today, agentCount, contractRows, boostUntil, contractGets, tickDay,
                 seenProgress, next, touched, mined>>

\* Every FLUSH_INTERVAL ticks the contracts this tick touched are written.
ContractTickEnds(flush) ==
  /\ tickPc = "mining" /\ tickPc' = "idle"
  /\ dbProgress' = IF flush /\ touched /\ active /\ buffer[tickDay] > seenProgress
                   THEN [dbProgress EXCEPT ![tickDay] = buffer[tickDay]] ELSE dbProgress
  /\ active' = FALSE
  /\ UNCHANGED <<today, agentCount, target, completed, contractStreak, contractRedis,
                 contractGets, tickDay, seenProgress, next, touched, mined, safe,
                 contractFaults>>

\* A Redis statement throws and ends the tick, or the process stops.
ContractTickBreaks ==
  /\ ContractFault /\ tickPc # "idle" /\ tickPc' = "idle" /\ active' = FALSE
  /\ opening' \in {opening, [r \in Requests |-> 0]}
  /\ saw' = [r \in Requests |-> IF opening'[r] = 0 THEN FALSE ELSE saw[r]]
  /\ UNCHANGED <<today, agentCount, contractRows, contractRedis, tickDay, seenProgress, next,
                 touched, mined, safe>>

RedisEmptied ==
  /\ ContractFault /\ tickPc = "idle"
  /\ buffer' = [d \in Days |-> 0] /\ boostUntil' = 0 /\ safe' = dbProgress
  /\ UNCHANGED <<today, agentCount, contractRows, contractGets, contractTick, mined>>

Midnight ==
  /\ today < MaxDay /\ today' = today + 1
  /\ UNCHANGED <<agentCount, contractRows, contractRedis, contractGets, contractTick, mined,
                 safe, contractFaults>>

AgentBought ==
  /\ agentCount < MaxAgents /\ agentCount' = agentCount + 1
  /\ UNCHANGED <<today, contractRows, contractRedis, contractGets, contractTick, mined, safe,
                 contractFaults>>

-----------------------------------------------------------------------------

ContractNext ==
  \/ \E r \in Requests : OpenContract(r) \/ ContractOpened(r)
  \/ \E amount \in 1..MaxAmount : Accrue(amount)
  \/ \E ok \in BOOLEAN : PersistCompletion(ok) \/ ClearBuffer(ok) \/ ContractTickEnds(ok)
  \/ ContractTickStarts \/ SetOwnerBoost \/ ContractTickBreaks \/ RedisEmptied
  \/ Midnight \/ AgentBought

ContractSpec == ContractInit /\ [][ContractNext]_contractVars

-----------------------------------------------------------------------------
(* Properties. *)

ContractTypeOK ==
  /\ today \in Days /\ agentCount \in 0..MaxAgents
  /\ target \in [Days -> 0..ContractTarget(MaxAgents)]
  /\ \A x \in {dbProgress, buffer, mined, safe} : x \in [Days -> 0..MaxMined]
  /\ completed \in [Days -> BOOLEAN] /\ contractStreak \in 0..MaxDay
  /\ boostUntil \in 0..MaxDay /\ tickDay \in Days
  /\ opening \in [Requests -> 0..MaxDay] /\ saw \in [Requests -> BOOLEAN]
  /\ tickPc \in {"idle", "mining", "completing", "boosting", "clearing"}
  /\ {active, touched} \subseteq BOOLEAN
  /\ contractFaults \in 0..MaxFaults

\* The streak counts the completed contracts: a completion that fails half way, is
\* cut off by a crash or reached a second time never counts twice or leaves a row
\* without its count (the transaction of accrueContractProgress).
StreakIsCompletions == contractStreak = Cardinality({d \in Days : completed[d]})

\* The progress a player is shown is what was mined less what a failure took: it is
\* not counted twice after a restart or a loss of Redis, and a flush with the rows
\* of an earlier moment takes nothing back (Buffered, flushContractProgress).
ProgressAddsUp == \A d \in Days : Shown(d) = safe[d]

\* The books of a player's contracts: the streak is the number of completions, and what a
\* day shows is what was done and has not been lost.
ContractBooks == StreakIsCompletions /\ ProgressAddsUp
=============================================================================
