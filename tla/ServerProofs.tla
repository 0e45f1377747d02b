---------------------------- MODULE ServerProofs ----------------------------
(***************************************************************************)
(* Proofs about the parts of the server beside the mining loop: the        *)
(* economy configuration, the daily contract, the stamps of the gold rush, *)
(* the seasons and the sky, for any number of readers, requests, players,  *)
(* runs of the script, fronts and faults, and of their composition, the    *)
(* Merkle tree of MerkleProofs in it.                                      *)
(***************************************************************************)
EXTENDS MCServer, MerkleProofs

-----------------------------------------------------------------------------
(* EconomyConfig. *)

\* Every step of a reader, of an edit and of the clock keeps a pause in force.
LEMMA PauseStep == ASSUME PauseHolds, [EconomyNext]_economyVars PROVE PauseHolds'
<1>1. CASE UNCHANGED economyVars
  BY <1>1 DEF PauseHolds, economyVars
<1>2. ASSUME NEW r \in Readers, ConfigAsked(r) PROVE PauseHolds'
  BY <1>2 DEF ConfigAsked, PauseHolds
<1>3. ASSUME NEW r \in Readers, ConfigRead(r) PROVE PauseHolds'
  BY <1>3 DEF ConfigRead, PauseHolds
<1>4. ASSUME NEW r \in Readers, ConfigStored(r) PROVE PauseHolds'
  BY <1>4 DEF ConfigStored, PauseHolds
<1>5. ASSUME NEW ok \in BOOLEAN, ConfigUpserted(ok) PROVE PauseHolds'
  BY <1>5 DEF ConfigUpserted, PauseHolds
<1>6. ASSUME NEW ok \in BOOLEAN, ConfigInvalidated(ok) PROVE PauseHolds'
  BY <1>6 DEF ConfigInvalidated, Invalidated, PauseHolds
<1>7. CASE CacheExpires
  BY <1>7 DEF CacheExpires, Invalidated, PauseHolds
<1> QED BY <1>1, <1>2, <1>3, <1>4, <1>5, <1>6, <1>7 DEF EconomyNext

\* A pause that was answered is what claims are checked against, whatever reads
\* and edits overlap, unless an old row was stored late or the invalidation failed.
THEOREM PauseIsKept == EconomySpec => []PauseHolds
<1>1. EconomyInit => PauseHolds
  BY DEF EconomyInit, PauseHolds
<1>2. PauseHolds /\ [EconomyNext]_economyVars => PauseHolds'
  BY PauseStep
<1> QED BY <1>1, <1>2, PTL DEF EconomySpec

-----------------------------------------------------------------------------
(* DailyContract. *)

\* A tick that may still complete a contract works on one that is not complete.
StreakInv ==
  /\ completed \in [Days -> BOOLEAN] /\ contractStreak \in Nat
  /\ today \in Days /\ tickDay \in Days
  /\ active \in BOOLEAN
  /\ tickPc = "completing" \/ (tickPc = "mining" /\ active) => ~completed[tickDay]
  /\ StreakIsCompletions

\* Completing one more contract makes one more completed contract.
LEMMA OneMoreCompleted ==
  ASSUME completed \in [Days -> BOOLEAN], NEW d \in Days, ~completed[d]
  PROVE  Cardinality({e \in Days : [completed EXCEPT ![d] = TRUE][e]})
           = Cardinality({e \in Days : completed[e]}) + 1
<1> DEFINE Done == {e \in Days : completed[e]}
<1>1. IsFiniteSet(Days)
  BY FS_Interval, ContractAssumption DEF Days
<1>2. IsFiniteSet(Done)
  BY <1>1, FS_Subset
<1>3. {e \in Days : [completed EXCEPT ![d] = TRUE][e]} = Done \cup {d}
  OBVIOUS
<1>4. d \notin Done
  OBVIOUS
<1> QED BY <1>2, <1>3, <1>4, FS_AddElement

LEMMA StreakStart == ASSUME ContractInit PROVE StreakInv
<1>1. {d \in Days : completed[d]} = {}
  BY DEF ContractInit
<1>2. 1 \in Days
  BY ContractAssumption DEF Days
<1> QED BY <1>1, <1>2, FS_EmptySet DEF ContractInit, StreakInv, StreakIsCompletions

LEMMA StreakStep == ASSUME StreakInv, [ContractNext]_contractVars PROVE StreakInv'
<1> USE DEF StreakInv, StreakIsCompletions, contractRows, contractRedis, contractGets,
            contractTick
<1>1. CASE UNCHANGED contractVars
  BY <1>1 DEF contractVars
<1>2. ASSUME NEW r \in Requests, OpenContract(r) \/ ContractOpened(r) PROVE StreakInv'
  BY <1>2 DEF OpenContract, ContractOpened
<1>3. ASSUME NEW amount \in 1..MaxAmount, Accrue(amount) PROVE StreakInv'
  BY <1>3 DEF Accrue
<1>4. ASSUME NEW ok \in BOOLEAN, PersistCompletion(ok) PROVE StreakInv'
  <2>1. CASE ok
    <3>1. /\ completed' = [completed EXCEPT ![tickDay] = TRUE]
          /\ contractStreak' = contractStreak + 1 /\ ~completed[tickDay]
      BY <1>4, <2>1 DEF PersistCompletion
    <3>2. Cardinality({d \in Days : completed'[d]})
            = Cardinality({d \in Days : completed[d]}) + 1
      BY <3>1, OneMoreCompleted
    <3>3. StreakIsCompletions'
      BY <3>1, <3>2
    <3> QED BY <1>4, <2>1, <3>1, <3>3 DEF PersistCompletion
  <2>2. CASE ~ok
    BY <1>4, <2>2 DEF PersistCompletion
  <2> QED BY <2>1, <2>2
<1>5. ASSUME NEW ok \in BOOLEAN, ClearBuffer(ok) PROVE StreakInv'
  BY <1>5 DEF ClearBuffer
<1>6. ASSUME NEW ok \in BOOLEAN, ContractTickEnds(ok) PROVE StreakInv'
  BY <1>6 DEF ContractTickEnds
<1>7. CASE ContractTickStarts
  BY <1>7 DEF ContractTickStarts
<1>8. CASE SetOwnerBoost
  BY <1>8 DEF SetOwnerBoost
<1>9. CASE ContractTickBreaks
  BY <1>9 DEF ContractTickBreaks
<1>10. CASE RedisEmptied
  BY <1>10 DEF RedisEmptied
<1>11. CASE Midnight
  <2>1. today' \in Days
    BY <1>11, ContractAssumption DEF Midnight, Days
  <2> QED BY <1>11, <2>1 DEF Midnight
<1>12. CASE AgentBought
  BY <1>12 DEF AgentBought
<1> QED BY <1>1, <1>2, <1>3, <1>4, <1>5, <1>6, <1>7, <1>8, <1>9, <1>10, <1>11, <1>12
    DEF ContractNext

\* What the tick holds of its contract is what the row holds, until it is written; a
\* completed contract is safe in its row.
ProgressInv ==
  /\ \A x \in {buffer, dbProgress, mined, safe} : x \in [Days -> Nat]
  /\ seenProgress \in Nat /\ next \in Nat
  /\ tickPc = "mining" /\ active => seenProgress = dbProgress[tickDay]
  /\ tickPc = "completing" => next = buffer[tickDay] /\ next = safe[tickDay]
                              /\ dbProgress[tickDay] <= next
  /\ tickPc \in {"boosting", "clearing"} /\ completed[tickDay] =>
       dbProgress[tickDay] = safe[tickDay]
  /\ ProgressAddsUp

LEMMA ProgressStart == ASSUME ContractInit PROVE ProgressInv
  BY DEF ContractInit, ProgressInv, ProgressAddsUp, Shown, Larger

LEMMA ProgressStep ==
  ASSUME StreakInv, ProgressInv, [ContractNext]_contractVars PROVE ProgressInv'
<1> USE DEF ProgressInv, ProgressAddsUp, Shown, Larger, contractRows, contractRedis,
            contractGets, contractTick
<1>0. tickDay \in Days /\ completed \in [Days -> BOOLEAN]
  BY DEF StreakInv
<1>1. CASE UNCHANGED contractVars
  BY <1>1 DEF contractVars
<1>2. ASSUME NEW r \in Requests, OpenContract(r) \/ ContractOpened(r) PROVE ProgressInv'
  <2>1. UNCHANGED <<dbProgress, completed, contractRedis, contractTick, mined, safe>>
    BY <1>2 DEF OpenContract, ContractOpened
  <2> QED BY <2>1
<1>3. ASSUME NEW amount \in 1..MaxAmount, Accrue(amount) PROVE ProgressInv'
  <2>1. /\ next' = Buffered + amount /\ buffer' = [buffer EXCEPT ![tickDay] = next']
        /\ mined' = [mined EXCEPT ![tickDay] = @ + amount]
        /\ safe' = [safe EXCEPT ![tickDay] = @ + amount]
        /\ UNCHANGED <<dbProgress, tickDay, active, seenProgress>>
        /\ active /\ tickPc = "mining" /\ tickPc' \in {"mining", "completing"}
    BY <1>3 DEF Accrue
  <2>2. amount \in Nat
    OBVIOUS
  <2>3. Buffered = safe[tickDay] /\ Buffered \in Nat /\ dbProgress[tickDay] <= Buffered
    BY <1>0, <2>1 DEF Buffered
  <2> QED BY <1>0, <2>1, <2>2, <2>3
<1>4. ASSUME NEW ok \in BOOLEAN, PersistCompletion(ok) PROVE ProgressInv'
  <2>1. CASE ok
    BY <1>0, <1>4, <2>1 DEF PersistCompletion
  <2>2. CASE ~ok
    <3>1. /\ UNCHANGED <<dbProgress, completed, buffer, tickDay, seenProgress, next, mined, safe>>
          /\ tickPc' = "boosting" /\ ~completed[tickDay]
      BY <1>4, <2>2 DEF PersistCompletion, StreakInv
    <3> QED BY <3>1
  <2> QED BY <2>1, <2>2
<1>5. ASSUME NEW ok \in BOOLEAN, ClearBuffer(ok) PROVE ProgressInv'
  <2>1. CASE ok
    BY <1>0, <1>5, <2>1 DEF ClearBuffer
  <2>2. CASE ~ok
    BY <1>5, <2>2 DEF ClearBuffer
  <2> QED BY <2>1, <2>2
<1>6. ASSUME NEW ok \in BOOLEAN, ContractTickEnds(ok) PROVE ProgressInv'
  BY <1>0, <1>6 DEF ContractTickEnds
<1>7. CASE ContractTickStarts
  BY <1>7 DEF ContractTickStarts, StreakInv
<1>8. CASE SetOwnerBoost
  BY <1>8 DEF SetOwnerBoost
<1>9. CASE ContractTickBreaks
  BY <1>9 DEF ContractTickBreaks
<1>10. CASE RedisEmptied
  BY <1>10 DEF RedisEmptied
<1>11. CASE Midnight
  BY <1>11 DEF Midnight
<1>12. CASE AgentBought
  BY <1>12 DEF AgentBought
<1> QED BY <1>1, <1>2, <1>3, <1>4, <1>5, <1>6, <1>7, <1>8, <1>9, <1>10, <1>11, <1>12
    DEF ContractNext

\* The streak counts the completed contracts, and what a player is shown is what was
\* mined less what a failure took, over failed transactions, crashes and losses of Redis.
THEOREM ContractBooksKept == ContractSpec => []ContractBooks
<1>1. ContractInit => StreakInv /\ ProgressInv
  BY StreakStart, ProgressStart
<1>2. (StreakInv /\ ProgressInv) /\ [ContractNext]_contractVars => (StreakInv /\ ProgressInv)'
  BY StreakStep, ProgressStep
<1>3. StreakInv /\ ProgressInv => ContractBooks
  BY DEF StreakInv, ProgressInv, ContractBooks
<1> QED BY <1>1, <1>2, <1>3, PTL DEF ContractSpec

-----------------------------------------------------------------------------
(* GoldRush. *)

\* Who is seen during a rush, or at its very end, is present in it.
SeenAt(u, t) ==
  IsRushActive(t) \/ t = WindowEnd(WindowIndex(t)) => <<u, WindowIndex(t)>> \in present

\* Every stamp, written or on its way, is of somebody who was seen; those on their way
\* are of this very moment, and the throttle is of it or was reset.
StampInv ==
  /\ now \in 0..MaxTime
  /\ lastActiveAt \in [Players -> Int] /\ lastWrite \in [Players -> Int]
  /\ writing \subseteq Players \X {now}
  /\ \A u \in Players : /\ lastActiveAt[u] >= 0 => SeenAt(u, lastActiveAt[u])
                        /\ <<u, now>> \in writing =>
                             SeenAt(u, now) /\ lastWrite[u] \in {-1, now}
  /\ ThrottleHidesNobody

\* Windows do not overlap, and a moment between the two ends of a rush is in its window.
LEMMA WindowOf ==
  ASSUME NEW w \in Nat, NEW t \in WindowStart(w)..WindowEnd(w)
  PROVE  WindowIndex(t) = w /\ (IsRushActive(t) \/ t = WindowEnd(WindowIndex(t)))
<1>1. /\ RUSH_INTERVAL \in Nat \ {0} /\ RUSH_DURATION \in Nat /\ RUSH_DURATION < RUSH_INTERVAL
  BY RushAssumption
<1>2. w * RUSH_INTERVAL \in Nat
  BY <1>1
<1>3. t \in Nat /\ t >= w * RUSH_INTERVAL /\ t < w * RUSH_INTERVAL + RUSH_INTERVAL
  BY <1>1, <1>2 DEF WindowStart, WindowEnd
<1>4. t \div RUSH_INTERVAL = w
  BY <1>1, <1>3
<1> QED BY <1>4, <1>1, <1>2, <1>3 DEF WindowIndex, IsRushActive, WindowEnd, WindowStart

LEMMA IndexInRange ==
  ASSUME NEW t \in 0..MaxTime
  PROVE  WindowIndex(t) \in RushWindows /\ WindowIndex(t) \in Nat
<1>1. RUSH_INTERVAL \in Nat \ {0} /\ MaxTime \in Nat
  BY RushAssumption
<1> QED BY <1>1 DEF WindowIndex, RushWindows

LEMMA StampStart == ASSUME RushInit PROVE StampInv
  BY RushAssumption DEF RushInit, StampInv, ThrottleHidesNobody

\* Who was seen stays seen.
LEMMA SeenStays ==
  ASSUME present \subseteq present' PROVE \A u, t : SeenAt(u, t) => SeenAt(u, t)'
  BY DEF SeenAt

LEMMA StampStep == ASSUME StampInv, [RushNext]_rushVars PROVE StampInv'
<1> USE DEF StampInv, ThrottleHidesNobody
<1>1. ASSUME UNCHANGED <<now, stamps, present>> PROVE StampInv'
  BY <1>1, SeenStays DEF stamps
<1>2. CASE TimePasses
  <2>1. now' = now + 1 /\ now < MaxTime /\ writing = {} /\ UNCHANGED <<stamps, present>>
    BY <1>2 DEF rushHistory, TimePasses
  <2>2. now' \in 0..MaxTime
    BY <2>1, RushAssumption
  <2> QED BY <2>1, <2>2, SeenStays DEF stamps
<1>3. ASSUME NEW u \in Players, Touch(u) PROVE StampInv'
  <2>1. present \subseteq present' /\ UNCHANGED <<now, lastActiveAt>>
    BY <1>3 DEF Touch
  <2>2. SeenAt(u, now)'
    <3>1. CASE IsRushActive(now) \/ now = WindowEnd(WindowIndex(now))
      BY <1>3, <2>1, <3>1 DEF Touch, SeenAt
    <3>2. CASE ~(IsRushActive(now) \/ now = WindowEnd(WindowIndex(now)))
      BY <2>1, <3>2 DEF SeenAt
    <3> QED BY <3>1, <3>2
  <2>5. \A v \in Players, t \in Int : SeenAt(v, t) => SeenAt(v, t)'
    BY <2>1, SeenStays
  <2>3. CASE lastWrite[u] = now
    BY <1>3, <2>1, <2>3, <2>5 DEF Touch
  <2>4. CASE lastWrite[u] # now
    <3>1. /\ lastWrite' = [lastWrite EXCEPT ![u] = now]
          /\ writing' = writing \cup {<<u, now>>}
      BY <1>3, <2>4 DEF Touch
    <3> QED BY <2>1, <2>2, <2>5, <3>1
  <2> QED BY <2>3, <2>4
<1>4. ASSUME NEW ok \in BOOLEAN, TouchWritten(ok) PROVE StampInv'
  <2>1. PICK write \in writing :
          /\ writing' = writing \ {write}
          /\ IF ok
             THEN /\ lastActiveAt' = [lastActiveAt EXCEPT ![write[1]] = write[2]]
                  /\ UNCHANGED <<lastWrite, troubles>>
             ELSE /\ Trouble /\ UNCHANGED lastActiveAt
                  /\ lastWrite' = [lastWrite EXCEPT ![write[1]] = IF @ = write[2] THEN -1 ELSE @]
    BY <1>4 DEF TouchWritten
  <2>2. UNCHANGED <<now, present>>
    BY <1>4 DEF rushHistory, TouchWritten
  <2>3. write = <<write[1], now>> /\ write[1] \in Players /\ write[2] = now
    OBVIOUS
  <2>6. \A v \in Players, t \in Int : SeenAt(v, t) => SeenAt(v, t)'
    BY <2>2, SeenStays
  <2>4. CASE ok
    BY <2>1, <2>2, <2>3, <2>4, <2>6
  <2>5. CASE ~ok
    <3>1. lastWrite' \in [Players -> Int] /\ UNCHANGED lastActiveAt
      BY <2>1, <2>3, <2>5
    <3>2. \A u \in Players : lastWrite'[u] =
            IF u = write[1] /\ lastWrite[u] = now THEN -1 ELSE lastWrite[u]
      BY <2>1, <2>3, <2>5
    <3>3. ThrottleHidesNobody'
      BY <2>1, <2>2, <2>3, <3>1, <3>2
    <3> QED BY <2>1, <2>2, <2>3, <2>6, <3>1, <3>2, <3>3
  <2> QED BY <2>4, <2>5
<1>5. ASSUME NEW ok \in BOOLEAN, RehydrateGoldRush(ok) PROVE StampInv'
  BY <1>1, <1>5 DEF RehydrateGoldRush
<1>6. CASE RushTickMoves
  BY <1>1, <1>6 DEF rushHistory, RushTickMoves, RushTickStarts, SettleRush, GrantBoosts, OpenRush,
                    MarkSettled, AccrueRush
<1>7. CASE RushTickThrows
  BY <1>1, <1>7 DEF rushHistory, RushTickThrows
<1>8. CASE RushCrash
  BY <1>8, SeenStays DEF rushHistory, RushCrash
<1>9. CASE UNCHANGED rushVars
  BY <1>1, <1>9 DEF rushHistory, rushVars
<1> QED BY <1>2, <1>3, <1>4, <1>5, <1>6, <1>7, <1>8, <1>9 DEF RushNext

RushRecord == [window : RushWindows, progress : Nat, target : Nat, achieved : BOOLEAN,
               boostUntil : Int]

\* A record claims no more than was mined, and an achieved one its target.
Honest(q) ==
  q # <<>> =>
    /\ q = <<q[1]>> /\ q[1] \in RushRecord /\ q[1].target >= RUSH_TARGET_MIN
    /\ q[1].progress <= rushMined[q[1].window]
    /\ q[1].achieved => q[1].progress >= q[1].target

RecordInv ==
  /\ rushMined \in [RushWindows -> Nat] /\ rushNow \in 0..MaxTime
  /\ boosted \in [Players -> Int]
  /\ Honest(record) /\ Honest(stored)
  /\ rushPc = "grant" => /\ record # <<>> /\ record[1].achieved
                         /\ \A u \in winners : <<u, record[1].window>> \in present
  /\ rushPc = "mark" => record # <<>>
  /\ ~serving => rushPc = "idle"
  /\ BoostWasEarned

LEMMA RecordStart == ASSUME RushInit PROVE RecordInv
  BY RushAssumption DEF RushInit, RecordInv, Honest, BoostWasEarned

LEMMA TargetIsEnough ==
  ASSUME NEW n \in 0..MaxMiners
  PROVE  RushTarget(n) \in Nat /\ RushTarget(n) >= RUSH_TARGET_MIN
<1>1. /\ RUSH_TARGET_PER_AGENT \in Nat /\ RUSH_TARGET_MIN \in Nat /\ MaxMiners \in Nat
  BY RushAssumption
<1>2. n \in Nat /\ RUSH_TARGET_PER_AGENT * n \in Nat
  BY <1>1
<1> DEFINE p == RUSH_TARGET_PER_AGENT * n
<1>3. RushTarget(n) = IF p > RUSH_TARGET_MIN THEN p ELSE RUSH_TARGET_MIN
  BY DEF RushTarget
<1>4. p \in Nat
  BY <1>2
<1> HIDE DEF p
<1> QED BY <1>1, <1>3, <1>4

\* Steps that leave records, boosts and the mined amounts alone.
LEMMA RecordsStand ==
  ASSUME RecordInv, UNCHANGED <<record, stored, boosted, rushMined>>, rushNow' \in 0..MaxTime,
         present \subseteq present',
         rushPc' = "grant" => rushPc = "grant" /\ winners' = winners,
         rushPc' = "mark" => rushPc = "mark", ~serving' => rushPc' = "idle"
  PROVE  RecordInv'
<1>1. Honest(record)' /\ Honest(stored)'
  BY DEF RecordInv, Honest
<1>2. BoostWasEarned'
  BY DEF RecordInv, BoostWasEarned
<1> QED BY <1>1, <1>2 DEF RecordInv

\* The players that settling finds were seen in the rush.
LEMMA WinnersWereThere ==
  ASSUME StampInv, NEW w \in RushWindows, NEW u \in UsersActiveInWindow(w)
  PROVE  <<u, w>> \in present
<1>1. w \in Nat
  BY RushAssumption DEF RushWindows, WindowIndex
<1>2. u \in Players /\ lastActiveAt[u] \in WindowStart(w)..WindowEnd(w)
  BY DEF UsersActiveInWindow
<1>3. WindowStart(w) \in Nat
  BY <1>1, RushAssumption DEF WindowStart
<1>4. lastActiveAt[u] \in Int /\ lastActiveAt[u] >= WindowStart(w)
  BY <1>2, <1>3 DEF StampInv
<1>5. lastActiveAt[u] >= 0
  BY <1>3, <1>4
<1>6. SeenAt(u, lastActiveAt[u])
  BY <1>2, <1>5 DEF StampInv
<1> QED BY <1>1, <1>2, <1>6, WindowOf DEF SeenAt

LEMMA RecordStep == ASSUME StampInv, RecordInv, [RushNext]_rushVars PROVE RecordInv'
<1>1. CASE TimePasses
  BY <1>1, RecordsStand DEF rushHistory, TimePasses, rushState, RecordInv
<1>2. ASSUME NEW u \in Players, Touch(u) PROVE RecordInv'
  <2>1. present \subseteq present' /\ UNCHANGED <<serving, rushState, rushMined>>
    BY <1>2 DEF Touch
  <2> QED BY <2>1, RecordsStand DEF rushState, RecordInv
<1>3. ASSUME NEW ok \in BOOLEAN, TouchWritten(ok) PROVE RecordInv'
  BY <1>3, RecordsStand DEF rushHistory, TouchWritten, rushState, RecordInv
<1>4. ASSUME NEW ok \in BOOLEAN, RehydrateGoldRush(ok) PROVE RecordInv'
  <2>1. /\ record' \in {stored, <<>>}
        /\ UNCHANGED <<stored, boosted, rushPc, rushNow, winners, rushMined, present>>
    BY <1>4 DEF RehydrateGoldRush
  <2>2. rushPc \notin {"grant", "mark"}
    BY <1>4 DEF RehydrateGoldRush, RecordInv
  <2> QED BY <1>4, <2>1, <2>2 DEF RehydrateGoldRush, RecordInv, Honest, BoostWasEarned
<1>5. CASE RushTickStarts
  BY <1>5, RecordsStand DEF rushHistory, RushTickStarts, StampInv
<1>6. ASSUME NEW ok \in BOOLEAN, OpenRush(ok) PROVE RecordInv'
  <2>1. PICK n \in 0..MaxMiners :
          record' = <<[window |-> WindowIndex(rushNow), progress |-> 0,
                       target |-> RushTarget(n), achieved |-> FALSE, boostUntil |-> 0]>>
    BY <1>6 DEF OpenRush
  <2>2. WindowIndex(rushNow) \in RushWindows
    BY IndexInRange DEF RecordInv
  <2>3. UNCHANGED <<serving, boosted, rushNow, rushMined, present>> /\ rushPc' = "settle"
    BY <1>6 DEF OpenRush
  <2>4. Honest(record)'
    BY <2>1, <2>2, <2>3, TargetIsEnough DEF Honest, RushRecord, RecordInv
  <2>5. stored' \in {stored, record'}
    BY <1>6 DEF OpenRush, Persist
  <2>6. Honest(stored)'
    BY <2>3, <2>4, <2>5 DEF Honest, RecordInv
  <2>7. serving
    BY <1>6 DEF OpenRush, RecordInv
  <2> QED BY <2>3, <2>4, <2>6, <2>7 DEF RecordInv, BoostWasEarned
<1>7. CASE SettleRush
  <2>1. UNCHANGED <<serving, record, stored, boosted, rushNow, rushMined, present>>
    BY <1>7 DEF rushHistory, SettleRush
  <2>2. Honest(record)' /\ Honest(stored)' /\ BoostWasEarned'
    BY <2>1 DEF RecordInv, Honest, BoostWasEarned
  <2>3. CASE Due
    <3>1. record # <<>> /\ record[1].achieved /\ record[1].window \in RushWindows
      BY <2>3 DEF Due, Unsettled, RecordInv, Honest, RushRecord
    <3>2. winners' = UsersActiveInWindow(record[1].window) /\ rushPc' = "grant"
      BY <1>7, <2>3 DEF SettleRush
    <3>3. \A u \in winners' : <<u, record[1].window>> \in present
      BY <3>1, <3>2, WinnersWereThere
    <3> QED BY <1>7, <2>1, <2>2, <3>1, <3>2, <3>3 DEF SettleRush, RecordInv
  <2>4. CASE ~Due
    BY <1>7, <2>1, <2>2, <2>4 DEF SettleRush, RecordInv
  <2> QED BY <2>3, <2>4
<1>8. CASE GrantBoosts
  <2>1. /\ UNCHANGED <<serving, record, stored, rushNow, winners, rushMined, present>>
        /\ rushPc = "grant" /\ rushPc' = "mark"
        /\ boosted' = [u \in Players |-> IF u \in winners
                         THEN WindowEnd(record[1].window) + GOLD_RUSH_BOOST_MS ELSE boosted[u]]
    BY <1>8 DEF rushHistory, GrantBoosts
  <2> DEFINE w == record[1].window
  <2>2. /\ record # <<>> /\ w \in RushWindows /\ record[1].achieved
        /\ record[1].progress \in Nat /\ record[1].target \in Nat
    BY <2>1 DEF RecordInv, Honest, RushRecord
  <2>3. rushMined[w] >= RUSH_TARGET_MIN
    BY <2>2, RushAssumption DEF RecordInv, Honest
  <2>4. w \in Nat
    BY <2>2, RushAssumption DEF RushWindows, WindowIndex
  <2>5. WindowEnd(w) + GOLD_RUSH_BOOST_MS \in Int
    BY <2>4, RushAssumption DEF WindowEnd, WindowStart
  <2>6. boosted' \in [Players -> Int]
    BY <2>1, <2>5 DEF RecordInv
  <2>7. BoostWasEarned'
    <3> SUFFICES ASSUME NEW u \in Players, boosted'[u] # 0
                 PROVE  \E v \in RushWindows : /\ boosted'[u] = WindowEnd(v) + GOLD_RUSH_BOOST_MS
                                               /\ rushMined[v] >= RUSH_TARGET_MIN
                                               /\ <<u, v>> \in present
      BY <2>1 DEF BoostWasEarned
    <3>1. CASE u \in winners
      <4>1. <<u, w>> \in present
        BY <2>1, <3>1 DEF RecordInv
      <4>2. boosted'[u] = WindowEnd(w) + GOLD_RUSH_BOOST_MS
        BY <2>1, <3>1
      <4> QED BY <4>1, <4>2, <2>2, <2>3
    <3>2. CASE u \notin winners
      BY <2>1, <3>2 DEF RecordInv, BoostWasEarned
    <3> QED BY <3>1, <3>2
  <2>8. Honest(record)' /\ Honest(stored)'
    BY <2>1 DEF RecordInv, Honest
  <2> QED BY <2>1, <2>2, <2>6, <2>7, <2>8 DEF RecordInv
<1>9. ASSUME NEW ok \in BOOLEAN, MarkSettled(ok) PROVE RecordInv'
  <2>1. /\ UNCHANGED <<serving, boosted, rushNow, rushMined, present>> /\ rushPc' = "accrue"
        /\ rushPc = "mark" /\ stored' \in {stored, record'}
        /\ record' = [record EXCEPT ![1].boostUntil =
                        WindowEnd(record[1].window) + GOLD_RUSH_BOOST_MS]
    BY <1>9 DEF MarkSettled, Persist
  <2>2. record # <<>> /\ serving
    BY <2>1 DEF RecordInv
  <2> DEFINE old == record[1]
             until == WindowEnd(old.window) + GOLD_RUSH_BOOST_MS
  <2>3. record = <<old>> /\ old \in RushRecord
    BY <2>2 DEF RecordInv, Honest
  <2>4. old.window \in Nat
    BY <2>3, RushAssumption DEF RushRecord, RushWindows, WindowIndex
  <2>5. until \in Int
    BY <2>4, RushAssumption DEF WindowEnd, WindowStart
  <2>6. record' = <<[old EXCEPT !.boostUntil = until]>>
    BY <2>1, <2>3
  <2>7. Honest(record)'
    <3> DEFINE new == [old EXCEPT !.boostUntil = until]
    <3>1. /\ new \in RushRecord /\ new.window = old.window /\ new.progress = old.progress
          /\ new.target = old.target /\ new.achieved = old.achieved
      BY <2>3, <2>5 DEF RushRecord
    <3>2. /\ old.target >= RUSH_TARGET_MIN /\ old.progress <= rushMined[old.window]
          /\ old.achieved => old.progress >= old.target
      BY <2>2 DEF RecordInv, Honest
    <3>3. record' = <<new>>
      BY <2>6
    <3> HIDE DEF new, until, old
    <3>4. record'[1] = new /\ record' = <<record'[1]>>
      BY <3>3
    <3> QED BY <2>1, <3>1, <3>2, <3>4 DEF Honest
  <2>8. Honest(stored)' /\ BoostWasEarned'
    BY <2>1, <2>7 DEF RecordInv, Honest, BoostWasEarned
  <2> QED BY <2>1, <2>2, <2>7, <2>8 DEF RecordInv
<1>10. ASSUME NEW ok \in BOOLEAN, NEW amount \in 0..MaxYield, AccrueRush(amount, ok)
       PROVE  RecordInv'
  <2>1. /\ UNCHANGED <<serving, rushNow, present>> /\ rushPc' = "idle"
        /\ boosted' = [u \in Players |-> IF boosted[u] > rushNow THEN boosted[u] ELSE 0]
    BY <1>10 DEF AccrueRush
  <2>2. boosted' \in [Players -> Int] /\ \A u \in Players : boosted'[u] \in {0, boosted[u]}
    BY <2>1 DEF RecordInv
  <2>3. amount \in Nat
    BY RushAssumption
  <2> DEFINE old == record[1]
             more == old.progress + amount
  <2>4. CASE /\ amount > 0 /\ record # <<>> /\ IsRushActive(rushNow)
             /\ record[1].window = WindowIndex(rushNow) /\ ~record[1].achieved
    <3>1. /\ record' = [record EXCEPT ![1].progress = @ + amount,
                          ![1].achieved = record[1].progress + amount >= record[1].target]
          /\ rushMined' = [rushMined EXCEPT ![record[1].window] = @ + amount]
          /\ stored' \in {stored, record'}
      BY <1>10, <2>4 DEF AccrueRush, Persist
    <3>2. /\ record = <<old>> /\ old \in RushRecord /\ old.target >= RUSH_TARGET_MIN
          /\ old.progress <= rushMined[old.window] /\ old.window \in RushWindows
          /\ old.progress \in Nat /\ old.target \in Nat
      BY <2>4 DEF RecordInv, Honest, RushRecord
    <3>3. record' = <<[[old EXCEPT !.progress = more] EXCEPT !.achieved = (more >= old.target)]>>
      BY <3>1, <3>2
    <3>4. /\ rushMined' \in [RushWindows -> Nat]
          /\ \A v \in RushWindows : rushMined'[v] >= rushMined[v]
          /\ rushMined'[old.window] = rushMined[old.window] + amount
      BY <2>3, <3>1, <3>2 DEF RecordInv
    <3>5. Honest(record)'
      <4>1. more \in Nat /\ (more >= old.target) \in BOOLEAN
        BY <2>3, <3>2
      <4> DEFINE new == [[old EXCEPT !.progress = more] EXCEPT !.achieved = (more >= old.target)]
      <4>2. /\ new \in RushRecord /\ new.window = old.window /\ new.progress = more
            /\ new.target = old.target /\ new.achieved = (more >= old.target)
        BY <3>2, <4>1 DEF RushRecord
      <4>3. more <= rushMined'[old.window]
        BY <2>3, <3>2, <3>4 DEF RecordInv
      <4>4. record' = <<new>>
        BY <3>3
      <4> HIDE DEF new, more, old
      <4>5. record'[1] = new /\ record' = <<record'[1]>>
        BY <4>4
      <4> QED BY <3>2, <4>2, <4>3, <4>5 DEF Honest
    <3>6. Honest(stored)'
      <4>1. CASE stored' = stored
        BY <3>4, <4>1 DEF Honest, RushRecord, RecordInv
      <4>2. CASE stored' = record'
        BY <3>5, <4>2 DEF Honest
      <4> QED BY <3>1, <4>1, <4>2
    <3>7. BoostWasEarned'
      <4> SUFFICES ASSUME NEW u \in Players, boosted'[u] # 0
                   PROVE  \E v \in RushWindows : /\ boosted'[u] = WindowEnd(v) + GOLD_RUSH_BOOST_MS
                                                 /\ rushMined'[v] >= RUSH_TARGET_MIN
                                                 /\ <<u, v>> \in present
        BY <2>1 DEF BoostWasEarned
      <4>1. PICK v \in RushWindows : /\ boosted[u] = WindowEnd(v) + GOLD_RUSH_BOOST_MS
                                     /\ rushMined[v] >= RUSH_TARGET_MIN
                                     /\ <<u, v>> \in present
        <5>1. boosted[u] # 0
          BY <2>2
        <5> QED BY <5>1 DEF RecordInv, BoostWasEarned
      <4>2. rushMined[v] \in Nat /\ rushMined'[v] \in Nat /\ RUSH_TARGET_MIN \in Nat
        BY <3>4, RushAssumption DEF RecordInv
      <4>3. boosted'[u] = boosted[u]
        BY <2>2
      <4>4. rushMined'[v] >= RUSH_TARGET_MIN
        BY <3>4, <4>1, <4>2
      <4> QED BY <4>1, <4>3, <4>4
    <3> QED BY <2>1, <2>2, <3>4, <3>5, <3>6, <3>7 DEF RecordInv
  <2>5. CASE ~(/\ amount > 0 /\ record # <<>> /\ IsRushActive(rushNow)
               /\ record[1].window = WindowIndex(rushNow) /\ ~record[1].achieved)
    <3>1. UNCHANGED <<record, stored, rushMined>>
      BY <1>10, <2>5 DEF AccrueRush
    <3>2. Honest(record)' /\ Honest(stored)'
      BY <3>1 DEF RecordInv, Honest
    <3>3. BoostWasEarned'
      BY <2>1, <2>2, <3>1 DEF RecordInv, BoostWasEarned
    <3> QED BY <2>1, <2>2, <3>1, <3>2, <3>3 DEF RecordInv
  <2> QED BY <2>4, <2>5
<1>11. CASE RushTickThrows
  BY <1>11, RecordsStand DEF rushHistory, RushTickThrows, RecordInv
<1>12. CASE RushCrash
  BY <1>12 DEF rushHistory, RushCrash, RecordInv, Honest, BoostWasEarned
<1>13. CASE UNCHANGED rushVars
  BY <1>13, RecordsStand DEF rushHistory, rushVars, rushState, RecordInv
<1> QED BY <1>1, <1>2, <1>3, <1>4, <1>5, <1>6, <1>7, <1>8, <1>9, <1>10, <1>11, <1>12, <1>13
    DEF RushNext, RushTickMoves

\* A record is of a rush that has opened, and one that is not achieved is not settled.
Dated(q) == q # <<>> => /\ q[1].window <= WindowIndex(rushNow)
                        /\ ~q[1].achieved => q[1].boostUntil = 0

\* The record of an achieved rush that waits to be settled.
Waits(q, w) == q # <<>> /\ q[1].achieved /\ q[1].boostUntil = 0 /\ q[1].window = w

\* Where an achieved rush is remembered: in memory, and with nothing gone wrong in Redis
\* as well; by a server that is down, in Redis, unless more than the crash went wrong.
Remembered(w) ==
  /\ serving  => Waits(record, w) /\ (stored = record \/ troubles >= 1)
  /\ ~serving => troubles >= 1 /\ (Waits(stored, w) \/ troubles >= 2)

FateInv ==
  /\ fate \in [RushWindows -> {"none", "won", "settled", "overrun", "unread"}]
  /\ attended \subseteq RushWindows /\ troubles \in Nat /\ serving \in BOOLEAN
  /\ rushNow <= now
  /\ Dated(record) /\ Dated(stored)
  /\ rushPc = "open" => record = <<>> \/ record[1].window # WindowIndex(rushNow)
  /\ rushPc = "accrue" => ~Due
  /\ rushPc \in {"grant", "mark"} => record # <<>> /\ record[1].achieved
  /\ \A w \in attended : WindowEnd(w) <= rushNow
  /\ \A w \in RushWindows :
       /\ fate[w] = "won"     => w \notin attended /\ Remembered(w)
       /\ fate[w] = "overrun" => w \notin attended /\ w < WindowIndex(rushNow)
       /\ fate[w] = "unread"  => troubles > 1

LEMMA IndexGrows ==
  ASSUME NEW s \in Nat, NEW t \in Nat, s <= t PROVE WindowIndex(s) <= WindowIndex(t)
<1>1. RUSH_INTERVAL \in Nat \ {0}
  BY RushAssumption
<1> DEFINE q == s \div RUSH_INTERVAL  r == s % RUSH_INTERVAL
           p == t \div RUSH_INTERVAL  o == t % RUSH_INTERVAL
<1>2. /\ q \in Nat /\ p \in Nat /\ r \in 0..RUSH_INTERVAL - 1 /\ o \in 0..RUSH_INTERVAL - 1
      /\ s = RUSH_INTERVAL * q + r /\ t = RUSH_INTERVAL * p + o
  BY <1>1
<1> HIDE DEF q, p, r, o
<1>3. SUFFICES ASSUME q > p PROVE FALSE
  BY <1>2 DEF WindowIndex, q, p
<1>4. RUSH_INTERVAL * q >= RUSH_INTERVAL * (p + 1)
  BY <1>1, <1>2, <1>3
<1>5. RUSH_INTERVAL * (p + 1) = RUSH_INTERVAL * p + RUSH_INTERVAL
  BY <1>1, <1>2
<1>6. RUSH_INTERVAL * q \in Int /\ RUSH_INTERVAL * p \in Int
  BY <1>1, <1>2
<1> QED BY <1>1, <1>2, <1>4, <1>5, <1>6

LEMMA FateStart == ASSUME RushInit PROVE FateInv
  BY RushAssumption DEF RushInit, FateInv, Dated, Due

\* Steps that leave the records, the clock of the tick and the history alone.
LEMMA FateStands ==
  ASSUME FateInv, UNCHANGED <<serving, record, stored, rushNow, fate, attended>>,
         now' >= now, now' \in Nat, now \in Nat, rushNow \in Nat,
         troubles' \in Nat, troubles' >= troubles, rushPc' # "open" \/ rushPc' = rushPc,
         rushPc' = "accrue" => ~Due,
         rushPc' \in {"grant", "mark"} => record # <<>> /\ record[1].achieved
  PROVE  FateInv'
<1>1. Dated(record)' /\ Dated(stored)'
  BY DEF FateInv, Dated
<1>2. ASSUME NEW w \in RushWindows PROVE Remembered(w) => Remembered(w)'
  BY DEF FateInv, Remembered, Waits
<1>3. (rushPc' = "accrue" => ~Due')
  BY DEF Due, Unsettled
<1>4. \A w \in RushWindows :
        /\ fate'[w] = "won"     => w \notin attended' /\ Remembered(w)'
        /\ fate'[w] = "overrun" => w \notin attended' /\ w < WindowIndex(rushNow')
        /\ fate'[w] = "unread"  => troubles' > 1
  BY <1>2 DEF FateInv
<1> QED BY <1>1, <1>3, <1>4 DEF FateInv

LEMMA FateStep == ASSUME StampInv, RecordInv, FateInv, [RushNext]_rushVars PROVE FateInv'
<1> USE DEF rushHistory
<1>t. /\ now \in Nat /\ rushNow \in Nat /\ troubles \in Nat
      /\ \A w \in RushWindows : w \in Nat
  BY RushAssumption DEF StampInv, RecordInv, FateInv, RushWindows, WindowIndex
<1>r. record # <<>> => /\ record = <<record[1]>> /\ record[1] \in RushRecord
                       /\ record[1].window \in RushWindows
  BY DEF RecordInv, Honest, RushRecord
<1>1. CASE TimePasses
  BY <1>t, <1>1, FateStands DEF TimePasses, rushState, FateInv
<1>2. ASSUME NEW u \in Players, Touch(u) PROVE FateInv'
  BY <1>t, <1>2, FateStands DEF Touch, rushState, FateInv
<1>3. ASSUME NEW ok \in BOOLEAN, TouchWritten(ok) PROVE FateInv'
  <2>1. troubles' \in {troubles, troubles + 1} /\ UNCHANGED <<now, serving, rushState, rushHistory>>
    BY <1>3 DEF TouchWritten, Trouble
  <2> QED BY <1>t, <2>1, FateStands DEF rushState, FateInv
<1>4. ASSUME NEW ok \in BOOLEAN, RehydrateGoldRush(ok) PROVE FateInv'
  <2>1. /\ ~serving /\ serving' = TRUE /\ rushPc' = "idle"
        /\ UNCHANGED <<now, stored, rushNow, attended>>
        /\ fate' = [w \in RushWindows |->
                     IF fate[w] = "won" /\ ~(Unsettled' /\ record'[1].window = w)
                     THEN "unread" ELSE fate[w]]
    BY <1>4 DEF RehydrateGoldRush, RecordInv
  <2>2. \/ record' = stored /\ troubles' = troubles
        \/ record' = <<>> /\ troubles' = troubles + 1
    BY <1>4 DEF RehydrateGoldRush, Trouble
  <2>3. Dated(record)' /\ Dated(stored)'
    BY <2>1, <2>2 DEF FateInv, Dated
  <2>4. ASSUME NEW w \in RushWindows
        PROVE  /\ fate'[w] = "won"     => w \notin attended' /\ Remembered(w)'
               /\ fate'[w] = "overrun" => w \notin attended' /\ w < WindowIndex(rushNow')
               /\ fate'[w] = "unread"  => troubles' > 1
    <3>1. fate'[w] = "won" => fate[w] = "won" /\ Unsettled' /\ record'[1].window = w
      BY <2>1
    <3>2. Unsettled' => record' = stored /\ record' # <<>> /\ record'[1].achieved
                        /\ record'[1].boostUntil = 0
      BY <2>2 DEF Unsettled
    <3>3. fate[w] = "won" => w \notin attended /\ troubles >= 1 /\ (Waits(stored, w) \/ troubles >= 2)
      BY <2>1 DEF FateInv, Remembered
    <3>4. fate'[w] = "won" => w \notin attended' /\ Remembered(w)'
      BY <2>1, <3>1, <3>2, <3>3 DEF Remembered, Waits
    <3>5. fate'[w] = "unread" =>
            fate[w] = "unread" \/ (fate[w] = "won" /\ ~(Unsettled' /\ record'[1].window = w))
      BY <2>1
    <3>6. Waits(stored, w) /\ record' = stored => Unsettled' /\ record'[1].window = w
      BY DEF Waits, Unsettled
    <3>7. fate'[w] = "unread" => troubles' > 1
      BY <1>t, <2>2, <3>3, <3>5, <3>6 DEF FateInv
    <3>8. fate'[w] = "overrun" => fate[w] = "overrun"
      BY <2>1
    <3> QED BY <2>1, <3>4, <3>7, <3>8 DEF FateInv
  <2>5. fate' \in [RushWindows -> {"none", "won", "settled", "overrun", "unread"}]
    BY <2>1 DEF FateInv
  <2> QED BY <1>t, <2>1, <2>2, <2>3, <2>4, <2>5 DEF FateInv
<1>5. CASE RushTickStarts
  <2>1. /\ UNCHANGED <<now, serving, record, stored, fate, attended, troubles>> /\ rushNow' = now
        /\ rushPc' \in {"open", "settle"}
        /\ rushPc' = "open" => record = <<>> \/ record[1].window # WindowIndex(now)
    BY <1>5 DEF RushTickStarts
  <2>2. WindowIndex(rushNow) <= WindowIndex(now)
    BY <1>t, IndexGrows DEF FateInv
  <2>3. WindowIndex(rushNow) \in Int /\ WindowIndex(now) \in Int
    BY <1>t, RushAssumption DEF WindowIndex
  <2>4. \A q \in {record, stored} : q # <<>> => q[1].window \in Int
    BY <1>t DEF RecordInv, Honest, RushRecord
  <2>5. Dated(record)' /\ Dated(stored)'
    BY <2>1, <2>2, <2>3, <2>4 DEF FateInv, Dated
  <2>6. \A w \in attended' : WindowEnd(w) <= rushNow'
    <3>1. \A w \in attended : WindowEnd(w) \in Int
      BY <1>t, RushAssumption DEF FateInv, WindowEnd, WindowStart
    <3> QED BY <1>t, <2>1, <3>1 DEF FateInv
  <2>7. \A w \in RushWindows : Remembered(w) => Remembered(w)'
    BY <2>1 DEF Remembered, Waits
  <2>8. \A w \in RushWindows : w < WindowIndex(rushNow) => w < WindowIndex(rushNow')
    BY <1>t, <2>1, <2>2, <2>3
  <2> QED BY <1>t, <2>1, <2>5, <2>6, <2>7, <2>8 DEF FateInv
<1>6. ASSUME NEW ok \in BOOLEAN, OpenRush(ok) PROVE FateInv'
  <2>1. PICK n \in 0..MaxMiners :
          record' = <<[window |-> WindowIndex(rushNow), progress |-> 0,
                       target |-> RushTarget(n), achieved |-> FALSE, boostUntil |-> 0]>>
    BY <1>6 DEF OpenRush
  <2>2. /\ rushPc = "open" /\ rushPc' = "settle" /\ UNCHANGED <<now, serving, rushNow, attended>>
        /\ fate' = [w \in RushWindows |-> IF Unsettled /\ w = record[1].window /\ fate[w] = "won"
                                          THEN "overrun" ELSE fate[w]]
        /\ stored' \in {stored, record'} /\ troubles' \in {troubles, troubles + 1}
        /\ serving
    BY <1>6 DEF OpenRush, Persist, Trouble, RecordInv
  <2>3. WindowIndex(rushNow) \in Int
    BY <1>t, RushAssumption DEF WindowIndex
  <2>4. Dated(record)' /\ Dated(stored)'
    BY <2>1, <2>2, <2>3 DEF FateInv, Dated
  <2>5. ASSUME NEW w \in RushWindows
        PROVE  /\ fate'[w] # "won"
               /\ fate'[w] = "overrun" => w \notin attended' /\ w < WindowIndex(rushNow')
               /\ fate'[w] = "unread"  => troubles' > 1
    <3>1. CASE fate[w] = "won"
      <4>1. w \notin attended /\ record # <<>> /\ Unsettled /\ w = record[1].window
        BY <2>2, <3>1 DEF FateInv, Remembered, Waits, Unsettled
      <4>2. fate'[w] = "overrun"
        BY <2>2, <3>1, <4>1
      <4>3. w <= WindowIndex(rushNow) /\ w # WindowIndex(rushNow)
        BY <2>2, <4>1 DEF FateInv, Dated
      <4> QED BY <1>t, <2>2, <2>3, <4>1, <4>2, <4>3
    <3>2. CASE fate[w] # "won"
      BY <1>t, <2>2, <3>2 DEF FateInv
    <3> QED BY <3>1, <3>2
  <2>6. fate' \in [RushWindows -> {"none", "won", "settled", "overrun", "unread"}]
    BY <2>2 DEF FateInv
  <2> QED BY <1>t, <2>2, <2>4, <2>5, <2>6 DEF FateInv
<1>7. CASE SettleRush
  <2>1. /\ UNCHANGED <<now, serving, record, stored, rushNow, fate, attended, troubles>>
        /\ IF Due THEN rushPc' = "grant" ELSE rushPc' = "accrue"
    BY <1>7 DEF SettleRush
  <2>2. Due => record # <<>> /\ record[1].achieved
    BY DEF Due, Unsettled
  <2> QED BY <1>t, <2>1, <2>2, FateStands
<1>8. CASE GrantBoosts
  <2>1. /\ UNCHANGED <<now, serving, record, stored, rushNow, fate, attended, troubles>>
        /\ rushPc = "grant" /\ rushPc' = "mark"
    BY <1>8 DEF GrantBoosts
  <2> QED BY <1>t, <2>1, FateStands DEF FateInv
<1>9. ASSUME NEW ok \in BOOLEAN, MarkSettled(ok) PROVE FateInv'
  <2> DEFINE old == record[1]
             until == WindowEnd(old.window) + GOLD_RUSH_BOOST_MS
  <2>1. /\ UNCHANGED <<now, serving, rushNow, attended>> /\ rushPc = "mark" /\ rushPc' = "accrue"
        /\ stored' \in {stored, record'} /\ troubles' \in {troubles, troubles + 1}
        /\ record' = [record EXCEPT ![1].boostUntil = until]
        /\ fate' = [fate EXCEPT ![old.window] = "settled"] /\ serving
    BY <1>9 DEF MarkSettled, Persist, Trouble, RecordInv
  <2>2. record = <<old>> /\ old \in RushRecord /\ old.window \in RushWindows /\ old.achieved
    BY <1>r, <2>1 DEF FateInv
  <2>3. until \in Nat \ {0}
    <3>1. old.window \in Nat /\ RUSH_INTERVAL \in Nat /\ RUSH_DURATION \in Nat
          /\ GOLD_RUSH_BOOST_MS \in Nat \ {0}
      BY <1>t, <2>2, RushAssumption
    <3>2. old.window * RUSH_INTERVAL \in Nat
      BY <3>1
    <3> QED BY <3>1, <3>2 DEF WindowEnd, WindowStart
  <2> HIDE DEF until
  <2>4. record' = <<[old EXCEPT !.boostUntil = until]>>
    BY <2>1, <2>2
  <2>5. /\ record' # <<>> /\ record'[1].window = old.window /\ record'[1].achieved
        /\ record'[1].boostUntil = until
    BY <2>2, <2>4 DEF RushRecord
  <2>6. Dated(record)' /\ Dated(stored)'
    BY <2>1, <2>2, <2>5 DEF FateInv, Dated
  <2>7. ~Due'
    BY <2>3, <2>5 DEF Due, Unsettled
  <2>8. ASSUME NEW w \in RushWindows
        PROVE  /\ fate'[w] # "won"
               /\ fate'[w] = "overrun" => w \notin attended' /\ w < WindowIndex(rushNow')
               /\ fate'[w] = "unread"  => troubles' > 1
    <3>1. fate[w] = "won" => w = old.window
      BY <2>1 DEF FateInv, Remembered, Waits
    <3>2. fate'[w] = IF w = old.window THEN "settled" ELSE fate[w]
      BY <2>1 DEF FateInv
    <3> QED BY <1>t, <2>1, <3>1, <3>2 DEF FateInv
  <2>9. fate' \in [RushWindows -> {"none", "won", "settled", "overrun", "unread"}]
    BY <2>1 DEF FateInv
  <2> QED BY <1>t, <2>1, <2>6, <2>7, <2>8, <2>9 DEF FateInv
<1>10. ASSUME NEW ok \in BOOLEAN, NEW amount \in 0..MaxYield, AccrueRush(amount, ok)
       PROVE  FateInv'
  <2>1. /\ UNCHANGED <<now, serving, rushNow>> /\ rushPc = "accrue" /\ rushPc' = "idle" /\ serving
        /\ attended' = IF IsRushActive(rushNow) THEN attended
                       ELSE attended \cup {WindowIndex(rushNow)}
    BY <1>10 DEF AccrueRush, RecordInv
  <2> DEFINE old == record[1]
             adds == /\ amount > 0 /\ record # <<>> /\ IsRushActive(rushNow)
                     /\ old.window = WindowIndex(rushNow) /\ ~old.achieved
             more == old.progress + amount
  <2>2. CASE adds
    <3>1. /\ record' = [record EXCEPT ![1].progress = @ + amount,
                          ![1].achieved = more >= old.target]
          /\ fate' = [fate EXCEPT ![old.window] = IF record'[1].achieved THEN "won" ELSE @]
          /\ \/ stored' = record' /\ troubles' = troubles
             \/ stored' = stored /\ troubles' = troubles + 1
      BY <1>10, <2>2 DEF AccrueRush, Persist, Trouble
    <3>2. record = <<old>> /\ old \in RushRecord /\ old.window \in RushWindows
      BY <1>r, <2>2
    <3>3. record' = <<[[old EXCEPT !.progress = more] EXCEPT !.achieved = (more >= old.target)]>>
      BY <3>1, <3>2
    <3>4. /\ record' # <<>> /\ record'[1].window = old.window
          /\ record'[1].boostUntil = old.boostUntil
      BY <3>2, <3>3 DEF RushRecord
    <3>5. old.boostUntil = 0 /\ old.window <= WindowIndex(rushNow)
      BY <2>2 DEF FateInv, Dated
    <3>6. Dated(record)' /\ Dated(stored)'
      BY <2>1, <3>1, <3>4, <3>5 DEF FateInv, Dated
    <3>7. attended' = attended /\ old.window \notin attended
      <4>1. WindowEnd(old.window) \in Int /\ rushNow < WindowEnd(old.window)
        BY <1>t, <2>2, <3>2, RushAssumption DEF IsRushActive, WindowEnd, WindowStart
      <4> QED BY <1>t, <2>1, <2>2, <4>1 DEF FateInv
    <3>8. ASSUME NEW w \in RushWindows
          PROVE  /\ fate'[w] = "won"     => w \notin attended' /\ Remembered(w)'
                 /\ fate'[w] = "overrun" => w \notin attended' /\ w < WindowIndex(rushNow')
                 /\ fate'[w] = "unread"  => troubles' > 1
      <4>1. fate[w] # "won"
        BY <2>1, <2>2 DEF FateInv, Remembered, Waits
      <4>2. fate'[w] = IF w = old.window /\ record'[1].achieved THEN "won" ELSE fate[w]
        BY <3>1 DEF FateInv
      <4>3. fate'[w] = "won" => w = old.window /\ Waits(record', w)
        BY <3>4, <3>5, <4>1, <4>2 DEF Waits
      <4>4. stored' = record' \/ troubles' >= 1
        BY <1>t, <3>1
      <4>5. fate'[w] = "won" => w \notin attended' /\ Remembered(w)'
        BY <2>1, <3>7, <4>3, <4>4 DEF Remembered, Waits
      <4> QED BY <1>t, <2>1, <3>1, <3>7, <4>2, <4>5 DEF FateInv
    <3>9. fate' \in [RushWindows -> {"none", "won", "settled", "overrun", "unread"}]
      BY <3>1 DEF FateInv
    <3>10. /\ troubles' \in Nat /\ serving' \in BOOLEAN /\ attended' \subseteq RushWindows
           /\ rushNow' <= now' /\ \A w \in attended' : WindowEnd(w) <= rushNow'
      BY <1>t, <2>1, <3>1, <3>7 DEF FateInv
    <3> HIDE DEF adds, more
    <3> QED BY <2>1, <3>6, <3>8, <3>9, <3>10 DEF FateInv
  <2>3. CASE ~adds
    <3>1. UNCHANGED <<record, stored, fate, troubles>>
      BY <1>10, <2>3 DEF AccrueRush
    <3> DEFINE x == WindowIndex(rushNow)
    <3>2. x \in RushWindows /\ x \in Nat /\ WindowEnd(x) \in Int
      <4>1. x \in RushWindows /\ x \in Nat
        BY IndexInRange DEF RecordInv
      <4> QED BY <4>1, RushAssumption DEF WindowEnd, WindowStart
    <3> HIDE DEF x
    <3>3. CASE IsRushActive(rushNow)
      BY <1>t, <2>1, <3>1, <3>3, FateStands
    <3>4. CASE ~IsRushActive(rushNow)
      <4>1. attended' = attended \cup {x} /\ WindowEnd(x) <= rushNow
        BY <1>t, <2>1, <3>2, <3>4 DEF IsRushActive, x
      <4>2. fate[x] \notin {"won", "overrun"}
        <5>1. CASE fate[x] = "won"
          <6>1. Waits(record, x)
            BY <2>1, <3>2, <5>1 DEF FateInv, Remembered
          <6>2. Due
            BY <1>t, <3>2, <4>1, <6>1 DEF Due, Unsettled, Waits
          <6> QED BY <2>1, <6>2 DEF FateInv
        <5>2. CASE fate[x] = "overrun"
          BY <3>2, <5>2 DEF FateInv, x
        <5> QED BY <5>1, <5>2
      <4>3. Dated(record)' /\ Dated(stored)'
        BY <2>1, <3>1 DEF FateInv, Dated
      <4>4. \A w \in RushWindows : Remembered(w) => Remembered(w)'
        BY <2>1, <3>1 DEF Remembered, Waits
      <4>5. \A w \in RushWindows :
              /\ fate'[w] = "won"     => w \notin attended' /\ Remembered(w)'
              /\ fate'[w] = "overrun" => w \notin attended' /\ w < WindowIndex(rushNow')
              /\ fate'[w] = "unread"  => troubles' > 1
        BY <2>1, <3>1, <4>1, <4>2, <4>4 DEF FateInv
      <4>6. \A w \in attended' : WindowEnd(w) <= rushNow'
        BY <2>1, <4>1 DEF FateInv
      <4> QED BY <1>t, <2>1, <3>1, <3>2, <4>1, <4>3, <4>5, <4>6 DEF FateInv
    <3> QED BY <3>3, <3>4
  <2> QED BY <2>2, <2>3
<1>11. CASE RushTickThrows
  <2>1. /\ UNCHANGED <<now, serving, record, stored, rushNow, fate, attended>>
        /\ rushPc' = "idle" /\ troubles' = troubles + 1
    BY <1>11 DEF RushTickThrows, Trouble
  <2> QED BY <1>t, <2>1, FateStands
<1>12. CASE RushCrash
  <2>1. /\ UNCHANGED <<now, stored, rushNow, fate, attended>> /\ serving /\ serving' = FALSE
        /\ record' = <<>> /\ rushPc' = "idle" /\ troubles' = troubles + 1
    BY <1>12 DEF RushCrash, Trouble
  <2>2. Dated(record)' /\ Dated(stored)'
    BY <2>1 DEF FateInv, Dated
  <2>3. \A w \in RushWindows : Remembered(w) => Remembered(w)'
    BY <1>t, <2>1 DEF Remembered, Waits
  <2>4. \A w \in RushWindows :
          /\ fate'[w] = "won"     => w \notin attended' /\ Remembered(w)'
          /\ fate'[w] = "overrun" => w \notin attended' /\ w < WindowIndex(rushNow')
          /\ fate'[w] = "unread"  => troubles' > 1
    BY <1>t, <2>1, <2>3 DEF FateInv
  <2>5. /\ troubles' \in Nat /\ serving' \in BOOLEAN /\ attended' \subseteq RushWindows
        /\ rushNow' <= now' /\ \A w \in attended' : WindowEnd(w) <= rushNow'
    <3>1. troubles' \in Nat
      BY <1>t, <2>1
    <3>2. attended \subseteq RushWindows /\ rushNow <= now /\ \A w \in attended : WindowEnd(w) <= rushNow
      BY DEF FateInv
    <3> QED BY <2>1, <3>1, <3>2
  <2>6. fate' \in [RushWindows -> {"none", "won", "settled", "overrun", "unread"}]
    BY <2>1 DEF FateInv
  <2> QED BY <2>1, <2>2, <2>4, <2>5, <2>6 DEF FateInv
<1>13. CASE UNCHANGED rushVars
  BY <1>t, <1>13, FateStands DEF rushVars, rushState, FateInv
<1> QED BY <1>1, <1>2, <1>3, <1>4, <1>5, <1>6, <1>7, <1>8, <1>9, <1>10, <1>11, <1>12, <1>13
    DEF RushNext, RushTickMoves

\* Whoever is boosted was seen in a rush that met its target, the throttle hides nobody who
\* was, and an achieved rush is forgotten only where no tick ran to its end between it and
\* the next, or where more than a restart went wrong: for any constants.
THEOREM RushStaysFair == RushSpec => []RushIsFair
<1>1. RushInit => StampInv /\ RecordInv /\ FateInv
  BY StampStart, RecordStart, FateStart
<1>2. (StampInv /\ RecordInv /\ FateInv) /\ [RushNext]_rushVars
        => (StampInv /\ RecordInv /\ FateInv)'
  BY StampStep, RecordStep, FateStep
<1>3. FateInv => LostForCause
  BY DEF FateInv, LostForCause, Excused
<1>4. StampInv /\ RecordInv /\ FateInv => RushIsFair
  BY <1>3 DEF StampInv, RecordInv, RushIsFair
<1> QED BY <1>1, <1>2, <1>4, PTL DEF RushSpec

-----------------------------------------------------------------------------
(* Seasons. *)

SeasonRow == [number : Nat, closedAt : Nat]

\* A run that passed the guard and whose number is still free passed it for the
\* season that is the last one now.
MayClose(c) ==
  /\ closeNumber[c] \in 1..Len(seasons) + 1
  /\ closeNumber[c] = Len(seasons) + 1 => date - LastClosed >= DOUBLE_CLOSE_GUARD

SeasonTypes ==
  /\ date \in Nat /\ seasons \in Seq(SeasonRow)
  /\ closeNumber \in [Closers -> Nat]
  /\ closePc \in [Closers -> {"idle", "guarded", "snapshot", "committed", "over"}]

SeasonRows ==
  \A n \in 1..Len(seasons) : seasons[n].number = n /\ seasons[n].closedAt <= date

GuardsHold == \A c \in Closers : closePc[c] \in {"guarded", "snapshot"} => MayClose(c)

SeasonInv == SeasonTypes /\ SeasonRows /\ GuardsHold /\ SeasonsAreApart

LEMMA SeasonStart == ASSUME SeasonInit PROVE SeasonInv
<1>1. seasons \in Seq(SeasonRow) /\ Len(seasons) = 0 /\ date \in Nat
  BY DEF SeasonInit
<1>2. SeasonTypes
  BY <1>1 DEF SeasonInit, SeasonTypes
<1>3. GuardsHold
  BY DEF SeasonInit, GuardsHold
<1> QED BY <1>1, <1>2, <1>3 DEF SeasonInv, SeasonRows, SeasonsAreApart

\* A step that closes no season keeps the invariant if it admits no run that may not
\* close.
LEMMA NoSeasonClosed ==
  ASSUME SeasonInv, UNCHANGED <<date, seasons>>, SeasonTypes',
         \A c \in Closers : closePc'[c] \in {"guarded", "snapshot"} =>
           \/ closePc[c] \in {"guarded", "snapshot"} /\ closeNumber'[c] = closeNumber[c]
           \/ closeNumber'[c] = Len(seasons) + 1 /\ date - LastClosed >= DOUBLE_CLOSE_GUARD
  PROVE  SeasonInv'
<1>1. SeasonRows' /\ SeasonsAreApart'
  BY DEF SeasonInv, SeasonRows, SeasonsAreApart
<1>2. LastClosed' = LastClosed
  BY DEF LastClosed
<1>3. Len(seasons) \in Nat
  BY DEF SeasonInv, SeasonTypes
<1>4. GuardsHold'
  BY <1>2, <1>3 DEF GuardsHold, MayClose, SeasonInv, SeasonTypes
<1> QED BY <1>1, <1>4 DEF SeasonInv

\* The commit, and why a second run with the same number does nothing.
LEMMA CommitKeepsSeasons ==
  ASSUME SeasonInv, NEW c \in Closers, CloseCommitted(c)
  PROVE  SeasonInv'
<1> USE DEF SeasonInv, SeasonTypes, SeasonRows, GuardsHold, SeasonsAreApart
<1>1. CASE NumberFree(closeNumber[c])
  <2> DEFINE closed == [number |-> closeNumber[c], closedAt |-> date]
  <2>1. /\ seasons' = Append(seasons, closed) /\ date' = date /\ closeNumber' = closeNumber
        /\ closePc' = [closePc EXCEPT ![c] = "committed"]
    BY <1>1 DEF CloseCommitted
  <2>2. MayClose(c)
    BY DEF CloseCommitted
  <2>3. closeNumber[c] = Len(seasons) + 1
    <3>1. CASE closeNumber[c] \in 1..Len(seasons)
      BY <1>1, <3>1 DEF NumberFree
    <3> QED BY <2>2, <3>1 DEF MayClose
  <2>4. closed \in SeasonRow
    BY DEF SeasonRow
  <2>5. /\ seasons' \in Seq(SeasonRow) /\ Len(seasons') = Len(seasons) + 1
        /\ Len(seasons) \in Nat
        /\ \A n \in 1..Len(seasons) : seasons'[n] = seasons[n]
        /\ seasons'[Len(seasons) + 1] = closed
    <3> HIDE DEF closed
    <3> QED BY <2>1, <2>4
  <2>6. SeasonTypes'
    BY <2>1, <2>5
  <2>7. SeasonRows'
    <3> SUFFICES ASSUME NEW n \in 1..Len(seasons')
                 PROVE  seasons'[n].number = n /\ seasons'[n].closedAt <= date'
      OBVIOUS
    <3>1. CASE n \in 1..Len(seasons)
      BY <3>1, <2>1, <2>5
    <3>2. CASE n = Len(seasons) + 1
      BY <3>2, <2>1, <2>3, <2>5
    <3> QED BY <3>1, <3>2, <2>5
  <2>8. GuardsHold'
    <3> SUFFICES ASSUME NEW d \in Closers, closePc'[d] \in {"guarded", "snapshot"}
                 PROVE  MayClose(d)'
      OBVIOUS
    <3>1. closePc[d] \in {"guarded", "snapshot"}
      BY <2>1
    <3>2. closeNumber'[d] \in 1..Len(seasons) + 1
      BY <3>1, <2>1 DEF MayClose
    <3> QED BY <3>2, <2>1, <2>5 DEF MayClose
  <2>9. SeasonsAreApart'
    <3> SUFFICES ASSUME NEW n \in 1..Len(seasons') - 1
                 PROVE  seasons'[n + 1].closedAt - seasons'[n].closedAt >= DOUBLE_CLOSE_GUARD
      OBVIOUS
    <3>1. CASE n \in 1..Len(seasons) - 1
      <4>1. n \in 1..Len(seasons) /\ n + 1 \in 1..Len(seasons)
        BY <3>1
      <4> QED BY <3>1, <4>1, <2>5
    <3>2. CASE n = Len(seasons)
      <4>1. seasons # <<>> /\ n \in 1..Len(seasons)
        BY <3>2, <2>5
      <4>2. date - seasons[n].closedAt >= DOUBLE_CLOSE_GUARD
        BY <3>2, <4>1, <2>2, <2>3 DEF MayClose, LastClosed
      <4>3. seasons'[n] = seasons[n] /\ seasons'[n + 1] = closed
        BY <3>2, <4>1, <2>5
      <4> QED BY <4>2, <4>3
    <3> QED BY <3>1, <3>2, <2>5
  <2> QED BY <2>6, <2>7, <2>8, <2>9
<1>2. CASE ~NumberFree(closeNumber[c])
  <2>1. /\ UNCHANGED <<seasons, date, closeNumber>>
        /\ closePc' = [closePc EXCEPT ![c] = "over"]
    BY <1>2 DEF CloseCommitted
  <2>2. SeasonTypes'
    BY <2>1
  <2> QED BY <2>1, <2>2, NoSeasonClosed
<1> QED BY <1>1, <1>2

LEMMA SeasonStep == ASSUME SeasonInv, [SeasonNext]_seasonVars PROVE SeasonInv'
<1> USE DEF SeasonInv, SeasonTypes, SeasonRows, GuardsHold, SeasonsAreApart, ranking,
            closing, boardPage
<1>1. ASSUME UNCHANGED <<date, seasons, closePc, closeNumber>> PROVE SeasonInv'
  BY <1>1, NoSeasonClosed
<1>2. ASSUME NEW u \in Gamers, Mine(u) PROVE SeasonInv'
  BY <1>1, <1>2 DEF Mine
<1>3. CASE FlushReads \/ UpdateScoresBatch
  BY <1>1, <1>3 DEF FlushReads, UpdateScoresBatch
<1>4. CASE PageAsksRank \/ PageAsksCount \/ PageRefreshes
  BY <1>1, <1>4 DEF PageAsksRank, PageAsksCount, PageRefreshes
<1>5. CASE DatePasses
  <2>1. date' = date + 1 /\ UNCHANGED <<seasons, closePc, closeNumber>>
    BY <1>5 DEF DatePasses
  <2>2. LastClosed \in Int
    <3>1. CASE seasons = <<>>
      BY <3>1, SeasonAssumption DEF LastClosed
    <3>2. CASE seasons # <<>>
      <4>1. Len(seasons) \in 1..Len(seasons)
        BY <3>2
      <4>2. seasons[Len(seasons)] \in SeasonRow
        BY <4>1
      <4> QED BY <3>2, <4>2 DEF LastClosed, SeasonRow
    <3> QED BY <3>1, <3>2
  <2>3. LastClosed' = LastClosed
    BY <2>1 DEF LastClosed
  <2>4. SeasonRows'
    <3> SUFFICES ASSUME NEW n \in 1..Len(seasons)
                 PROVE  seasons[n].number = n /\ seasons[n].closedAt <= date + 1
      BY <2>1
    <3>1. seasons[n] \in SeasonRow
      OBVIOUS
    <3> QED BY <3>1 DEF SeasonRow
  <2>5. GuardsHold'
    BY <2>1, <2>2, <2>3, SeasonAssumption DEF MayClose
  <2> QED BY <2>1, <2>4, <2>5
<1>6. ASSUME NEW c \in Closers, CloseGuarded(c) PROVE SeasonInv'
  <2>1. /\ date - LastClosed >= DOUBLE_CLOSE_GUARD /\ UNCHANGED <<date, seasons>>
        /\ closePc' = [closePc EXCEPT ![c] = "guarded"]
        /\ closeNumber' = [closeNumber EXCEPT ![c] = Len(seasons) + 1]
    BY <1>6 DEF CloseGuarded
  <2>2. SeasonTypes'
    BY <2>1
  <2> QED BY <2>1, <2>2, NoSeasonClosed
<1>7. ASSUME NEW c \in Closers, CloseSnapshot(c) PROVE SeasonInv'
  <2>1. /\ UNCHANGED <<date, seasons, closeNumber>> /\ closePc[c] = "guarded"
        /\ closePc' = [closePc EXCEPT ![c] = "snapshot"]
    BY <1>7 DEF CloseSnapshot
  <2>2. SeasonTypes'
    BY <2>1
  <2> QED BY <2>1, <2>2, NoSeasonClosed
<1>8. ASSUME NEW c \in Closers, CloseCommitted(c) PROVE SeasonInv'
  BY <1>8, CommitKeepsSeasons
<1>9. ASSUME NEW c \in Closers, NEW ok \in BOOLEAN, CloseCleared(c, ok) PROVE SeasonInv'
  <2>1. /\ UNCHANGED <<date, seasons, closeNumber>>
        /\ closePc' = [closePc EXCEPT ![c] = "over"]
    BY <1>9 DEF CloseCleared
  <2>2. SeasonTypes'
    BY <2>1
  <2> QED BY <2>1, <2>2, NoSeasonClosed
<1>10. CASE UNCHANGED seasonVars
  BY <1>1, <1>10 DEF seasonVars
<1> QED BY <1>2, <1>3, <1>4, <1>5, <1>6, <1>7, <1>8, <1>9, <1>10 DEF SeasonNext

-----------------------------------------------------------------------------
(* The page of the leaderboard. *)

BoardTypes ==
  /\ totals \in [Gamers -> Nat] /\ board \in [Gamers -> Nat]
  /\ flushing # <<>> => flushing[1] \in [Gamers -> Nat]

\* Between its two commands a page knows a rank among those that are on the board,
\* unless the board was deleted.
PageInv ==
  ~disturbed =>
    /\ pagePc = "ranked" => pageRank \in 1..Cardinality(Ranked)
    /\ pagePc = "shown" => pageTotal \in Nat /\ pageRank \in 1..pageTotal

BoardInv == BoardTypes /\ PageInv

\* A fraction of what is not zero, in whole per cent.
LEMMA PercentRange ==
  ASSUME NEW T \in Nat \ {0}, NEW R \in 1..T
  PROVE  ((T - R) * 100) \div T \in 0..99
  OBVIOUS

LEMMA RankedFinite == IsFiniteSet(Ranked) /\ Cardinality(Ranked) \in Nat
<1>1. IsFiniteSet(Ranked)
  BY SeasonAssumption, FS_Subset DEF Ranked
<1> QED BY <1>1, FS_CardinalityType

\* The rank of a user on the board is at most the number of users on it.
LEMMA RankIsCounted ==
  ASSUME BoardTypes, NEW u \in Ranked
  PROVE  Cardinality(Above(u)) + 1 \in 1..Cardinality(Ranked)
<1>1. u \notin Above(u)
  BY SeasonAssumption DEF Above, Ranked, BoardTypes
<1>2. Above(u) \subseteq Ranked \ {u}
  BY <1>1 DEF Above
<1>3. /\ IsFiniteSet(Ranked \ {u})
      /\ Cardinality(Ranked \ {u}) = Cardinality(Ranked) - 1
  BY RankedFinite, FS_RemoveElement
<1>4. IsFiniteSet(Above(u)) /\ Cardinality(Above(u)) <= Cardinality(Ranked) - 1
  BY <1>2, <1>3, FS_Subset
<1>5. Cardinality(Above(u)) \in Nat /\ Cardinality(Ranked) \in Nat
  BY <1>4, RankedFinite, FS_CardinalityType
<1> QED BY <1>4, <1>5

\* A board that only gains users counts at least as many.
LEMMA MoreRanked ==
  ASSUME Ranked \subseteq Ranked', BoardInv, IsFiniteSet(Ranked'), UNCHANGED boardPage
  PROVE  PageInv'
<1>1. Cardinality(Ranked) <= Cardinality(Ranked')
  BY FS_Subset
<1>2. Cardinality(Ranked) \in Nat /\ Cardinality(Ranked') \in Nat
  BY RankedFinite, FS_CardinalityType
<1> QED BY <1>1, <1>2 DEF BoardInv, PageInv, boardPage

LEMMA BoardStart == ASSUME SeasonInit PROVE BoardInv
  BY DEF SeasonInit, BoardInv, BoardTypes, PageInv

LEMMA BoardStep == ASSUME BoardInv, [SeasonNext]_seasonVars PROVE BoardInv'
<1> USE DEF BoardInv, BoardTypes
<1>0. IsFiniteSet(Ranked')
  BY SeasonAssumption, FS_Subset DEF Ranked
<1>1. ASSUME UNCHANGED <<board, boardPage>>, BoardTypes' PROVE BoardInv'
  <2>1. Ranked' = Ranked
    BY <1>1 DEF Ranked
  <2> QED BY <1>0, <1>1, <2>1, MoreRanked
<1>2. ASSUME NEW u \in Gamers, Mine(u) PROVE BoardInv'
  <2>1. BoardTypes' /\ UNCHANGED <<board, boardPage>>
    BY <1>2 DEF Mine
  <2> QED BY <2>1, <1>1
<1>3. CASE FlushReads
  <2>1. BoardTypes' /\ UNCHANGED <<board, boardPage>>
    BY <1>3 DEF FlushReads
  <2> QED BY <2>1, <1>1
<1>4. CASE UpdateScoresBatch
  <2>1. /\ UNCHANGED <<totals, boardPage>> /\ flushing' = <<>> /\ flushing[1] \in [Gamers -> Nat]
        /\ board' = [u \in Gamers |-> IF flushing[1][u] > 0 THEN flushing[1][u] ELSE board[u]]
    BY <1>4 DEF UpdateScoresBatch
  <2>2. BoardTypes'
    BY <2>1
  <2>3. Ranked \subseteq Ranked'
    BY <2>1 DEF Ranked
  <2> QED BY <1>0, <2>1, <2>2, <2>3, MoreRanked
<1>5. CASE PageAsksRank
  <2>1. BoardTypes' /\ Ranked' = Ranked
    BY <1>5 DEF PageAsksRank, ranking, Ranked
  <2>2. PageInv'
    <3>1. CASE PageUser \in Ranked
      <4>1. pagePc' = "ranked" /\ pageRank' = Cardinality(Above(PageUser)) + 1
        BY <1>5, <3>1 DEF PageAsksRank
      <4> QED BY <3>1, <4>1, <2>1, RankIsCounted DEF PageInv
    <3>2. CASE PageUser \notin Ranked
      BY <1>5, <3>2 DEF PageAsksRank, PageInv
    <3> QED BY <3>1, <3>2
  <2> QED BY <2>1, <2>2
<1>6. CASE PageAsksCount
  <2>1. BoardTypes'
    BY <1>6 DEF PageAsksCount, ranking
  <2>2. PageInv'
    BY <1>6, RankedFinite DEF PageAsksCount, PageInv
  <2> QED BY <2>1, <2>2
<1>7. CASE PageRefreshes
  BY <1>7 DEF PageRefreshes, ranking, PageInv
<1>8. CASE DatePasses
  BY <1>1, <1>8 DEF DatePasses, ranking, boardPage
<1>9. ASSUME NEW c \in Closers, CloseGuarded(c) \/ CloseSnapshot(c) \/ CloseCommitted(c)
      PROVE  BoardInv'
  <2>1. UNCHANGED <<ranking, boardPage>>
    BY <1>9 DEF CloseGuarded, CloseSnapshot, CloseCommitted
  <2> QED BY <2>1, <1>1 DEF ranking
<1>10. ASSUME NEW c \in Closers, NEW ok \in BOOLEAN, CloseCleared(c, ok) PROVE BoardInv'
  <2>1. UNCHANGED <<totals, flushing, pagePc, pageRank, pageTotal>>
    BY <1>10 DEF CloseCleared
  <2>2. CASE ok
    <3>1. board' = [u \in Gamers |-> 0] /\ disturbed'
      BY <1>10, <2>2 DEF CloseCleared
    <3> QED BY <2>1, <3>1 DEF PageInv
  <2>3. CASE ~ok
    <3>1. UNCHANGED <<board, boardPage>>
      BY <1>10, <2>1, <2>3 DEF CloseCleared, boardPage
    <3> QED BY <2>1, <3>1, <1>1
  <2> QED BY <2>2, <2>3
<1>11. CASE UNCHANGED seasonVars
  BY <1>1, <1>11 DEF seasonVars, ranking
<1> QED BY <1>2, <1>3, <1>4, <1>5, <1>6, <1>7, <1>8, <1>9, <1>10, <1>11 DEF SeasonNext

\* What the page shows is a percentage of those it counts.
LEMMA PageIsSound == ASSUME BoardInv PROVE PercentileMakesSense
<1> SUFFICES ASSUME HasPercentile, ~disturbed PROVE Percentile \in 0..99
  BY DEF PercentileMakesSense
<1>1. pageTotal \in Nat \ {0} /\ pageRank \in 1..pageTotal
  BY DEF BoardInv, PageInv, HasPercentile
<1> QED BY <1>1, PercentRange DEF Percentile

\* Seasons are a guard apart, however many runs of the script overlap, and the page
\* places a user between first and last, whatever the flush writes meanwhile.
THEOREM BoardStaysSound == SeasonSpec => []BoardIsSound
<1>1. SeasonInit => SeasonInv /\ BoardInv
  BY SeasonStart, BoardStart
<1>2. (SeasonInv /\ BoardInv) /\ [SeasonNext]_seasonVars => (SeasonInv /\ BoardInv)'
  BY SeasonStep, BoardStep
<1>3. SeasonInv /\ BoardInv => BoardIsSound
  BY PageIsSound DEF SeasonInv, BoardIsSound
<1> QED BY <1>1, <1>2, <1>3, PTL DEF SeasonSpec

-----------------------------------------------------------------------------
(* Sky. *)

\* What is kept of the first n members of a list.
KeptFrom(k, list, good, n) ==
  k[n] = IF n = 0 THEN <<>>
         ELSE IF list[n] \in good THEN Append(k[n - 1], list[n]) ELSE k[n - 1]

KeptFn(list, good) ==
  CHOOSE k : k = [n \in 0..Len(list) |->
    IF n = 0 THEN <<>>
    ELSE IF list[n] \in good THEN Append(k[n - 1], list[n]) ELSE k[n - 1]]

LEMMA KeptIsChosen ==
  ASSUME NEW list, NEW good PROVE Kept(list, good) = KeptFn(list, good)[Len(list)]
  BY DEF Kept, KeptFn

LEMMA KeptExists ==
  ASSUME NEW list, NEW good, Len(list) \in Nat, NEW n \in 0..Len(list)
  PROVE  KeptFrom(KeptFn(list, good), list, good, n)
<1> DEFINE N == Len(list)
           Upto(m) == \E k : \A i \in 0..m : KeptFrom(k, list, good, i)
           Bad == {m \in 0..N : ~Upto(m)}
<1> HIDE DEF N
<1>n. N \in Nat
  BY DEF N
<1>1. Bad = {}
  <2> SUFFICES ASSUME Bad # {} PROVE FALSE
    OBVIOUS
  <2>1. Bad \in SUBSET (0..N) /\ Bad # {}
    BY <1>n
  <2> HIDE DEF Bad
  <2>2. PICK m \in Bad : \A i \in Bad : m <= i
    BY <1>n, <2>1, LeastNat
  <2>3. m \in 0..N /\ ~Upto(m)
    BY <2>2 DEF Bad
  <2>4. CASE m = 0
    <3> DEFINE k == [i \in {0} |-> <<>>]
    <3>1. \A i \in 0..m : KeptFrom(k, list, good, i)
      BY <2>4 DEF KeptFrom
    <3> QED BY <2>3, <3>1
  <2>5. CASE m # 0
    <3>1. m - 1 \in 0..N /\ m - 1 \notin Bad
      BY <1>n, <2>1, <2>2, <2>3, <2>5
    <3>2. Upto(m - 1)
      BY <3>1 DEF Bad
    <3>3. PICK h : \A i \in 0..(m - 1) : KeptFrom(h, list, good, i)
      BY <3>2
    <3> DEFINE k == [i \in 0..m |->
                 IF i < m THEN h[i]
                 ELSE IF list[m] \in good THEN Append(h[m - 1], list[m]) ELSE h[m - 1]]
    <3>4. ASSUME NEW i \in 0..m PROVE KeptFrom(k, list, good, i)
      <4>1. i \in 0..N /\ m \in Nat
        BY <1>n, <2>3
      <4>2. CASE i = m
        <5>1. k[m - 1] = h[m - 1]
          BY <2>5, <4>1
        <5>2. k[m] = IF list[m] \in good THEN Append(h[m - 1], list[m]) ELSE h[m - 1]
          BY <4>1
        <5> HIDE DEF k
        <5> QED BY <2>5, <4>2, <5>1, <5>2 DEF KeptFrom
      <4>3. CASE i < m
        <5>1. KeptFrom(h, list, good, i)
          BY <3>3, <4>1, <4>3
        <5>2. k[i] = h[i] /\ (i # 0 => k[i - 1] = h[i - 1])
          BY <4>1, <4>3
        <5> HIDE DEF k
        <5> QED BY <5>1, <5>2 DEF KeptFrom
      <4> QED BY <4>1, <4>2, <4>3
    <3> HIDE DEF k
    <3> QED BY <2>3, <3>4
  <2> QED BY <2>4, <2>5
<1>2. Upto(N)
  <2> HIDE DEF Upto
  <2> QED BY <1>n, <1>1
<1>3. PICK h : \A i \in 0..N : KeptFrom(h, list, good, i)
  BY <1>2
<1> DEFINE k == [i \in 0..N |-> h[i]]
<1>4. ASSUME NEW i \in 0..N
      PROVE  k[i] = IF i = 0 THEN <<>>
                    ELSE IF list[i] \in good THEN Append(k[i - 1], list[i]) ELSE k[i - 1]
  <2>1. KeptFrom(h, list, good, i)
    BY <1>3
  <2>2. k[i] = h[i] /\ (i # 0 => k[i - 1] = h[i - 1])
    BY <1>n
  <2> HIDE DEF k
  <2> QED BY <2>1, <2>2 DEF KeptFrom
<1>5. k = [i \in 0..N |-> k[i]]
  OBVIOUS
<1> HIDE DEF k
<1>6. k = [i \in 0..N |->
             IF i = 0 THEN <<>>
             ELSE IF list[i] \in good THEN Append(k[i - 1], list[i]) ELSE k[i - 1]]
  BY <1>4, <1>5
<1>7. KeptFn(list, good) = [i \in 0..N |->
         IF i = 0 THEN <<>>
         ELSE IF list[i] \in good THEN Append(KeptFn(list, good)[i - 1], list[i])
              ELSE KeptFn(list, good)[i - 1]]
  BY <1>6 DEF KeptFn, N
<1> QED BY <1>7 DEF KeptFrom, N

\* What is kept is a list, no longer than the original, of the good among its members.
LEMMA KeptIs ==
  ASSUME NEW S, NEW list \in Seq(S), NEW good
  PROVE  /\ Kept(list, good) \in Seq(S) /\ Len(Kept(list, good)) <= Len(list)
         /\ ToSet(Kept(list, good)) = ToSet(list) \cap good
<1> DEFINE k == KeptFn(list, good)
           Right(n) == /\ k[n] \in Seq(S) /\ Len(k[n]) <= n
                       /\ ToSet(k[n]) = {list[i] : i \in 1..n} \cap good
           Bad == {n \in 0..Len(list) : ~Right(n)}
<1>1. Len(list) \in Nat /\ \A n \in 0..Len(list) : KeptFrom(k, list, good, n)
  BY KeptExists
<1>2. Bad = {}
  <2> SUFFICES ASSUME Bad # {} PROVE FALSE
    OBVIOUS
  <2>1. Bad \in SUBSET (0..Len(list)) /\ Bad # {}
    OBVIOUS
  <2> HIDE DEF Bad
  <2>2. PICK n \in Bad : \A i \in Bad : n <= i
    BY <1>1, <2>1, LeastNat
  <2>3. n \in 0..Len(list) /\ ~Right(n)
    BY <2>2 DEF Bad
  <2>4. KeptFrom(k, list, good, n)
    BY <1>1, <2>3
  <2>5. n # 0
    <3> SUFFICES ASSUME n = 0 PROVE FALSE
      OBVIOUS
    <3>1. k[n] = <<>>
      BY <2>4 DEF KeptFrom
    <3>2. Right(n)
      BY <3>1 DEF ToSet
    <3> QED BY <2>3, <3>2
  <2>6. Right(n - 1)
    <3>1. n - 1 \in 0..Len(list) /\ n - 1 \notin Bad
      BY <1>1, <2>1, <2>2, <2>3, <2>5
    <3> QED BY <3>1 DEF Bad
  <2>7. list[n] \in S /\ {list[i] : i \in 1..n} = {list[i] : i \in 1..(n - 1)} \cup {list[n]}
    BY <1>1, <2>3, <2>5
  <2>8. CASE list[n] \in good
    <3>1. k[n] = Append(k[n - 1], list[n])
      BY <2>4, <2>5, <2>8 DEF KeptFrom
    <3>2. k[n] \in Seq(S) /\ Len(k[n]) = Len(k[n - 1]) + 1
      BY <2>6, <2>7, <3>1
    <3>3. ToSet(k[n]) = ToSet(k[n - 1]) \cup {list[n]}
      <4>1. /\ DOMAIN k[n - 1] = 1..Len(k[n - 1]) /\ DOMAIN k[n] = 1..Len(k[n])
            /\ Len(k[n - 1]) \in Nat
        BY <2>6, <3>2
      <4>2. \A i \in 1..Len(k[n - 1]) : k[n][i] = k[n - 1][i]
        BY <2>6, <2>7, <3>1
      <4>3. k[n][Len(k[n])] = list[n]
        BY <2>6, <2>7, <3>1
      <4>4. 1..Len(k[n]) = 1..Len(k[n - 1]) \cup {Len(k[n])}
        BY <3>2, <4>1
      <4> QED BY <4>1, <4>2, <4>3, <4>4, SMTT(20) DEF ToSet
    <3>4. Right(n)
      BY <1>1, <2>3, <2>6, <2>7, <2>8, <3>2, <3>3
    <3> QED BY <2>3, <3>4
  <2>9. CASE list[n] \notin good
    <3>1. k[n] = k[n - 1]
      BY <2>4, <2>5, <2>9 DEF KeptFrom
    <3>2. Right(n)
      BY <1>1, <2>3, <2>6, <2>7, <2>9, <3>1
    <3> QED BY <2>3, <3>2
  <2> QED BY <2>8, <2>9
<1>3. Right(Len(list))
  BY <1>1, <1>2
<1>4. ToSet(list) = {list[i] : i \in 1..Len(list)}
  BY DEF ToSet
<1> QED BY <1>3, <1>4, KeptIsChosen

\* Sets that agree on the members of a list keep the same.
LEMMA KeptAgree ==
  ASSUME NEW S, NEW list \in Seq(S), NEW A, NEW B, ToSet(list) \cap A = ToSet(list) \cap B
  PROVE  Kept(list, A) = Kept(list, B)
<1> DEFINE f == KeptFn(list, A)  g == KeptFn(list, B)
           Bad == {n \in 0..Len(list) : f[n] # g[n]}
<1>1. /\ Len(list) \in Nat
      /\ \A n \in 0..Len(list) : KeptFrom(f, list, A, n) /\ KeptFrom(g, list, B, n)
  BY KeptExists
<1>2. Bad = {}
  <2> SUFFICES ASSUME Bad # {} PROVE FALSE
    OBVIOUS
  <2>1. Bad \in SUBSET (0..Len(list)) /\ Bad # {}
    OBVIOUS
  <2> HIDE DEF Bad
  <2>2. PICK n \in Bad : \A i \in Bad : n <= i
    BY <1>1, <2>1, LeastNat
  <2>3. n \in 0..Len(list) /\ f[n] # g[n]
    BY <2>2 DEF Bad
  <2>4. KeptFrom(f, list, A, n) /\ KeptFrom(g, list, B, n)
    BY <1>1, <2>3
  <2>5. n # 0
    BY <2>3, <2>4 DEF KeptFrom
  <2>6. f[n - 1] = g[n - 1]
    <3>1. n - 1 \in 0..Len(list) /\ n - 1 \notin Bad
      BY <1>1, <2>1, <2>2, <2>3, <2>5
    <3> QED BY <3>1 DEF Bad
  <2>7. list[n] \in ToSet(list)
    BY <1>1, <2>3, <2>5 DEF ToSet
  <2>8. list[n] \in A <=> list[n] \in B
    BY <2>7
  <2> HIDE DEF f, g
  <2> QED BY <2>3, <2>4, <2>5, <2>6, <2>8 DEF KeptFrom
<1> QED BY <1>1, <1>2, KeptIsChosen

\* On a line, a distance at two ends bounds the one between them.
LEMMA SizeIsConvex ==
  ASSUME NEW o \in Int, NEW v \in Int, NEW d \in Nat
  PROVE  d * Size(o + v * (d + 1)) + Size(o) >= (d + 1) * Size(o + v * d)
<1> DEFINE x == o + v * d  y == o + v * (d + 1)
<1>1. x \in Int /\ y \in Int /\ (d + 1) * x = d * y + o
  OBVIOUS
<1> HIDE DEF x, y
<1>2. Size(y) \in Int /\ Size(o) \in Int /\ Size(x) \in Int
      /\ Size(y) >= y /\ Size(y) >= -y /\ Size(o) >= o /\ Size(o) >= -o
      /\ (Size(x) = x \/ Size(x) = -x)
  BY <1>1 DEF Size
<1>3. \A a, b \in Int : a >= b => d * a >= d * b
  OBVIOUS
<1>4. d * Size(y) >= d * y /\ d * Size(y) >= d * (-y)
  BY <1>1, <1>2, <1>3
<1>5. d * (-y) = -(d * y) /\ (d + 1) * (-x) = -((d + 1) * x) /\ d * y \in Int
      /\ d * Size(y) \in Int
  BY <1>1, <1>2
<1>6. CASE Size(x) = x
  <2>1. (d + 1) * Size(x) = d * y + o
    BY <1>1, <1>6
  <2> QED BY <1>2, <1>4, <1>5, <2>1 DEF x, y
<1>7. CASE Size(x) = -x
  <2>1. (d + 1) * Size(x) = -(d * y + o)
    BY <1>1, <1>5, <1>7
  <2> QED BY <1>1, <1>2, <1>4, <1>5, <2>1 DEF x, y
<1> QED BY <1>2, <1>6, <1>7

\* A straight line that starts inside of a hexagon and has left it does not come back.
LEMMA LeavesOnce ==
  ASSUME NEW p \in Int, NEW q \in Int, NEW v \in Int, NEW w \in Int, NEW d \in Nat, NEW R \in Nat,
         HexDistance(<<p, q>>, <<0, 0>>) <= R,
         HexDistance(<<p + v * d, q + w * d>>, <<0, 0>>) > R
  PROVE  HexDistance(<<p + v * (d + 1), q + w * (d + 1)>>, <<0, 0>>) > R
<1> DEFINE A(x, y) == Size(x) + Size(y) + Size(x + y)
<1>1. ASSUME NEW x \in Int, NEW y \in Int
      PROVE  /\ HexDistance(<<x, y>>, <<0, 0>>) = A(x, y) \div 2 /\ A(x, y) \in Nat
             /\ A(x, y) \div 2 > R <=> A(x, y) > 2 * R + 1
  <2>1. HexDistance(<<x, y>>, <<0, 0>>) = (Size(x - 0) + Size(y - 0) + Size(x + y - 0 - 0)) \div 2
    BY DEF HexDistance
  <2>2. x - 0 = x /\ y - 0 = y /\ x + y - 0 - 0 = x + y
    BY <1>1
  <2>3. A(x, y) \in Nat
    BY <1>1 DEF Size
  <2> QED BY <2>1, <2>2, <2>3
<1> DEFINE n0 == A(p, q)  n1 == A(p + v * d, q + w * d)
           n2 == A(p + v * (d + 1), q + w * (d + 1))
<1>2. n0 \in Nat /\ n1 \in Nat /\ n2 \in Nat /\ n0 <= 2 * R + 1 /\ n1 > 2 * R + 1
  <2>1. p + v * d \in Int /\ q + w * d \in Int /\ p + v * (d + 1) \in Int /\ q + w * (d + 1) \in Int
    OBVIOUS
  <2>2. n0 \in Nat /\ n1 \in Nat /\ n2 \in Nat
    <3> HIDE DEF A
    <3> QED BY <1>1, <2>1
  <2>3. HexDistance(<<p, q>>, <<0, 0>>) = n0 \div 2 /\ (n0 \div 2 > R <=> n0 > 2 * R + 1)
    <3> HIDE DEF A
    <3> QED BY <1>1
  <2>4. HexDistance(<<p + v * d, q + w * d>>, <<0, 0>>) = n1 \div 2
        /\ (n1 \div 2 > R <=> n1 > 2 * R + 1)
    <3> HIDE DEF A
    <3> QED BY <1>1, <2>1
  <2> HIDE DEF n0, n1, n2
  <2> QED BY <2>2, <2>3, <2>4
<1>3. d * n2 + n0 >= (d + 1) * n1
  <2> DEFINE x1 == Size(p + v * d)  y1 == Size(q + w * d)  z1 == Size((p + q) + (v + w) * d)
             x2 == Size(p + v * (d + 1))  y2 == Size(q + w * (d + 1))
             z2 == Size((p + q) + (v + w) * (d + 1))
  <2>1. /\ d * x2 + Size(p) >= (d + 1) * x1 /\ d * y2 + Size(q) >= (d + 1) * y1
        /\ d * z2 + Size(p + q) >= (d + 1) * z1
    <3>1. p + q \in Int /\ v + w \in Int
      OBVIOUS
    <3> QED BY <3>1, SizeIsConvex
  <2>2. n1 = x1 + y1 + z1 /\ n2 = x2 + y2 + z2
    <3>1. /\ (p + v * d) + (q + w * d) = (p + q) + (v + w) * d
          /\ (p + v * (d + 1)) + (q + w * (d + 1)) = (p + q) + (v + w) * (d + 1)
      OBVIOUS
    <3> QED BY <3>1
  <2>3. /\ x1 \in Int /\ y1 \in Int /\ z1 \in Int /\ x2 \in Int /\ y2 \in Int /\ z2 \in Int
        /\ Size(p) \in Int /\ Size(q) \in Int /\ Size(p + q) \in Int
    BY DEF Size
  <2>4. n0 = Size(p) + Size(q) + Size(p + q)
    OBVIOUS
  <2> HIDE DEF x1, y1, z1, x2, y2, z2, n0, n1, n2
  <2>5. d * n2 = d * x2 + d * y2 + d * z2 /\ (d + 1) * n1 = (d + 1) * x1 + (d + 1) * y1 + (d + 1) * z1
    BY <2>2, <2>3
  <2>6. /\ d * x2 \in Int /\ d * y2 \in Int /\ d * z2 \in Int
        /\ (d + 1) * x1 \in Int /\ (d + 1) * y1 \in Int /\ (d + 1) * z1 \in Int
    BY <2>3
  <2> QED BY <2>1, <2>3, <2>4, <2>5, <2>6
<1>4. n2 > 2 * R + 1
  <2> HIDE DEF n0, n1, n2
  <2> SUFFICES ASSUME n2 <= n1 PROVE FALSE
    BY <1>2
  <2>1. d * n2 <= d * n1
    BY <1>2
  <2>2. (d + 1) * n1 = d * n1 + n1 /\ d * n1 \in Int /\ d * n2 \in Int
    BY <1>2
  <2> QED BY <1>2, <1>3, <2>1, <2>2
<1>5. p + v * (d + 1) \in Int /\ q + w * (d + 1) \in Int
  OBVIOUS
<1> HIDE DEF A
<1> QED BY <1>1, <1>4, <1>5

SkyFront == [path : Trajectories, spawnedAt : 0..MaxMinutes]
Vein     == {<<>>} \cup {<<k>> : k \in Nat}

\* The counters, the lists of fronts with their capacity, and the veins.
SkyTypes ==
  /\ minute \in 0..MaxMinutes /\ skyPc \in {"idle", "fronts", "vein", "done"}
  /\ running \in BOOLEAN /\ misfortunes \in 0..MaxMisfortunes
  /\ fronts \in Seq(SkyFront) /\ storedFronts \in Seq(SkyFront) /\ cFronts \in Seq(SkyFront)
  /\ Len(fronts) <= MAX_FRONTS /\ Len(storedFronts) <= MAX_FRONTS /\ Len(cFronts) <= MAX_FRONTS
  /\ activeVein \in Vein /\ storedVein \in Vein

\* No front is of the future; what is gone is over and not in memory; after the step of
\* the fronts all in memory are alive.
SkyPast ==
  /\ \A f \in ToSet(fronts) \cup ToSet(storedFronts) \cup goneFronts : f.spawnedAt <= minute
  /\ goneFronts \subseteq SkyFront /\ \A f \in goneFronts : ShouldDespawn(f, minute)
  /\ ToSet(fronts) \cap goneFronts = {}
  /\ skyPc # "idle" => \A f \in ToSet(fronts) : ~ShouldDespawn(f, minute)
  /\ ~running => skyPc = "idle"

\* A vein that is gone has expired, and is not the one in memory.
VeinPast == goneVeins \subseteq {<<k>> : k \in 0..minute} /\ activeVein \notin goneVeins

LEMMA CenterAt ==
  ASSUME NEW f, NEW at \in Int, f.spawnedAt \in Int
  PROVE  FrontCenterAt(f, at) = <<f.path.origin[1] + f.path.velocity[1] * (at - f.spawnedAt),
                                  f.path.origin[2] + f.path.velocity[2] * (at - f.spawnedAt)>>
  BY DEF FrontCenterAt

\* A front that is over stays over: its life has ended, or it has left the world.
LEMMA DespawnStays ==
  ASSUME NEW f \in SkyFront, NEW at \in Nat, f.spawnedAt <= at, ShouldDespawn(f, at)
  PROVE  ShouldDespawn(f, at + 1)
<1>1. f.spawnedAt \in Nat /\ f.path \in Trajectories /\ f.path.life \in Nat
  BY SkyAssumption DEF SkyFront
<1>2. CASE at >= f.spawnedAt + f.path.life
  BY <1>1, <1>2 DEF ShouldDespawn
<1>3. CASE HexDistance(FrontCenterAt(f, at), <<0, 0>>) > DESPAWN_BOUND_RADIUS
  <2> DEFINE d == at - f.spawnedAt  p == f.path.origin[1]  q == f.path.origin[2]
             v == f.path.velocity[1]  w == f.path.velocity[2]
  <2>1. /\ p \in Int /\ q \in Int /\ v \in Int /\ w \in Int /\ d \in Nat
        /\ DESPAWN_BOUND_RADIUS \in Nat /\ f.path.origin = <<p, q>>
        /\ HexDistance(f.path.origin, <<0, 0>>) <= DESPAWN_BOUND_RADIUS
    BY <1>1, SkyAssumption
  <2>2. at + 1 - f.spawnedAt = d + 1
    BY <1>1
  <2>3. FrontCenterAt(f, at) = <<p + v * d, q + w * d>>
    BY <1>1, CenterAt
  <2>4. FrontCenterAt(f, at + 1) = <<p + v * (d + 1), q + w * (d + 1)>>
    BY <1>1, <2>2, CenterAt
  <2> HIDE DEF p, q, v, w, d
  <2>5. HexDistance(<<p, q>>, <<0, 0>>) <= DESPAWN_BOUND_RADIUS
    BY <2>1
  <2>6. HexDistance(<<p + v * d, q + w * d>>, <<0, 0>>) > DESPAWN_BOUND_RADIUS
    BY <1>3, <2>3
  <2>7. HexDistance(<<p + v * (d + 1), q + w * (d + 1)>>, <<0, 0>>) > DESPAWN_BOUND_RADIUS
    BY <2>1, <2>5, <2>6, LeavesOnce
  <2> QED BY <2>4, <2>7 DEF ShouldDespawn
<1> QED BY <1>2, <1>3 DEF ShouldDespawn

\* A front that has just appeared is not over.
LEMMA NewIsAlive ==
  ASSUME NEW f \in SkyFront PROVE ~ShouldDespawn(f, f.spawnedAt)
<1>1. /\ f.spawnedAt \in Nat /\ f.path \in Trajectories /\ f.path.life \in Nat \ {0}
      /\ f.path.origin \in Int \X Int /\ f.path.velocity \in Int \X Int
      /\ HexDistance(f.path.origin, <<0, 0>>) <= DESPAWN_BOUND_RADIUS
      /\ DESPAWN_BOUND_RADIUS \in Nat
  BY SkyAssumption DEF SkyFront
<1>2. f.spawnedAt - f.spawnedAt = 0
  BY <1>1
<1>3. FrontCenterAt(f, f.spawnedAt) = f.path.origin
  BY <1>1, <1>2, CenterAt
<1>4. HexDistance(f.path.origin, <<0, 0>>) \in Int
  BY <1>1 DEF HexDistance, Size
<1> QED BY <1>1, <1>3, <1>4 DEF ShouldDespawn

LEMMA AliveIs ==
  ASSUME NEW list \in Seq(SkyFront), NEW at
  PROVE  /\ Alive(list, at) \in Seq(SkyFront) /\ Len(Alive(list, at)) <= Len(list)
         /\ ToSet(Alive(list, at)) = {f \in ToSet(list) : ~ShouldDespawn(f, at)}
  BY KeptIs DEF Alive

LEMMA ToSetAppend ==
  ASSUME NEW S, NEW list \in Seq(S), NEW x \in S
  PROVE  /\ Append(list, x) \in Seq(S) /\ Len(Append(list, x)) = Len(list) + 1
         /\ ToSet(Append(list, x)) = ToSet(list) \cup {x}
<1> DEFINE new == Append(list, x)
<1>1. /\ new \in Seq(S) /\ Len(new) = Len(list) + 1 /\ Len(list) \in Nat
      /\ DOMAIN list = 1..Len(list) /\ DOMAIN new = 1..Len(new)
      /\ \A i \in 1..Len(list) : new[i] = list[i]
  OBVIOUS
<1>2. new[Len(new)] = x
  OBVIOUS
<1>3. 1..Len(new) = 1..Len(list) \cup {Len(new)}
  BY <1>1
<1> HIDE DEF new
<1>4. ToSet(new) = ToSet(list) \cup {x}
  BY <1>1, <1>2, <1>3 DEF ToSet
<1> QED BY <1>1, <1>4 DEF new

LEMMA VeinIs ==
  ASSUME NEW v \in Vein, NEW at \in Nat
  PROVE  VeinExpired(v, at) <=> \E k \in Nat : v = <<k>> /\ k <= at
  BY DEF VeinExpired, Vein

LEMMA SkyStart == ASSUME SkyInit PROVE SkyTypes /\ SkyPast /\ VeinPast
<1>1. <<>> \in Seq(SkyFront) /\ Len(<<>>) = 0 /\ <<>> \in Vein
  BY DEF Vein
<1>2. ToSet(<<>>) = {}
  BY DEF ToSet
<1> QED BY <1>1, <1>2, SkyAssumption DEF SkyInit, SkyTypes, SkyPast, VeinPast

LEMMA SkyTypeStep == ASSUME SkyTypes, [SkyNext]_skyVars PROVE SkyTypes'
<1> USE SkyAssumption DEF Misfortune
<1>1. CASE UNCHANGED skyVars
  BY <1>1 DEF SkyTypes, skyVars
<1>2. CASE TickWeather
  <2> DEFINE left == Alive(fronts, minute)
  <2>1. left \in Seq(SkyFront) /\ Len(left) <= Len(fronts) /\ Len(left) \in Nat
    BY AliveIs DEF SkyTypes
  <2> HIDE DEF left
  <2>2. /\ fronts' \in Seq(SkyFront) /\ Len(fronts') <= MAX_FRONTS
    <3>1. CASE fronts' = left
      BY <2>1, <3>1 DEF SkyTypes
    <3>2. ASSUME RoomForFront(left), NEW t \in Trajectories,
                 fronts' = Append(left, [path |-> t, spawnedAt |-> minute])
          PROVE  fronts' \in Seq(SkyFront) /\ Len(fronts') <= MAX_FRONTS
      <4>1. [path |-> t, spawnedAt |-> minute] \in SkyFront
        BY DEF SkyFront, SkyTypes
      <4> QED BY <2>1, <3>2, <4>1, ToSetAppend DEF RoomForFront
    <3> QED BY <1>2, <3>1, <3>2 DEF TickWeather, left
  <2> QED BY <1>2, <2>2 DEF TickWeather, SkyTypes
<1>3. ASSUME NEW ok \in BOOLEAN, PersistWeather(ok) PROVE SkyTypes'
  BY <1>3 DEF PersistWeather, SkyTypes
<1>4. ASSUME NEW ok \in BOOLEAN, TickVeins(ok) PROVE SkyTypes'
  <2>1. activeVein' \in Vein
    BY <1>4 DEF TickVeins, VeinChanges, SkyTypes, Vein
  <2>2. storedVein' \in Vein /\ misfortunes' \in 0..MaxMisfortunes
    BY <1>4, <2>1 DEF TickVeins, PersistVein, SkyTypes
  <2> QED BY <1>4, <2>1, <2>2 DEF TickVeins, SkyTypes
<1>5. CASE MinutePasses
  BY <1>5 DEF MinutePasses, SkyTypes
<1>6. CASE SkyCrash
  <2>1. /\ UNCHANGED <<minute, storedFronts, storedVein, cFronts>> /\ skyPc' = "idle"
        /\ running' = FALSE /\ misfortunes' \in 0..MaxMisfortunes
        /\ fronts' = <<>> /\ activeVein' = <<>>
    BY <1>6 DEF SkyCrash, SkyTypes
  <2>2. fronts' \in Seq(SkyFront) /\ Len(fronts') <= MAX_FRONTS /\ activeVein' \in Vein
    <3>1. <<>> \in Seq(SkyFront) /\ Len(<<>>) = 0
      OBVIOUS
    <3>2. <<>> \in Vein
      BY DEF Vein
    <3>3. MAX_FRONTS \in Nat
      OBVIOUS
    <3> QED BY <2>1, <3>1, <3>2, <3>3
  <2> QED BY <2>1, <2>2 DEF SkyTypes
<1>7. ASSUME NEW fok \in BOOLEAN, NEW vok \in BOOLEAN, Rehydrate(fok, vok) PROVE SkyTypes'
  <2>1. fronts' \in Seq(SkyFront) /\ Len(fronts') <= MAX_FRONTS
    BY <1>7, AliveIs DEF Rehydrate, SkyTypes
  <2>2. activeVein' \in Vein
    BY <1>7 DEF Rehydrate, SkyTypes, Vein
  <2> QED BY <1>7, <2>1, <2>2 DEF Rehydrate, SkyTypes
<1> QED BY <1>1, <1>2, <1>3, <1>4, <1>5, <1>6, <1>7 DEF SkyNext

LEMMA SkyPastStep == ASSUME SkyTypes, SkyPast, [SkyNext]_skyVars PROVE SkyPast'
<1>t. minute \in Nat /\ \A f \in SkyFront : f.spawnedAt \in Nat
  BY SkyAssumption DEF SkyTypes, SkyFront
<1>s. ToSet(fronts) \subseteq SkyFront /\ ToSet(storedFronts) \subseteq SkyFront
  BY DEF SkyTypes, ToSet
<1>1. CASE UNCHANGED skyVars
  BY <1>1 DEF SkyPast, skyVars
<1>2. CASE TickWeather
  <2> DEFINE left == Alive(fronts, minute)
  <2>1. /\ left \in Seq(SkyFront)
        /\ ToSet(left) = {f \in ToSet(fronts) : ~ShouldDespawn(f, minute)}
    BY AliveIs DEF SkyTypes
  <2> HIDE DEF left
  <2>2. /\ ToSet(left) \subseteq ToSet(fronts')
        /\ \A f \in ToSet(fronts') : /\ f \in SkyFront /\ f.spawnedAt <= minute
                                    /\ ~ShouldDespawn(f, minute)
    <3>1. CASE fronts' = left
      BY <1>s, <2>1, <3>1 DEF SkyPast
    <3>2. ASSUME NEW t \in Trajectories,
                 fronts' = Append(left, [path |-> t, spawnedAt |-> minute])
          PROVE  /\ ToSet(left) \subseteq ToSet(fronts')
                 /\ \A f \in ToSet(fronts') : /\ f \in SkyFront /\ f.spawnedAt <= minute
                                             /\ ~ShouldDespawn(f, minute)
      <4> DEFINE new == [path |-> t, spawnedAt |-> minute]
      <4>1. new \in SkyFront /\ new.spawnedAt = minute
        BY DEF SkyFront, SkyTypes
      <4>2. ~ShouldDespawn(new, minute)
        BY <4>1, NewIsAlive
      <4> HIDE DEF new
      <4>3. ToSet(fronts') = ToSet(left) \cup {new}
        BY <2>1, <3>2, <4>1, ToSetAppend DEF new
      <4> QED BY <1>s, <1>t, <2>1, <4>1, <4>2, <4>3 DEF SkyPast
    <3> QED BY <1>2, <3>1, <3>2 DEF TickWeather, left
  <2>3. /\ UNCHANGED <<minute, storedFronts, running>> /\ running
        /\ goneFronts' = goneFronts \cup (ToSet(fronts) \ ToSet(fronts'))
    BY <1>2 DEF TickWeather
  <2>4. \A f \in ToSet(fronts) \ ToSet(fronts') : ShouldDespawn(f, minute)
    BY <2>1, <2>2
  <2>5. ToSet(fronts') \cap goneFronts' = {}
    BY <2>2, <2>3 DEF SkyPast
  <2> QED BY <1>s, <2>2, <2>3, <2>4, <2>5 DEF SkyPast
<1>3. ASSUME NEW ok \in BOOLEAN, PersistWeather(ok) PROVE SkyPast'
  BY <1>3 DEF PersistWeather, SkyPast
<1>4. ASSUME NEW ok \in BOOLEAN, TickVeins(ok) PROVE SkyPast'
  BY <1>4 DEF TickVeins, SkyPast
<1>5. CASE MinutePasses
  <2>1. minute' = minute + 1 /\ skyPc' = "idle" /\ UNCHANGED <<fronts, storedFronts, goneFronts, running>>
    BY <1>5 DEF MinutePasses
  <2>2. \A f \in goneFronts : ShouldDespawn(f, minute + 1)
    BY <1>t, DespawnStays DEF SkyPast
  <2>3. \A f \in ToSet(fronts) \cup ToSet(storedFronts) \cup goneFronts : f.spawnedAt <= minute + 1
    BY <1>s, <1>t DEF SkyPast
  <2> QED BY <2>1, <2>2, <2>3 DEF SkyPast
<1>6. CASE SkyCrash
  <2>1. ToSet(<<>>) = {}
    BY DEF ToSet
  <2> QED BY <1>6, <2>1 DEF SkyCrash, SkyPast
<1>7. ASSUME NEW fok \in BOOLEAN, NEW vok \in BOOLEAN, Rehydrate(fok, vok) PROVE SkyPast'
  <2>1. /\ UNCHANGED <<minute, skyPc, storedFronts, goneFronts>> /\ running' = TRUE /\ ~running
        /\ fronts' = IF fok THEN Alive(storedFronts, minute) ELSE <<>>
    BY <1>7 DEF Rehydrate
  <2>2. \A f \in ToSet(fronts') : f \in ToSet(storedFronts) /\ ~ShouldDespawn(f, minute)
    <3>1. ToSet(<<>>) = {}
      BY DEF ToSet
    <3>2. ToSet(Alive(storedFronts, minute)) = {f \in ToSet(storedFronts) : ~ShouldDespawn(f, minute)}
      BY AliveIs DEF SkyTypes
    <3> QED BY <2>1, <3>1, <3>2
  <2>3. ToSet(fronts') \cap goneFronts = {}
    BY <2>2 DEF SkyPast
  <2> QED BY <2>1, <2>2, <2>3 DEF SkyPast
<1> QED BY <1>1, <1>2, <1>3, <1>4, <1>5, <1>6, <1>7 DEF SkyNext

LEMMA VeinPastStep == ASSUME SkyTypes, VeinPast, [SkyNext]_skyVars PROVE VeinPast'
<1>t. minute \in Nat /\ VEIN_LIFESPAN \in Nat \ {0}
  BY SkyAssumption DEF SkyTypes
<1>1. CASE UNCHANGED skyVars
  BY <1>1 DEF VeinPast, skyVars
<1>2. CASE TickWeather
  BY <1>2 DEF TickWeather, VeinPast
<1>3. ASSUME NEW ok \in BOOLEAN, PersistWeather(ok) PROVE VeinPast'
  BY <1>3 DEF PersistWeather, VeinPast
<1>4. ASSUME NEW ok \in BOOLEAN, TickVeins(ok) PROVE VeinPast'
  <2>1. minute' = minute
    BY <1>4 DEF TickVeins
  <2>2. CASE VeinExpired(activeVein, minute) /\ activeVein' = <<>>
             /\ goneVeins' = goneVeins \cup {activeVein}
    <3>1. PICK k \in Nat : activeVein = <<k>> /\ k <= minute
      BY <1>t, <2>2, VeinIs DEF SkyTypes
    <3>2. <<>> \notin {<<n>> : n \in 0..minute}
      OBVIOUS
    <3> QED BY <1>t, <2>1, <2>2, <3>1, <3>2 DEF VeinPast
  <2>3. CASE activeVein' = <<minute + VEIN_LIFESPAN>> /\ UNCHANGED goneVeins
    <3>1. <<minute + VEIN_LIFESPAN>> \notin {<<k>> : k \in 0..minute}
      BY <1>t
    <3> QED BY <2>1, <2>3, <3>1 DEF VeinPast
  <2>4. CASE UNCHANGED <<activeVein, goneVeins>>
    BY <2>1, <2>4 DEF VeinPast
  <2> QED BY <1>4, <2>2, <2>3, <2>4 DEF TickVeins, VeinChanges
<1>5. CASE MinutePasses
  <2>1. minute' = minute + 1 /\ UNCHANGED <<activeVein, goneVeins>>
    BY <1>5 DEF MinutePasses
  <2>2. {<<k>> : k \in 0..minute} \subseteq {<<k>> : k \in 0..(minute + 1)}
    BY <1>t
  <2> QED BY <2>1, <2>2 DEF VeinPast
<1>6. CASE SkyCrash
  <2>1. <<>> \notin {<<n>> : n \in 0..minute}
    OBVIOUS
  <2> QED BY <1>6, <2>1 DEF SkyCrash, VeinPast
<1>7. ASSUME NEW fok \in BOOLEAN, NEW vok \in BOOLEAN, Rehydrate(fok, vok) PROVE VeinPast'
  <2>1. UNCHANGED <<minute, goneVeins>>
    BY <1>7 DEF Rehydrate
  <2>2. activeVein' = <<>> \/ (activeVein' = storedVein /\ ~VeinExpired(storedVein, minute))
    BY <1>7 DEF Rehydrate
  <2>3. activeVein' \notin {<<k>> : k \in 0..minute}
    <3>1. CASE activeVein' = <<>>
      BY <3>1
    <3>2. CASE activeVein' = storedVein /\ ~VeinExpired(storedVein, minute)
      <4>1. storedVein \in Vein /\ ~\E k \in Nat : storedVein = <<k>> /\ k <= minute
        BY <1>t, <3>2, VeinIs DEF SkyTypes
      <4> QED BY <1>t, <3>2, <4>1
    <3> QED BY <2>2, <3>1, <3>2
  <2> QED BY <2>1, <2>3 DEF VeinPast
<1> QED BY <1>1, <1>2, <1>3, <1>4, <1>5, <1>6, <1>7 DEF SkyNext

\* Where at most one front is over a plot, the product over those fronts is its modifier.
LEMMA ProductOfOne ==
  ASSUME NEW plot, NEW at, Covering(plot, at) \in Seq(SkyFront), Len(Covering(plot, at)) < 2
  PROVE  WeatherMultiplierAt(plot, at) = Strongest(Covering(plot, at), plot.biome)
<1> DEFINE c == Covering(plot, at)
           Mod(n) == WeatherModifier(c[n].path.type, plot.biome)
           fold == CHOOSE g : g = [s \in SUBSET (DOMAIN c) |->
                     IF s = {} THEN 100
                     ELSE (g[s \ {Max(s)}] * Mod(Max(s))) \div 100]
<1>1. WeatherMultiplierAt(plot, at) = fold[DOMAIN c]
  BY DEF WeatherMultiplierAt, FoldLeft, MapThenFoldSet
<1> DEFINE Body(g, s) == IF s = {} THEN 100
                         ELSE (g[s \ {Max(s)}] * Mod(Max(s))) \div 100
           IsFold(g) == g = [s \in SUBSET (DOMAIN c) |-> Body(g, s)]
<1>2. ASSUME NEW g, IsFold(g) PROVE IsFold(fold)
  <2>1. \E h : h = [s \in SUBSET (DOMAIN c) |->
                     IF s = {} THEN 100
                     ELSE (h[s \ {Max(s)}] * Mod(Max(s))) \div 100]
    BY <1>2
  <2> HIDE DEF c, Mod
  <2> QED BY <2>1
<1> HIDE DEF fold
<1>3. CASE c = <<>>
  <2>1. DOMAIN c = {} /\ Strongest(c, plot.biome) = 100
    BY <1>3 DEF Strongest
  <2> DEFINE g == [s \in SUBSET {} |-> 100]
  <2>2. IsFold(g)
    BY <2>1
  <2>3. IsFold(fold)
    <3> HIDE DEF IsFold, g
    <3> QED BY <1>2, <2>2
  <2>4. fold[{}] = 100
    BY <2>1, <2>3
  <2> QED BY <1>1, <2>1, <2>4
<1>4. CASE c # <<>>
  <2>1. Len(c) = 1 /\ DOMAIN c = {1}
    <3>1. c \in Seq(SkyFront) /\ Len(c) < 2
      OBVIOUS
    <3> HIDE DEF c
    <3>2. Len(c) \in Nat /\ DOMAIN c = 1..Len(c)
      BY <3>1
    <3>3. Len(c) # 0
      BY <1>4, <3>1
    <3> QED BY <3>1, <3>2, <3>3
  <2>2. Mod(1) \in Nat
    BY DEF WeatherModifier
  <2>3. Max({1}) = 1
    BY DEF Max
  <2> DEFINE g == [s \in SUBSET {1} |-> IF s = {} THEN 100 ELSE (100 * Mod(1)) \div 100]
  <2>4. IsFold(g)
    <3>1. ASSUME NEW s \in SUBSET {1}, s # {} PROVE s = {1} /\ Max(s) = 1 /\ s \ {1} = {}
      BY <2>3, <3>1
    <3>2. ASSUME NEW s \in SUBSET {1} PROVE g[s] = Body(g, s)
      <4>1. g[{}] = 100
        OBVIOUS
      <4> HIDE DEF Mod, c
      <4> QED BY <3>1, <4>1
    <3>3. g = [s \in SUBSET {1} |-> g[s]]
      OBVIOUS
    <3> HIDE DEF g, Body
    <3> QED BY <2>1, <3>2, <3>3
  <2>5. IsFold(fold)
    <3> HIDE DEF IsFold, g
    <3> QED BY <1>2, <2>4
  <2>6. fold[{}] = 100 /\ fold[{1}] = (fold[{}] * Mod(1)) \div 100
    <3>1. {} \in SUBSET {1} /\ {1} \in SUBSET {1} /\ {1} \ {1} = {}
      OBVIOUS
    <3>2. fold = [s \in SUBSET {1} |-> Body(fold, s)]
      <4> HIDE DEF Mod, c, Body
      <4> QED BY <2>1, <2>5
    <3>3. fold[{}] = Body(fold, {}) /\ fold[{1}] = Body(fold, {1})
      <4> HIDE DEF Mod, c, Body
      <4> QED BY <3>1, <3>2
    <3> HIDE DEF Mod, c
    <3> QED BY <2>3, <3>1, <3>3
  <2>7. Strongest(c, plot.biome) = Mod(1)
    <3> DEFINE mods     == [n \in DOMAIN c |-> WeatherModifier(c[n].path.type, plot.biome)]
               strength == [n \in DOMAIN c |-> Size(mods[n] - 100)]
               pick == CHOOSE n \in DOMAIN c : \A m \in DOMAIN c :
                         strength[n] > strength[m] \/ (strength[n] = strength[m] /\ n <= m)
    <3>1. pick = 1
      <4> HIDE DEF strength, c
      <4> QED BY <2>1
    <3>2. Strongest(c, plot.biome) = mods[pick]
      BY <1>4 DEF Strongest
    <3> QED BY <2>1, <3>1, <3>2
  <2> HIDE DEF Mod
  <2> QED BY <1>1, <2>1, <2>2, <2>6, <2>7
<1> QED BY <1>3, <1>4

\* At the minute of the browser's clock the card and the server look at the same fronts:
\* those over the plot, each of them visible.
LEMMA ChipIsRight == ASSUME SkyTypes PROVE ChipNamesPayer
<1> SUFFICES ASSUME NEW at, PageIsCurrent(at), NEW plot \in Plots
             PROVE  /\ DominantFrontAt(plot, at) = ModifierAt(plot, at)
                    /\ Len(Covering(plot, at)) < 2 =>
                         WeatherMultiplierAt(plot, at) = ModifierAt(plot, at)
  BY DEF ChipNamesPayer
<1>1. cFronts = fronts /\ fronts \in Seq(SkyFront)
  BY DEF PageIsCurrent, SkyTypes
<1>2. Covering(plot, at) = Over(plot, at)
  <2>1. ToSet(fronts) \cap {f \in ToSet(fronts) : ChipCovers(f, plot, at)}
          = ToSet(fronts) \cap {f \in ToSet(fronts) : FrontCovers(f, plot.hex, at)}
    BY DEF PageIsCurrent, ChipCovers
  <2>2. Kept(fronts, {f \in ToSet(fronts) : ChipCovers(f, plot, at)})
          = Kept(fronts, {f \in ToSet(fronts) : FrontCovers(f, plot.hex, at)})
    BY <1>1, <2>1, KeptAgree
  <2> QED BY <1>1, <2>2 DEF Covering, Over
<1>3. Covering(plot, at) \in Seq(SkyFront)
  BY <1>1, KeptIs DEF Covering
<1>4. DominantFrontAt(plot, at) = ModifierAt(plot, at)
  BY <1>2 DEF DominantFrontAt, ModifierAt
<1>5. Len(Covering(plot, at)) < 2 => WeatherMultiplierAt(plot, at) = ModifierAt(plot, at)
  BY <1>2, <1>3, ProductOfOne DEF ModifierAt
<1> QED BY <1>4, <1>5

\* What has left the sky does not come back, through restarts and copies in Redis that
\* stay behind, and the front that a card names is the one the server pays by at the
\* minute of the browser's clock: for all fronts whose origin is in the world, any plots
\* and any error of that clock.
THEOREM SkyStaysOne == SkySpec => []SkyIsOne
<1> DEFINE Inv == SkyTypes /\ SkyPast /\ VeinPast
<1>1. SkyInit => Inv
  BY SkyStart
<1>2. Inv /\ [SkyNext]_skyVars => Inv'
  BY SkyTypeStep, SkyPastStep, VeinPastStep
<1>3. Inv => SkyIsOne
  BY ChipIsRight DEF SkyPast, VeinPast, GoneForGood, SkyIsOne
<1> QED BY <1>1, <1>2, <1>3, PTL DEF SkySpec

-----------------------------------------------------------------------------
(* Types of the parts, and the server that they make. *)

ConfigRow == [paused : BOOLEAN, version : 0..MaxEdits]

\* At most one row.
Copies == {<<>>} \cup {<<c>> : c \in ConfigRow}

\* A reader that is past its read has a row.
EconomyTypes ==
  /\ row \in ConfigRow /\ cache \in Copies
  /\ readPc \in [Readers -> {"idle", "missed", "read"}] /\ readRow \in [Readers -> Copies]
  /\ \A r \in Readers : readPc[r] = "read" => readRow[r] # <<>>
  /\ verdict \in [Readers -> {"none", "go", "paused"}]
  /\ editPc \in {"idle", "upserted"} /\ excused \in BOOLEAN /\ slips \in 0..MaxSlips

LEMMA EconomyTypeStart == ASSUME EconomyInit PROVE EconomyTypes
<1>1. row \in ConfigRow /\ slips \in 0..MaxSlips
  BY EconomyAssumption DEF EconomyInit, ConfigRow
<1> QED BY <1>1 DEF EconomyInit, EconomyTypes, Copies

LEMMA EconomyTypeStep == ASSUME EconomyTypes, [EconomyNext]_economyVars PROVE EconomyTypes'
<1> USE DEF EconomyTypes
<1>1. CASE UNCHANGED economyVars
  BY <1>1 DEF economyVars
<1>2. ASSUME NEW c \in ConfigRow PROVE Verdict(c) \in {"none", "go", "paused"} /\ <<c>> \in Copies
  BY DEF Verdict, Copies
<1>3. ASSUME NEW q \in Copies, q # <<>> PROVE q[1] \in ConfigRow
  BY <1>3 DEF Copies
<1>4. ASSUME NEW r \in Readers, ConfigAsked(r) PROVE EconomyTypes'
  BY <1>2, <1>3, <1>4 DEF ConfigAsked
<1>5. ASSUME NEW r \in Readers, ConfigRead(r) PROVE EconomyTypes'
  BY <1>2, <1>5 DEF ConfigRead
<1>6. ASSUME NEW r \in Readers, ConfigStored(r) PROVE EconomyTypes'
  <2>1. readRow[r] \in Copies /\ readRow[r][1] \in ConfigRow /\ <<>> \in Copies
    BY <1>3, <1>6 DEF ConfigStored, Copies
  <2>2. excused' \in BOOLEAN
    BY <1>6 DEF ConfigStored
  <2> QED BY <1>2, <1>6, <2>1, <2>2 DEF ConfigStored
<1>7. ASSUME NEW ok \in BOOLEAN, ConfigUpserted(ok) PROVE EconomyTypes'
  <2>1. row' \in ConfigRow
    BY <1>7, EconomyAssumption DEF ConfigUpserted, ConfigRow
  <2> QED BY <1>7, <2>1 DEF ConfigUpserted
<1>8. ASSUME NEW ok \in BOOLEAN, ConfigInvalidated(ok) PROVE EconomyTypes'
  <2>1. slips' \in 0..MaxSlips
    BY <1>8, EconomyAssumption DEF ConfigInvalidated, Slip
  <2>2. cache' \in Copies /\ excused' \in BOOLEAN
    BY <1>8 DEF ConfigInvalidated, Invalidated, Copies
  <2> QED BY <1>8, <2>1, <2>2 DEF ConfigInvalidated
<1>9. CASE CacheExpires
  BY <1>9 DEF CacheExpires, Invalidated, Copies
<1> QED BY <1>1, <1>4, <1>5, <1>6, <1>7, <1>8, <1>9 DEF EconomyNext

LEMMA EconomyTypesOK == ASSUME EconomyTypes PROVE EconomyTypeOK
<1>1. Len(cache) <= 1
  <2>1. CASE cache = <<>>
    BY <2>1
  <2>2. ASSUME NEW c \in ConfigRow, cache = <<c>> PROVE Len(cache) <= 1
    BY <2>2
  <2> QED BY <2>1, <2>2 DEF EconomyTypes, Copies
<1> QED BY <1>1 DEF EconomyTypes, EconomyTypeOK, ConfigRow

-----------------------------------------------------------------------------

\* Beside what the books of the contract say: no more is safe than was mined, and what was
\* mined is bounded.
ContractTypes ==
  /\ agentCount \in 0..MaxAgents
  /\ target \in [Days -> 0..ContractTarget(MaxAgents)]
  /\ \A d \in Days : safe[d] <= mined[d] /\ mined[d] <= MaxMined
  /\ boostUntil \in 0..MaxDay
  /\ opening \in [Requests -> 0..MaxDay] /\ saw \in [Requests -> BOOLEAN]
  /\ tickPc \in {"idle", "mining", "completing", "boosting", "clearing"}
  /\ touched \in BOOLEAN
  /\ contractFaults \in 0..MaxFaults

LEMMA TargetInRange ==
  ASSUME NEW n \in 0..MaxAgents
  PROVE  ContractTarget(n) \in 0..ContractTarget(MaxAgents)
<1>1. CONTRACT_BASE_TARGET \in Nat /\ MaxAgents \in Nat
  BY ContractAssumption
<1>2. /\ Larger(1, n) \in Nat /\ Larger(1, MaxAgents) \in Nat
      /\ Larger(1, n) <= Larger(1, MaxAgents)
  BY <1>1 DEF Larger
<1>3. ASSUME NEW a \in Nat, NEW x \in Nat, NEW y \in Nat, x <= y
      PROVE  a * x \in Nat /\ a * y \in Nat /\ a * x <= a * y
  BY <1>3
<1> QED BY <1>1, <1>2, <1>3 DEF ContractTarget

LEMMA ContractTypeStart == ASSUME ContractInit PROVE ContractTypes
<1>1. 0 \in 0..ContractTarget(MaxAgents)
  <2>1. MaxAgents \in 0..MaxAgents
    BY ContractAssumption
  <2>2. ContractTarget(MaxAgents) \in Nat
    BY <2>1, ContractAssumption DEF ContractTarget, Larger
  <2> QED BY <2>2
<1>2. /\ MaxDay \in Nat /\ MaxMined \in Nat /\ MaxFaults \in Nat
      /\ contractFaults = 0 /\ boostUntil = 0
  BY ContractAssumption DEF ContractInit
<1>3. \A d \in Days : safe[d] <= mined[d] /\ mined[d] <= MaxMined
  BY <1>2 DEF ContractInit
<1>4. target \in [Days -> 0..ContractTarget(MaxAgents)]
  BY <1>1 DEF ContractInit
<1>5. opening \in [Requests -> 0..MaxDay] /\ saw \in [Requests -> BOOLEAN]
  BY <1>2 DEF ContractInit
<1>6. contractFaults \in 0..MaxFaults /\ boostUntil \in 0..MaxDay
  BY <1>2
<1> QED BY <1>3, <1>4, <1>5, <1>6 DEF ContractInit, ContractTypes

LEMMA FaultInRange ==
  ASSUME ContractTypes, ContractFault PROVE contractFaults' \in 0..MaxFaults
  BY ContractAssumption DEF ContractTypes, ContractFault

LEMMA ContractTypeStep ==
  ASSUME StreakInv, ProgressInv, ContractTypes, [ContractNext]_contractVars
  PROVE  ContractTypes'
<1> USE DEF ContractTypes, contractRows, contractRedis, contractGets, contractTick
<1>0. /\ MaxDay \in Nat /\ MaxMined \in Nat /\ Days \subseteq 0..MaxDay
      /\ today \in Days /\ tickDay \in Days
      /\ \A x \in {buffer, dbProgress, mined, safe} : x \in [Days -> Nat]
      /\ \A d \in Days : dbProgress[d] <= safe[d]
  <2>1. MaxDay \in Nat /\ MaxMined \in Nat
    BY ContractAssumption
  <2>2. \A x \in {buffer, dbProgress, mined, safe} : x \in [Days -> Nat]
    BY DEF ProgressInv
  <2>3. \A d \in Days : dbProgress[d] <= safe[d]
    BY <2>2 DEF ProgressInv, ProgressAddsUp, Shown, Larger
  <2> QED BY <2>1, <2>2, <2>3 DEF Days, StreakInv
<1>1. CASE UNCHANGED contractVars
  BY <1>1 DEF contractVars
<1>2. ASSUME NEW r \in Requests, OpenContract(r) PROVE ContractTypes'
  BY <1>0, <1>2 DEF OpenContract
<1>3. ASSUME NEW r \in Requests, ContractOpened(r) PROVE ContractTypes'
  <2>1. target' \in [Days -> 0..ContractTarget(MaxAgents)]
    BY <1>3, TargetInRange DEF ContractOpened
  <2> QED BY <1>0, <1>3, <2>1 DEF ContractOpened
<1>4. ASSUME NEW amount \in 1..MaxAmount, Accrue(amount) PROVE ContractTypes'
  <2>1. /\ mined' = [mined EXCEPT ![tickDay] = @ + amount] /\ mined[tickDay] + amount <= MaxMined
        /\ safe' = [safe EXCEPT ![tickDay] = @ + amount] /\ amount \in Nat
        /\ tickPc' \in {"mining", "completing"} /\ touched' = TRUE
        /\ UNCHANGED <<agentCount, target, boostUntil, opening, saw, contractFaults>>
    BY <1>4 DEF Accrue
  <2>2. \A d \in Days : safe'[d] <= mined'[d] /\ mined'[d] <= MaxMined
    <3> SUFFICES ASSUME NEW d \in Days PROVE safe'[d] <= mined'[d] /\ mined'[d] <= MaxMined
      OBVIOUS
    <3>1. safe[d] \in Nat /\ mined[d] \in Nat /\ safe[d] <= mined[d] /\ mined[d] <= MaxMined
      BY <1>0
    <3>2. safe'[d] = (IF d = tickDay THEN safe[d] + amount ELSE safe[d])
      BY <1>0, <2>1
    <3>3. mined'[d] = (IF d = tickDay THEN mined[d] + amount ELSE mined[d])
      BY <1>0, <2>1
    <3> QED BY <1>0, <2>1, <3>1, <3>2, <3>3
  <2> QED BY <2>1, <2>2
<1>5. ASSUME NEW ok \in BOOLEAN, PersistCompletion(ok) PROVE ContractTypes'
  <2>1. contractFaults' \in 0..MaxFaults
    BY <1>5, FaultInRange DEF PersistCompletion
  <2> QED BY <1>5, <2>1 DEF PersistCompletion
<1>6. ASSUME NEW ok \in BOOLEAN, ClearBuffer(ok) PROVE ContractTypes'
  <2>1. contractFaults' \in 0..MaxFaults
    BY <1>6, FaultInRange DEF ClearBuffer
  <2>2. \A d \in Days : safe'[d] <= mined[d]
    BY <1>0, <1>6 DEF ClearBuffer
  <2> QED BY <1>6, <2>1, <2>2 DEF ClearBuffer
<1>7. ASSUME NEW ok \in BOOLEAN, ContractTickEnds(ok) PROVE ContractTypes'
  BY <1>7 DEF ContractTickEnds
<1>8. CASE ContractTickStarts
  <2>1. boostUntil' \in {0, boostUntil} /\ 0 \in 0..MaxDay
    BY <1>8, <1>0 DEF ContractTickStarts
  <2>2. touched' \in BOOLEAN
    BY <1>8 DEF ContractTickStarts
  <2> QED BY <1>8, <2>1, <2>2 DEF ContractTickStarts
<1>9. CASE SetOwnerBoost
  BY <1>9, <1>0 DEF SetOwnerBoost
<1>10. CASE ContractTickBreaks
  <2>1. contractFaults' \in 0..MaxFaults
    BY <1>10, FaultInRange DEF ContractTickBreaks
  <2>2. opening' \in [Requests -> 0..MaxDay]
    BY <1>0, <1>10 DEF ContractTickBreaks
  <2>3. saw' \in [Requests -> BOOLEAN]
    BY <1>10 DEF ContractTickBreaks
  <2> QED BY <1>10, <2>1, <2>2, <2>3 DEF ContractTickBreaks
<1>11. CASE RedisEmptied
  <2>1. contractFaults' \in 0..MaxFaults
    BY <1>11, FaultInRange DEF RedisEmptied
  <2>2. \A d \in Days : safe'[d] <= mined[d]
    BY <1>0, <1>11 DEF RedisEmptied
  <2> QED BY <1>0, <1>11, <2>1, <2>2 DEF RedisEmptied
<1>12. CASE Midnight
  BY <1>12 DEF Midnight
<1>13. CASE AgentBought
  BY <1>13, ContractAssumption DEF AgentBought
<1> QED BY <1>1, <1>2, <1>3, <1>4, <1>5, <1>6, <1>7, <1>8, <1>9, <1>10, <1>11, <1>12, <1>13
    DEF ContractNext

LEMMA ContractTypesOK ==
  ASSUME StreakInv, ProgressInv, ContractTypes PROVE ContractTypeOK
<1>1. \A x \in {dbProgress, buffer, mined, safe} : x \in [Days -> 0..MaxMined]
  <2>1. \A x \in {dbProgress, buffer, mined, safe} : x \in [Days -> Nat]
    BY DEF ProgressInv
  <2>2. \A d \in Days : dbProgress[d] <= safe[d] /\ buffer[d] <= safe[d]
    BY <2>1 DEF ProgressInv, ProgressAddsUp, Shown, Larger
  <2>3. \A d \in Days : safe[d] <= mined[d] /\ mined[d] <= MaxMined
    BY DEF ContractTypes
  <2>4. MaxMined \in Nat
    BY ContractAssumption
  <2>5. ASSUME NEW x \in {dbProgress, buffer, mined, safe}, NEW d \in Days
        PROVE  x[d] \in 0..MaxMined
    BY <2>1, <2>2, <2>3, <2>4
  <2> QED BY <2>1, <2>5
<1>2. contractStreak \in 0..MaxDay
  <2>1. IsFiniteSet(Days) /\ Cardinality(Days) = MaxDay
    BY FS_Interval, ContractAssumption DEF Days
  <2>2. /\ Cardinality({d \in Days : completed[d]}) <= Cardinality(Days)
    BY <2>1, FS_Subset
  <2> QED BY <2>1, <2>2, ContractAssumption DEF StreakInv, StreakIsCompletions
<1> QED BY <1>1, <1>2 DEF StreakInv, ContractTypes, ContractTypeOK

-----------------------------------------------------------------------------

\* Beside what stamps and records say; a rush that is being paid for is over.
RushTypes ==
  /\ serving \in BOOLEAN /\ winners \subseteq Players
  /\ rushPc \in {"idle", "open", "settle", "grant", "mark", "accrue"}
  /\ lastActiveAt \in [Players -> -1..MaxTime] /\ lastWrite \in [Players -> -1..MaxTime]
  /\ present \subseteq Players \X RushWindows
  /\ boosted \in [Players -> 0..MaxTime + GOLD_RUSH_BOOST_MS]
  /\ rushPc = "grant" => WindowEnd(record[1].window) <= MaxTime
  /\ troubles \in 0..MaxTroubles

LEMMA RushTypeStart == ASSUME RushInit PROVE RushTypes
<1>1. /\ MaxTime \in Nat /\ MaxTroubles \in Nat /\ MaxTime + GOLD_RUSH_BOOST_MS \in Nat
  BY RushAssumption
<1>2. lastActiveAt \in [Players -> -1..MaxTime] /\ lastWrite \in [Players -> -1..MaxTime]
  BY <1>1 DEF RushInit
<1>3. boosted \in [Players -> 0..MaxTime + GOLD_RUSH_BOOST_MS] /\ troubles \in 0..MaxTroubles
  BY <1>1 DEF RushInit
<1> QED BY <1>2, <1>3 DEF RushInit, RushTypes

LEMMA TroubleInRange == ASSUME RushTypes, Trouble PROVE troubles' \in 0..MaxTroubles
  BY RushAssumption DEF RushTypes, Trouble

LEMMA RushTypeStep ==
  ASSUME StampInv, RecordInv, RushTypes, [RushNext]_rushVars PROVE RushTypes'
<1> USE DEF RushTypes
<1>0. MaxTime \in Nat /\ GOLD_RUSH_BOOST_MS \in Nat /\ now \in 0..MaxTime /\ now \in -1..MaxTime
  BY RushAssumption DEF StampInv
<1>1. CASE TimePasses
  BY <1>1 DEF rushHistory, TimePasses, rushState, stamps
<1>2. ASSUME NEW u \in Players, Touch(u) PROVE RushTypes'
  <2>1. UNCHANGED <<serving, rushState, lastActiveAt, troubles>>
    BY <1>2 DEF Touch
  <2>2. present' \subseteq Players \X RushWindows
    BY <1>0, <1>2, IndexInRange DEF Touch
  <2>3. lastWrite' \in [Players -> -1..MaxTime]
    BY <1>0, <1>2 DEF Touch
  <2> QED BY <2>1, <2>2, <2>3 DEF rushState
<1>3. ASSUME NEW ok \in BOOLEAN, TouchWritten(ok) PROVE RushTypes'
  <2>1. UNCHANGED <<serving, rushState, present>>
    BY <1>3 DEF rushHistory, TouchWritten
  <2>2. PICK write \in writing :
           IF ok
           THEN /\ lastActiveAt' = [lastActiveAt EXCEPT ![write[1]] = write[2]]
                /\ UNCHANGED <<lastWrite, troubles>>
           ELSE /\ Trouble /\ UNCHANGED lastActiveAt
                /\ lastWrite' = [lastWrite EXCEPT ![write[1]] = IF @ = write[2] THEN -1 ELSE @]
    BY <1>3 DEF TouchWritten
  <2>3. write[1] \in Players /\ write[2] \in -1..MaxTime /\ -1 \in -1..MaxTime
    BY <1>0 DEF StampInv
  <2>4. lastActiveAt' \in [Players -> -1..MaxTime] /\ lastWrite' \in [Players -> -1..MaxTime]
    BY <2>2, <2>3
  <2>5. troubles' \in 0..MaxTroubles
    BY <2>2, TroubleInRange
  <2> QED BY <2>1, <2>4, <2>5 DEF rushState
<1>4. ASSUME NEW ok \in BOOLEAN, RehydrateGoldRush(ok) PROVE RushTypes'
  <2>1. troubles' \in 0..MaxTroubles
    BY <1>4, TroubleInRange DEF RehydrateGoldRush
  <2>2. rushPc' = "idle"
    BY <1>4 DEF RehydrateGoldRush, RecordInv
  <2> QED BY <1>4, <2>1, <2>2 DEF RehydrateGoldRush, stamps
<1>5. CASE RushTickStarts
  BY <1>5 DEF rushHistory, RushTickStarts, stamps
<1>6. ASSUME NEW ok \in BOOLEAN, OpenRush(ok) PROVE RushTypes'
  <2>1. troubles' \in 0..MaxTroubles
    BY <1>6, TroubleInRange DEF OpenRush, Persist
  <2> QED BY <1>6, <2>1 DEF OpenRush, stamps
<1>7. CASE SettleRush
  <2>1. UNCHANGED <<serving, record, boosted, stamps, present, troubles>>
    BY <1>7 DEF rushHistory, SettleRush
  <2>2. CASE Due
    <3>1. /\ record # <<>> /\ rushNow >= WindowEnd(record[1].window)
          /\ winners' \subseteq Players /\ rushPc' = "grant"
      BY <1>7, <2>2 DEF SettleRush, Due, Unsettled, UsersActiveInWindow
    <3>2. record[1].window \in Nat
      BY <3>1, RushAssumption DEF RecordInv, Honest, RushRecord, RushWindows, WindowIndex
    <3>3. WindowEnd(record[1].window) \in Int
      BY <3>2, RushAssumption DEF WindowEnd, WindowStart
    <3>4. WindowEnd(record[1].window) <= MaxTime
      BY <1>0, <3>1, <3>3 DEF RecordInv
    <3> QED BY <2>1, <3>1, <3>4 DEF stamps
  <2>3. CASE ~Due
    BY <1>7, <2>1, <2>3 DEF SettleRush, stamps
  <2> QED BY <2>2, <2>3
<1>8. CASE GrantBoosts
  <2> DEFINE until == WindowEnd(record[1].window) + GOLD_RUSH_BOOST_MS
  <2>1. /\ UNCHANGED <<serving, winners, stamps, present, troubles>> /\ rushPc' = "mark"
        /\ boosted' = [u \in Players |-> IF u \in winners THEN until ELSE boosted[u]]
    BY <1>8 DEF rushHistory, GrantBoosts
  <2>2. record[1].window \in Nat /\ WindowEnd(record[1].window) <= MaxTime
    BY <1>8, RushAssumption
    DEF GrantBoosts, RecordInv, Honest, RushRecord, RushWindows, WindowIndex
  <2>3. WindowEnd(record[1].window) \in Nat
    <3>1. record[1].window * RUSH_INTERVAL \in Nat
      BY <2>2, RushAssumption
    <3> QED BY <3>1, RushAssumption DEF WindowEnd, WindowStart
  <2>4. until \in 0..MaxTime + GOLD_RUSH_BOOST_MS
    BY <1>0, <2>2, <2>3
  <2> HIDE DEF until
  <2> QED BY <2>1, <2>4 DEF stamps
<1>9. ASSUME NEW ok \in BOOLEAN, MarkSettled(ok) PROVE RushTypes'
  <2>1. troubles' \in 0..MaxTroubles
    BY <1>9, TroubleInRange DEF MarkSettled, Persist
  <2> QED BY <1>9, <2>1 DEF MarkSettled, stamps
<1>10. ASSUME NEW ok \in BOOLEAN, NEW amount \in 0..MaxYield, AccrueRush(amount, ok)
       PROVE  RushTypes'
  <2>1. troubles' \in 0..MaxTroubles
    BY <1>10, TroubleInRange DEF AccrueRush, Persist
  <2>2. \A u \in Players : boosted'[u] \in {boosted[u], 0}
    BY <1>10 DEF AccrueRush
  <2>3. boosted' \in [Players -> 0..MaxTime + GOLD_RUSH_BOOST_MS]
    BY <1>0, <1>10 DEF AccrueRush
  <2> QED BY <1>10, <2>1, <2>3 DEF AccrueRush, stamps
<1>11. CASE RushTickThrows
  <2>1. troubles' \in 0..MaxTroubles
    BY <1>11, TroubleInRange DEF RushTickThrows
  <2> QED BY <1>11, <2>1 DEF rushHistory, RushTickThrows, stamps
<1>12. CASE RushCrash
  <2>1. troubles' \in 0..MaxTroubles
    BY <1>12, TroubleInRange DEF RushCrash
  <2>2. lastWrite' \in [Players -> -1..MaxTime]
    BY <1>0, <1>12 DEF RushCrash
  <2> QED BY <1>12, <2>1, <2>2 DEF rushHistory, RushCrash
<1>13. CASE UNCHANGED rushVars
  BY <1>13 DEF rushHistory, rushVars, rushState, stamps
<1> QED BY <1>1, <1>2, <1>3, <1>4, <1>5, <1>6, <1>7, <1>8, <1>9, <1>10, <1>11, <1>12, <1>13
    DEF RushNext, RushTickMoves

LEMMA RushTypesOK == ASSUME StampInv, RecordInv, FateInv, RushTypes PROVE RushTypeOK
<1>1. ASSUME NEW q, Honest(q), q \in {record, stored} PROVE Len(q) <= 1
  <2>1. CASE q = <<>>
    BY <2>1
  <2>2. CASE q = <<q[1]>>
    <3> DEFINE e == q[1]
    <3>1. q = <<e>>
      BY <2>2
    <3> HIDE DEF e
    <3> QED BY <3>1
  <2> QED BY <1>1, <2>1, <2>2 DEF Honest
<1>2. writing \subseteq Players \X (0..MaxTime) /\ now \in 0..MaxTime
  BY DEF StampInv
<1> QED BY <1>1, <1>2 DEF RecordInv, FateInv, RushTypes, RushTypeOK

-----------------------------------------------------------------------------

\* Beside what is known of rows and guards: seasons come with their dates, one of them at
\* most every date, and a bonus counts some of them.
SeasonBounds ==
  /\ totals \in [Gamers -> 0..MaxScore] /\ board \in [Gamers -> 0..MaxScore]
  /\ flushing # <<>> => flushing[1] \in [Gamers -> 0..MaxScore]
  /\ date \in 0..MaxDate
  /\ \A n \in 1..Len(seasons) : n <= seasons[n].closedAt + 1
  /\ bonus \in [Gamers -> Nat] /\ \A u \in Gamers : bonus[u] <= Len(seasons)
  /\ pagePc \in {"idle", "ranked", "shown"} /\ disturbed \in BOOLEAN
  /\ pageRank \in 0..Cardinality(Gamers) /\ pageTotal \in 0..Cardinality(Gamers)

LEMMA RankedInRange ==
  ASSUME SeasonBounds
  PROVE  /\ Cardinality(Ranked) \in 0..Cardinality(Gamers)
         /\ PageUser \in Ranked => Cardinality(Above(PageUser)) + 1 \in 0..Cardinality(Gamers)
<1>1. IsFiniteSet(Gamers) /\ Cardinality(Gamers) \in Nat /\ Ranked \subseteq Gamers
  BY SeasonAssumption, FS_CardinalityType DEF Ranked
<1>2. Cardinality(Ranked) <= Cardinality(Gamers) /\ Cardinality(Ranked) \in Nat
  BY <1>1, FS_Subset, RankedFinite
<1>3. BoardTypes
  BY SeasonAssumption DEF SeasonBounds, BoardTypes
<1> QED BY <1>1, <1>2, <1>3, RankIsCounted

LEMMA BoundsStart == ASSUME SeasonInit PROVE SeasonBounds
<1>1. MaxScore \in Nat /\ MaxDate \in Nat /\ Cardinality(Gamers) \in Nat
  BY SeasonAssumption, FS_CardinalityType
<1>2. Len(seasons) = 0 /\ bonus = [u \in Gamers |-> 0]
  BY DEF SeasonInit
<1>3. totals \in [Gamers -> 0..MaxScore] /\ board \in [Gamers -> 0..MaxScore]
  BY <1>1 DEF SeasonInit
<1>4. \A n \in 1..Len(seasons) : n <= seasons[n].closedAt + 1
  BY <1>2
<1>5. bonus \in [Gamers -> Nat] /\ \A u \in Gamers : bonus[u] <= Len(seasons)
  BY <1>2
<1>6. pageRank \in 0..Cardinality(Gamers) /\ pageTotal \in 0..Cardinality(Gamers)
  BY <1>1 DEF SeasonInit
<1>7. date \in 0..MaxDate
  BY <1>1 DEF SeasonInit
<1>8. flushing = <<>> /\ pagePc = "idle" /\ disturbed = FALSE
  BY DEF SeasonInit
<1> QED BY <1>3, <1>4, <1>5, <1>6, <1>7, <1>8 DEF SeasonBounds

\* A season that is closed is closed on a later date than the one before.
LEMMA CommitInBounds ==
  ASSUME SeasonInv, SeasonBounds, NEW c \in Closers, CloseCommitted(c)
  PROVE  /\ \A n \in 1..Len(seasons') : n <= seasons'[n].closedAt + 1
         /\ bonus' \in [Gamers -> Nat] /\ \A u \in Gamers : bonus'[u] <= Len(seasons')
<1> USE DEF SeasonInv, SeasonTypes, SeasonBounds
<1>0. Len(seasons) \in Nat /\ date \in Nat
  OBVIOUS
<1>1. CASE NumberFree(closeNumber[c])
  <2> DEFINE closed == [number |-> closeNumber[c], closedAt |-> date]
  <2>1. /\ seasons' = Append(seasons, closed)
        /\ bonus' = [u \in Gamers |-> IF u \in closeEntries[c] THEN bonus[u] + 1 ELSE bonus[u]]
    BY <1>1 DEF CloseCommitted
  <2>2. MayClose(c)
    BY DEF CloseCommitted, GuardsHold
  <2>3. date - LastClosed >= DOUBLE_CLOSE_GUARD
    <3>1. CASE closeNumber[c] \in 1..Len(seasons)
      <4>1. DOMAIN seasons = 1..Len(seasons)
        OBVIOUS
      <4>2. seasons[closeNumber[c]].number = closeNumber[c]
        BY <3>1 DEF SeasonRows
      <4> QED BY <1>1, <3>1, <4>1, <4>2 DEF NumberFree
    <3> QED BY <1>0, <2>2, <3>1 DEF MayClose
  <2>4. Len(seasons) + 1 <= date + 1
    <3>1. CASE seasons = <<>>
      BY <1>0, <3>1
    <3>2. CASE seasons # <<>>
      <4> DEFINE L == Len(seasons)
      <4>1. L \in 1..Len(seasons) /\ seasons[L] \in SeasonRow
        BY <3>2
      <4>2. L <= seasons[L].closedAt + 1 /\ seasons[L].closedAt \in Nat
        BY <4>1 DEF SeasonRow
      <4>3. LastClosed = seasons[L].closedAt
        BY <3>2 DEF LastClosed
      <4> HIDE DEF L
      <4>4. L + 1 <= date + 1
        BY <1>0, <2>3, <4>1, <4>2, <4>3, SeasonAssumption, SMTT(20)
      <4> QED BY <4>4 DEF L
    <3> QED BY <3>1, <3>2
  <2>5. closed \in SeasonRow /\ closed.closedAt = date
    BY DEF SeasonRow
  <2> HIDE DEF closed
  <2>6. /\ Len(seasons') = Len(seasons) + 1 /\ seasons'[Len(seasons) + 1] = closed
        /\ \A n \in 1..Len(seasons) : seasons'[n] = seasons[n]
    BY <2>1, <2>5
  <2>7. ASSUME NEW n \in 1..Len(seasons') PROVE n <= seasons'[n].closedAt + 1
    <3>1. CASE n \in 1..Len(seasons)
      BY <2>6, <3>1
    <3>2. CASE n = Len(seasons) + 1
      BY <2>4, <2>5, <2>6, <3>2
    <3> QED BY <1>0, <2>6, <3>1, <3>2
  <2>8. bonus' \in [Gamers -> Nat] /\ \A u \in Gamers : bonus'[u] <= Len(seasons) + 1
    BY <1>0, <2>1
  <2> QED BY <2>6, <2>7, <2>8
<1>2. CASE ~NumberFree(closeNumber[c])
  BY <1>2 DEF CloseCommitted
<1> QED BY <1>1, <1>2

LEMMA BoundsStep ==
  ASSUME SeasonInv, SeasonBounds, [SeasonNext]_seasonVars PROVE SeasonBounds'
<1> USE DEF SeasonBounds, ranking, closing, boardPage
<1>0. /\ MaxScore \in Nat /\ MaxDate \in Nat /\ Cardinality(Gamers) \in Nat
      /\ Len(seasons) \in Nat
  BY SeasonAssumption, FS_CardinalityType DEF SeasonInv, SeasonTypes
<1>1. CASE UNCHANGED seasonVars
  BY <1>1 DEF seasonVars
<1>2. ASSUME NEW u \in Gamers, Mine(u) PROVE SeasonBounds'
  <2>1. totals' \in [Gamers -> 0..MaxScore]
    BY <1>0, <1>2 DEF Mine
  <2> QED BY <1>2, <2>1 DEF Mine
<1>3. CASE FlushReads
  BY <1>3 DEF FlushReads
<1>4. CASE UpdateScoresBatch
  <2>1. board' \in [Gamers -> 0..MaxScore] /\ flushing' = <<>>
    BY <1>4 DEF UpdateScoresBatch
  <2> QED BY <1>4, <2>1 DEF UpdateScoresBatch
<1>5. CASE PageAsksRank
  <2>1. pageRank' \in 0..Cardinality(Gamers) /\ pageTotal' \in 0..Cardinality(Gamers)
    BY <1>0, <1>5, RankedInRange DEF PageAsksRank
  <2>2. pagePc' \in {"idle", "ranked", "shown"} /\ disturbed' \in BOOLEAN
    BY <1>5 DEF PageAsksRank
  <2> QED BY <1>5, <2>1, <2>2 DEF PageAsksRank
<1>6. CASE PageAsksCount
  <2>1. pageTotal' \in 0..Cardinality(Gamers)
    BY <1>6, RankedInRange DEF PageAsksCount
  <2> QED BY <1>6, <2>1 DEF PageAsksCount
<1>7. CASE PageRefreshes
  <2>1. pageRank' \in 0..Cardinality(Gamers) /\ pageTotal' \in 0..Cardinality(Gamers)
    BY <1>0, <1>7 DEF PageRefreshes
  <2> QED BY <1>7, <2>1 DEF PageRefreshes
<1>8. CASE DatePasses
  <2>1. date' \in 0..MaxDate
    BY <1>0, <1>8 DEF DatePasses
  <2> QED BY <1>8, <2>1 DEF DatePasses
<1>9. ASSUME NEW c \in Closers, CloseGuarded(c) \/ CloseSnapshot(c) PROVE SeasonBounds'
  BY <1>9 DEF CloseGuarded, CloseSnapshot
<1>10. ASSUME NEW c \in Closers, CloseCommitted(c) PROVE SeasonBounds'
  <2>1. UNCHANGED <<ranking, date, boardPage>>
    BY <1>10 DEF CloseCommitted
  <2>2. /\ \A n \in 1..Len(seasons') : n <= seasons'[n].closedAt + 1
        /\ bonus' \in [Gamers -> Nat] /\ \A u \in Gamers : bonus'[u] <= Len(seasons')
    BY <1>10, CommitInBounds
  <2> QED BY <2>1, <2>2
<1>11. ASSUME NEW c \in Closers, NEW ok \in BOOLEAN, CloseCleared(c, ok) PROVE SeasonBounds'
  <2>1. board' \in [Gamers -> 0..MaxScore]
    BY <1>0, <1>11, SMTT(20) DEF CloseCleared
  <2>2. disturbed' \in BOOLEAN
    BY <1>11 DEF CloseCleared
  <2> QED BY <1>11, <2>1, <2>2 DEF CloseCleared
<1> QED BY <1>1, <1>2, <1>3, <1>4, <1>5, <1>6, <1>7, <1>8, <1>9, <1>10, <1>11 DEF SeasonNext

LEMMA SeasonTypesOK == ASSUME SeasonInv, SeasonBounds PROVE SeasonTypeOK
<1> USE DEF SeasonInv, SeasonTypes, SeasonBounds
<1>1. Len(seasons) <= date + 1 /\ Len(seasons) \in Nat /\ date \in Nat /\ MaxDate \in Nat
  <2>1. Len(seasons) \in Nat /\ date \in Nat /\ MaxDate \in Nat
    BY SeasonAssumption
  <2>2. CASE seasons # <<>>
    <3> DEFINE L == Len(seasons)
    <3>1. L \in 1..Len(seasons) /\ seasons[L] \in SeasonRow
      BY <2>2
    <3>2. /\ L <= seasons[L].closedAt + 1 /\ seasons[L].closedAt \in Nat
          /\ seasons[L].closedAt <= date
      BY <3>1 DEF SeasonRow, SeasonRows
    <3> HIDE DEF L
    <3>3. L <= date + 1
      BY <2>1, <3>1, <3>2
    <3> QED BY <2>1, <3>3 DEF L
  <2>3. CASE seasons = <<>>
    BY <2>1, <2>3
  <2> QED BY <2>1, <2>2, <2>3
<1>2. bonus \in [Gamers -> 0..MaxDate + 1]
  <2>1. \A u \in Gamers : bonus[u] \in 0..MaxDate + 1
    BY <1>1
  <2> QED BY <2>1
<1> QED BY <1>2 DEF SeasonTypeOK

-----------------------------------------------------------------------------

LEMMA SkyTypesOK == ASSUME SkyTypes PROVE SkyTypeOK
<1>1. ASSUME NEW list \in Seq(SkyFront), NEW f \in ToSet(list) PROVE f.path \in Trajectories
  <2>1. PICK n \in DOMAIN list : f = list[n]
    BY DEF ToSet
  <2>2. f \in SkyFront
    BY <2>1
  <2> QED BY <2>2 DEF SkyFront
<1>2. ASSUME NEW v \in Vein PROVE Len(v) <= 1
  <2>1. CASE v = <<>>
    BY <2>1
  <2>2. ASSUME NEW k \in Nat, v = <<k>> PROVE Len(v) <= 1
    BY <2>2
  <2> QED BY <2>1, <2>2 DEF Vein
<1> QED BY <1>1, <1>2 DEF SkyTypes, SkyTypeOK

-----------------------------------------------------------------------------
(* The server: a step of a part is a step of it alone. *)

ServerInv ==
  /\ EconomyTypes /\ PauseHolds
  /\ StreakInv /\ ProgressInv /\ ContractTypes
  /\ StampInv /\ RecordInv /\ FateInv /\ RushTypes
  /\ SkyTypes /\ SkyPast /\ VeinPast
  /\ SeasonInv /\ BoardInv /\ SeasonBounds
  /\ TreeInv

LEMMA ServerInvStart == ASSUME ServerInit PROVE ServerInv
<1>1. ContractInit /\ RushInit /\ SkyInit /\ EconomyInit /\ SeasonInit /\ TreeInit
  BY DEF ServerInit
<1>2. PauseHolds
  BY <1>1 DEF EconomyInit, PauseHolds
<1> QED BY <1>1, <1>2, EconomyTypeStart, StreakStart, ProgressStart, ContractTypeStart, StampStart,
           RecordStart, FateStart, RushTypeStart, SkyStart, SeasonStart, BoardStart, BoundsStart, TreeInvStarts
    DEF ServerInv

LEMMA ServerInvStep == ASSUME ServerInv, [ServerNext]_serverVars PROVE ServerInv'
<1>1. /\ [ContractNext]_contractVars /\ [RushNext]_rushVars /\ [SkyNext]_skyVars
      /\ [EconomyNext]_economyVars /\ [SeasonNext]_seasonVars /\ [TreeNext]_treeVars
  BY DEF ServerNext, serverVars
<1>2. (EconomyTypes /\ PauseHolds)'
  BY <1>1, EconomyTypeStep, PauseStep DEF ServerInv
<1>3. (StreakInv /\ ProgressInv /\ ContractTypes)'
  BY <1>1, StreakStep, ProgressStep, ContractTypeStep DEF ServerInv
<1>4. (StampInv /\ RecordInv /\ FateInv /\ RushTypes)'
  BY <1>1, StampStep, RecordStep, FateStep, RushTypeStep DEF ServerInv
<1>5. (SkyTypes /\ SkyPast /\ VeinPast)'
  BY <1>1, SkyTypeStep, SkyPastStep, VeinPastStep DEF ServerInv
<1>6. (SeasonInv /\ BoardInv /\ SeasonBounds)'
  BY <1>1, SeasonStep, BoardStep, BoundsStep DEF ServerInv
<1>7. TreeInv'
  BY <1>1, TreeAssumption, TreeInvStep DEF ServerInv
<1> QED BY <1>2, <1>3, <1>4, <1>5, <1>6, <1>7 DEF ServerInv

\* Every variable of the server beside the mining loop keeps its type and its bounds, in
\* every interleaving of its parts.
THEOREM ServerTypeCorrect == ServerSpec => []ServerTypeOK
<1>1. ServerInv => ServerTypeOK
  BY EconomyTypesOK, ContractTypesOK, RushTypesOK, SkyTypesOK, SeasonTypesOK, TreeAssumption,
     TreeInvVerifies DEF ServerInv, ServerTypeOK
<1> QED BY <1>1, ServerInvStart, ServerInvStep, PTL DEF ServerSpec

\* What each part keeps on its own it keeps in the server: contracts, rushes, the sky, a
\* pause, the board and the proofs of the tree.
THEOREM ServerStaysSound ==
  ServerSpec => [](/\ ContractBooks /\ RushIsFair /\ SkyIsOne
                   /\ PauseHolds /\ BoardIsSound /\ ProofsVerify)
<1>1. ServerInv => /\ ContractBooks /\ RushIsFair /\ SkyIsOne
                   /\ PauseHolds /\ BoardIsSound /\ ProofsVerify
  <2>1. ServerInv => ContractBooks /\ RushIsFair
    BY DEF ServerInv, FateInv, LostForCause, Excused, StreakInv, ProgressInv, ContractBooks, StampInv, RecordInv, RushIsFair
  <2>2. ServerInv => SkyIsOne
    BY ChipIsRight DEF ServerInv, SkyPast, VeinPast, GoneForGood, SkyIsOne
  <2>3. ServerInv => BoardIsSound /\ PauseHolds
    BY PageIsSound DEF ServerInv, SeasonInv, BoardIsSound
  <2>4. ServerInv => ProofsVerify
    BY TreeAssumption, TreeInvVerifies DEF ServerInv
  <2> QED BY <2>1, <2>2, <2>3, <2>4
<1> QED BY <1>1, ServerInvStart, ServerInvStep, PTL DEF ServerSpec
=============================================================================
