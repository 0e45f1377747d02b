---------------------------- MODULE MiningProofs ----------------------------
(***************************************************************************)
(* Theorems about MiningCore, for any agents, hexes, ore, requests, faults *)
(* and bounds.                                                             *)
(***************************************************************************)
EXTENDS MiningCore, TLAPS

-----------------------------------------------------------------------------
(* Types.                                                                  *)

\* The types of what the operators of MiningCore return.
LEMMA AccrueWearType ==
  ASSUME NEW w \in 0 .. MaxWear
  PROVE  AccrueWear(w) \in 0 .. MaxWear
  BY ConstantsAssumption DEF AccrueWear

LEMMA AdvanceTickType ==
  ASSUME NEW t \in 0 .. TickCap
  PROVE  AdvanceTick(t) \in 0 .. TickCap
  BY ConstantsAssumption DEF AdvanceTick

LEMMA ArrivalTickType ==
  ASSUME currentTick \in 0 .. TickCap, NEW g \in Hexes, NEW h \in Hexes
  PROVE  ArrivalTick(g, h) \in 0 .. TickCap
  BY ConstantsAssumption DEF ArrivalTick, HexDistance

LEMMA HsetType ==
  ASSUME NEW c \in CacheRec, NEW u \in UpdRec
  PROVE  Hset(c, u) \in CacheRec
  BY MarksAssumption DEF Hset, CacheRec, UpdRec

LEMMA NoUpdateType == NoUpdate \in UpdRec
  BY DEF NoUpdate, UpdRec

LEMMA BlankType ==
  ASSUME NEW a \in Agents
  PROVE  Blank(a) \in CacheRec
  BY ConstantsAssumption DEF Blank, CacheRec, Statuses

LEMMA ReadCacheType ==
  ASSUME TypeOK
  PROVE  ReadCache \in [Agents -> {Nil} \cup CacheRec]
  BY DEF TypeOK, ReadCache

LEMMA FlushType ==
  ASSUME db \in [Agents -> DbRec], NEW s \in [Agents -> {Nil} \cup CacheRec]
  PROVE  Flush(s) \in [Agents -> DbRec]
<1> SUFFICES ASSUME NEW a \in Agents
             PROVE  FlushRow(db[a], s[a]) \in DbRec
  BY DEF Flush
<1>1. CASE s[a] = Nil
  BY <1>1 DEF FlushRow
<1>2. CASE s[a] # Nil
  <2>1. s[a] \in CacheRec
    BY <1>2
  <2>2. (s[a].status = "TRAPPED" /\ s[a].dig) \in BOOLEAN
    OBVIOUS
  <2> QED BY <1>2, <2>1, <2>2 DEF FlushRow, CacheRec, DbRec
<1> QED BY <1>1, <1>2

LEMMA LoadRowType ==
  ASSUME NEW c \in CacheRec, NEW s \in {Nil} \cup CacheRec
  PROVE  LoadRow(c, s) \in CacheRec
<1>1. CASE s = Nil
  BY <1>1 DEF LoadRow
<1>2. CASE s # Nil
  <2>1. s \in CacheRec
    BY <1>2
  <2>2. (s.dig \/ c.dig) \in BOOLEAN
    OBVIOUS
  <2> QED BY <1>2, <2>1, <2>2 DEF LoadRow, CacheRec
<1> QED BY <1>1, <1>2

LEMMA MineUpdateType ==
  ASSUME TypeOK, NEW a \in todo, NEW b \in SUBSET Ore, NEW h \in Hexes,
         NEW left, NEW elsewhere \in SUBSET Hexes,
         NEW u \in MineUpdate(a, b, h, left, elsewhere)
  PROVE  u \in UpdRec /\ u.bag = b
<1> DEFINE mined == [NoUpdate EXCEPT !.bag = b, !.wear = AccrueWear(snap[a].wear)]
<1>1. snap[a] \in CacheRec
  BY DEF TypeOK
<1>2. AccrueWear(snap[a].wear) \in 0 .. MaxWear
  BY <1>1, AccrueWearType DEF CacheRec
<1>3. mined \in UpdRec /\ mined.bag = b
  BY <1>2 DEF NoUpdate, UpdRec
<1>4. CASE left # {}
  BY <1>3, <1>4 DEF MineUpdate
<1>5. CASE left = {} /\ elsewhere = {}
  <2>1. u = [mined EXCEPT !.status = "IDLE"]
    BY <1>5 DEF MineUpdate
  <2> HIDE DEF mined
  <2> QED BY <1>3, <2>1 DEF UpdRec, Statuses
<1>6. CASE left = {} /\ elsewhere # {}
  <2>1. PICK k \in elsewhere :
          u = [mined EXCEPT !.status = "RELOCATING",
                            !.trip = [to |-> k, at |-> ArrivalTick(h, k)]]
    BY <1>6 DEF MineUpdate
  <2>2. [to |-> k, at |-> ArrivalTick(h, k)] \in Trips
    BY ArrivalTickType DEF TypeOK, Trips
  <2> QED BY <1>3, <2>1, <2>2 DEF UpdRec, Statuses
<1> QED BY <1>4, <1>5, <1>6

\* What the handlers and the tick write to one row of Postgres ...
LEMMA DbStatusDig ==
  ASSUME NEW f \in [Agents -> DbRec], NEW a \in Agents, NEW s \in Statuses, NEW d \in BOOLEAN
  PROVE  [f EXCEPT ![a].status = s, ![a].dig = d] \in [Agents -> DbRec]
  BY DEF DbRec

LEMMA DbMove ==
  ASSUME NEW f \in [Agents -> DbRec], NEW a \in Agents, NEW h \in Hexes, NEW s \in Statuses
  PROVE  [f EXCEPT ![a].hex = h, ![a].status = s] \in [Agents -> DbRec]
  BY DEF DbRec

LEMMA DbWear ==
  ASSUME NEW f \in [Agents -> DbRec], NEW a \in Agents, NEW w \in 0 .. MaxWear
  PROVE  [f EXCEPT ![a].wear = w] \in [Agents -> DbRec]
  BY DEF DbRec

\* ... and to one hash of Redis.
LEMMA CacheStatusDig ==
  ASSUME NEW f \in [Agents -> CacheRec], NEW a \in Agents, NEW s \in Statuses, NEW d \in BOOLEAN
  PROVE  [f EXCEPT ![a].status = s, ![a].dig = d] \in [Agents -> CacheRec]
  BY DEF CacheRec

LEMMA CacheMove ==
  ASSUME NEW f \in [Agents -> CacheRec], NEW a \in Agents, NEW h \in Hexes, NEW s \in Statuses
  PROVE  [f EXCEPT ![a].hex = h, ![a].status = s, ![a].trip = Nil] \in [Agents -> CacheRec]
  BY DEF CacheRec

LEMMA CacheRegister ==
  ASSUME NEW f \in [Agents -> CacheRec], NEW a \in Agents, NEW h \in Hexes, NEW s \in Statuses,
         NEW b \in SUBSET Ore, NEW w \in 0 .. MaxWear
  PROVE  [f EXCEPT ![a].hex = h, ![a].status = s, ![a].bag = b, ![a].wear = w]
           \in [Agents -> CacheRec]
<1> DEFINE c == [f[a] EXCEPT !.hex = h, !.status = s, !.bag = b, !.wear = w]
<1>1. c \in CacheRec
  BY DEF CacheRec
<1>2. [f EXCEPT ![a].hex = h, ![a].status = s, ![a].bag = b, ![a].wear = w]
        = [f EXCEPT ![a] = c]
  BY DEF CacheRec
<1> HIDE DEF c
<1> QED BY <1>1, <1>2

LEMMA CacheWear ==
  ASSUME NEW f \in [Agents -> CacheRec], NEW a \in Agents, NEW w \in 0 .. MaxWear
  PROVE  [f EXCEPT ![a].wear = w] \in [Agents -> CacheRec]
  BY DEF CacheRec

LEMMA ConstantTypes ==
  /\ NoSnap \in [Agents -> {Nil} \cup CacheRec] /\ Quiet \in [Agents -> UpdRec]
  /\ 0 \in 0 .. TickCap
  /\ "MINING" \in Statuses /\ "TRAPPED" \in Statuses
  /\ TRUE \in BOOLEAN /\ FALSE \in BOOLEAN
  /\ 0 \in 0 .. MaxWear
  BY ConstantsAssumption, NoUpdateType DEF Statuses, NoSnap, Quiet

\* One agent's turn in the tick keeps the types.
LEMMA DoneType ==
  ASSUME TypeOK, NEW a \in Agents, NEW u \in UpdRec, Done(a, u)
  PROVE  /\ pc' = pc /\ timer' = timer /\ currentTick' = currentTick
         /\ snap' \in [Agents -> {Nil} \cup CacheRec]
         /\ todo' \subseteq Agents
         /\ \A b \in todo' : pc' = "agents" /\ snap'[b] # Nil
         /\ upd' \in [Agents -> UpdRec]
  BY DEF TypeOK, Done

LEMMA AgentTurnType ==
  ASSUME TypeOK, NEW a \in Agents, AgentTurn(a)
  PROVE  TypeOK'
<1> DEFINE Frame == /\ pc' = pc /\ timer' = timer /\ currentTick' = currentTick
                    /\ snap' \in [Agents -> {Nil} \cup CacheRec]
                    /\ todo' \subseteq Agents
                    /\ \A b \in todo' : pc' = "agents" /\ snap'[b] # Nil
                    /\ upd' \in [Agents -> UpdRec]
<1>d. db \in [Agents -> DbRec]
  BY DEF TypeOK
<1>0. ASSUME NEW s, Turn(a, s)
      PROVE  a \in todo /\ snap[a] \in CacheRec /\ snap[a].hex \in Hexes
  BY <1>0 DEF Turn, TypeOK, CacheRec
<1>1. CASE Mine(a)
  <2> DEFINE h == snap[a].hex
  <2>1. PICK took \in SUBSET hexOre[h] \ {{}} :
          /\ hexOre' = [hexOre EXCEPT ![h] = hexOre[h] \ took]
          /\ dug' = [dug EXCEPT ![a] = @ \cup took]
          /\ \E u \in MineUpdate(a, snap[a].bag \cup took, h, hexOre[h] \ took,
                                 {k \in Hexes \ {h} : hexOre[k] # {}}) : Done(a, u)
    BY <1>1 DEF Mine
  <2>2. a \in todo /\ snap[a] \in CacheRec /\ h \in Hexes
    BY <1>0, <1>1 DEF Mine
  <2>3. took \subseteq Ore /\ snap[a].bag \cup took \in SUBSET Ore
    BY <2>2 DEF TypeOK, CacheRec
  <2>4. PICK u \in MineUpdate(a, snap[a].bag \cup took, h, hexOre[h] \ took,
                              {k \in Hexes \ {h} : hexOre[k] # {}}) : Done(a, u)
    BY <2>1
  <2>5. u \in UpdRec
    BY <2>2, <2>3, <2>4, MineUpdateType
  <2>6. Frame
    BY <2>4, <2>5, DoneType
  <2> HIDE DEF h
  <2> QED BY <1>1, <2>1, <2>2, <2>3, <2>6 DEF Mine, TypeOK, http, process
<1>2. CASE NoYield(a)
  <2>1. snap[a] \in CacheRec
    BY <1>0, <1>2 DEF NoYield
  <2>2. AccrueWear(snap[a].wear) \in 0 .. MaxWear
    BY <2>1, AccrueWearType DEF CacheRec
  <2>3. [NoUpdate EXCEPT !.wear = AccrueWear(snap[a].wear)] \in UpdRec
    BY <2>2, NoUpdateType DEF UpdRec
  <2>4. Frame
    BY <1>2, <2>3, DoneType DEF NoYield
  <2> QED BY <1>2, <2>4 DEF NoYield, TypeOK, stores, http, process, history
<1>3. CASE CaveIn(a)
  <2>1. [NoUpdate EXCEPT !.status = "TRAPPED", !.dig = TRUE, !.trip = Nil] \in UpdRec
    BY NoUpdateType DEF UpdRec, Statuses
  <2>2. Frame
    BY <1>3, <2>1, DoneType DEF CaveIn
  <2>3. db' \in [Agents -> DbRec]
    <3>0. [db EXCEPT ![a].status = "TRAPPED", ![a].dig = TRUE] \in [Agents -> DbRec]
      BY <1>d, DbStatusDig, ConstantTypes
    <3>1. db' = [db EXCEPT ![a].status = "TRAPPED", ![a].dig = TRUE] \/ db' = db
      BY <1>3 DEF CaveIn
    <3> QED BY <1>d, <3>0, <3>1
  <2> QED BY <1>3, <2>2, <2>3 DEF CaveIn, TypeOK, http, process, history
<1>4. CASE SelfDig(a)
  <2>1. [NoUpdate EXCEPT !.status = "MINING", !.dig = FALSE] \in UpdRec
    BY NoUpdateType DEF UpdRec, Statuses
  <2>2. Frame
    BY <1>4, <2>1, DoneType DEF SelfDig
  <2>3. db' \in [Agents -> DbRec]
    <3>0. [db EXCEPT ![a].status = "MINING", ![a].dig = FALSE] \in [Agents -> DbRec]
      BY <1>d, DbStatusDig, ConstantTypes
    <3>1. db' = [db EXCEPT ![a].status = "MINING", ![a].dig = FALSE] \/ db' = db
      BY <1>4 DEF SelfDig
    <3> QED BY <1>d, <3>0, <3>1
  <2> QED BY <1>4, <2>2, <2>3 DEF SelfDig, TypeOK, http, process, history
<1>5. CASE Arrive(a)
  <2>1. snap[a] \in CacheRec /\ snap[a].trip # Nil
    BY <1>0, <1>5 DEF Arrive, Arrived
  <2>2. snap[a].trip.to \in Hexes
    BY <2>1 DEF CacheRec, Trips
  <2>3. [NoUpdate EXCEPT !.status = "MINING", !.hex = snap[a].trip.to, !.trip = Nil]
          \in UpdRec
    BY <2>2, NoUpdateType DEF UpdRec, Statuses
  <2>4. Frame
    BY <1>5, <2>3, DoneType DEF Arrive
  <2> QED BY <1>5, <2>4 DEF Arrive, TypeOK, stores, http, process, history
<1>6. CASE Pass(a)
  <2>1. Frame
    BY <1>6, NoUpdateType, DoneType DEF Pass
  <2> QED BY <1>6, <2>1 DEF Pass, TypeOK, stores, http, process, history
<1> QED BY <1>1, <1>2, <1>3, <1>4, <1>5, <1>6 DEF AgentTurn

\* So does every other step of the tick.
LEMMA TickType ==
  ASSUME TypeOK, TickStart \/ Batch \/ FlushRead \/ FlushWrite \/ TickError
  PROVE  TypeOK'
<1> USE DEF TypeOK, stores, http, process, history
<1>1. CASE TickStart
  <2>1. currentTick' \in 0 .. TickCap
    BY <1>1, AdvanceTickType DEF TickStart
  <2>2. CASE cached = {}
    BY <1>1, <2>1, <2>2 DEF TickStart
  <2>3. CASE cached # {}
    <3>1. snap' \in [Agents -> {Nil} \cup CacheRec]
      BY <1>1, <2>3, ReadCacheType DEF TickStart
    <3>2. \A a \in todo' : pc' = "agents" /\ snap'[a] # Nil
      BY <1>1, <2>3, MarksAssumption DEF TickStart, ReadCache
    <3> QED BY <1>1, <2>1, <2>3, <3>1, <3>2 DEF TickStart
  <2> QED BY <2>2, <2>3
<1>2. CASE Batch
  BY <1>2, HsetType, NoUpdateType DEF Batch, Quiet
<1>3. CASE FlushRead
  BY <1>3, ReadCacheType DEF FlushRead, ReadCache
<1>4. CASE FlushWrite
  BY <1>4, FlushType DEF FlushWrite, NoSnap
<1>5. CASE TickError
  BY <1>5, NoUpdateType DEF TickError, NoSnap, Quiet
<1> QED BY <1>1, <1>2, <1>3, <1>4, <1>5

LEMMA HttpType ==
  ASSUME TypeOK, NEW r \in Reqs, Call(r) \/ Continue(r)
  PROVE  TypeOK'
<1>0. db \in [Agents -> DbRec] /\ cache \in [Agents -> CacheRec]
  BY DEF TypeOK, TypeOK
<1>r. ASSUME req[r] # Nil
      PROVE  req[r] \in ReqRec /\ req[r].agent \in Agents /\ req[r].hex \in Hexes
             /\ req[r].bag \in SUBSET Ore
  BY <1>r DEF TypeOK, ReqRec
<1> USE DEF stores, tick, process, history
<1>1. ASSUME NEW a \in Agents, NEW h \in Hexes, RelocateCheck(r, a, h)
      PROVE  TypeOK'
  BY <1>1 DEF RelocateCheck, ReqRec, TypeOK
<1>2. ASSUME NEW a \in Agents, RescueCheck(r, a)
      PROVE  TypeOK'
  BY <1>2, ConstantsAssumption DEF RescueCheck, ReqRec, TypeOK
<1>3. ASSUME NEW a \in Agents, RepairStore(r, a)
      PROVE  TypeOK'
  <2>1. db' \in [Agents -> DbRec]
    BY <1>0, <1>r, <1>3, DbWear, ConstantTypes DEF RepairStore
  <2> QED BY <1>3, <2>1, ConstantsAssumption DEF RepairStore, ReqRec, TypeOK
<1>4. CASE RelocateStore(r)
  <2>1. db' \in [Agents -> DbRec]
    BY <1>0, <1>r, <1>4, DbMove, ConstantTypes DEF RelocateStore, At
  <2>2. req' \in [Reqs -> {Nil} \cup ReqRec]
    BY <1>r, <1>4 DEF RelocateStore, At, Step, ReqRec, TypeOK
  <2> QED BY <1>r, <1>4, <2>1, <2>2 DEF RelocateStore, At, TypeOK
<1>5. CASE RelocateCache(r)
  <2>1. cache' \in [Agents -> CacheRec]
    BY <1>0, <1>r, <1>5, CacheMove, ConstantTypes DEF RelocateCache, At
  <2> QED BY <1>5, <2>1 DEF RelocateCache, Answer, TypeOK
<1>6. CASE RelocateRead(r)
  <2>1. req' \in [Reqs -> {Nil} \cup ReqRec]
    BY <1>r, <1>6 DEF RelocateRead, At, ReqRec, DbRec, TypeOK
  <2> QED BY <1>6, <2>1 DEF RelocateRead, TypeOK
<1>7. CASE RelocateRegister(r)
  <2>1. cache' \in [Agents -> CacheRec]
    <3> DEFINE a == req[r].agent
               h == req[r].hex
               b == req[r].bag
    <3>1. a \in Agents /\ h \in Hexes /\ b \in SUBSET Ore
      BY <1>r, <1>7 DEF RelocateRegister, At
    <3>2. cache' = [cache EXCEPT ![a].hex = h, ![a].status = "MINING",
                                 ![a].bag = b, ![a].wear = 0]
      BY <1>7 DEF RelocateRegister
    <3> HIDE DEF a, h, b
    <3> QED BY <1>0, <3>1, <3>2, CacheRegister, ConstantTypes
  <2>2. cached' \subseteq Agents
    BY <1>r, <1>7 DEF RelocateRegister, At, TypeOK
  <2> QED BY <1>7, <2>1, <2>2 DEF RelocateRegister, Answer, TypeOK
<1>8. CASE RescueStore(r)
  <2>1. db' \in [Agents -> DbRec]
    BY <1>0, <1>r, <1>8, DbStatusDig, ConstantTypes DEF RescueStore, At
  <2>2. req' \in [Reqs -> {Nil} \cup ReqRec]
    BY <1>r, <1>8 DEF RescueStore, At, Step, ReqRec, TypeOK
  <2> QED BY <1>8, <2>1, <2>2 DEF RescueStore, TypeOK
<1>9. CASE RescueCache(r)
  <2>1. cache' \in [Agents -> CacheRec]
    BY <1>0, <1>r, <1>9, CacheStatusDig, ConstantTypes DEF RescueCache, At
  <2> QED BY <1>9, <2>1 DEF RescueCache, Answer, TypeOK
<1>10. CASE RepairCache(r)
  <2>1. cache' \in [Agents -> CacheRec]
    BY <1>0, <1>r, <1>10, CacheWear, ConstantTypes DEF RepairCache, At
  <2> QED BY <1>10, <2>1 DEF RepairCache, Answer, TypeOK
<1> QED BY <1>1, <1>2, <1>3, <1>4, <1>5, <1>6, <1>7, <1>8, <1>9, <1>10
        DEF Call, Continue

LEMMA ProcessType ==
  ASSUME TypeOK, ProcessStep
  PROVE  TypeOK'
<1> USE DEF TypeOK, stores, tick, http, process, history
<1>1. CASE TickError
  BY <1>1, TickType
<1>2. ASSUME Die, cached' \subseteq Agents, cache' \in [Agents -> CacheRec]
      PROVE  TypeOK'
  BY <1>2, ConstantTypes DEF Die
<1>3. CASE Crash
  BY <1>2, <1>3, BlankType DEF Crash
<1>4. CASE ShutdownRead
  BY <1>4, ReadCacheType DEF ShutdownRead
<1>5. CASE ShutdownWrite
  BY <1>5, FlushType DEF ShutdownWrite, NoSnap
<1>6. CASE Exit
  BY <1>2, <1>6 DEF Exit
<1>7. CASE Restart
  BY <1>7 DEF Restart
<1>8. CASE LoadRead
  <2>1. snap' \in [Agents -> {Nil} \cup CacheRec]
    BY <1>8 DEF LoadRead, DbRec, CacheRec
  <2>2. todo = {}
    BY <1>8 DEF LoadRead
  <2> QED BY <1>8, <2>1, <2>2 DEF LoadRead
<1>9. CASE LoadWrite
  BY <1>9, LoadRowType DEF LoadWrite, NoSnap
<1> QED BY <1>1, <1>3, <1>4, <1>5, <1>6, <1>7, <1>8, <1>9 DEF ProcessStep

LEMMA InitType == Init => TypeOK
<1> SUFFICES ASSUME Init PROVE TypeOK
  OBVIOUS
<1>1. db \in [Agents -> DbRec]
  BY ConstantsAssumption DEF Init, DbRec, Statuses
<1>2. cache \in [Agents -> CacheRec]
  BY BlankType DEF Init
<1>3. /\ snap \in [Agents -> {Nil} \cup CacheRec] /\ lastSnap \in [Agents -> {Nil} \cup CacheRec]
      /\ upd \in [Agents -> UpdRec] /\ currentTick \in 0 .. TickCap
  BY ConstantTypes DEF Init
<1> QED BY <1>1, <1>2, <1>3, ConstantsAssumption DEF Init, TypeOK

LEMMA StepType == TypeOK /\ [Next]_vars => TypeOK'
<1> SUFFICES ASSUME TypeOK, [Next]_vars PROVE TypeOK'
  OBVIOUS
<1>1. CASE TickStep
  BY <1>1, TickType, AgentTurnType DEF TickStep
<1>2. CASE \E r \in Reqs : Call(r) \/ Continue(r)
  BY <1>2, HttpType
<1>3. CASE \E a \in Agents : CooldownOver(a)
  BY <1>3 DEF CooldownOver, TypeOK, stores, tick, process, history
<1>4. CASE ProcessStep
  BY <1>4, ProcessType
<1>5. CASE UNCHANGED vars
  BY <1>5 DEF vars, TypeOK, stores, tick, http, process, history
<1> QED BY <1>1, <1>2, <1>3, <1>4, <1>5 DEF Next

\* Every variable has its type in every reachable state: no tick, handler or
\* restart writes a field outside its range, and the tick has a snapshot of
\* every agent it has still to process.
THEOREM TypeCorrect == Spec => []TypeOK
<1>1. Init => TypeOK
  BY InitType
<1>2. TypeOK /\ [Next]_vars => TypeOK'
  BY StepType
<1> QED BY <1>1, <1>2, PTL DEF Spec

-----------------------------------------------------------------------------
(* Ore is never credited twice.                                            *)

\* A step that takes no ore keeps the invariant if every copy of a total that
\* an actor holds after it was within what the agent has dug before it.
LEMMA NothingDug ==
  ASSUME NeverCreditedTwice, VeinsApart, hexOre' = hexOre, dug' = dug,
         \A a \in Agents : CopiesWithin(a, dug[a])'
  PROVE  (NeverCreditedTwice /\ VeinsApart)'
  BY DEF NeverCreditedTwice, VeinsApart

\* The units of what a batch writes and of what a flush writes.
LEMMA HsetBag ==
  ASSUME NEW c, NEW u
  PROVE  Hset(c, u).bag = IF u.bag = Keep THEN c.bag ELSE u.bag
  BY DEF Hset

LEMMA FlushBag ==
  ASSUME NEW a \in Agents, NEW s
  PROVE  Flush(s)[a].bag = IF s[a] = Nil THEN db[a].bag ELSE s[a].bag
  BY DEF Flush, FlushRow

LEMMA LoadRowBag ==
  ASSUME NEW c, NEW s
  PROVE  LoadRow(c, s).bag = IF s = Nil THEN c.bag ELSE s.bag
  BY DEF LoadRow

LEMMA QuietBag ==
  ASSUME NEW a \in Agents
  PROVE  Quiet[a].bag = Keep /\ NoSnap[a] = Nil
  BY DEF Quiet, NoUpdate, NoSnap

LEMMA MineCredit ==
  ASSUME TypeOK, NeverCreditedTwice, VeinsApart, NEW a \in Agents, Mine(a)
  PROVE  (NeverCreditedTwice /\ VeinsApart)'
<1> DEFINE h == snap[a].hex
<1>1. a \in todo /\ snap[a] # Nil /\ snap[a] \in CacheRec /\ h \in Hexes
  BY DEF Mine, Turn, TypeOK, CacheRec
<1>2. PICK took \in SUBSET hexOre[h] \ {{}} :
        /\ hexOre' = [hexOre EXCEPT ![h] = hexOre[h] \ took]
        /\ dug' = [dug EXCEPT ![a] = @ \cup took]
        /\ \E u \in MineUpdate(a, snap[a].bag \cup took, h, hexOre[h] \ took,
                               {k \in Hexes \ {h} : hexOre[k] # {}}) : Done(a, u)
  BY DEF Mine
<1>3. PICK u \in MineUpdate(a, snap[a].bag \cup took, h, hexOre[h] \ took,
                            {k \in Hexes \ {h} : hexOre[k] # {}}) : Done(a, u)
  BY <1>2
<1>4. snap[a].bag \cup took \in SUBSET Ore
  BY <1>1 DEF TypeOK, CacheRec
<1>5. u.bag = snap[a].bag \cup took
  BY <1>1, <1>3, <1>4, MineUpdateType
<1>6. /\ snap' = [snap EXCEPT ![a] = Nil] /\ upd' = [upd EXCEPT ![a] = u]
      /\ UNCHANGED <<db, cache, lastSnap, req>>
  BY <1>3 DEF Done, Mine, http, process
<1> HIDE DEF h
<1>7. /\ hexOre'[h] = hexOre[h] \ took /\ \A k \in Hexes \ {h} : hexOre'[k] = hexOre[k]
      /\ dug'[a] = dug[a] \cup took /\ \A b \in Agents \ {a} : dug'[b] = dug[b]
  BY <1>1, <1>2 DEF TypeOK
<1>8. VeinsApart'
  BY <1>1, <1>7 DEF VeinsApart
<1>9. \A b, c \in Agents : b # c => dug'[b] \cap dug'[c] = {}
  BY <1>1, <1>2, <1>7 DEF NeverCreditedTwice
<1>10. \A b \in Agents, k \in Hexes : dug'[b] \cap hexOre'[k] = {}
  BY <1>1, <1>2, <1>7 DEF NeverCreditedTwice, VeinsApart
<1>11. ASSUME NEW b \in Agents
       PROVE  CopiesWithin(b, dug[b])'
  <2>1. CopiesWithin(b, dug[b]) /\ dug[b] \subseteq dug'[b]
    BY <1>7 DEF NeverCreditedTwice
  <2>2. upd'[b].bag # Keep => upd'[b].bag \subseteq dug'[b]
    BY <1>1, <1>5, <1>6, <1>7, <2>1 DEF CopiesWithin, TypeOK
  <2>3. snap'[b] # Nil => snap'[b].bag \subseteq dug'[b]
    BY <1>6, <2>1 DEF CopiesWithin, TypeOK
  <2> QED BY <1>6, <2>1, <2>2, <2>3 DEF CopiesWithin
<1> QED BY <1>8, <1>9, <1>10, <1>11 DEF NeverCreditedTwice

\* A turn that mines nothing queues no new total.
LEMMA TurnCredit ==
  ASSUME TypeOK, NeverCreditedTwice, VeinsApart, NEW a \in Agents,
         NoYield(a) \/ CaveIn(a) \/ SelfDig(a) \/ Arrive(a) \/ Pass(a)
  PROVE  (NeverCreditedTwice /\ VeinsApart)'
<1>0. upd \in [Agents -> UpdRec]
  BY DEF TypeOK
<1>1. /\ snap' = [snap EXCEPT ![a] = Nil]
      /\ upd'[a].bag = Keep /\ \A b \in Agents \ {a} : upd'[b] = upd[b]
  <2>1. CASE NoYield(a)
    BY <1>0, <2>1 DEF NoYield, Done, NoUpdate
  <2>2. CASE CaveIn(a)
    BY <1>0, <2>2 DEF CaveIn, Done, NoUpdate
  <2>3. CASE SelfDig(a)
    BY <1>0, <2>3 DEF SelfDig, Done, NoUpdate
  <2>4. CASE Arrive(a)
    BY <1>0, <2>4 DEF Arrive, Done, NoUpdate
  <2>5. CASE Pass(a)
    BY <1>0, <2>5 DEF Pass, Done, NoUpdate
  <2> QED BY <2>1, <2>2, <2>3, <2>4, <2>5
<1>2. UNCHANGED <<hexOre, dug, cache, lastSnap, req>>
  BY DEF NoYield, CaveIn, SelfDig, Arrive, Pass, stores, http, process, history
<1>3. \A b \in Agents : db'[b].bag = db[b].bag
  <2>1. \/ UNCHANGED db
        \/ db' = [db EXCEPT ![a].status = "TRAPPED", ![a].dig = TRUE]
        \/ db' = [db EXCEPT ![a].status = "MINING", ![a].dig = FALSE]
    BY DEF NoYield, CaveIn, SelfDig, Arrive, Pass, stores
  <2>2. db \in [Agents -> DbRec]
    BY DEF TypeOK
  <2> QED BY <2>1, <2>2 DEF DbRec
<1>4. ASSUME NEW b \in Agents
      PROVE  CopiesWithin(b, dug[b])'
  <2>1. CopiesWithin(b, dug[b])
    BY DEF NeverCreditedTwice
  <2>2. upd'[b].bag # Keep => upd'[b].bag \subseteq dug[b]
    BY <1>1, <2>1 DEF CopiesWithin, TypeOK
  <2>3. snap'[b] # Nil => snap'[b].bag \subseteq dug[b]
    BY <1>1, <2>1 DEF CopiesWithin, TypeOK
  <2> QED BY <1>2, <1>3, <2>1, <2>2, <2>3 DEF CopiesWithin
<1> QED BY <1>2, <1>4, NothingDug

LEMMA TickCredit ==
  ASSUME TypeOK, NeverCreditedTwice, VeinsApart,
         TickStart \/ Batch \/ FlushRead \/ FlushWrite \/ TickError
  PROVE  (NeverCreditedTwice /\ VeinsApart)'
<1>1. UNCHANGED <<hexOre, dug, lastSnap, req>>
  BY DEF TickStart, Batch, FlushRead, FlushWrite, TickError, stores, http, process, history
<1>2. ASSUME NEW b \in Agents
      PROVE  CopiesWithin(b, dug[b])'
  <2>1. CopiesWithin(b, dug[b])
    BY DEF NeverCreditedTwice
  <2>2. CASE TickStart \/ FlushRead
    <3>1. snap' = ReadCache \/ snap' = snap
      BY <2>2 DEF TickStart, FlushRead
    <3>2. snap'[b] # Nil => snap'[b].bag \subseteq dug[b]
      BY <2>1, <3>1 DEF CopiesWithin, ReadCache
    <3>3. UNCHANGED <<db, cache, upd>>
      BY <2>2 DEF TickStart, FlushRead, stores
    <3> QED BY <1>1, <2>1, <3>2, <3>3 DEF CopiesWithin
  <2>3. CASE Batch
    <3>1. cache'[b].bag \subseteq dug[b] /\ upd'[b].bag = Keep
      BY <2>1, <2>3, HsetBag, QuietBag DEF Batch, CopiesWithin
    <3>2. UNCHANGED <<db, snap>>
      BY <2>3 DEF Batch
    <3> QED BY <1>1, <2>1, <3>1, <3>2 DEF CopiesWithin
  <2>4. CASE FlushWrite
    <3>1. db'[b].bag \subseteq dug[b] /\ snap'[b] = Nil
      BY <2>1, <2>4, FlushBag, QuietBag DEF FlushWrite, CopiesWithin
    <3>2. UNCHANGED <<cache, upd>>
      BY <2>4 DEF FlushWrite
    <3> QED BY <1>1, <2>1, <3>1, <3>2 DEF CopiesWithin
  <2>5. CASE TickError
    <3>1. upd'[b].bag = Keep /\ snap'[b] = Nil /\ UNCHANGED <<db, cache>>
      BY <2>5, QuietBag DEF TickError, stores
    <3> QED BY <1>1, <2>1, <3>1 DEF CopiesWithin
  <2> QED BY <2>2, <2>3, <2>4, <2>5
<1> QED BY <1>1, <1>2, NothingDug

\* A handler writes to Redis no total but the one it has read from Postgres.
LEMMA HttpCredit ==
  ASSUME TypeOK, NeverCreditedTwice, VeinsApart, NEW r \in Reqs, Call(r) \/ Continue(r)
  PROVE  (NeverCreditedTwice /\ VeinsApart)'
<1>1. UNCHANGED <<hexOre, dug, snap, upd, lastSnap>>
  BY DEF Call, RelocateCheck, RescueCheck, RepairStore, Continue, RelocateStore,
         RelocateCache, RelocateRead, RelocateRegister, RescueStore, RescueCache,
         RepairCache, stores, tick, process, history
<1>2. /\ db \in [Agents -> DbRec] /\ cache \in [Agents -> CacheRec]
      /\ req \in [Reqs -> {Nil} \cup ReqRec]
  BY DEF TypeOK
<1>3. ASSUME req[r] # Nil
      PROVE  req[r] \in ReqRec /\ req[r].agent \in Agents
  BY <1>2, <1>3 DEF ReqRec
<1>4. ASSUME NEW b \in Agents
      PROVE  CopiesWithin(b, dug[b])'
  <2>1. CopiesWithin(b, dug[b])
    BY DEF NeverCreditedTwice
  <2>2. ASSUME db'[b].bag = db[b].bag, cache'[b].bag \subseteq dug[b],
               req'[r] # Nil /\ req'[r].agent = b => req'[r].bag \subseteq dug[b],
               \A s \in Reqs \ {r} : req'[s] = req[s]
        PROVE  CopiesWithin(b, dug[b])'
    BY <1>1, <2>1, <2>2 DEF CopiesWithin
  <2>3. ASSUME NEW a \in Agents, NEW h \in Hexes,
               RelocateCheck(r, a, h) \/ RescueCheck(r, a) \/ RepairStore(r, a)
        PROVE  CopiesWithin(b, dug[b])'
    <3>1. UNCHANGED cache /\ (UNCHANGED db \/ db' = [db EXCEPT ![a].wear = 0])
      BY <2>3 DEF RelocateCheck, RescueCheck, RepairStore, stores
    <3>2. db'[b].bag = db[b].bag
      BY <1>2, <3>1 DEF DbRec
    <3>3. req'[r].bag = {} /\ \A s \in Reqs \ {r} : req'[s] = req[s]
      BY <1>2, <2>3 DEF RelocateCheck, RescueCheck, RepairStore
    <3> QED BY <2>1, <2>2, <3>1, <3>2, <3>3 DEF CopiesWithin
  <2>4. CASE RelocateStore(r) \/ RescueStore(r)
    <3> DEFINE a == req[r].agent
    <3>1. a \in Agents /\ req[r] # Nil /\ UNCHANGED cache
      BY <1>3, <2>4 DEF RelocateStore, RescueStore, At
    <3>2. \/ db' = [db EXCEPT ![a].hex = req[r].hex, ![a].status = "MINING"]
          \/ db' = [db EXCEPT ![a].status = "MINING", ![a].dig = FALSE]
      BY <2>4 DEF RelocateStore, RescueStore
    <3>3. req' = [req EXCEPT ![r].step = "stored"]
      BY <2>4 DEF RelocateStore, RescueStore, Step
    <3>4. req'[r].bag = req[r].bag /\ req'[r].agent = a
          /\ \A s \in Reqs \ {r} : req'[s] = req[s]
      BY <1>2, <1>3, <3>1, <3>3 DEF ReqRec
    <3> HIDE DEF a
    <3>5. db'[b].bag = db[b].bag
      BY <1>2, <3>1, <3>2 DEF DbRec
    <3> QED BY <2>1, <2>2, <3>1, <3>4, <3>5 DEF CopiesWithin, a
  <2>5. CASE RelocateCache(r) \/ RescueCache(r) \/ RepairCache(r)
    <3> DEFINE a == req[r].agent
    <3>1. a \in Agents /\ UNCHANGED db
      BY <1>3, <2>5 DEF RelocateCache, RescueCache, RepairCache, At
    <3>2. \/ UNCHANGED cache
          \/ cache' = [cache EXCEPT ![a].hex = req[r].hex, ![a].status = "MINING",
                                    ![a].trip = Nil]
          \/ cache' = [cache EXCEPT ![a].status = "MINING", ![a].dig = FALSE]
          \/ cache' = [cache EXCEPT ![a].wear = 0]
      BY <2>5 DEF RelocateCache, RescueCache, RepairCache
    <3>3. req'[r] = Nil /\ \A s \in Reqs \ {r} : req'[s] = req[s]
      BY <1>2, <2>5 DEF RelocateCache, RescueCache, RepairCache, Answer
    <3> HIDE DEF a
    <3>4. cache'[b].bag = cache[b].bag
      BY <1>2, <3>1, <3>2 DEF CacheRec
    <3> QED BY <2>1, <2>2, <3>1, <3>3, <3>4 DEF CopiesWithin
  <2>6. CASE RelocateRead(r)
    <3>1. req[r] # Nil /\ UNCHANGED <<db, cache>>
      BY <2>6 DEF RelocateRead, At, stores
    <3>2. req' = [req EXCEPT ![r].step = "read", ![r].bag = db[req[r].agent].bag]
      BY <2>6 DEF RelocateRead
    <3>3. req'[r].agent = req[r].agent /\ req'[r].bag = db[req[r].agent].bag
          /\ \A s \in Reqs \ {r} : req'[s] = req[s]
      BY <1>2, <1>3, <3>1, <3>2 DEF ReqRec
    <3> QED BY <2>1, <2>2, <3>1, <3>3 DEF CopiesWithin
  <2>7. CASE RelocateRegister(r)
    <3> DEFINE a == req[r].agent
    <3>1. a \in Agents /\ req[r] # Nil /\ UNCHANGED db
      BY <1>3, <2>7 DEF RelocateRegister, At
    <3>2. cache' = [cache EXCEPT ![a].hex = req[r].hex, ![a].status = "MINING",
                                 ![a].bag = req[r].bag, ![a].wear = 0]
      BY <2>7 DEF RelocateRegister
    <3>3. req'[r] = Nil /\ \A s \in Reqs \ {r} : req'[s] = req[s]
      BY <1>2, <2>7 DEF RelocateRegister, Answer
    <3>4. req[r].bag \subseteq dug[a]
      BY <3>1 DEF NeverCreditedTwice, CopiesWithin
    <3> HIDE DEF a
    <3>5. cache'[b].bag = IF b = a THEN req[r].bag ELSE cache[b].bag
      BY <1>2, <3>1, <3>2 DEF CacheRec
    <3> QED BY <2>1, <2>2, <3>1, <3>3, <3>4, <3>5 DEF CopiesWithin
  <2> QED BY <2>3, <2>4, <2>5, <2>6, <2>7, ConstantsAssumption DEF Call, Continue
<1> QED BY <1>1, <1>4, NothingDug

LEMMA ProcessCredit ==
  ASSUME TypeOK, NeverCreditedTwice, VeinsApart, ProcessStep
  PROVE  (NeverCreditedTwice /\ VeinsApart)'
<1>1. CASE TickError
  BY <1>1, TickCredit
<1>2. CASE ~TickError
  <2>1. UNCHANGED <<hexOre, dug>>
    BY <1>2 DEF ProcessStep, Crash, ShutdownRead, ShutdownWrite, Exit, Die, Restart,
                LoadRead, LoadWrite, stores, history
  <2>2. ASSUME NEW b \in Agents
        PROVE  CopiesWithin(b, dug[b])'
    <3>1. CopiesWithin(b, dug[b])
      BY DEF NeverCreditedTwice
    <3>2. CASE Crash \/ Exit
      <4>1. Blank(b).bag = {}
        BY DEF Blank
      <4>2. cache'[b].bag \subseteq dug[b]
        BY <3>1, <3>2, <4>1 DEF Crash, Exit, CopiesWithin
      <4>3. /\ upd'[b].bag = Keep /\ snap'[b] = Nil /\ lastSnap'[b] = Nil
            /\ UNCHANGED db /\ \A r \in Reqs : req'[r] = Nil
        BY <3>2, QuietBag DEF Crash, Exit, Die
      <4> QED BY <2>1, <3>1, <4>2, <4>3 DEF CopiesWithin
    <3>3. CASE ShutdownRead
      BY <2>1, <3>1, <3>3 DEF ShutdownRead, ReadCache, CopiesWithin, stores, http
    <3>4. CASE ShutdownWrite
      <4>1. db'[b].bag \subseteq dug[b] /\ lastSnap'[b] = Nil
        BY <3>1, <3>4, FlushBag, QuietBag DEF ShutdownWrite, CopiesWithin
      <4> QED BY <2>1, <3>1, <3>4, <4>1 DEF ShutdownWrite, CopiesWithin, tick, http
    <3>5. CASE Restart
      BY <2>1, <3>1, <3>5 DEF Restart, CopiesWithin, stores, http
    <3>6. CASE LoadRead
      <4>1. snap'[b] # Nil => snap'[b].bag \subseteq dug[b]
        BY <3>1, <3>6 DEF LoadRead, CopiesWithin
      <4> QED BY <2>1, <3>1, <3>6, <4>1 DEF LoadRead, CopiesWithin, stores, http, process
    <3>7. CASE LoadWrite
      <4>1. cache'[b].bag \subseteq dug[b] /\ snap'[b] = Nil
        BY <3>1, <3>7, LoadRowBag, QuietBag DEF LoadWrite, CopiesWithin
      <4> QED BY <2>1, <3>1, <3>7, <4>1 DEF LoadWrite, CopiesWithin, http, process
    <3> QED BY <1>2, <3>2, <3>3, <3>4, <3>5, <3>6, <3>7 DEF ProcessStep
  <2> QED BY <2>1, <2>2, NothingDug
<1> QED BY <1>1, <1>2

LEMMA InitCredit == Init => NeverCreditedTwice /\ VeinsApart
  BY ConstantsAssumption DEF Init, Blank, Quiet, NoSnap, NoUpdate,
     NeverCreditedTwice, VeinsApart, CopiesWithin

LEMMA StepCredit ==
  TypeOK /\ NeverCreditedTwice /\ VeinsApart /\ [Next]_vars
    => (NeverCreditedTwice /\ VeinsApart)'
<1> SUFFICES ASSUME TypeOK, NeverCreditedTwice, VeinsApart, [Next]_vars
             PROVE  (NeverCreditedTwice /\ VeinsApart)'
  OBVIOUS
<1>1. CASE TickStep
  BY <1>1, MineCredit, TurnCredit, TickCredit DEF TickStep, AgentTurn
<1>2. CASE \E r \in Reqs : Call(r) \/ Continue(r)
  BY <1>2, HttpCredit
<1>3. CASE \E a \in Agents : CooldownOver(a)
  BY <1>3 DEF CooldownOver, stores, tick, process, history,
              NeverCreditedTwice, VeinsApart, CopiesWithin
<1>4. CASE ProcessStep
  BY <1>4, ProcessCredit
<1>5. CASE UNCHANGED vars
  BY <1>5 DEF vars, stores, tick, http, process, history,
              NeverCreditedTwice, VeinsApart, CopiesWithin
<1> QED BY <1>1, <1>2, <1>3, <1>4, <1>5 DEF Next

\* No unit of ore is ever credited to two agents, or credited and still in the
\* ground, in any interleaving of ticks, handlers, failed writes, crashes and
\* restarts.  A total may be stale, never too large.
THEOREM NoDoubleCredit == Spec => []NeverCreditedTwice
<1> DEFINE Inv == TypeOK /\ NeverCreditedTwice /\ VeinsApart
<1>1. Init => Inv
  BY InitType, InitCredit
<1>2. Inv /\ [Next]_vars => Inv'
  BY StepType, StepCredit
<1>3. Inv => NeverCreditedTwice
  OBVIOUS
<1> QED BY <1>1, <1>2, <1>3, PTL DEF Spec

-----------------------------------------------------------------------------
(* What a turn of an agent does, for the proofs in other modules.          *)

\* What a turn of agent a leaves alone, and what it queues for a.
LEMMA TurnFrame ==
  ASSUME TypeOK, NEW a \in Agents, AgentTurn(a)
  PROVE  /\ UNCHANGED <<pc, cached, cache, lastSnap, req, interrupted>>
         /\ a \in todo /\ todo' = todo \ {a} /\ pc = "agents"
         /\ snap' = [snap EXCEPT ![a] = Nil]
         /\ \A b \in Agents \ {a} : upd'[b] = upd[b]
         /\ \A b \in Agents : db'[b].bag = db[b].bag
<1>1. upd \in [Agents -> UpdRec] /\ db \in [Agents -> DbRec]
  BY DEF TypeOK
<1>2. /\ UNCHANGED <<pc, cached, cache, lastSnap, req, interrupted>>
      /\ a \in todo /\ pc = "agents"
  BY DEF AgentTurn, Mine, NoYield, CaveIn, SelfDig, Arrive, Pass, Turn, Done, stores,
         http, process, history
<1>3. PICK u : Done(a, u)
  BY DEF AgentTurn, Mine, NoYield, CaveIn, SelfDig, Arrive, Pass
<1>4. /\ todo' = todo \ {a} /\ snap' = [snap EXCEPT ![a] = Nil]
      /\ \A b \in Agents \ {a} : upd'[b] = upd[b]
  BY <1>1, <1>3 DEF Done
<1>5. \/ UNCHANGED db
      \/ db' = [db EXCEPT ![a].status = "TRAPPED", ![a].dig = TRUE]
      \/ db' = [db EXCEPT ![a].status = "MINING", ![a].dig = FALSE]
  BY DEF AgentTurn, Mine, NoYield, CaveIn, SelfDig, Arrive, Pass, stores
<1>6. \A b \in Agents : db'[b].bag = db[b].bag
  BY <1>1, <1>5 DEF DbRec
<1> QED BY <1>2, <1>4, <1>6

\* A turn that mines queues the snapshot's total with the new units, one that
\* does not queues no total.
LEMMA TurnBag ==
  ASSUME TypeOK, NEW a \in Agents, AgentTurn(a)
  PROVE  \/ /\ UNCHANGED <<hexOre, dug>> /\ upd'[a].bag = Keep
         \/ \E took \in SUBSET hexOre[snap[a].hex] :
              /\ snap[a] # Nil /\ snap[a].hex \in Hexes
              /\ hexOre' = [hexOre EXCEPT ![snap[a].hex] = @ \ took]
              /\ dug' = [dug EXCEPT ![a] = @ \cup took]
              /\ upd'[a].bag = snap[a].bag \cup took
              /\ upd'[a].bag # Keep
<1>1. upd \in [Agents -> UpdRec]
  BY DEF TypeOK
<1>2. CASE Mine(a)
  <2>1. a \in todo /\ snap[a] \in CacheRec /\ snap[a] # Nil /\ snap[a].hex \in Hexes
    BY <1>2 DEF Mine, Turn, TypeOK, CacheRec
  <2>2. PICK took \in SUBSET hexOre[snap[a].hex] :
          /\ hexOre' = [hexOre EXCEPT ![snap[a].hex] = hexOre[snap[a].hex] \ took]
          /\ dug' = [dug EXCEPT ![a] = @ \cup took]
          /\ \E u \in MineUpdate(a, snap[a].bag \cup took, snap[a].hex,
                                 hexOre[snap[a].hex] \ took,
                                 {k \in Hexes \ {snap[a].hex} : hexOre[k] # {}}) : Done(a, u)
    BY <1>2 DEF Mine
  <2>3. PICK u \in MineUpdate(a, snap[a].bag \cup took, snap[a].hex,
                              hexOre[snap[a].hex] \ took,
                              {k \in Hexes \ {snap[a].hex} : hexOre[k] # {}}) : Done(a, u)
    BY <2>2
  <2>4. snap[a].bag \cup took \in SUBSET Ore
    BY <2>1, <2>2 DEF TypeOK, CacheRec
  <2>5. u.bag = snap[a].bag \cup took /\ u.bag # Keep
    BY <2>1, <2>3, <2>4, MineUpdateType, MarksAssumption
  <2>6. upd'[a] = u
    BY <1>1, <2>3 DEF Done
  <2> QED BY <2>1, <2>2, <2>5, <2>6
<1>3. CASE ~Mine(a)
  <2>1. UNCHANGED <<hexOre, dug>>
    BY <1>3 DEF AgentTurn, NoYield, CaveIn, SelfDig, Arrive, Pass, stores, history
  <2>2. upd'[a].bag = Keep
    <3>1. CASE NoYield(a)
      BY <1>1, <3>1 DEF NoYield, Done, NoUpdate
    <3>2. CASE CaveIn(a)
      BY <1>1, <3>2 DEF CaveIn, Done, NoUpdate
    <3>3. CASE SelfDig(a)
      BY <1>1, <3>3 DEF SelfDig, Done, NoUpdate
    <3>4. CASE Arrive(a)
      BY <1>1, <3>4 DEF Arrive, Done, NoUpdate
    <3>5. CASE Pass(a)
      BY <1>1, <3>5 DEF Pass, Done, NoUpdate
    <3> QED BY <1>3, <3>1, <3>2, <3>3, <3>4, <3>5 DEF AgentTurn
  <2> QED BY <2>1, <2>2
<1> QED BY <1>2, <1>3

\* What a handler does to the totals: it leaves them alone, reads the one of an
\* agent Redis does not know, or registers such an agent with what it has read.
LEMMA HttpFrame ==
  ASSUME TypeOK, NEW r \in Reqs, Call(r) \/ Continue(r)
  PROVE  /\ UNCHANGED <<hexOre, tick, process, history>>
         /\ \A s \in Reqs \ {r} : req'[s] = req[s]
         /\ \A b \in Agents : db'[b].bag = db[b].bag
         /\ \/ /\ cached' = cached /\ \A b \in Agents : cache'[b].bag = cache[b].bag
               /\ ~(req'[r] # Nil /\ req'[r].step = "read")
            \/ /\ UNCHANGED <<db, cached, cache>> /\ req[r].agent \in Agents \ cached
               /\ req'[r] # Nil /\ req'[r].step = "read"
               /\ req'[r].agent = req[r].agent /\ req'[r].bag = db[req[r].agent].bag
            \/ /\ HasRead(r) /\ req[r].agent \in Agents /\ cached' = cached \cup {req[r].agent}
               /\ \A b \in Agents : cache'[b].bag = IF b = req[r].agent THEN req[r].bag
                                                    ELSE cache[b].bag
               /\ req'[r] = Nil
<1>1. UNCHANGED <<hexOre, tick, process, history>>
  BY DEF Call, RelocateCheck, RescueCheck, RepairStore, Continue, RelocateStore,
         RelocateCache, RelocateRead, RelocateRegister, RescueStore, RescueCache,
         RepairCache, stores
<1>2. /\ db \in [Agents -> DbRec] /\ cache \in [Agents -> CacheRec]
      /\ req \in [Reqs -> {Nil} \cup ReqRec]
  BY DEF TypeOK
<1>3. req[r] # Nil => req[r] \in ReqRec /\ req[r].agent \in Agents
  BY <1>2 DEF ReqRec
<1>4. \A s \in Reqs \ {r} : req'[s] = req[s]
  BY <1>2 DEF Call, RelocateCheck, RescueCheck, RepairStore, Continue, RelocateStore,
              RelocateCache, RelocateRead, RelocateRegister, RescueStore, RescueCache,
              RepairCache, Step, Answer
<1>5. ASSUME NEW a \in Agents, NEW h \in Hexes,
             RelocateCheck(r, a, h) \/ RescueCheck(r, a) \/ RepairStore(r, a)
      PROVE  /\ UNCHANGED <<cached, cache>> /\ req'[r].step # "read"
             /\ \A b \in Agents : db'[b].bag = db[b].bag
  <2>1. UNCHANGED <<cached, cache>> /\ (UNCHANGED db \/ db' = [db EXCEPT ![a].wear = 0])
    BY <1>5 DEF RelocateCheck, RescueCheck, RepairStore, stores
  <2>2. req'[r].step # "read"
    BY <1>2, <1>5 DEF RelocateCheck, RescueCheck, RepairStore
  <2>3. \A b \in Agents : db'[b].bag = db[b].bag
    BY <1>2, <2>1 DEF DbRec
  <2> QED BY <2>1, <2>2, <2>3
<1>6. CASE Call(r)
  BY <1>1, <1>4, <1>5, <1>6, ConstantsAssumption DEF Call
<1>7. CASE RelocateStore(r) \/ RescueStore(r)
  <2> DEFINE a == req[r].agent
  <2>1. a \in Agents /\ req[r] # Nil /\ UNCHANGED <<cached, cache>>
    BY <1>3, <1>7 DEF RelocateStore, RescueStore, At
  <2>2. \/ db' = [db EXCEPT ![a].hex = req[r].hex, ![a].status = "MINING"]
        \/ db' = [db EXCEPT ![a].status = "MINING", ![a].dig = FALSE]
    BY <1>7 DEF RelocateStore, RescueStore
  <2>3. req'[r].step = "stored"
    BY <1>2, <1>7, <2>1 DEF RelocateStore, RescueStore, Step, ReqRec
  <2> HIDE DEF a
  <2>4. \A b \in Agents : db'[b].bag = db[b].bag
    BY <1>2, <2>1, <2>2 DEF DbRec
  <2> QED BY <1>1, <1>4, <2>1, <2>3, <2>4
<1>8. CASE RelocateCache(r) \/ RescueCache(r) \/ RepairCache(r)
  <2> DEFINE a == req[r].agent
  <2>1. a \in Agents /\ UNCHANGED <<db, cached>> /\ req'[r] = Nil
    BY <1>2, <1>3, <1>8 DEF RelocateCache, RescueCache, RepairCache, At, Answer
  <2>2. \/ UNCHANGED cache
        \/ cache' = [cache EXCEPT ![a].hex = req[r].hex, ![a].status = "MINING",
                                  ![a].trip = Nil]
        \/ cache' = [cache EXCEPT ![a].status = "MINING", ![a].dig = FALSE]
        \/ cache' = [cache EXCEPT ![a].wear = 0]
    BY <1>8 DEF RelocateCache, RescueCache, RepairCache
  <2> HIDE DEF a
  <2>3. \A b \in Agents : cache'[b].bag = cache[b].bag
    BY <1>2, <2>1, <2>2 DEF CacheRec
  <2> QED BY <1>1, <1>4, <2>1, <2>3
<1>9. CASE RelocateRead(r)
  <2>1. req[r] # Nil /\ req[r].agent \in Agents \ cached /\ UNCHANGED <<db, cache, cached>>
    BY <1>3, <1>9 DEF RelocateRead, At, stores
  <2>2. req' = [req EXCEPT ![r].step = "read", ![r].bag = db[req[r].agent].bag]
    BY <1>9 DEF RelocateRead
  <2>3. /\ req'[r].step = "read" /\ req'[r].agent = req[r].agent
        /\ req'[r].bag = db[req[r].agent].bag /\ req'[r] # Nil
    <3> DEFINE n == [req[r] EXCEPT !.step = "read", !.bag = db[req[r].agent].bag]
    <3>1. req'[r] = n
      BY <1>2, <2>2
    <3>2. db[req[r].agent].bag \in SUBSET Ore
      BY <1>2, <2>1 DEF DbRec
    <3>3. n \in ReqRec /\ n.step = "read" /\ n.agent = req[r].agent /\ n.bag = db[req[r].agent].bag
      BY <1>3, <2>1, <3>2 DEF ReqRec
    <3> QED BY <3>1, <3>3, MarksAssumption
  <2> QED BY <1>1, <1>4, <2>1, <2>3
<1>10. CASE RelocateRegister(r)
  <2> DEFINE a == req[r].agent
  <2>1. /\ a \in Agents /\ HasRead(r)
        /\ UNCHANGED db /\ cached' = cached \cup {a} /\ req'[r] = Nil
    BY <1>2, <1>3, <1>10 DEF RelocateRegister, At, Answer, HasRead
  <2>2. cache' = [cache EXCEPT ![a].hex = req[r].hex, ![a].status = "MINING",
                               ![a].bag = req[r].bag, ![a].wear = 0]
    BY <1>10 DEF RelocateRegister
  <2> HIDE DEF a
  <2>3. \A b \in Agents : cache'[b].bag = IF b = a THEN req[r].bag ELSE cache[b].bag
    BY <1>2, <2>1, <2>2 DEF CacheRec
  <2> QED BY <1>1, <1>4, <2>1, <2>3 DEF a
<1> QED BY <1>6, <1>7, <1>8, <1>9, <1>10 DEF Continue

-----------------------------------------------------------------------------
(* An agent that waits has a deadline to wait for. *)

LEMMA FlushTimed ==
  ASSUME NEW a \in Agents, Timed(db[a]), NEW s, s[a] # Nil => Timed(s[a])
  PROVE  Timed(Flush(s)[a])
  BY DEF Timed, Flush, FlushRow

LEMMA LoadRowTimed ==
  ASSUME NEW c, Timed(c), NEW s, s # Nil => Timed(s)
  PROVE  Timed(LoadRow(c, s))
  BY DEF Timed, LoadRow

LEMMA Marks ==
  /\ Keep \notin Statuses /\ Keep # TRUE /\ Keep # FALSE /\ Keep # Nil
  BY MarksAssumption

LEMMA NoUpdateGood == GoodUpdate(NoUpdate) /\ GoodTrip(NoUpdate)
  BY Marks DEF NoUpdate, GoodUpdate, GoodTrip, Statuses

LEMMA HsetTimed ==
  ASSUME NEW c \in CacheRec, Timed(c), NEW u \in UpdRec, GoodUpdate(u)
  PROVE  Timed(Hset(c, u))
<1>1. Hset(c, u).status = (IF u.status = Keep THEN c.status ELSE u.status)
      /\ Hset(c, u).dig = (IF u.dig = Keep THEN c.dig ELSE u.dig)
  BY DEF Hset
<1>2. c # Nil
  BY MarksAssumption
<1> DEFINE h == Hset(c, u)
<1> HIDE DEF h
<1>3. h.status = (IF u.status = Keep THEN c.status ELSE u.status)
      /\ h.dig = (IF u.dig = Keep THEN c.dig ELSE u.dig)
  BY <1>1 DEF h
<1>4. ASSUME h.status = "TRAPPED" PROVE h.dig
  <2>1. CASE u.status = Keep
    <3>1. u.dig # FALSE /\ c.dig /\ u.dig \in {Keep} \cup BOOLEAN
      BY <1>2, <1>3, <1>4, <2>1, Marks DEF Timed, GoodUpdate, UpdRec, Statuses
    <3> QED BY <1>3, <3>1
  <2>2. CASE u.status # Keep
    BY <1>3, <1>4, <2>2, Marks DEF GoodUpdate
  <2> QED BY <2>1, <2>2
<1> QED BY <1>4 DEF Timed, h

LEMMA HsetTrip ==
  ASSUME NEW c \in CacheRec, c.status = "RELOCATING" => c.trip # Nil,
         NEW u \in UpdRec, GoodTrip(u)
  PROVE  Hset(c, u).status = "RELOCATING" => Hset(c, u).trip # Nil
<1>1. Hset(c, u).status = (IF u.status = Keep THEN c.status ELSE u.status)
      /\ Hset(c, u).trip = (IF u.trip = Keep THEN c.trip ELSE u.trip)
  BY DEF Hset
<1> QED BY <1>1, Marks DEF GoodTrip, CacheRec, UpdRec, Statuses

LEMMA MineUpdateGood ==
  ASSUME TypeOK, NEW a \in todo, NEW b \in SUBSET Ore, NEW h \in Hexes,
         NEW left, NEW elsewhere \in SUBSET Hexes,
         NEW u \in MineUpdate(a, b, h, left, elsewhere)
  PROVE  GoodUpdate(u) /\ GoodTrip(u)
<1> DEFINE mined == [NoUpdate EXCEPT !.bag = b, !.wear = AccrueWear(snap[a].wear)]
<1>1. mined.status = Keep /\ mined.dig = Keep /\ mined.trip = Keep /\ mined \in UpdRec
  <2>1. AccrueWear(snap[a].wear) \in 0 .. MaxWear
    BY AccrueWearType DEF TypeOK, CacheRec
  <2> QED BY <2>1 DEF NoUpdate, UpdRec
<1>2. CASE left # {}
  BY <1>1, <1>2, Marks DEF MineUpdate, GoodUpdate, GoodTrip, Statuses
<1>3. CASE left = {} /\ elsewhere = {}
  <2>1. u = [mined EXCEPT !.status = "IDLE"]
    BY <1>3 DEF MineUpdate
  <2> HIDE DEF mined
  <2> QED BY <1>1, <2>1, Marks DEF GoodUpdate, GoodTrip, Statuses, UpdRec
<1>4. CASE left = {} /\ elsewhere # {}
  <2>1. PICK k \in elsewhere :
          u = [mined EXCEPT !.status = "RELOCATING",
                            !.trip = [to |-> k, at |-> ArrivalTick(h, k)]]
    BY <1>4 DEF MineUpdate
  <2>2. [to |-> k, at |-> ArrivalTick(h, k)] \in Trips
    BY ArrivalTickType DEF TypeOK, Trips
  <2>3. [to |-> k, at |-> ArrivalTick(h, k)] \notin {Nil, Keep}
    BY <2>2, MarksAssumption
  <2> HIDE DEF mined
  <2> QED BY <1>1, <2>1, <2>3, Marks DEF GoodUpdate, GoodTrip, Statuses, UpdRec
<1> QED BY <1>2, <1>3, <1>4

-----------------------------------------------------------------------------
LEMMA TurnTimed ==
  ASSUME TypeOK, DeadlineInv, NEW a \in Agents, AgentTurn(a)
  PROVE  DeadlineInv'
<1>1. /\ upd \in [Agents -> UpdRec] /\ snap \in [Agents -> {Nil} \cup CacheRec]
      /\ db \in [Agents -> DbRec]
  BY DEF TypeOK
<1>2. \A b \in Agents : GoodUpdate(upd[b]) /\ (~interrupted => GoodTrip(upd[b]))
  BY DEF DeadlineInv
<1>3. UNCHANGED <<pc, cache, lastSnap, interrupted>>
  BY DEF AgentTurn, Mine, NoYield, CaveIn, SelfDig, Arrive, Pass, Done, stores, http,
         process, history
<1>4. ASSUME NEW u, Done(a, u), GoodUpdate(u), GoodTrip(u),
             \A b \in Agents : Timed(db'[b])
      PROVE  DeadlineInv'
  <2>1. \A b \in Agents : snap'[b] # Nil => Timed(snap'[b])
    BY <1>1, <1>4 DEF Done, DeadlineInv, Timed
  <2>2. \A b \in Agents : GoodUpdate(upd'[b]) /\ (~interrupted => GoodTrip(upd'[b]))
    BY <1>1, <1>2, <1>4 DEF Done
  <2> QED BY <1>3, <1>4, <2>1, <2>2 DEF DeadlineInv
<1>5. UNCHANGED db => \A b \in Agents : Timed(db'[b])
  BY DEF DeadlineInv
<1>6. CASE Mine(a)
  <2>1. a \in todo /\ snap[a] \in CacheRec /\ snap[a].hex \in Hexes
    BY <1>6 DEF Mine, Turn, TypeOK, CacheRec
  <2>0. PICK took \in SUBSET hexOre[snap[a].hex] :
          \E u \in MineUpdate(a, snap[a].bag \cup took, snap[a].hex,
                              hexOre[snap[a].hex] \ took,
                              {k \in Hexes \ {snap[a].hex} : hexOre[k] # {}}) : Done(a, u)
    BY <1>6 DEF Mine
  <2>2. PICK u \in MineUpdate(a, snap[a].bag \cup took, snap[a].hex,
                              hexOre[snap[a].hex] \ took,
                              {k \in Hexes \ {snap[a].hex} : hexOre[k] # {}}) : Done(a, u)
    BY <2>0
  <2>3. snap[a].bag \cup took \in SUBSET Ore
    BY <2>1, <2>2 DEF TypeOK, CacheRec
  <2>4. GoodUpdate(u) /\ GoodTrip(u)
    BY <2>1, <2>2, <2>3, MineUpdateGood
  <2> QED BY <1>4, <1>5, <1>6, <2>2, <2>4 DEF Mine
<1>7. CASE NoYield(a)
  <2>1. GoodUpdate([NoUpdate EXCEPT !.wear = AccrueWear(snap[a].wear)])
        /\ GoodTrip([NoUpdate EXCEPT !.wear = AccrueWear(snap[a].wear)])
    BY Marks DEF NoUpdate, GoodUpdate, GoodTrip, Statuses
  <2> QED BY <1>4, <1>5, <1>7, <2>1 DEF NoYield, stores
<1>8. CASE CaveIn(a)
  <2> DEFINE u == [NoUpdate EXCEPT !.status = "TRAPPED", !.dig = TRUE, !.trip = Nil]
  <2>1. GoodUpdate(u) /\ GoodTrip(u)
    BY Marks DEF NoUpdate, GoodUpdate, GoodTrip, Statuses
  <2>2. db' = [db EXCEPT ![a].status = "TRAPPED", ![a].dig = TRUE] \/ db' = db
    BY <1>8 DEF CaveIn
  <2>3. \A b \in Agents : Timed(db'[b])
    BY <1>1, <2>2 DEF DeadlineInv, Timed, DbRec
  <2>4. Done(a, u)
    BY <1>8 DEF CaveIn
  <2> HIDE DEF u
  <2> QED BY <1>4, <2>1, <2>3, <2>4
<1>9. CASE SelfDig(a)
  <2> DEFINE u == [NoUpdate EXCEPT !.status = "MINING", !.dig = FALSE]
  <2>1. GoodUpdate(u) /\ GoodTrip(u)
    BY Marks DEF NoUpdate, GoodUpdate, GoodTrip, Statuses
  <2>2. db' = [db EXCEPT ![a].status = "MINING", ![a].dig = FALSE] \/ db' = db
    BY <1>9 DEF SelfDig
  <2>3. \A b \in Agents : Timed(db'[b])
    BY <1>1, <2>2 DEF DeadlineInv, Timed, DbRec
  <2>4. Done(a, u)
    BY <1>9 DEF SelfDig
  <2> HIDE DEF u
  <2> QED BY <1>4, <2>1, <2>3, <2>4
<1>10. CASE Arrive(a)
  <2> DEFINE u == [NoUpdate EXCEPT !.status = "MINING", !.hex = snap[a].trip.to, !.trip = Nil]
  <2>1. GoodUpdate(u) /\ GoodTrip(u)
    BY Marks DEF NoUpdate, GoodUpdate, GoodTrip, Statuses
  <2>2. Done(a, u) /\ UNCHANGED db
    BY <1>10 DEF Arrive, stores
  <2> HIDE DEF u
  <2> QED BY <1>4, <1>5, <2>1, <2>2
<1>11. CASE Pass(a)
  BY <1>4, <1>5, <1>11, NoUpdateGood DEF Pass, stores
<1> QED BY <1>6, <1>7, <1>8, <1>9, <1>10, <1>11 DEF AgentTurn

LEMMA TickTimed ==
  ASSUME TypeOK, DeadlineInv, TickStart \/ Batch \/ FlushRead \/ FlushWrite \/ TickError
  PROVE  DeadlineInv'
<1>1. \A a \in Agents : /\ Timed(db[a]) /\ Timed(cache[a])
                        /\ snap[a] # Nil => Timed(snap[a])
                        /\ lastSnap[a] # Nil => Timed(lastSnap[a])
  BY DEF DeadlineInv
<1>2. \A a \in Agents : /\ ReadCache[a] # Nil => Timed(ReadCache[a])
                        /\ NoSnap[a] = Nil
                        /\ GoodUpdate(Quiet[a]) /\ GoodTrip(Quiet[a])
  BY <1>1, NoUpdateGood DEF ReadCache, NoSnap, Quiet
<1>3. UNCHANGED lastSnap /\ pc' \notin {"down", "starting", "loading"}
      /\ (~interrupted' => ~interrupted)
  BY DEF TickStart, Batch, FlushRead, FlushWrite, TickError, process, history
<1>4. CASE TickStart \/ FlushRead
  <2>1. (snap' = ReadCache \/ snap' = snap) /\ UNCHANGED <<db, cache, upd>>
    BY <1>4 DEF TickStart, FlushRead, stores
  <2> QED BY <1>1, <1>2, <1>3, <2>1 DEF DeadlineInv
<1>5. CASE Batch
  <2>1. UNCHANGED <<db, snap>> /\ upd' = Quiet
        /\ cache' = [a \in Agents |-> Hset(cache[a], upd[a])]
    BY <1>5 DEF Batch
  <2>2. \A a \in Agents : cache[a] \in CacheRec /\ upd[a] \in UpdRec
    BY DEF TypeOK
  <2>3. \A a \in Agents : Timed(cache'[a])
    BY <1>1, <2>1, <2>2, HsetTimed DEF DeadlineInv
  <2>4. ~interrupted => \A a \in Agents : cache'[a].status = "RELOCATING" => cache'[a].trip # Nil
    BY <2>1, <2>2, HsetTrip DEF DeadlineInv
  <2> QED BY <1>1, <1>2, <1>3, <2>1, <2>3, <2>4 DEF DeadlineInv
<1>6. CASE FlushWrite
  <2>1. UNCHANGED <<cache, upd>> /\ db' = Flush(snap) /\ snap' = NoSnap
    BY <1>6 DEF FlushWrite
  <2>2. \A a \in Agents : Timed(db'[a])
    BY <1>1, <2>1, FlushTimed
  <2> QED BY <1>1, <1>2, <1>3, <2>1, <2>2 DEF DeadlineInv
<1>7. CASE TickError
  <2>1. UNCHANGED <<db, cache>> /\ snap' = NoSnap /\ upd' = Quiet /\ interrupted'
    BY <1>7 DEF TickError, stores
  <2> QED BY <1>1, <1>2, <1>3, <2>1 DEF DeadlineInv
<1> QED BY <1>4, <1>5, <1>6, <1>7

\* A handler that changes a status makes it MINING.
LEMMA HttpTimed ==
  ASSUME TypeOK, DeadlineInv, NEW r \in Reqs, Call(r) \/ Continue(r)
  PROVE  DeadlineInv'
<1>1. /\ db \in [Agents -> DbRec] /\ cache \in [Agents -> CacheRec]
      /\ req \in [Reqs -> {Nil} \cup ReqRec]
  BY DEF TypeOK
<1>2. req[r] # Nil => req[r].agent \in Agents
  BY <1>1 DEF ReqRec
<1>3. UNCHANGED <<pc, snap, upd, lastSnap, interrupted>>
  BY DEF Call, RelocateCheck, RescueCheck, RepairStore, Continue, RelocateStore,
         RelocateCache, RelocateRead, RelocateRegister, RescueStore, RescueCache,
         RepairCache, tick, process, history
<1>4. ASSUME \A b \in Agents : \/ db'[b].status = "MINING"
                               \/ db'[b].status = db[b].status /\ db'[b].dig = db[b].dig,
             \A b \in Agents : \/ cache'[b].status = "MINING"
                               \/ /\ cache'[b].status = cache[b].status
                                  /\ cache'[b].dig = cache[b].dig
                                  /\ cache'[b].trip = cache[b].trip
      PROVE  DeadlineInv'
  BY <1>3, <1>4 DEF DeadlineInv, Timed
<1>5. ASSUME NEW a \in Agents, NEW h \in Hexes,
             RelocateCheck(r, a, h) \/ RescueCheck(r, a) \/ RepairStore(r, a)
      PROVE  DeadlineInv'
  <2>1. UNCHANGED cache /\ (UNCHANGED db \/ db' = [db EXCEPT ![a].wear = 0])
    BY <1>5 DEF RelocateCheck, RescueCheck, RepairStore, stores
  <2> QED BY <1>1, <1>4, <2>1 DEF DbRec
<1>6. CASE RelocateStore(r) \/ RescueStore(r)
  <2> DEFINE a == req[r].agent
  <2>1. a \in Agents /\ UNCHANGED cache
    BY <1>2, <1>6 DEF RelocateStore, RescueStore, At
  <2>2. \/ db' = [db EXCEPT ![a].hex = req[r].hex, ![a].status = "MINING"]
        \/ db' = [db EXCEPT ![a].status = "MINING", ![a].dig = FALSE]
    BY <1>6 DEF RelocateStore, RescueStore
  <2> HIDE DEF a
  <2> QED BY <1>1, <1>4, <2>1, <2>2 DEF DbRec
<1>7. CASE RelocateCache(r) \/ RescueCache(r) \/ RepairCache(r) \/ RelocateRegister(r)
  <2> DEFINE a == req[r].agent
  <2>1. a \in Agents /\ UNCHANGED db
    BY <1>2, <1>7 DEF RelocateCache, RescueCache, RepairCache, RelocateRegister, At
  <2>2. \/ UNCHANGED cache
        \/ cache' = [cache EXCEPT ![a].hex = req[r].hex, ![a].status = "MINING",
                                  ![a].trip = Nil]
        \/ cache' = [cache EXCEPT ![a].hex = req[r].hex, ![a].status = "MINING",
                                  ![a].bag = req[r].bag, ![a].wear = 0]
        \/ cache' = [cache EXCEPT ![a].status = "MINING", ![a].dig = FALSE]
        \/ cache' = [cache EXCEPT ![a].wear = 0]
    BY <1>7 DEF RelocateCache, RescueCache, RepairCache, RelocateRegister
  <2> HIDE DEF a
  <2>3. \A b \in Agents : \/ cache'[b].status = "MINING"
                          \/ /\ cache'[b].status = cache[b].status
                             /\ cache'[b].dig = cache[b].dig
                             /\ cache'[b].trip = cache[b].trip
    BY <1>1, <2>1, <2>2 DEF CacheRec
  <2> QED BY <1>4, <2>1, <2>3
<1>8. CASE RelocateRead(r)
  BY <1>4, <1>8 DEF RelocateRead, stores
<1> QED BY <1>5, <1>6, <1>7, <1>8, ConstantsAssumption DEF Call, Continue

LEMMA ProcessTimed ==
  ASSUME TypeOK, DeadlineInv, ProcessStep
  PROVE  DeadlineInv'
<1>1. \A a \in Agents : /\ Timed(db[a]) /\ Timed(cache[a])
                        /\ snap[a] # Nil => Timed(snap[a])
                        /\ lastSnap[a] # Nil => Timed(lastSnap[a])
  BY DEF DeadlineInv
<1>2. \A a \in Agents : /\ ReadCache[a] # Nil => Timed(ReadCache[a])
                        /\ NoSnap[a] = Nil /\ Timed(Blank(a))
                        /\ GoodUpdate(Quiet[a]) /\ GoodTrip(Quiet[a])
  BY <1>1, NoUpdateGood DEF ReadCache, NoSnap, Quiet, Timed, Blank
<1>3. CASE TickError
  BY <1>3, TickTimed
<1>4. CASE Crash \/ Exit
  <2>1. /\ UNCHANGED db /\ snap' = NoSnap /\ lastSnap' = NoSnap /\ upd' = Quiet
        /\ interrupted'
    BY <1>4 DEF Crash, Exit, Die
  <2>2. UNCHANGED cache \/ cache' = [a \in Agents |-> Blank(a)]
    BY <1>4 DEF Crash, Exit
  <2> QED BY <1>1, <1>2, <2>1, <2>2 DEF DeadlineInv
<1>5. CASE ShutdownRead
  <2>1. UNCHANGED <<db, cache, pc, snap, upd, interrupted>> /\ lastSnap' = ReadCache
    BY <1>5 DEF ShutdownRead, stores, history
  <2> QED BY <1>1, <1>2, <2>1 DEF DeadlineInv
<1>6. CASE ShutdownWrite
  <2>1. /\ UNCHANGED <<cache, pc, snap, upd, interrupted>>
        /\ db' = Flush(lastSnap) /\ lastSnap' = NoSnap
    BY <1>6 DEF ShutdownWrite, tick, history
  <2>2. \A a \in Agents : Timed(db'[a])
    BY <1>1, <2>1, FlushTimed
  <2> QED BY <1>1, <1>2, <2>1, <2>2 DEF DeadlineInv
<1>7. CASE Restart
  BY <1>7 DEF Restart, DeadlineInv, stores, history
<1>8. CASE LoadRead
  <2>1. /\ UNCHANGED <<db, cache, upd, lastSnap, interrupted>> /\ interrupted
        /\ \A a \in Agents : snap'[a] # Nil =>
             snap'[a].status = db[a].status /\ snap'[a].dig = db[a].dig
    BY <1>8 DEF LoadRead, DeadlineInv, stores, process, history
  <2> QED BY <1>1, <2>1 DEF DeadlineInv, Timed
<1>9. CASE LoadWrite
  <2>1. /\ UNCHANGED <<db, upd, lastSnap, interrupted>> /\ interrupted /\ snap' = NoSnap
        /\ cache' = [a \in Agents |-> LoadRow(cache[a], snap[a])]
    BY <1>9 DEF LoadWrite, DeadlineInv, process, history
  <2>2. \A a \in Agents : Timed(cache'[a])
    BY <1>1, <2>1, LoadRowTimed
  <2> QED BY <1>1, <1>2, <2>1, <2>2 DEF DeadlineInv
<1> QED BY <1>3, <1>4, <1>5, <1>6, <1>7, <1>8, <1>9 DEF ProcessStep

LEMMA InitTimed == Init => DeadlineInv
  BY NoUpdateGood DEF Init, DeadlineInv, Timed, Blank, Quiet, NoSnap

\* Whatever order ticks, flushes, rescues, relocations, failed writes and
\* restarts come in, a trapped agent keeps a timer in Redis and in Postgres, so
\* that the tick can free it, and until a restart a travelling one its target.
THEOREM DeadlineKept == Spec => []WaitingHasDeadline
<1> DEFINE Inv == TypeOK /\ DeadlineInv
<1>1. Init => Inv
  BY InitType, InitTimed
<1>2. Inv /\ [Next]_vars => Inv'
  <2> SUFFICES ASSUME Inv, [Next]_vars PROVE Inv'
    OBVIOUS
  <2>1. TypeOK'
    BY StepType
  <2>2. CASE TickStep
    BY <2>1, <2>2, TurnTimed, TickTimed DEF TickStep
  <2>3. CASE \E r \in Reqs : Call(r) \/ Continue(r)
    BY <2>1, <2>3, HttpTimed
  <2>4. CASE \E a \in Agents : CooldownOver(a)
    BY <2>1, <2>4 DEF CooldownOver, stores, tick, process, history, DeadlineInv
  <2>5. CASE ProcessStep
    BY <2>1, <2>5, ProcessTimed
  <2>6. CASE UNCHANGED vars
    BY <2>1, <2>6 DEF vars, stores, tick, http, process, history, DeadlineInv
  <2> QED BY <2>2, <2>3, <2>4, <2>5, <2>6 DEF Next
<1>3. Inv => WaitingHasDeadline
  BY DEF DeadlineInv, Timed, WaitingHasDeadline, TypeOK
<1> QED BY <1>1, <1>2, <1>3, PTL DEF Spec
=============================================================================
