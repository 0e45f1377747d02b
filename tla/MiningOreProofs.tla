-------------------------- MODULE MiningOreProofs ---------------------------
(***************************************************************************)
(* Where the ore of MiningCore is, for any agents, hexes, ore, requests    *)
(* and bounds: nothing mined is lost while the process runs undisturbed;   *)
(* the simulation implements the ledger; a total in Postgres never         *)
(* shrinks; and a quiet shutdown leaves nothing behind in Redis.           *)
(***************************************************************************)
EXTENDS MiningProofs

-----------------------------------------------------------------------------
(* Nothing is lost.                                                        *)

LEMMA TurnLoss ==
  ASSUME TypeOK, LossInv, NEW a \in Agents, AgentTurn(a)
  PROVE  LossInv'
<1>1. /\ UNCHANGED <<pc, cached, cache, lastSnap, req, interrupted>>
      /\ a \in todo /\ todo' = todo \ {a} /\ pc = "agents"
      /\ snap' = [snap EXCEPT ![a] = Nil]
      /\ \A b \in Agents \ {a} : upd'[b] = upd[b]
      /\ \A b \in Agents : db'[b].bag = db[b].bag
  BY TurnFrame
<1>2. snap \in [Agents -> {Nil} \cup CacheRec] /\ dug \in [Agents -> SUBSET Ore]
      /\ todo \subseteq Agents /\ cached \subseteq Agents
  BY DEF TypeOK
<1>3. \A b \in Agents \ {a} : dug'[b] = dug[b] /\ snap'[b] = snap[b]
  BY <1>1, <1>2, TurnBag
<1>4. SUFFICES ASSUME ~interrupted
               PROVE  /\ \A b \in cached : dug'[b] = IF upd'[b].bag # Keep
                                                     THEN upd'[b].bag ELSE cache[b].bag
                      /\ \A b \in Agents \ cached :
                           dug'[b] = {} /\ db'[b].bag = {} /\ snap'[b] = Nil /\ lastSnap[b] = Nil
                      /\ \A b \in Agents : upd'[b].bag # Keep => b \in cached /\ pc = "agents"
                      /\ \A b \in todo \ {a} :
                           b \in cached /\ snap'[b].bag = dug'[b] /\ upd'[b].bag = Keep
  BY <1>1 DEF LossInv
<1>5. a \in cached /\ snap[a].bag = dug[a] /\ cache[a].bag = dug[a]
  BY <1>1, <1>4 DEF LossInv
<1>6. dug'[a] = IF upd'[a].bag # Keep THEN upd'[a].bag ELSE cache[a].bag
  BY <1>2, <1>5, TurnBag
<1> QED BY <1>1, <1>2, <1>3, <1>4, <1>5, <1>6 DEF LossInv

LEMMA TickLoss ==
  ASSUME TypeOK, LossInv, TickStart \/ Batch \/ FlushRead \/ FlushWrite \/ TickError
  PROVE  LossInv'
<1>1. UNCHANGED <<dug, lastSnap, req, cached>>
  BY DEF TickStart, Batch, FlushRead, FlushWrite, TickError, stores, http, process, history
<1>2. cached \subseteq Agents /\ todo \subseteq Agents
  BY DEF TypeOK
<1>3. \A a \in Agents : ReadCache[a] = IF a \in cached THEN cache[a] ELSE Nil
  BY DEF ReadCache
<1>4. CASE TickStart
  <2>1. UNCHANGED <<db, cache, upd, interrupted>> /\ pc = "idle"
    BY <1>4 DEF TickStart, stores, history
  <2>2. CASE cached = {}
    <3>1. UNCHANGED <<pc, snap, todo>>
      BY <1>4, <2>2 DEF TickStart
    <3> QED BY <1>1, <2>1, <3>1 DEF LossInv
  <2>3. CASE cached # {}
    <3>1. pc' = "agents" /\ snap' = ReadCache /\ todo' = cached
      BY <1>4, <2>3 DEF TickStart
    <3> QED BY <1>1, <1>2, <1>3, <2>1, <3>1 DEF LossInv
  <2> QED BY <2>2, <2>3
<1>5. CASE Batch
  <2>1. /\ UNCHANGED <<db, snap, interrupted>> /\ todo' = {} /\ pc' \in {"idle", "flush"}
        /\ \A a \in Agents : upd'[a].bag = Keep
                             /\ cache'[a].bag = IF upd[a].bag = Keep THEN cache[a].bag
                                                ELSE upd[a].bag
    BY <1>5, HsetBag, QuietBag DEF Batch, history
  <2> QED BY <1>1, <1>2, <2>1 DEF LossInv
<1>6. CASE FlushRead
  <2>1. /\ UNCHANGED <<db, cache, upd, todo, interrupted>> /\ pc = "flush"
        /\ pc' = "flushing" /\ snap' = ReadCache
    BY <1>6 DEF FlushRead, stores, history
  <2>2. todo = {}
    BY <2>1 DEF TypeOK
  <2> QED BY <1>1, <1>2, <1>3, <2>1, <2>2 DEF LossInv
<1>7. CASE FlushWrite
  <2>1. /\ UNCHANGED <<cache, upd, todo, interrupted>> /\ pc = "flushing" /\ pc' = "idle"
        /\ \A a \in Agents : snap'[a] = Nil
        /\ \A a \in Agents : db'[a].bag = IF snap[a] = Nil THEN db[a].bag ELSE snap[a].bag
    BY <1>7, FlushBag, QuietBag DEF FlushWrite, history
  <2>2. todo = {}
    BY <2>1 DEF TypeOK
  <2> QED BY <1>1, <1>2, <2>1, <2>2 DEF LossInv
<1>8. CASE TickError
  BY <1>1, <1>8 DEF LossInv, TickError
<1> QED BY <1>4, <1>5, <1>6, <1>7, <1>8

\* One request at a time for an agent: what relocate has read is still current.
LEMMA HttpLoss ==
  ASSUME OneAtATime, TypeOK, LossInv, NEW r \in Reqs, Call(r) \/ Continue(r)
  PROVE  LossInv'
<1>1. UNCHANGED <<pc, snap, todo, upd, dug, lastSnap, interrupted>>
  BY DEF Call, RelocateCheck, RescueCheck, RepairStore, Continue, RelocateStore,
         RelocateCache, RelocateRead, RelocateRegister, RescueStore, RescueCache,
         RepairCache, tick, process, history
<1>2. /\ db \in [Agents -> DbRec] /\ cache \in [Agents -> CacheRec]
      /\ req \in [Reqs -> {Nil} \cup ReqRec] /\ cached \subseteq Agents /\ todo \subseteq Agents
  BY DEF TypeOK
<1>3. req[r] # Nil => req[r].agent \in Agents
  BY <1>2 DEF ReqRec
<1>4. \A s \in Reqs \ {r} : req'[s] = req[s]
  BY <1>2 DEF Call, RelocateCheck, RescueCheck, RepairStore, Continue, RelocateStore,
              RelocateCache, RelocateRead, RelocateRegister, RescueStore, RescueCache,
              RepairCache, Step, Answer
\* A step of r that caches no agent and writes no total.
<1>5. ASSUME cached' = cached, \A b \in Agents : db'[b].bag = db[b].bag,
             \A b \in Agents : cache'[b].bag = cache[b].bag,
             req'[r] # Nil => /\ \A s \in Reqs \ {r} : req[s] # Nil => req'[r].agent # req[s].agent
                              /\ req'[r].step # "read"
      PROVE  LossInv'
  BY <1>1, <1>2, <1>4, <1>5 DEF LossInv
<1>6. ASSUME NEW a \in Agents, NEW h \in Hexes,
             RelocateCheck(r, a, h) \/ RescueCheck(r, a) \/ RepairStore(r, a)
      PROVE  LossInv'
  <2>1. UNCHANGED <<cached, cache>> /\ (UNCHANGED db \/ db' = [db EXCEPT ![a].wear = 0])
    BY <1>6 DEF RelocateCheck, RescueCheck, RepairStore, stores
  <2>2. MayCall(r, a) /\ req'[r].agent = a /\ req'[r].step # "read"
    BY <1>2, <1>6 DEF RelocateCheck, RescueCheck, RepairStore
  <2>3. \A b \in Agents : db'[b].bag = db[b].bag
    BY <1>2, <2>1 DEF DbRec
  <2> QED BY <1>5, <2>1, <2>2, <2>3 DEF MayCall
<1>7. CASE RelocateStore(r) \/ RescueStore(r)
  <2> DEFINE a == req[r].agent
  <2>1. a \in Agents /\ req[r] # Nil /\ UNCHANGED <<cached, cache>>
    BY <1>3, <1>7 DEF RelocateStore, RescueStore, At
  <2>2. \/ db' = [db EXCEPT ![a].hex = req[r].hex, ![a].status = "MINING"]
        \/ db' = [db EXCEPT ![a].status = "MINING", ![a].dig = FALSE]
    BY <1>7 DEF RelocateStore, RescueStore
  <2>3. req'[r].agent = a /\ req'[r].step = "stored"
    BY <1>2, <1>7, <2>1 DEF RelocateStore, RescueStore, Step, ReqRec
  <2>4. \A s \in Reqs \ {r} : req[s] # Nil => a # req[s].agent
    BY <2>1 DEF LossInv
  <2> HIDE DEF a
  <2>5. \A b \in Agents : db'[b].bag = db[b].bag
    BY <1>2, <2>1, <2>2 DEF DbRec
  <2> QED BY <1>5, <2>1, <2>3, <2>4, <2>5
<1>8. CASE RelocateCache(r) \/ RescueCache(r) \/ RepairCache(r)
  <2> DEFINE a == req[r].agent
  <2>1. a \in Agents /\ UNCHANGED <<db, cached>> /\ req'[r] = Nil
    BY <1>2, <1>3, <1>8 DEF RelocateCache, RescueCache, RepairCache, At, Answer
  <2>2. \/ UNCHANGED cache
        \/ cache' = [cache EXCEPT ![a].hex = req[r].hex, ![a].status = "MINING",
                                  ![a].trip = Nil]
        \/ cache' = [cache EXCEPT ![a].status = "MINING", ![a].dig = FALSE]
        \/ cache' = [cache EXCEPT ![a].wear = 0]
    BY <1>8 DEF RelocateCache, RescueCache, RepairCache
  <2> HIDE DEF a
  <2>3. \A b \in Agents : cache'[b].bag = cache[b].bag
    BY <1>2, <2>1, <2>2 DEF CacheRec
  <2> QED BY <1>5, <2>1, <2>3
<1>9. CASE RelocateRead(r)
  <2>1. req[r] # Nil /\ req[r].agent \notin cached /\ UNCHANGED <<db, cache, cached>>
    BY <1>9 DEF RelocateRead, At, stores
  <2>2. req' = [req EXCEPT ![r].step = "read", ![r].bag = db[req[r].agent].bag]
    BY <1>9 DEF RelocateRead
  <2>3. req'[r].agent = req[r].agent /\ req'[r].bag = db[req[r].agent].bag
    BY <1>2, <2>1, <2>2 DEF ReqRec
  <2>4. \A s, t \in Reqs : s # t /\ req'[s] # Nil /\ req'[t] # Nil
                             => req'[s].agent # req'[t].agent
    <3>1. \A s, t \in Reqs : s # t /\ req[s] # Nil /\ req[t] # Nil
                               => req[s].agent # req[t].agent
      BY DEF LossInv
    <3>2. \A s \in Reqs : req'[s] # Nil => req[s] # Nil /\ req'[s].agent = req[s].agent
      BY <1>4, <2>1, <2>3
    <3> QED BY <3>1, <3>2
  <2>5. ~interrupted => req'[r].bag = {}
    BY <1>3, <2>1, <2>3 DEF LossInv
  <2>6. \A s \in Reqs \ {r} : req'[s] = req[s]
    BY <1>4
  <2>7. ~interrupted => \A s \in Reqs : req'[s] # Nil /\ req'[s].step = "read" =>
                          req'[s].agent \notin cached /\ req'[s].bag = {}
    BY <2>1, <2>3, <2>5, <2>6 DEF LossInv
  <2>8. UNCHANGED <<pc, snap, todo, upd, dug, lastSnap, interrupted, db, cache, cached>>
    BY <1>1, <2>1
  <2> QED BY <2>4, <2>7, <2>8 DEF LossInv
<1>10. CASE RelocateRegister(r)
  <2> DEFINE a == req[r].agent
  <2>1. /\ a \in Agents /\ req[r] # Nil /\ req[r].step = "read"
        /\ UNCHANGED db /\ cached' = cached \cup {a} /\ req'[r] = Nil
    BY <1>2, <1>3, <1>10 DEF RelocateRegister, At, Answer
  <2>2. cache' = [cache EXCEPT ![a].hex = req[r].hex, ![a].status = "MINING",
                               ![a].bag = req[r].bag, ![a].wear = 0]
    BY <1>10 DEF RelocateRegister
  <2>3. \A s \in Reqs \ {r} : req[s] # Nil => a # req[s].agent
    BY <2>1 DEF LossInv
  <2>4. ~interrupted => a \notin cached /\ req[r].bag = {} /\ dug[a] = {} /\ upd[a].bag = Keep
    BY <2>1 DEF LossInv
  <2> HIDE DEF a
  <2>5. \A b \in Agents : cache'[b].bag = IF b = a THEN req[r].bag ELSE cache[b].bag
    BY <1>2, <2>1, <2>2 DEF CacheRec
  <2>6. ~interrupted => \A s \in Reqs : req'[s] # Nil /\ req'[s].step = "read" =>
                          req'[s].agent \notin cached' /\ req'[s].bag = {}
    BY <1>4, <2>1, <2>3 DEF LossInv
  <2>7. ~interrupted => \A b \in cached' :
                          dug[b] = IF upd[b].bag # Keep THEN upd[b].bag ELSE cache'[b].bag
    <3>1. ASSUME ~interrupted, NEW b \in cached'
          PROVE  dug[b] = IF upd[b].bag # Keep THEN upd[b].bag ELSE cache'[b].bag
      <4>1. CASE b = a
        BY <2>1, <2>4, <2>5, <3>1, <4>1
      <4>2. CASE b # a
        BY <1>2, <2>1, <2>5, <3>1, <4>2 DEF LossInv
      <4> QED BY <4>1, <4>2
    <3> QED BY <3>1
  <2>8. \A s, t \in Reqs : s # t /\ req'[s] # Nil /\ req'[t] # Nil
                             => req'[s].agent # req'[t].agent
    BY <1>4, <2>1 DEF LossInv
  <2> QED BY <1>1, <2>1, <2>6, <2>7, <2>8 DEF LossInv
<1> QED BY <1>6, <1>7, <1>8, <1>9, <1>10, ConstantsAssumption DEF Call, Continue

LEMMA ProcessLoss ==
  ASSUME TypeOK, LossInv, ProcessStep
  PROVE  LossInv'
<1>1. CASE TickError
  BY <1>1, TickLoss
<1>2. CASE Crash \/ Exit
  BY <1>2 DEF Crash, Exit, Die, LossInv
<1>3. CASE ShutdownRead
  <2>1. /\ UNCHANGED <<db, cached, cache, pc, snap, todo, upd, req, dug, interrupted>>
        /\ \A a \in Agents \ cached : lastSnap'[a] = Nil
    BY <1>3 DEF ShutdownRead, ReadCache, stores, http, history
  <2> QED BY <2>1 DEF LossInv
<1>4. CASE ShutdownWrite
  <2>1. /\ UNCHANGED <<cached, cache, pc, snap, todo, upd, req, dug, interrupted>>
        /\ \A a \in Agents : lastSnap'[a] = Nil
        /\ \A a \in Agents : db'[a].bag = IF lastSnap[a] = Nil THEN db[a].bag
                                          ELSE lastSnap[a].bag
    BY <1>4, FlushBag, QuietBag DEF ShutdownWrite, tick, http, history
  <2> QED BY <2>1 DEF LossInv
<1>5. CASE Restart \/ LoadRead \/ LoadWrite
  <2>1. interrupted /\ interrupted' /\ UNCHANGED req
    BY <1>5 DEF Restart, LoadRead, LoadWrite, LossInv, http, history
  <2> QED BY <2>1 DEF LossInv
<1> QED BY <1>1, <1>2, <1>3, <1>4, <1>5 DEF ProcessStep

LEMMA InitLoss == Init => LossInv
  BY ConstantsAssumption DEF Init, LossInv, Blank, Quiet, NoUpdate, NoSnap

\* As long as the process is not interrupted and clients wait for an answer
\* before they call again for the same agent, every unit taken out of the
\* ground is credited to the agent that took it, whatever ticks, flushes,
\* relocations, rescues and repairs overlap.
THEOREM NothingIsLost == OneAtATime => (Spec => []NothingLost)
<1> SUFFICES ASSUME OneAtATime PROVE Spec => []NothingLost
  OBVIOUS
<1> DEFINE Inv == TypeOK /\ LossInv
<1>1. Init => Inv
  BY InitType, InitLoss
<1>2. Inv /\ [Next]_vars => Inv'
  <2> SUFFICES ASSUME Inv, [Next]_vars PROVE Inv'
    OBVIOUS
  <2>1. TypeOK'
    BY StepType
  <2>2. CASE TickStep
    BY <2>1, <2>2, TurnLoss, TickLoss DEF TickStep
  <2>3. CASE \E r \in Reqs : Call(r) \/ Continue(r)
    BY <2>1, <2>3, HttpLoss
  <2>4. CASE \E a \in Agents : CooldownOver(a)
    BY <2>1, <2>4 DEF CooldownOver, stores, tick, process, history, LossInv
  <2>5. CASE ProcessStep
    BY <2>1, <2>5, ProcessLoss
  <2>6. CASE UNCHANGED vars
    BY <2>1, <2>6 DEF vars, stores, tick, http, process, history, LossInv
  <2> QED BY <2>2, <2>3, <2>4, <2>5, <2>6 DEF Next
<1>3. Inv => NothingLost
  BY DEF LossInv, NothingLost, Credit, TypeOK
<1> QED BY <1>1, <1>2, <1>3, PTL DEF Spec

-----------------------------------------------------------------------------
(* The simulation implements the ledger.                                   *)

LEMMA StutterLedger ==
  ASSUME UNCHANGED <<hexOre, dug, interrupted>>,
         cached' = Agents, cached = Agents,
         \A a \in Agents : (IF upd'[a].bag # Keep THEN upd'[a].bag ELSE cache'[a].bag)
                             = (IF upd[a].bag # Keep THEN upd[a].bag ELSE cache[a].bag)
  PROVE  UNCHANGED Ledger!vars
<1>1. Credit' = Credit
  BY DEF Credit
<1> QED BY <1>1 DEF Ledger!vars

LEMMA InterruptLedger ==
  ASSUME NeverCreditedTwice', UNCHANGED <<hexOre, dug>>, interrupted' = TRUE
  PROVE  Ledger!Next
<1>1. \A a \in Agents : Credit'[a] \subseteq dug'[a]
  BY DEF Credit, NeverCreditedTwice, CopiesWithin
<1> QED BY <1>1 DEF Ledger!Next, Ledger!Interrupt

LEMMA TurnLedger ==
  ASSUME TypeOK, VeinsApart, CacheInv, NEW a \in Agents, AgentTurn(a)
  PROVE  [Ledger!Next]_(Ledger!vars) /\ CacheInv'
<1> DEFINE ground == UNION {hexOre[h] : h \in Hexes}
<1>1. /\ UNCHANGED <<pc, cached, cache, lastSnap, req, interrupted>>
      /\ a \in todo /\ todo' = todo \ {a} /\ pc = "agents"
      /\ snap' = [snap EXCEPT ![a] = Nil]
      /\ \A b \in Agents \ {a} : upd'[b] = upd[b]
  BY TurnFrame
<1>2. /\ snap \in [Agents -> {Nil} \cup CacheRec] /\ dug \in [Agents -> SUBSET Ore]
      /\ hexOre \in [Hexes -> SUBSET Ore] /\ todo \subseteq Agents
  BY DEF TypeOK
<1>3. cached = Agents /\ snap[a].bag = cache[a].bag /\ upd[a].bag = Keep
  BY <1>1 DEF CacheInv
<1>4. CacheInv'
  BY <1>1, <1>2 DEF CacheInv
<1>5. CASE UNCHANGED <<hexOre, dug>> /\ upd'[a].bag = Keep
  BY <1>1, <1>3, <1>4, <1>5, StutterLedger
<1>6. ASSUME NEW took \in SUBSET hexOre[snap[a].hex], snap[a].hex \in Hexes,
             hexOre' = [hexOre EXCEPT ![snap[a].hex] = @ \ took],
             dug' = [dug EXCEPT ![a] = @ \cup took],
             upd'[a].bag = snap[a].bag \cup took, upd'[a].bag # Keep
      PROVE  Ledger!Next
  <2>1. took \subseteq ground
    BY <1>6
  <2>2. ground' = ground \ took
    <3>1. \A h \in Hexes : hexOre'[h] = hexOre[h] \ took
      <4> TAKE h \in Hexes
      <4>1. CASE h = snap[a].hex
        BY <1>2, <1>6, <4>1
      <4>2. CASE h # snap[a].hex
        <5>1. hexOre[h] \cap took = {}
          BY <1>6, <4>2 DEF VeinsApart
        <5> QED BY <1>2, <1>6, <4>2, <5>1
      <4> QED BY <4>1, <4>2
    <3> QED BY <3>1
  <2>3. Credit' = [Credit EXCEPT ![a] = @ \cup took]
    <3>1. \A b \in Agents \ {a} : Credit'[b] = Credit[b]
      BY <1>1, <1>3 DEF Credit
    <3>2. Credit'[a] = Credit[a] \cup took
      BY <1>1, <1>3, <1>6 DEF Credit
    <3>3. Credit' = [b \in Agents |-> Credit'[b]] /\ Credit = [b \in Agents |-> Credit[b]]
      BY DEF Credit
    <3> QED BY <3>1, <3>2, <3>3
  <2>4. interrupted' = interrupted
    BY <1>1
  <2> QED BY <1>6, <2>1, <2>2, <2>3, <2>4 DEF Ledger!Next, Ledger!Dig
<1> QED BY <1>4, <1>5, <1>6, TurnBag

LEMMA TickLedger ==
  ASSUME TypeOK, NeverCreditedTwice', CacheInv,
         TickStart \/ Batch \/ FlushRead \/ FlushWrite \/ TickError
  PROVE  [Ledger!Next]_(Ledger!vars) /\ CacheInv'
<1>1. UNCHANGED <<hexOre, dug, cached, req>> /\ pc' \notin {"down", "starting", "loading"}
  BY DEF TickStart, Batch, FlushRead, FlushWrite, TickError, stores, http, history
<1>2. cached = Agents
  BY DEF CacheInv
<1>3. ASSUME UNCHANGED <<cache, upd, interrupted>>,
             \A a \in Agents : upd'[a].bag # Keep => pc' = "agents",
             \A a \in todo' : snap'[a].bag = cache[a].bag /\ upd[a].bag = Keep
      PROVE  [Ledger!Next]_(Ledger!vars) /\ CacheInv'
  BY <1>1, <1>2, <1>3, StutterLedger DEF CacheInv
<1>4. CASE TickStart
  <2>1. UNCHANGED <<cache, upd, interrupted>> /\ pc = "idle"
    BY <1>4 DEF TickStart, stores, history
  <2>2. CASE cached = {}
    <3>1. UNCHANGED <<pc, snap, todo>>
      BY <1>4, <2>2 DEF TickStart
    <3> QED BY <1>3, <2>1, <3>1 DEF CacheInv
  <2>3. CASE cached # {}
    <3>1. snap' = ReadCache
      BY <1>4, <2>3 DEF TickStart
    <3>2. \A a \in Agents : snap'[a] = cache[a]
      BY <1>2, <3>1 DEF ReadCache
    <3>3. todo' \subseteq Agents
      BY <1>2, <1>4, <2>3 DEF TickStart
    <3> QED BY <1>3, <2>1, <3>2, <3>3 DEF CacheInv
  <2> QED BY <2>2, <2>3
<1>5. CASE Batch
  <2>1. /\ UNCHANGED interrupted /\ todo' = {}
        /\ \A a \in Agents : upd'[a].bag = Keep
                             /\ cache'[a].bag = IF upd[a].bag = Keep THEN cache[a].bag
                                                ELSE upd[a].bag
    BY <1>5, HsetBag, QuietBag DEF Batch, history
  <2>2. UNCHANGED Ledger!vars
    BY <1>1, <1>2, <2>1, StutterLedger
  <2> QED BY <1>1, <1>2, <2>1, <2>2 DEF CacheInv
<1>6. CASE FlushRead \/ FlushWrite
  <2>1. UNCHANGED <<cache, upd, todo, interrupted>> /\ pc # "agents"
    BY <1>6 DEF FlushRead, FlushWrite, stores, history
  <2>2. todo = {}
    BY <2>1 DEF TypeOK
  <2> QED BY <1>3, <2>1, <2>2 DEF CacheInv
<1>7. CASE TickError
  <2>1. interrupted' = TRUE /\ todo' = {} /\ \A a \in Agents : upd'[a].bag = Keep
    BY <1>7, QuietBag DEF TickError
  <2> QED BY <1>1, <1>2, <2>1, InterruptLedger DEF CacheInv
<1> QED BY <1>4, <1>5, <1>6, <1>7

\* With every agent cached no handler writes a total.
LEMMA HttpLedger ==
  ASSUME TypeOK, CacheInv, NEW r \in Reqs, Call(r) \/ Continue(r)
  PROVE  [Ledger!Next]_(Ledger!vars) /\ CacheInv'
<1>1. UNCHANGED <<hexOre, pc, snap, todo, upd, dug, interrupted>>
  BY DEF Call, RelocateCheck, RescueCheck, RepairStore, Continue, RelocateStore,
         RelocateCache, RelocateRead, RelocateRegister, RescueStore, RescueCache,
         RepairCache, stores, tick, process, history
<1>2. /\ cache \in [Agents -> CacheRec] /\ req \in [Reqs -> {Nil} \cup ReqRec]
      /\ todo \subseteq Agents /\ cached = Agents
  BY DEF TypeOK, CacheInv
<1>3. req[r] # Nil => req[r].agent \in Agents
  BY <1>2 DEF ReqRec
<1>4. ~RelocateRead(r) /\ ~RelocateRegister(r)
  BY <1>2, <1>3 DEF RelocateRead, RelocateRegister, At, CacheInv
<1>5. UNCHANGED cached
  BY <1>4 DEF Call, RelocateCheck, RescueCheck, RepairStore, Continue, RelocateStore,
         RelocateCache, RescueStore, RescueCache, RepairCache, stores
<1>6. \A s \in Reqs : req'[s] # Nil => req'[s].step # "read"
  <2>1. \A s \in Reqs \ {r} : req'[s] = req[s]
    BY <1>2, <1>4 DEF Call, RelocateCheck, RescueCheck, RepairStore, Continue, RelocateStore,
         RelocateCache, RescueStore, RescueCache, RepairCache, Step, Answer
  <2>2. CASE Call(r)
    <3>1. req'[r].step # "read"
      <4>1. PICK a \in Agents, h \in Hexes :
              RelocateCheck(r, a, h) \/ RescueCheck(r, a) \/ RepairStore(r, a)
        BY <2>2, ConstantsAssumption DEF Call
      <4>2. CASE RelocateCheck(r, a, h)
        BY <1>2, <4>2 DEF RelocateCheck
      <4>3. CASE RescueCheck(r, a)
        BY <1>2, <4>3 DEF RescueCheck
      <4>4. CASE RepairStore(r, a)
        BY <1>2, <4>4 DEF RepairStore
      <4> QED BY <4>1, <4>2, <4>3, <4>4
    <3> QED BY <2>1, <3>1 DEF CacheInv
  <2>3. CASE RelocateStore(r) \/ RescueStore(r)
    <3>1. req[r] # Nil /\ req' = [req EXCEPT ![r].step = "stored"]
      BY <2>3 DEF RelocateStore, RescueStore, At, Step
    <3>2. req'[r].step = "stored"
      BY <1>2, <3>1 DEF ReqRec
    <3> QED BY <2>1, <3>2 DEF CacheInv
  <2>4. CASE RelocateCache(r) \/ RescueCache(r) \/ RepairCache(r)
    <3>1. req'[r] = Nil
      BY <1>2, <2>4 DEF RelocateCache, RescueCache, RepairCache, Answer
    <3> QED BY <2>1, <3>1 DEF CacheInv
  <2> QED BY <1>4, <2>2, <2>3, <2>4 DEF Continue
<1>7. \A b \in Agents : cache'[b].bag = cache[b].bag
  <2> DEFINE a == req[r].agent
             h == req[r].hex
  <2>1. \/ UNCHANGED cache
        \/ /\ a \in Agents
           /\ \/ cache' = [cache EXCEPT ![a].hex = h, ![a].status = "MINING", ![a].trip = Nil]
              \/ cache' = [cache EXCEPT ![a].status = "MINING", ![a].dig = FALSE]
              \/ cache' = [cache EXCEPT ![a].wear = 0]
    BY <1>3, <1>4 DEF Call, RelocateCheck, RescueCheck, RepairStore, Continue, RelocateStore,
         RelocateCache, RescueStore, RescueCache, RepairCache, At, stores
  <2> HIDE DEF a, h
  <2> QED BY <1>2, <2>1 DEF CacheRec
<1>8. UNCHANGED Ledger!vars
  BY <1>1, <1>2, <1>5, <1>7, StutterLedger
<1> QED BY <1>1, <1>2, <1>5, <1>6, <1>7, <1>8 DEF CacheInv

LEMMA ProcessLedger ==
  ASSUME "redis" \notin Faults, TypeOK, NeverCreditedTwice', CacheInv, ProcessStep
  PROVE  [Ledger!Next]_(Ledger!vars) /\ CacheInv'
<1>1. cached = Agents
  BY DEF CacheInv
<1>2. CASE TickError
  BY <1>2, TickLedger
<1>3. CASE Crash \/ Exit
  <2>1. /\ UNCHANGED <<hexOre, dug, cached, cache>> /\ interrupted' = TRUE /\ todo' = {}
        /\ \A a \in Agents : upd'[a].bag = Keep
        /\ \A r \in Reqs : req'[r] = Nil
    BY <1>3, QuietBag DEF Crash, Exit, Die
  <2> QED BY <1>1, <2>1, InterruptLedger DEF CacheInv
<1>4. CASE ShutdownRead \/ ShutdownWrite
  <2>1. UNCHANGED <<hexOre, cached, cache, pc, snap, todo, upd, req, dug, interrupted>>
    BY <1>4 DEF ShutdownRead, ShutdownWrite, stores, tick, http, history
  <2> QED BY <1>1, <2>1, StutterLedger DEF CacheInv
<1>5. CASE Restart \/ LoadRead
  <2>1. /\ UNCHANGED <<hexOre, cached, cache, todo, upd, req, dug, interrupted>>
        /\ pc \in {"down", "starting"}
    BY <1>5 DEF Restart, LoadRead, stores, http, history
  <2>2. todo = {} /\ interrupted /\ \A a \in Agents : upd[a].bag = Keep
    BY <2>1 DEF TypeOK, CacheInv
  <2> QED BY <1>1, <2>1, <2>2, StutterLedger DEF CacheInv
<1>6. CASE LoadWrite
  <2>1. /\ UNCHANGED <<hexOre, todo, upd, req, dug, interrupted>> /\ cached' = Agents
        /\ pc = "loading"
    BY <1>1, <1>6 DEF LoadWrite, http, history
  <2>2. todo = {} /\ interrupted = TRUE /\ \A a \in Agents : upd[a].bag = Keep
    BY <2>1 DEF TypeOK, CacheInv
  <2> QED BY <2>1, <2>2, InterruptLedger DEF CacheInv
<1> QED BY <1>2, <1>3, <1>4, <1>5, <1>6 DEF ProcessStep

LEMMA InitLedger == Uncached = {} /\ Init => Ledger!Init /\ CacheInv
<1> SUFFICES ASSUME Uncached = {}, Init PROVE Ledger!Init /\ CacheInv
  OBVIOUS
<1>1. UNION {hexOre[h] : h \in Hexes} \subseteq Ore
  BY ConstantsAssumption DEF Init
<1>2. \A a \in Agents : upd[a].bag = Keep /\ cache[a].bag = {}
  BY QuietBag DEF Init, Blank
<1>3. cached = Agents /\ todo = {} /\ pc = "idle" /\ \A r \in Reqs : req[r] = Nil
  BY DEF Init
<1>4. Credit = [a \in Agents |-> {}]
  BY <1>2, <1>3 DEF Credit
<1>5. CacheInv
  BY <1>2, <1>3 DEF CacheInv
<1> QED BY <1>1, <1>4, <1>5 DEF Init, Ledger!Init

\* The simulation implements the ledger: every step of the tick, the handlers
\* and the process moves ore from the ground to one agent's credit, changes no
\* credit, or interrupts the process.
THEOREM ImplementsLedger ==
  ASSUME Uncached = {}, "redis" \notin Faults
  PROVE  Spec => LedgerSpec
<1> DEFINE Inv == TypeOK /\ NeverCreditedTwice /\ VeinsApart /\ CacheInv
<1>1. Init => Inv /\ Ledger!Init
  BY InitType, InitCredit, InitLedger
<1>2. Inv /\ [Next]_vars => Inv' /\ [Ledger!Next]_(Ledger!vars)
  <2> SUFFICES ASSUME Inv, [Next]_vars PROVE Inv' /\ [Ledger!Next]_(Ledger!vars)
    OBVIOUS
  <2>1. TypeOK' /\ NeverCreditedTwice' /\ VeinsApart'
    BY StepType, StepCredit
  <2>2. CASE TickStep
    BY <2>1, <2>2, TurnLedger, TickLedger DEF TickStep
  <2>3. CASE \E r \in Reqs : Call(r) \/ Continue(r)
    BY <2>1, <2>3, HttpLedger
  <2>4. CASE (\E a \in Agents : CooldownOver(a)) \/ UNCHANGED vars
    <3>1. UNCHANGED <<hexOre, cached, cache, pc, snap, todo, upd, req, dug, interrupted>>
      BY <2>4 DEF CooldownOver, vars, stores, tick, http, process, history
    <3>2. CacheInv' /\ UNCHANGED Ledger!vars
      BY <3>1, StutterLedger DEF CacheInv
    <3> QED BY <2>1, <3>2
  <2>5. CASE ProcessStep
    BY <2>1, <2>5, ProcessLedger
  <2> QED BY <2>2, <2>3, <2>4, <2>5 DEF Next
<1> QED BY <1>1, <1>2, PTL DEF Spec, LedgerSpec, Ledger!Spec

-----------------------------------------------------------------------------
(* What Postgres has recorded never shrinks.                               *)

DbGrows == \A a \in Agents : db[a].bag \subseteq db'[a].bag

LEMMA TurnGrows ==
  ASSUME TypeOK, CacheInv, MonotoneInv, NEW a \in Agents, AgentTurn(a)
  PROVE  MonotoneInv' /\ DbGrows
<1>1. /\ UNCHANGED <<pc, cache>> /\ a \in todo /\ pc = "agents"
      /\ \A b \in Agents \ {a} : upd'[b] = upd[b]
      /\ \A b \in Agents : db'[b].bag = db[b].bag
  BY TurnFrame
<1>2. closing' = closing
  BY DEF AgentTurn, Mine, NoYield, CaveIn, SelfDig, Arrive, Pass, process
<1>3. upd'[a].bag # Keep => cache[a].bag \subseteq upd'[a].bag
  BY <1>1, TurnBag DEF CacheInv
<1> QED BY <1>1, <1>2, <1>3 DEF MonotoneInv, DbGrows

LEMMA TickGrows ==
  ASSUME TypeOK, CacheInv, MonotoneInv, TickStart \/ Batch \/ FlushRead \/ FlushWrite \/ TickError
  PROVE  MonotoneInv' /\ DbGrows
<1>1. closing' = closing /\ pc \notin {"down", "starting", "loading"}
  BY DEF TickStart, Batch, FlushRead, FlushWrite, TickError, process
<1>2. CASE TickStart
  <2>1. UNCHANGED <<db, cache, upd>> /\ (pc' = pc \/ pc' = "agents")
    BY <1>2 DEF TickStart, stores
  <2> QED BY <1>1, <1>2, <2>1 DEF MonotoneInv, DbGrows, TickStart
<1>3. CASE Batch
  <2>1. /\ db' = db /\ pc' \in {"idle", "flush"}
        /\ \A a \in Agents : upd'[a].bag = Keep
                             /\ cache'[a].bag = IF upd[a].bag = Keep THEN cache[a].bag
                                                ELSE upd[a].bag
    BY <1>3, HsetBag, QuietBag DEF Batch
  <2> QED BY <1>1, <2>1 DEF MonotoneInv, DbGrows
<1>4. CASE FlushRead
  <2>1. UNCHANGED <<db, cache, upd>> /\ pc' = "flushing" /\ snap' = ReadCache
    BY <1>4 DEF FlushRead, stores
  <2>2. \A a \in Agents : snap'[a] # Nil => snap'[a] = cache[a]
    BY <2>1 DEF ReadCache
  <2> QED BY <1>1, <2>1, <2>2 DEF MonotoneInv, DbGrows
<1>5. CASE FlushWrite
  <2>1. /\ UNCHANGED <<cache, upd>> /\ pc' = "idle" /\ pc = "flushing"
        /\ \A a \in Agents : snap'[a] = Nil
                             /\ db'[a].bag = IF snap[a] = Nil THEN db[a].bag ELSE snap[a].bag
    BY <1>5, FlushBag, QuietBag DEF FlushWrite
  <2> QED BY <1>1, <2>1 DEF MonotoneInv, DbGrows
<1>6. CASE TickError
  <2>1. /\ UNCHANGED <<db, cache>> /\ pc' = "idle" /\ \A a \in Agents : upd'[a].bag = Keep
    BY <1>6, QuietBag DEF TickError, stores
  <2> QED BY <1>1, <2>1 DEF MonotoneInv, DbGrows
<1> QED BY <1>2, <1>3, <1>4, <1>5, <1>6

LEMMA HttpGrows ==
  ASSUME TypeOK, CacheInv, MonotoneInv, NEW r \in Reqs, Call(r) \/ Continue(r)
  PROVE  MonotoneInv' /\ DbGrows
<1>1. UNCHANGED <<pc, snap, upd, closing>> /\ \A b \in Agents : db'[b].bag = db[b].bag
  BY HttpFrame DEF tick, process
<1>2. \A b \in Agents : cache'[b].bag = cache[b].bag
  BY HttpFrame DEF CacheInv, HasRead
<1> QED BY <1>1, <1>2 DEF MonotoneInv, DbGrows

LEMMA ProcessGrows ==
  ASSUME "exit" \notin Faults, "redis" \notin Faults, TypeOK, CacheInv, MonotoneInv, ProcessStep
  PROVE  MonotoneInv' /\ DbGrows
<1>1. CASE TickError
  BY <1>1, TickGrows
<1>2. CASE Crash \/ Exit
  <2>1. /\ UNCHANGED <<db, cache>> /\ pc' = "down" /\ closing' = "no"
        /\ \A a \in Agents : upd'[a].bag = Keep
    BY <1>2, QuietBag DEF Crash, Exit, Die
  <2> QED BY <2>1 DEF MonotoneInv, DbGrows
<1>3. ~ShutdownRead /\ ~ShutdownWrite
  BY DEF ShutdownRead, ShutdownWrite, MonotoneInv
<1>4. CASE Restart
  <2>1. UNCHANGED <<db, cache, upd, closing>> /\ pc' = "starting"
    BY <1>4 DEF Restart, stores
  <2> QED BY <2>1 DEF MonotoneInv, DbGrows
<1>5. CASE LoadRead
  <2>1. UNCHANGED <<db, cache, upd, closing>> /\ pc' = "loading"
    BY <1>5 DEF LoadRead, stores, process
  <2>2. \A a \in Agents : snap'[a] # Nil => snap'[a].bag = db[a].bag
    BY <1>5 DEF LoadRead
  <2> QED BY <2>1, <2>2 DEF MonotoneInv, DbGrows
<1>6. CASE LoadWrite
  <2>1. /\ UNCHANGED <<db, upd, closing>> /\ pc' = "idle" /\ pc = "loading"
        /\ \A a \in Agents : cache'[a].bag = IF snap[a] = Nil THEN cache[a].bag ELSE snap[a].bag
    BY <1>6, LoadRowBag DEF LoadWrite, process
  <2>2. \A a \in Agents : upd[a].bag = Keep
    BY <2>1 DEF CacheInv
  <2> QED BY <2>1, <2>2 DEF MonotoneInv, DbGrows
<1> QED BY <1>1, <1>2, <1>3, <1>4, <1>5, <1>6 DEF ProcessStep

\* With every agent cached, Redis kept and no graceful shutdown, a total in
\* Postgres never shrinks: neither a flush that a crash or a handler overtakes,
\* nor a load, nor a dropped tick writes back an older one.
THEOREM TotalsNeverShrink ==
  ASSUME Uncached = {}, "redis" \notin Faults, "exit" \notin Faults
  PROVE  Spec => DbNeverShrinks
<1> DEFINE Inv == TypeOK /\ NeverCreditedTwice /\ VeinsApart /\ CacheInv /\ MonotoneInv
<1>1. ASSUME Init PROVE Inv
  <2>1. \A a \in Agents : db[a].bag = {} /\ upd[a].bag = Keep /\ snap[a] = Nil
    BY <1>1, QuietBag DEF Init
  <2>2. MonotoneInv
    BY <1>1, <2>1 DEF MonotoneInv, Init
  <2> QED BY <1>1, <2>2, InitType, InitCredit, InitLedger
<1>2. ASSUME Inv, [Next]_vars PROVE Inv' /\ DbGrows
  <2>1. TypeOK' /\ NeverCreditedTwice' /\ VeinsApart'
    BY <1>2, StepType, StepCredit
  <2>2. CASE TickStep
    BY <1>2, <2>1, <2>2, TurnLedger, TickLedger, TurnGrows, TickGrows DEF TickStep
  <2>3. CASE \E r \in Reqs : Call(r) \/ Continue(r)
    BY <1>2, <2>1, <2>3, HttpLedger, HttpGrows
  <2>4. CASE (\E a \in Agents : CooldownOver(a)) \/ UNCHANGED vars
    <3>1. UNCHANGED <<db, cached, cache, pc, snap, todo, upd, req, interrupted, closing>>
      BY <2>4 DEF CooldownOver, vars, stores, tick, http, process, history
    <3>2. CacheInv' /\ MonotoneInv' /\ DbGrows
      BY <1>2, <3>1 DEF CacheInv, MonotoneInv, DbGrows
    <3> QED BY <2>1, <3>2
  <2>5. CASE ProcessStep
    BY <1>2, <2>1, <2>5, ProcessLedger, ProcessGrows
  <2> QED BY <1>2, <2>2, <2>3, <2>4, <2>5 DEF Next
<1>3. Init => Inv
  BY <1>1
<1>4. Inv /\ [Next]_vars => Inv' /\ [DbGrows]_vars
  BY <1>2
<1>5. Spec => [][DbGrows]_vars
  BY <1>3, <1>4, PTL DEF Spec
<1> QED BY <1>5 DEF DbNeverShrinks, DbGrows

-----------------------------------------------------------------------------
(* A quiet shutdown leaves nothing behind in Redis.                        *)

LEMMA TurnDurable ==
  ASSUME TypeOK, DurableInv, NEW a \in Agents, AgentTurn(a)
  PROVE  DurableInv'
<1>1. /\ UNCHANGED <<pc, cached, cache, lastSnap, req>> /\ a \in todo /\ pc = "agents"
      /\ snap' = [snap EXCEPT ![a] = Nil]
      /\ \A b \in Agents \ {a} : upd'[b] = upd[b]
      /\ \A b \in Agents : db'[b].bag = db[b].bag
  BY TurnFrame
<1>2. /\ snap \in [Agents -> {Nil} \cup CacheRec] /\ req \in [Reqs -> {Nil} \cup ReqRec]
      /\ snap[a] # Nil
  BY <1>1 DEF TypeOK
<1>3. snap'[a] = Nil /\ \A b \in Agents \ {a} : snap'[b] = snap[b]
  BY <1>1, <1>2
<1>4. a \in cached
  BY <1>1, <1>2 DEF DurableInv
<1>5. upd'[a].bag # Keep => snap[a].bag \subseteq upd'[a].bag
  BY TurnBag
<1>6. ASSUME NEW r \in Reqs, HasRead(r)
      PROVE  CopiesHold(req[r].agent, req[r].bag)'
  <2>1. CopiesHold(req[r].agent, req[r].bag)
    BY <1>6 DEF DurableInv
  <2>2. req[r].agent \in Agents
    BY <1>2, <1>6 DEF HasRead, ReqRec
  <2> QED BY <1>1, <1>2, <1>3, <1>5, <2>1, <2>2 DEF CopiesHold
<1>7. \A b \in Agents \ cached : /\ snap'[b] = Nil /\ lastSnap[b] = Nil /\ upd'[b].bag = Keep
                                 /\ \A r \in Reqs : HasRead(r) /\ req[r].agent = b
                                                      => req[r].bag = db[b].bag
  BY <1>1, <1>3, <1>4 DEF DurableInv
<1>8. \A r, s \in Reqs : HasRead(r) /\ HasRead(s) /\ req[r].agent = req[s].agent
                           => req[r].bag = req[s].bag
  BY DEF DurableInv
<1> QED BY <1>1, <1>6, <1>7, <1>8 DEF DurableInv, HasRead

\* A step that lets no request read and no agent be cached: what DurableInv asks
\* of the stores afterwards.
LEMMA StoresDurable ==
  ASSUME TypeOK, DurableInv, UNCHANGED <<cached, req>>,
         \A a \in Agents \ cached :
            /\ snap'[a] # Nil => pc' = "loading" /\ snap'[a].bag = db'[a].bag
            /\ lastSnap'[a] = Nil /\ upd'[a].bag = Keep /\ db'[a].bag = db[a].bag,
         \A a \in Agents, units \in SUBSET Ore :
            CopiesHold(a, units) => CopiesHold(a, units)',
         pc' = "idle" /\ ~timer' =>
            /\ closing' # "no"
            /\ closing' = "flushing" => \A a \in cached :
                 cache'[a].bag \subseteq (IF lastSnap'[a] = Nil THEN db'[a].bag ELSE lastSnap'[a].bag)
            /\ closing' = "flushed" => \A a \in cached : cache'[a].bag \subseteq db'[a].bag
  PROVE  DurableInv'
<1>1. \A r \in Reqs : HasRead(r) => req[r].agent \in Agents /\ req[r].bag \in SUBSET Ore
  BY DEF TypeOK, HasRead, ReqRec
<1>2. \A r \in Reqs : HasRead(r)' = HasRead(r)
  BY DEF HasRead
<1>3. \A r \in Reqs : HasRead(r)' => CopiesHold(req[r].agent, req[r].bag)'
  BY <1>1, <1>2 DEF DurableInv
<1>4. /\ \A a \in Agents \ cached : \A r \in Reqs :
            HasRead(r)' /\ req'[r].agent = a => req'[r].bag = db'[a].bag
      /\ \A r, s \in Reqs : HasRead(r)' /\ HasRead(s)' /\ req'[r].agent = req'[s].agent
                              => req'[r].bag = req'[s].bag
  BY <1>2 DEF DurableInv
<1> QED BY <1>3, <1>4 DEF DurableInv

LEMMA TickDurable ==
  ASSUME TypeOK, DurableInv, TickStart \/ Batch \/ FlushRead \/ FlushWrite \/ TickError
  PROVE  DurableInv'
<1>1. UNCHANGED <<cached, req, lastSnap, closing>> /\ pc \notin {"down", "starting", "loading"}
  BY DEF TickStart, Batch, FlushRead, FlushWrite, TickError, stores, http, process
<1>2. \A a \in Agents \ cached : snap[a] = Nil /\ lastSnap[a] = Nil /\ upd[a].bag = Keep
  BY <1>1 DEF DurableInv
<1>3. \A a \in Agents : ReadCache[a] = IF a \in cached THEN cache[a] ELSE Nil
  BY DEF ReadCache
<1>4. CASE TickStart
  <2>1. UNCHANGED <<db, cache, upd>>
    BY <1>4 DEF TickStart, stores
  <2>2. CASE cached = {}
    <3>1. UNCHANGED <<pc, timer, snap>>
      BY <1>4, <2>2 DEF TickStart
    <3> QED BY <1>1, <2>1, <3>1 DEF DurableInv, CopiesHold, HasRead
  <2>3. CASE cached # {}
    <3>1. pc' = "agents" /\ snap' = ReadCache
      BY <1>4, <2>3 DEF TickStart
    <3>2. \A a \in Agents, units \in SUBSET Ore : CopiesHold(a, units) => CopiesHold(a, units)'
      BY <1>1, <1>3, <2>1, <3>1 DEF CopiesHold
    <3> QED BY <1>1, <1>2, <1>3, <2>1, <3>1, <3>2, StoresDurable
  <2> QED BY <2>2, <2>3
<1>5. CASE Batch
  <2>1. /\ UNCHANGED <<db, snap>> /\ (pc' = "idle" => timer')
        /\ \A a \in Agents : upd'[a].bag = Keep
                             /\ cache'[a].bag = IF upd[a].bag = Keep THEN cache[a].bag
                                                ELSE upd[a].bag
    BY <1>5, HsetBag, QuietBag DEF Batch
  <2>2. \A a \in Agents, units \in SUBSET Ore : CopiesHold(a, units) => CopiesHold(a, units)'
    BY <1>1, <2>1 DEF CopiesHold
  <2> QED BY <1>1, <1>2, <2>1, <2>2, StoresDurable
<1>6. CASE FlushRead
  <2>1. UNCHANGED <<db, cache, upd>> /\ pc' = "flushing" /\ snap' = ReadCache
    BY <1>6 DEF FlushRead, stores
  <2>2. \A a \in Agents, units \in SUBSET Ore : CopiesHold(a, units) => CopiesHold(a, units)'
    BY <1>1, <1>3, <2>1 DEF CopiesHold
  <2> QED BY <1>1, <1>2, <1>3, <2>1, <2>2, StoresDurable
<1>7. CASE FlushWrite
  <2>1. /\ UNCHANGED <<cache, upd>> /\ timer' = TRUE
        /\ \A a \in Agents : snap'[a] = Nil
                             /\ db'[a].bag = IF snap[a] = Nil THEN db[a].bag ELSE snap[a].bag
    BY <1>7, FlushBag, QuietBag DEF FlushWrite
  <2>2. \A a \in Agents, units \in SUBSET Ore : CopiesHold(a, units) => CopiesHold(a, units)'
    BY <1>1, <2>1 DEF CopiesHold
  <2> QED BY <1>1, <1>2, <2>1, <2>2, StoresDurable
<1>8. CASE TickError
  <2>1. /\ UNCHANGED <<db, cache>> /\ timer' = TRUE
        /\ \A a \in Agents : snap'[a] = Nil /\ upd'[a].bag = Keep
    BY <1>8, QuietBag DEF TickError, stores
  <2>2. \A a \in Agents, units \in SUBSET Ore : CopiesHold(a, units) => CopiesHold(a, units)'
    BY <1>1, <2>1 DEF CopiesHold
  <2> QED BY <1>1, <1>2, <2>1, <2>2, StoresDurable
<1> QED BY <1>4, <1>5, <1>6, <1>7, <1>8

\* Two requests may race for an agent: both have read the same total.
LEMMA HttpDurable ==
  ASSUME TypeOK, DurableInv, NEW r \in Reqs, Call(r) \/ Continue(r)
  PROVE  DurableInv'
<1> DEFINE a == req[r].agent
<1>1. /\ UNCHANGED <<pc, timer, snap, upd, closing, lastSnap>>
      /\ \A s \in Reqs \ {r} : req'[s] = req[s]
      /\ \A b \in Agents : db'[b].bag = db[b].bag
  BY HttpFrame DEF tick, process
<1>2. \A s \in Reqs : HasRead(s) => req[s].agent \in Agents /\ CopiesHold(req[s].agent, req[s].bag)
  BY DEF TypeOK, HasRead, ReqRec, DurableInv
<1>3. \A s \in Reqs \ {r} : HasRead(s)' = HasRead(s)
  BY <1>1 DEF HasRead
<1>4. cached \subseteq Agents
  BY DEF TypeOK
<1>5. CASE /\ cached' = cached /\ \A b \in Agents : cache'[b].bag = cache[b].bag
           /\ ~HasRead(r)'
  <2>1. \A s \in Reqs : HasRead(s)' => HasRead(s) /\ req'[s] = req[s]
    BY <1>1, <1>3, <1>5
  <2>2. ASSUME NEW s \in Reqs, HasRead(s)'
        PROVE  CopiesHold(req[s].agent, req[s].bag)'
    BY <1>1, <1>2, <1>5, <2>1, <2>2 DEF CopiesHold
  <2>3. \A b \in Agents \ cached' :
          /\ snap'[b] # Nil => pc' = "loading" /\ snap'[b].bag = db'[b].bag
          /\ lastSnap'[b] = Nil /\ upd'[b].bag = Keep
          /\ \A s \in Reqs : HasRead(s)' /\ req'[s].agent = b => req'[s].bag = db'[b].bag
    BY <1>1, <1>5, <2>1 DEF DurableInv
  <2>4. \A s, t \in Reqs : HasRead(s)' /\ HasRead(t)' /\ req'[s].agent = req'[t].agent
                             => req'[s].bag = req'[t].bag
    BY <2>1 DEF DurableInv
  <2>5. pc' = "idle" /\ ~timer' =>
          /\ closing' # "no"
          /\ closing' = "flushing" => \A b \in cached' :
               cache'[b].bag \subseteq (IF lastSnap'[b] = Nil THEN db'[b].bag ELSE lastSnap'[b].bag)
          /\ closing' = "flushed" => \A b \in cached' : cache'[b].bag \subseteq db'[b].bag
    BY <1>1, <1>4, <1>5 DEF DurableInv
  <2> QED BY <2>2, <2>3, <2>4, <2>5 DEF DurableInv
<1>6. CASE /\ UNCHANGED <<db, cached, cache>> /\ a \in Agents \ cached
           /\ HasRead(r)' /\ req'[r].agent = a /\ req'[r].bag = db[a].bag
  <2>1. /\ snap[a] # Nil => snap[a].bag = db[a].bag
        /\ lastSnap[a] = Nil /\ upd[a].bag = Keep
        /\ \A s \in Reqs : HasRead(s) /\ req[s].agent = a => req[s].bag = db[a].bag
    BY <1>6 DEF DurableInv
  <2>2. ASSUME NEW s \in Reqs, HasRead(s)' PROVE CopiesHold(req[s].agent, req[s].bag)'
    <3>1. CASE s = r
      BY <1>1, <1>6, <2>1, <3>1 DEF CopiesHold
    <3>2. CASE s # r
      BY <1>1, <1>2, <1>3, <1>6, <2>2, <3>2 DEF CopiesHold
    <3> QED BY <3>1, <3>2
  <2> HIDE DEF a
  <2>3. \A s, t \in Reqs : HasRead(s)' /\ HasRead(t)' /\ req'[s].agent = req'[t].agent
                             => req'[s].bag = req'[t].bag
    <3>1. \A s \in Reqs : HasRead(s)' /\ req'[s].agent = a => req'[s].bag = db[a].bag
      BY <1>1, <1>3, <1>6, <2>1
    <3>2. \A s, t \in Reqs \ {r} : HasRead(s)' /\ HasRead(t)' /\ req'[s].agent = req'[t].agent
                                     => req'[s].bag = req'[t].bag
      BY <1>1, <1>3 DEF DurableInv
    <3> QED BY <1>6, <3>1, <3>2
  <2>4. \A b \in Agents \ cached : \A s \in Reqs :
          HasRead(s)' /\ req'[s].agent = b => req'[s].bag = db[b].bag
    BY <1>1, <1>3, <1>6 DEF DurableInv
  <2> QED BY <1>1, <1>6, <2>2, <2>3, <2>4 DEF DurableInv
<1>7. CASE /\ HasRead(r) /\ a \in Agents /\ cached' = cached \cup {a}
           /\ \A b \in Agents : cache'[b].bag = IF b = a THEN req[r].bag ELSE cache[b].bag
           /\ req'[r] = Nil
  <2>1. \A s \in Reqs : HasRead(s)' => HasRead(s) /\ req'[s] = req[s] /\ s # r
    BY <1>1, <1>3, <1>7 DEF HasRead
  <2>2. \A s \in Reqs : HasRead(s) /\ req[s].agent = a => req[s].bag = req[r].bag
    BY <1>7 DEF DurableInv
  <2>3. ASSUME NEW s \in Reqs, HasRead(s)' PROVE CopiesHold(req[s].agent, req[s].bag)'
    BY <1>1, <1>2, <1>7, <2>1, <2>2, <2>3 DEF CopiesHold
  <2>4. CopiesHold(a, req[r].bag)
    BY <1>2, <1>7
  <2> HIDE DEF a
  <2>5. \A s, t \in Reqs : HasRead(s)' /\ HasRead(t)' /\ req'[s].agent = req'[t].agent
                             => req'[s].bag = req'[t].bag
    BY <2>1 DEF DurableInv
  <2>6. \A b \in Agents \ cached' :
          /\ snap'[b] # Nil => pc' = "loading" /\ snap'[b].bag = db'[b].bag
          /\ lastSnap'[b] = Nil /\ upd'[b].bag = Keep
          /\ \A s \in Reqs : HasRead(s)' /\ req'[s].agent = b => req'[s].bag = db'[b].bag
    BY <1>1, <1>7, <2>1 DEF DurableInv
  <2>7. pc' = "idle" /\ ~timer' =>
          /\ closing' # "no"
          /\ closing' = "flushing" => \A b \in cached' :
               cache'[b].bag \subseteq (IF lastSnap'[b] = Nil THEN db'[b].bag ELSE lastSnap'[b].bag)
          /\ closing' = "flushed" => \A b \in cached' : cache'[b].bag \subseteq db'[b].bag
    BY <1>1, <1>4, <1>7, <2>4 DEF DurableInv, CopiesHold
  <2> QED BY <2>3, <2>5, <2>6, <2>7 DEF DurableInv
<1> QED BY <1>5, <1>6, <1>7, HttpFrame DEF HasRead

LEMMA ProcessDurable ==
  ASSUME TypeOK, DurableInv, ProcessStep
  PROVE  DurableInv'
<1>1. CASE TickError
  BY <1>1, TickDurable
<1>2. CASE Crash \/ Exit
  <2>1. /\ pc' = "down" /\ \A r \in Reqs : req'[r] = Nil
        /\ \A a \in Agents : snap'[a] = Nil /\ lastSnap'[a] = Nil /\ upd'[a].bag = Keep
    BY <1>2, QuietBag DEF Crash, Exit, Die
  <2> QED BY <2>1 DEF DurableInv, HasRead
<1>3. \A a \in Agents : ReadCache[a] = IF a \in cached THEN cache[a] ELSE Nil
  BY DEF ReadCache
<1>4. cached \subseteq Agents
  BY DEF TypeOK
<1>5. CASE ShutdownRead
  <2>1. /\ UNCHANGED <<db, cached, cache, pc, snap, upd, req>>
        /\ lastSnap' = ReadCache /\ closing' = "flushing"
    BY <1>5 DEF ShutdownRead, stores, http
  <2>2. \A a \in Agents, units \in SUBSET Ore : CopiesHold(a, units) => CopiesHold(a, units)'
    BY <1>3, <2>1 DEF CopiesHold
  <2>3. \A a \in Agents \ cached :
          /\ snap'[a] # Nil => pc' = "loading" /\ snap'[a].bag = db'[a].bag
          /\ lastSnap'[a] = Nil /\ upd'[a].bag = Keep /\ db'[a].bag = db[a].bag
    BY <1>3, <2>1 DEF DurableInv
  <2>4. \A a \in cached : cache'[a].bag \subseteq
          (IF lastSnap'[a] = Nil THEN db'[a].bag ELSE lastSnap'[a].bag)
    <3>1. \A a \in cached : lastSnap'[a] = cache'[a] /\ cache'[a] # Nil
      BY <1>3, <1>4, <2>1, MarksAssumption DEF TypeOK
    <3> QED BY <3>1
  <2> QED BY <2>1, <2>2, <2>3, <2>4, StoresDurable
<1>6. CASE ShutdownWrite
  <2>1. /\ UNCHANGED <<cached, cache, pc, timer, snap, upd, req>>
        /\ closing = "flushing" /\ closing' = "flushed"
        /\ \A a \in Agents : lastSnap'[a] = Nil
        /\ \A a \in Agents : db'[a].bag = IF lastSnap[a] = Nil THEN db[a].bag
                                          ELSE lastSnap[a].bag
    BY <1>6, FlushBag, QuietBag DEF ShutdownWrite, tick, http
  <2>2. \A a \in Agents, units \in SUBSET Ore : CopiesHold(a, units) => CopiesHold(a, units)'
    BY <2>1 DEF CopiesHold
  <2>3. \A a \in Agents \ cached :
          /\ snap'[a] # Nil => pc' = "loading" /\ snap'[a].bag = db'[a].bag
          /\ lastSnap'[a] = Nil /\ upd'[a].bag = Keep /\ db'[a].bag = db[a].bag
    BY <2>1 DEF DurableInv
  <2>4. pc' = "idle" /\ ~timer' => \A a \in cached : cache'[a].bag \subseteq db'[a].bag
    BY <1>4, <2>1 DEF DurableInv
  <2> QED BY <2>1, <2>2, <2>3, <2>4, StoresDurable
<1>7. CASE Restart
  <2>1. UNCHANGED <<db, cached, cache, snap, lastSnap, upd, req>> /\ pc = "down" /\ pc' = "starting"
    BY <1>7 DEF Restart, stores, http
  <2>2. \A a \in Agents, units \in SUBSET Ore : CopiesHold(a, units) => CopiesHold(a, units)'
    BY <2>1 DEF CopiesHold
  <2>3. \A a \in Agents \ cached :
          /\ snap'[a] # Nil => pc' = "loading" /\ snap'[a].bag = db'[a].bag
          /\ lastSnap'[a] = Nil /\ upd'[a].bag = Keep /\ db'[a].bag = db[a].bag
    BY <2>1 DEF DurableInv
  <2> QED BY <2>1, <2>2, <2>3, StoresDurable
<1>8. CASE LoadRead
  <2>1. UNCHANGED <<db, cached, cache, lastSnap, upd, req>> /\ pc' = "loading"
    BY <1>8 DEF LoadRead, stores, http, process
  <2>2. \A a \in Agents : snap'[a] # Nil => snap'[a].bag = db[a].bag
    BY <1>8 DEF LoadRead
  <2>3. \A a \in Agents, units \in SUBSET Ore : CopiesHold(a, units) => CopiesHold(a, units)'
    BY <2>1, <2>2 DEF CopiesHold
  <2>4. \A a \in Agents \ cached :
          /\ snap'[a] # Nil => pc' = "loading" /\ snap'[a].bag = db'[a].bag
          /\ lastSnap'[a] = Nil /\ upd'[a].bag = Keep /\ db'[a].bag = db[a].bag
    BY <2>1, <2>2 DEF DurableInv
  <2> QED BY <2>1, <2>3, <2>4, StoresDurable
<1>9. CASE LoadWrite
  <2>1. /\ UNCHANGED <<db, lastSnap, upd, req>> /\ timer' = TRUE /\ pc = "loading"
        /\ cached' = cached \cup {a \in Agents : snap[a] # Nil}
        /\ \A a \in Agents : snap'[a] = Nil
        /\ \A a \in Agents : cache'[a].bag = IF snap[a] = Nil THEN cache[a].bag ELSE snap[a].bag
    BY <1>9, LoadRowBag, QuietBag DEF LoadWrite, http, process
  <2>2. \A r \in Reqs : HasRead(r)' = HasRead(r)
    BY <2>1 DEF HasRead
  <2>3. ASSUME NEW r \in Reqs, HasRead(r) PROVE CopiesHold(req[r].agent, req[r].bag)'
    <3>1. req[r].agent \in Agents /\ CopiesHold(req[r].agent, req[r].bag)
      BY <2>3 DEF TypeOK, HasRead, ReqRec, DurableInv
    <3> QED BY <2>1, <3>1 DEF CopiesHold
  <2>4. \A a \in Agents \ cached' :
          /\ snap'[a] = Nil /\ lastSnap'[a] = Nil /\ upd'[a].bag = Keep
          /\ \A r \in Reqs : HasRead(r)' /\ req'[r].agent = a => req'[r].bag = db'[a].bag
    BY <2>1, <2>2 DEF DurableInv
  <2>5. \A r, s \in Reqs : HasRead(r)' /\ HasRead(s)' /\ req'[r].agent = req'[s].agent
                             => req'[r].bag = req'[s].bag
    BY <2>1, <2>2 DEF DurableInv
  <2> QED BY <2>1, <2>2, <2>3, <2>4, <2>5 DEF DurableInv
<1> QED BY <1>1, <1>2, <1>5, <1>6, <1>7, <1>8, <1>9 DEF ProcessStep

\* A shutdown that no tick runs beside leaves in Postgres all that Redis has,
\* although requests go on between its read, its write and the exit, race for an
\* agent that Redis does not know, and earlier lives lost Redis or crashed.
THEOREM QuietExitIsDurable == Spec => []QuietExitDurable
<1> DEFINE Inv == TypeOK /\ DurableInv
<1>1. ASSUME Init PROVE DurableInv
  <2>1. /\ timer = TRUE /\ \A r \in Reqs : req[r] = Nil
        /\ \A a \in Agents : snap[a] = Nil /\ lastSnap[a] = Nil /\ upd[a].bag = Keep
    BY <1>1, QuietBag DEF Init
  <2> QED BY <2>1 DEF DurableInv, HasRead
<1>2. ASSUME Inv, [Next]_vars PROVE Inv'
  <2>1. TypeOK'
    BY <1>2, StepType
  <2>2. CASE TickStep
    BY <1>2, <2>1, <2>2, TurnDurable, TickDurable DEF TickStep
  <2>3. CASE \E r \in Reqs : Call(r) \/ Continue(r)
    BY <1>2, <2>1, <2>3, HttpDurable
  <2>4. CASE (\E a \in Agents : CooldownOver(a)) \/ UNCHANGED vars
    <3>1. UNCHANGED <<db, cached, cache, pc, timer, snap, lastSnap, upd, req, closing>>
      BY <2>4 DEF CooldownOver, vars, stores, tick, http, process, history
    <3> QED BY <1>2, <2>1, <3>1 DEF DurableInv, CopiesHold, HasRead
  <2>5. CASE ProcessStep
    BY <1>2, <2>1, <2>5, ProcessDurable
  <2> QED BY <1>2, <2>2, <2>3, <2>4, <2>5 DEF Next
<1>3. Init => Inv
  BY <1>1, InitType
<1>4. Inv /\ [Next]_vars => Inv'
  BY <1>2
<1>5. Inv => QuietExitDurable
  BY DEF DurableInv, QuietExitDurable
<1> QED BY <1>3, <1>4, <1>5, PTL DEF Spec
=============================================================================
