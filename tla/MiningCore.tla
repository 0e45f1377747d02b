----------------------------- MODULE MiningCore -----------------------------
(***************************************************************************)
(* The mining simulation of the LandMind server: the 5-second tick loop,   *)
(* the Redis cache it works on, the write-behind flush to Postgres, the    *)
(* HTTP handlers that change the same agents while a tick is in flight     *)
(* (relocate, rescue, repair), and the life of the process (crash, failed  *)
(* tick, graceful shutdown, restart).                                      *)
(*                                                                         *)
(* Every action is one stretch of code between two awaits whose effect     *)
(* another actor can see.  Ore is a set of units: a hex holds the units    *)
(* left in it (resourceAmount is their number), an agent's bag holds the   *)
(* units it was credited with (gold, silver, copper and iron together).    *)
(* An absolute total written to a store is a set of units written there.   *)
(***************************************************************************)
EXTENDS Integers, FiniteSets

CONSTANTS
  Agents,         \* the deployed agents
  Hexes,          \* hexes on one row of the map: the integer is the q coordinate
  DeepHexes,      \* the hexes with isDeep
  Ore,            \* units of ore
  Vein,           \* Vein[h]: the units in hex h at the start
  Home,           \* Home[a]: the hex agent a was placed on
  Uncached,       \* agents the deploy path stored in Postgres and never cached
  Reqs,           \* slots for HTTP requests in flight
  OneAtATime,     \* TRUE: at most one request in flight for an agent
  Ops,            \* the handlers that clients call in this instance
  Faults,         \* the failures that may happen in this instance
  MaxPerHex,      \* MAX_AGENTS_PER_HEX
  MaxWear,        \* wear at which accrueWear saturates, in ticks
  FlushInterval,  \* FLUSH_INTERVAL, in ticks
  TickCap,        \* bound: currentTick is exact up to TickCap (see AdvanceTick)
  MaxLives,       \* bound: how often the process is started
  Nil,            \* an absent field ('' in Redis, NULL in Postgres, undefined)
  Keep            \* a field a queued update leaves alone

Statuses == {"IDLE", "MINING", "RELOCATING", "TRAPPED"}
Hot      == {"MINING", "RELOCATING", "TRAPPED"}
Trips    == [to : Hexes, at : 0 .. TickCap]

\* A row of Agent joined with its MiningState.  `dig' is selfDigAt # null.
DbRec == [status : Statuses, hex : Hexes, bag : SUBSET Ore,
          wear : 0 .. MaxWear, dig : BOOLEAN]

\* The Redis hash of an agent; `trip' is targetHexId with arrivalTick.
CacheRec == [status : Statuses, hex : Hexes, bag : SUBSET Ore,
             wear : 0 .. MaxWear, dig : BOOLEAN, trip : {Nil} \cup Trips]

\* What one tick queues for an agent: the fields of its hset calls, merged.
UpdRec == [status : {Keep} \cup Statuses, hex : {Keep} \cup Hexes,
           bag : {Keep} \cup SUBSET Ore, wear : {Keep} \cup 0 .. MaxWear,
           dig : {Keep} \cup BOOLEAN, trip : {Nil, Keep} \cup Trips]

\* A request that has passed its checks; `bag' is the mining state it has read.
ReqRec == [op : {"relocate", "rescue", "repair"}, agent : Agents, hex : Hexes,
           step : {"checked", "stored", "read"}, bag : SUBSET Ore]

ASSUME ConstantsAssumption ==
  /\ Hexes \subseteq Int /\ DeepHexes \subseteq Hexes
  /\ Vein \in [Hexes -> SUBSET Ore]
  /\ \A g, h \in Hexes : g # h => Vein[g] \cap Vein[h] = {}
  /\ Home \in [Agents -> Hexes]
  /\ Uncached \subseteq Agents
  /\ OneAtATime \in BOOLEAN
  /\ MaxPerHex \in Nat /\ MaxWear \in Nat /\ MaxLives \in Nat
  /\ FlushInterval \in Nat \ {0}
  /\ TickCap \in Nat /\ TickCap >= FlushInterval

\* The two marks are no values a field can hold.
ASSUME MarksAssumption ==
  /\ Nil # Keep
  /\ \A c \in CacheRec : c # Nil
  /\ \A c \in ReqRec : c # Nil
  /\ \A t \in Trips : t # Nil /\ t # Keep
  /\ \A s \in Statuses : s # Keep
  /\ \A h \in Hexes : h # Keep
  /\ \A b \in SUBSET Ore : b # Keep
  /\ \A w \in 0 .. MaxWear : w # Keep
  /\ \A x \in BOOLEAN : x # Keep

VARIABLES
  hexOre,      \* Postgres: Hex.resourceAmount
  db,          \* Postgres: Agent and MiningState
  cached,      \* Redis: the set agents:active
  cache,       \* Redis: the hashes agent:<id>
  pc,          \* where the process and its tick are
  timer,       \* a setTimeout for the next tick is pending
  currentTick, \* the tick counter, in process memory
  snap,        \* the agents the tick, its flush or the startup load has read
  todo,        \* agents the tick has still to process
  upd,         \* `updates': what the tick will write to Redis in one batch
  req,         \* the HTTP requests in flight
  cool,        \* agents whose lastRelocatedAt is less than 10 minutes ago
  closing,     \* graceful shutdown: "no", "flushing" or "flushed"
  lastSnap,    \* the agents the shutdown flush has read
  lives,       \* starts of the process so far (bounded by MaxLives)
  dug,         \* history: the units each agent has taken out of the ground
  interrupted  \* history: a crash, a failed tick or an exit has happened

stores  == <<hexOre, db, cached, cache>>
tick    == <<pc, timer, currentTick, snap, todo, upd>>
http    == <<req, cool>>
process == <<closing, lastSnap, lives>>
history == <<dug, interrupted>>
vars    == <<stores, tick, http, process, history>>

NoUpdate == [status |-> Keep, hex |-> Keep, bag |-> Keep,
             wear |-> Keep, dig |-> Keep, trip |-> Keep]
Quiet    == [a \in Agents |-> NoUpdate]
NoSnap   == [a \in Agents |-> Nil]

\* hset: the fields of u replace those of the hash c, the others stay.
Hset(c, u) ==
  [status |-> IF u.status = Keep THEN c.status ELSE u.status,
   hex    |-> IF u.hex = Keep THEN c.hex ELSE u.hex,
   bag    |-> IF u.bag = Keep THEN c.bag ELSE u.bag,
   wear   |-> IF u.wear = Keep THEN c.wear ELSE u.wear,
   dig    |-> IF u.dig = Keep THEN c.dig ELSE u.dig,
   trip   |-> IF u.trip = Keep THEN c.trip ELSE u.trip]

\* Variant: wear accrues without a ceiling.
AccrueWearUnbounded(w) == w + 1

AccrueWear(w) == IF w < MaxWear THEN w + 1 ELSE w

\* currentTick++.  Past TickCap the counter runs again through the last
\* FlushInterval values, which keeps currentTick % FlushInterval.
AdvanceTick(t) == IF t < TickCap THEN t + 1 ELSE t + 1 - FlushInterval

HexDistance(g, h) == IF g < h THEN h - g ELSE g - h

\* calculateTravelTime, then arrivalTick = currentTick + travelTime (capped).
ArrivalTick(g, h) ==
  LET t == currentTick + (IF HexDistance(g, h) = 0 THEN 1 ELSE HexDistance(g, h))
  IN  IF t > TickCap THEN TickCap ELSE t

\* findNearestHexWithResources: nearest first, ties to the lower coordinate.
IsNearest(g, h, available) ==
  /\ h \in available
  /\ \A k \in available :
       \/ HexDistance(g, h) < HexDistance(g, k)
       \/ HexDistance(g, h) = HexDistance(g, k) /\ h <= k

\* getAllAgents: the hashes of the agents in agents:active.
ReadCache == [a \in Agents |-> IF a \in cached THEN cache[a] ELSE Nil]

\* The transaction of flushToPostgres, for the agents that s holds.
FlushRowNoTimer(row, s) ==   \* Variant: selfDigAt is never persisted.
  IF s = Nil THEN row
  ELSE [status |-> s.status, hex |-> s.hex, bag |-> s.bag, wear |-> s.wear,
        dig |-> FALSE]

FlushRowNoTrapped(row, s) == \* Variant: trapped agents are left out.
  IF s = Nil \/ s.status = "TRAPPED" THEN row
  ELSE [status |-> s.status, hex |-> s.hex, bag |-> s.bag, wear |-> s.wear,
        dig |-> FALSE]

FlushRow(row, s) ==
  IF s = Nil THEN row
  ELSE [status |-> s.status, hex |-> s.hex, bag |-> s.bag, wear |-> s.wear,
        dig |-> s.status = "TRAPPED" /\ s.dig]
Flush(s) == [a \in Agents |-> FlushRow(db[a], s[a])]

-----------------------------------------------------------------------------
Blank(a) == [status |-> "MINING", hex |-> Home[a], bag |-> {}, wear |-> 0,
             dig |-> FALSE, trip |-> Nil]

\* A server that has loaded its agents, fresh from deployment.
Init ==
  /\ hexOre = Vein
  /\ db = [a \in Agents |-> [status |-> "MINING", hex |-> Home[a], bag |-> {},
                             wear |-> 0, dig |-> FALSE]]
  /\ cached = Agents \ Uncached
  /\ cache = [a \in Agents |-> Blank(a)]
  /\ pc = "idle" /\ timer = TRUE /\ currentTick = 0
  /\ snap = NoSnap /\ todo = {} /\ upd = Quiet
  /\ req = [r \in Reqs |-> Nil]
  /\ cool = {}
  /\ closing = "no" /\ lastSnap = NoSnap /\ lives = 1
  /\ dug = [a \in Agents |-> {}]
  /\ interrupted = FALSE

-----------------------------------------------------------------------------
(* The tick: processTick and the per-agent functions it calls.             *)

\* The timer fires: count the tick and take the snapshot the whole tick uses.
\* With nothing cached the tick returns early and the timer is armed again.
TickStart ==
  /\ pc = "idle" /\ timer
  /\ currentTick' = AdvanceTick(currentTick)
  /\ IF cached = {}
       THEN UNCHANGED <<pc, timer, snap, todo>>
       ELSE /\ pc' = "agents" /\ timer' = FALSE
            /\ snap' = ReadCache
            /\ todo' = cached
  /\ UNCHANGED <<stores, upd, http, process, history>>

\* The tick turns to agent a, whose status in the snapshot is s.
Turn(a, s) == pc = "agents" /\ a \in todo /\ snap[a].status = s

\* It is done with a: u is queued, and the snapshot of a is used no more.
Done(a, u) ==
  /\ todo' = todo \ {a}
  /\ snap' = [snap EXCEPT ![a] = Nil]
  /\ upd' = [upd EXCEPT ![a] = u]
  /\ UNCHANGED <<pc, timer, currentTick>>

\* What is queued when agent a, now holding bag b, finds its hex h depleted or
\* not (left: what remains in it; elsewhere: the other hexes that hold ore).
MineUpdateNoTrip(a, b, h, left, elsewhere) ==   \* Variant: no arrival data.
  LET mined == [NoUpdate EXCEPT !.bag = b, !.wear = AccrueWear(snap[a].wear)]
  IN  IF left # {} THEN {mined}
      ELSE IF elsewhere = {} THEN {[mined EXCEPT !.status = "IDLE"]}
      ELSE {[mined EXCEPT !.status = "RELOCATING"]}

MineUpdate(a, b, h, left, elsewhere) ==
  LET mined == [NoUpdate EXCEPT !.bag = b, !.wear = AccrueWear(snap[a].wear)]
  IN  IF left # {} THEN {mined}
      ELSE IF elsewhere = {} THEN {[mined EXCEPT !.status = "IDLE"]}
      ELSE {[mined EXCEPT !.status = "RELOCATING",
                          !.trip = [to |-> k, at |-> ArrivalTick(h, k)]] :
              k \in {g \in elsewhere : IsNearest(h, g, elsewhere)}}

\* processMiningAgent with a yield.  The rate (10 to 50 times the modifiers)
\* and the amount left are arbitrary: any non-empty part of the hex is mined.
\* The deduction is in Postgres at once, the credit waits for the batch.
MineNoDeduct(a) ==   \* Variant: the hex is read but not decremented.
  /\ Turn(a, "MINING")
  /\ hexOre[snap[a].hex] # {}
  /\ dug' = [dug EXCEPT ![a] = @ \cup hexOre[snap[a].hex]]
  /\ Done(a, [NoUpdate EXCEPT !.bag = snap[a].bag \cup hexOre[snap[a].hex]])
  /\ UNCHANGED <<stores, http, process, interrupted>>

Mine(a) ==
  /\ Turn(a, "MINING")
  /\ \E took \in SUBSET hexOre[snap[a].hex] \ {{}} :
       LET h         == snap[a].hex
           left      == hexOre[h] \ took
           elsewhere == {k \in Hexes \ {h} : hexOre[k] # {}}
       IN /\ hexOre' = [hexOre EXCEPT ![h] = left]
          /\ dug' = [dug EXCEPT ![a] = @ \cup took]
          /\ \E u \in MineUpdate(a, snap[a].bag \cup took, h, left, elsewhere) :
               Done(a, u)
  /\ UNCHANGED <<db, cached, cache, http, process, interrupted>>

\* processMiningAgent on a hex with nothing left: only wear accrues.
NoYield(a) ==
  /\ Turn(a, "MINING")
  /\ hexOre[snap[a].hex] = {}
  /\ Done(a, [NoUpdate EXCEPT !.wear = AccrueWear(snap[a].wear)])
  /\ UNCHANGED <<stores, http, process, history>>

\* processMiningAgent on a deep hex of an owner seen in the last hour: the
\* roll may trap the agent.  Postgres is told at once; a failed write there is
\* logged and ignored.
CaveInConfiscates(a) ==   \* Variant: the cave-in buries what was mined.
  /\ Turn(a, "MINING")
  /\ snap[a].hex \in DeepHexes
  /\ db' = [db EXCEPT ![a].status = "TRAPPED", ![a].dig = TRUE]
  /\ Done(a, [NoUpdate EXCEPT !.status = "TRAPPED", !.dig = TRUE, !.bag = {}])
  /\ UNCHANGED <<hexOre, cached, cache, http, process, history>>

CaveInNoTimer(a) ==   \* Variant: the cache is not given the timer.
  /\ Turn(a, "MINING")
  /\ snap[a].hex \in DeepHexes
  /\ db' = [db EXCEPT ![a].status = "TRAPPED", ![a].dig = TRUE]
  /\ Done(a, [NoUpdate EXCEPT !.status = "TRAPPED", !.trip = Nil])
  /\ UNCHANGED <<hexOre, cached, cache, http, process, history>>

CaveIn(a) ==
  /\ Turn(a, "MINING")
  /\ snap[a].hex \in DeepHexes
  /\ \/ db' = [db EXCEPT ![a].status = "TRAPPED", ![a].dig = TRUE]
     \/ "trapWrite" \in Faults /\ db' = db
  /\ Done(a, [NoUpdate EXCEPT !.status = "TRAPPED", !.dig = TRUE, !.trip = Nil])
  /\ UNCHANGED <<hexOre, cached, cache, http, process, history>>

\* processTrappedAgent once selfDigAt has passed.
SelfDig(a) ==
  /\ Turn(a, "TRAPPED")
  /\ snap[a].dig
  /\ \/ db' = [db EXCEPT ![a].status = "MINING", ![a].dig = FALSE]
     \/ "trapWrite" \in Faults /\ db' = db
  /\ Done(a, [NoUpdate EXCEPT !.status = "MINING", !.dig = FALSE])
  /\ UNCHANGED <<hexOre, cached, cache, http, process, history>>

Arrived(a) == snap[a].trip # Nil /\ currentTick >= snap[a].trip.at

\* processRelocatingAgent at its arrival tick.
Arrive(a) ==
  /\ Turn(a, "RELOCATING") /\ Arrived(a)
  /\ Done(a, [NoUpdate EXCEPT !.status = "MINING", !.hex = snap[a].trip.to,
                              !.trip = Nil])
  /\ UNCHANGED <<stores, http, process, history>>

\* An agent for which this tick does nothing: trapped with time to go, still
\* travelling, travelling without arrival data (logged), or idle.
Pass(a) ==
  /\ \/ Turn(a, "IDLE")
     \/ Turn(a, "TRAPPED")
     \/ Turn(a, "RELOCATING") /\ ~Arrived(a)
  /\ Done(a, NoUpdate)
  /\ UNCHANGED <<stores, http, process, history>>

\* updateAgentsBatch; then the tick ends and the timer is armed, or, every
\* FLUSH_INTERVAL ticks, flushToPostgres begins.
BatchNoFlush ==   \* Variant: the flush interval never comes round.
  /\ pc = "agents" /\ todo = {}
  /\ cache' = [a \in Agents |-> Hset(cache[a], upd[a])]
  /\ upd' = Quiet
  /\ pc' = "idle" /\ timer' = TRUE
  /\ UNCHANGED <<hexOre, db, cached, currentTick, snap, todo, http, process, history>>

Batch ==
  /\ pc = "agents" /\ todo = {}
  /\ cache' = [a \in Agents |-> Hset(cache[a], upd[a])]
  /\ upd' = Quiet
  /\ IF currentTick % FlushInterval = 0
       THEN pc' = "flush" /\ UNCHANGED timer
       ELSE pc' = "idle" /\ timer' = TRUE
  /\ UNCHANGED <<hexOre, db, cached, currentTick, snap, todo, http, process, history>>

\* flushToPostgres reads the cache ...
FlushRead ==
  /\ pc = "flush"
  /\ pc' = "flushing"
  /\ snap' = ReadCache
  /\ UNCHANGED <<stores, timer, currentTick, todo, upd, http, process, history>>

\* ... and writes what it has read, in one transaction.
FlushWrite ==
  /\ pc = "flushing"
  /\ db' = Flush(snap)
  /\ pc' = "idle" /\ timer' = TRUE
  /\ snap' = NoSnap
  /\ UNCHANGED <<hexOre, cached, cache, currentTick, todo, upd, http, process, history>>

\* A store fails under the tick: the error is logged, what was queued is
\* dropped (the deductions stay), and the next tick is scheduled.
TickError ==
  /\ "tick" \in Faults
  /\ pc \in {"agents", "flush", "flushing"}
  /\ pc' = "idle" /\ timer' = TRUE
  /\ snap' = NoSnap /\ todo' = {} /\ upd' = Quiet
  /\ interrupted' = TRUE
  /\ UNCHANGED <<stores, currentTick, http, process, dug>>

-----------------------------------------------------------------------------
(* The HTTP handlers.                                                      *)

Up == pc # "down"

\* Slot r is free and, when clients wait for their answers, no other request
\* is in flight for a.
MayCall(r, a) ==
  /\ Up /\ req[r] = Nil
  /\ OneAtATime => \A s \in Reqs : req[s] # Nil => req[s].agent # a

At(r, op, step) == Up /\ req[r] # Nil /\ req[r].op = op /\ req[r].step = step
Step(r, s)      == req' = [req EXCEPT ![r].step = s]
Answer(r)       == req' = [req EXCEPT ![r] = Nil]

\* POST /:id/relocate: cooldown, target and occupancy are read and found fine.
RelocateCheck(r, a, h) ==
  /\ "relocate" \in Ops /\ MayCall(r, a)
  /\ a \notin cool
  /\ hexOre[h] # {}
  /\ Cardinality({b \in Agents : db[b].hex = h}) < MaxPerHex
  /\ req' = [req EXCEPT ![r] = [op |-> "relocate", agent |-> a, hex |-> h,
                                step |-> "checked", bag |-> {}]]
  /\ UNCHANGED <<stores, tick, cool, process, history>>

\* The move and the cooldown stamp go to Postgres.
RelocateStore(r) ==
  LET a == req[r].agent IN
  /\ At(r, "relocate", "checked")
  /\ db' = [db EXCEPT ![a].hex = req[r].hex, ![a].status = "MINING"]
  /\ cool' = cool \cup {a}
  /\ Step(r, "stored")
  /\ UNCHANGED <<hexOre, cached, cache, tick, process, history>>

\* The agent is cached: its hash is changed in place.
RelocateCacheFromDb(r) ==   \* Variant: the cached agent is registered anew.
  LET a == req[r].agent IN
  /\ At(r, "relocate", "stored") /\ a \in cached
  /\ cache' = [cache EXCEPT ![a].hex = req[r].hex, ![a].status = "MINING",
                            ![a].bag = db[a].bag, ![a].trip = Nil]
  /\ Answer(r)
  /\ UNCHANGED <<hexOre, db, cached, tick, cool, process, history>>

RelocateCache(r) ==
  LET a == req[r].agent IN
  /\ At(r, "relocate", "stored") /\ a \in cached
  /\ cache' = [cache EXCEPT ![a].hex = req[r].hex, ![a].status = "MINING",
                            ![a].trip = Nil]
  /\ Answer(r)
  /\ UNCHANGED <<hexOre, db, cached, tick, cool, process, history>>

\* It is not cached: its mining state is read ...
RelocateRead(r) ==
  LET a == req[r].agent IN
  /\ At(r, "relocate", "stored") /\ a \notin cached
  /\ req' = [req EXCEPT ![r].step = "read", ![r].bag = db[a].bag]
  /\ UNCHANGED <<stores, tick, cool, process, history>>

\* ... and cacheAgent registers it (dig and trip of an old hash stay).
RelocateRegister(r) ==
  LET a == req[r].agent IN
  /\ At(r, "relocate", "read")
  /\ cache' = [cache EXCEPT ![a].hex = req[r].hex, ![a].status = "MINING",
                            ![a].bag = req[r].bag, ![a].wear = 0]
  /\ cached' = cached \cup {a}
  /\ Answer(r)
  /\ UNCHANGED <<hexOre, db, tick, cool, process, history>>

\* Ten minutes pass, far longer than a request takes.
CooldownOver(a) ==
  /\ a \in cool
  /\ \A r \in Reqs : req[r] # Nil => req[r].agent # a
  /\ cool' = cool \ {a}
  /\ UNCHANGED <<stores, tick, req, process, history>>

\* POST /:id/rescue: Postgres says the agent is trapped.
RescueCheck(r, a) ==
  /\ "rescue" \in Ops /\ MayCall(r, a)
  /\ db[a].status = "TRAPPED"
  /\ req' = [req EXCEPT ![r] = [op |-> "rescue", agent |-> a, hex |-> Home[a],
                                step |-> "checked", bag |-> {}]]
  /\ UNCHANGED <<stores, tick, cool, process, history>>

RescueStore(r) ==
  LET a == req[r].agent IN
  /\ At(r, "rescue", "checked")
  /\ db' = [db EXCEPT ![a].status = "MINING", ![a].dig = FALSE]
  /\ Step(r, "stored")
  /\ UNCHANGED <<hexOre, cached, cache, tick, cool, process, history>>

RescueCache(r) ==
  LET a == req[r].agent IN
  /\ At(r, "rescue", "stored")
  /\ cache' = IF a \in cached
                THEN [cache EXCEPT ![a].status = "MINING", ![a].dig = FALSE]
                ELSE cache
  /\ Answer(r)
  /\ UNCHANGED <<hexOre, db, cached, tick, cool, process, history>>

\* POST /:id/repair: wear is reset in Postgres, then in the cache.
RepairStore(r, a) ==
  /\ "repair" \in Ops /\ MayCall(r, a)
  /\ db' = [db EXCEPT ![a].wear = 0]
  /\ req' = [req EXCEPT ![r] = [op |-> "repair", agent |-> a, hex |-> Home[a],
                                step |-> "stored", bag |-> {}]]
  /\ UNCHANGED <<hexOre, cached, cache, tick, cool, process, history>>

RepairCache(r) ==
  LET a == req[r].agent IN
  /\ At(r, "repair", "stored")
  /\ cache' = IF a \in cached THEN [cache EXCEPT ![a].wear = 0] ELSE cache
  /\ Answer(r)
  /\ UNCHANGED <<hexOre, db, cached, tick, cool, process, history>>

-----------------------------------------------------------------------------
(* The life of the process.                                                *)

\* The process is gone: its memory and its requests with it.
Die ==
  /\ pc' = "down" /\ timer' = FALSE /\ currentTick' = 0
  /\ snap' = NoSnap /\ todo' = {} /\ upd' = Quiet
  /\ req' = [r \in Reqs |-> Nil]
  /\ closing' = "no" /\ lastSnap' = NoSnap
  /\ interrupted' = TRUE
  /\ UNCHANGED <<hexOre, db, cool, lives, dug>>

\* The server crashes; Redis survives, or is lost with it.
Crash ==
  /\ "crash" \in Faults /\ Up /\ lives < MaxLives
  /\ \/ UNCHANGED <<cached, cache>>
     \/ /\ "redis" \in Faults
        /\ cached' = {} /\ cache' = [a \in Agents |-> Blank(a)]
  /\ Die

\* SIGTERM: the timer is cleared and the shutdown flush reads the cache.
\* A tick in flight goes on, and will arm the timer again when it ends.
ShutdownRead ==
  /\ "exit" \in Faults /\ Up /\ lives < MaxLives /\ closing = "no"
  /\ closing' = "flushing"
  /\ timer' = FALSE
  /\ lastSnap' = ReadCache
  /\ UNCHANGED <<stores, pc, currentTick, snap, todo, upd, http, lives, history>>

ShutdownWrite ==
  /\ closing = "flushing"
  /\ db' = Flush(lastSnap)
  /\ closing' = "flushed" /\ lastSnap' = NoSnap
  /\ UNCHANGED <<hexOre, cached, cache, tick, http, lives, history>>

Exit ==
  /\ closing = "flushed"
  /\ UNCHANGED <<cached, cache>>
  /\ Die

\* The process starts and listens; startTickLoop is called after that.
Restart ==
  /\ pc = "down"
  /\ pc' = "starting"
  /\ lives' = lives + 1
  /\ UNCHANGED <<stores, timer, currentTick, snap, todo, upd, http, closing,
                 lastSnap, history>>

\* loadHotAgentsFromPostgres reads the hot agents ...
LoadRead ==
  /\ pc = "starting"
  /\ pc' = "loading"
  /\ snap' = [a \in Agents |->
                IF db[a].status \in Hot
                  THEN [status |-> db[a].status, hex |-> db[a].hex, bag |-> db[a].bag,
                        wear |-> db[a].wear, dig |-> db[a].dig, trip |-> Nil]
                  ELSE Nil]
  /\ UNCHANGED <<stores, timer, currentTick, todo, upd, http, process, history>>

\* ... and calls cacheAgent for each of them: a field that is undefined in the row is not
\* part of the hset, so an old selfDigAt, target or arrivalTick stays.
LoadRowFresh(c, s) ==   \* Variant: agents are loaded as if just deployed.
  IF s = Nil THEN c ELSE [s EXCEPT !.bag = {}]

LoadRow(c, s) ==
  IF s = Nil THEN c
  ELSE [status |-> s.status, hex |-> s.hex, bag |-> s.bag, wear |-> s.wear,
        dig |-> s.dig \/ c.dig, trip |-> c.trip]

LoadWrite ==
  /\ pc = "loading"
  /\ cache' = [a \in Agents |-> LoadRow(cache[a], snap[a])]
  /\ cached' = cached \cup {a \in Agents : snap[a] # Nil}
  /\ snap' = NoSnap
  /\ pc' = "idle" /\ timer' = TRUE
  /\ UNCHANGED <<hexOre, db, currentTick, todo, upd, http, process, history>>

-----------------------------------------------------------------------------
AgentTurn(a) == Mine(a) \/ NoYield(a) \/ CaveIn(a) \/ SelfDig(a) \/ Arrive(a) \/ Pass(a)

TickStep ==
  \/ TickStart \/ Batch \/ FlushRead \/ FlushWrite
  \/ \E a \in Agents : AgentTurn(a)

Continue(r) ==
  \/ RelocateStore(r) \/ RelocateCache(r) \/ RelocateRead(r) \/ RelocateRegister(r)
  \/ RescueStore(r) \/ RescueCache(r) \/ RepairCache(r)

Call(r) ==
  \E a \in Agents :
    \/ \E h \in Hexes : RelocateCheck(r, a, h)
    \/ RescueCheck(r, a)
    \/ RepairStore(r, a)

ProcessStep ==
  TickError \/ Crash \/ ShutdownRead \/ ShutdownWrite \/ Exit
  \/ Restart \/ LoadRead \/ LoadWrite

Next ==
  \/ TickStep
  \/ \E r \in Reqs : Call(r) \/ Continue(r)
  \/ \E a \in Agents : CooldownOver(a)
  \/ ProcessStep

Spec == Init /\ [][Next]_vars

\* setTimeout fires and awaited calls return; requests in flight are carried on;
\* a trap's timer, looked at tick after tick, is found to have passed.
Fairness ==
  /\ WF_vars(TickStep) /\ WF_vars(Restart \/ LoadRead \/ LoadWrite)
  /\ \A r \in Reqs : WF_vars(Continue(r))
  /\ \A a \in Agents : SF_vars(SelfDig(a))

FairSpec == Spec /\ Fairness

-----------------------------------------------------------------------------
TypeOK ==
  /\ hexOre \in [Hexes -> SUBSET Ore]
  /\ db \in [Agents -> DbRec]
  /\ cached \subseteq Agents
  /\ cache \in [Agents -> CacheRec]
  /\ pc \in {"down", "starting", "loading", "idle", "agents", "flush", "flushing"}
  /\ timer \in BOOLEAN
  /\ currentTick \in 0 .. TickCap
  /\ snap \in [Agents -> {Nil} \cup CacheRec]
  /\ todo \subseteq Agents
  /\ \A a \in todo : pc = "agents" /\ snap[a] # Nil
  /\ upd \in [Agents -> UpdRec]
  /\ req \in [Reqs -> {Nil} \cup ReqRec]
  /\ cool \subseteq Agents
  /\ closing \in {"no", "flushing", "flushed"}
  /\ lastSnap \in [Agents -> {Nil} \cup CacheRec]
  /\ lives \in Nat
  /\ dug \in [Agents -> SUBSET Ore]
  /\ interrupted \in BOOLEAN

\* What agent a is credited with: the total its next batch will write, or else
\* the one in Redis, or in Postgres for an agent Redis does not know.
Credit ==
  [a \in Agents |-> IF upd[a].bag # Keep THEN upd[a].bag
                    ELSE IF a \in cached THEN cache[a].bag ELSE db[a].bag]

\* No unit of ore is credited twice.  Whatever copy of an agent's total some
\* actor holds (Redis, Postgres, the tick's snapshot and queue, a flush, a
\* request), it only has units that agent took out of the ground, and those are
\* in no hex and in no other agent's total, through crashes and stale writes.
CopiesWithin(a, units) ==
  /\ db[a].bag \subseteq units
  /\ cache[a].bag \subseteq units
  /\ snap[a] # Nil => snap[a].bag \subseteq units
  /\ lastSnap[a] # Nil => lastSnap[a].bag \subseteq units
  /\ upd[a].bag # Keep => upd[a].bag \subseteq units
  /\ \A r \in Reqs : req[r] # Nil /\ req[r].agent = a => req[r].bag \subseteq units

NeverCreditedTwice ==
  /\ \A a, b \in Agents : a # b => dug[a] \cap dug[b] = {}
  /\ \A a \in Agents, h \in Hexes : dug[a] \cap hexOre[h] = {}
  /\ \A a \in Agents : CopiesWithin(a, dug[a])

\* What makes it inductive: no unit is in two hexes.
VeinsApart == \A g, h \in Hexes : g # h => hexOre[g] \cap hexOre[h] = {}

\* As long as the process has neither crashed nor dropped a tick, every unit
\* taken out of the ground stays credited to the agent that took it, although
\* the tick works on a snapshot that handlers change the originals of.
NothingLost ==
  ~interrupted => \A a \in Agents : Credit[a] = dug[a]

\* An agent that waits has a deadline to wait for: a trapped one its self-dig
\* timer, in Redis and Postgres, in every order of tick, flush, rescue, manual
\* relocation and restart; a travelling one its target, until a restart.
WaitingHasDeadline ==
  /\ \A a \in Agents : db[a].status = "TRAPPED" => db[a].dig
  /\ \A a \in cached : cache[a].status = "TRAPPED" => cache[a].dig
  /\ ~interrupted => \A a \in cached :
       cache[a].status = "RELOCATING" => cache[a].trip # Nil

\* What Postgres has recorded for an agent never shrinks.
DbNeverShrinks ==
  [][\A a \in Agents : db[a].bag \subseteq db'[a].bag]_vars

\* A graceful shutdown with no tick in flight leaves nothing behind in Redis.
QuietExitDurable ==
  closing = "flushed" /\ pc = "idle" /\ ~timer =>
    \A a \in cached : cache[a].bag \subseteq db[a].bag

\* The simulation implements the ledger: ore moves from the ground to one
\* agent's credit and stays there until the process is interrupted.
Ledger == INSTANCE OreLedger WITH
  ground <- UNION {hexOre[h] : h \in Hexes}, credit <- Credit
LedgerSpec == Ledger!Spec

\* A trapped agent is freed, and a travelling one arrives.
TrapEnds   == \A a \in Agents : (a \in cached /\ cache[a].status = "TRAPPED")
                                  ~> (cache[a].status # "TRAPPED")
TravelEnds == \A a \in Agents : (a \in cached /\ cache[a].status = "RELOCATING")
                                  ~> (cache[a].status # "RELOCATING")

\* Every unit mined is recorded in Postgres in the end.
MinedIsBanked == \A a \in Agents : \A o \in Ore : o \in dug[a] ~> o \in db[a].bag

-----------------------------------------------------------------------------
(* Strengthenings of the invariants that are inductive (see MiningProofs).  *)

Timed(s) == s.status = "TRAPPED" => s.dig

\* A queued update that traps an agent gives it a timer, one that takes the
\* timer away frees it, and one that sends it travelling gives it a target.
GoodUpdate(u) ==
  /\ u.status = "TRAPPED" => u.dig = TRUE
  /\ u.dig = FALSE => u.status = "MINING"

GoodTrip(u) ==
  /\ u.status = "RELOCATING" => u.trip \notin {Nil, Keep}
  /\ u.trip = Nil => u.status \in {"MINING", "TRAPPED"}

\* WaitingHasDeadline, of every copy of an agent and of what the tick queues.
DeadlineInv ==
  /\ \A a \in Agents : /\ Timed(db[a]) /\ Timed(cache[a])
                       /\ snap[a] # Nil => Timed(snap[a])
                       /\ lastSnap[a] # Nil => Timed(lastSnap[a])
  /\ \A a \in Agents : GoodUpdate(upd[a])
  /\ pc \in {"down", "starting", "loading"} => interrupted
  /\ ~interrupted => \A a \in Agents :
       /\ cache[a].status = "RELOCATING" => cache[a].trip # Nil
       /\ GoodTrip(upd[a])

\* NothingLost, when clients wait for their answers: until an interruption the
\* tick's snapshot is current for the agents it has still to process, an agent
\* that is not cached has never mined, and no request can overwrite a total.
LossInv ==
  /\ \A r, s \in Reqs : r # s /\ req[r] # Nil /\ req[s] # Nil => req[r].agent # req[s].agent
  /\ pc \in {"down", "starting", "loading"} => interrupted
  /\ ~interrupted =>
       /\ \A a \in cached : dug[a] = IF upd[a].bag # Keep THEN upd[a].bag ELSE cache[a].bag
       /\ \A a \in Agents \ cached :
            dug[a] = {} /\ db[a].bag = {} /\ snap[a] = Nil /\ lastSnap[a] = Nil
       /\ \A a \in Agents : upd[a].bag # Keep => a \in cached /\ pc = "agents"
       /\ \A a \in todo : a \in cached /\ snap[a].bag = dug[a] /\ upd[a].bag = Keep
       /\ \A r \in Reqs : req[r] # Nil /\ req[r].step = "read" =>
            req[r].agent \notin cached /\ req[r].bag = {}

\* The refinement of the ledger, when every agent is cached and Redis is kept:
\* also after an interruption a tick works on current totals.
CacheInv ==
  /\ cached = Agents
  /\ pc \in {"down", "starting", "loading"} => interrupted
  /\ \A a \in Agents : upd[a].bag # Keep => pc = "agents"
  /\ \A a \in todo : snap[a].bag = cache[a].bag /\ upd[a].bag = Keep
  /\ \A r \in Reqs : req[r] # Nil => req[r].step # "read"

\* DbNeverShrinks, when moreover there is no shutdown: Postgres is behind Redis,
\* Redis behind the queue, and what a flush or a load has read lies between.
MonotoneInv ==
  /\ closing = "no"
  /\ \A a \in Agents :
       /\ db[a].bag \subseteq cache[a].bag
       /\ upd[a].bag # Keep => cache[a].bag \subseteq upd[a].bag
       /\ snap[a] # Nil /\ pc = "flushing" =>
            db[a].bag \subseteq snap[a].bag /\ snap[a].bag \subseteq cache[a].bag
       /\ snap[a] # Nil /\ pc = "loading" => snap[a].bag = db[a].bag

\* Every copy of a's total that may reach Redis or Postgres holds these units.
CopiesHold(a, units) ==
  /\ units \subseteq db[a].bag
  /\ a \in cached => units \subseteq cache[a].bag
  /\ snap[a] # Nil => units \subseteq snap[a].bag
  /\ lastSnap[a] # Nil => units \subseteq lastSnap[a].bag
  /\ upd[a].bag # Keep => units \subseteq upd[a].bag

HasRead(r) == req[r] # Nil /\ req[r].step = "read"

\* QuietExitDurable, with requests that may race for an agent: what a relocation
\* has read of an agent Redis did not know is in every later copy of its total,
\* and a shutdown flush that no tick runs beside has read all that is in Redis.
DurableInv ==
  /\ \A a \in Agents \ cached :
       /\ snap[a] # Nil => pc = "loading" /\ snap[a].bag = db[a].bag
       /\ lastSnap[a] = Nil /\ upd[a].bag = Keep
       /\ \A r \in Reqs : HasRead(r) /\ req[r].agent = a => req[r].bag = db[a].bag
  /\ \A r \in Reqs : HasRead(r) => CopiesHold(req[r].agent, req[r].bag)
  /\ \A r, s \in Reqs : HasRead(r) /\ HasRead(s) /\ req[r].agent = req[s].agent
                        => req[r].bag = req[s].bag
  /\ pc = "idle" /\ ~timer =>
       /\ closing # "no"
       /\ closing = "flushing" => \A a \in cached :
            cache[a].bag \subseteq (IF lastSnap[a] = Nil THEN db[a].bag ELSE lastSnap[a].bag)
       /\ closing = "flushed" => \A a \in cached : cache[a].bag \subseteq db[a].bag
=============================================================================
