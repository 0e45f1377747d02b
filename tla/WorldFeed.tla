----------------------------- MODULE WorldFeed ------------------------------
(***************************************************************************)
(* The public half of what a browser knows: fronts, rich veins and the gold*)
(* rush.  A page gets a snapshot from GET /api/world when it mounts, and a *)
(* broadcast of every tick from the socket.  The socket is in order and    *)
(* forgets what is sent while it is down; the snapshot travels apart from  *)
(* it and may be read by the server long before it is applied.             *)
(*                                                                         *)
(* Whether a vein is over the server judges by its clock and the page by   *)
(* its own, which nobody corrects: it may be right, ahead, or behind.      *)
(*                                                                         *)
(* A vein, a picture of the fronts and a rush are numbered in the order in *)
(* which the server makes them; 0 is none.  The messages of one tick are   *)
(* one message.                                                            *)
(***************************************************************************)
EXTENDS Integers, Sequences, FiniteSets

CONSTANTS
  MaxVeins, MaxFronts, MaxRushes,    \* bounds: how many the server makes
  VeinHex,                           \* the hex of a vein
  MaxWire,                           \* bound: ticks sent and not delivered
  MaxDrops                           \* bound: lost connections and failed loads

ASSUME WorldFeedAssumption ==
  /\ {MaxVeins, MaxFronts, MaxRushes, MaxDrops} \subseteq Nat
  /\ MaxWire \in Nat \ {0}
  /\ VeinHex \in [1..MaxVeins -> Nat]

VARIABLES
  vein, struck, over,      \* activeVein; how many were struck; those past expiresAt
  front,                   \* the fronts the server simulates
  rush, rushStage,         \* the rush and whether it is "none", "open", "achieved"
  wire, up,                \* the socket
  load, answer,            \* GET /api/world: "asked", "read", "done"; what was read
  cVeins, cFront, cRush, cStage, ready,    \* worldStore
  slow, overHere,          \* the browser's clock is behind the server's; how many veins
                           \* are past expiresAt by it
  prevAchieved, fanfares,  \* useWorldClock: the last flag seen; toasts per rush
  missed,                  \* history: the connection was lost, or a snapshot came late
  mishaps

feedServer == <<vein, struck, over, front, rush, rushStage>>
feedStore  == <<cVeins, cFront, cRush, cStage, ready, prevAchieved, fanfares>>
pageClock == <<slow, overHere>>
worldFeedVars == <<feedServer, wire, up, load, answer, feedStore, pageClock, missed, mishaps>>

WorldFeedInit ==
  /\ vein = 0 /\ struck = 0 /\ over = {} /\ front = 0
  /\ \E n \in {0, 1} \cap 0..MaxRushes :
       /\ rush = n
       /\ rushStage \in IF n = 0 THEN {"none"} ELSE {"open", "achieved"}
  /\ wire = <<>> /\ up = TRUE /\ load = "asked" /\ answer = <<>>
  /\ cVeins = {} /\ cFront = 0 /\ cRush = 0 /\ cStage = "none" /\ ready = FALSE
  /\ prevAchieved = FALSE /\ fanfares = [n \in 1..MaxRushes |-> 0]
  /\ slow \in BOOLEAN /\ overHere = 0
  /\ missed = FALSE /\ mishaps = 0

Mishap == mishaps < MaxDrops /\ mishaps' = mishaps + 1

-----------------------------------------------------------------------------
(* The server. *)

\* expiresAt of the active vein passes; the next tick will see it.  For a browser whose
\* clock is not behind it has passed by now at the latest.
VeinTimesOut ==
  /\ vein # 0 /\ vein \notin over
  /\ over' = over \cup {vein}
  /\ overHere' = IF slow THEN overHere ELSE vein
  /\ UNCHANGED <<vein, struck, front, rush, rushStage, wire, up, load, answer, feedStore,
                 slow, missed, mishaps>>

\* A rush opens at its boundary, and ends, or its boost does.
RushTurns ==
  /\ \/ /\ rushStage = "none" /\ rush < MaxRushes
        /\ rush' = rush + 1 /\ rushStage' = "open"
     \/ /\ rushStage = "open" /\ rushStage' \in {"achieved", "none"} /\ rush' = rush
     \/ /\ rushStage = "achieved" /\ rushStage' = "none" /\ rush' = rush
  /\ UNCHANGED <<vein, struck, over, front, wire, up, load, answer, feedStore, pageClock,
                 missed, mishaps>>

\* What tickVeins does: drop the vein that is over, or strike one if there is none.
VeinStep(event) ==
  \/ /\ vein # 0 /\ vein \in over
     /\ vein' = 0 /\ struck' = struck /\ event = <<"expired", VeinHex[vein]>>
  \/ /\ vein = 0 /\ struck < MaxVeins
     /\ vein' = struck + 1 /\ struck' = struck + 1 /\ event = <<"spawned", struck + 1>>
  \/ /\ vein = 0 \/ vein \notin over
     /\ UNCHANGED <<vein, struck>> /\ event = <<>>

\* The broadcasts of a tick.  goldrush:update is sent only while there is a rush.
Broadcast(event) ==
  wire' = IF up THEN Append(wire, [front |-> front', vein |-> event,
                                   rush |-> rush, stage |-> rushStage])
          ELSE wire

Tick ==
  /\ Len(wire) < MaxWire
  /\ front' \in {front, front + 1} \cap 0..MaxFronts
  /\ \E event \in {<<>>} \cup {<<"spawned", v>> : v \in 1..MaxVeins}
                        \cup {<<"expired", VeinHex[v]>> : v \in 1..MaxVeins} :
       VeinStep(event) /\ Broadcast(event)
  /\ UNCHANGED <<over, rush, rushStage, up, load, answer, feedStore, pageClock, missed,
                 mishaps>>

\* GET /api/world is answered; the answer has yet to arrive.
WorldRead ==
  /\ load = "asked"
  /\ load' = "read"
  /\ answer' = <<[front |-> front, vein |-> vein, rush |-> rush, stage |-> rushStage]>>
  /\ UNCHANGED <<feedServer, wire, up, feedStore, pageClock, missed, mishaps>>

-----------------------------------------------------------------------------
(* The browser. *)

\* expiresAt of the next vein passes by the browser's clock, which VeinStrip reads every
\* second: when the clock is behind or the second has not gone by, after the server's.
VeinTimesOutHere ==
  /\ overHere < struck /\ (slow => overHere + 1 \in over)
  /\ overHere' = overHere + 1
  /\ UNCHANGED <<feedServer, wire, up, load, answer, feedStore, slow, missed, mishaps>>

\* applyUpdate with the fields of GET /api/world: each one present replaces the
\* one in the store; a goldrush of null is present.
WorldApplied ==
  /\ load = "read" /\ load' = "done" /\ answer' = <<>> /\ ready' = TRUE
  /\ LET data == answer[1] IN
       /\ cFront' = data.front
       /\ cVeins' = {data.vein} \ {0}
       /\ cStage' = data.stage
       /\ cRush' = IF data.stage = "none" THEN 0 ELSE data.rush
       /\ missed' = (missed \/ data.vein \notin {0, vein})
  /\ UNCHANGED <<feedServer, wire, up, prevAchieved, fanfares, pageClock, mishaps>>

\* loadWorld fails soft, and nobody asks again.
WorldLost ==
  /\ Mishap /\ load # "done" /\ load' = "done" /\ answer' = <<>>
  /\ UNCHANGED <<feedServer, wire, up, feedStore, pageClock, missed>>

\* applyVeinSpawned replaces the vein of the hex, applyVeinExpired removes it.
VeinApplied(event) ==
  IF event = <<>> THEN cVeins
  ELSE IF event[1] = "spawned"
       THEN {v \in cVeins : VeinHex[v] # VeinHex[event[2]]} \cup {event[2]}
       ELSE {v \in cVeins : VeinHex[v] # event[2]}

FrontsApplied(msg) == msg.front

RushAppliedAnew(msg) ==   \* Variant: the flag last seen is not kept.
  IF msg.stage = "none" THEN UNCHANGED <<cRush, cStage, prevAchieved, fanfares>>
  ELSE /\ cRush' = msg.rush /\ cStage' = msg.stage
       /\ prevAchieved' = FALSE
       /\ fanfares' = IF msg.stage = "achieved" /\ ~prevAchieved
                      THEN [fanfares EXCEPT ![msg.rush] = @ + 1] ELSE fanfares

\* onGoldRush: the store follows, and the toast rings when the flag goes up.
RushApplied(msg) ==
  IF msg.stage = "none" THEN UNCHANGED <<cRush, cStage, prevAchieved, fanfares>>
  ELSE /\ cRush' = msg.rush /\ cStage' = msg.stage
       /\ prevAchieved' = (msg.stage = "achieved")
       /\ fanfares' = IF msg.stage = "achieved" /\ ~prevAchieved
                      THEN [fanfares EXCEPT ![msg.rush] = @ + 1] ELSE fanfares

TickDelivered ==
  /\ wire # <<>>
  /\ wire' = Tail(wire) /\ ready' = TRUE
  /\ cFront' = FrontsApplied(Head(wire))
  /\ cVeins' = VeinApplied(Head(wire).vein)
  /\ RushApplied(Head(wire))
  /\ UNCHANGED <<feedServer, up, load, answer, pageClock, missed, mishaps>>

LineDrops ==
  /\ Mishap /\ up /\ up' = FALSE /\ wire' = <<>> /\ missed' = TRUE
  /\ UNCHANGED <<feedServer, load, answer, feedStore, pageClock>>

\* The connection comes back; useWorldClock has no handler for it.
LineReturns ==
  /\ ~up /\ up' = TRUE
  /\ UNCHANGED <<feedServer, wire, load, answer, feedStore, pageClock, missed, mishaps>>

-----------------------------------------------------------------------------

WorldFeedNext ==
  \/ VeinTimesOut \/ RushTurns \/ Tick \/ WorldRead
  \/ VeinTimesOutHere \/ WorldApplied \/ WorldLost \/ TickDelivered \/ LineDrops \/ LineReturns

\* The tick loop reschedules itself for ever, the socket reconnects for ever and
\* delivers what it accepted.
WorldFeedFair ==
  /\ WF_worldFeedVars(Tick) /\ WF_worldFeedVars(TickDelivered)
  /\ WF_worldFeedVars(LineReturns)
  /\ WF_worldFeedVars(WorldRead) /\ WF_worldFeedVars(WorldApplied)

WorldFeedSpec == WorldFeedInit /\ [][WorldFeedNext]_worldFeedVars

-----------------------------------------------------------------------------
(* Properties. *)

WorldFeedTypeOK ==
  /\ vein \in 0..struck /\ struck \in 0..MaxVeins /\ over \subseteq 1..struck
  /\ front \in 0..MaxFronts /\ rush \in 0..MaxRushes
  /\ {rushStage, cStage} \subseteq {"none", "open", "achieved"}
  /\ Len(wire) <= MaxWire /\ load \in {"asked", "read", "done"} /\ Len(answer) <= 1
  /\ {up, ready, prevAchieved} \subseteq BOOLEAN
  /\ cVeins \subseteq 1..struck /\ cFront \in 0..MaxFronts /\ cRush \in 0..MaxRushes
  /\ {slow, missed} \subseteq BOOLEAN /\ overHere \in 0..struck /\ mishaps \in 0..MaxDrops

\* VeinStrip and WorldRail list the veins of the store that are not past expiresAt by the
\* browser's clock.
Listed == {v \in cVeins : v > overHere}

\* A vein the browser lists is the vein the server pays for: a vein:expired that was lost
\* with the connection, or a snapshot read before the vein ended, leaves dead veins in the
\* store and none on the screen.  Where the browser's clock is behind, this holds up to
\* the vein:expired that is on its way, and of a page that missed nothing (worldStore,
\* VeinStrip): one that did lists the dead vein until its clock has caught up.
ListedVeinPays ==
  \A v \in Listed \ {vein} :
    slow /\ (missed \/ \E n \in DOMAIN wire : wire[n].vein = <<"expired", VeinHex[v]>>)

\* However often the achieved rush is broadcast, and however the connection comes
\* and goes, a page celebrates one rush at most once (useWorldClock.onGoldRush).
OneFanfare == \A n \in 1..MaxRushes : fanfares[n] <= 1

\* Fronts heal: they are sent whole with every tick, so neither a lost connection
\* nor a late snapshot leaves a page with an old picture for good.
FrontsCatchUp == <>[](cFront = front)
=============================================================================
