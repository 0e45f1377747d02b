--------------------------------- MODULE Sky ---------------------------------
(***************************************************************************)
(* Weather fronts and the rich vein as the tick loop drives them.  Both are*)
(* kept in memory with a copy in Redis that is written after every change, *)
(* best effort, and read back by a restart.  A front is a disc that drifts *)
(* in a straight line from its origin; it is dropped when its life is over *)
(* or its center has left the world.  What it does to a hex of a biome is  *)
(* looked up by the server for the yield, and again by the browser for the *)
(* chip on the agent's card, by a clock of its own that nobody corrects.   *)
(*                                                                         *)
(* Time is in minutes and velocities in hexes per minute, as in the code.  *)
(* A front is a trajectory and the minute at which it appeared; what       *)
(* makeFront draws is a member of Trajectories.  Multipliers are in        *)
(* percent.  A minute has one tick, or several if the process restarts.    *)
(***************************************************************************)
EXTENDS Integers, Sequences, SequencesExt

CONSTANTS
  Trajectories,    \* [type, origin, velocity, radius, life]
  Plots,           \* the hexes that agents stand on, with their biome
  MAX_FRONTS, DESPAWN_BOUND_RADIUS, VEIN_LIFESPAN,
  ClockErrors,     \* how many minutes a browser's clock may be ahead, negative for behind
  MaxMinutes,
  MaxMisfortunes   \* bound: failed statements of Redis and crashes

Size(n) == IF n < 0 THEN -n ELSE n

HexDistance(a, b) ==
  (Size(a[1] - b[1]) + Size(a[2] - b[2]) + Size(a[1] + a[2] - b[1] - b[2])) \div 2

\* makeFront scales an origin into SPAWN_ORIGIN_RADIUS, inside of the bound of the world.
ASSUME SkyAssumption ==
  /\ {MAX_FRONTS, VEIN_LIFESPAN} \subseteq Nat \ {0}
  /\ {MaxMinutes, MaxMisfortunes, DESPAWN_BOUND_RADIUS} \subseteq Nat /\ ClockErrors \subseteq Int
  /\ \A t \in Trajectories :
       /\ t.origin \in Int \X Int /\ t.velocity \in Int \X Int /\ t.life \in Nat \ {0}
       /\ HexDistance(t.origin, <<0, 0>>) <= DESPAWN_BOUND_RADIUS

VARIABLES
  minute, skyPc,             \* the tick: "idle", "fronts", "vein", "done"
  fronts, storedFronts,      \* memory and Redis
  activeVein, storedVein,    \* <<>> or <<the minute at which it expires>>
  cFronts,                   \* worldStore.fronts
  goneFronts, goneVeins,     \* history: what the server has dropped
  running, misfortunes

skyVars == <<minute, skyPc, fronts, storedFronts, activeVein, storedVein, cFronts,
             goneFronts, goneVeins, running, misfortunes>>

SkyInit ==
  /\ minute = 0 /\ skyPc = "idle" /\ running = TRUE
  /\ fronts = <<>> /\ storedFronts = <<>> /\ activeVein = <<>> /\ storedVein = <<>>
  /\ cFronts = <<>> /\ goneFronts = {} /\ goneVeins = {} /\ misfortunes = 0

Misfortune == misfortunes < MaxMisfortunes /\ misfortunes' = misfortunes + 1

-----------------------------------------------------------------------------
(* Fronts. *)

\* The members of a list that are in a set, in their order.
Kept(list, good) ==
  LET kept[n \in 0..Len(list)] ==
        IF n = 0 THEN <<>>
        ELSE IF list[n] \in good THEN Append(kept[n - 1], list[n]) ELSE kept[n - 1]
  IN kept[Len(list)]

FrontCenterAt(f, at) ==
  LET dt == at - f.spawnedAt IN
    <<f.path.origin[1] + f.path.velocity[1] * dt, f.path.origin[2] + f.path.velocity[2] * dt>>

FrontCovers(f, hex, at) == HexDistance(FrontCenterAt(f, at), hex) <= f.path.radius

ShouldDespawn(f, at) ==
  \/ at >= f.spawnedAt + f.path.life
  \/ HexDistance(FrontCenterAt(f, at), <<0, 0>>) > DESPAWN_BOUND_RADIUS

Alive(list, at) == Kept(list, {f \in ToSet(list) : ~ShouldDespawn(f, at)})

\* WEATHER_TABLE; a biome that a type does not list has its default.
WeatherModifier(type, biome) ==
  CASE type = "rain" /\ biome \in {"MARSH", "GRASSLAND"} -> 115
    [] type = "rain" /\ biome = "ROCKY"                  -> 90
    [] type = "dust" /\ biome = "PLAINS"                 -> 80
    [] type = "snow" /\ biome = "ALPINE"                 -> 120
    [] type = "snow" /\ biome = "FOREST"                 -> 90
    [] type = "ember"                                    -> 150
    [] OTHER                                             -> 100

\* Of the fronts over a hex the one that does most to the biome, the first of
\* several: its modifier, or 100 where there is none.
Strongest(over, biome) ==
  LET mods     == [n \in DOMAIN over |-> WeatherModifier(over[n].path.type, biome)]
      strength == [n \in DOMAIN over |-> Size(mods[n] - 100)]
  IN IF over = <<>> THEN 100
     ELSE mods[CHOOSE n \in DOMAIN over : \A m \in DOMAIN over :
                 strength[n] > strength[m] \/ (strength[n] = strength[m] /\ n <= m)]

Over(plot, at) == Kept(fronts, {f \in ToSet(fronts) : FrontCovers(f, plot.hex, at)})

ModifierOfFirst(plot, at) ==   \* Variant: the oldest front over the hex counts.
  IF Over(plot, at) = <<>> THEN 100 ELSE WeatherModifier(Over(plot, at)[1].path.type, plot.biome)

\* getWeatherModifierAt: what the yield of an agent is multiplied by at a minute.
ModifierAt(plot, at) == Strongest(Over(plot, at), plot.biome)

RoomForOneMore(list) == Len(list) <= MAX_FRONTS   \* Variant: one front too many.

RoomForFront(list) == Len(list) < MAX_FRONTS

\* stepWeather in memory; a new front may be drawn below the cap.
TickWeather ==
  /\ running /\ skyPc = "idle" /\ skyPc' = "fronts"
  /\ LET left == Alive(fronts, minute) IN
       \/ fronts' = left
       \/ /\ RoomForFront(left)
          /\ \E t \in Trajectories : fronts' = Append(left, [path |-> t, spawnedAt |-> minute])
  /\ goneFronts' = goneFronts \cup (ToSet(fronts) \ ToSet(fronts'))
  /\ UNCHANGED <<minute, storedFronts, activeVein, storedVein, cFronts, goneVeins, running,
                 misfortunes>>

\* persistWeather, and weather:update, which a browser gets or does not.
PersistWeather(ok) ==
  /\ skyPc = "fronts" /\ skyPc' = "vein"
  /\ IF ok THEN storedFronts' = fronts /\ UNCHANGED misfortunes
     ELSE Misfortune /\ UNCHANGED storedFronts
  /\ cFronts' \in {cFronts, fronts}
  /\ UNCHANGED <<minute, fronts, activeVein, storedVein, goneFronts, goneVeins,
                 running>>

-----------------------------------------------------------------------------
(* The vein. *)

VeinExpired(vein, at) == \E n \in DOMAIN vein : at >= vein[n]

VeinChanges ==
  \/ /\ VeinExpired(activeVein, minute)
     /\ activeVein' = <<>> /\ goneVeins' = goneVeins \cup {activeVein}
  \/ /\ activeVein = <<>>
     /\ activeVein' = <<minute + VEIN_LIFESPAN>> /\ UNCHANGED goneVeins

PersistVein(ok) ==
  IF ok THEN storedVein' = activeVein' /\ UNCHANGED misfortunes
  ELSE Misfortune /\ UNCHANGED storedVein

\* tickVeins: a change is written to Redis once, and fails without a trace.  A vein
\* that lasts, a roll that fails, a world without a rich hex and a choice that throws
\* write nothing, so a copy that is behind stays behind until the next change.
TickVeins(ok) ==
  /\ skyPc = "vein" /\ skyPc' = "done"
  /\ \/ VeinChanges /\ PersistVein(ok)
     \/ /\ ok /\ ~VeinExpired(activeVein, minute)
        /\ UNCHANGED <<activeVein, storedVein, goneVeins, misfortunes>>
  /\ UNCHANGED <<minute, fronts, storedFronts, cFronts, goneFronts, running>>

-----------------------------------------------------------------------------

MinutePasses ==
  /\ minute < MaxMinutes /\ minute' = minute + 1
  /\ ~running \/ skyPc = "done"
  /\ skyPc' = "idle"
  /\ UNCHANGED <<fronts, storedFronts, activeVein, storedVein, cFronts, goneFronts,
                 goneVeins, running, misfortunes>>

SkyCrash ==
  /\ Misfortune /\ running /\ running' = FALSE
  /\ skyPc' = "idle" /\ fronts' = <<>> /\ activeVein' = <<>>
  /\ UNCHANGED <<minute, storedFronts, storedVein, cFronts, goneFronts, goneVeins>>

\* rehydrateWeather and rehydrateVeins: what is over is left out, and what cannot
\* be read is taken for empty.
Rehydrate(fok, vok) ==
  /\ ~running /\ running' = TRUE
  /\ IF fok /\ vok THEN UNCHANGED misfortunes ELSE Misfortune
  /\ fronts' = IF fok THEN Alive(storedFronts, minute) ELSE <<>>
  /\ activeVein' = IF ~vok \/ VeinExpired(storedVein, minute) THEN <<>> ELSE storedVein
  /\ UNCHANGED <<minute, skyPc, storedFronts, storedVein, cFronts, goneFronts, goneVeins>>

-----------------------------------------------------------------------------

SkyNext ==
  \/ TickWeather \/ MinutePasses \/ SkyCrash
  \/ \E ok \in BOOLEAN : \/ PersistWeather(ok) \/ TickVeins(ok)
                         \/ \E vok \in BOOLEAN : Rehydrate(ok, vok)

SkySpec == SkyInit /\ [][SkyNext]_skyVars

-----------------------------------------------------------------------------
(* The chip on an agent's card (AgentModifierChip). *)

\* frontFade is positive at the minute that Date.now() of the browser tells.
Visible(f, at) == f.spawnedAt < at /\ at < f.spawnedAt + f.path.life

ChipCovers(f, plot, at) == Visible(f, at) /\ FrontCovers(f, plot.hex, at)

Covering(plot, at) == Kept(cFronts, {f \in ToSet(cFronts) : ChipCovers(f, plot, at)})

DominantFrontAt(plot, at) == Strongest(Covering(plot, at), plot.biome)

\* weatherMultiplierAtHex, to whole percents.
WeatherMultiplierAt(plot, at) ==
  FoldLeft(LAMBDA mult, f : (mult * WeatherModifier(f.path.type, plot.biome)) \div 100,
           100, Covering(plot, at))

\* The page has the fronts of this tick, and by the browser's clock each has appeared and
\* none has ended.
PageIsCurrent(at) ==
  running /\ skyPc = "vein" /\ cFronts = fronts /\ \A f \in ToSet(fronts) : Visible(f, at)

-----------------------------------------------------------------------------
(* Properties. *)

SkyTypeOK ==
  /\ minute \in 0..MaxMinutes /\ skyPc \in {"idle", "fronts", "vein", "done"}
  /\ \A list \in {fronts, storedFronts, cFronts} :
       Len(list) <= MAX_FRONTS /\ \A f \in ToSet(list) : f.path \in Trajectories
  /\ \A v \in {activeVein, storedVein} : Len(v) <= 1
  /\ running \in BOOLEAN /\ misfortunes \in 0..MaxMisfortunes

\* What has passed does not come back: a copy in Redis that was not updated when
\* a front left the world or a vein ran out revives neither (rehydrateWeather and
\* rehydrateVeins; a straight line leaves the world once).
GoneForGood == ToSet(fronts) \cap goneFronts = {} /\ activeVein \notin goneVeins

\* At the minute that the browser's clock tells, the front that the card names is the one
\* by which the server would pay for that minute, and where fronts do not overlap the
\* percentage on the card is the one that would be paid (AgentModifierChip).  So with a
\* right clock it is what is paid now, and with a wrong one what these fronts were, or
\* will be, worth where they were, or will be, then.  (Where fronts overlap, the card
\* multiplies and the server takes the strongest.)
ChipNamesPayer ==
  \A error \in ClockErrors :
    LET here == minute + error IN
      PageIsCurrent(here) => \A plot \in Plots :
        /\ DominantFrontAt(plot, here) = ModifierAt(plot, here)
        /\ Len(Covering(plot, here)) < 2 => WeatherMultiplierAt(plot, here) = ModifierAt(plot, here)

\* What has left the sky does not come back, and the front that a card names is the
\* one the server pays by at the minute of the browser's clock.
SkyIsOne == GoneForGood /\ ChipNamesPayer
=============================================================================
