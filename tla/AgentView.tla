----------------------------- MODULE AgentView -----------------------------
(***************************************************************************)
(* AgentLayer: the agents of agentStore as figures near the camera and as  *)
(* piles, one per chunk, away from it; the deploy juice of an agent that   *)
(* was not there before; and the shake of the camera that the juice feeds, *)
(* an offset that every frame takes back before it adds another.           *)
(*                                                                         *)
(* The layer renders when the list, the level of quality or the trauma     *)
(* changes, not when the camera moves: near and far are as of then.        *)
(***************************************************************************)
EXTENDS Naturals, FiniteSets

CONSTANTS
  Figures,                   \* agents
  Spots, ChunkAt,            \* hexes; ChunkAt[hex], the key of its chunk
  Standpoints, FigureDistance,   \* FigureDistance[standpoint][hex]
  CLUSTER_THRESHOLD,
  DEPLOY_TRAUMA,             \* in units that a frame of decay takes away; full is MaxTrauma
  MaxTrauma,
  MaxScenes                  \* bound: changes of the list, the camera and the quality

\* How bright the core of a figure can be, from and to, in hundredths; 90 is where the
\* bloom of the scene begins.
CoreGlow ==
  [TRAPPED |-> <<18, 42>>, MINING |-> <<80, 150>>, RELOCATING |-> <<110, 110>>, IDLE |-> <<80, 80>>]
BLOOM_THRESHOLD == 90

\* ClusterMarker: the bodies of a pile, log2 of one more than it holds, of two to five.
PileBodies(count) ==
  LET k == CHOOSE n \in 0..count : 2^n >= count + 1 /\ (n = 0 \/ 2^(n - 1) < count + 1)
  IN IF k < 2 THEN 2 ELSE IF k > 5 THEN 5 ELSE k

ASSUME AgentViewAssumption ==
  \* An agent in distress never blooms, one that mines does in its pulse.
  /\ CoreGlow["TRAPPED"][2] < BLOOM_THRESHOLD /\ CoreGlow["MINING"][2] > BLOOM_THRESHOLD
  /\ \A n \in 1..40 : PileBodies(n) \in 2..5 /\ PileBodies(n) <= PileBodies(n + 1)
  /\ {CLUSTER_THRESHOLD, DEPLOY_TRAUMA, MaxTrauma, MaxScenes} \subseteq Nat
  /\ \A s \in Standpoints : \A h \in Spots : FigureDistance[s][h] \in Nat

VARIABLES
  at,                        \* agentStore: the hex of an agent, Unplaced, or Unlisted
  standpoint, lowQuality,
  seenIds, newIds,           \* as of the last list; the first one makes nothing new
  near, piles, grouped,      \* what was rendered; within the group, or the shake alone
  trauma, emitted,           \* juice.ts; its listeners were told and have not rendered yet
  applied,                   \* appliedRef holds an offset
  offsets, lost,             \* history: offsets in the camera; of them, those whose ref is gone
  landing, sparks,           \* VoxelAgent: deployAgeRef runs; burst.active
  scenes

inStore    == <<at, seenIds, newIds>>
drawing    == <<near, piles, grouped>>
shake      == <<emitted, applied, offsets, lost>>
figureVars == <<inStore, standpoint, lowQuality, drawing, trauma, shake, landing, sparks, scenes>>

Unplaced == "unplaced"
Unlisted == "unlisted"

InStore(where) == {f \in Figures : where[f] # Unlisted}
Placed(where) == {f \in Figures : where[f] \in Spots}

Cut == scenes < MaxScenes /\ scenes' = scenes + 1

-----------------------------------------------------------------------------
(* Rendering. *)

Close(where) == {f \in Placed(where) : FigureDistance[standpoint][where[f]] < CLUSTER_THRESHOLD}
Distant(where) == Placed(where) \ Close(where)

\* useAgentClusters.
Clusters(where) ==
  [c \in {ChunkAt[where[f]] : f \in Distant(where)} |-> {f \in Distant(where) : ChunkAt[where[f]] = c}]

\* The first render of the mount: the agents that are there already are not new.
AgentViewInit ==
  /\ at \in [Figures -> Spots \cup {Unlisted}] /\ standpoint \in Standpoints
  /\ lowQuality \in BOOLEAN
  /\ seenIds = InStore(at) /\ newIds = {}
  /\ near = Close(at) /\ piles = Clusters(at) /\ grouped = (Placed(at) # {})
  /\ trauma = 0 /\ emitted = FALSE /\ applied = FALSE /\ offsets = 0 /\ lost = 0
  /\ landing = {} /\ sparks = {} /\ scenes = 0

\* AgentLayer renders: with nothing to draw it returns the shake outside the group, which
\* React takes for another component, so that it forgets its offset.  A figure that is no
\* longer drawn forgets its landing.
Renders(where) ==
  /\ near' = Close(where) /\ piles' = Clusters(where)
  /\ grouped' = (Placed(where) # {})
  /\ IF grouped' # grouped THEN applied' = FALSE /\ lost' = lost + (IF applied THEN 1 ELSE 0)
     ELSE UNCHANGED <<applied, lost>>

\* The memo on the list: after the first run every agent not seen before is new, those
\* that the page loads after it has mounted without any among them.
NewIds(where) == InStore(where) \ seenIds

\* addTrauma.
AddTrauma(amount) == IF trauma + amount > MaxTrauma THEN MaxTrauma ELSE trauma + amount

\* The effect of VoxelAgent, of a figure that was not drawn as a new one before.
Juiced(fresh, shownBefore) == {f \in near' : f \in fresh /\ f \notin shownBefore}

\* agentStore changes: the list is loaded, also with the same agents where they were, or an
\* agent comes, moves or goes.
AgentsChange(where) ==
  LET fresh == NewIds(where) IN
  /\ Cut /\ at' = where
  /\ newIds' = fresh /\ seenIds' = InStore(where)
  /\ Renders(where)
  /\ trauma' = IF fresh # {} /\ ~lowQuality THEN AddTrauma(DEPLOY_TRAUMA) ELSE trauma
  /\ emitted' = (emitted \/ trauma' # trauma)
  /\ LET lands == Juiced(fresh, near \cap newIds) IN
       /\ landing' = (landing \cup lands) \cap near'
       /\ sparks' = IF lowQuality THEN sparks \cap near' ELSE (sparks \cup lands) \cap near'
  /\ UNCHANGED <<standpoint, lowQuality, offsets>>

\* A render for another reason: what is near now that was far counts as new still.
Rerenders(low, spark) ==
  /\ Renders(at)
  /\ LET lands == Juiced(newIds, near \cap newIds) IN
       /\ landing' = (landing \cup lands) \cap near'
       /\ sparks' = IF low THEN spark \cap near' ELSE (spark \cup lands) \cap near'

QualityChanges ==
  /\ Cut /\ lowQuality' = ~lowQuality
  /\ Rerenders(lowQuality', sparks)
  /\ UNCHANGED <<inStore, standpoint, trauma, emitted, offsets>>

CameraMoves(s) ==
  /\ Cut /\ s # standpoint /\ standpoint' = s
  /\ UNCHANGED <<inStore, lowQuality, drawing, trauma, shake, landing, sparks>>

-----------------------------------------------------------------------------
(* A frame of CameraShake. *)

DecayTrauma == trauma' = trauma - 1

ShakesOnTop ==   \* Variant: the offset of the last frame stays under the next.
  /\ applied' = (trauma > 0 /\ ~lowQuality)
  /\ offsets' = offsets - (IF applied /\ ~applied' THEN 1 ELSE 0) + (IF applied' THEN 1 ELSE 0)

\* The offset of the last frame goes first; then, while there is trauma, the next one.
Shakes ==
  /\ applied' = (trauma > 0 /\ ~lowQuality)
  /\ offsets' = offsets - (IF applied THEN 1 ELSE 0) + (IF applied' THEN 1 ELSE 0)

\* The trauma decays also at low quality, to zero in the end; its listeners make the layer
\* render each time.
ShakeFrame ==
  /\ applied \/ trauma > 0
  /\ Shakes
  /\ IF trauma > 0 THEN DecayTrauma /\ emitted' = TRUE ELSE UNCHANGED <<trauma, emitted>>
  /\ UNCHANGED <<inStore, standpoint, lowQuality, drawing, lost, landing, sparks, scenes>>

TraumaRenders ==
  /\ emitted /\ emitted' = FALSE
  /\ Rerenders(lowQuality, sparks)
  /\ UNCHANGED <<inStore, standpoint, lowQuality, trauma, offsets, scenes>>

\* The 260 ms of a landing, and the 600 ms of its sparks, which run while they are drawn.
LandingEnds(f) ==
  /\ f \in landing /\ landing' = landing \ {f}
  /\ UNCHANGED <<inStore, standpoint, lowQuality, drawing, trauma, shake, sparks, scenes>>

SparksEnd(f) ==
  /\ f \in sparks /\ ~lowQuality /\ sparks' = sparks \ {f}
  /\ UNCHANGED <<inStore, standpoint, lowQuality, drawing, trauma, shake, landing, scenes>>

-----------------------------------------------------------------------------

AgentViewNext ==
  \/ \E where \in [Figures -> Spots \cup {Unplaced, Unlisted}] : AgentsChange(where)
  \/ QualityChanges \/ ShakeFrame \/ TraumaRenders
  \/ \E s \in Standpoints : CameraMoves(s)
  \/ \E f \in Figures : LandingEnds(f) \/ SparksEnd(f)

AgentViewSpec == AgentViewInit /\ [][AgentViewNext]_figureVars

-----------------------------------------------------------------------------
(* Properties. *)

AgentViewTypeOK ==
  /\ at \in [Figures -> Spots \cup {Unplaced, Unlisted}] /\ standpoint \in Standpoints
  /\ seenIds \cup newIds \cup near \cup landing \cup sparks \subseteq Figures
  /\ trauma \in 0..MaxTrauma /\ emitted \in BOOLEAN /\ offsets \in Nat /\ lost \in Nat

\* Every agent on a hex is drawn once, as a figure or in the pile of its chunk, and none
\* without a hex is drawn, whatever the distance (useAgentClusters).
DrawnOnce ==
  \A f \in Figures :
    LET drawnIn == {c \in DOMAIN piles : f \in piles[c]} IN
    /\ f \in Placed(at) => Cardinality(drawnIn) + (IF f \in near THEN 1 ELSE 0) = 1
    /\ f \notin Placed(at) => f \notin near /\ drawnIn = {}

\* The shake is "a transient pose delta, not cumulative": the camera is off by one offset
\* while one is applied and by none afterwards; one is left only when the first agent is
\* drawn or the last one goes during a shake.
ShakeIsUndone == offsets = lost + (IF applied THEN 1 ELSE 0)

\* Only a figure that is drawn lands or sparks.
JuiceIsDrawn == landing \cup sparks \subseteq near
=============================================================================
