----------------------------- MODULE WorldView -----------------------------
(***************************************************************************)
(* The picture of the world: the layout by the width of the window, the    *)
(* quality that PerformanceAdapter follows the frame rate with and the one *)
(* that the player sets, the camera with its pan to an agent, and the      *)
(* chunks that ChunkedHexWorld takes from ChunkManager every third frame.  *)
(* The geometry of the camera is constant: how far a chunk is from where   *)
(* the camera stands, and which chunks its frustum meets.                  *)
(***************************************************************************)
EXTENDS Integers, FiniteSets

CONSTANTS
  Land,               \* the axial coordinates of the generated hexes
  CHUNK_SIZE,
  CameraSpots, Distance, Frustum,   \* Distance[spot][chunk]; the chunks of Frustum[spot]
  HomeSpot,           \* where a scene is mounted with its camera
  Radius,             \* Radius[chunk], of the bounding sphere
  Widths, CoreCounts,
  MaxWorks            \* bound: what the user, the window and the frame rate do

Levels == {"low", "medium", "high"}

\* getChunkCoords: the floor also for negative coordinates.
GetChunkCoords(h) == <<h[1] \div CHUNK_SIZE, h[2] \div CHUNK_SIZE>>

\* generateChunks: every hex goes to the chunk of its coordinates.
Chunks   == {GetChunkCoords(h) : h \in Land}
HexesOf(c) == {h \in Land : GetChunkCoords(h) = c}

\* QUALITY_PRESETS.
Preset ==
  [low    |-> [high |-> 30, med |-> 60,  maxDistance |-> 150],
   medium |-> [high |-> 50, med |-> 100, maxDistance |-> 250],
   high   |-> [high |-> 75, med |-> 150, maxDistance |-> 400]]

\* getQualitySettings of ThreeScene: what the scene mounts beside the terrain.
GetQualitySettings(level, mobile) ==
  CASE level = "low"  -> {}
    [] level = "high" -> {"clouds", "effects", "shadows", "weather", "particles", "dome", "stars"}
    [] OTHER -> {"clouds", "weather", "dome", "stars"}
                  \cup (IF mobile THEN {} ELSE {"effects", "particles"})

ASSUME ViewAssumption ==
  /\ CHUNK_SIZE \in Nat \ {0} /\ Widths \cup CoreCounts \subseteq Nat /\ MaxWorks \in Nat
  /\ \A c \in Chunks : Radius[c] \in Nat
  /\ HomeSpot \in CameraSpots
  /\ \A s \in CameraSpots : Frustum[s] \subseteq Chunks /\ \A c \in Chunks : Distance[s][c] \in Nat
  \* A higher level never mounts less, nor does a desktop.
  /\ \A mobile \in BOOLEAN :
       GetQualitySettings("medium", mobile) \subseteq GetQualitySettings("high", mobile)
  /\ \A level \in Levels : GetQualitySettings(level, TRUE) \subseteq GetQualitySettings(level, FALSE)

VARIABLES
  width, cores,
  quality, narrow,             \* PerformanceAdapter: its level; isMobile as it last rendered
  setting, stored, sheet,      \* ThreeScene's quality; localStorage; MobileLayout.activePanel
  camera, target,              \* where it stands; cameraStore.targetPosition
  frame, visible, lodLevel,    \* ChunkedHexWorld
  seenFrom, seenWith, behind,  \* history: camera and level of the last refresh; frames
                               \* since one of them changed
  wasWide, works               \* history: not narrow at some time of this mount

window     == <<width, cores>>
adapter    == <<quality, narrow, wasWide>>
controls   == <<setting, stored, sheet>>
chunkState == <<frame, visible, lodLevel, seenFrom, seenWith>>
viewVars   == <<window, adapter, controls, camera, target, chunkState, behind, works>>

Nowhere == "nowhere"

\* The two ways to tell a phone: useMobile, for the layout, and isMobileDevice.
IsMobile       == width <= 768
IsMobileDevice(w) == w < 768

GetInitialQuality(w) ==
  IF IsMobileDevice(w) THEN "low" ELSE IF cores >= 8 THEN "high" ELSE "medium"

-----------------------------------------------------------------------------
(* ChunkManager. *)

GetVisibleChunks(spot, level) ==
  {c \in Frustum[spot] : Distance[spot][c] <= Preset[level].maxDistance + Radius[c]}

UpdateLODLevels(spot, level) ==
  [c \in Chunks |-> IF Distance[spot][c] < Preset[level].high THEN 0
                    ELSE IF Distance[spot][c] < Preset[level].med THEN 1 ELSE 2]

\* updateVisibility.
Refresh(spot, level) ==
  /\ visible' = GetVisibleChunks(spot, level)
  /\ lodLevel' = UpdateLODLevels(spot, level)
  /\ seenFrom' = spot /\ seenWith' = level

WorldViewInit ==
  /\ width \in Widths /\ cores \in CoreCounts
  /\ narrow = IsMobileDevice(width) /\ quality = GetInitialQuality(width) /\ wasWide = ~narrow
  /\ setting = "medium" /\ stored = "medium" /\ sheet = "none"
  /\ camera = HomeSpot /\ target = Nowhere
  /\ frame = 0 /\ visible = GetVisibleChunks(camera, quality)
  /\ lodLevel = UpdateLODLevels(camera, quality)
  /\ seenFrom = camera /\ seenWith = quality /\ behind = 3 /\ works = 0

Work == works < MaxWorks /\ works' = works + 1

-----------------------------------------------------------------------------
(* Frames. *)

\* The pan of CameraControls, at its end: the target is reached and cleared.
PanEnds ==
  IF target # Nowhere THEN camera' = target /\ target' = Nowhere
  ELSE UNCHANGED <<camera, target>>

Frame ==
  /\ frame' = (frame + 1) % 3
  /\ PanEnds
  /\ IF frame' = 0 THEN Refresh(camera', quality)
     ELSE UNCHANGED <<visible, lodLevel, seenFrom, seenWith>>
  /\ behind' = IF camera' # camera THEN 0 ELSE IF behind < 3 THEN behind + 1 ELSE behind
  /\ UNCHANGED <<window, adapter, controls, works>>

\* The adapter renders with the new level, and the effect on updateVisibility runs.
Level(to) ==
  /\ quality' = to /\ to # quality
  /\ Refresh(camera, to) /\ behind' = 0
  /\ narrow' = IsMobileDevice(width)
  /\ UNCHANGED <<window, wasWide, controls, camera, target, frame>>

HandleDecline ==
  /\ Work /\ quality # "low" /\ Level(IF quality = "high" THEN "medium" ELSE "low")

HandleIncline ==
  /\ Work /\ quality # "high"
  /\ narrow => quality = "low"
  /\ Level(IF quality = "low" THEN "medium" ELSE "high")

-----------------------------------------------------------------------------
(* The window and the user. *)

\* From one layout to the other React mounts the scene anew; within one, nobody notices
\* until the adapter renders again.
WindowResized(w) ==
  LET remounts == (w <= 768) # IsMobile IN
  /\ Work /\ w # width /\ width' = w
  /\ narrow'  = IF remounts THEN IsMobileDevice(w) ELSE narrow
  /\ wasWide' = IF remounts THEN ~IsMobileDevice(w) ELSE wasWide \/ ~IsMobileDevice(w)
  /\ quality' = IF remounts THEN GetInitialQuality(w) ELSE quality
  /\ setting' = IF remounts THEN stored ELSE setting
  /\ sheet'   = IF remounts THEN "none" ELSE sheet
  /\ frame'   = IF remounts THEN 0 ELSE frame
  /\ camera'  = IF remounts THEN HomeSpot ELSE camera
  /\ IF remounts THEN Refresh(camera', quality') /\ behind' = 0
     ELSE UNCHANGED <<visible, lodLevel, seenFrom, seenWith, behind>>
  /\ UNCHANGED <<cores, stored, target>>

\* OrbitControls.
CameraDragged(s) ==
  /\ Work /\ s # camera /\ camera' = s /\ behind' = 0
  /\ UNCHANGED <<window, adapter, controls, target, chunkState>>

\* handleLocateAgent, from a card of either layout.
LocateAgent(s) ==
  /\ Work /\ target' = s /\ sheet' = "none"
  /\ UNCHANGED <<window, adapter, setting, stored, camera, chunkState, behind>>

\* handleNavClick of the bottom bar; Escape and the sheet's own close end it too.
NavClick(panel) ==
  /\ Work /\ IsMobile /\ sheet' = IF sheet = panel THEN "none" ELSE panel
  /\ UNCHANGED <<window, adapter, setting, stored, camera, target, chunkState, behind>>

\* QualitySettings: a choice is kept for the next mount and told to the scene.
HandleQualityChange(level) ==
  /\ stored' = level /\ setting' = level

QualityChosen(level) ==
  /\ Work /\ IsMobile /\ sheet = "settings" /\ HandleQualityChange(level)
  /\ UNCHANGED <<window, adapter, sheet, camera, target, chunkState, behind>>

-----------------------------------------------------------------------------
(* What is on the page. *)

\* VisibleChunk and ChunkedHexWorld: the props only near and not at low quality.
Terrain ==
  {<<"chunk", c, lodLevel[c]>> : c \in visible}
    \cup (IF quality = "low" THEN {}
          ELSE {<<"props", c>> : c \in {d \in visible : lodLevel[d] = 0}} \cup {<<"embers">>, <<"caves">>})

\* SceneContent.
Scene == {<<part>> : part \in GetQualitySettings(setting, IsMobile)} \cup Terrain

\* MobileLayout: the sheet that is open; App for a desktop.
Chrome == IF IsMobile THEN {"nav", "rail"} \cup ({sheet} \ {"none"}) ELSE {"header", "rail", "overlay"}

-----------------------------------------------------------------------------

WorldViewNext ==
  \/ Frame \/ HandleDecline \/ HandleIncline
  \/ \E w \in Widths : WindowResized(w)
  \/ \E s \in CameraSpots : CameraDragged(s) \/ LocateAgent(s)
  \/ \E panel \in {"agents", "earnings", "settings"} : NavClick(panel)
  \/ \E level \in Levels : QualityChosen(level)

WorldViewSpec == WorldViewInit /\ [][WorldViewNext]_viewVars

-----------------------------------------------------------------------------
(* Properties. *)

WorldViewTypeOK ==
  /\ width \in Widths /\ cores \in CoreCounts /\ {quality, setting, stored} \subseteq Levels
  /\ {narrow, wasWide} \subseteq BOOLEAN /\ sheet \in {"none", "agents", "earnings", "settings"}
  /\ {camera, seenFrom} \subseteq CameraSpots /\ target \in CameraSpots \cup {Nowhere}
  /\ frame \in 0..2 /\ behind \in 0..3 /\ lodLevel \in [Chunks -> 0..2]

\* PerformanceAdapter caps a phone at medium.  One that was at least 768 wide since the
\* scene was mounted (useMobile calls 768 a phone, isMobileDevice does not) may stay high.
PhoneNeverHigh == quality = "high" => wasWide

\* The picture is right: three frames after the camera or the level changed it is what
\* both call for; no chunk in sight reaches into the range and is left out, and of two
\* chunks the nearer one is never drawn with less detail (ChunkManager).
PictureIsRight ==
  /\ behind = 3 => seenFrom = camera /\ seenWith = quality
  /\ \A c \in Frustum[seenFrom] :
       <<"chunk", c, lodLevel[c]>> \in Scene <=> Distance[seenFrom][c] - Radius[c] <= Preset[seenWith].maxDistance
  /\ \A c, d \in Chunks :
       Distance[seenFrom][c] <= Distance[seenFrom][d] => lodLevel[c] <= lodLevel[d]

\* Every hex of the world is in one chunk, so that it is drawn once.
LandIsPartitioned == \A h \in Land : Cardinality({c \in Chunks : h \in HexesOf(c)}) = 1

\* The level that the settings mark as chosen is the one of the scene, also after the
\* scene was mounted anew (QualitySettings reads localStorage when it opens), and a
\* sheet is open only over the bar that closes it.
ChoiceIsKept == setting = stored /\ (sheet # "none" => {"nav", sheet} \subseteq Chrome)
=============================================================================
