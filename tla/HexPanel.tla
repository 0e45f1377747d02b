------------------------------ MODULE HexPanel ------------------------------
(***************************************************************************)
(* The panel of a hex: useHexHover decides from the moves of the pointer   *)
(* over the ground and over the panel, and from two timers, which hex is   *)
(* hovered; a click pins one; the panel shows the pinned hex or else the   *)
(* hovered one.  Refs are written at once and timers fire when they fire;  *)
(* what the browser does when the panel goes away under the pointer, a     *)
(* pointerleave or nothing, is open.                                       *)
(***************************************************************************)
EXTENDS Naturals

CONSTANTS
  Tiles,         \* the hexes of hexStore; the ground reaches beyond them
  Beyond,        \* a place of the ground without a hex
  Deep,          \* isDeepHex
  MaxClicks      \* bound: pins, unpins and changes of the mode

ASSUME PanelAssumption == Beyond \notin Tiles /\ Deep \subseteq Tiles /\ MaxClicks \in Nat

VARIABLES
  pointer,                 \* where it is: "map", "panel" or "away"
  lastKey, showTimer, hideTimer, tipShown, frozen, panelRect,   \* the refs of useHexHover
  hoveredHex, pinnedHex,   \* its state: a hex or Beyond for null
  moveMode,                \* relocationStore.activeAgentId is set
  surveyed,                \* contractStore.surveys
  orphaned,                \* history: the panel left without a pointerleave
  clicks

hover     == <<lastKey, showTimer, hideTimer, tipShown, frozen, hoveredHex>>
panelVars == <<pointer, hover, panelRect, pinnedHex, moveMode, surveyed, orphaned, clicks>>

Null == Beyond

PanelInit ==
  /\ pointer = "away" /\ lastKey = Null /\ hoveredHex = Null /\ pinnedHex = Null
  /\ showTimer = FALSE /\ hideTimer = FALSE /\ tipShown = FALSE /\ frozen = FALSE
  /\ panelRect = FALSE /\ moveMode = FALSE /\ surveyed = {} /\ orphaned = FALSE /\ clicks = 0

HasHex(h) == h \in Tiles

\* The pinned hex goes before the hovered one.
TooltipHex == IF pinnedHex # Null THEN pinnedHex ELSE hoveredHex

Click == clicks < MaxClicks /\ clicks' = clicks + 1

-----------------------------------------------------------------------------
(* useHexHover. *)

HideTooltip ==
  /\ showTimer' = FALSE /\ hideTimer' = FALSE
  /\ lastKey' = Null /\ tipShown' = FALSE /\ hoveredHex' = Null

\* The event of the ground: over the panel it lies in the corridor whenever the panel
\* has been measured.
Towards(inCorridor) == tipShown /\ panelRect /\ (inCorridor \/ pointer = "panel")

Hover(h, inCorridor) ==
  \/ frozen /\ UNCHANGED hover
  \/ /\ ~frozen /\ ~HasHex(h)
     /\ IF lastKey # Null THEN HideTooltip /\ UNCHANGED frozen
        ELSE hideTimer' = FALSE
             /\ UNCHANGED <<lastKey, showTimer, tipShown, frozen, hoveredHex>>
  \/ /\ ~frozen /\ HasHex(h) /\ hideTimer' = FALSE /\ UNCHANGED <<tipShown, frozen>>
     /\ IF h = lastKey \/ Towards(inCorridor)
        THEN UNCHANGED <<lastKey, showTimer, hoveredHex>>
        ELSE /\ lastKey' = h /\ showTimer' = ~tipShown
             /\ hoveredHex' = IF tipShown THEN h ELSE hoveredHex

PointerMoves(h, inCorridor) ==
  /\ Hover(h, inCorridor)
  /\ pointer' = IF pointer = "panel" THEN "panel" ELSE "map"
  /\ UNCHANGED <<panelRect, pinnedHex, moveMode, surveyed, orphaned, clicks>>

ShowFires ==
  /\ showTimer /\ showTimer' = FALSE
  /\ IF lastKey = Null THEN UNCHANGED <<tipShown, hoveredHex>>
     ELSE tipShown' = TRUE /\ hoveredHex' = lastKey
  /\ UNCHANGED <<pointer, lastKey, hideTimer, frozen, panelRect, pinnedHex, moveMode,
                 surveyed, orphaned, clicks>>

\* The pointer leaves the ground, for the panel or for the rest of the page.
PointerLeaves ==
  /\ pointer = "map" /\ pointer' = "away"
  /\ \/ frozen /\ UNCHANGED hover
     \/ ~frozen /\ ~tipShown /\ HideTooltip /\ UNCHANGED frozen
     \/ ~frozen /\ tipShown /\ showTimer' = FALSE /\ hideTimer' = TRUE
        /\ UNCHANGED <<lastKey, tipShown, frozen, hoveredHex>>
  /\ UNCHANGED <<panelRect, pinnedHex, moveMode, surveyed, orphaned, clicks>>

\* The panel goes away under the pointer, which is on the map then: with the
\* pointerleave, whose handler finds nothing shown, or without it.
Uncovered ==
  IF pointer = "panel" /\ pinnedHex' = Null /\ hoveredHex' = Null
  THEN /\ pointer' = "map"
       /\ \/ frozen' = FALSE /\ orphaned' = orphaned
          \/ frozen' = frozen /\ orphaned' = frozen
  ELSE UNCHANGED <<pointer, frozen, orphaned>>

HideFires ==
  /\ hideTimer
  /\ IF frozen THEN hideTimer' = FALSE /\ UNCHANGED <<lastKey, showTimer, tipShown, hoveredHex>>
     ELSE HideTooltip
  /\ UNCHANGED <<panelRect, pinnedHex, moveMode, surveyed, clicks>>
  /\ Uncovered

PanelEnter ==
  /\ frozen' = TRUE /\ hideTimer' = FALSE

PointerEnters ==
  /\ TooltipHex # Null /\ pointer # "panel" /\ pointer' = "panel"
  /\ PanelEnter /\ orphaned' = FALSE
  /\ UNCHANGED <<lastKey, showTimer, tipShown, hoveredHex, panelRect, pinnedHex, moveMode,
                 surveyed, clicks>>

PanelLeave ==
  /\ frozen' = FALSE /\ hideTimer' = (hideTimer \/ tipShown)

PointerExits ==
  /\ pointer = "panel" /\ pointer' \in {"map", "away"}
  /\ PanelLeave
  /\ UNCHANGED <<lastKey, showTimer, tipShown, hoveredHex, panelRect, pinnedHex, moveMode,
                 surveyed, orphaned, clicks>>

\* setPanelRect, from the frame loop of the tooltip and from the end of its effect.
PanelMeasured ==
  /\ panelRect' = (TooltipHex # Null /\ ~moveMode) /\ panelRect' # panelRect
  /\ UNCHANGED <<pointer, hover, pinnedHex, moveMode, surveyed, orphaned, clicks>>

-----------------------------------------------------------------------------
(* Clicks and keys. *)

PinHex(h) == pinnedHex' = IF HasHex(h) THEN h ELSE pinnedHex

\* In MOVE mode a click of the ground picks the target of the move instead.
GroundClicked(h) ==
  /\ Click /\ pointer = "map"
  /\ IF moveMode THEN UNCHANGED pinnedHex ELSE PinHex(h)
  /\ UNCHANGED <<pointer, hover, panelRect, moveMode, surveyed, orphaned>>

Unpin == pinnedHex' = Null

\* The X of the panel, or Escape.
UnpinPressed ==
  /\ Click /\ pinnedHex # Null /\ ~moveMode /\ Unpin
  /\ UNCHANGED <<lastKey, showTimer, hideTimer, tipShown, hoveredHex, panelRect, moveMode, surveyed>>
  /\ Uncovered

\* The effect of useHexHover on inMoveMode.
MoveModeToggles ==
  /\ Click /\ moveMode' = ~moveMode
  /\ pinnedHex' = IF moveMode' THEN Null ELSE pinnedHex
  /\ UNCHANGED <<lastKey, showTimer, hideTimer, tipShown, hoveredHex, panelRect, surveyed>>
  /\ Uncovered

-----------------------------------------------------------------------------
(* What the panel shows of its hex. *)

CanSurvey == ~moveMode /\ TooltipHex \notin surveyed

\* The frame: the X of a pinned panel, the corner of a surveyed hex, and the tag of
\* a deep hex, for a hex to move to or from what a survey told.
Heading ==
  (IF pinnedHex # Null THEN {"close"} ELSE IF TooltipHex \in surveyed THEN {"corner"} ELSE {})
    \cup (IF TooltipHex \in Deep /\ (moveMode \/ TooltipHex \in surveyed) THEN {"deep"} ELSE {})

\* The amount, of which only a survey tells, and the button to get one.
Richness == {IF TooltipHex \in surveyed THEN "amount" ELSE "unknown"}
SurveyButton == IF CanSurvey THEN {"survey"} ELSE {}

PanelParts == IF TooltipHex = Null THEN {} ELSE Heading \cup Richness \cup SurveyButton

\* The button or the S key, of a panel that is there; the reveal comes with the answer.
HexSurveyed ==
  /\ Click /\ TooltipHex # Null /\ CanSurvey
  /\ surveyed' = surveyed \cup {TooltipHex}
  /\ UNCHANGED <<pointer, hover, panelRect, pinnedHex, moveMode, orphaned>>

-----------------------------------------------------------------------------

PanelNext ==
  \/ \E h \in Tiles \cup {Beyond} :
       (\E inCorridor \in BOOLEAN : PointerMoves(h, inCorridor)) \/ GroundClicked(h)
  \/ ShowFires \/ PointerLeaves \/ HideFires \/ PointerEnters \/ PointerExits \/ PanelMeasured
  \/ UnpinPressed \/ MoveModeToggles \/ HexSurveyed

PanelSpec == PanelInit /\ [][PanelNext]_panelVars

-----------------------------------------------------------------------------
(* Properties. *)

PanelTypeOK ==
  /\ pointer \in {"map", "panel", "away"} /\ {lastKey, hoveredHex, pinnedHex} \subseteq Tiles \cup {Null}
  /\ {showTimer, hideTimer, tipShown, frozen, panelRect, moveMode, orphaned} \subseteq BOOLEAN
  /\ surveyed \subseteq Tiles

\* The refs tell what React shows: the hovered hex is the one of lastKey exactly while
\* shownRef is set, a show is pending only before that, a hide only then; and a hex that
\* was resolved is shown or about to be, or resolving it again would do nothing.
HoverIsCoherent ==
  /\ tipShown <=> hoveredHex # Null
  /\ tipShown => hoveredHex = lastKey
  /\ showTimer => ~tipShown
  /\ lastKey # Null <=> tipShown \/ showTimer
  /\ hideTimer => tipShown

\* Nothing is pinned in MOVE mode, where the panel would hide the hexes to choose from.
PinYields == moveMode => pinnedHex = Null

\* frozen says that the pointer is on the panel; only a panel that went away under the
\* pointer can leave it set, and then hovering stays dead until the next panel.
FrozenIsOnPanel == frozen => pointer = "panel" \/ orphaned

\* Under the pointer a panel changes its hex only by a press: no timer and no move of
\* the pointer takes away the hex whose SURVEY button is about to be pressed.
PanelHoldsStill ==
  [][pointer = "panel" /\ pointer' = "panel" /\ clicks' = clicks
       => (IF pinnedHex # Null THEN pinnedHex ELSE hoveredHex)
            = (IF pinnedHex' # Null THEN pinnedHex' ELSE hoveredHex')]_panelVars

\* The panel tells of one hex, the one that is hovered or pinned, and its refs agree.
PanelIsCoherent == HoverIsCoherent /\ PinYields /\ FrozenIsOnPanel
=============================================================================
