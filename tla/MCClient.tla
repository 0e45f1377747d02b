------------------------------ MODULE MCClient ------------------------------
(***************************************************************************)
(* Small instances of the models of the browser for TLC: the session, the  *)
(* public feed, the owner's agents, a paid flow, the clock, prospecting,   *)
(* the panel of a hex, the view of the world and of the agents, the shell  *)
(* of the page, the card of the daily contract and the leaderboard.  They  *)
(* share no state, so a behaviour moves one of them, `part', and leaves    *)
(* the others at one initial state.                                        *)
(***************************************************************************)
EXTENDS Session, WorldFeed, AgentFeed, TxFlow, WorldClock, Surveys, HexPanel, WorldView,
        AgentView, PageShell, ContractCard, RankPanel, TLC

CONSTANTS wA, wB, tA, a1, a2, sA, sB, h1, h2, f1, f2

VARIABLE part

Order == <<"dawn", "day", "golden_hour", "dusk", "night">>
Durations == [p \in {"dawn", "day", "golden_hour", "dusk", "night"} |->
                IF p = "day" THEN 2 ELSE 1]
SkewSet == {-2, 0}

\* In steps of five minutes: behind by less and by more than a cooldown, right, and ahead.
MoveClocks == {-3, -1, 0, 1}
SameHex == <<1, 1>>

\* Four chunks, one below zero, at and around the limits of the presets.
LandSet == {<<-1, 0>>, <<0, 0>>, <<19, -20>>, <<20, 1>>}
ChunkDistance ==
  [near |-> (<<-1, 0>> :> 29 @@ <<0, 0>> :> 50 @@ <<0, -1>> :> 160 @@ <<1, 0>> :> 260),
   far  |-> (<<-1, 0>> :> 410 @@ <<0, 0>> :> 250 @@ <<0, -1>> :> 75 @@ <<1, 0>> :> 74)]
Sight == [near |-> {<<-1, 0>>, <<0, 0>>, <<1, 0>>}, far |-> Chunks]
ChunkRadius == [c \in Chunks |-> 15]

\* One agent just inside the threshold, one on it or beyond.
SpotDistance == [p1 |-> [h1 |-> 99, h2 |-> 100], p2 |-> [h1 |-> 300, h2 |-> 99]]
SpotChunk == [h \in {"h1", "h2"} |-> h]

ClientInit ==
  /\ part \in {"session", "feed", "agents", "tx", "clock", "surveys", "panel", "view",
               "figures", "shell", "card", "ranks"}
  /\ SessionInit   /\ (part # "session" => keepsCookies)
  /\ WorldFeedInit /\ (part # "feed" => rush = 0 /\ ~slow)
  /\ AgentFeedInit
  /\ TxFlowInit    /\ (part # "tx" => kind = "deploy")
  /\ ClockInit     /\ (part # "clock" => pos = 0 /\ skew = 0)
  /\ SurveysInit   /\ (part # "surveys" => visitor = sA)
  /\ PanelInit
  /\ WorldViewInit /\ (part # "view" => width = 600 /\ cores = 4)
  /\ AgentViewInit /\ (part # "figures" => at = [f \in Figures |-> Unlisted] /\ standpoint = "p1" /\ ~lowQuality)
  /\ ShellInit     /\ (part # "shell" => ~muted)
  /\ CardInit /\ RankInit

\* The variables of every part but the one that moves.
Others(of) ==
  /\ of # "session" => UNCHANGED sessionVars
  /\ of # "feed" => UNCHANGED worldFeedVars
  /\ of # "agents" => UNCHANGED agentFeedVars
  /\ of # "tx" => UNCHANGED txFlowVars
  /\ of # "clock" => UNCHANGED clockVars
  /\ of # "surveys" => UNCHANGED surveyVars
  /\ of # "panel" => UNCHANGED panelVars
  /\ of # "view" => UNCHANGED viewVars
  /\ of # "figures" => UNCHANGED figureVars
  /\ of # "shell" => UNCHANGED shellVars
  /\ of # "card" => UNCHANGED cardVars
  /\ of # "ranks" => UNCHANGED rankVars

ClientNext ==
  /\ \/ part = "session" /\ SessionNext
     \/ part = "feed"    /\ WorldFeedNext
     \/ part = "agents"  /\ AgentFeedNext
     \/ part = "tx"      /\ TxFlowNext
     \/ part = "clock"   /\ ClockNext
     \/ part = "surveys" /\ SurveysNext
     \/ part = "panel"   /\ PanelNext
     \/ part = "view"    /\ WorldViewNext
     \/ part = "figures" /\ AgentViewNext
     \/ part = "shell"   /\ ShellNext
     \/ part = "card"    /\ CardNext
     \/ part = "ranks"   /\ RankNext
  /\ Others(part) /\ UNCHANGED part

clientVars == <<sessionVars, worldFeedVars, agentFeedVars, txFlowVars, clockVars,
                surveyVars, panelVars, viewVars, figureVars, shellVars, cardVars, rankVars,
                part>>

\* The fairness of the part that moves (WorldFeedFair, AgentFeedFair, ClockFair,
\* ShellFair, RankFair).
ClientFair ==
  /\ WF_worldFeedVars(part = "feed" /\ Tick)
  /\ WF_worldFeedVars(part = "feed" /\ TickDelivered)
  /\ WF_worldFeedVars(part = "feed" /\ LineReturns)
  /\ WF_worldFeedVars(part = "feed" /\ WorldRead)
  /\ WF_worldFeedVars(part = "feed" /\ WorldApplied)
  /\ WF_agentFeedVars(part = "agents" /\ MiningUpdate)
  /\ WF_agentFeedVars(part = "agents" /\ EventApplied)
  /\ WF_agentFeedVars(part = "agents" /\ FeedReturns)
  /\ WF_agentFeedVars(part = "agents" /\ AgentsRead)
  /\ WF_agentFeedVars(part = "agents" /\ AgentsLoaded)
  /\ WF_agentFeedVars(part = "agents" /\ MoveAnswered)
  /\ WF_agentFeedVars(part = "agents" /\ CardAnswered)
  /\ \A a \in Agents : /\ WF_agentFeedVars(part = "agents" /\ MoveIsHandled(a))
                       /\ WF_agentFeedVars(part = "agents" /\ CardIsHandled(a))
  /\ WF_clockVars(part = "clock" /\ ClockAdvances)
  /\ WF_clockVars(part = "clock" /\ ClockBroadcast)
  /\ WF_clockVars(part = "clock" /\ UpdateApplied)
  /\ WF_clockVars(part = "clock" /\ ClockLinkReturns)
  /\ WF_clockVars(part = "clock" /\ SnapshotRead)
  /\ WF_clockVars(part = "clock" /\ SnapshotApplied)
  /\ WF_shellVars(part = "shell" /\ EffectRuns)
  /\ WF_shellVars(part = "shell" /\ SocketConnects)
  /\ WF_shellVars(part = "shell" /\ WorldSeen)
  /\ WF_shellVars(part = "shell" /\ \E to \in {"default", "server"} : ConfigAnswered(to))
  /\ WF_shellVars(part = "shell" /\ MinElapses)
  /\ WF_rankVars(part = "ranks" /\ IntervalFires)
  /\ \A f \in Fetches : /\ WF_rankVars(part = "ranks" /\ TopRead(f))
                        /\ WF_rankVars(part = "ranks" /\ RankRead(f))
                        /\ WF_rankVars(part = "ranks" /\ BoardApplied(f))

ClientSpec == ClientInit /\ [][ClientNext]_clientVars /\ ClientFair

\* The accounts of the card differ by nothing but their names: wB is not the first to log in.
FirstOfAlikes == part = "card" /\ hitches = 0 => holder' # wB

-----------------------------------------------------------------------------
(* Properties. *)

ClientTypeOK ==
  CASE part = "session" -> SessionTypeOK
    [] part = "feed"    -> WorldFeedTypeOK
    [] part = "agents"  -> AgentFeedTypeOK
    [] part = "tx"      -> TxFlowTypeOK
    [] part = "clock"   -> ClockTypeOK
    [] part = "surveys" -> SurveysTypeOK
    [] part = "panel"   -> PanelTypeOK
    [] part = "view"    -> WorldViewTypeOK
    [] part = "figures" -> AgentViewTypeOK
    [] part = "shell"   -> ShellTypeOK
    [] part = "card"    -> CardTypeOK
    [] part = "ranks"   -> RankTypeOK

\* What WorldRail shows is true: the veins it lists pay, an achieved rush and a
\* golden hour are announced once, and the countdown is right, each as far as its
\* module says.
RailIsTrue == ListedVeinPays /\ OneFanfare /\ GoldenHourOnce /\ CountdownIsRight

\* What is drawn is the world: every hex and every agent once, near what is near, with the
\* detail that the device and the player chose, the shake leaves nothing behind, and the
\* panel tells of one hex, hovered or pinned.
WorldIsDrawn ==
  /\ part = "panel" => PanelIsCoherent
  /\ part = "view" => PhoneNeverHigh /\ PictureIsRight /\ LandIsPartitioned /\ ChoiceIsKept
  /\ part = "figures" => DrawnOnce /\ ShakeIsUndone /\ JuiceIsDrawn

\* Nothing turns back or away under the user: the anchor of a cooldown goes back by
\* no more than the browser's clock is wrong, and the panel under the pointer keeps its hex.
PageHoldsStill == AnchorNeverGoesBack /\ PanelHoldsStill

\* A page heals: whatever was lost or came late, in the end START can be pressed, the
\* fronts are the server's, an agent that mines or travels is shown as what it is, the
\* sky is no further behind than one update, and the leaderboard points out who is there.
PageCatchesUp == LoadingEnds /\ FrontsCatchUp /\ MinersShowUp /\ SkyCatchesUp /\ RanksCatchUp
=============================================================================
