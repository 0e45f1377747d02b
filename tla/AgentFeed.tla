----------------------------- MODULE AgentFeed ------------------------------
(***************************************************************************)
(* The owner's half of what a browser knows: the list of agents and the    *)
(* relocation it is busy with.  Three things write the list and none knows *)
(* of the others: answers of GET /api/agents, which may arrive in any order*)
(* and long after they were read; events of the user's room, in order and  *)
(* lost while the connection is down; and the handlers of the page itself, *)
(* one of which writes before the server has agreed.                       *)
(*                                                                         *)
(* The simulation is what MiningCore makes of it, seen from outside: a     *)
(* status per agent, changed by ticks and by the handlers.  moved[a] counts*)
(* the player's relocations of a; MovedAt of it is their time by the       *)
(* server's clock.  A refusal tells no time but how long to wait, and the  *)
(* page counts from its own clock, which nobody corrects.  An event says   *)
(* what it changes: for each agent a status or "same".                     *)
(***************************************************************************)
EXTENDS Integers, Sequences, FiniteSets

CONSTANTS
  Agents, NoAgent,
  RELOCATE_COOLDOWN,
  Launch,          \* a cooldown before the first relocation
  ClockErrors,     \* how far the browser's clock may be ahead of the server's, with the
                   \* time that an answer takes; negative for behind
  MaxMoves,        \* bound: relocations of one agent
  MaxFeed,         \* bound: events sent and not delivered
  MaxTurns         \* bound: what the simulation, the user and the network do

ASSUME AgentFeedAssumption ==
  /\ NoAgent \notin Agents /\ IsFiniteSet(Agents)
  /\ RELOCATE_COOLDOWN \in Nat \ {0} /\ Launch \in Nat
  \* No clock shows a time before 1970.
  /\ ClockErrors \subseteq Int /\ \A error \in ClockErrors : Launch + error > 0
  /\ MaxMoves \in Nat /\ MaxFeed \in Nat \ {0} /\ MaxTurns \in Nat

VARIABLES
  status, moved, cooling,      \* the server: status, relocations, cooldown running
  feed, online,                \* the user's room on the socket
  loading, answers,            \* GET /api/agents: not yet read, read and under way
  list, anchor,                \* agentStore and the cooldown anchors of relocationStore
  active, submitting,          \* relocationStore: the agent to move, a move submitted
  moves, moveAnswers,          \* POST /relocate: under way, answered
  busy, cardAnswers,           \* AgentCard: rescue or repair under way, answered
  turns

simulation  == <<status, moved, cooling>>
requests    == <<loading, answers>>
relocation  == <<active, submitting, moves, moveAnswers>>
cards       == <<busy, cardAnswers>>
agentFeedVars == <<simulation, feed, online, requests, list, anchor, relocation,
                   cards, turns>>

Status == {"MINING", "RELOCATING", "TRAPPED"}

\* lastRelocatedAt after so many relocations, each as soon as it may be; 0 for null.
MovedAt(n) == IF n = 0 THEN 0 ELSE Launch + RELOCATE_COOLDOWN * n

AgentFeedInit ==
  /\ status = [a \in Agents |-> "MINING"] /\ moved = [a \in Agents |-> 0]
  /\ cooling = [a \in Agents |-> FALSE]
  /\ feed = <<>> /\ online = TRUE /\ loading = 1 /\ answers = {}
  /\ list = [a \in Agents |-> "absent"]
  /\ anchor = [a \in Agents |-> 0]
  /\ active = NoAgent /\ submitting = FALSE /\ moves = {} /\ moveAnswers = {}
  /\ busy = [a \in Agents |-> "no"] /\ cardAnswers = {}
  /\ turns = 0

Turn == turns < MaxTurns /\ turns' = turns + 1

Only(a, s) == [b \in Agents |-> IF b = a THEN s ELSE "same"]

Emit(event) == feed' = IF online THEN Append(feed, event) ELSE feed

-----------------------------------------------------------------------------
(* The simulation and its events. *)

\* agent:trapped, agent:rescued, agent:relocating and agent:arrived.
StatusTurns(a) ==
  /\ Turn /\ Len(feed) < MaxFeed
  /\ \E s \in CASE status[a] = "MINING"     -> {"TRAPPED", "RELOCATING"}
                [] status[a] = "TRAPPED"    -> {"MINING"}
                [] status[a] = "RELOCATING" -> {"MINING"} :
       /\ status' = [status EXCEPT ![a] = s]
       /\ Emit(Only(a, s))
  /\ UNCHANGED <<moved, cooling, online, requests, list, anchor, relocation, cards>>

\* mining:update tells of the agents that mine or travel, not of the trapped ones.
MiningUpdate ==
  /\ Len(feed) < MaxFeed
  /\ Emit([a \in Agents |-> IF status[a] = "TRAPPED" THEN "same" ELSE status[a]])
  /\ UNCHANGED <<simulation, online, requests, list, anchor, relocation, cards, turns>>

\* Ten minutes: longer than any message of the last relocation is under way.
CooldownPasses(a) ==
  /\ cooling[a] /\ cooling' = [cooling EXCEPT ![a] = FALSE]
  /\ moves = {} /\ moveAnswers = {} /\ \A snap \in answers : snap.moved[a] = moved[a]
  /\ UNCHANGED <<status, moved, feed, online, requests, list, anchor, relocation,
                 cards, turns>>

-----------------------------------------------------------------------------
(* Loading the list. *)

AgentsRead ==
  /\ loading > 0 /\ loading' = loading - 1
  /\ answers' = answers \cup {[status |-> status, moved |-> moved]}
  /\ UNCHANGED <<simulation, feed, online, list, anchor, relocation, cards, turns>>

AgentsLost ==
  /\ Turn /\ loading > 0 /\ loading' = loading - 1
  /\ UNCHANGED <<simulation, feed, online, answers, list, anchor, relocation, cards>>

SeedAnchorAlways(a, at) == IF at = 0 THEN anchor[a] ELSE at   \* Variant: the list wins.

SeedAnchor(a, at) == IF at = 0 \/ anchor[a] >= at THEN anchor[a] ELSE at

\* setAgents replaces the list, seedCooldownAnchor keeps the fresher anchor.
AgentsLoaded ==
  /\ \E snap \in answers :
       /\ answers' = answers \ {snap}
       /\ list' = snap.status
       /\ anchor' = [a \in Agents |-> SeedAnchor(a, MovedAt(snap.moved[a]))]
  /\ UNCHANGED <<simulation, feed, online, loading, relocation, cards, turns>>

\* updateAgent: an agent that is not in the list stays out of it.
Updated(a, s) == IF list[a] = "absent" \/ s = "same" THEN list[a] ELSE s

EventApplied ==
  /\ feed # <<>> /\ feed' = Tail(feed)
  /\ list' = [a \in Agents |-> Updated(a, Head(feed)[a])]
  /\ UNCHANGED <<simulation, online, requests, anchor, relocation, cards, turns>>

FeedDrops ==
  /\ Turn /\ online /\ online' = FALSE /\ feed' = <<>>
  /\ UNCHANGED <<simulation, requests, list, anchor, relocation, cards>>

\* The hook subscribes again; the acknowledgement makes it load the list.
FeedReturns ==
  /\ ~online /\ online' = TRUE /\ loading' = loading + 1
  /\ UNCHANGED <<simulation, feed, answers, list, anchor, relocation, cards, turns>>

-----------------------------------------------------------------------------
(* MOVE: a button on a card, then a click on the ground. *)

\* cooldownReadyAt is past by the browser's clock.  While the server's cooldown runs, it
\* can be so without an anchor, or with one that lies farther back than the cooldown by
\* a clock that is as far ahead.
ReadyHere(a) ==
  cooling[a] /\ anchor[a] # 0 => \E error \in ClockErrors : anchor[a] < MovedAt(moved[a]) + error

\* The button is off while the anchor says so and while the card shows a trap;
\* pressed again for the same agent it leaves the mode.
BeginRelocation(a) ==
  /\ list[a] \notin {"absent", "TRAPPED"}
  /\ ReadyHere(a)
  /\ active' = IF active = a THEN NoAgent ELSE a
  /\ UNCHANGED <<simulation, feed, online, requests, list, anchor, submitting, moves,
                 moveAnswers, cards, turns>>

CancelRelocation == active' = NoAgent /\ submitting' = FALSE

EscapeAlways ==   \* Variant: also while a move is submitted.
  /\ active # NoAgent
  /\ CancelRelocation
  /\ UNCHANGED <<simulation, feed, online, requests, list, anchor, moves, moveAnswers,
                 cards, turns>>

\* RelocationBanner: Escape, or the button, while nothing is submitted.
Escape ==
  /\ active # NoAgent /\ ~submitting
  /\ CancelRelocation
  /\ UNCHANGED <<simulation, feed, online, requests, list, anchor, moves, moveAnswers,
                 cards, turns>>

\* useHexPick, for a hex inside the map: the list changes before the server knows.
PickHex ==
  /\ Turn /\ active # NoAgent /\ ~submitting /\ moved[active] < MaxMoves
  /\ submitting' = TRUE /\ moves' = moves \cup {active}
  /\ list' = [list EXCEPT ![active] = Updated(active, "RELOCATING")]
  /\ UNCHANGED <<simulation, feed, online, requests, anchor, active, moveAnswers, cards>>

\* POST /relocate at the server; `ok' is false when the hex will not do.  The
\* event has the agent mining, and no time.  `told' is false when the answer is
\* lost, which the handler takes for a refusal without a time.
MoveHandled(a, ok, told) ==
  /\ a \in moves /\ moves' = moves \ {a} /\ Len(feed) < MaxFeed
  /\ IF ok /\ ~cooling[a]
     THEN /\ status' = [status EXCEPT ![a] = "MINING"]
          /\ moved' = [moved EXCEPT ![a] = @ + 1]
          /\ cooling' = [cooling EXCEPT ![a] = TRUE]
          /\ Emit(Only(a, "MINING"))
     ELSE UNCHANGED <<simulation, feed>>
  /\ moveAnswers' = moveAnswers \cup
       {[agent |-> a, refused |-> cooling[a],
         at |-> IF told /\ cooling'[a] THEN MovedAt(moved'[a]) ELSE 0]}
  /\ UNCHANGED <<online, requests, list, anchor, active, submitting, cards, turns>>

MoveIsHandled(a) == \E ok, told \in BOOLEAN : MoveHandled(a, ok, told)

\* The anchors that an answer may leave: without a time the old one, else the time of the
\* move as the server gives it, or for a refusal Date.now() + retryAfterMs less the cooldown.
AnchorsAfter(answer) ==
  IF answer.at = 0 THEN {anchor[answer.agent]}
  ELSE IF answer.refused THEN {answer.at + error : error \in ClockErrors} ELSE {answer.at}

\* The answer: the anchor is set, whatever it was; a refusal rolls the list back to
\* MINING; the mode is left.
MoveAnswered ==
  /\ \E answer \in moveAnswers :
       /\ moveAnswers' = moveAnswers \ {answer}
       /\ list' = [list EXCEPT ![answer.agent] = Updated(answer.agent, "MINING")]
       /\ \E at \in AnchorsAfter(answer) : anchor' = [anchor EXCEPT ![answer.agent] = at]
  /\ CancelRelocation
  /\ UNCHANGED <<simulation, feed, online, requests, moves, cards, turns>>

-----------------------------------------------------------------------------
(* RESCUE and REPAIR on a card. *)

PressCard(a) ==
  /\ Turn /\ busy[a] = "no" /\ list[a] # "absent"
  /\ busy' = [busy EXCEPT ![a] = IF list[a] = "TRAPPED" THEN "rescue" ELSE "repair"]
  /\ UNCHANGED <<simulation, feed, online, requests, list, anchor, relocation,
                 cardAnswers>>

\* A rescue is for a trapped agent only; a repair says nothing of the status.
\* In real mode both are refused.
CardHandled(a, ok, told) ==
  /\ busy[a] # "no" /\ ~\E answer \in cardAnswers : answer.agent = a
  /\ Len(feed) < MaxFeed
  /\ LET done == ok /\ (busy[a] = "rescue" => status[a] = "TRAPPED") IN
       /\ cardAnswers' = cardAnswers \cup {[agent |-> a, ok |-> done /\ told]}
       /\ IF busy[a] = "rescue" /\ done
          THEN status' = [status EXCEPT ![a] = "MINING"] /\ Emit(Only(a, "MINING"))
          ELSE UNCHANGED <<status, feed>>
  /\ UNCHANGED <<moved, cooling, online, requests, list, anchor, relocation, busy, turns>>

CardIsHandled(a) == \E ok, told \in BOOLEAN : CardHandled(a, ok, told)

\* Both answers come without a status the client can use: mapAgent makes MINING
\* of what is missing.
CardAnswered ==
  /\ \E answer \in cardAnswers :
       /\ cardAnswers' = cardAnswers \ {answer}
       /\ busy' = [busy EXCEPT ![answer.agent] = "no"]
       /\ list' = IF answer.ok
                  THEN [list EXCEPT ![answer.agent] = Updated(answer.agent, "MINING")]
                  ELSE list
  /\ UNCHANGED <<simulation, feed, online, requests, anchor, relocation, turns>>

-----------------------------------------------------------------------------

AgentFeedNext ==
  \/ \E a \in Agents :
       \/ StatusTurns(a) \/ CooldownPasses(a) \/ BeginRelocation(a) \/ PressCard(a)
       \/ MoveIsHandled(a) \/ CardIsHandled(a)
  \/ MiningUpdate \/ AgentsRead \/ AgentsLost \/ AgentsLoaded \/ EventApplied
  \/ FeedDrops \/ FeedReturns \/ Escape \/ PickHex \/ MoveAnswered
  \/ CardAnswered

\* The tick loop goes on, the socket comes back, and every request is answered.
AgentFeedFair ==
  /\ WF_agentFeedVars(MiningUpdate) /\ WF_agentFeedVars(EventApplied)
  /\ WF_agentFeedVars(FeedReturns)
  /\ WF_agentFeedVars(AgentsRead) /\ WF_agentFeedVars(AgentsLoaded)
  /\ WF_agentFeedVars(MoveAnswered) /\ WF_agentFeedVars(CardAnswered)
  /\ \A a \in Agents : WF_agentFeedVars(MoveIsHandled(a)) /\ WF_agentFeedVars(CardIsHandled(a))

AgentFeedSpec == AgentFeedInit /\ [][AgentFeedNext]_agentFeedVars

-----------------------------------------------------------------------------
(* Properties. *)

AgentFeedTypeOK ==
  /\ status \in [Agents -> Status] /\ moved \in [Agents -> 0..MaxMoves]
  /\ cooling \in [Agents -> BOOLEAN] /\ Len(feed) <= MaxFeed
  /\ list \in [Agents -> Status \cup {"absent"}]
  /\ anchor \in [Agents -> Nat]
  /\ active \in Agents \cup {NoAgent} /\ moves \subseteq Agents
  /\ {online, submitting} \subseteq BOOLEAN
  /\ busy \in [Agents -> {"no", "rescue", "repair"}]
  /\ turns \in 0..MaxTurns

\* One relocation is under way at a time, although MOVE can be pressed for another
\* agent while the first is submitted and the two share one flag (relocationStore).
OneMoveAtATime ==
  /\ Cardinality(moves) + Cardinality(moveAnswers) <= 1
  /\ submitting <=> moves \cup moveAnswers # {}

\* An anchor stays, or grows, or goes back with the answer to the page's own move.
AnchorKept ==
  \A a \in Agents :
    anchor'[a] < anchor[a] =>
      /\ \E reply \in moveAnswers \ moveAnswers' : reply.agent = a /\ reply.at # 0
      /\ \E here, was \in ClockErrors \cup {0} :
           here < was /\ anchor'[a] = MovedAt(moved[a]) + here
                      /\ anchor[a] <= MovedAt(moved[a]) + was

\* The countdown of the MOVE button never starts earlier than it was known to: a list read
\* before a relocation does not bring the old cooldown back (seedCooldownAnchor).  Only the
\* answer to the page's own move may take it back, and then it tells of the latest
\* relocation, and goes back by no more than the browser's clock is wrong (useHexPick).
AnchorNeverGoesBack == [][AnchorKept]_agentFeedVars

\* Whatever was read late, lost or shown too early, the list ends up showing an
\* agent that mines or travels as what it is: mining:update repeats it with every
\* tick.  (A trapped agent is not repeated, and may be shown as mining for hours.)
MinersShowUp ==
  \A a \in Agents :
    <>[](list[a] # "absent" /\ status[a] # "TRAPPED" => list[a] = status[a])
=============================================================================
