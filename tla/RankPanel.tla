------------------------------ MODULE RankPanel ------------------------------
(***************************************************************************)
(* The LEADERBOARD panel.  While it is open useLeaderboard asks for the    *)
(* board at once and then every REFRESH_INTERVAL, whether or not the last  *)
(* request was answered, and applies the answers as they come.  The server *)
(* recognizes the user by the cookie, reads the top of the board and then  *)
(* where the user is; the page does not ask again when somebody logs in or *)
(* out.  Closing the panel drops its state with the answers that are due.  *)
(*                                                                         *)
(* Of the board only what concerns one's own place is kept: whether the    *)
(* user is in its top, below it or not on it.  The order of the board and  *)
(* the percentile are in Seasons.                                          *)
(***************************************************************************)
EXTENDS Naturals

CONSTANTS
  Viewers, NoViewer,
  Fetches,         \* requests that can be under way at once, numbered
  MaxTurmoil       \* bound: logins and logouts, changes of the board, requests that
                   \* fail, presses of the button of the panel

ASSUME RankAssumption == NoViewer \notin Viewers /\ MaxTurmoil \in Nat

VARIABLES
  place,                       \* Redis: "top", "below" or "none" for each user
  viewer,                      \* whose cookie the browser has
  rankOpen, rankLoading, rankError, marked, below,   \* useState of the panel: whose row
                               \* is highlighted, whose rank was sent along
  fetches,
  turmoil

rankPanel == <<rankOpen, rankLoading, rankError, marked, below>>
rankVars  == <<place, viewer, rankPanel, fetches, turmoil>>

NoFetch == [step |-> "none"]

RankInit ==
  /\ place = [v \in Viewers |-> "none"] /\ viewer = NoViewer
  /\ rankOpen = FALSE /\ rankLoading = TRUE /\ rankError = FALSE
  /\ marked = NoViewer /\ below = NoViewer
  /\ fetches = [f \in Fetches |-> NoFetch] /\ turmoil = 0

Turmoil == turmoil < MaxTurmoil /\ turmoil' = turmoil + 1

-----------------------------------------------------------------------------
(* Around the panel. *)

PlaceChanges(v) ==
  /\ Turmoil /\ \E p \in {"top", "below", "none"} : place' = [place EXCEPT ![v] = p]
  /\ UNCHANGED <<viewer, rankPanel, fetches>>

ViewerChanges ==
  /\ Turmoil /\ viewer' \in (Viewers \cup {NoViewer}) \ {viewer}
  /\ UNCHANGED <<place, rankPanel, fetches>>

\* A closed panel is unmounted; an opened one starts from the initial state and asks.
PanelToggled ==
  /\ Turmoil /\ rankOpen' = ~rankOpen
  /\ rankLoading' = TRUE /\ rankError' = FALSE /\ marked' = NoViewer /\ below' = NoViewer
  /\ \E f \in Fetches :
       fetches' = [g \in Fetches |-> IF rankOpen' /\ g = f THEN [step |-> "sent", of |-> viewer]
                                     ELSE NoFetch]
  /\ UNCHANGED <<place, viewer>>

-----------------------------------------------------------------------------
(* useLeaderboard and GET /api/leaderboard. *)

IntervalStops == rankOpen /\ ~rankLoading /\ rankError  \* Variant: only an error is retried.

IntervalRuns == rankOpen

IntervalFires ==
  /\ IntervalRuns
  /\ \E f \in Fetches :
       fetches[f] = NoFetch /\ fetches' = [fetches EXCEPT ![f] = [step |-> "sent", of |-> viewer]]
  /\ UNCHANGED <<place, viewer, rankPanel, turmoil>>

\* getTopUsers.
TopRead(f) ==
  /\ fetches[f].step = "sent"
  /\ LET of == fetches[f].of IN
       fetches' = [fetches EXCEPT ![f] =
         [step |-> "top", of |-> of, inTop |-> of # NoViewer /\ place[of] = "top"]]
  /\ UNCHANGED <<place, viewer, rankPanel, turmoil>>

\* getUserRank: the row of the top is marked for a user who still has a rank.
RankRead(f) ==
  /\ fetches[f].step = "top"
  /\ LET of     == fetches[f].of
         ranked == of # NoViewer /\ place[of] # "none"
     IN fetches' = [fetches EXCEPT ![f] =
          [step |-> "read", marked |-> IF ranked /\ fetches[f].inTop THEN of ELSE NoViewer,
           rank |-> IF ranked THEN of ELSE NoViewer]]
  /\ UNCHANGED <<place, viewer, rankPanel, turmoil>>

BoardApplied(f) ==
  /\ fetches[f].step = "read" /\ fetches' = [fetches EXCEPT ![f] = NoFetch]
  /\ marked' = fetches[f].marked /\ below' = fetches[f].rank
  /\ rankError' = FALSE /\ rankLoading' = FALSE
  /\ UNCHANGED <<place, viewer, rankOpen, turmoil>>

BoardFails(f) ==
  /\ Turmoil /\ fetches[f] # NoFetch /\ fetches' = [fetches EXCEPT ![f] = NoFetch]
  /\ rankError' = TRUE /\ rankLoading' = FALSE
  /\ UNCHANGED <<place, viewer, rankOpen, marked, below>>

-----------------------------------------------------------------------------
(* Leaderboard: the skeleton, the error or the rows, with one's own highlighted or as *)
(* a row YOU below them.                                                              *)

UserInTop10 == marked # NoViewer

RankContent ==
  IF rankLoading THEN "skeleton" ELSE IF rankError THEN "error" ELSE "rows"

YouRow == IF ~UserInTop10 /\ below # NoViewer THEN below ELSE NoViewer

-----------------------------------------------------------------------------

RankNext ==
  \/ \E v \in Viewers : PlaceChanges(v)
  \/ ViewerChanges \/ PanelToggled \/ IntervalFires
  \/ \E f \in Fetches : TopRead(f) \/ RankRead(f) \/ BoardApplied(f) \/ BoardFails(f)

\* The interval runs as long as the panel is there, and requests are answered.
RankFair ==
  /\ WF_rankVars(IntervalFires)
  /\ \A f \in Fetches : /\ WF_rankVars(TopRead(f))
                        /\ WF_rankVars(RankRead(f)) /\ WF_rankVars(BoardApplied(f))

RankSpec == RankInit /\ [][RankNext]_rankVars /\ RankFair

-----------------------------------------------------------------------------
(* Properties. *)

RankTypeOK ==
  /\ place \in [Viewers -> {"top", "below", "none"}]
  /\ {viewer, marked, below} \subseteq Viewers \cup {NoViewer}
  /\ {rankOpen, rankLoading, rankError} \subseteq BOOLEAN

\* An open panel ends up with rows in which exactly the one who is logged in is pointed
\* out, at the place where the board has them, whatever answers of another account, of an
\* older board or none at all came in between (useLeaderboard's interval; a request that
\* was overtaken is repaired by a later one).
RanksCatchUp ==
  <>[](rankOpen =>
         /\ RankContent = "rows"
         /\ marked = (IF viewer # NoViewer /\ place[viewer] = "top" THEN viewer ELSE NoViewer)
         /\ YouRow = (IF viewer # NoViewer /\ place[viewer] = "below" THEN viewer ELSE NoViewer))
=============================================================================
