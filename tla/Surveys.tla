------------------------------ MODULE Surveys -------------------------------
(***************************************************************************)
(* Prospecting.  POST /api/hexes/survey looks at the caller's cooldown,    *)
(* records the reveal and arms the cooldown, in three steps; the page adds *)
(* the answer to the reveals that a list of GET /api/surveys replaces      *)
(* whenever it comes.  One page, whose user may change, and one more call  *)
(* of the same users: another tab, or a call that the page gave up while   *)
(* the server goes on with it.                                             *)
(***************************************************************************)
EXTENDS Naturals

CONSTANTS
  Surveyors, NoSurveyor,
  Seeded, Unseeded,   \* hexes that the page draws: with a row in the database, without
  Loads,              \* bound: lists under way at once
  MaxGlitches         \* bound: failed statements and lost answers

Prospects == Seeded \cup Unseeded

ASSUME SurveyAssumption ==
  NoSurveyor \notin Surveyors /\ Seeded \cap Unseeded = {} /\ MaxGlitches \in Nat

VARIABLES
  surveyRows, surveyCooling,        \* table Survey; the key survey:cooldown:<user> exists
  surveyCalls, lists,               \* POSTs of the page and of elsewhere; GETs
  visitor, surveys, surveyInFlight,
  unwritten, revealsInCooldown, \* history: reveals whose row was not written; reveals
                              \* recorded while the cooldown was armed
  glitches

surveyStore == <<surveyRows, surveyCooling, unwritten, revealsInCooldown>>
surveyPage  == <<visitor, surveys, surveyInFlight>>
surveyVars  == <<surveyStore, surveyPage, surveyCalls, lists, glitches>>

NoCall == [step |-> "none"]
NoList == [step |-> "none"]

SurveysInit ==
  /\ surveyRows = {} /\ surveyCooling = [a \in Surveyors |-> FALSE]
  /\ surveyCalls = [c \in {"page", "elsewhere"} |-> NoCall] /\ lists = [l \in Loads |-> NoList]
  /\ visitor \in Surveyors /\ surveys = {} /\ surveyInFlight = FALSE
  /\ unwritten = {} /\ revealsInCooldown = [a \in Surveyors |-> 0] /\ glitches = 0

Glitch == glitches < MaxGlitches /\ glitches' = glitches + 1

-----------------------------------------------------------------------------
(* POST /api/hexes/survey. *)

SurveyCooldownRemaining(a) == surveyCooling[a]

ArmSurveyCooldown(a) == surveyCooling' = [surveyCooling EXCEPT ![a] = TRUE]

\* hexSnapshot: null for a hex without a row.
HexSnapshot(h) == IF h \in Seeded THEN {h} ELSE {}

CheckedByHex(c) ==   \* Variant: the cooldown is asked for the hex that was surveyed before.
  LET call == surveyCalls[c] IN
  /\ call.step = "sent"
  /\ surveyCalls' = [surveyCalls EXCEPT ![c].step =
       IF SurveyCooldownRemaining(call.by) /\ <<call.by, call.hex>> \in surveyRows THEN "cold"
       ELSE IF HexSnapshot(call.hex) = {} THEN "failed" ELSE "passed"]
  /\ UNCHANGED <<surveyStore, surveyPage, lists, glitches>>

SurveyChecked(c) ==
  LET call == surveyCalls[c] IN
  /\ call.step = "sent"
  /\ surveyCalls' = [surveyCalls EXCEPT ![c].step =
       IF SurveyCooldownRemaining(call.by) THEN "cold"
       ELSE IF HexSnapshot(call.hex) = {} THEN "failed" ELSE "passed"]
  /\ UNCHANGED <<surveyStore, surveyPage, lists, glitches>>

\* recordSurvey swallows every error, not only that of the unique key.
RecordSurvey(call, ok) ==
  LET row == <<call.by, call.hex>> IN
  /\ surveyRows' = IF ok THEN surveyRows \cup {row} ELSE surveyRows
  /\ unwritten' = IF ok \/ row \in surveyRows THEN unwritten ELSE unwritten \cup {row}

SurveyRecorded(c, ok) ==
  LET call == surveyCalls[c] IN
  /\ call.step = "passed"
  /\ IF ok THEN UNCHANGED glitches ELSE Glitch
  /\ RecordSurvey(call, ok)
  /\ revealsInCooldown' = IF surveyCooling[call.by]
       THEN [revealsInCooldown EXCEPT ![call.by] = @ + 1] ELSE revealsInCooldown
  /\ surveyCalls' = [surveyCalls EXCEPT ![c].step = "recorded"]
  /\ UNCHANGED <<surveyCooling, surveyPage, lists>>

SurveyArmed(c) ==
  /\ surveyCalls[c].step = "recorded"
  /\ ArmSurveyCooldown(surveyCalls[c].by)
  /\ surveyCalls' = [surveyCalls EXCEPT ![c].step = "revealed"]
  /\ UNCHANGED <<surveyRows, unwritten, revealsInCooldown, surveyPage, lists, glitches>>

\* A throw of Redis or of the database on the way: 500.
SurveyFails(c) ==
  /\ Glitch /\ surveyCalls[c].step \in {"sent", "passed", "recorded"}
  /\ surveyCalls' = [surveyCalls EXCEPT ![c].step = "failed"]
  /\ UNCHANGED <<surveyStore, surveyPage, lists>>

CooldownEnds(a) ==
  /\ surveyCooling[a] /\ surveyCooling' = [surveyCooling EXCEPT ![a] = FALSE]
  /\ revealsInCooldown' = [revealsInCooldown EXCEPT ![a] = 0]
  /\ UNCHANGED <<surveyRows, unwritten, surveyPage, surveyCalls, lists, glitches>>

-----------------------------------------------------------------------------
(* The page. *)

Call(h) == [step |-> "sent", by |-> visitor, hex |-> h]

\* submitSurvey: by the button or the S key on the hex of the panel.
SubmitSurvey(h) ==
  /\ ~surveyInFlight /\ visitor # NoSurveyor /\ h \notin surveys
  /\ surveyInFlight' = TRUE
  /\ surveyCalls' = [surveyCalls EXCEPT !["page"] = Call(h)]
  /\ UNCHANGED <<surveyStore, visitor, surveys, lists, glitches>>

SurveyElsewhere(h) ==
  /\ surveyCalls["elsewhere"] = NoCall /\ visitor # NoSurveyor
  /\ surveyCalls' = [surveyCalls EXCEPT !["elsewhere"] = Call(h)]
  /\ UNCHANGED <<surveyStore, surveyPage, lists, glitches>>

SurveyOver(c) == surveyCalls[c].step \in {"revealed", "cold", "failed"}

AddSurvey(h) == surveys' = surveys \cup {h}

SurveyAnswered ==
  /\ SurveyOver("page")
  /\ IF surveyCalls["page"].step = "revealed" THEN AddSurvey(surveyCalls["page"].hex) ELSE UNCHANGED surveys
  /\ surveyInFlight' = FALSE
  /\ surveyCalls' = [surveyCalls EXCEPT !["page"] = NoCall]
  /\ UNCHANGED <<surveyStore, visitor, lists, glitches>>

AnsweredElsewhere ==
  /\ SurveyOver("elsewhere")
  /\ surveyCalls' = [surveyCalls EXCEPT !["elsewhere"] = NoCall]
  /\ UNCHANGED <<surveyStore, surveyPage, lists, glitches>>

\* surveyHex rejects because the line is cut; the server does not notice.
SurveyCut ==
  /\ Glitch /\ surveyCalls["page"] # NoCall /\ surveyCalls["elsewhere"] = NoCall
  /\ surveyCalls' = [page |-> NoCall, elsewhere |-> surveyCalls["page"]]
  /\ surveyInFlight' = FALSE
  /\ UNCHANGED <<surveyStore, visitor, surveys, lists>>

\* load: on login and after every acknowledged subscription.
LoadStarts(l) ==
  /\ visitor # NoSurveyor /\ lists[l] = NoList
  /\ lists' = [lists EXCEPT ![l] = [step |-> "sent", by |-> visitor]]
  /\ UNCHANGED <<surveyStore, surveyPage, surveyCalls, glitches>>

UserSurveys(a) == {h \in Seeded : <<a, h>> \in surveyRows}

SurveysRead(l) ==
  /\ lists[l].step = "sent"
  /\ lists' = [lists EXCEPT ![l] = [step |-> "read", rows |-> UserSurveys(lists[l].by)]]
  /\ UNCHANGED <<surveyStore, surveyPage, surveyCalls, glitches>>

SetSurveys(rows) == surveys' = rows

SurveysLoaded(l) ==
  /\ lists[l].step = "read" /\ SetSurveys(lists[l].rows)
  /\ lists' = [lists EXCEPT ![l] = NoList]
  /\ UNCHANGED <<surveyStore, visitor, surveyInFlight, surveyCalls, glitches>>

\* fetchSurveys fails: the reveals stay as they are.
LoadFails(l) ==
  /\ Glitch /\ lists[l] # NoList /\ lists' = [lists EXCEPT ![l] = NoList]
  /\ UNCHANGED <<surveyStore, surveyPage, surveyCalls>>

\* Login and logout leave contractStore alone.
VisitorChanges(a) ==
  /\ Glitch /\ visitor' = a /\ a # visitor
  /\ UNCHANGED <<surveyStore, surveys, surveyInFlight, surveyCalls, lists>>

-----------------------------------------------------------------------------

SurveysNext ==
  \/ \E c \in DOMAIN surveyCalls :
       \/ SurveyChecked(c) \/ SurveyArmed(c) \/ SurveyFails(c)
       \/ \E ok \in BOOLEAN : SurveyRecorded(c, ok)
  \/ \E a \in Surveyors : CooldownEnds(a)
  \/ \E h \in Prospects : SubmitSurvey(h) \/ SurveyElsewhere(h)
  \/ SurveyAnswered \/ AnsweredElsewhere \/ SurveyCut
  \/ \E l \in Loads : LoadStarts(l) \/ SurveysRead(l) \/ SurveysLoaded(l) \/ LoadFails(l)
  \/ \E a \in Surveyors \cup {NoSurveyor} : VisitorChanges(a)

SurveysSpec == SurveysInit /\ [][SurveysNext]_surveyVars

-----------------------------------------------------------------------------
(* Properties. *)

SurveysTypeOK ==
  /\ surveyRows \cup unwritten \subseteq Surveyors \X Seeded /\ surveyCooling \in [Surveyors -> BOOLEAN]
  /\ visitor \in Surveyors \cup {NoSurveyor} /\ surveys \subseteq Seeded

\* The check of the cooldown is not one step with its arming: what slips through is the
\* one call that had passed it when it was armed (surveyService.surveyCooldownRemaining).
CooldownHolds == \A a \in Surveyors : revealsInCooldown[a] <= 1

\* surveyInFlight is set for exactly as long as the page waits: no press is lost once
\* the answer is there, whatever it is (HexTooltip.submitSurvey).
FlagFollowsCall == surveyInFlight <=> surveyCalls["page"] # NoCall

\* A hex that is shown as surveyed has its row, so it stays surveyed after a reload,
\* unless the row was not written and nobody was told (surveyService.recordSurvey).
ShownIsRecorded == \A h \in surveys : \E a \in Surveyors : <<a, h>> \in surveyRows \cup unwritten

\* A survey is paid for and kept: the cooldown lets through the one call that had passed
\* it, the page waits for exactly the call it made, and what it shows has its row.
SurveysAreKept == CooldownHolds /\ FlagFollowsCall /\ ShownIsRecorded
=============================================================================
