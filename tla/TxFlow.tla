------------------------------- MODULE TxFlow -------------------------------
(***************************************************************************)
(* A button that costs money: DEPLOY (useAgentDeploy over useSendAndConfirm*)
(* with useTransactionFlowToast) and CLAIM (useClaimEarnings, which has the*)
(* same loop inside and raises its toasts itself).  One press starts one   *)
(* flow: a request, then up to MAX_RETRIES times sign, send and poll, each *)
(* try with a higher priority fee and so with a signature of its own, all  *)
(* under one blockhash; then the server is told.  The flows of a hook share*)
(* its React state, and an effect turns that state into toasts some time   *)
(* after it was set.                                                       *)
(*                                                                         *)
(* A try is on its way, on the chain with effect, on the chain without, or *)
(* never sent.  A signature is <<flow, try>>; <<>> is none.  Toasts that   *)
(* go away by themselves are kept only as the last one told.               *)
(***************************************************************************)
EXTENDS Integers, FiniteSets

CONSTANTS
  Flows,          \* presses of the button, numbered
  MAX_RETRIES,
  ToastIds,
  MaxMishaps      \* bound: requests that fail or whose answer is lost, tries that
                  \* the chain refuses for no fault of theirs, toasts the user closes

ASSUME TxFlowAssumption ==
  /\ Flows \subseteq Nat /\ IsFiniteSet(Flows)
  /\ ToastIds \subseteq Nat \ {0} /\ Cardinality(ToastIds) > 2 * Cardinality(Flows) + 1
  /\ MAX_RETRIES \in Nat \ {0} /\ MaxMishaps \in Nat

VARIABLES
  kind,                        \* "deploy", "fake" (a deploy in FAKE_SOL_MODE), "claim"
  stage, try, outcome,         \* of each flow
  crossed,                     \* history: a flow was started before another had been sent
  onWay, took, failed, late,   \* of each flow: its tries, and its blockhash has expired
  txStatus, requesting, attempt, signature, sendError, flowError,    \* React state
  seen,                        \* what the toast effect ran with last
  sticky, activeToastId, told, \* the toasts that stay, the one the flow holds, the last one told
  txMishaps

chain  == <<onWay, took, failed, late>>
hook   == <<txStatus, requesting, attempt, signature, sendError, flowError>>
toasts == <<sticky, activeToastId, told>>
txFlowVars == <<kind, stage, try, outcome, crossed, chain, hook, seen, toasts, txMishaps>>

Tries == 0..MAX_RETRIES - 1
Error == IF flowError THEN "server" ELSE sendError
Deps  == <<txStatus, attempt, signature, Error>>

TxFlowInit ==
  /\ kind \in {"deploy", "fake", "claim"}
  /\ stage = [f \in Flows |-> "none"] /\ try = [f \in Flows |-> 0]
  /\ outcome = [f \in Flows |-> "none"] /\ crossed = FALSE
  /\ onWay = [f \in Flows |-> {}] /\ took = [f \in Flows |-> {}]
  /\ failed = [f \in Flows |-> {}] /\ late = [f \in Flows |-> FALSE]
  /\ txStatus = "idle" /\ requesting = FALSE /\ attempt = 0 /\ signature = <<>>
  /\ sendError = "none" /\ flowError = FALSE
  /\ seen = <<"idle", 0, <<>>, "none">>
  /\ sticky = {} /\ activeToastId = 0 /\ told = "none"
  /\ txMishaps = 0

TxMishap == txMishaps < MaxMishaps /\ txMishaps' = txMishaps + 1

-----------------------------------------------------------------------------
(* useTransactionToast, and the effect of useTransactionFlowToast. *)

Fresh == CHOOSE id \in ToastIds : id \notin sticky \cup {activeToastId}

ShowSending ==
  /\ sticky' = (sticky \ {activeToastId}) \cup {Fresh}
  /\ activeToastId' = Fresh /\ UNCHANGED told

\* showConfirming changes the words of the toast the flow holds, if it holds one.
ShowConfirming ==
  IF activeToastId = 0 THEN ShowSending ELSE UNCHANGED toasts

\* showSuccess, showError and showExpired replace it by one that goes away.
ShowEnd(what) ==
  sticky' = sticky \ {activeToastId} /\ activeToastId' = 0 /\ told' = what

\* A render after a change: React joins the changes that were made before it.
Render ==
  /\ kind # "claim" /\ Deps # seen
  /\ seen' = Deps
  /\ CASE txStatus = "idle"       -> activeToastId' = 0 /\ UNCHANGED <<sticky, told>>
       [] txStatus = "signing"    -> ShowSending
       [] txStatus = "confirming" -> IF signature # <<>> THEN ShowConfirming
                                     ELSE UNCHANGED toasts
       [] txStatus = "success"    -> IF signature # <<>> THEN ShowEnd("confirmed")
                                     ELSE activeToastId' = 0 /\ UNCHANGED <<sticky, told>>
       [] txStatus = "error"      -> IF seen[1] # "error"
                                     THEN ShowEnd(IF Error = "expired" THEN Error ELSE "failed")
                                     ELSE UNCHANGED toasts
       [] OTHER                   -> UNCHANGED toasts
  /\ UNCHANGED <<kind, crossed, stage, try, outcome, chain, hook, txMishaps>>

CloseToast ==
  /\ TxMishap /\ \E id \in sticky : sticky' = sticky \ {id}
  /\ UNCHANGED <<kind, crossed, stage, try, outcome, chain, hook, seen, activeToastId, told>>

-----------------------------------------------------------------------------
(* The flow. *)

\* isDeploying and isProcessing.
Processing ==
  IF kind = "claim" THEN txStatus \in {"building", "signing", "sending", "confirming"}
  ELSE ~flowError /\ (requesting \/ txStatus \in {"signing", "sending", "confirming"})

Goes(f, next) == stage' = [stage EXCEPT ![f] = next]
Ends(f, how)  == Goes(f, "done") /\ outcome' = [outcome EXCEPT ![f] = how]

\* The end of send() and of claim() in an error.
Breaks(f, how) ==
  /\ Ends(f, how)
  /\ txStatus' = "error" /\ sendError' = how
  /\ IF kind = "claim" THEN ShowEnd("failed") ELSE UNCHANGED toasts

\* The button, drawn with the state of now, starts the next flow.
Starts(f) ==
  /\ ~Processing
  /\ stage[f] = "none" /\ \A g \in Flows : g < f => stage[g] # "none"
  /\ Goes(f, "requesting")
  /\ flowError' = FALSE /\ sendError' = "none" /\ signature' = <<>> /\ attempt' = 0
  /\ crossed' = (crossed \/ \E g \in Flows : stage[g] \notin {"none", "server", "done"})
  /\ UNCHANGED <<kind, try, outcome, chain, seen, sticky, told, txMishaps>>

\* deploy() resets the send first.
PressDeploy(f) ==
  /\ kind # "claim" /\ seen = Deps
  /\ Starts(f) /\ requesting' = TRUE /\ txStatus' = "idle" /\ UNCHANGED activeToastId

\* claim() forgets the toast that it holds.
PressClaim(f) ==
  /\ kind = "claim"
  /\ Starts(f) /\ txStatus' = "building" /\ activeToastId' = 0 /\ UNCHANGED requesting

\* One turn of the loop up to the wallet's prompt.  'retrying' is overwritten
\* before React can draw it.
StartsTry(f, n) ==
  /\ Goes(f, "signing") /\ try' = [try EXCEPT ![f] = n]
  /\ txStatus' = "signing" /\ attempt' = n
  /\ IF kind = "claim" THEN ShowSending ELSE UNCHANGED toasts

DeployRequested(f, ok) ==
  /\ kind # "claim" /\ stage[f] = "requesting" /\ requesting' = FALSE
  /\ \/ /\ ok /\ kind = "fake" /\ Goes(f, "server")
        /\ UNCHANGED <<try, outcome, txStatus, attempt, signature, sendError, flowError, toasts,
                       txMishaps>>
     \/ /\ ok /\ kind = "deploy" /\ StartsTry(f, 0)
        /\ signature' = <<>> /\ sendError' = "none" /\ UNCHANGED <<outcome, flowError, txMishaps>>
     \/ /\ ~ok /\ TxMishap /\ Ends(f, "failed") /\ flowError' = TRUE
        /\ UNCHANGED <<try, txStatus, attempt, signature, sendError, toasts>>
  /\ UNCHANGED <<kind, crossed, chain, seen>>

ClaimBuilt(f, ok) ==
  /\ kind = "claim" /\ stage[f] = "requesting"
  /\ \/ ok /\ StartsTry(f, 0) /\ UNCHANGED <<outcome, sendError, txMishaps>>
     \/ ~ok /\ TxMishap /\ Breaks(f, "failed") /\ UNCHANGED <<try, attempt>>
  /\ UNCHANGED <<kind, crossed, chain, requesting, signature, flowError, seen>>

\* A refusal ends a claim; a deploy asks again like after any error.
Signed(f, agrees) ==
  /\ stage[f] = "signing"
  /\ IF agrees THEN UNCHANGED txMishaps ELSE TxMishap
  /\ \/ /\ agrees /\ Goes(f, "sending") /\ txStatus' = "sending"
        /\ UNCHANGED <<outcome, sendError, toasts>>
     \/ /\ ~agrees /\ kind = "claim" /\ Breaks(f, "failed")
     \/ /\ ~agrees /\ kind # "claim" /\ Goes(f, "caught")
        /\ UNCHANGED <<outcome, txStatus, sendError, toasts>>
  /\ UNCHANGED <<kind, crossed, try, chain, requesting, attempt, signature, flowError, seen>>

\* Whether a try of this flow can still do what it is for: the deploy is a plain
\* transfer, claim_earnings pays what the allowance exceeds claimed_total by.
Pays(f) == kind = "claim" => took[f] = {}

\* sendRawTransaction runs the transaction first and takes it or does not.  Its
\* answer may be lost.
Submitted(f, taken, answered) ==
  /\ stage[f] = "sending" /\ (taken => ~late[f] /\ Pays(f))
  /\ IF taken <=> answered THEN UNCHANGED txMishaps ELSE TxMishap
  /\ onWay' = IF taken THEN [onWay EXCEPT ![f] = @ \cup {try[f]}] ELSE onWay
  /\ IF taken /\ answered
     THEN /\ Goes(f, "polling")
          /\ signature' = <<f, try[f]>> /\ txStatus' = "confirming"
          /\ IF kind = "claim" THEN ShowConfirming ELSE UNCHANGED toasts
     ELSE Goes(f, "caught") /\ UNCHANGED <<signature, txStatus, toasts>>
  /\ UNCHANGED <<kind, crossed, try, outcome, took, failed, late, requesting, attempt, sendError,
                 flowError, seen>>

\* The chain takes a try while the blockhash is valid.
Lands(f) ==
  /\ ~late[f]
  /\ \E n \in onWay[f] :
       /\ onWay' = [onWay EXCEPT ![f] = @ \ {n}]
       /\ \/ /\ Pays(f) /\ took' = [took EXCEPT ![f] = @ \cup {n}]
             /\ UNCHANGED <<failed, txMishaps>>
          \/ /\ failed' = [failed EXCEPT ![f] = @ \cup {n}] /\ UNCHANGED took
             /\ IF Pays(f) THEN TxMishap ELSE UNCHANGED txMishaps
  /\ UNCHANGED <<kind, crossed, stage, try, outcome, late, hook, seen, toasts>>

\* The block height passes lastValidBlockHeight: what has not landed never will.
HeightPasses(f) ==
  /\ stage[f] \notin {"none", "requesting"} /\ kind # "fake" /\ ~late[f]
  /\ late' = [late EXCEPT ![f] = TRUE] /\ onWay' = [onWay EXCEPT ![f] = {}]
  /\ UNCHANGED <<kind, crossed, stage, try, outcome, took, failed, hook, seen, toasts, txMishaps>>

\* confirmTransactionUntilExpiry asks for the height, then for the status.
ExpirySeen(f) == late[f]

Polled(f, answered) ==
  /\ stage[f] = "polling"
  /\ \/ /\ (answered /\ ExpirySeen(f)) \/ (~answered /\ TxMishap)
           \/ (answered /\ ~ExpirySeen(f) /\ try[f] \in failed[f])
        /\ Goes(f, "caught") /\ UNCHANGED txStatus
     \/ /\ answered /\ ~ExpirySeen(f) /\ try[f] \in took[f]
        /\ Goes(f, "server")
        /\ txStatus' = IF kind = "claim" THEN txStatus ELSE "success"
  /\ IF answered THEN UNCHANGED txMishaps ELSE TRUE
  /\ UNCHANGED <<kind, crossed, try, outcome, chain, requesting, attempt, signature, sendError,
                 flowError, seen, toasts>>

GivesUpEarly(f, answered) ==   \* Variant: the last try is called expired as well.
  IF answered THEN "expired" ELSE "failed"

GivesUp(f, answered) == IF answered /\ late[f] THEN "expired" ELSE "failed"

\* The catch block of a try asks for the height again.
Recovers(f, answered) ==
  /\ stage[f] = "caught"
  /\ IF answered THEN UNCHANGED txMishaps ELSE TxMishap
  /\ IF ~answered \/ late[f] \/ try[f] = MAX_RETRIES - 1
     THEN /\ Breaks(f, GivesUp(f, answered))
          /\ UNCHANGED <<try, attempt>>
     ELSE StartsTry(f, try[f] + 1) /\ UNCHANGED <<outcome, sendError>>
  /\ UNCHANGED <<kind, crossed, chain, requesting, signature, flowError, seen>>

\* POST /earnings/confirm: a claim that cannot be confirmed is sent again.
ClaimConfirmed(f, ok) ==
  /\ kind = "claim" /\ stage[f] = "server"
  /\ \/ /\ ok /\ Ends(f, "done")
        /\ txStatus' = "success" /\ ShowEnd("confirmed") /\ UNCHANGED txMishaps
     \/ ~ok /\ TxMishap /\ Goes(f, "caught") /\ UNCHANGED <<outcome, txStatus, toasts>>
  /\ UNCHANGED <<kind, crossed, try, chain, requesting, attempt, signature, sendError, flowError,
                 seen>>

\* POST /agents/confirm: a deploy is not sent again, and its toasts are those of the
\* send, but in FAKE_SOL_MODE.
DeployConfirmed(f, ok) ==
  /\ kind # "claim" /\ stage[f] = "server"
  /\ \/ /\ ok /\ Ends(f, "done") /\ UNCHANGED <<flowError, txMishaps>>
        /\ told' = IF kind = "fake" THEN "confirmed" ELSE told
     \/ /\ ~ok /\ TxMishap /\ Ends(f, "unconfirmed") /\ flowError' = TRUE
        /\ told' = IF kind = "fake" THEN "failed" ELSE told
  /\ UNCHANGED <<kind, crossed, try, chain, txStatus, requesting, attempt, signature, sendError,
                 seen, sticky, activeToastId>>

-----------------------------------------------------------------------------

TxAnswer(f) ==
  \E ok \in BOOLEAN : \/ DeployRequested(f, ok) \/ ClaimBuilt(f, ok)
                      \/ Polled(f, ok) \/ Recovers(f, ok)
                      \/ ClaimConfirmed(f, ok) \/ DeployConfirmed(f, ok)
                      \/ \E answered \in BOOLEAN : Submitted(f, ok, answered)

TxFlowNext ==
  \/ \E f \in Flows :
       \/ PressDeploy(f) \/ PressClaim(f) \/ TxAnswer(f) \/ Lands(f) \/ HeightPasses(f)
       \/ \E agrees \in BOOLEAN : Signed(f, agrees)
  \/ Render \/ CloseToast

TxFlowSpec == TxFlowInit /\ [][TxFlowNext]_txFlowVars

-----------------------------------------------------------------------------
(* Properties. *)

TxFlowTypeOK ==
  /\ stage \in [Flows -> {"none", "requesting", "signing", "sending", "polling", "caught",
                          "server", "done"}]
  /\ try \in [Flows -> Tries]
  /\ outcome \in [Flows -> {"none", "failed", "expired", "unconfirmed", "done"}]
  /\ \A x \in {onWay, took, failed} : x \in [Flows -> SUBSET Tries]
  /\ late \in [Flows -> BOOLEAN]
  /\ txStatus \in {"idle", "building", "signing", "sending", "confirming", "success", "error"}
  /\ {requesting, flowError} \subseteq BOOLEAN /\ attempt \in Tries
  /\ sticky \subseteq ToastIds /\ activeToastId \in ToastIds \cup {0}

\* What the page calls expired cannot be paid later: nothing of that flow is still
\* on its way, so the user who presses again does not race the old transaction
\* (the height is asked for in the catch block, after the send).
ExpiredIsOver == \A f \in Flows : outcome[f] = "expired" => onWay[f] = {}

\* However many tries of a claim were sent and took effect or did not, a claim pays
\* once, and one that the page calls done was paid (useClaimEarnings sends the whole
\* claim again when only the server's confirmation failed).
ClaimPaysOnce ==
  kind = "claim" => \A f \in Flows : /\ Cardinality(took[f]) <= 1
                                     /\ outcome[f] = "done" => took[f] # {}

\* The toast that has to be taken down by the flow is gone when no flow is under
\* way, whichever renders React left out and whatever the user closed, as long as
\* no flow was started into the sends of another.
NoToastStays ==
  /\ ~crossed /\ \A f \in Flows : stage[f] \in {"none", "done"}
  /\ kind # "claim" => Deps = seen
  => sticky = {}

\* A paid flow is safe and ends for good: a claim pays once, a flow that gave up has
\* nothing under way any more, and no toast of it stays.
PaidFlowIsSafe == ClaimPaysOnce /\ ExpiredIsOver /\ NoToastStays
=============================================================================
