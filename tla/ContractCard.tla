---------------------------- MODULE ContractCard ----------------------------
(***************************************************************************)
(* The contract card of the page.  useContracts asks for the contract when *)
(* somebody logs in and whenever the socket has joined its owner's room,   *)
(* and the room's events advance what was asked for.  Answers come in any  *)
(* order and beside the events; those come in order, while the page is in  *)
(* the room, and are lost otherwise.  Nothing clears the card: not a       *)
(* logout, not another account, not midnight.                              *)
(*                                                                         *)
(* What can happen inside a tick is in DailyContract, how the socket gets  *)
(* its identity in Session.  A contract is <<owner, day>>.                 *)
(***************************************************************************)
EXTENDS Integers, Sequences

CONSTANTS
  Cardholders, NoHolder,
  Gets,            \* GET /api/contracts that can be under way, numbered
  TARGET,          \* of every contract
  MaxCardDays,
  MaxRoom,         \* bound: messages on the socket
  MaxHitches       \* bound: logins and logouts, lines and requests that break,
                   \* transactions that fail

ASSUME CardAssumption ==
  /\ NoHolder \notin Cardholders /\ Gets \subseteq Nat
  /\ {TARGET, MaxCardDays} \subseteq Nat \ {0} /\ {MaxRoom, MaxHitches} \subseteq Nat

VARIABLES
  utcDay, drawn, progress, fulfilled, streaks,   \* the rows, with Redis' part of progress
  holder, card, cardStreak,                      \* walletStore, contractStore
  sockAs, inRoom, messages,                      \* identity of the socket, its room, its events
  cardAsked,                                     \* the page has emitted subscribe
  gets,
  misled,          \* history: what was applied last was older than the card, of another
                   \* contract or not true, or a load that should have followed failed
  hitches

cardRows   == <<utcDay, drawn, progress, fulfilled, streaks>>
cardSocket == <<sockAs, inRoom, messages, cardAsked>>
cardVars   == <<cardRows, holder, card, cardStreak, cardSocket, gets, misled, hitches>>

CardDays  == 1..MaxCardDays
Contracts == Cardholders \X CardDays
NoCard    == [of |-> NoHolder, day |-> 0, progress |-> 0, completed |-> FALSE]
NoGet     == [step |-> "none"]

CardInit ==
  /\ utcDay = 1 /\ drawn = {} /\ fulfilled = {}
  /\ progress = [c \in Contracts |-> 0] /\ streaks = [h \in Cardholders |-> 0]
  /\ holder = NoHolder /\ card = NoCard /\ cardStreak = 0
  /\ sockAs = NoHolder /\ inRoom = NoHolder /\ messages = <<>> /\ cardAsked = FALSE
  /\ gets = [g \in Gets |-> NoGet] /\ misled = FALSE /\ hitches = 0

Hitch == hitches < MaxHitches /\ hitches' = hitches + 1

-----------------------------------------------------------------------------
(* The server. *)

\* The reads of GET /api/contracts that have begun, which may have missed what is
\* only now being sent.
Begun == {g \in Gets : gets[g].step \in {"user", "row"}}

ToRoom(h, e) ==
  IF inRoom = h THEN Append(messages, [e EXCEPT !.missedBy = Begun]) ELSE messages

Event(type, c, n, true) ==
  [type |-> type, of |-> c[1], day |-> c[2], value |-> n, holds |-> true, missedBy |-> {}]

\* An agent has mined for the contract of today; most ticks say nothing of it.
Progressed(h) ==
  LET c == <<h, utcDay>> IN
  /\ c \in drawn \ fulfilled /\ progress[c] + 1 < TARGET /\ Len(messages) < MaxRoom
  /\ progress' = [progress EXCEPT ![c] = @ + 1]
  /\ messages' \in {messages, ToRoom(h, Event("progress", c, progress'[c], TRUE))}
  /\ UNCHANGED <<utcDay, drawn, fulfilled, streaks, holder, card, cardStreak, sockAs, inRoom,
                 cardAsked, gets, misled, hitches>>

\* The target is reached.  If the transaction fails the buffer is dropped all the same
\* (unless that fails too), and the event says that the contract is complete, streak 0.
Fulfilled(h, ok) ==
  LET c == <<h, utcDay>> IN
  /\ c \in drawn \ fulfilled /\ progress[c] + 1 = TARGET /\ Len(messages) < MaxRoom
  /\ IF ok
     THEN /\ progress' = [progress EXCEPT ![c] = TARGET]
          /\ fulfilled' = fulfilled \cup {c}
          /\ streaks' = [streaks EXCEPT ![h] = @ + 1]
          /\ messages' = ToRoom(h, Event("completed", c, streaks'[h], TRUE))
          /\ UNCHANGED hitches
     ELSE /\ Hitch
          /\ \E kept \in 0..progress[c] \cup {TARGET} :
               progress' = [progress EXCEPT ![c] = kept]
          /\ messages' = ToRoom(h, Event("completed", c, 0, FALSE))
          /\ UNCHANGED <<fulfilled, streaks>>
  /\ UNCHANGED <<utcDay, drawn, holder, card, cardStreak, sockAs, inRoom, cardAsked, gets,
                 misled>>

\* The tick breaks off between the buffer and the transaction: what has reached its
\* target is not completed by a later tick.
FulfilmentCut(h) ==
  LET c == <<h, utcDay>> IN
  /\ Hitch /\ c \in drawn \ fulfilled /\ progress[c] + 1 = TARGET
  /\ progress' = [progress EXCEPT ![c] = TARGET]
  /\ UNCHANGED <<utcDay, drawn, fulfilled, streaks, holder, card, cardStreak, cardSocket, gets,
                 misled>>

CardMidnight ==
  /\ utcDay < MaxCardDays /\ utcDay' = utcDay + 1
  /\ UNCHANGED <<drawn, progress, fulfilled, streaks, holder, card, cardStreak, cardSocket,
                 gets, misled, hitches>>

\* getOrCreateTodayContract reads the user, with the streak, and then the row, which it
\* draws if there is none.
UserRead(g) ==
  /\ gets[g].step = "sent"
  /\ gets' = [gets EXCEPT ![g] =
       [step |-> "user", of |-> gets[g].of, day |-> utcDay, streak |-> streaks[gets[g].of],
        overtaken |-> FALSE, after |-> Begun]]
  /\ UNCHANGED <<cardRows, holder, card, cardStreak, cardSocket, misled, hitches>>

RowRead(g) ==
  /\ gets[g].step = "user"
  /\ LET get == gets[g]
         c   == <<get.of, get.day>>
     IN /\ drawn' = drawn \cup {c}
        /\ gets' = [gets EXCEPT ![g] =
             [step |-> "row", streak |-> get.streak, overtaken |-> get.overtaken,
              after |-> get.after,
              contract |-> [of |-> get.of, day |-> get.day, progress |-> progress[c],
                            completed |-> c \in fulfilled]]]
  /\ UNCHANGED <<utcDay, progress, fulfilled, streaks, holder, card, cardStreak, cardSocket,
                 misled, hitches>>

-----------------------------------------------------------------------------
(* The page. *)

\* load() leaves with the cookie of the account that is shown.
Load ==
  IF holder' = NoHolder THEN gets' = gets
  ELSE \E g \in Gets :
         /\ gets[g] = NoGet /\ \A f \in Gets : gets[f] = NoGet => g <= f
         /\ gets' = [gets EXCEPT ![g] = [step |-> "sent", of |-> holder']]

\* The effect on isAuthenticated loads for somebody who logs in, not for an account
\* that replaces another.
HolderChanges(h) ==
  /\ Hitch /\ h # holder /\ holder' = h /\ cardAsked' = FALSE
  /\ IF holder = NoHolder THEN Load ELSE UNCHANGED gets
  /\ UNCHANGED <<cardRows, card, cardStreak, sockAs, inRoom, messages, misled>>

\* reconnectSocket after a login or a logout, or a line that breaks.
SocketRestarts ==
  /\ IF sockAs = holder THEN Hitch ELSE UNCHANGED hitches
  /\ sockAs' = holder /\ inRoom' = NoHolder /\ messages' = <<>> /\ cardAsked' = FALSE
  /\ UNCHANGED <<cardRows, holder, card, cardStreak, gets, misled>>

\* subscribe on 'connect' and on a change of the account; only its own identity gets a
\* socket into a room.
RoomAsked ==
  /\ holder # NoHolder /\ ~cardAsked /\ Len(messages) < MaxRoom /\ cardAsked' = TRUE
  /\ IF sockAs = holder
     THEN /\ inRoom' = holder
          /\ messages' = Append(messages, Event("ack", <<holder, utcDay>>, 0, TRUE))
     ELSE UNCHANGED <<inRoom, messages>>
  /\ UNCHANGED <<cardRows, holder, card, cardStreak, sockAs, gets, misled, hitches>>

AckIgnored == gets' = gets   \* Variant: nothing is asked for once the room is joined.

\* The answer to subscribe: what was missed outside of the room is asked for.
AckReconciles == Load

SetProgress(e) ==
  /\ card' = IF card = NoCard THEN card ELSE [card EXCEPT !.progress = e.value]
  /\ UNCHANGED cardStreak

MarkCompleted(e) ==
  /\ card' = IF card = NoCard THEN card ELSE [card EXCEPT !.completed = TRUE]
  /\ cardStreak' = e.value

OfCard(e) == e.of = card.of /\ e.day = card.day

\* The handlers are registered while somebody is logged in.
MessageApplied ==
  /\ messages # <<>> /\ messages' = Tail(messages) /\ UNCHANGED holder
  /\ LET e == Head(messages) IN
       IF e.type = "ack" THEN AckReconciles /\ UNCHANGED <<card, cardStreak, misled>>
       ELSE IF holder = NoHolder THEN UNCHANGED <<card, cardStreak, gets, misled>>
       ELSE /\ IF e.type = "progress" THEN SetProgress(e) ELSE MarkCompleted(e)
            /\ gets' = [g \in Gets |-> IF g \in e.missedBy /\ g \in Begun
                                       THEN [gets[g] EXCEPT !.overtaken = TRUE] ELSE gets[g]]
            /\ misled' = (misled \/ ~e.holds \/ ~OfCard(e))
  /\ UNCHANGED <<cardRows, sockAs, inRoom, cardAsked, hitches>>

\* setContract, whoever is logged in by now.
CardLoaded(g) ==
  /\ gets[g].step = "row"
  /\ card' = gets[g].contract /\ cardStreak' = gets[g].streak
  /\ misled' = (gets[g].overtaken \/ card'.of # holder)
  /\ gets' = [f \in Gets |-> IF f = g THEN NoGet
                             ELSE IF f \in Begun /\ f \in gets[g].after
                             THEN [gets[f] EXCEPT !.overtaken = TRUE] ELSE gets[f]]
  /\ UNCHANGED <<cardRows, holder, cardSocket, hitches>>

\* An error leaves the card as it is.
GetFails(g) ==
  /\ Hitch /\ gets[g] # NoGet /\ misled' = TRUE
  /\ gets' = [f \in Gets |-> IF f = g THEN NoGet
                             ELSE IF f \in Begun THEN [gets[f] EXCEPT !.overtaken = TRUE]
                             ELSE gets[f]]
  /\ UNCHANGED <<cardRows, holder, card, cardStreak, cardSocket>>

\* What ContractCard draws: the bar, and COMPLETE by the flag or by the bar.
BarIsFull     == card.progress >= TARGET
ShowsComplete == card # NoCard /\ (card.completed \/ BarIsFull)

-----------------------------------------------------------------------------

CardNext ==
  \/ \E h \in Cardholders : \/ Progressed(h) \/ FulfilmentCut(h)
                           \/ \E ok \in BOOLEAN : Fulfilled(h, ok)
  \/ \E h \in Cardholders \cup {NoHolder} : HolderChanges(h)
  \/ \E g \in Gets : UserRead(g) \/ RowRead(g) \/ CardLoaded(g) \/ GetFails(g)
  \/ CardMidnight \/ SocketRestarts \/ RoomAsked \/ MessageApplied

CardSpec == CardInit /\ [][CardNext]_cardVars

-----------------------------------------------------------------------------
(* Properties. *)

CardTypeOK ==
  /\ utcDay \in CardDays /\ drawn \cup fulfilled \subseteq Contracts
  /\ progress \in [Contracts -> 0..TARGET] /\ streaks \in [Cardholders -> 0..MaxCardDays]
  /\ {holder, sockAs, inRoom, card.of} \subseteq Cardholders \cup {NoHolder}
  /\ card.day \in CardDays \cup {0} /\ card.progress \in 0..TARGET
  /\ cardStreak \in 0..MaxCardDays
  /\ {card.completed, cardAsked, misled} \subseteq BOOLEAN /\ Len(messages) <= MaxRoom

\* The page is in its room, and nothing is on its way to it.
CardAtRest ==
  /\ holder # NoHolder /\ inRoom = holder /\ cardAsked
  /\ messages = <<>> /\ \A g \in Gets : gets[g] = NoGet

\* Whatever was lost while the page was out of its room, whoever was logged in before and
\* in whatever order answers and events came: at rest the card is of the account that is
\* shown, has its streak, shows a contract of today as complete if it is and not before
\* its target was reached, and no progress that was not made, unless something untrue or
\* out of order was the last to be applied (useContracts: the load after every
\* acknowledged subscribe).
CardIsTrue ==
  CardAtRest /\ ~misled =>
    /\ card.of = holder /\ cardStreak = streaks[holder]
    /\ LET c == <<holder, utcDay>> IN
         card.day = utcDay => /\ c \in fulfilled => ShowsComplete
                              /\ ShowsComplete => progress[c] = TARGET
                              /\ card.progress <= progress[c]
=============================================================================
