------------------------------ MODULE GoldRush ------------------------------
(***************************************************************************)
(* The gold rush and the last-seen stamps it pays by.  A rush opens at     *)
(* every RUSH_INTERVAL; if the community mines its target within           *)
(* RUSH_DURATION, the first tick after its end boosts everyone whose       *)
(* lastActiveAt lies in the rush.  The record is in memory, with a copy in *)
(* Redis that a restart reads and whose writes may fail; a tick is several *)
(* awaits long and works with the time at which it started.  lastActiveAt  *)
(* is written by touchLastActive at most once a minute and user.           *)
(*                                                                         *)
(* Time is a counter, one unit being longer than the throttle of a stamp   *)
(* and than any write to Postgres.  A record is <<>> or <<r>>.             *)
(***************************************************************************)
EXTENDS Integers, Sequences, FiniteSets

CONSTANTS
  Players,
  RUSH_INTERVAL, RUSH_DURATION, GOLD_RUSH_BOOST_MS,
  RUSH_TARGET_MIN, RUSH_TARGET_PER_AGENT,
  MaxTime, MaxYield,    \* bounds: the clock, the yield of one tick
  MaxMiners,            \* bound: agents that mine when a rush opens
  MaxTroubles           \* bound: failed statements and crashes

ASSUME RushAssumption ==
  /\ {RUSH_INTERVAL, RUSH_DURATION, GOLD_RUSH_BOOST_MS, RUSH_TARGET_MIN} \subseteq Nat \ {0}
  /\ {RUSH_TARGET_PER_AGENT, MaxTime, MaxYield, MaxMiners, MaxTroubles} \subseteq Nat
  /\ RUSH_DURATION + GOLD_RUSH_BOOST_MS < RUSH_INTERVAL

VARIABLES
  now, serving,
  record, stored,               \* the record in memory and its copy in Redis
  boosted,                      \* Redis: until when a player is boosted, 0 for not
  rushPc, rushNow, winners,     \* the tick: next step, its startTime, the players it found
  lastActiveAt, lastWrite,      \* the column and the throttle map; -1 for never
  writing,                      \* the updates of the column under way
  rushMined,                    \* history: mined of the resource in each rush
  present,                      \* history: who was seen in which rush
  fate,                         \* history: what became of a rush that was achieved
  attended,                     \* history: after which rushes a tick ran to its end
                                \* before the next rush
  troubles

rushState == <<record, stored, boosted, rushPc, rushNow, winners>>
stamps    == <<lastActiveAt, lastWrite, writing>>
rushHistory == <<rushMined, present, fate, attended>>
rushVars  == <<now, serving, rushState, stamps, rushHistory, troubles>>

WindowIndex(t)  == t \div RUSH_INTERVAL
WindowStart(w)  == w * RUSH_INTERVAL
WindowEnd(w)    == WindowStart(w) + RUSH_DURATION
IsRushActive(t) == t < WindowEnd(WindowIndex(t))
RushWindows     == 0..WindowIndex(MaxTime)

\* RUSH_TARGET_PER_AGENT for every agent, and at least the minimum.
RushTarget(n) ==
  IF RUSH_TARGET_PER_AGENT * n > RUSH_TARGET_MIN THEN RUSH_TARGET_PER_AGENT * n
  ELSE RUSH_TARGET_MIN

RushInit ==
  /\ now = 0 /\ serving = TRUE
  /\ record = <<>> /\ stored = <<>> /\ boosted = [u \in Players |-> 0]
  /\ rushPc = "idle" /\ rushNow = 0 /\ winners = {}
  /\ lastActiveAt = [u \in Players |-> -1] /\ lastWrite = [u \in Players |-> -1]
  /\ writing = {}
  /\ rushMined = [w \in RushWindows |-> 0] /\ present = {}
  /\ fate = [w \in RushWindows |-> "none"] /\ attended = {} /\ troubles = 0

Trouble == troubles < MaxTroubles /\ troubles' = troubles + 1

\* Every unit of time is long enough for a tick to have started and for every
\* write to have come back.
TimePasses ==
  /\ now < MaxTime /\ now' = now + 1 /\ writing = {}
  /\ UNCHANGED <<serving, rushState, stamps, rushHistory, troubles>>

-----------------------------------------------------------------------------
(* touchLastActive. *)

Touch(u) ==
  /\ serving
  /\ present' = IF IsRushActive(now) \/ now = WindowEnd(WindowIndex(now))
                THEN present \cup {<<u, WindowIndex(now)>>} ELSE present
  /\ IF lastWrite[u] = now THEN UNCHANGED <<lastWrite, writing>>
     ELSE /\ lastWrite' = [lastWrite EXCEPT ![u] = now]
          /\ writing' = writing \cup {<<u, now>>}
  /\ UNCHANGED <<now, serving, rushState, lastActiveAt, rushMined, fate, attended, troubles>>

\* On a failure the throttle is taken back, unless it is a newer one.
TouchWritten(ok) ==
  /\ \E write \in writing :
       /\ writing' = writing \ {write}
       /\ IF ok
          THEN /\ lastActiveAt' = [lastActiveAt EXCEPT ![write[1]] = write[2]]
               /\ UNCHANGED <<lastWrite, troubles>>
          ELSE /\ Trouble /\ UNCHANGED lastActiveAt
               /\ lastWrite' = [lastWrite EXCEPT ![write[1]] = IF @ = write[2] THEN -1 ELSE @]
  /\ UNCHANGED <<now, serving, rushState, rushHistory>>

-----------------------------------------------------------------------------
(* tickGoldRush and what the tick loop does around it. *)

\* persistRecord: a failure is only logged.
Persist(ok) ==
  IF ok THEN stored' = record' /\ UNCHANGED troubles ELSE Trouble /\ UNCHANGED stored

RushTickStarts ==
  /\ serving /\ rushPc = "idle" /\ rushNow' = now
  /\ rushPc' = IF /\ IsRushActive(now)
                  /\ record = <<>> \/ record[1].window # WindowIndex(now)
               THEN "open" ELSE "settle"
  /\ UNCHANGED <<now, serving, record, stored, boosted, winners, stamps, rushHistory, troubles>>

Unsettled == record # <<>> /\ record[1].achieved /\ record[1].boostUntil = 0

\* The agents that mine are counted, and the new record replaces the old one, also one
\* that was achieved and has not been settled: the boost of that rush is lost.
OpenRush(ok) ==
  /\ rushPc = "open" /\ rushPc' = "settle"
  /\ fate' = [w \in RushWindows |-> IF Unsettled /\ w = record[1].window /\ fate[w] = "won"
                                    THEN "overrun" ELSE fate[w]]
  /\ \E n \in 0..MaxMiners :
       record' = <<[window |-> WindowIndex(rushNow), progress |-> 0,
                    target |-> RushTarget(n), achieved |-> FALSE, boostUntil |-> 0]>>
  /\ Persist(ok)
  /\ UNCHANGED <<now, serving, boosted, rushNow, winners, stamps, rushMined, present, attended>>

DueAtEnd  == Unsettled /\ rushNow = WindowEnd(record[1].window)   \* Variant: not later.
Due       == Unsettled /\ rushNow >= WindowEnd(record[1].window)

UsersActiveSince(w) == {u \in Players : lastActiveAt[u] >= WindowStart(w)}   \* Variant.

UsersActiveInWindow(w) == {u \in Players : lastActiveAt[u] \in WindowStart(w)..WindowEnd(w)}

SettleRush ==
  /\ rushPc = "settle"
  /\ IF Due THEN rushPc' = "grant" /\ winners' = UsersActiveInWindow(record[1].window)
     ELSE rushPc' = "accrue" /\ UNCHANGED winners
  /\ UNCHANGED <<now, serving, record, stored, boosted, rushNow, stamps, rushHistory, troubles>>

GrantBoosts ==
  /\ rushPc = "grant" /\ rushPc' = "mark"
  /\ boosted' = [u \in Players |-> IF u \in winners
                   THEN WindowEnd(record[1].window) + GOLD_RUSH_BOOST_MS ELSE boosted[u]]
  /\ UNCHANGED <<now, serving, record, stored, rushNow, winners, stamps, rushHistory, troubles>>

MarkSettled(ok) ==
  /\ rushPc = "mark" /\ rushPc' = "accrue" /\ winners' = {}
  /\ record' = [record EXCEPT ![1].boostUntil = WindowEnd(record[1].window) + GOLD_RUSH_BOOST_MS]
  /\ Persist(ok)
  /\ fate' = [fate EXCEPT ![record[1].window] = "settled"]
  /\ UNCHANGED <<now, serving, boosted, rushNow, stamps, rushMined, present, attended>>

\* loadGoldRushBoosts drops the boosts that are over; accrueGoldRush adds what the
\* whole tick mined, if the rush it belongs to still runs by the tick's clock.
AccrueRush(amount, ok) ==
  /\ rushPc = "accrue" /\ rushPc' = "idle"
  /\ boosted' = [u \in Players |-> IF boosted[u] > rushNow THEN boosted[u] ELSE 0]
  /\ IF /\ amount > 0 /\ record # <<>> /\ IsRushActive(rushNow)
        /\ record[1].window = WindowIndex(rushNow) /\ ~record[1].achieved
     THEN /\ record' = [record EXCEPT ![1].progress = @ + amount,
                          ![1].achieved = record[1].progress + amount >= record[1].target]
          /\ rushMined' = [rushMined EXCEPT ![record[1].window] = @ + amount]
          /\ fate' = [fate EXCEPT ![record[1].window] = IF record'[1].achieved THEN "won" ELSE @]
          /\ Persist(ok)
     ELSE ok /\ UNCHANGED <<record, stored, rushMined, fate, troubles>>
  /\ attended' = IF IsRushActive(rushNow) THEN attended ELSE attended \cup {WindowIndex(rushNow)}
  /\ UNCHANGED <<now, serving, rushNow, winners, stamps, present>>

\* A statement throws and the tick ends, or the process does.
RushTickThrows ==
  /\ Trouble /\ rushPc \in {"open", "settle", "grant", "accrue"}
  /\ rushPc' = "idle" /\ winners' = {}
  /\ UNCHANGED <<now, serving, record, stored, boosted, rushNow, stamps, rushHistory>>

RushCrash ==
  /\ Trouble /\ serving /\ serving' = FALSE
  /\ record' = <<>> /\ rushPc' = "idle" /\ winners' = {}
  /\ lastWrite' = [u \in Players |-> -1] /\ writing' \in SUBSET writing
  /\ UNCHANGED <<now, stored, boosted, rushNow, lastActiveAt, rushHistory>>

\* rehydrateGoldRush starts empty when Redis cannot be read; the copy there is behind
\* where its last write failed.
RehydrateGoldRush(ok) ==
  /\ ~serving /\ serving' = TRUE
  /\ IF ok THEN record' = stored /\ UNCHANGED troubles ELSE Trouble /\ record' = <<>>
  /\ fate' = [w \in RushWindows |->
                IF fate[w] = "won" /\ ~(Unsettled' /\ record'[1].window = w)
                THEN "unread" ELSE fate[w]]
  /\ UNCHANGED <<now, stored, boosted, rushPc, rushNow, winners, stamps, rushMined, present,
                 attended>>

-----------------------------------------------------------------------------

RushTickMoves ==
  \/ RushTickStarts \/ SettleRush \/ GrantBoosts
  \/ \E ok \in BOOLEAN : OpenRush(ok) \/ MarkSettled(ok)
                         \/ \E amount \in 0..MaxYield : AccrueRush(amount, ok)

RushNext ==
  \/ TimePasses \/ \E u \in Players : Touch(u)
  \/ \E ok \in BOOLEAN : TouchWritten(ok) \/ RehydrateGoldRush(ok)
  \/ RushTickMoves \/ RushTickThrows \/ RushCrash

\* Time passes, the loop ticks for ever, and the process is started again.
RushFair ==
  /\ WF_rushVars(TimePasses) /\ WF_rushVars(RushTickMoves)
  /\ WF_rushVars(\E ok \in BOOLEAN : RehydrateGoldRush(ok))
  /\ WF_rushVars(\E ok \in BOOLEAN : TouchWritten(ok))

RushSpec == RushInit /\ [][RushNext]_rushVars

-----------------------------------------------------------------------------
(* Properties. *)

RushTypeOK ==
  /\ now \in 0..MaxTime /\ serving \in BOOLEAN
  /\ \A r \in {record, stored} : Len(r) <= 1
  /\ boosted \in [Players -> 0..MaxTime + GOLD_RUSH_BOOST_MS] /\ winners \subseteq Players
  /\ rushPc \in {"idle", "open", "settle", "grant", "mark", "accrue"}
  /\ lastActiveAt \in [Players -> -1..MaxTime] /\ lastWrite \in [Players -> -1..MaxTime]
  /\ writing \subseteq Players \X (0..MaxTime) /\ present \subseteq Players \X RushWindows
  /\ fate \in [RushWindows -> {"none", "won", "settled", "overrun", "unread"}]
  /\ attended \subseteq RushWindows /\ troubles \in 0..MaxTroubles

\* Whoever is boosted was seen during a rush, and in that rush the community mined
\* at least the minimum: no late tick, restart or lost copy pays someone who came
\* afterwards or for a target that was not met (tickGoldRush).
BoostWasEarned ==
  \A u \in Players : boosted[u] # 0 =>
    \E w \in RushWindows : /\ boosted[u] = WindowEnd(w) + GOLD_RUSH_BOOST_MS
                           /\ rushMined[w] >= RUSH_TARGET_MIN
                           /\ <<u, w>> \in present

\* The boost of an achieved rush is forgotten for a cause: the next rush opens over its
\* record though from its end until then no tick ran to its end, or a restart finds no
\* trace of it and more than the restart went wrong.
Excused(w) == \/ fate[w] = "overrun" /\ w \notin attended
              \/ fate[w] = "unread"  /\ troubles > 1

LostForCause == \A w \in RushWindows : fate[w] \in {"overrun", "unread"} => Excused(w)

\* In the end every rush was missed or is settled, or its record is lost for a cause
\* (tickGoldRush, rehydrateGoldRush): a late tick, a statement of the settling that throws
\* and a restart in time delay the boost and do not forget it.
RushSettles ==
  <>[](\A w \in RushWindows : fate[w] \in {"none", "settled"} \/ Excused(w))

\* The throttle hides nobody: a user it turns away has a stamp of that minute in
\* the column or on its way (touchLastActive stamps the map before the write).
ThrottleHidesNobody ==
  \A u \in Players : lastWrite[u] # -1 =>
    lastActiveAt[u] = lastWrite[u] \/ <<u, lastWrite[u]>> \in writing

\* A rush pays those who were there, whoever was there can be found, and what was
\* achieved is not forgotten without a cause.
RushIsFair == BoostWasEarned /\ ThrottleHidesNobody /\ LostForCause
=============================================================================
