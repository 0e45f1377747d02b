----------------------------- MODULE WorldClock -----------------------------
(***************************************************************************)
(* The day of the world.  The server derives the phase from its own clock; *)
(* a browser derives the same from a clock that may be wrong, corrected at *)
(* every world:update by the offset that makes the two agree, and shows    *)
(* the phase and nextPhaseAt of the last update as they came.  Updates of  *)
(* the socket are in order and lost while it is down; the snapshot of GET  *)
(* /api/world comes when it comes.                                         *)
(*                                                                         *)
(* Time is a counter in a unit that divides every phase.  pos is the       *)
(* server's place in the cycle; the browser's clock is skew units ahead.   *)
(* An update carries the place at which it was made and its age.           *)
(***************************************************************************)
EXTENDS Integers, Sequences

CONSTANTS
  PHASE_ORDER, PHASE_DURATIONS,
  Skews,           \* how far a browser's clock can be ahead
  MaxAge,          \* bound: how long the socket delays an update
  MaxSnapAge,      \* bound: how long GET /api/world takes
  MaxFlaws         \* bound: lost connections, clocks set, phases forced

Phases == DOMAIN PHASE_ORDER

\* PHASE_START_SECONDS: where the n-th phase ends.
Elapsed[n \in 0..Len(PHASE_ORDER)] ==
  IF n = 0 THEN 0 ELSE Elapsed[n - 1] + PHASE_DURATIONS[PHASE_ORDER[n]]
CYCLE_SECONDS == Elapsed[Len(PHASE_ORDER)]

ASSUME ClockAssumption ==
  /\ PHASE_ORDER \in Seq(DOMAIN PHASE_DURATIONS) /\ \E n \in Phases : PHASE_ORDER[n] = "dusk"
  /\ \A n \in Phases : PHASE_DURATIONS[PHASE_ORDER[n]] \in Nat \ {0}
  /\ 0 \in Skews /\ Skews \subseteq Int /\ {MaxAge, MaxSnapAge, MaxFlaws} \subseteq Nat

VARIABLES
  pos, skew,
  updates, linked,             \* world:update on the socket: <<[at, age], ...>>; it is up
  snapshot, fetched,           \* the answer of GET /api/world under way; it is over
  clockReady, phase, nextIn,   \* worldStore; nextIn is nextPhaseAt less the server's time
  offset, devOverride,
  chimed, overlap,             \* history: golden hours announced since the last one began;
                               \* the snapshot and the socket have crossed
  flaws

browserClock == <<clockReady, phase, nextIn, offset, devOverride, chimed, overlap>>
clockGet     == <<snapshot, fetched>>
clockVars    == <<pos, skew, updates, linked, clockGet, browserClock, flaws>>

Place(n) == n % CYCLE_SECONDS

\* The walk over the phase table of getWorldState and of phaseAtCycleT.
PhaseIndex ==
  [at \in 0..CYCLE_SECONDS - 1 |-> CHOOSE n \in Phases : Elapsed[n - 1] <= at /\ at < Elapsed[n]]
PhaseAt(at) == PHASE_ORDER[PhaseIndex[at]]
ToNext(at)  == Elapsed[PhaseIndex[at]] - at

Golden(at)  == PhaseAt(at) = "golden_hour"

\* A message is under way for less than a cycle, and not from one golden hour into the
\* next: between them are 22 minutes, more than a socket or a request waits.
ASSUME DelayAssumption ==
  /\ {MaxAge, MaxSnapAge} \subseteq 0..CYCLE_SECONDS - 1
  /\ \A at \in 0..CYCLE_SECONDS - 1 : \A b \in 0..MaxAge + 1 \cup 0..MaxSnapAge + 1 :
       Golden(at) /\ Golden(Place(at - b)) => \A a \in 0..b : Golden(Place(at - a))

ClockInit ==
  /\ pos \in 0..CYCLE_SECONDS - 1 /\ skew \in Skews
  /\ updates = <<>> /\ linked = TRUE /\ snapshot = <<>> /\ fetched = FALSE
  /\ clockReady = FALSE /\ phase = "dusk" /\ nextIn = -CYCLE_SECONDS
  /\ offset = 0 /\ devOverride = -1
  /\ chimed = 0 /\ overlap = FALSE /\ flaws = 0

Flaw == flaws < MaxFlaws /\ flaws' = flaws + 1

-----------------------------------------------------------------------------

Aged(queue) == [n \in DOMAIN queue |-> [queue[n] EXCEPT !.age = @ + 1]]

ClockAdvances ==
  /\ \A n \in DOMAIN updates : updates[n].age < MaxAge
  /\ \A n \in DOMAIN snapshot : snapshot[n].age < MaxSnapAge
  /\ pos' = Place(pos + 1)
  /\ updates' = Aged(updates) /\ snapshot' = Aged(snapshot)
  /\ nextIn' = IF nextIn > -CYCLE_SECONDS THEN nextIn - 1 ELSE nextIn
  /\ chimed' = IF Golden(pos') THEN chimed ELSE 0
  /\ UNCHANGED <<skew, linked, fetched, clockReady, phase, offset, devOverride, overlap, flaws>>

State == [at |-> pos, age |-> 0]

\* Every tick broadcasts world:update; two within one unit are one.
ClockBroadcast ==
  /\ linked /\ \A n \in DOMAIN updates : updates[n].age > 0
  /\ updates' = Append(updates, State)
  /\ UNCHANGED <<pos, skew, linked, clockGet, browserClock, flaws>>

SnapshotRead ==
  /\ ~fetched /\ snapshot = <<>> /\ snapshot' = <<State>>
  /\ UNCHANGED <<pos, skew, updates, linked, fetched, browserClock, flaws>>

\* cycleSecondsAt by the browser's own clock.
LocalSeconds == Place(pos + skew)

WrappedNot(d) == d   \* Variant: the offset may be nearly a cycle.

Wrapped(d) == IF 2 * d > CYCLE_SECONDS THEN d - CYCLE_SECONDS
              ELSE IF 2 * d < -CYCLE_SECONDS THEN d + CYCLE_SECONDS ELSE d

Reconciled(at) == Wrapped(at - LocalSeconds)

\* The subscription of useWorldClock plays a fanfare when phase becomes golden.
Chimes(to) == to = "golden_hour" /\ phase # to

\* applyUpdate.
Applied(data) ==
  /\ clockReady' = TRUE
  /\ phase' = PhaseAt(data.at)
  /\ nextIn' = ToNext(data.at) - data.age
  /\ offset' = Reconciled(data.at)
  /\ chimed' = IF Chimes(phase') THEN chimed + 1 ELSE chimed

UpdateApplied ==
  /\ updates # <<>> /\ updates' = Tail(updates)
  /\ Applied(Head(updates))
  /\ overlap' = (overlap \/ ~fetched)
  /\ UNCHANGED <<pos, skew, linked, clockGet, devOverride, flaws>>

SnapshotApplied ==
  /\ snapshot # <<>> /\ snapshot' = <<>> /\ fetched' = TRUE
  /\ Applied(snapshot[1])
  /\ overlap' = (overlap \/ updates # <<>>)
  /\ UNCHANGED <<pos, skew, updates, linked, devOverride, flaws>>

\* loadWorld fails soft.
SnapshotLost ==
  /\ Flaw /\ ~fetched /\ fetched' = TRUE /\ snapshot' = <<>>
  /\ UNCHANGED <<pos, skew, updates, linked, browserClock>>

ClockLinkDrops ==
  /\ Flaw /\ linked /\ linked' = FALSE /\ updates' = <<>>
  /\ UNCHANGED <<pos, skew, clockGet, browserClock>>

ClockLinkReturns ==
  /\ ~linked /\ linked' = TRUE
  /\ UNCHANGED <<pos, skew, updates, clockGet, browserClock, flaws>>

\* The user or NTP sets the clock of the machine.
BrowserClockSet ==
  /\ Flaw /\ skew' \in Skews \ {skew}
  /\ UNCHANGED <<pos, updates, linked, clockGet, browserClock>>

\* window.__setPhase: the sky is held in the middle of the phase, the name of the
\* phase only until the next update.
SetDevPhase(n) ==
  /\ Flaw
  /\ devOverride' = Elapsed[n - 1] + PHASE_DURATIONS[PHASE_ORDER[n]] \div 2
  /\ phase' = PHASE_ORDER[n] /\ clockReady' = TRUE /\ overlap' = TRUE
  /\ chimed' = IF Chimes(phase') THEN chimed + 1 ELSE chimed
  /\ UNCHANGED <<pos, skew, updates, linked, clockGet, nextIn, offset>>

ClearDevPhase ==
  /\ devOverride # -1 /\ devOverride' = -1
  /\ UNCHANGED <<pos, skew, updates, linked, clockGet, clockReady, phase, nextIn, offset,
                 chimed, overlap, flaws>>

-----------------------------------------------------------------------------

ClockNext ==
  \/ ClockAdvances \/ ClockBroadcast \/ SnapshotRead \/ UpdateApplied \/ SnapshotApplied
  \/ SnapshotLost \/ ClockLinkDrops \/ ClockLinkReturns \/ BrowserClockSet \/ ClearDevPhase
  \/ \E n \in Phases : SetDevPhase(n)

\* Time passes, the tick loop goes on, the socket comes back and delivers, and the
\* one request is answered.
ClockFair ==
  /\ WF_clockVars(ClockAdvances) /\ WF_clockVars(ClockBroadcast)
  /\ WF_clockVars(UpdateApplied) /\ WF_clockVars(ClockLinkReturns)
  /\ WF_clockVars(SnapshotRead) /\ WF_clockVars(SnapshotApplied)

ClockSpec == ClockInit /\ [][ClockNext]_clockVars

-----------------------------------------------------------------------------
(* What the page draws: the sky by the corrected clock, the countdown by   *)
(* nextPhaseAt and the browser's own clock, or by the corrected one.       *)

SmoothPlace == IF devOverride # -1 THEN devOverride ELSE Place(LocalSeconds + offset)

Countdown == IF nextIn - skew > 0 THEN nextIn - skew ELSE ToNext(SmoothPlace)

-----------------------------------------------------------------------------
(* Properties. *)

ClockTypeOK ==
  /\ pos \in 0..CYCLE_SECONDS - 1 /\ skew \in Skews
  /\ \A n \in DOMAIN updates : updates[n].age \in 0..MaxAge
  /\ Len(snapshot) <= 1 /\ {linked, fetched, clockReady, overlap} \subseteq BOOLEAN
  /\ \E n \in Phases : phase = PHASE_ORDER[n]
  /\ nextIn \in -CYCLE_SECONDS..CYCLE_SECONDS
  /\ 2 * offset \in -CYCLE_SECONDS..CYCLE_SECONDS
  /\ devOverride \in -1..CYCLE_SECONDS - 1 /\ flaws \in 0..MaxFlaws

\* How far the sky of the page is behind the server's.
Behind == Place(pos - SmoothPlace)

\* However wrong the browser's clock is, and whenever it is set or the connection
\* lost, the sky ends up no further behind the server than one update is delayed
\* (applyUpdate computes the offset anew from the raw clock every time).
SkyCatchesUp == <>[](devOverride = -1 => Behind <= MaxAge)

\* The page announces a golden hour once, unless the snapshot of the page load
\* and the updates crossed or a phase was forced (useWorldClock compares with the
\* phase it saw last, and updates arrive in order).
GoldenHourOnce == ~overlap => chimed <= 1

\* With the browser's clock right and the last update fresh, the countdown is the
\* time to the next phase, also when that phase has begun and no update has said
\* so (PhaseClock and WorldRail fall back on the corrected clock).
CountdownIsRight ==
  clockReady /\ devOverride = -1 /\ skew = 0 /\ Behind = 0 => Countdown = ToNext(pos)
=============================================================================
