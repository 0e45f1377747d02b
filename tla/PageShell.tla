----------------------------- MODULE PageShell -----------------------------
(***************************************************************************)
(* From the first render to the first sound: the mount effect of App with  *)
(* the configuration and the clicks, the readiness that four parts of the  *)
(* page report, the StartScreen that waits for it, and the audio graph     *)
(* that its START unlocks.                                                 *)
(*                                                                         *)
(* The browser decides in which state an audio context begins, whether and *)
(* when resume() settles, and when the system takes the sound away.        *)
(***************************************************************************)
EXTENDS Naturals

CONSTANTS
  MaxShell         \* bound: what the user, the window and the browser do unasked

ASSUME ShellAssumption == MaxShell \in Nat

VARIABLES
  effect,                      \* App's: "none", "on", "off" between two runs, "again"
  socketUp, clickListeners,
  configCall, configCalls,     \* inFlight; history: requests sent
  awaiting, loaded, mode,      \* configStore: loadConfig calls under way, its state
  readiness,                   \* readinessStore
  startScreen, minElapsed,     \* "none", "up", "leaving", "gone"; dismissedRef is not "up"
  audioCtx, unlocked, unlocking,   \* "none", "suspended", "running"; unlock() calls under way
  running, engines, schedTimers,   \* music.ts; sets of persistent voices; its intervals
  muted, gain,                 \* the setting; the master gain, "none" without a graph
  pressed,                     \* history: START was pressed
  shellTurns

boot       == <<effect, socketUp, clickListeners>>
configVars == <<configCall, configCalls, awaiting, loaded, mode>>
screenVars == <<startScreen, minElapsed>>
engine     == <<running, engines, schedTimers>>
audioVars  == <<audioCtx, unlocked, unlocking, engine, muted, gain>>
shellVars  == <<boot, configVars, readiness, screenVars, audioVars, pressed, shellTurns>>

READINESS_ORDER == <<"config", "world", "socket", "render">>
Signals == {READINESS_ORDER[n] : n \in DOMAIN READINESS_ORDER}

ShellInit ==
  /\ effect = "none" /\ socketUp = FALSE /\ clickListeners = 0
  /\ configCall = "none" /\ configCalls = 0 /\ awaiting = 0 /\ loaded = FALSE /\ mode = "default"
  /\ readiness = {} /\ startScreen = "none" /\ minElapsed = FALSE
  /\ audioCtx = "none" /\ unlocked = FALSE /\ unlocking = 0
  /\ running = FALSE /\ engines = 0 /\ schedTimers = 0
  /\ muted \in BOOLEAN /\ gain = "none"
  /\ pressed = FALSE /\ shellTurns = 0

ShellTurn == shellTurns < MaxShell /\ shellTurns' = shellTurns + 1

MarkReady(signals) == readiness' = readiness \cup signals

-----------------------------------------------------------------------------
(* The configuration. *)

FetchUnshared ==   \* Variant: inFlight is not looked at.
  configCall' = "sent" /\ configCalls' = configCalls + 1

\* fetchServerConfig: callers share the request that is under way.
FetchServerConfig ==
  /\ configCall' = "sent"
  /\ configCalls' = IF configCall = "sent" THEN configCalls ELSE configCalls + 1

LoadConfig ==
  IF loaded THEN UNCHANGED configVars
  ELSE FetchServerConfig /\ awaiting' = awaiting + 1 /\ UNCHANGED <<loaded, mode>>

\* An error leaves the defaults, and loadConfig takes them for the answer.
ConfigAnswered(to) ==
  /\ configCall = "sent" /\ configCall' = "none"
  /\ awaiting' = 0 /\ loaded' = TRUE /\ mode' = to
  /\ MarkReady({"config"})
  /\ UNCHANGED <<boot, configCalls, screenVars, audioVars, pressed, shellTurns>>

-----------------------------------------------------------------------------
(* The effect of App; StrictMode runs it, cleans up and runs it again. *)

InstallUiClickSound == IF clickListeners = 0 THEN clickListeners' = 1 ELSE UNCHANGED clickListeners

EffectOnlyListens ==   \* Variant: a socket that is connected already is not noticed.
  /\ effect \in {"none", "off"} /\ effect' = IF effect = "none" THEN "on" ELSE "again"
  /\ LoadConfig
  /\ UNCHANGED readiness
  /\ InstallUiClickSound
  /\ startScreen' = IF effect = "none" THEN "up" ELSE startScreen
  /\ UNCHANGED <<socketUp, minElapsed, audioVars, pressed, shellTurns>>

EffectRuns ==
  /\ effect \in {"none", "off"} /\ effect' = IF effect = "none" THEN "on" ELSE "again"
  /\ LoadConfig
  /\ MarkReady(IF socketUp THEN {"socket"} ELSE {})
  /\ InstallUiClickSound
  /\ startScreen' = IF effect = "none" THEN "up" ELSE startScreen
  /\ UNCHANGED <<socketUp, minElapsed, audioVars, pressed, shellTurns>>

EffectCleans ==
  /\ ShellTurn /\ effect = "on" /\ effect' = "off"
  /\ clickListeners' = clickListeners - 1
  /\ UNCHANGED <<socketUp, configVars, readiness, screenVars, audioVars, pressed>>

SocketConnects ==
  /\ effect # "none" /\ ~socketUp /\ socketUp' = TRUE
  /\ MarkReady(IF effect = "off" THEN {} ELSE {"socket"})
  /\ UNCHANGED <<effect, clickListeners, configVars, screenVars, audioVars, pressed, shellTurns>>

SocketFails ==
  /\ ShellTurn /\ socketUp /\ socketUp' = FALSE
  /\ UNCHANGED <<effect, clickListeners, configVars, readiness, screenVars, audioVars, pressed>>

\* worldStore.applyUpdate, and setHexData when the terrain has been generated.
WorldSeen ==
  /\ effect # "none" /\ \E s \in {"world", "render"} \ readiness : MarkReady({s})
  /\ UNCHANGED <<boot, configVars, screenVars, audioVars, pressed, shellTurns>>

-----------------------------------------------------------------------------
(* The audio graph. *)

ApplyGains(off) == gain' = IF off THEN "shut" ELSE "open"

\* buildNodes and the interval of the scheduler.
Start ==
  IF running \/ ~(unlocked' /\ audioCtx' = "running") THEN UNCHANGED engine
  ELSE running' = TRUE /\ engines' = engines + 1 /\ schedTimers' = schedTimers + 1

\* unlock, as far as it goes at once: a context that runs needs no resume.
Unlock ==
  /\ audioCtx' \in IF audioCtx = "none" THEN {"suspended", "running"} ELSE {audioCtx}
  /\ ApplyGains(muted)
  /\ IF audioCtx' = "running" THEN unlocked' = TRUE /\ UNCHANGED unlocking /\ Start
     ELSE unlocking' = unlocking + 1 /\ UNCHANGED <<unlocked, engine>>

\* resume() settled, one way or the other; then START's music.start().
ResumeSettles(ok) ==
  /\ unlocking > 0 /\ unlocking' = unlocking - 1
  /\ audioCtx' = IF ok THEN "running" ELSE audioCtx
  /\ unlocked' = (audioCtx' = "running") /\ ApplyGains(muted) /\ Start
  /\ UNCHANGED <<boot, configVars, readiness, screenVars, muted, pressed, shellTurns>>

\* A call that interrupts, a device that is unplugged.
SystemTurnsSound ==
  /\ ShellTurn /\ audioCtx # "none"
  /\ audioCtx' = IF audioCtx = "running" THEN "suspended" ELSE "running"
  /\ UNCHANGED <<boot, configVars, readiness, screenVars, unlocked, unlocking, engine, muted,
                 gain, pressed>>

\* AudioToggle: the setting, and the graph when there is one.
ToggleMuted ==
  /\ ShellTurn /\ startScreen # "none" /\ muted' = ~muted
  /\ IF audioCtx = "none" THEN UNCHANGED gain ELSE ApplyGains(~muted)
  /\ UNCHANGED <<boot, configVars, readiness, screenVars, audioCtx, unlocked, unlocking, engine,
                 pressed>>

-----------------------------------------------------------------------------
(* StartScreen. *)

ReadyCount == {n \in DOMAIN READINESS_ORDER : READINESS_ORDER[n] \in readiness}
CanStart == readiness = Signals /\ minElapsed

MinElapses ==
  /\ startScreen \in {"up", "leaving"} /\ ~minElapsed /\ minElapsed' = TRUE
  /\ UNCHANGED <<boot, configVars, readiness, startScreen, audioVars, pressed, shellTurns>>

\* dismiss, once for each screen: START, Enter or Escape.
Dismiss ==
  /\ CanStart /\ startScreen = "up" /\ startScreen' = "leaving"
  /\ pressed' = TRUE
  /\ Unlock
  /\ UNCHANGED <<boot, configVars, readiness, minElapsed, muted, shellTurns>>

Fades ==
  /\ startScreen = "leaving" /\ startScreen' = "gone"
  /\ UNCHANGED <<boot, configVars, readiness, minElapsed, audioVars, pressed, shellTurns>>

\* Across 768 px App renders the other layout, which mounts a StartScreen of its own.
LayoutChanges ==
  /\ ShellTurn /\ startScreen # "none"
  /\ startScreen' = "up" /\ minElapsed' = FALSE
  /\ UNCHANGED <<boot, configVars, readiness, audioVars, pressed>>

\* What StartScreen shows: its segments and the label of the first that is missing, or START.
StartParts ==
  CASE startScreen \in {"none", "gone"} -> {}
    [] CanStart -> {"start"}
    [] OTHER -> {READINESS_ORDER[n] : n \in ReadyCount}
                  \cup (IF readiness = Signals THEN {"ready"} ELSE {"label"})

-----------------------------------------------------------------------------

ShellNext ==
  \/ EffectRuns \/ EffectCleans \/ SocketConnects \/ SocketFails \/ WorldSeen
  \/ \E to \in {"default", "server"} : ConfigAnswered(to)
  \/ \E ok \in BOOLEAN : ResumeSettles(ok)
  \/ SystemTurnsSound \/ ToggleMuted
  \/ MinElapses \/ Dismiss \/ Fades \/ LayoutChanges

\* Requests are answered or fail, the socket connects, React runs its effects and the
\* timers of the page fire.
ShellFair ==
  /\ WF_shellVars(EffectRuns) /\ WF_shellVars(SocketConnects) /\ WF_shellVars(WorldSeen)
  /\ WF_shellVars(\E to \in {"default", "server"} : ConfigAnswered(to))
  /\ WF_shellVars(MinElapses)

ShellSpec == ShellInit /\ [][ShellNext]_shellVars /\ ShellFair

-----------------------------------------------------------------------------
(* Properties. *)

ShellTypeOK ==
  /\ readiness \subseteq Signals /\ startScreen \in {"none", "up", "leaving", "gone"}
  /\ audioCtx \in {"none", "suspended", "running"} /\ gain \in {"none", "open", "shut"}
  /\ {minElapsed, unlocked, running, muted, socketUp, loaded} \subseteq BOOLEAN
  /\ unlocking \in Nat /\ awaiting \in 0..2 /\ clickListeners \in 0..1

\* The configuration is asked for once, however often the effect runs, and once it is
\* there the loading bar says so.
ConfigAskedOnce == configCalls <= 1 /\ (loaded => "config" \in readiness)

\* One music at a time, with one scheduler, however many START screens were dismissed.
OneMusic == engines = schedTimers /\ engines = (IF running THEN 1 ELSE 0)

\* Nothing sounds before START was pressed, and the graph is as loud as the setting says,
\* whatever was toggled before there was one.
SoundIsAsked ==
  /\ engines > 0 \/ audioCtx # "none" => pressed
  /\ gain # "none" => gain = (IF muted THEN "shut" ELSE "open")

\* The bar says "ready" exactly when START only waits for the minimum time.
BarIsHonest == "ready" \in StartParts => StartParts = Signals \cup {"ready"} /\ ~minElapsed

\* The loading screen never hangs: whatever fails, in the end START can be pressed.
LoadingEnds == <>[](startScreen = "up" => CanStart)

\* The page wakes quietly: one request for its configuration, an honest loading bar, no
\* sound before START and one music after it.
PageWakes == ConfigAskedOnce /\ OneMusic /\ SoundIsAsked /\ BarIsHonest
=============================================================================
