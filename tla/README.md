# LandMind, specified

LandMind is a browser game: agents stand on the hexes of a map and mine ore, a
server advances them every five seconds, and the ore mined decides how half of the
fees in an on-chain treasury is shared among the players. This directory holds a
TLA+ development of the program: modules translated from its source, instances that
TLC checks, and proofs that TLAPS checks. `PROJECT.json` maps every definition to
the lines it stands for and lists runs, mutants, hazards, findings and theorems.

## 1. The system

| Component | State it keeps | Operations | Interacts with |
|---|---|---|---|
| Mining tick loop (`simulation/tickLoop.ts` and what it calls) | `currentTick`, the pending timer, the updates of the tick in flight | every 5 s: mine, cave in, dig out, relocate, arrive; one Redis batch; every sixth tick a flush | reads all cached agents from Redis, deducts ore in Postgres at once |
| Redis agent cache (`cache/agentCache.ts`) | set `agents:active`, a hash per agent | register, update fields, batch | tick loop, handlers, flush, startup |
| Flush and load (`cache/persistence.ts`) | Postgres rows of agents, mining states, earnings snapshots | write-behind flush, load of hot agents at startup | Redis, Merkle cache |
| Handlers (`routes/agents.ts`) | `lastRelocatedAt`, Agent rows | relocate, rescue, repair | Postgres first, then Redis |
| Deployment (`routes/agents.ts`, `agentPlacement.ts`, `agentMinting.ts`) | Agent, MiningState rows | build a payment, confirm it: check, count, insert, mint, place, answer | chain, Postgres, Redis in the test mode |
| Life cycle (`index.ts`) | process memory | start, SIGTERM, crash | all of the above |
| On-chain program (`contracts`) | config counter, vault state, claim states, treasury lamports | initialize, deploy, deposit, claim, pause, new root | clients, admin |
| Earnings (`routes/earnings.ts`, `earningsService`, `merkleService`) | `cachedTree`, Claim rows, `totalClaimed` | build a claim, confirm a claim | snapshots of the flush, fee pool, chain |
| Fee monitor (`feeMonitor.ts`) | FeeDeposit rows, the interval timer | check two accounts, record deposits | chain, fee pool |
| Economy config (`economyService.ts`, `admin.ts`) | a row, a Redis copy with a TTL | read through, update, pause | claim requests |
| Daily contracts (`contractService.ts`) | progress maps, a Redis buffer, Contract rows, streak, boost | open, accrue, buffer, complete, boost | tick loop |
| Gold rush (`goldRushService.ts`, `lastActive.ts`) | the current rush in memory with a Redis copy, throttle map, `lastActiveAt` | open by the clock, accrue, settle, rehydrate, stamp | tick loop, sockets |
| World clock, weather, veins (`simulation/*`) | functions of time; fronts and one vein in memory with Redis copies | tick, spawn, move, despawn, rehydrate | yields of the tick loop, browsers |
| Surveys (`surveyService.ts`, `HexTooltip.tsx`) | Survey rows, cooldown keys, the reveals of a page | check, record, arm, list | browsers |
| Seasons and leaderboard (`closeSeason.ts`, `leaderboardService.ts`) | a Redis sorted set, Season rows, bonuses | flush scores, read a rank, close a season | flush |
| Authentication and sockets (`routes/auth.ts`, `socket.ts`) | nonces, the cookie, the identity and rooms of a socket | nonce, verify, probe, logout, handshake, subscribe | wallet, browser |
| Browser: session and feeds (`useWalletSession`, `useUserAgents`, `useWorldClock`, the zustand stores) | the account shown, lists and events, relocation, the offset of the clock | log in, load, apply, relocate, rescue, repair | HTTP, sockets, wallet |
| Browser: paid flows (`useAgentDeploy`, `useSendAndConfirm`, `useClaimEarnings`, toasts) | React state of a flow, signatures, toasts | press, sign, send, poll, retry, confirm | chain, server, wallet |
| Browser: picture and sound (`rendering/*`, `scene/*`, `lib/audio/*`, `StartScreen`) | hovered and pinned hex, chunks and their levels, quality, figures and piles, shake, audio graph | hover, pin, draw, adapt, unlock, mute | the stores above |
| Metrics, health, scripts | none that others depend on | | |

What is hard here:

* **A tick works on a snapshot.** It reads every agent at its start, awaits Postgres
  per agent, and writes one batch at its end. Handlers change the same agents in
  between, in Postgres and in Redis, in two steps.
* **Three copies of a total.** Ore leaves the hex in Postgres at once; the credit is in
  process memory until the batch, in Redis until the flush. Totals are written as
  absolute values, so a stale one overwrites.
* **Restarts.** Redis survives a crash of the server (or not), travelling agents are
  loaded without their trip, `currentTick` starts at 0, `listen` is called before the
  load is done, and SIGTERM does not wait for a tick.
* **Two ledgers for a payout.** The server records deposits, allowances and claims; the
  program has its own. They meet only through roots an operator publishes and
  confirmations a client may send twice or never.
* **A confirmation is ten awaits.** It reads a count and inserts later, mints and
  places in steps that can fail one by one, and what it did first is not undone.
* **Memory with a best-effort copy.** Contracts, rushes, fronts and veins live in memory;
  their copies in Redis are separate statements that may fail, and a restart trusts them.
* **A browser hears the world twice.** Lists come over HTTP, late and in any order, events
  over a socket that forgets what it missed, and a handler of the page may write first.
* **Overlapping logins, presses and timers.** A wallet switches under a prompt, a second
  press meets a flow in its last step, a timer fires after the pointer moved.

What makes each component correct: no unit of ore is ever credited twice; none is
lost before an interruption; whoever waits has something to wait for, and it comes;
Postgres does not forget; nobody is paid above a published allowance, the treasury
covers what is due, and both sets of books agree; a payment brings its payer one
agent, and an answer is true; a pause that was answered takes effect; the streak counts
completed contracts; a boost was earned; what has left the sky stays away; seasons are
apart. In the browser: the account shown is the one that acts; a claim pays once; what
the rail, the panel, the picture and the loading bar say is so; nothing turns back under
the user; and a page that missed something heals.

## 2. Modules

### Mining: `MiningCore`, `OreLedger`, `MiningClaims`, `MCMining`

`MiningCore` models tick loop, cache, flush, the three handlers and the life cycle. An
action is a stretch of code between two awaits whose effect somebody else can see.

| Code | Model |
|---|---|
| `processTick` | `TickStart` (read Redis), one of `Mine`, `NoYield`, `CaveIn`, `SelfDig`, `Arrive`, `Pass` per agent, `Batch`, then `FlushRead`, `FlushWrite` on flush ticks; `TickError` is its catch block |
| `relocateAgent`, `findNearestAvailableHex` | `MineUpdate`, `IsNearest`, `ArrivalTick` |
| `agents:active` and the hashes | `cached`, `cache`; a hash outlives its removal from the set |
| `hset` of an update | `Hset`: fields marked `Keep` stay, `Nil` is the empty string |
| Agent, MiningState, Hex rows | `db`, `hexOre` |
| `/relocate`, `/rescue`, `/repair` | `RelocateCheck`, `RelocateStore`, `RelocateCache` or `RelocateRead` and `RelocateRegister`; `RescueCheck`, `RescueStore`, `RescueCache`; `RepairStore`, `RepairCache` |
| `index.ts` | `Restart`, `LoadRead`, `LoadWrite`, `Crash`, `ShutdownRead`, `ShutdownWrite`, `Exit` |

*Abstractions.* Ore is a set of units, so that "credited twice" can be said; amounts
and the four resources are the number of units in a set. Every multiplier (world phase,
weather, vein, season, wear) only scales a yield, which is any nonempty part of the
hex. Cave-ins, the cool-down, self-dig timers and whether an owner is online are
nondeterministic choices. `Mine` is one step: only the tick takes ore from a hex.
Hexes lie on a line. The batch and the read of all agents are single Redis commands
here; the client would have to interleave with a pipeline to see more. A hex without
ore stands for one with biome EMPTY too. Rescue and repair are their payment-free
path (`FAKE_SOL_MODE`): otherwise they answer 501. Redis loses its data only while the
server is down.

`OreLedger` is what the simulation promises: ore moves from the ground to one agent's
credit and stays. `MiningClaims` states what documents say and the code does not do.

### Payouts: `FeeVault`, `PayoutPromise`, `EarningsClaims`, `MCEarnings`

`FeeVault` is the on-chain program, one action per instruction. A Merkle root is the
set of its leaves and `verify_proof` is membership (`MerkleTree`, below, has the hashes
of both sides instead); the account constraints (admin,
signer, seeds) are who may take an action. A failed `require!` changes nothing, so it
is a guard. `received` and `published` are history. `PayoutPromise` is the abstract
contract with claimers and funders: each is paid up to an allowance published for it,
and all together at most half of the deposits.

`EarningsClaims` extends `FeeVault` with the server. A claim request is four kinds of
steps (`ReadEarnings`, `ListSnapshots`, `ReadShare` per user, `Respond`), because each
awaits the database; `getEarningsForUser` itself is one step. `FlushCommit` and
`FlushInvalidate` are two because the leaderboard write lies between them, and
`FlushFails` is that write failing. `PreCheck` and `RecordClaim` are the two halves of
`/confirm`; `CheckDeposits` and `RecordDeposit` those of the monitor. An allowance is
cut to 64 bits where it is hashed, and refused where it is put into the instruction.
External actions: a client that sends (or never sends) a transaction (`Send`), the
operator who publishes a root shown in a response (`Publish`; no code of the
repository calls `update_merkle_root`), trading fees paid to the fee wallet
(`TradingFee`). `Outside` is the score of agents that are not cached: they count for
their owner's allowance and not in the snapshots.

The server pauses claims by a configuration flag; in the model that is a request not
made. `index.ts` never starts the fee monitor and admin deposits are stored as
processed, so in the server as it is the pool stays empty and nothing can be claimed;
the model is of the code with its monitor started.

### Deployment: `Deployment`, `AgentPromise`, `MCDeployment`

`Deployment` is `/deploy` and `/confirm`, one action per await of a confirmation: a
handler is a request in progress, and any number run at once.

| Code | Model |
|---|---|
| `/deploy` and the wallet | `Deploy`, `Send` |
| pre-check, `verifyDeployPayment` | `Confirm`, `VerifyDeployPayment` |
| the insert transaction | `CountAgents`, `ReadIndex`, `CreateAgent` (the unique `deploy_tx_sig` is its guard) |
| `mintAgentNFT` and the update | `Mint`, `RecordMint`; `CatchMintError` enters the catch block (`again`) |
| `placeAgentOnHex` | `FindHex` or `NoRoom`, `AssignHex`, `EnsureMiningState` |
| `createFakeAgent` after its placement | `DeleteAgent`, `CacheAgent` |
| errors | `GiveUp` before the row exists, `RetryPlacement` inside the try block of the mint, `BreakOff` elsewhere |

The paid path and the test mode share the actions, as their code is the same up to the
mint; `IsFake` tells them apart, and `fakeMode` may change at a restart, so that paid
and test agents stand in one database. `told`, `turnedAway` and `trouble` are history:
what was answered, and whether a request broke off after its insert. Agents do not
move here (that is `MiningCore`); sockets and the metadata route are left out.
`AgentPromise` is what a payment buys.

### The server beside the mining loop: `MCServer`

Six modules that share no state; `MCServer` composes them so that a behaviour moves one
`part` and leaves the others at one initial state.

| Module | Code | Model |
|---|---|---|
| `DailyContract` | `getOrCreateContract`, `accrueContractProgress`, `flushContractProgress` | `OpenContract`, `ContractOpened`; `Accrue`, `PersistCompletion` (the transaction), `ClearBuffer`, `SetOwnerBoost`, `ContractTickEnds`; a tick works with the day and the rows of its start; `ContractTickBreaks`, `RedisEmptied` are a crash and a loss |
| `GoldRush` | `tickGoldRush`, `rehydrateGoldRush`, `touchLastActive` | `RushTickMoves` through open, accrue, settle and clear; `RushTickThrows`, `RushCrash`; `Touch` stamps the map, `TouchWritten` the row. `OpenRush` replaces whatever record there is, also one achieved and not settled; `fate` and `attended` are history: what became of a rush that was achieved, and after which rushes a tick ran to its end |
| `Sky` | `tickWeather`, `tickVeins`, their persist and rehydrate, `getFrontAt`, the client's `dominantFrontAt` and `weatherMultiplierAt` | a front is a trajectory and the minute it appeared; discs on the hex grid. The copy of the vein is written when the vein changes (`VeinChanges`, `PersistVein`) and at no other tick; the chip looks at the minute of the browser's clock, any of `ClockErrors` beside the server's |
| `EconomyConfig` | `getEconomyConfig`, `updateEconomyConfig`, the pause switch of `/claim` | `ConfigAsked`, `ConfigRead`, `ConfigStored`; `ConfigUpserted`, `ConfigInvalidated` |
| `Seasons` | `closeSeason`, `updateScoresBatch`, `getUserRank` | the script statement by statement, any number of runs; the page's two commands |
| `MerkleTree` | `merkleCrypto`, `merkleService`, the program's `verify_proof` | operators for the levels, the proof of a leaf and its verification; `HandOut` (`/claim` with a tree that may be of other shares), `PublishRoot`, `TxGone` |

A hash in `MerkleTree` is the term of what was hashed, so no two inputs collide; a pair is
hashed in the order of its bytes, so its term holds the two as a set. The order of the
leaves' bytes, `HashOrder`, is a constant. `NextLevel` and `Sibling` are the two places
where the server pairs nodes, `Computed` is the program's loop.

### The browser: `MCClient`

Twelve modules, composed in the same way.

| Module | What it is about |
|---|---|
| `Session` | `useWalletSession`, `ConnectButton`, `/auth/*`, the shared socket: overlapping logins, wallet switches, probes, 401s, expiry, reload, logout, test accounts, a browser without cookies, rooms and subscriptions |
| `WorldFeed` | fronts, veins and rush in `worldStore`: snapshot against broadcasts, a lost connection; a vein is over by the server's clock (`over`) and by the browser's own (`overHere`), which may be `slow` |
| `AgentFeed` | `agentStore`, `relocationStore` and the cards: lists against events against answers, a move shown before the server agreed; a cooldown whose anchor a list and an accepted move give in server time and a refusal by the browser's clock |
| `TxFlow` | DEPLOY and CLAIM: request, sign, send, poll, expiry, retries with a fee of their own, the server's confirmation, and the toasts that an effect makes of React state |
| `WorldClock` | server time, the browser's clock with its skew and offset, countdown and golden hour, the forced phase of development |
| `Surveys` | `/hexes/survey` in three statements against its cooldown, beside the page that adds its answer to a list it may reload |
| `HexPanel` | `useHexHover` with its refs and two timers, the pinned hex, MOVE mode, the parts of the panel |
| `WorldView` | layout by width, `PerformanceAdapter` against the player's setting, pan of the camera, `ChunkManager` every third frame |
| `AgentView` | figures and piles of `useAgentClusters`, deploy juice, `CameraShake` |
| `PageShell` | mount effect under StrictMode, configuration, `readinessStore`, `StartScreen`, audio context and music |
| `ContractCard` | `useContracts`, `contractStore` and the card: the GETs of a login and of each acknowledged subscribe against each other and against the room's `contract:progress` and `contract:completed`, midnight, a completion that the server cut off |
| `RankPanel` | `useLeaderboard` and the LEADERBOARD panel: a request every 30 s whether or not the last was answered, a change of the account between them, rows, skeleton and error |

Abstractions that are shared: a message that is under way is kept until it is applied or
lost; counters replace times where only the order matters; geometry (how far a chunk is,
what the frustum meets, what lies in the corridor of the pointer) is a constant or a
choice; what the wallet, the chain, the browser or the system decides is a choice.
In `ContractCard` the server's rows are those of `DailyContract` seen from outside: progress
grows, a contract is fulfilled once, or never where the completion was cut off. `RankPanel`
keeps of the board only where its reader stands on it; its order is in `Seasons`.
Four steps join or leave out a little more than the code does, without a property that
could tell: `RelocateRead` makes the check of `getAgent` (`agents.ts:688`) one with the reads
at 702-705; `VerifyAnswered` the arrival of the cookie one with `setSession`
(`useWalletSession.ts:131-132`); `ContractCard` leaves out that `useAdminSocket.ts:29` takes
the `connect` handler of `useContracts` along, which `Session` has (`listening`); and
`AgentFeed` leaves out that a card seeds the anchor once more from its own record
(`AgentCard.tsx:139-141`), which can only raise it.
`TxFlow` is one page and one hook; `Surveys` has one more caller beside the page, another
tab or a call the page gave up. The simulation that `AgentFeed` hears of is what
`MiningCore` makes of it, seen from outside.

### Plan

What is left: a server restart under an open page.

## 3. What is checked

| Run | Question | What it shows |
|---|---|---|
| `Mining_handlers` | two agents that start on one hex, all three handlers against a tick in flight, no failure | `TypeOK`; every unit mined stays credited (`NothingLost`); a trapped or travelling agent always has what ends its wait (`WaitingHasDeadline`) |
| `Mining_crash` | crashes, failed ticks and failed trap writes anywhere, Redis kept | the simulation implements `OreLedger`; a total in Postgres never shrinks (`DbNeverShrinks`) |
| `Mining_redis` | loss of Redis, SIGTERM anywhere, three lives, an agent Redis does not know at first, requests served during the load | no unit credited twice in any copy (`NeverCreditedTwice`); a shutdown with no tick in flight leaves nothing behind (`QuietExitDurable`) |
| `Mining_live` | fairness, rescues | traps end, journeys end, what is mined reaches Postgres |
| `Earnings_books` | two users, overlapping checks and confirmations, restarts, failing leaderboard, roots in any order | deposits counted once (`PoolCountsOnce`), claims recorded at most once and books equal up to what is unconfirmed and the rent (`BooksAgree`), paid what was published and able to pay (`VaultIsSafe`), `PromiseSpec` |
| `Deployment` | two confirmations at once, paid and test, failures at every await, no room, a restart into either mode | one agent per payment (`AgentPromiseSpec`); a hex that was answered is in the database, and for test agents in Redis (`AnswerKept`); no agent is left half-made unless a request broke off (`NoHalfAgents`); the cap is overrun by less than the requests served at once (`OverrunBounded`) |
| `Server` | each server module under failing statements, crashes and losses of Redis at every step | the streak is the number of completions and progress is not counted twice (`ContractBooks`); a boost was earned, the throttle hides nobody, and an achieved rush is forgotten only for a cause: no whole tick before the next rush, or a second failure beside the restart (`RushIsFair`); nothing returns to the sky, and the card names the front that pays at the minute of the browser's clock (`SkyIsOne`); an answered pause is the one in force (`PauseHolds`); seasons are apart and a percentile is one (`BoardIsSound`); the program accepts the proofs made of the published tree and no other share (`ProofsVerify`); an achieved rush that is not so excused is settled, a stale configuration goes (`ServerCatchesUp`) |
| `Client` | each browser module under lost, late and crossing answers, drops, switches and timers | see below |
| `Claim_journey`, `Claim_repair`, `Earnings_offer`, `Deployment_cap` | statements of comments and design notes | each is refuted: see the findings |

`Client` checks, under browser's clocks that are right or wrong: the account shown acts for itself and no page without a cookie stays
logged in (`LoginIsHonest`); a session that asked has its socket in its room
(`SocketFollowsSession`); a listed vein pays, up to a browser's clock that is behind on a page that missed the end of
the vein, and fanfare, chime and countdown are true (`RailIsTrue`); one
relocation at a time (`OneMoveAtATime`); a claim pays once, an expired flow is over and
leaves no toast (`PaidFlowIsSafe`); the survey cooldown, flag and rows (`SurveysAreKept`);
every hex and agent is drawn once, in the right detail, the shake is undone, and the refs
of the hover hook agree with React (`WorldIsDrawn`); one
configuration, one music, an honest bar (`PageWakes`); at rest the contract card is of the
account shown and says what the server has (`CardIsTrue`); the cooldown anchor goes back
only with the answer to the page's own move and by no more than the browser's clock is
wrong, and the panel under the pointer keeps its hex (`PageHoldsStill`); a page heals
(`PageCatchesUp`).

Each property of a passing run has a mutant, a plausible bug written beside the
definition it changes, that breaks it.

**Findings.** (1) A travelling agent is loaded without its trip and travels for ever
(`Claim_journey`). (2) A repair during a tick is undone by the tick's batch
(`Claim_repair`). (3) A claim transaction may carry an allowance that is not in the tree
its proof is from (`Earnings_offer`). (4) The count inside the insert transaction does not
close the race for the last agent under the cap (`Deployment_cap`).

Seen while modelling and kept in the models, without a run:

*Mining, payouts, deployment.* A rescue or a relocation
during a tick can be undone by the batch in the same way as a repair; two relocations
can pass the cool-down check together; relocating a trapped agent leaves `selfDigAt`
behind; an agent without any hex left goes IDLE, stays cached until a restart, and is
not loaded then; after a loss of Redis a relocation that arrives during the load can
write an older total to Redis, from where it reaches Postgres, and two flushes at
shutdown may be written in the wrong order, so `DbNeverShrinks` is claimed only where
Redis survives and no SIGTERM is sent. `deploy_agent` raises the treasury, and the
monitor the pool, while `total_deposited` stays: allowances can exceed what the vault's
share can pay, and then a correct claim fails with `VaultShareExceeded`. The resource
weights and the minimum claim that an admin can set are not the ones
`getEarningsForUser` and `/claim` use. The paid path of `/confirm` never registers its
agent in Redis, where the test mode takes care to "exactly like real/seeded agents": a
paid agent does not mine before the next restart or its first relocation. A payment that
is confirmed when the cap is reached brings nothing and stays usable; one whose request
broke off after the insert has an idle agent that nothing places, and, if the break was
between the placement and the mining state, one no restart loads. The asset id is
computed from `agentIndex`, though a failed mint or two equal indexes (the race above)
put the agents' leaves elsewhere. A placement counts the agents of a hex before it adds
one, so hexes go beyond 20 as users do.

An agent on a hex that another empties never leaves it, though a planning note has it
relocate (`tickLoop.ts:625`); a shutdown during a tick loses what the tick had queued.

*Server.* A contract transaction that fails after the progress was taken from the maps
loses that progress, and the boost may be granted without a completed row. A crash between
the buffer (`contractService.ts:343`) and the transaction leaves a contract that never
completes, though `contractService.ts:9` says that it completes "on reaching the target":
`wasComplete` (line 345) reads the buffer and not the row. A player active in the rush and
again between its end and the settlement is passed over, as only the last stamp is kept.
`makeFront` says that a path passes near the spawn ("guaranteed within
SPAWN_ORIGIN_RADIUS"), and some do not; where fronts overlap the card multiplies them and
the server takes the strongest. A pause may be ineffective for the 60 s of the copy when a
late read stores the old row. The boost that `goldRushService.ts:7-9` promises is never paid
where the server is down from the end of a rush to within the next one: `OpenRush`
(`goldRushService.ts:235-250`) comes before the settlement and overwrites the achieved
record (fate "overrun"). A write of the vein to Redis that failed is not repeated before the
vein changes (`veinService.ts:180`, 206): until then a restart brings back a vein that is
older, or none. A season closed between two pipelined commands can make a
percentile negative. `recordSurvey` swallows every error, so a reveal that was answered
may have no row.

*Browser.* Two overlapping logins overwrite each other's nonce; a late 401 of an old call
ends a fresh login; leaving the dashboard takes other hooks' `connect` handlers along. A
`vein:spawned` that was missed is never repaired; an ended rush stays in the store. A
trapped agent is not in `mining:update`, so an old list can show it mining for hours. A
deploy is a plain transfer: when the poll fails and the flow sends again, both may be
paid. A second press during the server's confirmation crosses the flows and may leave a
toast that nothing takes down. The store knows the offset of a wrong browser clock, and
four places do not ask it: the countdown; the lists of veins, which with a slow clock go on
showing a dead vein whose `vein:expired` was missed (`VeinStrip.tsx:58`, `WorldRail.tsx:86`);
the chip, which tells the weather of another minute (`AgentModifierChip.tsx:48`); and the
anchor after a refused move (`useHexPick.ts:98`), which may then lie before the one the page
knew. A GET of surveys read before the POST and applied after it
hides a reveal again, against `contractStore.ts:8`. A panel that goes away under the
pointer can leave hovering dead until the next panel. At 768 px a window is a phone to one
hook and not to another. The agents of a first list, loaded after an empty render, all
land with sparks (against the comment in `AgentLayer`); the shake can leave an offset when
the layer comes or goes under it. An open page asks for no
contract at midnight: it shows that of yesterday, and the row of today does not exist, so
that nothing is mined for it, until a reload or a reconnect. Events of the room and answers
of a GET read before them may cross, and the next subscribe mends the card.
`EarningsDashboard.tsx` and `useEarnings` are mounted nowhere. A configuration that failed is not asked for again, and
an unlock of the sound that failed is not tried again.

### Bounds, and why they are enough

* Mining: two agents is the least that share a hex, two hexes the least with somewhere
  to go, two or three units of ore the least with something left. One request at a
  time per agent in the runs; a second request meets the tick no differently.
* `FlushInterval` is 2 instead of 6 (1 in `Mining_handlers`, where a flush then follows
  every batch, the worst case for handlers). `currentTick` is exact up to `TickCap` and
  then cycles in steps of `FlushInterval`: its residue, which decides flushes, stays
  right; a longer journey arrives at the cap.
* `MaxWear` is the saturation of wear in ticks: 0 where wear plays no part, 2 in the run
  about repairs. `MaxLives` counts process starts: three lets a life begin over what two
  interruptions left.
* Payouts: two users, two deposits, two claim transactions, one flush of any batch. That
  reaches two claims of one user (the second for the difference), one claim of each,
  and an allowance above `U64` (16 in the instance). `Rent` is below `MIN_CLAIM` as on
  the chain. The monitor's window of 50 signatures is never full.
* Deployment: two confirmations is the least that race, three agents the least with which
  the bound on the overrun could be broken, a hex that takes one agent the least that
  fills up. One paid and two test signatures: the test path has fewer steps and the same
  races, and a mint that fails needs no cause in the model. `MaxIndex` bounds
  `agentIndex`, `MaxRestarts` the process starts.
* Server: one player and two requests for a contract of two days; a window every 4 units
  of time with a rush of 1 and a target of 2, so that a restart meets its end, comes
  after it, or comes in the next window; three fronts of which two fit, and a browser's
  clock that is right or a minute wrong either way;
  two readers and three edits; two runs of `closeSeason` against a
  guard of 2 dates; trees of every one to six of six users, where a level of 3 or 5 nodes
  ends in one without a partner, two later snapshots with other allowances and another
  order of the leaves, and one claim transaction in hand. Two faults for contracts, where one failure may hide another, one or
  two elsewhere.
* Browser: two wallets, a test account and two logins, the least that cross, with three
  surprises (switch, drop, expiry, reload); one message on a wire, one drop and a clock
  that is behind or not, by however much (a vein may stay listed for as long as the run
  lasts); two agents and two relocations of one, with a clock that is right, ahead, or
  behind by less and by more than a cooldown (`MoveClocks`, in steps of five minutes); two presses of two tries with one mishap; a day of six units
  in five phases with a clock that is right or two behind; two visitors, a hex with a row
  and one without, one list and one glitch; two hexes and three clicks; four chunks around
  the limits of the presets and three widths around 768; two figures on two hexes inside
  and beyond the cluster threshold, two scenes; two unasked events in the shell; two holders
  of a card over two days with a target of 2, two GETs and two messages of the room, with
  two hitches (a switch, a drop, a lost answer); two requests of the leaderboard and four
  turns (logins, presses, changes of the board, failures), the least with which an answer
  of another account is overtaken by one that fails. Every module reaches each of its actions with them.
* Symmetry (`Alike`) is used only in runs without liveness and permutes values that no
  other constant tells apart. `Client` has an action constraint instead: the two accounts of
  the contract card, of which no fairness speaks, differ by nothing but their names, so
  that `wB` need not be the first to log in (`FirstOfAlikes`).

### Fairness

`FairSpec` is used by `Mining_live` and `Claim_journey`. The loop
reschedules itself in a `finally`, so `TickStep` is weakly fair; a request that was
accepted is carried on by the event loop (`Continue`); a restart is completed. A trapped
agent's timer fires in time, so the step that digs it out is fair; no fairness is assumed
of clients, cave-ins, crashes or of any yield. The exact conjuncts are in `Fairness`.

`ServerFair`: time passes, the tick goes on, a restart reads its copies, a write that was
started ends, an edit gets to its second statement and the TTL of the copy runs out; each
may still fail as often as its bound allows. `ClientFair`: the server ticks and sends, the
socket returns (socket.io reconnects for ever), requests are answered or fail, React runs
its effects and the page's timers fire; the leaderboard's interval goes on while the panel
is there. Nothing is assumed of the user, of the wallet or
of the system.

## 4. What is proved

All theorems hold for every value of the constants allowed by the named assumptions
(`ConstantsAssumption`, `MarksAssumption`, `VaultAssumption`, `DeployAssumption` and those
of the server's and the browser's modules): any agents, hexes, ore, requests, faults,
lives; any claimers, amounts and roots; any number of confirmations at once.

| Theorem | Says | Argument |
|---|---|---|
| `TypeCorrect` | `Spec => []TypeOK` | `TypeOK` is inductive; a lemma per group of actions, and small lemmas on the typing of nested updates |
| `NoDoubleCredit` | `Spec => []NeverCreditedTwice` | with `VeinsApart`; the invariant speaks of every copy an actor may hold, because any of them may be written back |
| `DeadlineKept` | `Spec => []WaitingHasDeadline` | `DeadlineInv`: also the snapshot, the shutdown's snapshot and the queued update must carry a timer with a trap, as the batch writes them over what handlers did |
| `NothingIsLost` | `OneAtATime => (Spec => []NothingLost)` | `LossInv`: before an interruption the snapshot's totals are current for the agents still to process and no request can overwrite a total. The hypothesis is needed: two relocations of an uncached agent may register it twice |
| `ImplementsLedger` | for `Uncached = {}` and Redis kept, `Spec => LedgerSpec` | `CacheInv`: all agents stay cached, so a tick works on current totals; every step maps to `Mine`, a loss after an interruption, or a stutter |
| `NoClaimOverpays` | `ChainSpec => []NoOverpayment` | `VaultInv`, which adds `VaultBooks` |
| `TreasuryCovers`, `VaultStaysSafe` | `ChainSpec => []InTreasury`, and `[]VaultIsSafe`, which is both | `treasury >= total_deposited - total_claimed` and `2 * total_claimed <= total_deposited` |
| `DeployTypeCorrect` | `Spec => []TypeOK` of `Deployment` | `TypeOK` is inductive, one step per action |
| `OverrunIsBounded` | `Spec => []OverrunBounded` | `OverrunInv` adds to a user's agents the confirmations that have counted them and not inserted yet: a count admits one only below the cap, and an insert moves one from the second number to the first |
| `AnswersAreKept`, `NoAgentIsHalfMade` | `Spec => []AnswerKept`, `Spec => []NoHalfAgents` | `HandlerInv`: handlers at work own different agents, not answered yet, that carry their signatures, and know what the placement did |
| `ImplementsAgentPromise` | `Spec => AgentPromiseSpec` | an insert of a paid agent redeems its payment (`PaymentChecked`), only test agents are deleted (`OwnAgent`) |
| `ImplementsPromise` | `ChainSpec => PromiseSpec` | the refinement mapping reads the deposits, the roots published, the lamports received and the total claimed |
| `TotalsNeverShrink` | for `Uncached = {}`, Redis kept and no graceful shutdown, `Spec => []DbNeverShrinks` | `MonotoneInv` over `CacheInv`: Postgres is behind Redis, Redis behind the queue of the tick, and what a flush or a load has read lies between |
| `QuietExitIsDurable` | `Spec => []QuietExitDurable` | `DurableInv`, under every fault: what a relocation has read of an agent that Redis did not know is in every later copy of its total, and a shutdown flush that no tick runs beside has read all that Redis has |
| `EarningsTypeCorrect`, `ServerKeepsChain`, `PayoutsAreSafe` | `EarningsClaims` keeps its types and implements `ChainSpec`; so `VaultIsSafe` and `PromiseSpec` hold with the server in front | `EarningTypes` is inductive; every step of the server is a step or a stutter of the chain |
| `DepositsCountOnce` | `Spec => []PoolCountsOnce` | a deposit enters the sum in the step that gives it its row |
| `BooksAlwaysAgree` | `Spec => []BooksAgree` | `BooksInv`: what landed and is not recorded, over all transactions of a user, is the difference of the two ledgers; a send adds one to the sum, a confirmation takes it away once |
| `PauseIsKept` | `EconomySpec => []PauseHolds` | inductive as it stands |
| `ContractBooksKept` | `ContractSpec => []ContractBooks` | `StreakInv`: a tick that may complete works on a contract that is not complete; `ProgressInv`: what the tick has read of its contract is what the row holds until the tick writes it, and a completed contract is safe in its row |
| `RushStaysFair` | `RushSpec => []RushIsFair` | `StampInv`: a stamp that is written or on its way is of a visit; `RecordInv`: a record, in memory or in Redis, claims no more than was mined in its window, and an achieved one its target; `FateInv`: the record of an achieved rush that waits is in memory, unless the process is down, and in Redis, unless something went wrong, and a tick that runs to its end after the rush has settled it |
| `BoardStaysSound` | `SeasonSpec => []BoardIsSound` | `GuardsHold`: a run past the guard either has a number that is taken or the next one, with the guard still true of the last season; the page's rank is among those it counts |
| `SkyStaysOne` | `SkySpec => []SkyIsOne` | `SkyPast`: the times of what was dropped are over, in memory and in the copy of Redis, which for the vein may be behind; a trajectory leaves the disc once, as a distance along a line is convex (`LeavesOnce`); a filter of a list without duplicates has none (`Kept`). Needs that fronts begin inside the disc, as `makeFront` has it |
| `ServerTypeCorrect`, `ServerStaysSound` | `ServerSpec => []ServerTypeOK`; `ServerSpec` keeps the invariants of its six modules together | a step of the server is a step of one module and a stutter of the rest |
| `MembersVerify`, `OnlyMembersVerify` | about `Trees` and `verify_proof`, without a state: the proof of a share in a tree is accepted, and no list of hashes is for another share | up the levels a node hashed with its `Sibling` is the node above (`SiblingJoins`), and the levels end in one node (`LevelLengths`); down from the root a pair tells its two (`PairsDiffer`), and a node is no leaf, for the first byte |
| `ProofsStayVerified` | `TreeSpec => [](TreeTypeOK /\ ProofsVerify)` | `TreeInv`: the root is the published tree's, and what a client holds was made of the tree it names |
| `LoginStaysHonest` | `SessionSpec => []LoginIsHonest` | `CookieInv`: the cookie is never that of another account than the one shown, and without cookies a call that will be refused is under way |
| `SocketStaysWithSession` | `SessionSpec => []SocketFollowsSession` | `SocketInv`: a socket of another identity than the cookie's belongs to a login whose probe is not answered |
| `MovesStayOne`, `AnchorOnlyGrows` | `AgentFeedSpec => []OneMoveAtATime`, `AgentFeedSpec => AnchorNeverGoesBack` | a relocation is nowhere, sent or answered, in step with the flag; `AnchorInv`: no list or answer knows of a later relocation than the last, an answer that tells a time knows of it, and an anchor is ahead of it by a clock error at most |
| `ExpiredStaysOver`, `ClaimsPayOnce` | `TxFlowSpec => []ExpiredIsOver`, `TxFlowSpec => []ClaimPaysOnce` | `TxInv`: nothing of an expired blockhash is on its way, "expired" is said only of one, and a claim that is at the server was paid |
| `SurveysStayKept` | `SurveysSpec => []SurveysAreKept` | `CooldownInv`: of an armed cooldown at most one call has passed the check, and none once it has recorded; `RowInv`: the row comes before the answer |
| `PanelStaysCoherent`, `PanelStandsStill` | `PanelSpec => []PanelIsCoherent`, `PanelSpec => PanelHoldsStill` | besides: a pointer on the panel has it frozen, with a panel under it |
| `PageWakesQuietly` | `ShellSpec => []PageWakes` | `BootInv` (the configuration is under way until it is there), `SoundInv` (a context, and a press, before anything is resumed) |
| `PaidFlowStaysSafe` | `TxFlowSpec => []PaidFlowIsSafe` | `ToastInv`: the one sticky toast is the one the hook holds; a claim drops it with its flow, a deploy with the render of a resting status, as long as the status is what the one live flow wrote |
| `FeedStaysTrue` | `WorldFeedSpec => [](ListedVeinPays /\ OneFanfare)` | `VeinInv`: a vein that was struck is over or the present one, and a clock that is not behind knows every one that is over; `NewsInv`: of every dead vein that a page which missed nothing knows, or will be told of, the end is on the wire; `FanfareInv`: the rushes in messages never go back, and a fanfare is for a rush that stays celebrated in all that is still to come |
| `ClockStaysRight` | `ClockSpec => [](GoldenHourOnce /\ CountdownIsRight)` | `CountInv`: what a message, however old, says of the next phase is true until that phase begins; `GoldInv`: after a chime the browser is in the hour, and what is under way was made in it or after it; `Elapsed` is a sum by recursion, of which the proof needs its order, by least counterexample |
| `PictureStaysRight` | `WorldViewSpec` keeps the four parts of the view | division puts each hex in one chunk; `ViewInv`: what was wide stays so for the quality, and what is drawn is seen from the camera of the last refresh with the present quality |
| `FiguresStayDrawn` | `AgentViewSpec => [](DrawnOnce /\ ShakeIsUndone /\ JuiceIsDrawn)` | piles and figures are recomputed together, a pile counts an agent in the chunk of its hex |
| `CardStaysTrue` | `CardSpec => [](CardTypeOK /\ CardIsTrue)` | `RoomInv`, `EventInv`, `LoadInv`: once the page is in its room with the acknowledgement behind it, the card is what the server has up to the events that are due, or a request that will mend it is under way; no event tells of more than was made |
| `ClientTypeCorrect` | `ClientSpec => []ClientTypeOK` | the types of the twelve modules, with what two of them lean on: `MoveBounds` (a relocation under way leaves room for itself) and `SeedInv` (a survey on its way, stored or listed, is of a hex that exists). `LeftInv` for the toasts: a press leaves at most one behind, and so does a confirmation that is delivered, so that an id is always free when there are more than two for each flow and one for the hook |
| `WorldStaysDrawn` | `ClientSpec => []WorldIsDrawn` | the three theorems about the panel, the view and the figures, each carried to the page |
| `ClientStaysSound`, `ClientHoldsStill` | `ClientSpec` keeps the safety of its parts together, and `PageHoldsStill` | as for the server |

The theorems about the vault are about `ChainSpec`, where an admin may publish any root;
`PayoutsAreSafe` carries them to the roots the server builds.
Those of `ServerProofs` and `ClientProofs` about one module are about its own
specification; the last ones of each file compose them.

*Sums.* The library's induction theorems take an operator, which the provers cannot
instantiate. `EarningsProofs` shows instead from the definition of `SumFunctionOnSet` that
sums exist, are unique and grow by what is added (`SumExists`, `SumsAgree`, `SumAdd`): a
finite set for which it fails would contain a least one (`MinimalSubset`). The same way
round, `LeastNat` gives what `Elapsed` needs. `Claimers`, `Handlers`, `Agents` and `Flows`
are assumed finite for that and nothing else.

*Recursion.* `Levels`, `IndexAt` and `Computed` are recursive functions, of which TLAPS
knows only that they are chosen. `LevelsStep`, `IndexStep` and `ComputedStep` show that
they satisfy their equations: functions that do exist for every length, by `CountUp`, which
is a set of numbers that holds 0 and the successor of each of its members, and rests on
`LeastNat`. What holds of every level is proved by `CountUp` too.

*Two assumptions that are more than types.* `SkyAssumption` has trajectories begin inside
the disc in which fronts live. `DelayAssumption` of the clock has no message under way from
one golden hour into the next, 22 minutes later: without it an old update would announce
the hour again, as TLC shows for a large `MaxAge`.

Only model-checked: liveness and what needs it (`TrapEnds`, `TravelEnds`,
`MinedIsBanked`, `PageCatchesUp`, `ServerCatchesUp`), which the prover does not do under
fairness.

## 5. What is not modelled

* The price and the payment of a rescue or a repair in real mode: the handlers answer 501.
* Serialisation and wallet signatures are taken as correct, and keccak as free of
  collisions. Beside `MerkleTree` a Merkle proof is membership, and an allowance is of 64
  bits where it is put in a leaf.
* `transactionRetry.ts` (`sendTransactionWithRetry`), which no page uses beside its poll;
  `checkSession`, which no page calls.
* `EarningsDashboard.tsx` and `useEarnings`, which the page never mounts (`ContractCard` and
  `RankPanel` are the panels it does).
* Terrain noise, meshes, shaders, the drawing of weather and veins, the synthesis of sound:
  functions of one frame without a protocol.
* Metrics, hexes and health routes, the user list, roles and the manual deposit of the
  admin: projections of, or single writes to, state that other components own.
* Development routes, seeds and migrations.
* Two tabs of one browser (a second caller exists in `Surveys` only), and a restart of the
  server while a page is open (what a page sees of it is a dropped connection).
* Several modules at once in one behaviour of `Client` or `Server`: they share no state in
  the model; in the code they meet in the tick, the socket and the page's render, which
  none of the properties is about.

Each component is listed in `PROJECT.json` with its status and reason.
