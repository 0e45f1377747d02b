---------------------------- MODULE MiningClaims ----------------------------
(***************************************************************************)
(* What the comments and design notes of the repository say of the mining  *)
(* simulation and the code does not always do.  Each is refuted by a run.  *)
(***************************************************************************)
EXTENDS MiningCore

\* 03-CONTEXT.md: "On server startup: load all MINING/RELOCATING agents from
\* Postgres to Redis", "Resume tick loop from last known state": a journey
\* ends, also over a restart.
JourneyResumes ==
  \A a \in Agents : (a \in cached /\ cache[a].status = "RELOCATING")
                      ~> (cache[a].status # "RELOCATING")

\* agents.ts on repair: "Reset wear in the Redis cache so the next tick mines at
\* full efficiency".  No step raises wear by more than one tick's accrual.
RepairSticks ==
  [][\A a \in Agents : cache'[a].wear <= AccrueWear(cache[a].wear)]_vars
=============================================================================
