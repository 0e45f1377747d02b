--------------------------- MODULE EconomyConfig ----------------------------
(***************************************************************************)
(* The economy configuration: a row in Postgres that an admin edits and a  *)
(* copy in Redis that every claim reads first.  A read that misses fetches *)
(* the row and stores it in a later statement; an edit writes the row and  *)
(* deletes the copy in a later statement; nothing orders the two.          *)
(*                                                                         *)
(* A configuration is [paused, version], version counting its edits.  The  *)
(* copy is <<>> or <<config>>.                                             *)
(***************************************************************************)
EXTENDS Integers, Sequences

CONSTANTS
  Readers,         \* requests that read the configuration
  MaxEdits,        \* bound: changes of the configuration
  MaxSlips         \* bound: failed invalidations

ASSUME EconomyAssumption == {MaxEdits, MaxSlips} \subseteq Nat

VARIABLES
  row, cache,              \* the row, its copy
  readPc, readRow,         \* a reader: "idle", "missed", "read"; the row it has
  verdict,                 \* what the last claim it checked was told: "none", "go", "paused"
  editPc,                  \* the admin's update: "idle", "upserted"
  excused,                 \* history: the copy is behind for a reason the code accepts
  slips

economyVars == <<row, cache, readPc, readRow, verdict, editPc, excused, slips>>

EconomyInit ==
  /\ row = [paused |-> FALSE, version |-> 0] /\ cache = <<>>
  /\ readPc = [r \in Readers |-> "idle"] /\ readRow = [r \in Readers |-> <<>>]
  /\ verdict = [r \in Readers |-> "none"]
  /\ editPc = "idle" /\ excused = FALSE /\ slips = 0

Slip == slips < MaxSlips /\ slips' = slips + 1

-----------------------------------------------------------------------------
(* getEconomyConfig as a claim calls it, updateEconomyConfig as an admin does. *)

Verdict(config) == IF config.paused THEN "paused" ELSE "go"

\* A hit answers at once: isClaimsPaused in POST /claim.
ConfigAsked(r) ==
  /\ readPc[r] = "idle"
  /\ IF cache # <<>>
     THEN verdict' = [verdict EXCEPT ![r] = Verdict(cache[1])] /\ UNCHANGED readPc
     ELSE readPc' = [readPc EXCEPT ![r] = "missed"] /\ UNCHANGED verdict
  /\ UNCHANGED <<row, cache, readRow, editPc, excused, slips>>

ConfigRead(r) ==
  /\ readPc[r] = "missed"
  /\ readPc' = [readPc EXCEPT ![r] = "read"]
  /\ readRow' = [readRow EXCEPT ![r] = <<row>>]
  /\ UNCHANGED <<row, cache, verdict, editPc, excused, slips>>

\* setex, whatever has happened to the row since.
ConfigStored(r) ==
  /\ readPc[r] = "read"
  /\ readPc' = [readPc EXCEPT ![r] = "idle"] /\ readRow' = [readRow EXCEPT ![r] = <<>>]
  /\ cache' = readRow[r]
  /\ verdict' = [verdict EXCEPT ![r] = Verdict(readRow[r][1])]
  /\ excused' = (excused \/ readRow[r][1] # row)
  /\ UNCHANGED <<row, editPc, slips>>

\* The upsert of a PATCH, a pause or an unpause.
ConfigUpserted(pauses) ==
  /\ editPc = "idle" /\ row.version < MaxEdits
  /\ row' = [paused |-> pauses, version |-> row.version + 1] /\ editPc' = "upserted"
  /\ UNCHANGED <<cache, readPc, readRow, verdict, excused, slips>>

\* redis.del, then the answer; if it fails the admin is told of an error.
InvalidatedNever == cache' = cache /\ excused' = FALSE   \* Variant: the copy stays.

Invalidated == cache' = <<>> /\ excused' = FALSE

ConfigInvalidated(ok) ==
  /\ editPc = "upserted" /\ editPc' = "idle"
  /\ IF ok THEN Invalidated /\ UNCHANGED slips
     ELSE Slip /\ excused' = TRUE /\ UNCHANGED cache
  /\ UNCHANGED <<row, readPc, readRow, verdict>>

\* CACHE_TTL passes.
CacheExpires ==
  /\ cache # <<>> /\ Invalidated
  /\ UNCHANGED <<row, readPc, readRow, verdict, editPc, slips>>

-----------------------------------------------------------------------------

EconomyNext ==
  \/ \E r \in Readers : ConfigAsked(r) \/ ConfigRead(r) \/ ConfigStored(r)
  \/ \E ok \in BOOLEAN : ConfigUpserted(ok) \/ ConfigInvalidated(ok)
  \/ CacheExpires

\* Redis lets keys expire, an admin's request goes on, and a reader's does.
EconomyFair ==
  /\ WF_economyVars(CacheExpires) /\ WF_economyVars(\E ok \in BOOLEAN : ConfigInvalidated(ok))
  /\ \A r \in Readers : WF_economyVars(ConfigRead(r)) /\ WF_economyVars(ConfigStored(r))

EconomySpec == EconomyInit /\ [][EconomyNext]_economyVars

-----------------------------------------------------------------------------
(* Properties. *)

EconomyTypeOK ==
  /\ row \in [paused : BOOLEAN, version : 0..MaxEdits] /\ Len(cache) <= 1
  /\ readPc \in [Readers -> {"idle", "missed", "read"}]
  /\ verdict \in [Readers -> {"none", "go", "paused"}]
  /\ editPc \in {"idle", "upserted"} /\ excused \in BOOLEAN /\ slips \in 0..MaxSlips

\* A pause that was answered is the configuration claims are checked against,
\* unless a request that had read the old row stored it afterwards or the
\* invalidation itself failed (updateEconomyConfig deletes after it has written).
PauseHolds == editPc = "idle" /\ ~excused /\ cache # <<>> => cache[1] = row

\* And in those two cases the copy comes right by itself (CACHE_TTL).
ConfigCatchesUp == <>[](cache = <<>> \/ cache[1] = row)
=============================================================================
