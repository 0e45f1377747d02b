------------------------------ MODULE Seasons -------------------------------
(***************************************************************************)
(* The leaderboard, a ZSET of Redis, and the script that closes a season   *)
(* over it.  The flush fills the board from the totals of the players, the *)
(* leaderboard page reads it by several commands, and closeSeason turns it *)
(* into rows and bonuses and then deletes it: five statements, with        *)
(* nothing but a unique column to keep two runs of the script apart.       *)
(*                                                                         *)
(* A score of 0 stands for a user who is not on the board; bonuses are     *)
(* counted in increments.                                                  *)
(***************************************************************************)
EXTENDS Integers, Sequences, FiniteSets

CONSTANTS
  Closers,         \* runs of closeSeason
  Gamers, Ordinal, \* users, and the order of their wallets
  PageUser,        \* whose page it is
  DOUBLE_CLOSE_GUARD,
  MaxScore,        \* bound: what a user has mined
  MaxDate          \* bound: the clock

ASSUME SeasonAssumption ==
  /\ {MaxScore, MaxDate} \subseteq Nat /\ DOUBLE_CLOSE_GUARD \in Nat \ {0}
  /\ IsFiniteSet(Gamers) /\ Ordinal \in [Gamers -> Nat] /\ PageUser \in Gamers

VARIABLES
  totals, board,           \* mined by a user; the ZSET
  flushing,                \* the scores a flush has read and not yet written
  date, seasons,           \* <<[number, closedAt], ...>>
  closePc, closeNumber, closeEntries,   \* closeSeason: the number it read, its snapshot
  bonus,                   \* seasonBonusPct
  pagePc, pageRank, pageTotal, disturbed   \* GET /api/leaderboard

ranking   == <<totals, board, flushing>>
closing   == <<seasons, closePc, closeNumber, closeEntries, bonus>>
boardPage == <<pagePc, pageRank, pageTotal, disturbed>>
seasonVars == <<ranking, date, closing, boardPage>>

SeasonInit ==
  /\ totals = [u \in Gamers |-> 0] /\ board = [u \in Gamers |-> 0] /\ flushing = <<>>
  /\ date = 0 /\ seasons = <<>>
  /\ closePc = [c \in Closers |-> "idle"] /\ closeNumber = [c \in Closers |-> 0]
  /\ closeEntries = [c \in Closers |-> {}] /\ bonus = [u \in Gamers |-> 0]
  /\ pagePc = "idle" /\ pageRank = 0 /\ pageTotal = 0 /\ disturbed = FALSE

-----------------------------------------------------------------------------
(* The leaderboard: the flush writes, GET /api/leaderboard reads. *)

Mine(u) ==
  /\ totals[u] < MaxScore /\ totals' = [totals EXCEPT ![u] = @ + 1]
  /\ UNCHANGED <<board, flushing, date, closing, boardPage>>

FlushReads ==
  /\ flushing = <<>> /\ flushing' = <<totals>>
  /\ UNCHANGED <<totals, board, date, closing, boardPage>>

\* updateScoresBatch, for the users that have mined.
UpdateScoresBatch ==
  /\ flushing # <<>> /\ flushing' = <<>>
  /\ board' = [u \in Gamers |-> IF flushing[1][u] > 0 THEN flushing[1][u] ELSE board[u]]
  /\ UNCHANGED <<totals, date, closing, boardPage>>

Ranked == {u \in Gamers : board[u] > 0}

\* ZREVRANK: the highest score first, equal ones by wallet, the last first.
Above(u) == {v \in Ranked : board[v] > board[u] \/ (board[v] = board[u] /\ Ordinal[v] > Ordinal[u])}

\* The rank is asked for, in one pipeline with the count but not as one transaction.
PageAsksRank ==
  /\ pagePc = "idle" /\ disturbed' = FALSE
  /\ IF PageUser \in Ranked
     THEN pagePc' = "ranked" /\ pageRank' = Cardinality(Above(PageUser)) + 1
     ELSE pagePc' = "idle" /\ pageRank' = 0
  /\ pageTotal' = 0
  /\ UNCHANGED <<ranking, date, closing>>

PageAsksCount ==
  /\ pagePc = "ranked" /\ pagePc' = "shown" /\ pageTotal' = Cardinality(Ranked)
  /\ UNCHANGED <<ranking, date, closing, pageRank, disturbed>>

PageRefreshes ==
  /\ pagePc = "shown" /\ pagePc' = "idle" /\ pageRank' = 0 /\ pageTotal' = 0
  /\ UNCHANGED <<ranking, date, closing, disturbed>>

\* getUserPercentile has no answer on an empty board.
HasPercentile == pagePc = "shown" /\ pageRank # 0 /\ pageTotal # 0
Percentile    == ((pageTotal - pageRank) * 100) \div pageTotal

-----------------------------------------------------------------------------
(* closeSeason. *)

DatePasses ==
  /\ date < MaxDate /\ date' = date + 1
  /\ UNCHANGED <<ranking, seasons, closePc, closeNumber, closeEntries, bonus,
                 boardPage>>

LastClosed == IF seasons = <<>> THEN -DOUBLE_CLOSE_GUARD ELSE seasons[Len(seasons)].closedAt

CloseGuarded(c) ==
  /\ closePc[c] = "idle" /\ date - LastClosed >= DOUBLE_CLOSE_GUARD
  /\ closePc' = [closePc EXCEPT ![c] = "guarded"]
  /\ closeNumber' = [closeNumber EXCEPT ![c] = Len(seasons) + 1]
  /\ UNCHANGED <<ranking, date, seasons, closeEntries, bonus, boardPage>>

CloseSnapshot(c) ==
  /\ closePc[c] = "guarded" /\ closePc' = [closePc EXCEPT ![c] = "snapshot"]
  /\ closeEntries' = [closeEntries EXCEPT ![c] = Ranked]
  /\ UNCHANGED <<ranking, date, seasons, closeNumber, bonus, boardPage>>

NumberAlwaysFree(number) == TRUE   \* Variant: the column is not unique.

\* Season.number is unique.
NumberFree(number) == \A n \in DOMAIN seasons : seasons[n].number # number

\* The transaction: the season, a result and an increment for every participant.
CloseCommitted(c) ==
  /\ closePc[c] = "snapshot"
  /\ IF NumberFree(closeNumber[c])
     THEN /\ seasons' = Append(seasons, [number |-> closeNumber[c], closedAt |-> date])
          /\ bonus' = [u \in Gamers |-> IF u \in closeEntries[c] THEN bonus[u] + 1 ELSE bonus[u]]
          /\ closePc' = [closePc EXCEPT ![c] = "committed"]
     ELSE /\ closePc' = [closePc EXCEPT ![c] = "over"]
          /\ UNCHANGED <<seasons, bonus>>
  /\ UNCHANGED <<ranking, date, closeNumber, closeEntries, boardPage>>

\* redis.del of the board, if the script lives to do it.
CloseCleared(c, ok) ==
  /\ closePc[c] = "committed" /\ closePc' = [closePc EXCEPT ![c] = "over"]
  /\ IF ok THEN board' = [u \in Gamers |-> 0] /\ disturbed' = TRUE
     ELSE UNCHANGED <<board, disturbed>>
  /\ UNCHANGED <<totals, flushing, date, seasons, closeNumber, closeEntries, bonus,
                 pagePc, pageRank, pageTotal>>

-----------------------------------------------------------------------------

SeasonNext ==
  \/ \E u \in Gamers : Mine(u)
  \/ FlushReads \/ UpdateScoresBatch \/ PageAsksRank \/ PageAsksCount \/ PageRefreshes
  \/ DatePasses
  \/ \E c \in Closers : \/ CloseGuarded(c) \/ CloseSnapshot(c) \/ CloseCommitted(c)
                        \/ \E ok \in BOOLEAN : CloseCleared(c, ok)

SeasonSpec == SeasonInit /\ [][SeasonNext]_seasonVars

-----------------------------------------------------------------------------
(* Properties. *)

SeasonTypeOK ==
  /\ \A x \in {totals, board} : x \in [Gamers -> 0..MaxScore]
  /\ date \in 0..MaxDate /\ bonus \in [Gamers -> 0..MaxDate + 1]
  /\ closePc \in [Closers -> {"idle", "guarded", "snapshot", "committed", "over"}]
  /\ pagePc \in {"idle", "ranked", "shown"} /\ disturbed \in BOOLEAN
  /\ {pageRank, pageTotal} \subseteq 0..Cardinality(Gamers)

\* Two seasons are never closed within the guard, also when two operators run the
\* script at once (the guard is read long before the season is written; the unique
\* number stops the second).
SeasonsAreApart ==
  \A n \in 1..Len(seasons) - 1 :
    seasons[n + 1].closedAt - seasons[n].closedAt >= DOUBLE_CLOSE_GUARD

\* The page places a user between first and last of those it counts, unless a season
\* was closed between the two commands: the flush only ever adds to the board.
PercentileMakesSense == HasPercentile /\ ~disturbed => Percentile \in 0..99

\* A season is closed once, and the place a page shows is one of those it counts.
BoardIsSound == SeasonsAreApart /\ PercentileMakesSense
=============================================================================
