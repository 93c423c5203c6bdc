------------------------------- MODULE Board -------------------------------
(***************************************************************************)
(* The task board (src/src/marketplace/board.ts) over the records of the   *)
(* store (queryByType in src/src/activity/store.ts).                       *)
(*                                                                         *)
(* The board answers from a cache of listings that it rebuilds when it is  *)
(* older than CacheTtl.  The status of a listing is read off the latest    *)
(* records of each type, QueryLimit of them, so a record may be crowded    *)
(* out by newer ones about other tasks.                                    *)
(***************************************************************************)
EXTENDS Clock, Sequences, FiniteSets

CONSTANTS
  BoardTasks,
  DeadlineOf,        \* [task -> its deadline, 0 for none]
  Stages,            \* the record types that move a task on
  CacheTtl,          \* CACHE_TTL_MS
  PostedLimit,       \* the limit of the query for tasks, 200
  QueryLimit,        \* the limit of the queries for a status, 100
  BoardMaxTime,      \* bound: the clock
  MaxBoardRecords    \* bound: records in the store

\* From the most advanced stage backwards, as resolveStatus asks.
StageOrder == <<"settled", "verified", "completed", "failed", "assigned">>

ASSUME BoardAssumption ==
  /\ Stages \subseteq { StageOrder[i] : i \in DOMAIN StageOrder }
  /\ DeadlineOf \in [BoardTasks -> Nat]
  /\ CacheTtl \in Nat /\ PostedLimit \in Nat /\ QueryLimit \in Nat
  /\ BoardMaxTime \in Nat /\ MaxBoardRecords \in Nat

VARIABLES
  boardRecords,  \* the store: records [type, task, ts, at], in the order of insertion,
                 \* at being the time of the insertion
  listingCache,  \* the listings [task, status] of the last rebuild
  lastRefresh,   \* time of the last rebuild, 0 before the first
  shown          \* what the last browse or getTask answered from, and when

boardVars == <<boardRecords, listingCache, lastRefresh, shown>>

BoardInit ==
  /\ ClockInit
  /\ boardRecords = <<>>
  /\ listingCache = {} /\ lastRefresh = 0
  /\ shown = [listings |-> {}, at |-> 0]

\* A record arrives, with the time stamp its author gave it.
InsertRecord(type, t, ts) ==
  /\ Len(boardRecords) < MaxBoardRecords
  /\ \A i \in DOMAIN boardRecords : boardRecords[i].type # type \/ boardRecords[i].task # t
  /\ boardRecords' = Append(boardRecords, [type |-> type, task |-> t, ts |-> ts, at |-> now])
  /\ UNCHANGED <<listingCache, lastRefresh, shown>>

\* queryByType: ORDER BY ts DESC LIMIT; rows of one second in the order they have.
Precedes(i, j) ==
  \/ boardRecords[i].ts > boardRecords[j].ts
  \/ boardRecords[i].ts = boardRecords[j].ts /\ i < j

OfType(type) == { i \in DOMAIN boardRecords : boardRecords[i].type = type }

queryByType(type, limit) ==
  { i \in OfType(type) : Cardinality({ j \in OfType(type) : Precedes(j, i) }) < limit }

Reached(t) ==
  { k \in DOMAIN StageOrder :
      \E i \in queryByType(StageOrder[k], QueryLimit) : boardRecords[i].task = t }

\* Mutant of resolveStatus: the first stage is asked for first.
resolveStatusForward(t) ==
  IF Reached(t) = {} THEN "open"
  ELSE StageOrder[CHOOSE k \in Reached(t) : \A l \in Reached(t) : l <= k]

resolveStatus(t) ==
  IF Reached(t) = {} THEN "open"
  ELSE StageOrder[CHOOSE k \in Reached(t) : \A l \in Reached(t) : k <= l]

PastDeadline(t) == DeadlineOf[t] > 0 /\ DeadlineOf[t] < now

rebuildCache ==
  /\ listingCache' =
       { [task |-> t, status |-> resolveStatus(t)] :
           t \in { boardRecords[i].task : i \in queryByType("posted", PostedLimit) } }
       \ { [task |-> t, status |-> "open"] : t \in { u \in BoardTasks : PastDeadline(u) } }
  /\ lastRefresh' = now

\* Mutant of Stale: the first cache is kept.
StaleOnce == lastRefresh = 0

\* The time before the first rebuild is older than any cache may be.
Stale == lastRefresh = 0 \/ now - lastRefresh > CacheTtl

\* browse without a filter, and getTask.
browse ==
  /\ IF Stale THEN rebuildCache ELSE UNCHANGED <<listingCache, lastRefresh>>
  /\ shown' = [listings |-> listingCache', at |-> now]
  /\ UNCHANGED boardRecords

refresh ==
  /\ rebuildCache
  /\ UNCHANGED <<boardRecords, shown>>

BoardSteps ==
  \/ \E type \in Stages \cup {"posted"}, t \in BoardTasks, ts \in {1, now} :
       InsertRecord(type, t, ts)
  \/ browse
  \/ refresh

BoardNext ==
  \/ BoardSteps /\ UNCHANGED now
  \/ TickUpTo(BoardMaxTime) /\ UNCHANGED boardVars

BoardSpec == BoardInit /\ [][BoardNext]_<<boardVars, now>>

-----------------------------------------------------------------------------
(* Properties.                                                             *)

Status == {"open"} \cup { StageOrder[i] : i \in DOMAIN StageOrder }

Listing == [task : BoardTasks, status : Status]

BoardTypeOK ==
  /\ \A i \in DOMAIN boardRecords :
       /\ boardRecords[i].task \in BoardTasks /\ boardRecords[i].type \in Stages \cup {"posted"}
       /\ boardRecords[i].ts \in 1..boardRecords[i].at /\ boardRecords[i].at \in 1..now
  /\ listingCache \subseteq Listing /\ lastRefresh \in 0..now
  /\ shown.listings \subseteq Listing /\ shown.at \in 0..now

\* The stages a task had reached in the store by a given time, when no more than
\* QueryLimit records of their type are there to crowd them out.
ReachedBy(t, time) ==
  { k \in DOMAIN StageOrder :
      /\ Cardinality(OfType(StageOrder[k])) <= QueryLimit
      /\ \E i \in OfType(StageOrder[k]) :
           boardRecords[i].task = t /\ boardRecords[i].at <= time }

\* What the board shows lags by less than CacheTtl: a listing is at least as far
\* on as any record the store had that long before, whatever arrived late or out
\* of order, as long as no type has more than QueryLimit records; and it shows one
\* status per task, never one that no record supports (browse, resolveStatus).
ListingLagsBriefly ==
  \A l \in shown.listings :
    /\ \A k \in DOMAIN StageOrder :
         shown.at > CacheTtl /\ k \in ReachedBy(l.task, shown.at - CacheTtl - 1) =>
           \E j \in 1..k : StageOrder[j] = l.status
    /\ l.status # "open" => \E i \in OfType(l.status) : boardRecords[i].task = l.task
    /\ \A m \in shown.listings : m.task = l.task => m = l
=============================================================================
