------------------------------ MODULE Autonomy ------------------------------
(***************************************************************************)
(* The autonomous side of an agent: the scheduler that picks its next      *)
(* action (src/src/autonomous/scheduler.ts) and the content manager that   *)
(* generates and publishes a post (src/src/autonomous/content.ts).  The    *)
(* caller measures the state it hands to decide, acts, and records the     *)
(* action afterwards; generate waits for the agent and for a signature.    *)
(***************************************************************************)
EXTENDS Clock, Integers, Sequences, FiniteSets, SequencesExt

CONSTANTS
  WorkScan,          \* workScanIntervalMs
  ContentInterval,   \* contentIntervalMs and minIntervalMs
  PublicMode,        \* publicMode
  SpawnPause,        \* the 24 hours between two spawns
  HistoryCap,        \* the actions remembered, 1000
  AutonomyMaxTime,   \* bound: the clock
  MaxActions,        \* bound: actions taken
  MaxDrafts          \* bound: generate calls under way

ASSUME AutonomyAssumption ==
  /\ {WorkScan, ContentInterval, SpawnPause, AutonomyMaxTime, MaxActions, MaxDrafts} \subseteq Nat
  /\ HistoryCap \in Nat \ {0} /\ PublicMode \in BOOLEAN

VARIABLES
  lastWorkSeek, lastContent,  \* lastWorkSeekAt and lastContentAt of the caller
  decided,         \* the action decided on and not yet recorded, or "none"
  actionHistory,   \* actionHistory: [action, at]
  taken,           \* history: every action recorded, untrimmed
  drafting,        \* the generate calls that wait, as the times they started at
  publishedAt,     \* publishedAt of the posts, in order of publication
  lastPublishTime, \* lastPublishTime, 0 before the first post
  postOverlap      \* history: whether two generate calls have overlapped

autonomyVars ==
  <<lastWorkSeek, lastContent, decided, actionHistory, taken, drafting, publishedAt,
    lastPublishTime, postOverlap>>

AutonomyInit ==
  /\ ClockInit
  /\ lastWorkSeek = 0 /\ lastContent = 0 /\ decided = "none"
  /\ actionHistory = <<>> /\ taken = <<>>
  /\ drafting = <<>> /\ publishedAt = <<>> /\ lastPublishTime = 0 /\ postOverlap = FALSE

\* Mutant of RecentSpawn: only the latest action is looked at.
RecentSpawnLast ==
  actionHistory # <<>> /\ Last(actionHistory).action = "spawn_child"
  /\ now - Last(actionHistory).at < SpawnPause

RecentSpawn ==
  \E h \in Range(actionHistory) : h.action = "spawn_child" /\ now - h.at < SpawnPause

\* decide, by priority; the load and the reputation are the caller's.
Decision(load, reputationLow, earns) ==
  CASE load = "full" -> "idle"
    [] load # "full" /\ reputationLow -> "maintenance"
    [] load # "full" /\ ~reputationLow /\ now - lastWorkSeek > WorkScan -> "seek_work"
    [] OTHER ->
         IF PublicMode /\ now - lastContent > ContentInterval /\ load = "low"
           THEN "generate_content"
         ELSE IF load = "high" /\ earns /\ ~RecentSpawn THEN "spawn_child"
         ELSE "idle"

decide(load, reputationLow, earns) ==
  /\ decided = "none" /\ Len(taken) < MaxActions
  /\ decided' = Decision(load, reputationLow, earns)
  /\ UNCHANGED <<lastWorkSeek, lastContent, actionHistory, taken, drafting, publishedAt,
                 lastPublishTime, postOverlap>>

\* Mutant of Recorded: nothing is forgotten.
RecordedAll(history) == history

\* The latest HistoryCap actions.
Recorded(history) ==
  IF Len(history) > HistoryCap
    THEN SubSeq(history, Len(history) - HistoryCap + 1, Len(history)) ELSE history

\* The caller has acted: recordAction, and its own notes of the times.
recordAction ==
  /\ decided # "none"
  /\ decided' = "none"
  /\ LET done == [action |-> decided, at |-> now] IN
     /\ actionHistory' = Recorded(Append(actionHistory, done))
     /\ taken' = Append(taken, done)
  /\ lastWorkSeek' = IF decided = "seek_work" THEN now ELSE lastWorkSeek
  /\ lastContent' = IF decided = "generate_content" THEN now ELSE lastContent
  /\ UNCHANGED <<drafting, publishedAt, lastPublishTime, postOverlap>>

\* generate up to its first await; the interval counts from the last post.
GenerateCall ==
  /\ Len(drafting) < MaxDrafts /\ Len(publishedAt) < MaxActions
  /\ now - lastPublishTime >= ContentInterval
  /\ drafting' = Append(drafting, now)
  /\ postOverlap' = (postOverlap \/ drafting # <<>>)
  /\ UNCHANGED <<lastWorkSeek, lastContent, decided, actionHistory, taken, publishedAt,
                 lastPublishTime>>

\* The post is stored, dated with the start of the call.
Generated(i) ==
  /\ i \in DOMAIN drafting
  /\ drafting' = RemoveAt(drafting, i)
  /\ publishedAt' = Append(publishedAt, drafting[i])
  /\ lastPublishTime' = drafting[i]
  /\ UNCHANGED <<lastWorkSeek, lastContent, decided, actionHistory, taken, postOverlap>>

\* The agent has nothing to say, or generate fails.
NothingGenerated(i) ==
  /\ i \in DOMAIN drafting
  /\ drafting' = RemoveAt(drafting, i)
  /\ UNCHANGED <<lastWorkSeek, lastContent, decided, actionHistory, taken, publishedAt,
                 lastPublishTime, postOverlap>>

AutonomySteps ==
  \/ \E load \in {"full", "low", "medium", "high"}, low \in BOOLEAN, earns \in BOOLEAN :
       decide(load, low, earns)
  \/ recordAction
  \/ GenerateCall
  \/ \E i \in 1..MaxDrafts : Generated(i) \/ NothingGenerated(i)

AutonomyNext ==
  \/ AutonomySteps /\ UNCHANGED now
  \/ TickUpTo(AutonomyMaxTime) /\ UNCHANGED autonomyVars

AutonomySpec == AutonomyInit /\ [][AutonomyNext]_<<autonomyVars, now>>

-----------------------------------------------------------------------------
(* Properties.                                                             *)

ActionNames == {"idle", "maintenance", "seek_work", "generate_content", "spawn_child"}

AutonomyTypeOK ==
  /\ {lastWorkSeek, lastContent, lastPublishTime} \subseteq 0..now
  /\ decided \in ActionNames \cup {"none"}
  /\ Len(actionHistory) <= HistoryCap
  /\ \A h \in Range(taken) : h.action \in ActionNames /\ h.at \in 1..now
  /\ Range(drafting) \cup Range(publishedAt) \subseteq 1..now
  /\ postOverlap \in BOOLEAN

\* An agent that only acts on what it has decided spawns at most one child in
\* SpawnPause, unless HistoryCap other actions have pushed the spawn out of the
\* history meanwhile (decide, recordAction).
SpawnsApart ==
  \A i, j \in DOMAIN taken :
    i < j /\ taken[i].action = "spawn_child" /\ taken[j].action = "spawn_child" =>
      taken[j].at - taken[i].at >= SpawnPause \/ j - i > HistoryCap

\* Posts are ContentInterval apart, as long as no two generate calls overlap: the
\* interval is checked before the waits and the post only counts after them
\* (generate).
PostsApart ==
  ~postOverlap =>
    \A i, j \in DOMAIN publishedAt : i < j => publishedAt[j] - publishedAt[i] >= ContentInterval

\* The pace an agent keeps when left alone.
AgentPaced == SpawnsApart /\ PostsApart
=============================================================================
