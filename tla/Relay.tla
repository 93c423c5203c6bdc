------------------------------- MODULE Relay -------------------------------
(***************************************************************************)
(* The clearnet relay: its lifecycle (src/src/relay/index.ts), the mesh    *)
(* listener that every activity record reaches (mesh-listener.ts) and the  *)
(* mirror that the ActivityPub server answers from (agent-mirror.ts).      *)
(* The store is on disk; the mirror and the counters are in memory and     *)
(* start empty, whatever the store holds.                                  *)
(***************************************************************************)
EXTENDS Integers, Sequences, FiniteSets, SequencesExt

CONSTANTS
  RelayRecords,
  RelayAgents,
  AuthorOf,      \* [record -> agent]
  KindOf,        \* [record -> "online", "publishable" or "other"]
  StampOf,       \* [record -> its ts]
  Garbled,       \* publishable records whose data has the wrong shape: showing them throws
  UsernameOf,    \* [agent -> pubkeyToUsername: eight characters of the key]
  NoteCap,       \* the notes kept per agent, 500
  MaxReceived,   \* bound: records received per start
  MaxStarts      \* bound: starts of the relay

ASSUME RelayAssumption ==
  /\ AuthorOf \in [RelayRecords -> RelayAgents]
  /\ KindOf \in [RelayRecords -> {"online", "publishable", "other"}]
  /\ StampOf \in [RelayRecords -> Nat]
  /\ Garbled \subseteq { r \in RelayRecords : KindOf[r] # "other" }
  /\ NoteCap \in Nat /\ MaxReceived \in Nat /\ MaxStarts \in Nat

VARIABLES
  relayStore,      \* the records on disk
  relayState,      \* "down", "meshed" or "offline" (the node could not start)
  lastSeenOf,      \* [mirrored agent -> lastSeen]
  profileOf,       \* [mirrored agent -> the agent.online record it shows, or "unknown"]
  usernameIndex,   \* [username -> agent]
  notesOf,         \* [mirrored agent -> the notes of its outbox]
  noteCount,       \* [mirrored agent -> noteCount]
  relayStats,      \* recordsReceived and notesPublished
  relayStarts,
  heard,           \* history: the records mirrored since the start, in order
  relayUnsaved     \* history: those of them whose insert failed

relayVars ==
  <<relayStore, relayState, lastSeenOf, profileOf, usernameIndex, notesOf, noteCount,
    relayStats, relayStarts, heard, relayUnsaved>>

Mirrored == DOMAIN lastSeenOf

\* createAgentMirror and the counters.
EmptyMirror ==
  /\ lastSeenOf' = <<>> /\ profileOf' = <<>> /\ usernameIndex' = <<>>
  /\ notesOf' = <<>> /\ noteCount' = <<>>
  /\ relayStats' = [received |-> 0, published |-> 0]
  /\ heard' = <<>> /\ relayUnsaved' = {}

RelayInit ==
  /\ relayStore = {} /\ relayState = "down" /\ relayStarts = 0
  /\ lastSeenOf = <<>> /\ profileOf = <<>> /\ usernameIndex = <<>>
  /\ notesOf = <<>> /\ noteCount = <<>>
  /\ relayStats = [received |-> 0, published |-> 0]
  /\ heard = <<>> /\ relayUnsaved = {}

\* createRelay and start: when the node cannot be created the relay goes on offline.
StartRelay(meshed) ==
  /\ relayState = "down" /\ relayStarts < MaxStarts
  /\ relayStarts' = relayStarts + 1
  /\ relayState' = IF meshed THEN "meshed" ELSE "offline"
  /\ EmptyMirror
  /\ UNCHANGED relayStore

\* stop, or the end of the process.
StopRelay ==
  /\ relayState # "down"
  /\ relayState' = "down"
  /\ UNCHANGED <<relayStore, lastSeenOf, profileOf, usernameIndex, notesOf, noteCount,
                 relayStats, relayStarts, heard, relayUnsaved>>

\* f with x set to v, as Map.set does.
With(f, x, v) == [y \in DOMAIN f \cup {x} |-> IF y = x THEN v ELSE f[y]]

\* Math.max of recordActivity; upsertAgent sets lastSeen as it is.
SeenAfter(r) ==
  LET a == AuthorOf[r] IN
  IF a \in Mirrored /\ KindOf[r] # "online" /\ lastSeenOf[a] > StampOf[r]
    THEN lastSeenOf[a] ELSE StampOf[r]

\* upsertAgent, and recordActivity, which creates a mirror for an unknown agent.
Mirroring(r) ==
  LET a == AuthorOf[r] IN
  /\ lastSeenOf' = With(lastSeenOf, a, SeenAfter(r))
  /\ profileOf' =
       IF KindOf[r] = "online" THEN With(profileOf, a, r)
       ELSE IF a \in Mirrored THEN profileOf ELSE With(profileOf, a, "unknown")
  /\ usernameIndex' =
       IF a \in Mirrored THEN usernameIndex ELSE With(usernameIndex, UsernameOf[a], a)

\* Mutant of Trimmed: the oldest notes are kept.
TrimmedHead(notes) == IF Len(notes) > NoteCap THEN SubSeq(notes, 1, NoteCap) ELSE notes

\* Mutant of Trimmed: trimmed one note too late.
TrimmedLate(notes) ==
  IF Len(notes) > NoteCap + 1 THEN SubSeq(notes, Len(notes) - NoteCap + 1, Len(notes))
  ELSE notes

\* The last NoteCap notes.
Trimmed(notes) ==
  IF Len(notes) > NoteCap THEN SubSeq(notes, Len(notes) - NoteCap + 1, Len(notes))
  ELSE notes

\* isPublishableRecord, and the translation succeeds.
BecomesNote(r) == KindOf[r] # "other" /\ r \notin Garbled

\* publishNote for a publishable record; noteCount is taken before the trimming.
\* A garbled record throws when its agent is entered (upsertAgent logs the list of
\* capabilities) or when it is translated: after the mirror of its author was
\* written, before the note is pushed.
Noting(r) ==
  LET a == AuthorOf[r]
      old == IF a \in Mirrored THEN notesOf[a] ELSE <<>>
      oldCount == IF a \in Mirrored THEN noteCount[a] ELSE 0
  IN  IF BecomesNote(r)
        THEN /\ notesOf' = With(notesOf, a, Trimmed(Append(old, r)))
             /\ noteCount' = With(noteCount, a, Len(old) + 1)
        ELSE notesOf' = With(notesOf, a, old) /\ noteCount' = With(noteCount, a, oldCount)

\* The store swallows an insert that fails, and the record is mirrored all the same.
Inserting(r) ==
  \/ relayStore' = relayStore \cup {r} /\ UNCHANGED relayUnsaved
  \/ relayUnsaved' = relayUnsaved \cup {r} /\ UNCHANGED relayStore

\* A record of the mesh reaches onRecord; one the store has is only counted.
OnRecord(r) ==
  /\ relayState = "meshed"
  /\ relayStats.received < MaxReceived
  /\ IF r \in relayStore
       THEN /\ relayStats' = [relayStats EXCEPT !.received = @ + 1]
            /\ UNCHANGED <<relayStore, lastSeenOf, profileOf, usernameIndex, notesOf,
                           noteCount, heard, relayUnsaved>>
       ELSE /\ relayStats' =
                 [received |-> relayStats.received + 1,
                  published |-> relayStats.published + (IF BecomesNote(r) THEN 1 ELSE 0)]
            /\ Inserting(r) /\ Mirroring(r) /\ Noting(r)
            /\ heard' = Append(heard, r)
  /\ UNCHANGED <<relayState, relayStarts>>

RelayNext ==
  \/ \E meshed \in BOOLEAN : StartRelay(meshed)
  \/ StopRelay
  \/ \E r \in RelayRecords : OnRecord(r)

RelaySpec == RelayInit /\ [][RelayNext]_relayVars

-----------------------------------------------------------------------------
(* Properties.                                                             *)

RelayTypeOK ==
  /\ relayStore \subseteq RelayRecords
  /\ relayState \in {"down", "meshed", "offline"}
  /\ Mirrored \subseteq RelayAgents /\ \A a \in Mirrored : lastSeenOf[a] \in Nat
  /\ DOMAIN profileOf = Mirrored /\ DOMAIN notesOf = Mirrored /\ DOMAIN noteCount = Mirrored
  /\ Range(usernameIndex) \subseteq Mirrored
  /\ \A a \in Mirrored : Len(notesOf[a]) <= NoteCap
  /\ relayStarts \in 0..MaxStarts
  /\ relayUnsaved \subseteq RelayRecords

\* The places in heard of what an agent announced, and of what it published.
OnlineOf(a) == { i \in DOMAIN heard : AuthorOf[heard[i]] = a /\ KindOf[heard[i]] = "online" }
PublishedOf(a) == { i \in DOMAIN heard : AuthorOf[heard[i]] = a /\ BecomesNote(heard[i]) }

\* How many records of an agent were published from place i on.
PublishedFrom(a, i) == Cardinality({ j \in PublishedOf(a) : j >= i })

\* The fediverse sees what the mesh said since the relay came up: the outbox of an
\* agent is exactly the latest NoteCap notes of the records taken in since then
\* that can be translated, in the order they came in; every author is mirrored and
\* shows its last announcement; the counter of its profile is off by one note at
\* most; every mirrored agent is found under its name, unless a later agent has
\* the same name; and a record is taken in once, unless the store failed to keep it
\* (onRecord, upsertAgent, recordActivity, publishNote, insert).
MirrorFollowsMesh ==
  /\ Mirrored = { AuthorOf[r] : r \in Range(heard) }
  /\ \A a \in Mirrored :
       /\ Len(notesOf[a]) = IF Cardinality(PublishedOf(a)) > NoteCap THEN NoteCap
                            ELSE Cardinality(PublishedOf(a))
       /\ \A i \in PublishedOf(a) : PublishedFrom(a, i) <= NoteCap =>
            notesOf[a][Len(notesOf[a]) + 1 - PublishedFrom(a, i)] = heard[i]
       /\ noteCount[a] \in {Len(notesOf[a]), Len(notesOf[a]) + 1}
       /\ profileOf[a] = IF OnlineOf(a) = {} THEN "unknown"
                         ELSE heard[CHOOSE i \in OnlineOf(a) : \A j \in OnlineOf(a) : j <= i]
       /\ UsernameOf[usernameIndex[UsernameOf[a]]] = UsernameOf[a]
  /\ \A i, j \in DOMAIN heard :
       heard[i] = heard[j] /\ heard[i] \notin relayUnsaved => i = j

\* "Running in offline mode (serving cached records)" (the log line of start;
\* SPEC.md 5.5): a relay that is up serves an actor for every agent it has a record
\* of, also of one heard before it last stopped.
StoredAgentsMirrored ==
  relayState # "down" => { AuthorOf[r] : r \in relayStore } \subseteq Mirrored
=============================================================================
