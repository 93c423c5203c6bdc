------------------------------- MODULE Gossip -------------------------------
(***************************************************************************)
(* The gossip manager (src/src/network/gossip.ts): a record that arrives   *)
(* is marked as seen, its signature is verified while others arrive, and   *)
(* then it is routed to every handler of every topic.  A timer forgets     *)
(* what was seen too long ago and, above a cap, the oldest entries.        *)
(*                                                                         *)
(* Marks are kept in milliseconds, time stamps of records in seconds: the  *)
(* clock of this module counts TicksPerSecond ticks to the second.         *)
(***************************************************************************)
EXTENDS Clock, Integers, FiniteSets, FiniteSetsExt

CONSTANTS
  GossipRecords,   \* the record ids
  StampedAt,       \* [id -> the record's ts, in seconds]
  Topics, RecordHandlers,
  TicksPerSecond,
  MaxDrift,        \* the accepted drift, in seconds
  SeenTtl,         \* SEEN_TTL_MS, in ticks
  MaxSeen,         \* MAX_SEEN
  GossipMaxTime,   \* bound: the clock
  MaxArrivals      \* bound: copies that arrive

ASSUME GossipAssumption ==
  /\ TicksPerSecond \in Nat \ {0} /\ MaxDrift \in Nat
  /\ SeenTtl = MaxDrift * TicksPerSecond
  /\ StampedAt \in [GossipRecords -> Int] /\ IsFiniteSet(Topics)
  /\ MaxSeen \in Nat /\ GossipMaxTime \in Nat /\ MaxArrivals \in Nat

VARIABLES
  seenRecords,    \* [id] -> time of the mark, 0 for none
  topicHandlers,  \* [topic] -> its handlers
  verifying,      \* the copies whose signature is being verified
  arrivals,       \* how many copies have arrived
  heard,          \* [id][handler] -> how often the handler was called
  firstMark,      \* [id] -> time of the first mark, 0 for none
  evicted         \* the ids whose mark was dropped for the cap

gossipVars == <<seenRecords, topicHandlers, verifying, arrivals, heard, firstMark,
                evicted>>

Second(t) == t \div TicksPerSecond

GossipInit ==
  /\ ClockInit
  /\ seenRecords = [r \in GossipRecords |-> 0]
  /\ topicHandlers = [t \in Topics |-> {}]
  /\ verifying = {}
  /\ arrivals = 0
  /\ heard = [r \in GossipRecords |-> [h \in RecordHandlers |-> 0]]
  /\ firstMark = [r \in GossipRecords |-> 0]
  /\ evicted = {}

MarkSeen(r) ==
  /\ seenRecords' = [seenRecords EXCEPT ![r] = now]
  /\ firstMark' = [firstMark EXCEPT ![r] = IF @ = 0 THEN now ELSE @]

\* A record that this node makes: it is broadcast and not handled here.
publish(r) ==
  /\ firstMark[r] = 0 /\ StampedAt[r] <= Second(now)
  /\ MarkSeen(r)
  /\ UNCHANGED <<topicHandlers, verifying, arrivals, heard, evicted>>

subscribe(t, h) ==
  /\ topicHandlers' = [topicHandlers EXCEPT ![t] = @ \cup {h}]
  /\ UNCHANGED <<seenRecords, verifying, arrivals, heard, firstMark, evicted>>

unsubscribe(t) ==
  /\ topicHandlers' = [topicHandlers EXCEPT ![t] = {}]
  /\ UNCHANGED <<seenRecords, verifying, arrivals, heard, firstMark, evicted>>

\* A copy of a record arrives; a copy whose signature is wrong is marked, too.
handleIncomingMessage(r, valid) ==
  /\ arrivals < MaxArrivals
  /\ seenRecords[r] = 0
  /\ MarkSeen(r)
  /\ arrivals' = arrivals + 1
  /\ verifying' = verifying \cup {[record |-> r, valid |-> valid, copy |-> arrivals]}
  /\ UNCHANGED <<topicHandlers, heard, evicted>>

\* Mutant of Drifted: a record stamped long ago is let through.
DriftedAhead(r) == StampedAt[r] - Second(now) > MaxDrift

Drifted(r) ==
  \/ Second(now) - StampedAt[r] > MaxDrift
  \/ StampedAt[r] - Second(now) > MaxDrift

\* A handler that is subscribed to two topics is called twice.
routeRecord(r) ==
  heard' = [heard EXCEPT ![r] = [h \in RecordHandlers |->
              @[h] + Cardinality({ t \in Topics : h \in topicHandlers[t] })]]

\* The verification of a copy has ended; the drift is looked at only now.
Verified(m) ==
  /\ m \in verifying
  /\ verifying' = verifying \ {m}
  /\ \/ m.valid /\ ~Drifted(m.record) /\ routeRecord(m.record)
     \/ (~m.valid \/ Drifted(m.record)) /\ UNCHANGED heard
  /\ UNCHANGED <<seenRecords, topicHandlers, arrivals, firstMark, evicted>>

Marked == { r \in GossipRecords : seenRecords[r] # 0 }

Outdated(r) == now - seenRecords[r] > SeenTtl

\* The cleanup timer: outdated marks go, then the oldest ones above the cap (of
\* equally old ones, those that were marked first).
pruneSeenRecords ==
  LET old == { r \in Marked : Outdated(r) }
      left == Marked \ old
      surplus == IF Cardinality(left) > MaxSeen THEN Cardinality(left) - MaxSeen ELSE 0 IN
  \E cut \in kSubset(surplus, left) :
    /\ \A r \in cut, s \in left \ cut : seenRecords[r] <= seenRecords[s]
    /\ seenRecords' = [r \in GossipRecords |->
                         IF r \in old \cup cut THEN 0 ELSE seenRecords[r]]
    /\ evicted' = evicted \cup cut
    /\ UNCHANGED <<topicHandlers, verifying, arrivals, heard, firstMark>>

GossipSteps ==
  \/ \E r \in GossipRecords : publish(r)
  \/ \E r \in GossipRecords, valid \in BOOLEAN : handleIncomingMessage(r, valid)
  \/ \E t \in Topics, h \in RecordHandlers : subscribe(t, h)
  \/ \E t \in Topics : unsubscribe(t)
  \/ \E m \in verifying : Verified(m)
  \/ pruneSeenRecords

GossipNext ==
  \/ GossipSteps /\ UNCHANGED now
  \/ TickUpTo(GossipMaxTime) /\ UNCHANGED gossipVars

GossipSpec == GossipInit /\ [][GossipNext]_<<gossipVars, now>>

-----------------------------------------------------------------------------
(* Properties.                                                             *)

GossipTypeOK ==
  /\ seenRecords \in [GossipRecords -> 0..now]
  /\ topicHandlers \in [Topics -> SUBSET RecordHandlers]
  /\ verifying \subseteq [record : GossipRecords, valid : BOOLEAN, copy : 0..arrivals]
  /\ arrivals \in 0..MaxArrivals
  /\ heard \in [GossipRecords -> [RecordHandlers -> Nat]]
  /\ firstMark \in [GossipRecords -> 0..now]
  /\ evicted \subseteq GossipRecords

\* A handler hears a record at most once per topic, though its mark expires: by
\* then a copy has drifted too far.  The argument rests on the two periods being
\* one hour, and does not cover a record stamped in the very second of its first
\* arrival or later, which may be heard again in the last second before it
\* drifts, nor a mark that went for the cap (handleIncomingMessage,
\* pruneSeenRecords).
HeardOnce ==
  \A r \in GossipRecords, h \in RecordHandlers :
    StampedAt[r] < Second(firstMark[r]) /\ r \notin evicted =>
      heard[r][h] <= Cardinality(Topics)
=============================================================================
