--------------------------- MODULE StreamPipeline ---------------------------
(***************************************************************************)
(* The record pipeline (src/src/activity/stream.ts) in front of the store  *)
(* (src/src/activity/store.ts).  A record is looked up, checked, verified  *)
(* if its type is public, stored and handed to the handlers of its type    *)
(* and then to the wildcard's, one after the other; the verification and   *)
(* every handler are waits, at which other records are taken in and        *)
(* handlers are added and removed.                                         *)
(*                                                                         *)
(* The handlers of a type are in an array, which routing walks by its      *)
(* index: what is added to the array meanwhile is still called, and a type *)
(* that was removed gets a new array while the old one is walked to its    *)
(* end.  A registration is thus a place in an array, whatever function it  *)
(* calls.  The table survives a restart; the counters, the calls and the   *)
(* registry do not.                                                        *)
(***************************************************************************)
EXTENDS Clock, Integers, FiniteSets

CONSTANTS
  PipelineRecords, \* the record ids
  TypeOfRecord,    \* [id -> type]
  PublicTypes,     \* the types isPublicType names
  StampOfRecord,   \* [id -> the record's ts]
  NoData,          \* the records that have no data
  NoRefs,          \* the records that have no list of references
  Wildcard,        \* the type "*"
  PipelineDrift,   \* the accepted drift
  PipelineMaxTime, \* bound: the clock
  MaxRecordsIn,    \* bound: calls of process
  MaxArrays,       \* bound: the arrays of handlers that a type may have
  MaxHandlers      \* bound: the handlers added

RecordTypes == { TypeOfRecord[r] : r \in PipelineRecords }

HandlerTypes == RecordTypes \cup {Wildcard}

ASSUME PipelineAssumption ==
  /\ Wildcard \notin RecordTypes
  /\ PipelineDrift \in Nat /\ PipelineMaxTime \in Nat /\ MaxRecordsIn \in Nat
  /\ MaxArrays \in Nat \ {0} /\ MaxHandlers \in Nat

VARIABLES
  table,           \* the records in the store
  stats,           \* the counters of this process
  thrown,          \* the calls of this process that ended in an exception
  handlerRegistry, \* [type] -> the array of its handlers, by number
  handlersIn,      \* [type][array] -> how many handlers the array has
  handlersAdded,   \* calls of addHandler so far
  checking,        \* copies that wait for their verification: [record, valid, copy]
  routing,         \* records on their way through handlers: [record, copy, type, array, next]
  recordsIn,       \* calls of process so far
  heardBy,         \* <<record, type, array, index>>: that handler was called with the record
  heardAgain,      \* records that a handler was called with twice
  raced,           \* ids of which two copies were in verification at once
  unsaved          \* ids whose insert failed

registryVars == <<handlerRegistry, handlersIn, handlersAdded>>

pipelineVars == <<table, stats, thrown, registryVars, checking, routing, recordsIn,
                  heardBy, heardAgain, raced, unsaved>>

NoStats == [processed |-> 0, accepted |-> 0, rejected |-> 0, duplicates |-> 0]

Counted(field) == [stats EXCEPT !.processed = @ + 1, ![field] = @ + 1]

PipelineInit ==
  /\ ClockInit
  /\ table = {}
  /\ stats = NoStats /\ thrown = 0
  /\ handlerRegistry = [k \in HandlerTypes |-> 1]
  /\ handlersIn = [k \in HandlerTypes |-> [a \in 1..MaxArrays |-> 0]]
  /\ handlersAdded = 0
  /\ checking = {} /\ routing = {}
  /\ recordsIn = 0
  /\ heardBy = {} /\ heardAgain = {}
  /\ raced = {} /\ unsaved = {}

HandlerCount(k) == handlersIn[k][handlerRegistry[k]]

addHandler(k) ==
  /\ handlersAdded < MaxHandlers /\ handlersAdded' = handlersAdded + 1
  /\ handlersIn' = [handlersIn EXCEPT ![k][handlerRegistry[k]] = @ + 1]
  /\ UNCHANGED <<table, stats, thrown, handlerRegistry, checking, routing, recordsIn,
                 heardBy, heardAgain, raced, unsaved>>

\* The types in gone lose their array; there is none when no handler was added.
ArraysDropped(gone) ==
  LET dropped == { k \in gone : HandlerCount(k) > 0 } IN
  /\ \A k \in dropped : handlerRegistry[k] < MaxArrays
  /\ handlerRegistry' = [k \in HandlerTypes |->
                           IF k \in dropped THEN handlerRegistry[k] + 1 ELSE handlerRegistry[k]]
  /\ UNCHANGED <<handlersIn, handlersAdded>>

removeHandler(k) ==
  /\ ArraysDropped({k})
  /\ UNCHANGED <<table, stats, thrown, checking, routing, recordsIn, heardBy, heardAgain,
                 raced, unsaved>>

\* Steps 6 and 7.  The insert ignores an id that is there; when it fails, as it does
\* without data, the store swallows the error and the record is routed all the same.
\* A type without handlers of its own is not routed, to the wildcard's neither.
StoreAndRoute(r, n) ==
  /\ \/ r \notin NoData /\ table' = table \cup {r} /\ UNCHANGED unsaved
     \/ r \notin table /\ unsaved' = unsaved \cup {r} /\ UNCHANGED table
  /\ LET k == TypeOfRecord[r] IN
     routing' = IF HandlerCount(k) = 0 THEN routing
                ELSE routing \cup {[record |-> r, copy |-> n, type |-> k,
                                    array |-> handlerRegistry[k], next |-> 1]}

Take == recordsIn < MaxRecordsIn /\ recordsIn' = recordsIn + 1

\* Step 1: one of the fields it asks for is missing, or the version is not 1.
RejectMalformed ==
  /\ Take
  /\ stats' = Counted("rejected")
  /\ UNCHANGED <<table, thrown, registryVars, checking, routing, heardBy, heardAgain,
                 raced, unsaved>>

\* Mutant of Known: the duplicate check is left out.
KnownNever(r) == FALSE

Known(r) == r \in table

RejectDuplicate(r) ==
  /\ Take
  /\ Known(r)
  /\ stats' = Counted("duplicates")
  /\ UNCHANGED <<table, thrown, registryVars, checking, routing, heardBy, heardAgain,
                 raced, unsaved>>

InDrift(r) == StampOfRecord[r] - now \in (-PipelineDrift)..PipelineDrift

RejectDrifted(r) ==
  /\ Take
  /\ ~Known(r) /\ ~InDrift(r)
  /\ stats' = Counted("rejected")
  /\ UNCHANGED <<table, thrown, registryVars, checking, routing, heardBy, heardAgain,
                 raced, unsaved>>

\* Records of a type that is not public are stored and routed without a wait; step 5
\* throws when there is no list of references.
TakePrivate(r) ==
  /\ Take
  /\ ~Known(r) /\ InDrift(r) /\ TypeOfRecord[r] \notin PublicTypes
  /\ \/ /\ r \notin NoRefs
        /\ stats' = Counted("accepted")
        /\ StoreAndRoute(r, recordsIn)
        /\ UNCHANGED thrown
     \/ /\ r \in NoRefs
        /\ stats' = [stats EXCEPT !.processed = @ + 1] /\ thrown' = thrown + 1
        /\ UNCHANGED <<table, routing, unsaved>>
  /\ UNCHANGED <<registryVars, checking, heardBy, heardAgain, raced>>

TakePublic(r, valid) ==
  /\ Take
  /\ ~Known(r) /\ InDrift(r) /\ TypeOfRecord[r] \in PublicTypes
  /\ stats' = [stats EXCEPT !.processed = @ + 1]
  /\ checking' = checking \cup {[record |-> r, valid |-> valid, copy |-> recordsIn]}
  /\ raced' = IF \E m \in checking : m.record = r THEN raced \cup {r} ELSE raced
  /\ UNCHANGED <<table, thrown, registryVars, routing, heardBy, heardAgain, unsaved>>

\* verifyRecord throws without data; without references the signature may be right,
\* and then step 5 throws.
Throws(m) == m.record \in NoData \/ (m.valid /\ m.record \in NoRefs)

\* Mutant of Settled: an invalid signature is not counted as a rejection.
SettledQuietly(m) ==
  stats' = IF m.valid THEN [stats EXCEPT !.accepted = @ + 1] ELSE stats

Settled(m) ==
  stats' = IF m.valid THEN [stats EXCEPT !.accepted = @ + 1]
           ELSE [stats EXCEPT !.rejected = @ + 1]

\* Step 4 is over; the table is not looked at again.
SignatureChecked(m) ==
  /\ m \in checking
  /\ checking' = checking \ {m}
  /\ \/ /\ ~Throws(m) /\ m.valid
        /\ Settled(m) /\ StoreAndRoute(m.record, m.copy) /\ UNCHANGED thrown
     \/ /\ ~Throws(m) /\ ~m.valid
        /\ Settled(m) /\ UNCHANGED <<table, thrown, routing, unsaved>>
     \/ /\ Throws(m)
        /\ thrown' = thrown + 1 /\ UNCHANGED <<table, stats, routing, unsaved>>
  /\ UNCHANGED <<registryVars, recordsIn, heardBy, heardAgain, raced>>

Place(m) == <<m.record, m.type, m.array, m.next>>

\* The next handler of the array, as it is now, is called; it may fail, and the one
\* after it is called all the same.
CallHandler(m) ==
  /\ m \in routing /\ m.next <= handlersIn[m.type][m.array]
  /\ heardBy' = heardBy \cup {Place(m)}
  /\ heardAgain' = IF Place(m) \in heardBy THEN heardAgain \cup {m.record} ELSE heardAgain
  /\ routing' = (routing \ {m}) \cup {[m EXCEPT !.next = @ + 1]}
  /\ UNCHANGED <<table, stats, thrown, registryVars, checking, recordsIn, raced, unsaved>>

\* The array is at its end: on to the wildcard's, as the registry has it now, or out.
ArrayEnds(m) ==
  /\ m \in routing /\ m.next > handlersIn[m.type][m.array]
  /\ routing' = (routing \ {m}) \cup
       (IF m.type = Wildcard \/ HandlerCount(Wildcard) = 0 THEN {}
        ELSE {[m EXCEPT !.type = Wildcard, !.array = handlerRegistry[Wildcard], !.next = 1]})
  /\ UNCHANGED <<table, stats, thrown, registryVars, checking, recordsIn, heardBy,
                 heardAgain, raced, unsaved>>

\* The process stops and comes up again, with nothing but the table.
RestartPipeline ==
  /\ stats' = NoStats /\ thrown' = 0
  /\ checking' = {} /\ routing' = {}
  /\ ArraysDropped(HandlerTypes)
  /\ UNCHANGED <<table, recordsIn, heardBy, heardAgain, raced, unsaved>>

PipelineSteps ==
  \/ \E k \in HandlerTypes : addHandler(k) \/ removeHandler(k)
  \/ RejectMalformed
  \/ \E r \in PipelineRecords :
       \/ RejectDuplicate(r) \/ RejectDrifted(r) \/ TakePrivate(r)
       \/ \E valid \in BOOLEAN : TakePublic(r, valid)
  \/ \E m \in checking : SignatureChecked(m)
  \/ \E m \in routing : CallHandler(m) \/ ArrayEnds(m)
  \/ RestartPipeline

PipelineNext ==
  \/ PipelineSteps /\ UNCHANGED now
  \/ TickUpTo(PipelineMaxTime) /\ UNCHANGED pipelineVars

PipelineSpec == PipelineInit /\ [][PipelineNext]_<<pipelineVars, now>>

-----------------------------------------------------------------------------
(* Properties.                                                             *)

PipelineTypeOK ==
  /\ table \subseteq PipelineRecords
  /\ stats \in [{"processed", "accepted", "rejected", "duplicates"} -> 0..recordsIn]
  /\ thrown \in 0..recordsIn
  /\ handlerRegistry \in [HandlerTypes -> 1..MaxArrays]
  /\ handlersIn \in [HandlerTypes -> [1..MaxArrays -> Nat]] /\ handlersAdded \in Nat
  /\ checking \subseteq [record : PipelineRecords, valid : BOOLEAN, copy : 0..recordsIn]
  /\ routing \subseteq [record : PipelineRecords, copy : 0..recordsIn, type : HandlerTypes,
                        array : 1..MaxArrays, next : Nat]
  /\ recordsIn \in 0..MaxRecordsIn
  /\ heardBy \subseteq PipelineRecords \X HandlerTypes \X (1..MaxArrays) \X Nat
  /\ heardAgain \subseteq PipelineRecords
  /\ raced \subseteq PipelineRecords /\ unsaved \subseteq PipelineRecords

\* The counters add up while records are under way: each call is counted once as
\* processed and, when it has ended, once as accepted, rejected or duplicate, unless
\* it threw, as it does for some records without data or references (process).
BooksBalance ==
  stats.processed =
    stats.accepted + stats.rejected + stats.duplicates + Cardinality(checking) + thrown

\* A handler is called at most once for a record, over restarts too and though
\* handlers come and go while it is routed; the exceptions are a record of which two
\* copies were verified at the same time, which is never one of a private type, and a
\* record the store failed to keep (process, routeToHandlers, insert).
RoutedOnce ==
  /\ heardAgain \subseteq raced \cup unsaved
  /\ \A r \in raced : TypeOfRecord[r] \in PublicTypes

\* Records are deduplicated (the header of stream.ts: "Validates, deduplicates, and
\* routes incoming activity records"): no handler hears a record twice.  It may, when
\* two copies are verified at the same time.
NeverRoutedAgain == heardAgain \subseteq unsaved

\* A record that lacks a field is rejected (process, "missing required fields").
\* Without data or references it is not: the call throws.
LackingIsRejected == thrown = 0
=============================================================================
