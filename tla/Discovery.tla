----------------------------- MODULE Discovery -----------------------------
(***************************************************************************)
(* The table of known peers (src/src/network/discovery.ts), one for the    *)
(* whole process.  bootstrap waits for a peer list from an IPFS gateway    *)
(* and then enters it; the limit on peers holds for that list only.        *)
(* connectToPeer does nothing yet.                                         *)
(***************************************************************************)
EXTENDS Clock, Sequences, FiniteSets

CONSTANTS
  KnownIds,          \* peer ids
  BootstrapLists,    \* the peer lists a gateway may answer with, none on failure
  ExtraPeers,        \* extraPeers of the configuration
  MaxPeers,          \* maxPeers
  PeerTtl,           \* the hour after which refresh drops a peer
  DiscoveryMaxTime,  \* bound: the clock
  MaxBootstraps      \* bound: calls of bootstrap under way

ASSUME DiscoveryAssumption ==
  /\ \A l \in BootstrapLists : l \in Seq(KnownIds)
  /\ ExtraPeers \subseteq KnownIds
  /\ MaxPeers \in Nat /\ PeerTtl \in Nat /\ DiscoveryMaxTime \in Nat /\ MaxBootstraps \in Nat

VARIABLES
  knownPeers,   \* [known peer -> lastSeen]
  connected,    \* what node.getPeers answers
  fetching      \* the bootstrap calls that wait for a gateway

discoveryVars == <<knownPeers, connected, fetching>>

DiscoveryInit == ClockInit /\ knownPeers = <<>> /\ connected = {} /\ fetching = 0

\* addPeer: a peer that is entered or known already counts as seen now.
addPeer(known, p) == [q \in DOMAIN known \cup {p} |-> IF q = p THEN now ELSE known[q]]

addPeers(known, ps) ==
  [q \in DOMAIN known \cup ps |-> IF q \in ps THEN now ELSE known[q]]

BootstrapCall ==
  /\ fetching < MaxBootstraps
  /\ fetching' = fetching + 1
  /\ UNCHANGED <<knownPeers, connected>>

\* The loop over the list stops at the limit: a peer is entered while the peers
\* known before it are fewer.
Entered(list) ==
  { list[i] : i \in { j \in DOMAIN list :
      Cardinality(DOMAIN knownPeers \cup { list[k] : k \in 1..(j - 1) }) < MaxPeers } }

\* fetchBootstrapPeers answers, and bootstrap enters the list and the extra peers.
BootstrapFetched(list) ==
  /\ fetching > 0
  /\ fetching' = fetching - 1
  /\ knownPeers' = addPeers(knownPeers, Entered(list) \cup ExtraPeers)
  /\ UNCHANGED connected

\* Mutant of Seen: the peers are pruned first, and the connected ones entered
\* anew do not count.
SeenUnlessKnown == addPeers(knownPeers, connected \ DOMAIN knownPeers)

\* The table once the connected peers are entered or seen again.
Seen == addPeers(knownPeers, connected)

refresh ==
  /\ knownPeers' =
       LET fresh == { p \in DOMAIN Seen : Seen[p] >= now - PeerTtl }
       IN  [p \in fresh |-> Seen[p]]
  /\ UNCHANGED <<connected, fetching>>

addManualPeer(p) ==
  /\ knownPeers' = addPeer(knownPeers, p)
  /\ UNCHANGED <<connected, fetching>>

removePeer(p) ==
  /\ p \in DOMAIN knownPeers
  /\ knownPeers' = [q \in DOMAIN knownPeers \ {p} |-> knownPeers[q]]
  /\ UNCHANGED <<connected, fetching>>

\* The node gains or loses a connection (node.ts).
ConnectionChanges(p) ==
  /\ connected' = IF p \in connected THEN connected \ {p} ELSE connected \cup {p}
  /\ UNCHANGED <<knownPeers, fetching>>

DiscoverySteps ==
  \/ BootstrapCall
  \/ \E l \in BootstrapLists : BootstrapFetched(l)
  \/ refresh
  \/ \E p \in KnownIds : addManualPeer(p) \/ removePeer(p) \/ ConnectionChanges(p)

DiscoveryNext ==
  \/ DiscoverySteps /\ UNCHANGED now
  \/ TickUpTo(DiscoveryMaxTime) /\ UNCHANGED discoveryVars

DiscoverySpec == DiscoveryInit /\ [][DiscoveryNext]_<<discoveryVars, now>>

-----------------------------------------------------------------------------
(* Properties.                                                             *)

DiscoveryTypeOK ==
  /\ DOMAIN knownPeers \subseteq KnownIds
  /\ \A p \in DOMAIN knownPeers : knownPeers[p] \in 0..now
  /\ connected \subseteq KnownIds /\ fetching \in 0..MaxBootstraps

\* Nobody who is there is lost: a peer leaves the table by hand, or because it is
\* not connected and was last seen more than PeerTtl ago, never because a refresh
\* ran before its connection was noted; and the time it was last seen never moves
\* back (refresh, addPeer).
OnlyStaleForgotten ==
  [][ \A p \in DOMAIN knownPeers :
        IF p \in DOMAIN knownPeers'
          THEN knownPeers'[p] >= knownPeers[p]
          ELSE removePeer(p) \/ (p \notin connected /\ now - knownPeers[p] > PeerTtl)
    ]_<<discoveryVars, now>>
=============================================================================
