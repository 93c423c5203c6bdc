------------------------------ MODULE PeerLink ------------------------------
(***************************************************************************)
(* The connections of the TCP gossip node (src/src/network/node.ts).       *)
(*                                                                         *)
(* A connection is a pair of ends, one socket on each node.  What is       *)
(* written to an end reaches the other in order: its pipe.  The first      *)
(* handshake an end receives tells whose node is on the other side; the    *)
(* end is then entered in the map of peers, or destroyed when the map has  *)
(* that peer already.  Destroying a socket only ends it; its close event,  *)
(* which removes the peer from the map, comes later, and the other end     *)
(* learns of it later still.                                               *)
(***************************************************************************)
EXTENDS Naturals, Sequences, FiniteSets, SequencesExt

CONSTANTS
  PeerNodes,
  MaxDials,   \* bound: connections ever made
  MaxWrites   \* bound: records broadcast

ASSUME PeerLinkAssumption == MaxDials \in Nat /\ MaxWrites \in Nat

VARIABLES
  dials,      \* the connections, in the order they were made: [dialer, listener]
  ends,       \* [connection][node] -> the end of the connection at that node
  peerMap,    \* [node][peer] -> the connection of its entry, 0 for none
  listening,  \* the nodes whose server is open
  writes,     \* records broadcast so far
  cut         \* connections that broke or lost a node

linkVars == <<dials, ends, peerMap, listening, writes, cut>>

LinkInit ==
  /\ dials = <<>>
  /\ ends = <<>>
  /\ peerMap = [n \in PeerNodes |-> [m \in PeerNodes |-> 0]]
  /\ listening = PeerNodes
  /\ writes = 0
  /\ cut = {}

NodesOf(c) == {dials[c].dialer, dials[c].listener}

Other(c, n) == CHOOSE m \in NodesOf(c) : m # n

\* The end of a connection: its socket, whether it knows its peer (peer.id),
\* whether it has sent its handshake, and what is on its way to it.
End(sent, pipe) == [socket |-> "open", identified |-> FALSE, sent |-> sent, pipe |-> pipe]

\* A bootstrap connection is accepted; the dialer speaks first.
Dial(n, m) ==
  /\ Len(dials) < MaxDials
  /\ n # m /\ {n, m} \subseteq listening
  /\ dials' = Append(dials, [dialer |-> n, listener |-> m])
  /\ ends' = Append(ends, [e \in {n, m} |-> IF e = n THEN End(TRUE, <<>>)
                                            ELSE End(FALSE, <<"handshake">>)])
  /\ UNCHANGED <<peerMap, listening, writes, cut>>

Deliverable(c, n) == ends[c][n].socket = "open" /\ ends[c][n].pipe # <<>>

\* The peer is known already: the socket is destroyed, and the end keeps peer.id.
DestroyDuplicate(c, n) ==
  /\ peerMap[n][Other(c, n)] # 0
  /\ ends' = [ends EXCEPT ![c][n].socket = "destroyed", ![c][n].identified = TRUE,
                          ![c][n].pipe = <<>>]
  /\ UNCHANGED peerMap

\* Mutant of Admit: the listener does not answer the handshake.
AdmitSilently(c, n) ==
  /\ peerMap[n][Other(c, n)] = 0
  /\ peerMap' = [peerMap EXCEPT ![n][Other(c, n)] = c]
  /\ ends' = [ends EXCEPT ![c][n].identified = TRUE, ![c][n].pipe = Tail(@)]

\* The peer is new: it is entered, and answered unless this end spoke first.
Admit(c, n) ==
  LET m == Other(c, n) IN
  /\ peerMap[n][m] = 0
  /\ peerMap' = [peerMap EXCEPT ![n][m] = c]
  /\ ends' = [ends EXCEPT ![c][n].identified = TRUE, ![c][n].sent = TRUE,
                          ![c][n].pipe = Tail(@),
                          ![c][m].pipe = IF ends[c][n].sent \/ ends[c][m].socket # "open"
                                         THEN @ ELSE Append(@, "handshake")]

ReceiveHandshake(c, n) ==
  /\ Deliverable(c, n) /\ Head(ends[c][n].pipe) = "handshake"
  /\ ~ends[c][n].identified
  /\ DestroyDuplicate(c, n) \/ Admit(c, n)
  /\ UNCHANGED <<dials, listening, writes, cut>>

\* A later handshake is skipped; a record is handed to the handlers if the peer
\* is known, and dropped if not.
ReceiveOther(c, n) ==
  /\ Deliverable(c, n)
  /\ Head(ends[c][n].pipe) = "record" \/ ends[c][n].identified
  /\ ends' = [ends EXCEPT ![c][n].pipe = Tail(@)]
  /\ UNCHANGED <<dials, peerMap, listening, writes, cut>>

\* One write to the socket of every entry.
Broadcast(n) ==
  /\ writes < MaxWrites
  /\ writes' = writes + 1
  /\ ends' = [c \in DOMAIN ends |-> [m \in DOMAIN ends[c] |->
       IF m # n /\ n \in DOMAIN ends[c] /\ peerMap[n][m] = c /\ ends[c][m].socket = "open"
       THEN [ends[c][m] EXCEPT !.pipe = Append(@, "record")] ELSE ends[c][m]]]
  /\ UNCHANGED <<dials, peerMap, listening, cut>>

\* Mutant of Forget: the entry stays when its socket closes.
ForgetLater(c, n) == UNCHANGED peerMap

\* The close handler removes the peer by its id, whichever connection the entry
\* is for.  (The error handler does the same just before it.)
Forget(c, n) ==
  peerMap' = IF ends[c][n].identified
             THEN [peerMap EXCEPT ![n][Other(c, n)] = 0] ELSE peerMap

\* The close event of an end: it was destroyed here, or the other end is gone.
\* Unread records are lost or were read before, in any part.
CloseEvent(c, n) ==
  /\ \/ ends[c][n].socket = "destroyed"
     \/ ends[c][n].socket = "open" /\ (ends[c][Other(c, n)].socket # "open" \/ c \in cut)
  /\ ends' = [ends EXCEPT ![c][n].socket = "closed", ![c][n].pipe = <<>>]
  /\ Forget(c, n)
  /\ UNCHANGED <<dials, listening, writes, cut>>

\* The network loses a connection.
Break(c) ==
  /\ cut' = cut \cup {c}
  /\ UNCHANGED <<dials, ends, peerMap, listening, writes>>

\* stop destroys the sockets of the entries; one that has no entry is left open.
StopNode(n) ==
  LET mine == { c \in DOMAIN dials : n \in NodesOf(c) /\ peerMap[n][Other(c, n)] = c } IN
  /\ n \in listening
  /\ listening' = listening \ {n}
  /\ peerMap' = [peerMap EXCEPT ![n] = [m \in PeerNodes |-> 0]]
  /\ ends' = [c \in DOMAIN ends |->
       IF c \in mine THEN [ends[c] EXCEPT ![n].socket = "destroyed", ![n].pipe = <<>>]
       ELSE ends[c]]
  /\ UNCHANGED <<dials, writes, cut>>

LinkEvents ==
  \E c \in DOMAIN dials : \E n \in NodesOf(c) :
    ReceiveHandshake(c, n) \/ ReceiveOther(c, n) \/ CloseEvent(c, n)

LinkNext ==
  \/ LinkEvents
  \/ \E n, m \in PeerNodes : Dial(n, m)
  \/ \E n \in PeerNodes : Broadcast(n) \/ StopNode(n)
  \/ \E c \in DOMAIN dials : Break(c)

LinkSpec == LinkInit /\ [][LinkNext]_linkVars

\* Sockets deliver what was written, and report that they have closed.
LinkFairSpec == LinkSpec /\ WF_linkVars(LinkEvents)

-----------------------------------------------------------------------------
(* Properties.                                                             *)

LinkTypeOK ==
  /\ \A c \in DOMAIN dials : dials[c].dialer # dials[c].listener
  /\ DOMAIN ends = DOMAIN dials
  /\ \A c \in DOMAIN ends : ends[c] \in
       [NodesOf(c) -> [socket : {"open", "destroyed", "closed"}, identified : BOOLEAN,
                       sent : BOOLEAN, pipe : Seq({"handshake", "record"})]]
  /\ peerMap \in [PeerNodes -> [PeerNodes -> 0..Len(dials)]]
  /\ listening \subseteq PeerNodes
  /\ cut \subseteq DOMAIN dials

\* An entry of the map is the connection to that very peer, and its socket was
\* neither destroyed nor closed at this end: what is broadcast goes to a socket
\* that is open, though entries are removed by the close events of other
\* connections (handleSocket, stop).
EntryIsOpen ==
  \A n, m \in PeerNodes : LET c == peerMap[n][m] IN
    c # 0 => /\ NodesOf(c) = {n, m}
             /\ ends[c][n].socket = "open" /\ ends[c][n].identified

Linked(n, m) ==
  peerMap[n][m] # 0 /\ peerMap[n][m] = peerMap[m][n]

Undisturbed == cut = {} /\ listening = PeerNodes

\* Two nodes of which one dials the other, once, end up in each other's map for
\* that connection, and stay so while nothing fails (handleSocket).
DialLinks ==
  <>[](Len(dials) = 1 /\ Undisturbed) =>
    <>[](\A c \in DOMAIN dials : Linked(dials[c].dialer, dials[c].listener))

\* "Avoid duplicate connections to same node" (the comment in handleSocket): when
\* nothing is under way any more, of two running nodes that dialled at least one
\* still has the other in its map.  (That both have is more than the code does
\* even when a node dials again long after it was linked: the node that destroys
\* the late duplicate loses its entry.)
MutualDialKeepsLink ==
  /\ Undisturbed
  /\ ~ENABLED LinkEvents
  => \A c \in DOMAIN dials : \E n \in NodesOf(c) : peerMap[n][Other(c, n)] # 0
=============================================================================
