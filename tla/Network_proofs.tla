---------------------------- MODULE Network_proofs ----------------------------
(***************************************************************************)
(* What holds of the network's components for every value of the           *)
(* constants: one section per component, with its inductive invariant, the *)
(* lemmas that its actions keep it, and its theorems; the last section     *)
(* carries them over to the composed model.                                *)
(***************************************************************************)
EXTENDS MCNetwork, SequenceTheorems, FiniteSetTheorems, TLAPS

-----------------------------------------------------------------------------
(* Links between nodes.                                                    *)

USE PeerLinkAssumption

EndAt == [socket : {"open", "destroyed", "closed"}, identified : BOOLEAN,
          sent : BOOLEAN, pipe : Seq({"handshake", "record"})]

EndMaps == UNION { [S -> EndAt] : S \in SUBSET PeerNodes }

\* The shape of the connections, from their number up.
Wired ==
  /\ dials \in Seq([dialer : PeerNodes, listener : PeerNodes])
  /\ \A c \in 1..Len(dials) : dials[c].dialer # dials[c].listener
  /\ ends \in Seq(EndMaps)
  /\ Len(ends) = Len(dials)
  /\ \A c \in 1..Len(dials) : ends[c] \in [NodesOf(c) -> EndAt]
  /\ peerMap \in [PeerNodes -> [PeerNodes -> 0..Len(dials)]]
  /\ listening \subseteq PeerNodes
  /\ cut \subseteq 1..Len(dials)

LinkIInv == Wired /\ EntryIsOpen

\* A function on 1..n is a sequence.
LEMMA FunctionIsSeq ==
  ASSUME NEW S, NEW n \in Nat, NEW f \in [1..n -> S]
  PROVE  f \in Seq(S) /\ Len(f) = n /\ DOMAIN f = 1..n
OBVIOUS

LEMMA WiredFacts ==
  ASSUME Wired, NEW c \in 1..Len(dials)
  PROVE  /\ NodesOf(c) \subseteq PeerNodes
         /\ ends[c] \in [NodesOf(c) -> EndAt] /\ DOMAIN ends[c] = NodesOf(c)
         /\ \A n \in NodesOf(c) :
              /\ Other(c, n) \in NodesOf(c) /\ Other(c, n) # n
              /\ NodesOf(c) = {n, Other(c, n)} /\ ends[c][n] \in EndAt
<1>1. /\ dials[c] \in [dialer : PeerNodes, listener : PeerNodes]
      /\ dials[c].dialer # dials[c].listener
  <2>1. dials \in Seq([dialer : PeerNodes, listener : PeerNodes])  BY DEF Wired
  <2> QED  BY <2>1, ElementOfSeq DEF Wired
<1>2. \A n \in NodesOf(c) : \E m \in NodesOf(c) : m # n
  BY <1>1 DEF NodesOf
<1>3. \A n \in NodesOf(c) : Other(c, n) \in NodesOf(c) /\ Other(c, n) # n
  BY <1>2 DEF Other
<1>4. ends[c] \in [NodesOf(c) -> EndAt]  BY DEF Wired
<1> QED  BY <1>1, <1>3, <1>4 DEF NodesOf

\* A step that changes no dial, but some ends and entries.
LEMMA EndsStep ==
  ASSUME LinkIInv, dials' = dials,
         DOMAIN ends' = DOMAIN ends,
         \A c \in DOMAIN ends : ends'[c] \in [NodesOf(c) -> EndAt],
         peerMap' \in [PeerNodes -> [PeerNodes -> 0..Len(dials)]],
         listening' \subseteq PeerNodes, cut' \subseteq 1..Len(dials),
         ends' = [c \in DOMAIN ends' |-> ends'[c]],
         \A n, m \in PeerNodes : peerMap'[n][m] # 0 =>
           LET c == peerMap'[n][m] IN
           /\ NodesOf(c) = {n, m}
           /\ ends'[c][n].socket = "open" /\ ends'[c][n].identified = TRUE
  PROVE  LinkIInv'
<1>1. /\ DOMAIN ends = 1..Len(dials) /\ Len(dials) \in Nat
  BY DEF LinkIInv, Wired
<1>2. \A c \in 1..Len(dials) : NodesOf(c) \subseteq PeerNodes /\ NodesOf(c)' = NodesOf(c)
  BY WiredFacts DEF LinkIInv, NodesOf
<1>3. \A c \in 1..Len(dials) : ends'[c] \in EndMaps  BY <1>1, <1>2 DEF EndMaps
<1>4. ends' \in [1..Len(dials) -> EndMaps]  BY <1>1, <1>3
<1>5. ends' \in Seq(EndMaps) /\ Len(ends') = Len(dials)  BY <1>1, <1>4, FunctionIsSeq
<1>6. Wired'  BY <1>1, <1>2, <1>5 DEF LinkIInv, Wired
<1>7. EntryIsOpen'
  <2>1. \A n, m \in PeerNodes : peerMap'[n][m] # 0 => peerMap'[n][m] \in 1..Len(dials)
    BY <1>1
  <2> QED  BY <1>2, <2>1 DEF EntryIsOpen
<1> QED  BY <1>6, <1>7 DEF LinkIInv

LEMMA EntryFacts ==
  ASSUME LinkIInv, NEW a \in PeerNodes, NEW b \in PeerNodes, peerMap[a][b] # 0
  PROVE  /\ peerMap[a][b] \in 1..Len(dials) /\ NodesOf(peerMap[a][b]) = {a, b}
         /\ ends[peerMap[a][b]][a].socket = "open"
         /\ ends[peerMap[a][b]][a].identified = TRUE
<1>1. peerMap[a][b] \in 0..Len(dials) /\ Len(dials) \in Nat
  BY DEF LinkIInv, Wired
<1>2. peerMap[a][b] \in 1..Len(dials)  BY <1>1
<1>3. NodesOf(peerMap[a][b]) = {a, b} /\ ends[peerMap[a][b]][a].socket = "open"
  BY <1>2 DEF LinkIInv, EntryIsOpen
<1>4. ends[peerMap[a][b]][a].identified  BY <1>2 DEF LinkIInv, EntryIsOpen
<1>5. ends[peerMap[a][b]][a] \in EndAt  BY <1>2, <1>3, WiredFacts DEF LinkIInv
<1>6. ends[peerMap[a][b]][a].identified \in BOOLEAN  BY <1>5 DEF EndAt
<1> QED  BY <1>2, <1>3, <1>4, <1>6

\* A step on one connection: its ends become x, and its entries follow.
LEMMA OneLink ==
  ASSUME LinkIInv, NEW c \in 1..Len(dials), NEW x \in [NodesOf(c) -> EndAt],
         ends' = [ends EXCEPT ![c] = x], UNCHANGED <<dials, listening, cut>>,
         peerMap' \in [PeerNodes -> [PeerNodes -> 0..Len(dials)]],
         \A a, b \in PeerNodes : peerMap'[a][b] # 0 =>
           \/ peerMap'[a][b] = peerMap[a][b] /\ peerMap[a][b] # c
           \/ /\ peerMap'[a][b] = c /\ NodesOf(c) = {a, b}
              /\ x[a].socket = "open" /\ x[a].identified = TRUE
  PROVE  LinkIInv'
<1>1. /\ DOMAIN ends = 1..Len(dials) /\ ends = [d \in 1..Len(dials) |-> ends[d]]
      /\ \A d \in DOMAIN ends : ends[d] \in [NodesOf(d) -> EndAt]
  <2>1. ends \in Seq(EndMaps) /\ Len(ends) = Len(dials)  BY DEF LinkIInv, Wired
  <2>2. ends \in [1..Len(dials) -> EndMaps]  BY <2>1, LenProperties
  <2> QED  BY <2>2 DEF LinkIInv, Wired
<1>2. /\ DOMAIN ends' = DOMAIN ends /\ ends'[c] = x
      /\ \A d \in DOMAIN ends \ {c} : ends'[d] = ends[d]
      /\ ends' = [d \in DOMAIN ends' |-> ends'[d]]
  BY <1>1
<1>3. \A d \in DOMAIN ends : ends'[d] \in [NodesOf(d) -> EndAt]  BY <1>1, <1>2
<1>4. ASSUME NEW a \in PeerNodes, NEW b \in PeerNodes, peerMap'[a][b] # 0
      PROVE  /\ NodesOf(peerMap'[a][b]) = {a, b}
             /\ ends'[peerMap'[a][b]][a].socket = "open"
             /\ ends'[peerMap'[a][b]][a].identified = TRUE
  <2>1. CASE peerMap'[a][b] = c
    <3>1. NodesOf(c) = {a, b} /\ x[a].socket = "open" /\ x[a].identified = TRUE
      BY <1>4, <2>1
    <3>2. ends'[peerMap'[a][b]] = x  BY <1>2, <2>1
    <3> QED  BY <2>1, <3>1, <3>2
  <2>2. CASE peerMap'[a][b] # c
    <3>1. peerMap'[a][b] = peerMap[a][b] /\ peerMap[a][b] # 0  BY <1>4, <2>2
    <3>2. /\ peerMap[a][b] \in 1..Len(dials) /\ NodesOf(peerMap[a][b]) = {a, b}
          /\ ends[peerMap[a][b]][a].socket = "open"
          /\ ends[peerMap[a][b]][a].identified = TRUE
      BY <3>1, EntryFacts
    <3>3. ends'[peerMap[a][b]] = ends[peerMap[a][b]]  BY <1>1, <1>2, <2>2, <3>1, <3>2
    <3> QED  BY <3>1, <3>2, <3>3
  <2> QED  BY <2>1, <2>2
<1>5. listening' \subseteq PeerNodes /\ cut' \subseteq 1..Len(dials)
  BY DEF LinkIInv, Wired
<1> QED  BY <1>2, <1>3, <1>4, <1>5, EndsStep

\* What holds of the nodes and ends of one connection.
LEMMA EndFacts ==
  ASSUME LinkIInv, NEW c \in DOMAIN dials, NEW n \in NodesOf(c)
  PROVE  LET m == Other(c, n) IN
         /\ c \in 1..Len(dials) /\ c \in DOMAIN ends /\ c \in 0..Len(dials)
         /\ n \in PeerNodes /\ m \in PeerNodes /\ m # n /\ NodesOf(c) = {n, m}
         /\ ends[c] \in [NodesOf(c) -> EndAt] /\ ends[c][n] \in EndAt /\ ends[c][m] \in EndAt
         /\ peerMap \in [PeerNodes -> [PeerNodes -> 0..Len(dials)]]
<1>1. c \in 1..Len(dials) /\ DOMAIN ends = 1..Len(dials) /\ Len(dials) \in Nat
  BY DEF LinkIInv, Wired
<1>2. c \in 0..Len(dials)  BY <1>1
<1> QED  BY <1>1, <1>2, WiredFacts DEF LinkIInv, Wired

\* The changes that an end can undergo.
LEMMA EndFields ==
  ASSUME NEW r \in EndAt, NEW s \in {"open", "destroyed", "closed"},
         NEW i \in BOOLEAN, NEW o \in BOOLEAN, NEW q \in Seq({"handshake", "record"})
  PROVE  /\ [r EXCEPT !.pipe = q] \in EndAt /\ [r EXCEPT !.socket = s, !.pipe = q] \in EndAt
         /\ [r EXCEPT !.socket = s, !.identified = i, !.pipe = q] \in EndAt
         /\ [r EXCEPT !.identified = i, !.sent = o, !.pipe = q] \in EndAt
BY DEF EndAt

LEMMA EndChanges ==
  ASSUME NEW r \in EndAt, NEW q \in Seq({"handshake", "record"})
  PROVE  /\ [r EXCEPT !.pipe = q] \in EndAt
         /\ [r EXCEPT !.socket = "destroyed", !.pipe = <<>>] \in EndAt
         /\ [r EXCEPT !.socket = "closed", !.pipe = <<>>] \in EndAt
         /\ [r EXCEPT !.socket = "destroyed", !.identified = TRUE, !.pipe = <<>>] \in EndAt
         /\ [r EXCEPT !.identified = TRUE, !.sent = TRUE, !.pipe = q] \in EndAt
<1>1. <<>> \in Seq({"handshake", "record"})  OBVIOUS
<1> QED  BY <1>1, EndFields

LEMMA DestroyStep ==
  ASSUME LinkIInv, NEW c \in DOMAIN dials, NEW n \in NodesOf(c),
         ends[c][n].identified = FALSE, DestroyDuplicate(c, n),
         UNCHANGED <<dials, listening, cut>>
  PROVE  LinkIInv'
<1> DEFINE m == Other(c, n)
           y == [ends[c][n] EXCEPT !.socket = "destroyed", !.identified = TRUE, !.pipe = <<>>]
           x == [ends[c] EXCEPT ![n] = y]
<1>1. /\ c \in 1..Len(dials) /\ n \in PeerNodes /\ m \in PeerNodes /\ m # n
      /\ NodesOf(c) = {n, m} /\ ends[c] \in [NodesOf(c) -> EndAt] /\ ends[c][n] \in EndAt
      /\ peerMap \in [PeerNodes -> [PeerNodes -> 0..Len(dials)]]
  BY EndFacts
<1>2. ends' = [ends EXCEPT ![c] = x] /\ peerMap' = peerMap
  BY DEF DestroyDuplicate
<1>3. y \in EndAt
  <2>1. <<>> \in Seq({"handshake", "record"})  OBVIOUS
  <2> QED  BY <1>1, <2>1, EndChanges
<1> HIDE DEF m, y
<1>4. x \in [NodesOf(c) -> EndAt] /\ x[m] = ends[c][m]  BY <1>1, <1>3
<1> HIDE DEF x
<1>5. c # 0  BY <1>1
<1>6. ASSUME NEW a \in PeerNodes, NEW b \in PeerNodes, peerMap[a][b] = c
      PROVE  NodesOf(c) = {a, b} /\ x[a].socket = "open" /\ x[a].identified = TRUE
  <2>1. /\ NodesOf(c) = {a, b} /\ ends[c][a].socket = "open"
        /\ ends[c][a].identified = TRUE
    BY <1>5, <1>6, EntryFacts
  <2>2. a = m  BY <1>1, <2>1
  <2> QED  BY <1>4, <2>1, <2>2
<1>7. \A a, b \in PeerNodes : peerMap'[a][b] # 0 =>
        \/ peerMap'[a][b] = peerMap[a][b] /\ peerMap[a][b] # c
        \/ /\ peerMap'[a][b] = c /\ NodesOf(c) = {a, b}
           /\ x[a].socket = "open" /\ x[a].identified = TRUE
  BY <1>2, <1>6
<1> QED  BY <1>1, <1>2, <1>4, <1>7, OneLink
LEMMA AdmitStep ==
  ASSUME LinkIInv, NEW c \in DOMAIN dials, NEW n \in NodesOf(c),
         Deliverable(c, n), Admit(c, n), UNCHANGED <<dials, listening, cut>>
  PROVE  LinkIInv'
<1> DEFINE m == Other(c, n)
           y == [ends[c][n] EXCEPT !.identified = TRUE, !.sent = TRUE, !.pipe = Tail(@)]
           q == IF ends[c][n].sent \/ ends[c][m].socket # "open"
                THEN ends[c][m].pipe ELSE Append(ends[c][m].pipe, "handshake")
           z == [ends[c][m] EXCEPT !.pipe = q]
           x == [ends[c] EXCEPT ![n] = y, ![m] = z]
<1>1. /\ c \in 1..Len(dials) /\ c \in 0..Len(dials)
      /\ n \in PeerNodes /\ m \in PeerNodes /\ m # n
      /\ NodesOf(c) = {n, m} /\ ends[c] \in [NodesOf(c) -> EndAt]
      /\ ends[c][n] \in EndAt /\ ends[c][m] \in EndAt
      /\ peerMap \in [PeerNodes -> [PeerNodes -> 0..Len(dials)]]
  BY EndFacts
<1>2. ends' = [ends EXCEPT ![c] = x] /\ peerMap' = [peerMap EXCEPT ![n][m] = c]
      /\ peerMap[n][m] = 0
  BY <1>1 DEF Admit
<1>3. ends[c][n].socket = "open" /\ ends[c][n].pipe # <<>>  BY DEF Deliverable
<1>4. Tail(ends[c][n].pipe) \in Seq({"handshake", "record"})
  BY <1>1, <1>3, HeadTailProperties DEF EndAt
<1>5. q \in Seq({"handshake", "record"})
  <2>1. ends[c][m].pipe \in Seq({"handshake", "record"})  BY <1>1 DEF EndAt
  <2>2. Append(ends[c][m].pipe, "handshake") \in Seq({"handshake", "record"})
    BY <2>1, AppendProperties
  <2> QED  BY <2>1, <2>2
<1>6. y \in EndAt /\ y.socket = "open" /\ y.identified = TRUE
  <2>1. y \in EndAt  BY <1>1, <1>4, EndChanges
  <2> QED  BY <1>1, <1>3, <2>1 DEF EndAt
<1> HIDE DEF q
<1>7. z \in EndAt /\ z.socket = ends[c][m].socket /\ z.identified = ends[c][m].identified
  <2>1. z \in EndAt  BY <1>1, <1>5, EndChanges
  <2> QED  BY <1>1, <2>1 DEF EndAt
<1> HIDE DEF m, y, z
<1>8. x \in [NodesOf(c) -> EndAt] /\ x[n] = y /\ x[m] = z  BY <1>1, <1>6, <1>7
<1> HIDE DEF x
<1>9. ASSUME NEW a \in PeerNodes, NEW b \in PeerNodes, peerMap'[a][b] # 0
      PROVE  \/ peerMap'[a][b] = peerMap[a][b] /\ peerMap[a][b] # c
             \/ /\ peerMap'[a][b] = c /\ NodesOf(c) = {a, b}
                /\ x[a].socket = "open" /\ x[a].identified = TRUE
  <2>1. CASE a = n /\ b = m
    BY <1>1, <1>2, <1>6, <1>8, <2>1
  <2>2. CASE ~(a = n /\ b = m) /\ peerMap[a][b] = c
    <3>1. peerMap'[a][b] = c  BY <1>1, <1>2, <2>2
    <3>2. /\ NodesOf(c) = {a, b} /\ ends[c][a].socket = "open"
          /\ ends[c][a].identified = TRUE
      BY <1>9, <2>2, <3>1, EntryFacts
    <3>3. a = m  BY <1>1, <2>2, <3>2
    <3> QED  BY <1>7, <1>8, <3>1, <3>2, <3>3
  <2>3. CASE ~(a = n /\ b = m) /\ peerMap[a][b] # c
    BY <1>1, <1>2, <2>3
  <2> QED  BY <2>1, <2>2, <2>3
<1>10. peerMap' \in [PeerNodes -> [PeerNodes -> 0..Len(dials)]]  BY <1>1, <1>2
<1> QED  BY <1>1, <1>2, <1>8, <1>9, <1>10, OneLink

LEMMA ReceiveOtherStep ==
  ASSUME LinkIInv, NEW c \in DOMAIN dials, NEW n \in NodesOf(c), ReceiveOther(c, n)
  PROVE  LinkIInv'
<1> DEFINE y == [ends[c][n] EXCEPT !.pipe = Tail(@)]
           x == [ends[c] EXCEPT ![n] = y]
<1>1. /\ c \in 1..Len(dials) /\ n \in PeerNodes /\ ends[c] \in [NodesOf(c) -> EndAt]
      /\ ends[c][n] \in EndAt /\ peerMap \in [PeerNodes -> [PeerNodes -> 0..Len(dials)]]
  BY EndFacts
<1>2. /\ ends' = [ends EXCEPT ![c] = x] /\ peerMap' = peerMap
      /\ UNCHANGED <<dials, listening, cut>>
  BY DEF ReceiveOther
<1>3. Tail(ends[c][n].pipe) \in Seq({"handshake", "record"})
  BY <1>1, HeadTailProperties DEF EndAt, ReceiveOther, Deliverable
<1>4. y \in EndAt /\ y.socket = ends[c][n].socket /\ y.identified = ends[c][n].identified
  <2>1. y \in EndAt  BY <1>1, <1>3, EndChanges
  <2> QED  BY <1>1, <2>1 DEF EndAt
<1> HIDE DEF y
<1>5. /\ x \in [NodesOf(c) -> EndAt]
      /\ \A a \in NodesOf(c) : x[a].socket = ends[c][a].socket
                               /\ x[a].identified = ends[c][a].identified
  BY <1>1, <1>4
<1> HIDE DEF x
<1>6. ASSUME NEW a \in PeerNodes, NEW b \in PeerNodes, peerMap[a][b] # 0, peerMap[a][b] = c
      PROVE  NodesOf(c) = {a, b} /\ x[a].socket = "open" /\ x[a].identified = TRUE
  <2>1. /\ NodesOf(c) = {a, b} /\ ends[c][a].socket = "open"
        /\ ends[c][a].identified = TRUE
    BY <1>6, EntryFacts
  <2> QED  BY <1>5, <2>1
<1>7. \A a, b \in PeerNodes : peerMap'[a][b] # 0 =>
        \/ peerMap'[a][b] = peerMap[a][b] /\ peerMap[a][b] # c
        \/ /\ peerMap'[a][b] = c /\ NodesOf(c) = {a, b}
           /\ x[a].socket = "open" /\ x[a].identified = TRUE
  BY <1>2, <1>6
<1> QED  BY <1>1, <1>2, <1>5, <1>7, OneLink

LEMMA CloseStep ==
  ASSUME LinkIInv, NEW c \in DOMAIN dials, NEW n \in NodesOf(c), CloseEvent(c, n)
  PROVE  LinkIInv'
<1> DEFINE m == Other(c, n)
           y == [ends[c][n] EXCEPT !.socket = "closed", !.pipe = <<>>]
           x == [ends[c] EXCEPT ![n] = y]
<1>1. /\ c \in 1..Len(dials) /\ n \in PeerNodes /\ m \in PeerNodes /\ m # n
      /\ NodesOf(c) = {n, m} /\ ends[c] \in [NodesOf(c) -> EndAt]
      /\ ends[c][n] \in EndAt /\ peerMap \in [PeerNodes -> [PeerNodes -> 0..Len(dials)]]
  BY EndFacts
<1>2. /\ ends' = [ends EXCEPT ![c] = x] /\ UNCHANGED <<dials, listening, cut>>
      /\ peerMap' = IF ends[c][n].identified
                    THEN [peerMap EXCEPT ![n][m] = 0] ELSE peerMap
  BY DEF CloseEvent, Forget
<1>3. y \in EndAt
  <2>1. <<>> \in Seq({"handshake", "record"})  OBVIOUS
  <2> QED  BY <1>1, <2>1, EndChanges
<1> HIDE DEF m, y
<1>4. x \in [NodesOf(c) -> EndAt] /\ x[m] = ends[c][m]  BY <1>1, <1>3
<1> HIDE DEF x
<1>5. /\ peerMap' \in [PeerNodes -> [PeerNodes -> 0..Len(dials)]]
      /\ \A a, b \in PeerNodes : peerMap'[a][b] \in {0, peerMap[a][b]}
      /\ ends[c][n].identified = TRUE => peerMap'[n][m] = 0
  <2>1. 0 \in 0..Len(dials)  BY <1>1
  <2> QED  BY <1>1, <1>2, <2>1
<1>6. ASSUME NEW a \in PeerNodes, NEW b \in PeerNodes, peerMap'[a][b] # 0,
             peerMap[a][b] = c
      PROVE  NodesOf(c) = {a, b} /\ x[a].socket = "open" /\ x[a].identified = TRUE
  <2>1. peerMap[a][b] # 0  BY <1>5, <1>6
  <2>2. /\ NodesOf(c) = {a, b} /\ ends[c][a].socket = "open"
        /\ ends[c][a].identified = TRUE
    BY <1>6, <2>1, EntryFacts
  <2>3. a = m
    <3>1. CASE a = n
      <4>1. b = m  BY <1>1, <2>2, <3>1
      <4> QED  BY <1>5, <1>6, <2>2, <3>1, <4>1
    <3> QED  BY <1>1, <2>2, <3>1
  <2> QED  BY <1>4, <2>2, <2>3
<1>7. \A a, b \in PeerNodes : peerMap'[a][b] # 0 =>
        \/ peerMap'[a][b] = peerMap[a][b] /\ peerMap[a][b] # c
        \/ /\ peerMap'[a][b] = c /\ NodesOf(c) = {a, b}
           /\ x[a].socket = "open" /\ x[a].identified = TRUE
  BY <1>5, <1>6
<1> QED  BY <1>1, <1>2, <1>4, <1>5, <1>7, OneLink

\* What the inductive invariant says of each variable.
LEMMA LinkShape ==
  ASSUME LinkIInv
  PROVE  /\ dials \in Seq([dialer : PeerNodes, listener : PeerNodes])
         /\ \A c \in 1..Len(dials) : dials[c].dialer # dials[c].listener
         /\ ends \in Seq(EndMaps) /\ Len(ends) = Len(dials)
         /\ \A c \in 1..Len(dials) : ends[c] \in [NodesOf(c) -> EndAt]
         /\ Len(dials) \in Nat
         /\ DOMAIN ends = 1..Len(dials) /\ DOMAIN dials = 1..Len(dials)
         /\ peerMap \in [PeerNodes -> [PeerNodes -> 0..Len(dials)]]
         /\ listening \subseteq PeerNodes /\ cut \subseteq 1..Len(dials)
<1>1. /\ dials \in Seq([dialer : PeerNodes, listener : PeerNodes])
      /\ ends \in Seq(EndMaps) /\ Len(ends) = Len(dials)
  BY DEF LinkIInv, Wired
<1>2. Len(dials) \in Nat /\ DOMAIN ends = 1..Len(dials) /\ DOMAIN dials = 1..Len(dials)
  BY <1>1, LenProperties
<1> QED  BY <1>1, <1>2 DEF LinkIInv, Wired

\* A record is queued on the ends that face the sender's entries.
LEMMA BroadcastStep ==
  ASSUME LinkIInv, NEW n \in PeerNodes, Broadcast(n)
  PROVE  LinkIInv'
<1>1. /\ DOMAIN ends = 1..Len(dials) /\ Len(dials) \in Nat
      /\ peerMap \in [PeerNodes -> [PeerNodes -> 0..Len(dials)]]
      /\ listening \subseteq PeerNodes /\ cut \subseteq 1..Len(dials)
  BY LinkShape
<1>2. UNCHANGED <<dials, peerMap, listening, cut>>  BY DEF Broadcast
<1> DEFINE Put(c, m) == n \in DOMAIN ends[c] /\ m # n /\ peerMap[n][m] = c
                        /\ ends[c][m].socket = "open"
           e(c, m) == IF m # n /\ n \in DOMAIN ends[c] /\ peerMap[n][m] = c
                         /\ ends[c][m].socket = "open"
                      THEN [ends[c][m] EXCEPT !.pipe = Append(@, "record")] ELSE ends[c][m]
<1>3. ends' = [c \in DOMAIN ends |-> [m \in DOMAIN ends[c] |-> e(c, m)]]
  BY DEF Broadcast
<1>4. ASSUME NEW c \in DOMAIN ends, NEW m \in NodesOf(c)
      PROVE  /\ e(c, m) \in EndAt /\ e(c, m).socket = ends[c][m].socket
             /\ e(c, m).identified = ends[c][m].identified
  <2>1. ends[c][m] \in EndAt  BY <1>1, WiredFacts DEF LinkIInv
  <2>2. Append(ends[c][m].pipe, "record") \in Seq({"handshake", "record"})
    BY <2>1, AppendProperties DEF EndAt
  <2>3. [ends[c][m] EXCEPT !.pipe = Append(@, "record")] \in EndAt  BY <2>1, <2>2, EndChanges
  <2> QED  BY <2>1, <2>3 DEF EndAt
<1> HIDE DEF e
<1>5. \A c \in DOMAIN ends : DOMAIN ends[c] = NodesOf(c)
  BY <1>1, WiredFacts DEF LinkIInv
<1>6. \A c \in DOMAIN ends : ends'[c] \in [NodesOf(c) -> EndAt]
  BY <1>3, <1>4, <1>5
<1>7. ASSUME NEW a \in PeerNodes, NEW b \in PeerNodes, peerMap'[a][b] # 0
      PROVE  /\ NodesOf(peerMap'[a][b]) = {a, b}
             /\ ends'[peerMap'[a][b]][a].socket = "open"
             /\ ends'[peerMap'[a][b]][a].identified = TRUE
  <2> DEFINE c == peerMap[a][b]
  <2>1. /\ c \in 1..Len(dials) /\ NodesOf(c) = {a, b} /\ ends[c][a].socket = "open"
        /\ ends[c][a].identified = TRUE
    BY <1>2, <1>7, EntryFacts
  <2>2. ends'[c][a] = e(c, a)  BY <1>1, <1>3, <1>5, <2>1
  <2>3. e(c, a).socket = "open" /\ e(c, a).identified = TRUE  BY <1>1, <1>4, <2>1
  <2> QED  BY <1>2, <2>1, <2>2, <2>3
<1>8. DOMAIN ends' = DOMAIN ends /\ ends' = [c \in DOMAIN ends' |-> ends'[c]]  BY <1>3
<1> QED  BY <1>1, <1>2, <1>6, <1>7, <1>8, EndsStep

\* A node stops: its entries go, and with them the sockets they were for.
LEMMA StopStep ==
  ASSUME LinkIInv, NEW n \in PeerNodes, StopNode(n)
  PROVE  LinkIInv'
<1>1. /\ DOMAIN ends = 1..Len(dials) /\ Len(dials) \in Nat
      /\ peerMap \in [PeerNodes -> [PeerNodes -> 0..Len(dials)]]
      /\ listening \subseteq PeerNodes /\ cut \subseteq 1..Len(dials)
  BY LinkShape
<1> DEFINE mine == { c \in DOMAIN dials : n \in NodesOf(c) /\ peerMap[n][Other(c, n)] = c }
           x(c) == [ends[c] EXCEPT ![n].socket = "destroyed", ![n].pipe = <<>>]
<1>2. /\ UNCHANGED <<dials, cut>> /\ listening' \subseteq PeerNodes
      /\ peerMap' = [peerMap EXCEPT ![n] = [m \in PeerNodes |-> 0]]
      /\ ends' = [c \in DOMAIN ends |-> IF c \in mine THEN x(c) ELSE ends[c]]
  BY <1>1 DEF StopNode
<1>3. ASSUME NEW c \in DOMAIN ends, c \in mine
      PROVE  /\ x(c) \in [NodesOf(c) -> EndAt]
             /\ \A a \in NodesOf(c) : a # n => x(c)[a] = ends[c][a]
  <2>1. ends[c] \in [NodesOf(c) -> EndAt] /\ n \in NodesOf(c) /\ ends[c][n] \in EndAt
    BY <1>1, <1>3, WiredFacts DEF LinkIInv
  <2>2. <<>> \in Seq({"handshake", "record"})  OBVIOUS
  <2> DEFINE y == [ends[c][n] EXCEPT !.socket = "destroyed", !.pipe = <<>>]
  <2>3. y \in EndAt  BY <2>1, <2>2, EndChanges
  <2>4. x(c) = [ends[c] EXCEPT ![n] = y]  BY <2>1
  <2> HIDE DEF y, x
  <2> QED  BY <2>1, <2>3, <2>4
<1> HIDE DEF x
<1>4. \A c \in DOMAIN ends : ends[c] \in [NodesOf(c) -> EndAt]
  BY <1>1, WiredFacts DEF LinkIInv
<1>5. \A c \in DOMAIN ends : ends'[c] \in [NodesOf(c) -> EndAt]
  BY <1>2, <1>3, <1>4
<1>6. ASSUME NEW a \in PeerNodes, NEW b \in PeerNodes, peerMap'[a][b] # 0
      PROVE  /\ NodesOf(peerMap'[a][b]) = {a, b}
             /\ ends'[peerMap'[a][b]][a].socket = "open"
             /\ ends'[peerMap'[a][b]][a].identified = TRUE
  <2> DEFINE c == peerMap[a][b]
  <2>1. a # n /\ peerMap'[a][b] = c  BY <1>1, <1>2, <1>6
  <2>2. /\ c \in 1..Len(dials) /\ NodesOf(c) = {a, b} /\ ends[c][a].socket = "open"
        /\ ends[c][a].identified = TRUE
    BY <1>6, <2>1, EntryFacts
  <2> HIDE DEF c
  <2>3. c \in mine => x(c)[a] = ends[c][a]  BY <1>1, <1>3, <2>1, <2>2
  <2>4. ends'[c] = IF c \in mine THEN x(c) ELSE ends[c]  BY <1>1, <1>2, <2>2
  <2>5. ends'[c][a] = ends[c][a]  BY <2>3, <2>4
  <2> QED  BY <2>1, <2>2, <2>5
<1>7. DOMAIN ends' = DOMAIN ends /\ ends' = [c \in DOMAIN ends' |-> ends'[c]]  BY <1>2
<1>8. peerMap' \in [PeerNodes -> [PeerNodes -> 0..Len(dials)]]  
  <2>1. 0 \in 0..Len(dials)  BY <1>1
  <2> QED  BY <1>1, <1>2, <2>1
<1> QED  BY <1>1, <1>2, <1>5, <1>6, <1>7, <1>8, EndsStep

\* A new connection is in no map yet.
LEMMA DialStep ==
  ASSUME LinkIInv, NEW n \in PeerNodes, NEW m \in PeerNodes, Dial(n, m)
  PROVE  LinkIInv'
<1> DEFINE d == [dialer |-> n, listener |-> m]
           e(a) == IF a = n THEN End(TRUE, <<>>) ELSE End(FALSE, <<"handshake">>)
           x == [a \in {n, m} |-> e(a)]
<1>. PICK k : k = Len(dials) + 1  OBVIOUS
<1>1. /\ dials \in Seq([dialer : PeerNodes, listener : PeerNodes])
      /\ \A c \in 1..Len(dials) : dials[c].dialer # dials[c].listener
      /\ ends \in Seq(EndMaps) /\ Len(ends) = Len(dials) /\ Len(dials) \in Nat
      /\ \A c \in 1..Len(dials) : ends[c] \in [NodesOf(c) -> EndAt]
      /\ peerMap \in [PeerNodes -> [PeerNodes -> 0..Len(dials)]]
      /\ listening \subseteq PeerNodes /\ cut \subseteq 1..Len(dials)
  BY LinkShape
<1>2. /\ n # m /\ dials' = Append(dials, d) /\ ends' = Append(ends, x)
      /\ UNCHANGED <<peerMap, listening, cut>>
  BY DEF Dial
<1>3. d \in [dialer : PeerNodes, listener : PeerNodes] /\ d.dialer = n /\ d.listener = m
  OBVIOUS
<1> HIDE DEF d
<1>4. /\ dials' \in Seq([dialer : PeerNodes, listener : PeerNodes]) /\ Len(dials') = k
      /\ \A c \in 1..Len(dials) : dials'[c] = dials[c]
      /\ dials'[k] = d
  BY <1>1, <1>2, <1>3, AppendProperties
<1>5. \A a : e(a) \in EndAt
  <2>1. /\ <<>> \in Seq({"handshake", "record"})
        /\ <<"handshake">> \in Seq({"handshake", "record"})
    OBVIOUS
  <2> QED  BY <2>1 DEF EndAt, End
<1> HIDE DEF e
<1>6. x \in [{n, m} -> EndAt] /\ x \in EndMaps
  <2>1. x \in [{n, m} -> EndAt]  BY <1>5
  <2>2. {n, m} \in SUBSET PeerNodes  OBVIOUS
  <2> QED  BY <2>1, <2>2 DEF EndMaps
<1> HIDE DEF x
<1>7. /\ ends' \in Seq(EndMaps) /\ Len(ends') = k
      /\ \A c \in 1..Len(dials) : ends'[c] = ends[c]
      /\ ends'[k] = x
  BY <1>1, <1>2, <1>6, AppendProperties
<1>8. 1..k = (1..Len(dials)) \cup {k} /\ 0..Len(dials) \subseteq 0..k
  <2>1. Len(dials) \in Nat  BY <1>1
  <2> QED  BY <2>1
<1>9. /\ \A c \in 1..Len(dials) : NodesOf(c)' = NodesOf(c)
      /\ NodesOf(k)' = {n, m}
  BY <1>3, <1>4 DEF NodesOf
<1>10. Wired'
  <2>1. \A c \in 1..k : dials'[c].dialer # dials'[c].listener
    BY <1>1, <1>2, <1>3, <1>4, <1>8
  <2>2. \A c \in 1..k : ends'[c] \in [NodesOf(c)' -> EndAt]
    BY <1>1, <1>6, <1>7, <1>8, <1>9
  <2>3. peerMap' \in [PeerNodes -> [PeerNodes -> 0..k]]  BY <1>1, <1>2, <1>8
  <2>4. listening' \subseteq PeerNodes /\ cut' \subseteq 1..k  BY <1>1, <1>2, <1>8
  <2> QED  BY <1>4, <1>7, <2>1, <2>2, <2>3, <2>4 DEF Wired
<1>11. ASSUME NEW a \in PeerNodes, NEW b \in PeerNodes, peerMap'[a][b] # 0
       PROVE  LET c == peerMap'[a][b] IN
              /\ {dials'[c].dialer, dials'[c].listener} = {a, b}
              /\ ends'[peerMap'[a][b]][a].socket = "open"
              /\ ends'[peerMap'[a][b]][a].identified
  <2>1. /\ peerMap'[a][b] \in 1..Len(dials) /\ NodesOf(peerMap'[a][b]) = {a, b}
        /\ ends[peerMap'[a][b]][a].socket = "open"
        /\ ends[peerMap'[a][b]][a].identified = TRUE
    BY <1>2, <1>11, EntryFacts
  <2>2. /\ dials'[peerMap'[a][b]] = dials[peerMap'[a][b]]
        /\ ends'[peerMap'[a][b]] = ends[peerMap'[a][b]]
    BY <1>4, <1>7, <2>1
  <2> QED  BY <2>1, <2>2 DEF NodesOf
<1>12. EntryIsOpen'  BY <1>11 DEF EntryIsOpen, NodesOf
<1> QED  BY <1>10, <1>12 DEF LinkIInv

LEMMA LinkInductive == LinkIInv /\ [LinkNext]_linkVars => LinkIInv'
<1> SUFFICES ASSUME LinkIInv, [LinkNext]_linkVars PROVE LinkIInv'
  OBVIOUS
<1>1. ASSUME NEW c \in DOMAIN dials, NEW n \in NodesOf(c), ReceiveHandshake(c, n)
      PROVE  LinkIInv'
  <2>1. ends[c][n].identified = FALSE
    <3>1. ends[c][n] \in EndAt  BY EndFacts
    <3>2. ends[c][n].identified \in BOOLEAN  BY <3>1 DEF EndAt
    <3>3. ~ends[c][n].identified  BY <1>1 DEF ReceiveHandshake
    <3> QED  BY <3>2, <3>3
  <2>2. /\ Deliverable(c, n) /\ UNCHANGED <<dials, listening, cut>>
        /\ DestroyDuplicate(c, n) \/ Admit(c, n)
    BY <1>1 DEF ReceiveHandshake
  <2> QED  BY <2>1, <2>2, DestroyStep, AdmitStep
<1>2. ASSUME NEW c \in DOMAIN dials, Break(c)
      PROVE  LinkIInv'
  <2>1. cut' \subseteq 1..Len(dials)  BY <1>2, LinkShape DEF Break
  <2>2. UNCHANGED <<dials, ends, peerMap, listening>>  BY <1>2 DEF Break
  <2>3. \A d : NodesOf(d)' = NodesOf(d)  BY <2>2 DEF NodesOf
  <2>4. Wired'  BY <2>1, <2>2, <2>3 DEF LinkIInv, Wired
  <2>5. EntryIsOpen'  BY <2>2, <2>3 DEF LinkIInv, EntryIsOpen
  <2> QED  BY <2>4, <2>5 DEF LinkIInv
<1>3. CASE UNCHANGED linkVars
  <2>2. UNCHANGED <<dials, ends, peerMap, listening, cut>>  BY <1>3 DEF linkVars
  <2>3. \A d : NodesOf(d)' = NodesOf(d)  BY <2>2 DEF NodesOf
  <2>4. Wired'  BY <2>2, <2>3 DEF LinkIInv, Wired
  <2>5. EntryIsOpen'  BY <2>2, <2>3 DEF LinkIInv, EntryIsOpen
  <2> QED  BY <2>4, <2>5 DEF LinkIInv
<1>4. CASE LinkEvents
  BY <1>1, <1>4, ReceiveOtherStep, CloseStep DEF LinkEvents
<1> QED
  BY <1>2, <1>3, <1>4, DialStep, BroadcastStep, StopStep DEF LinkNext

LEMMA LinkInitially == LinkInit => LinkIInv
<1> SUFFICES ASSUME LinkInit PROVE LinkIInv
  OBVIOUS
<1>1. /\ dials = <<>> /\ ends = <<>> /\ listening = PeerNodes /\ cut = {}
      /\ peerMap = [n \in PeerNodes |-> [m \in PeerNodes |-> 0]]
  BY DEF LinkInit
<1>2. /\ dials \in Seq([dialer : PeerNodes, listener : PeerNodes]) /\ Len(dials) = 0
      /\ ends \in Seq(EndMaps) /\ Len(ends) = 0
  BY <1>1
<1>3. 0 \in 0..Len(dials) /\ 1..Len(dials) = {}  BY <1>2
<1>4. peerMap \in [PeerNodes -> [PeerNodes -> 0..Len(dials)]]  BY <1>1, <1>3
<1>5. Wired  BY <1>1, <1>2, <1>3, <1>4 DEF Wired
<1>6. EntryIsOpen  BY <1>1 DEF EntryIsOpen
<1> QED  BY <1>5, <1>6 DEF LinkIInv

LEMMA WiredIsTyped == Wired => LinkTypeOK
<1> SUFFICES ASSUME Wired PROVE LinkTypeOK
  OBVIOUS
<1>1. DOMAIN dials = 1..Len(dials) /\ DOMAIN ends = 1..Len(dials)  BY DEF Wired
<1> QED  BY <1>1 DEF Wired, LinkTypeOK, EndAt

\* The connections keep their shape (node.ts).
THEOREM LinkTyping == LinkSpec => []LinkTypeOK
<1>1. LinkInit => LinkIInv  BY LinkInitially
<1>2. LinkIInv /\ [LinkNext]_linkVars => LinkIInv'  BY LinkInductive
<1>3. LinkIInv => LinkTypeOK  BY WiredIsTyped DEF LinkIInv
<1> QED  BY <1>1, <1>2, <1>3, PTL DEF LinkSpec

\* The peer map never offers a connection that is closed or destroyed: what sends
\* to a peer finds a socket that can be written (connect, handleConnection, the
\* close handler of node.ts).
THEOREM EntriesAreOpen == LinkSpec => []EntryIsOpen
<1>1. LinkInit => LinkIInv  BY LinkInitially
<1>2. LinkIInv /\ [LinkNext]_linkVars => LinkIInv'  BY LinkInductive
<1>3. LinkIInv => EntryIsOpen  BY DEF LinkIInv
<1> QED  BY <1>1, <1>2, <1>3, PTL DEF LinkSpec

-----------------------------------------------------------------------------
(* Children.                                                               *)

USE SpawnAssumption

SpawnSteps == {"idle", "provisioning", "installing", "publishing", "bootstrapping", "done"}

Calls(born) == [child : born, step : {"stopping", "signing"},
                by : SweepSlots \cup 1..MaxTerminateCalls]

\* A child is entered when its instance is installed.
BornInstalled ==
  \A c \in ChildAgents : c \in Born <=> spawnStep[c] \in {"publishing", "bootstrapping", "done"}

SpawnIInv ==
  /\ SpawnTypeOK
  /\ children \in Seq(ChildAgents)
  /\ BornInstalled
  /\ StoppedWithChild

\* The type invariant, in the names above.
LEMMA SpawnTypes ==
  ASSUME SpawnIInv
  PROVE  /\ spawnStep \in [ChildAgents -> SpawnSteps]
         /\ instanceOf \in [ChildAgents -> InstanceStatuses]
         /\ Born \subseteq ChildAgents /\ children \in Seq(ChildAgents)
         /\ childStatus \in [ChildAgents -> ChildStatuses]
         /\ ageDays \in [ChildAgents -> 0..GraceDays]
         /\ earning \in [ChildAgents -> BOOLEAN]
         /\ negativeDays \in [ChildAgents -> 0..MaxNegative]
         /\ ending \subseteq Calls(Born)
         /\ sweeps \in [SweepSlots -> SUBSET (DOMAIN children)]
         /\ announced \in [{"spawn.new", "spawn.dead"} -> SUBSET Born]
         /\ monitoring \in BOOLEAN /\ operatorCalls \in 0..MaxTerminateCalls
BY DEF SpawnIInv, SpawnTypeOK, SpawnSteps, Calls

\* What a step that enters no child has to keep.
LEMMA SameChildren ==
  ASSUME SpawnIInv, UNCHANGED children,
         spawnStep' \in [ChildAgents -> SpawnSteps],
         instanceOf' \in [ChildAgents -> InstanceStatuses],
         childStatus' \in [ChildAgents -> ChildStatuses],
         ageDays' \in [ChildAgents -> 0..GraceDays],
         earning' \in [ChildAgents -> BOOLEAN],
         negativeDays' \in [ChildAgents -> 0..MaxNegative],
         ending' \subseteq Calls(Born),
         sweeps' \in [SweepSlots -> SUBSET (DOMAIN children)],
         announced' \in [{"spawn.new", "spawn.dead"} -> SUBSET Born],
         monitoring' \in BOOLEAN, operatorCalls' \in 0..MaxTerminateCalls,
         \A c \in ChildAgents :
           spawnStep'[c] \in {"publishing", "bootstrapping", "done"} <=>
             spawnStep[c] \in {"publishing", "bootstrapping", "done"},
         \A c \in Born : childStatus'[c] = "terminated" <=> instanceOf'[c] = "stopped"
  PROVE  SpawnIInv'
<1>1. Born' = Born  BY DEF Born
<1>2. SpawnTypeOK'  BY <1>1, SpawnTypes DEF SpawnTypeOK, SpawnSteps, Calls
<1>3. BornInstalled'  BY <1>1 DEF SpawnIInv, BornInstalled
<1>4. StoppedWithChild'  BY <1>1 DEF StoppedWithChild
<1> QED  BY <1>2, <1>3, <1>4 DEF SpawnIInv

\* The calls that spawn a child, up to the one that enters it and after it.
LEMMA SpawnCallStep ==
  ASSUME SpawnIInv, NEW c \in ChildAgents,
         Spawn(c) \/ Provisioned(c) \/ Published(c) \/ BootstrapEnds(c)
  PROVE  SpawnIInv'
<1> USE SpawnTypes
<1>1. CASE Spawn(c)
  <2>1. spawnStep' \in [ChildAgents -> SpawnSteps]  BY <1>1 DEF Spawn, SpawnSteps
  <2> QED  BY <1>1, <2>1, SameChildren DEF Spawn, SpawnIInv, StoppedWithChild
<1>2. CASE Provisioned(c)
  <2>1. c \notin Born  BY <1>2 DEF SpawnIInv, BornInstalled, Provisioned
  <2>2. spawnStep' \in [ChildAgents -> SpawnSteps]  BY <1>2 DEF Provisioned, SpawnSteps
  <2>3. instanceOf' \in [ChildAgents -> InstanceStatuses]
    BY <1>2 DEF Provisioned, InstanceStatuses
  <2>4. \A d \in Born : childStatus'[d] = "terminated" <=> instanceOf'[d] = "stopped"
    BY <1>2, <2>1 DEF Provisioned, SpawnIInv, StoppedWithChild
  <2> QED  BY <1>2, <2>2, <2>3, <2>4, SameChildren DEF Provisioned
<1>3. CASE Published(c)
  <2>1. c \in Born  BY <1>3 DEF SpawnIInv, BornInstalled, Published
  <2>2. spawnStep' \in [ChildAgents -> SpawnSteps]  BY <1>3 DEF Published, SpawnSteps
  <2>3. announced' \in [{"spawn.new", "spawn.dead"} -> SUBSET Born]
    BY <1>3, <2>1 DEF Published
  <2> QED  BY <1>3, <2>2, <2>3, SameChildren DEF Published, SpawnIInv, StoppedWithChild
<1>4. CASE BootstrapEnds(c)
  <2>1. spawnStep' \in [ChildAgents -> SpawnSteps]  BY <1>4 DEF BootstrapEnds, SpawnSteps
  <2>2. childStatus' \in [ChildAgents -> ChildStatuses]
    BY <1>4 DEF BootstrapEnds, ChildStatuses
  <2>3. \A d \in Born : childStatus'[d] = "terminated" <=> instanceOf'[d] = "stopped"
    BY <1>4 DEF BootstrapEnds, SpawnIInv, StoppedWithChild
  <2> QED  BY <1>4, <2>1, <2>2, <2>3, SameChildren DEF BootstrapEnds
<1> QED  BY <1>1, <1>2, <1>3, <1>4

\* A child is entered.
LEMMA InstalledStep ==
  ASSUME SpawnIInv, NEW c \in ChildAgents, Installed(c)
  PROVE  SpawnIInv'
<1> USE SpawnTypes
<1>1. /\ spawnStep' = [spawnStep EXCEPT ![c] = "publishing"]
      /\ instanceOf' = [instanceOf EXCEPT ![c] = "ready"]
      /\ children' = Append(children, c)
      /\ childStatus' = [childStatus EXCEPT ![c] = "bootstrapping"]
      /\ UNCHANGED <<ageDays, earning, negativeDays, ending, sweeps, announced, monitoring,
                     operatorCalls>>
  BY DEF Installed
<1>2. /\ children' \in Seq(ChildAgents) /\ DOMAIN children \subseteq DOMAIN children'
      /\ Born' = Born \cup {c}
  <2>1. /\ children' \in Seq(ChildAgents) /\ Len(children') = Len(children) + 1
        /\ \A i \in 1..Len(children) : children'[i] = children[i]
        /\ children'[Len(children) + 1] = c
    BY <1>1, AppendProperties
  <2>2. DOMAIN children = 1..Len(children) /\ DOMAIN children' = 1..(Len(children) + 1)
    BY <2>1, LenProperties
  <2>3. Len(children) \in Nat  BY LenProperties
  <2>4. DOMAIN children' = DOMAIN children \cup {Len(children) + 1}  BY <2>2, <2>3
  <2>5. /\ Born = { children[i] : i \in DOMAIN children }
        /\ Born' = { children'[i] : i \in DOMAIN children' }
    BY DEF Born, Range
  <2>6. \A i \in DOMAIN children : children'[i] = children[i]  BY <2>1, <2>2
  <2>7. Len(children) + 1 \in DOMAIN children'  BY <2>4
  <2>8. Born' \subseteq Born \cup {c}  BY <2>1, <2>4, <2>5, <2>6
  <2>9. Born \cup {c} \subseteq Born'  BY <2>1, <2>4, <2>5, <2>6, <2>7
  <2> QED  BY <2>1, <2>4, <2>8, <2>9
<1>3. SpawnTypeOK'
  <2>1. spawnStep' \in [ChildAgents -> SpawnSteps]  BY <1>1 DEF SpawnSteps
  <2>2. instanceOf' \in [ChildAgents -> InstanceStatuses]  BY <1>1 DEF InstanceStatuses
  <2>3. childStatus' \in [ChildAgents -> ChildStatuses]  BY <1>1 DEF ChildStatuses
  <2>4. ending' \subseteq Calls(Born')  BY <1>1, <1>2 DEF Calls
  <2>5. sweeps' \in [SweepSlots -> SUBSET (DOMAIN children')]  BY <1>1, <1>2
  <2>6. announced' \in [{"spawn.new", "spawn.dead"} -> SUBSET Born']  BY <1>1, <1>2
  <2> QED  BY <1>1, <1>2, <2>1, <2>2, <2>3, <2>4, <2>5, <2>6 DEF SpawnTypeOK, SpawnSteps, Calls
<1>4. BornInstalled'  BY <1>1, <1>2 DEF SpawnIInv, BornInstalled, SpawnSteps
<1>5. StoppedWithChild'  BY <1>1, <1>2 DEF SpawnIInv, StoppedWithChild
<1> QED  BY <1>2, <1>3, <1>4, <1>5 DEF SpawnIInv

\* A check goes on with the next child of its list.
LEMMA TerminateFirstStep ==
  ASSUME SpawnIInv, NEW k \in SweepSlots, NEW list \in SUBSET (DOMAIN children),
         NEW statuses \in [ChildAgents -> ChildStatuses],
         NEW others \in SUBSET Calls(Born),
         \A c \in Born : statuses[c] = "terminated" <=> instanceOf[c] = "stopped",
         TerminateFirst(k, list, statuses, others)
  PROVE  /\ sweeps' \in [SweepSlots -> SUBSET (DOMAIN children)]
         /\ childStatus' \in [ChildAgents -> ChildStatuses]
         /\ instanceOf' \in [ChildAgents -> InstanceStatuses]
         /\ ending' \subseteq Calls(Born)
         /\ \A c \in Born : childStatus'[c] = "terminated" <=> instanceOf'[c] = "stopped"
<1> USE SpawnTypes
<1>1. sweeps' \in [SweepSlots -> SUBSET (DOMAIN children)]  BY DEF TerminateFirst
<1>2. CASE /\ childStatus' = statuses /\ ending' = others /\ UNCHANGED instanceOf
  BY <1>1, <1>2
<1>3. ASSUME NEW i \in list,
             childStatus' = [statuses EXCEPT ![children[i]] = "terminating"],
             instanceOf' = [instanceOf EXCEPT ![children[i]] = "stopping"],
             ending' = others \cup {[child |-> children[i], step |-> "stopping", by |-> k]}
      PROVE  /\ childStatus' \in [ChildAgents -> ChildStatuses]
             /\ instanceOf' \in [ChildAgents -> InstanceStatuses]
             /\ ending' \subseteq Calls(Born)
             /\ \A c \in Born : childStatus'[c] = "terminated" <=> instanceOf'[c] = "stopped"
  <2>1. children[i] \in Born /\ children[i] \in ChildAgents  BY DEF Born, Range
  <2>2. [child |-> children[i], step |-> "stopping", by |-> k] \in Calls(Born)
    BY <2>1 DEF Calls
  <2>3. childStatus' \in [ChildAgents -> ChildStatuses]  BY <1>3, <2>1 DEF ChildStatuses
  <2>4. instanceOf' \in [ChildAgents -> InstanceStatuses]
    BY <1>3, <2>1 DEF InstanceStatuses
  <2>5. \A c \in Born : childStatus'[c] = "terminated" <=> instanceOf'[c] = "stopped"
    BY <1>3, <2>1
  <2> QED  BY <1>3, <2>2, <2>3, <2>4, <2>5
<1> QED  BY <1>1, <1>2, <1>3 DEF TerminateFirst

LEMMA TerminateCallStep ==
  ASSUME SpawnIInv, NEW c \in ChildAgents, TerminateCall(c)
  PROVE  SpawnIInv'
<1> USE SpawnTypes
<1>1. operatorCalls' \in 1..MaxTerminateCalls /\ operatorCalls' \in 0..MaxTerminateCalls
  BY DEF TerminateCall
<1>2. /\ c \in Born
      /\ childStatus' = [childStatus EXCEPT ![c] = "terminating"]
      /\ instanceOf' = [instanceOf EXCEPT ![c] = "stopping"]
      /\ ending' = ending \cup {[child |-> c, step |-> "stopping", by |-> operatorCalls']}
      /\ UNCHANGED <<spawnStep, children, ageDays, earning, negativeDays, sweeps, announced,
                     monitoring>>
  BY DEF TerminateCall, Terminating
<1>3. [child |-> c, step |-> "stopping", by |-> operatorCalls'] \in Calls(Born)
  BY <1>1, <1>2 DEF Calls
<1>4. /\ childStatus' \in [ChildAgents -> ChildStatuses]
      /\ instanceOf' \in [ChildAgents -> InstanceStatuses]
      /\ \A d \in Born : childStatus'[d] = "terminated" <=> instanceOf'[d] = "stopped"
  <2>1. childStatus' \in [ChildAgents -> ChildStatuses]  BY <1>2 DEF ChildStatuses
  <2>2. instanceOf' \in [ChildAgents -> InstanceStatuses]  BY <1>2 DEF InstanceStatuses
  <2>3. \A d \in Born : childStatus'[d] = "terminated" <=> instanceOf'[d] = "stopped"
    BY <1>2 DEF SpawnIInv, StoppedWithChild
  <2> QED  BY <2>1, <2>2, <2>3
<1> QED  BY <1>1, <1>2, <1>3, <1>4, SameChildren

LEMMA InstanceStoppedStep ==
  ASSUME SpawnIInv, NEW e \in ending, InstanceStopped(e)
  PROVE  SpawnIInv'
<1> USE SpawnTypes
<1>1. e \in Calls(Born)  OBVIOUS
<1>2. e.child \in Born /\ e.child \in ChildAgents  BY <1>1 DEF Calls
<1>3. /\ childStatus' = [childStatus EXCEPT ![e.child] = "terminated"]
      /\ instanceOf' = [instanceOf EXCEPT ![e.child] = "stopped"]
      /\ ending' = (ending \ {e}) \cup {[e EXCEPT !.step = "signing"]}
      /\ UNCHANGED <<spawnStep, children, ageDays, earning, negativeDays, sweeps, announced,
                     monitoring, operatorCalls>>
  BY DEF InstanceStopped
<1>4. [e EXCEPT !.step = "signing"] \in Calls(Born)  BY <1>1 DEF Calls
<1>5. /\ childStatus' \in [ChildAgents -> ChildStatuses]
      /\ instanceOf' \in [ChildAgents -> InstanceStatuses]
      /\ \A d \in Born : childStatus'[d] = "terminated" <=> instanceOf'[d] = "stopped"
  <2>1. childStatus' \in [ChildAgents -> ChildStatuses]  BY <1>2, <1>3 DEF ChildStatuses
  <2>2. instanceOf' \in [ChildAgents -> InstanceStatuses]  BY <1>2, <1>3 DEF InstanceStatuses
  <2>3. \A d \in Born : childStatus'[d] = "terminated" <=> instanceOf'[d] = "stopped"
    BY <1>2, <1>3 DEF SpawnIInv, StoppedWithChild
  <2> QED  BY <2>1, <2>2, <2>3
<1> QED  BY <1>3, <1>4, <1>5, SameChildren

LEMMA DeathAnnouncedStep ==
  ASSUME SpawnIInv, NEW e \in ending, DeathAnnounced(e)
  PROVE  SpawnIInv'
<1> USE SpawnTypes
<1>1. e \in Calls(Born)  OBVIOUS
<1>2. e.child \in Born  BY <1>1 DEF Calls
<1>3. /\ announced' = [announced EXCEPT !["spawn.dead"] = @ \cup {e.child}]
      /\ UNCHANGED <<spawnStep, children, ageDays, earning, negativeDays, monitoring,
                     operatorCalls>>
  BY DEF DeathAnnounced
<1>4. announced' \in [{"spawn.new", "spawn.dead"} -> SUBSET Born]  BY <1>2, <1>3
<1>5. \A c \in Born : childStatus[c] = "terminated" <=> instanceOf[c] = "stopped"
  BY DEF SpawnIInv, StoppedWithChild
<1>6. ending \ {e} \in SUBSET Calls(Born)  OBVIOUS
<1>7. CASE e.by \in SweepSlots
  <2> DEFINE left == { i \in sweeps[e.by] : children[i] # e.child }
  <2>1. TerminateFirst(e.by, left, childStatus, ending \ {e})  BY <1>7 DEF DeathAnnounced
  <2>2. left \in SUBSET (DOMAIN children)  BY <1>7
  <2> HIDE DEF left
  <2>3. /\ sweeps' \in [SweepSlots -> SUBSET (DOMAIN children)]
        /\ childStatus' \in [ChildAgents -> ChildStatuses]
        /\ instanceOf' \in [ChildAgents -> InstanceStatuses]
        /\ ending' \subseteq Calls(Born)
        /\ \A c \in Born : childStatus'[c] = "terminated" <=> instanceOf'[c] = "stopped"
    BY <1>5, <1>6, <1>7, <2>1, <2>2, TerminateFirstStep
  <2> QED  BY <1>3, <1>4, <2>3, SameChildren
<1>8. CASE e.by \notin SweepSlots
  <2>1. ending' = ending \ {e} /\ UNCHANGED <<sweeps, childStatus, instanceOf>>
    BY <1>8 DEF DeathAnnounced
  <2> QED  BY <1>3, <1>4, <1>5, <1>6, <2>1, SameChildren
<1> QED  BY <1>7, <1>8

\* A check changes the status of children that are not terminated.
LEMMA CheckStep ==
  ASSUME SpawnIInv, NEW k \in SweepSlots, checkViability(k)
  PROVE  SpawnIInv'
<1> USE SpawnTypes
<1> DEFINE judged == [c \in ChildAgents |->
                        IF c \in Losing THEN "underperforming" ELSE childStatus[c]]
           list == { i \in DOMAIN children : children[i] \in Losing /\ TooLong(children[i]) }
<1>1. judged \in [ChildAgents -> ChildStatuses]  BY DEF ChildStatuses
<1>2. \A c \in Born : judged[c] = "terminated" <=> instanceOf[c] = "stopped"
  <2>1. \A c \in Losing : childStatus[c] # "terminated"  BY DEF Losing, Judged
  <2> QED  BY <2>1 DEF SpawnIInv, StoppedWithChild
<1>3. negativeDays' \in [ChildAgents -> 0..MaxNegative]
  <2>1. \A c \in ChildAgents : TooLong(c) \/ negativeDays[c] + 1 \in 0..MaxNegative
    BY DEF TooLong
  <2>2. MaxNegative \in 0..MaxNegative /\ 0 \in 0..MaxNegative  OBVIOUS
  <2>3. negativeDays' = [c \in ChildAgents |->
          IF c \in Losing THEN (IF TooLong(c) THEN MaxNegative ELSE negativeDays[c] + 1)
          ELSE IF c \in Judged THEN 0 ELSE negativeDays[c]]
    BY DEF checkViability
  <2> QED  BY <2>1, <2>2, <2>3
<1>4. /\ TerminateFirst(k, list, judged, ending)
      /\ UNCHANGED <<spawnStep, children, ageDays, earning, announced, monitoring,
                     operatorCalls>>
  BY DEF checkViability
<1>5. list \in SUBSET (DOMAIN children) /\ ending \in SUBSET Calls(Born)  OBVIOUS
<1> HIDE DEF judged, list
<1>6. /\ sweeps' \in [SweepSlots -> SUBSET (DOMAIN children)]
      /\ childStatus' \in [ChildAgents -> ChildStatuses]
      /\ instanceOf' \in [ChildAgents -> InstanceStatuses]
      /\ ending' \subseteq Calls(Born)
      /\ \A c \in Born : childStatus'[c] = "terminated" <=> instanceOf'[c] = "stopped"
  BY <1>1, <1>2, <1>4, <1>5, TerminateFirstStep
<1> QED  BY <1>3, <1>4, <1>6, SameChildren

LEMMA SpawnInductive == SpawnIInv /\ [SpawnNext]_spawnVars => SpawnIInv'
<1> SUFFICES ASSUME SpawnIInv, [SpawnNext]_spawnVars PROVE SpawnIInv'
  OBVIOUS
<1>0. \A c \in Born : childStatus[c] = "terminated" <=> instanceOf[c] = "stopped"
  BY DEF SpawnIInv, StoppedWithChild
<1>1. ASSUME NEW on \in BOOLEAN, SetMonitoring(on) PROVE SpawnIInv'
  BY <1>0, <1>1, SpawnTypes, SameChildren DEF SetMonitoring
<1>2. ASSUME NEW c \in ChildAgents, TrackEarnings(c) PROVE SpawnIInv'
  <2>1. earning' \in [ChildAgents -> BOOLEAN]  BY <1>2, SpawnTypes DEF TrackEarnings
  <2> QED  BY <1>0, <1>2, <2>1, SpawnTypes, SameChildren DEF TrackEarnings
<1>3. CASE DayPasses
  <2>1. ageDays' \in [ChildAgents -> 0..GraceDays]  BY <1>3, SpawnTypes DEF DayPasses
  <2> QED  BY <1>0, <1>3, <2>1, SpawnTypes, SameChildren DEF DayPasses
<1>4. CASE UNCHANGED spawnVars
  BY <1>0, <1>4, SpawnTypes, SameChildren DEF spawnVars
<1>5. CASE TerminateProgress
  BY <1>5, InstanceStoppedStep, DeathAnnouncedStep DEF TerminateProgress
<1> QED
  BY <1>1, <1>2, <1>3, <1>4, <1>5, SpawnCallStep, InstalledStep, TerminateCallStep, CheckStep
  DEF SpawnNext

LEMMA SpawnInitially == SpawnInit => SpawnIInv
<1> SUFFICES ASSUME SpawnInit PROVE SpawnIInv
  OBVIOUS
<1>1. children \in Seq(ChildAgents) /\ DOMAIN children = {}  BY DEF SpawnInit
<1>2. Born = {}  BY <1>1 DEF Born, Range
<1>3. SpawnTypeOK
  <2>1. 0 \in 0..GraceDays /\ 0 \in 0..MaxNegative /\ 0 \in 0..MaxTerminateCalls  OBVIOUS
  <2> QED  BY <1>1, <1>2, <2>1 DEF SpawnInit, SpawnTypeOK, InstanceStatuses, ChildStatuses
<1>4. BornInstalled  BY <1>2 DEF BornInstalled, SpawnInit
<1>5. StoppedWithChild  BY <1>2 DEF StoppedWithChild
<1> QED  BY <1>1, <1>3, <1>4, <1>5 DEF SpawnIInv

\* The books of the parent keep their shape (lifecycle.ts, provisioner.ts).
THEOREM SpawnTyping == SpawnSpec => []SpawnTypeOK
<1>1. SpawnInit => SpawnIInv  BY SpawnInitially
<1>2. SpawnIInv /\ [SpawnNext]_spawnVars => SpawnIInv'  BY SpawnInductive
<1>3. SpawnIInv => SpawnTypeOK  BY DEF SpawnIInv
<1> QED  BY <1>1, <1>2, <1>3, PTL DEF SpawnSpec

\* A child is recorded as terminated exactly when its instance is stopped, however
\* the calls and the daily checks interleave (terminateChild, checkViability).
THEOREM BooksAgreeWithCloud == SpawnSpec => []StoppedWithChild
<1>1. SpawnInit => SpawnIInv  BY SpawnInitially
<1>2. SpawnIInv /\ [SpawnNext]_spawnVars => SpawnIInv'  BY SpawnInductive
<1>3. SpawnIInv => StoppedWithChild  BY DEF SpawnIInv
<1> QED  BY <1>1, <1>2, <1>3, PTL DEF SpawnSpec

-----------------------------------------------------------------------------
(* The table of known peers.                                               *)

USE DiscoveryAssumption

PeersIInv == DiscoveryTypeOK /\ now \in Nat

\* Entering peers keeps those there are, none of them seen earlier than before.
LEMMA AddedPeers ==
  ASSUME NEW known, NEW ps, \A q \in DOMAIN known : known[q] \in 0..now, now \in Nat
  PROVE  /\ DOMAIN addPeers(known, ps) = DOMAIN known \cup ps
         /\ \A q \in ps : addPeers(known, ps)[q] = now
         /\ \A q \in DOMAIN known \ ps : addPeers(known, ps)[q] = known[q]
         /\ \A q \in DOMAIN known \cup ps : addPeers(known, ps)[q] \in 0..now
         /\ \A q \in DOMAIN known : addPeers(known, ps)[q] >= known[q]
<1>1. /\ DOMAIN addPeers(known, ps) = DOMAIN known \cup ps
      /\ \A q \in DOMAIN known \cup ps :
           addPeers(known, ps)[q] = IF q \in ps THEN now ELSE known[q]
  BY DEF addPeers
<1>2. now \in 0..now /\ \A v \in 0..now : now >= v /\ v >= v  OBVIOUS
<1>3. \A q \in DOMAIN known : q \in ps \/ addPeers(known, ps)[q] = known[q]  BY <1>1
<1>4. \A q \in ps : addPeers(known, ps)[q] = now  BY <1>1
<1>5. \A q \in DOMAIN known : addPeers(known, ps)[q] >= known[q]
  BY <1>2, <1>3, <1>4
<1>6. \A q \in DOMAIN known \cup ps : addPeers(known, ps)[q] \in 0..now
  BY <1>1, <1>2
<1> QED  BY <1>1, <1>3, <1>4, <1>5, <1>6

LEMMA AddedPeer ==
  ASSUME NEW known, NEW p, \A q \in DOMAIN known : known[q] \in 0..now, now \in Nat
  PROVE  /\ DOMAIN addPeer(known, p) = DOMAIN known \cup {p}
         /\ \A q \in DOMAIN known \cup {p} : addPeer(known, p)[q] \in 0..now
         /\ \A q \in DOMAIN known : addPeer(known, p)[q] >= known[q]
<1>1. /\ DOMAIN addPeer(known, p) = DOMAIN known \cup {p}
      /\ \A q \in DOMAIN known \cup {p} :
           addPeer(known, p)[q] = IF q \in {p} THEN now ELSE known[q]
  BY DEF addPeer
<1>2. now \in 0..now /\ \A v \in 0..now : now >= v /\ v >= v  OBVIOUS
<1>3. \A q \in DOMAIN known : q \in {p} \/ addPeer(known, p)[q] = known[q]  BY <1>1
<1>4. \A q \in {p} : addPeer(known, p)[q] = now  BY <1>1
<1>5. \A q \in DOMAIN known : addPeer(known, p)[q] >= known[q]
  BY <1>2, <1>3, <1>4
<1>6. \A q \in DOMAIN known \cup {p} : addPeer(known, p)[q] \in 0..now
  BY <1>1, <1>2
<1> QED  BY <1>1, <1>3, <1>4, <1>5, <1>6

LEMMA EnteredIds ==
  ASSUME NEW l \in BootstrapLists
  PROVE  Entered(l) \cup ExtraPeers \subseteq KnownIds
<1>1. l \in Seq(KnownIds) /\ ExtraPeers \subseteq KnownIds  BY DEF DiscoveryAssumption
<1>2. \A i \in DOMAIN l : l[i] \in KnownIds  BY <1>1, ElementOfSeq, LenProperties
<1> QED  BY <1>1, <1>2 DEF Entered

\* What becomes of a known peer in a step.
KeptOrStale(p) ==
  IF p \in DOMAIN knownPeers'
    THEN knownPeers'[p] >= knownPeers[p]
    ELSE removePeer(p) \/ (p \notin connected /\ now - knownPeers[p] > PeerTtl)

LEMMA DiscoveryInductive ==
  ASSUME PeersIInv, [DiscoveryNext]_<<discoveryVars, now>>
  PROVE  PeersIInv' /\ \A p \in DOMAIN knownPeers : KeptOrStale(p)
<1>1. /\ DOMAIN knownPeers \subseteq KnownIds /\ now \in Nat
      /\ \A p \in DOMAIN knownPeers : knownPeers[p] \in 0..now
      /\ connected \subseteq KnownIds /\ fetching \in 0..MaxBootstraps
      /\ MaxBootstraps \in Nat /\ PeerTtl \in Nat /\ DiscoveryMaxTime \in Nat
  BY DEF PeersIInv, DiscoveryTypeOK, DiscoveryAssumption
<1>2. \A p \in DOMAIN knownPeers : knownPeers[p] >= knownPeers[p]  BY <1>1
<1>3. CASE BootstrapCall /\ UNCHANGED now
  BY <1>1, <1>2, <1>3 DEF BootstrapCall, PeersIInv, DiscoveryTypeOK, KeptOrStale
<1>4. ASSUME NEW l \in BootstrapLists, BootstrapFetched(l), UNCHANGED now
      PROVE  PeersIInv' /\ \A p \in DOMAIN knownPeers : KeptOrStale(p)
  <2> DEFINE ps == Entered(l) \cup ExtraPeers
  <2>1. /\ knownPeers' = addPeers(knownPeers, ps) /\ fetching' = fetching - 1
        /\ fetching > 0 /\ UNCHANGED connected
    BY <1>4 DEF BootstrapFetched
  <2>2. ps \subseteq KnownIds  BY EnteredIds
  <2> HIDE DEF ps
  <2>3. /\ DOMAIN knownPeers' = DOMAIN knownPeers \cup ps
        /\ \A q \in DOMAIN knownPeers' : knownPeers'[q] \in 0..now
        /\ \A q \in DOMAIN knownPeers : knownPeers'[q] >= knownPeers[q]
    BY <1>1, <2>1, AddedPeers
  <2> QED  BY <1>1, <1>4, <2>1, <2>2, <2>3 DEF PeersIInv, DiscoveryTypeOK, KeptOrStale
<1>5. CASE refresh /\ UNCHANGED now
  <2> DEFINE fresh == { p \in DOMAIN Seen : Seen[p] >= now - PeerTtl }
  <2>1. knownPeers' = [p \in fresh |-> Seen[p]] /\ UNCHANGED <<connected, fetching>>
    BY <1>5 DEF refresh
  <2>0. Seen = addPeers(knownPeers, connected)  BY DEF Seen
  <2>2. /\ DOMAIN Seen = DOMAIN knownPeers \cup connected
        /\ \A q \in connected : Seen[q] = now
        /\ \A q \in DOMAIN knownPeers \ connected : Seen[q] = knownPeers[q]
        /\ \A q \in DOMAIN Seen : Seen[q] \in 0..now
        /\ \A q \in DOMAIN knownPeers : Seen[q] >= knownPeers[q]
    <3>1. LET s == addPeers(knownPeers, connected) IN
          /\ DOMAIN s = DOMAIN knownPeers \cup connected
          /\ \A q \in connected : s[q] = now
          /\ \A q \in DOMAIN knownPeers \ connected : s[q] = knownPeers[q]
          /\ \A q \in DOMAIN knownPeers \cup connected : s[q] \in 0..now
          /\ \A q \in DOMAIN knownPeers : s[q] >= knownPeers[q]
      BY <1>1, AddedPeers
    <3> QED  BY <2>0, <3>1
  <2>3. /\ DOMAIN knownPeers' = fresh /\ fresh \subseteq KnownIds
        /\ \A q \in fresh : knownPeers'[q] = Seen[q]
    BY <1>1, <2>1, <2>2
  <2>4. PeersIInv'  BY <1>1, <1>5, <2>1, <2>2, <2>3 DEF PeersIInv, DiscoveryTypeOK
  <2>5. ASSUME NEW p \in DOMAIN knownPeers, p \notin DOMAIN knownPeers'
        PROVE  p \notin connected /\ now - knownPeers[p] > PeerTtl
    <3>1. ~(Seen[p] >= now - PeerTtl)  BY <2>2, <2>3, <2>5
    <3>2. p \notin connected  BY <1>1, <2>2, <3>1
    <3>3. Seen[p] = knownPeers[p] /\ knownPeers[p] \in 0..now  BY <1>1, <2>2, <3>2
    <3> QED  BY <1>1, <3>1, <3>2, <3>3
  <2>6. \A p \in DOMAIN knownPeers : p \in DOMAIN knownPeers' => knownPeers'[p] >= knownPeers[p]
    BY <2>2, <2>3
  <2> QED  BY <2>4, <2>5, <2>6 DEF KeptOrStale
<1>6. ASSUME NEW p \in KnownIds, addManualPeer(p), UNCHANGED now
      PROVE  PeersIInv' /\ \A q \in DOMAIN knownPeers : KeptOrStale(q)
  <2>1. knownPeers' = addPeer(knownPeers, p) /\ UNCHANGED <<connected, fetching>>
    BY <1>6 DEF addManualPeer
  <2>2. /\ DOMAIN knownPeers' = DOMAIN knownPeers \cup {p}
        /\ \A q \in DOMAIN knownPeers' : knownPeers'[q] \in 0..now
        /\ \A q \in DOMAIN knownPeers : knownPeers'[q] >= knownPeers[q]
    BY <1>1, <2>1, AddedPeer
  <2> QED  BY <1>1, <1>6, <2>1, <2>2 DEF PeersIInv, DiscoveryTypeOK, KeptOrStale
<1>7. ASSUME NEW p \in KnownIds, removePeer(p), UNCHANGED now
      PROVE  PeersIInv' /\ \A q \in DOMAIN knownPeers : KeptOrStale(q)
  <2>1. /\ knownPeers' = [q \in DOMAIN knownPeers \ {p} |-> knownPeers[q]]
        /\ UNCHANGED <<connected, fetching>>
    BY <1>7 DEF removePeer
  <2>2. PeersIInv'  BY <1>1, <1>7, <2>1 DEF PeersIInv, DiscoveryTypeOK
  <2>3. \A q \in DOMAIN knownPeers : q # p => KeptOrStale(q)
    BY <1>2, <2>1 DEF KeptOrStale
  <2>4. KeptOrStale(p)  BY <1>7, <2>1 DEF KeptOrStale
  <2> QED  BY <2>2, <2>3, <2>4
<1>8. ASSUME NEW p \in KnownIds, ConnectionChanges(p), UNCHANGED now
      PROVE  PeersIInv' /\ \A q \in DOMAIN knownPeers : KeptOrStale(q)
  BY <1>1, <1>2, <1>8 DEF ConnectionChanges, PeersIInv, DiscoveryTypeOK, KeptOrStale
<1>9. CASE TickUpTo(DiscoveryMaxTime) /\ UNCHANGED discoveryVars
  <2>1. now' = now + 1 /\ UNCHANGED <<knownPeers, connected, fetching>>
    BY <1>9 DEF TickUpTo, discoveryVars
  <2>2. now' \in Nat /\ \A v \in 0..now : v \in 0..now'  BY <1>1, <2>1
  <2>3. PeersIInv'  BY <1>1, <2>1, <2>2 DEF PeersIInv, DiscoveryTypeOK
  <2> QED  BY <1>2, <2>1, <2>3 DEF KeptOrStale
<1>10. CASE UNCHANGED <<discoveryVars, now>>
  BY <1>1, <1>2, <1>10 DEF discoveryVars, PeersIInv, DiscoveryTypeOK, KeptOrStale
<1> QED
  BY <1>3, <1>4, <1>5, <1>6, <1>7, <1>8, <1>9, <1>10 DEF DiscoveryNext, DiscoverySteps

LEMMA DiscoveryInitially == DiscoveryInit => PeersIInv
<1>1. 0 \in 0..MaxBootstraps  BY DEF DiscoveryAssumption
<1> QED  BY <1>1 DEF DiscoveryInit, ClockInit, PeersIInv, DiscoveryTypeOK

\* Only known ids are in the table, seen no later than now (discovery.ts).
THEOREM DiscoveryTyping == DiscoverySpec => []DiscoveryTypeOK
<1>1. DiscoveryInit => PeersIInv  BY DiscoveryInitially
<1>2. PeersIInv /\ [DiscoveryNext]_<<discoveryVars, now>> => PeersIInv'  BY DiscoveryInductive
<1>3. PeersIInv => DiscoveryTypeOK  BY DEF PeersIInv
<1> QED  BY <1>1, <1>2, <1>3, PTL DEF DiscoverySpec

\* Nobody who is there is forgotten, whatever the interleaving of refreshes,
\* bootstraps and connections (refresh, addPeer).
THEOREM NobodyForgotten == DiscoverySpec => OnlyStaleForgotten
<1> DEFINE Kept == \A p \in DOMAIN knownPeers : KeptOrStale(p)
<1>1. DiscoveryInit => PeersIInv  BY DiscoveryInitially
<1>2. PeersIInv /\ [DiscoveryNext]_<<discoveryVars, now>> => PeersIInv' /\ Kept
  BY DiscoveryInductive
<1>3. Kept <=> \A p \in DOMAIN knownPeers :
        IF p \in DOMAIN knownPeers'
          THEN knownPeers'[p] >= knownPeers[p]
          ELSE removePeer(p) \/ (p \notin connected /\ now - knownPeers[p] > PeerTtl)
  BY DEF KeptOrStale
<1> HIDE DEF Kept
<1> QED  BY <1>1, <1>2, <1>3, PTL DEF DiscoverySpec, OnlyStaleForgotten

-----------------------------------------------------------------------------
(* The mirror of the mesh.                                                 *)

USE RelayAssumption

\* notes is what is left of the records at the places P of h, NoteCap of them.
Latest(P, h, notes) ==
  /\ Len(notes) = IF Cardinality(P) > NoteCap THEN NoteCap ELSE Cardinality(P)
  /\ \A i \in P : Cardinality({ j \in P : j >= i }) <= NoteCap =>
       notes[Len(notes) + 1 - Cardinality({ j \in P : j >= i })] = h[i]

HasLast(O) == O = {} \/ \E i \in O : \A j \in O : j <= i

Shown(O, h) == IF O = {} THEN "unknown" ELSE h[CHOOSE i \in O : \A j \in O : j <= i]

\* What the mirror of an agent says.
AgentMirrored(a) ==
  /\ notesOf[a] \in Seq(RelayRecords)
  /\ Latest(PublishedOf(a), heard, notesOf[a])
  /\ noteCount[a] \in {Len(notesOf[a]), Len(notesOf[a]) + 1}
  /\ profileOf[a] = Shown(OnlineOf(a), heard) /\ HasLast(OnlineOf(a))
  /\ UsernameOf[a] \in DOMAIN usernameIndex

RelayIInv ==
  /\ RelayTypeOK
  /\ heard \in Seq(RelayRecords)
  /\ \A i \in 1..Len(heard) : heard[i] \in relayStore \cup relayUnsaved
  /\ \A i, j \in 1..Len(heard) :
       heard[i] = heard[j] /\ heard[i] \notin relayUnsaved => i = j
  /\ Mirrored = { AuthorOf[heard[i]] : i \in 1..Len(heard) }
  /\ \A a \in Mirrored : AgentMirrored(a)
  /\ \A u \in DOMAIN usernameIndex : UsernameOf[usernameIndex[u]] = u

\* Trimming leaves the latest notes.
LEMMA TrimmedNotes ==
  ASSUME NEW s \in Seq(RelayRecords)
  PROVE  /\ Trimmed(s) \in Seq(RelayRecords)
         /\ Len(Trimmed(s)) = IF Len(s) > NoteCap THEN NoteCap ELSE Len(s)
         /\ \A m \in 1..Len(Trimmed(s)) :
              Trimmed(s)[Len(Trimmed(s)) + 1 - m] = s[Len(s) + 1 - m]
<1>1. Len(s) \in Nat /\ NoteCap \in Nat /\ \A i \in 1..Len(s) : s[i] \in RelayRecords
  BY LenProperties, ElementOfSeq DEF RelayAssumption
<1>2. CASE Len(s) > NoteCap
  <2> DEFINE low == Len(s) - NoteCap + 1
  <2>1. low \in 1..(Len(s) + 1) /\ low \in Int /\ Len(s) \in Int /\ Len(s) - low + 1 = NoteCap
    BY <1>1, <1>2
  <2>2. \A i \in low..Len(s) : s[i] \in RelayRecords  BY <1>1, <2>1
  <2>3. /\ SubSeq(s, low, Len(s)) \in Seq(RelayRecords)
        /\ Len(SubSeq(s, low, Len(s))) = IF low <= Len(s) THEN Len(s) - low + 1 ELSE 0
        /\ \A i \in 1..(Len(s) - low + 1) : SubSeq(s, low, Len(s))[i] = s[low + i - 1]
    <3> HIDE DEF low
    <3> QED  BY <2>1, <2>2, SubSeqProperties
  <2>4. Len(SubSeq(s, low, Len(s))) = NoteCap  BY <1>1, <2>1, <2>3
  <2>5. Trimmed(s) = SubSeq(s, low, Len(s))  BY <1>2 DEF Trimmed
  <2>6. ASSUME NEW m \in 1..NoteCap
        PROVE  Trimmed(s)[NoteCap + 1 - m] = s[Len(s) + 1 - m]
    <3>1. NoteCap + 1 - m \in 1..NoteCap /\ low + (NoteCap + 1 - m) - 1 = Len(s) + 1 - m
      BY <1>1
    <3> QED  BY <2>1, <2>3, <2>5, <3>1
  <2> QED  BY <1>2, <2>3, <2>4, <2>5, <2>6
<1>3. CASE ~(Len(s) > NoteCap)
  BY <1>3 DEF Trimmed
<1> QED  BY <1>2, <1>3

\* A published record becomes the last note.
LEMMA NoteAppended ==
  ASSUME NEW n \in Nat, NEW P \in SUBSET (1..n), NEW h, NEW h1,
         \A i \in P : h1[i] = h[i], h1[n + 1] \in RelayRecords,
         NEW old \in Seq(RelayRecords), Latest(P, h, old)
  PROVE  LET notes == Trimmed(Append(old, h1[n + 1])) IN
         /\ notes \in Seq(RelayRecords) /\ Len(notes) <= NoteCap
         /\ Latest(P \cup {n + 1}, h1, notes)
         /\ Len(old) + 1 \in {Len(notes), Len(notes) + 1}
<1> DEFINE r == h1[n + 1]
           s == Append(old, r)
           notes == Trimmed(s)
           P1 == P \cup {n + 1}
           From(Q, i) == { j \in Q : j >= i }
<1>1. /\ s \in Seq(RelayRecords) /\ Len(s) = Len(old) + 1 /\ s[Len(old) + 1] = r
      /\ \A i \in 1..Len(old) : s[i] = old[i]
      /\ Len(old) \in Nat /\ NoteCap \in Nat
  BY AppendProperties, LenProperties DEF RelayAssumption
<1> HIDE DEF s
<1>2. /\ notes \in Seq(RelayRecords)
      /\ Len(notes) = IF Len(s) > NoteCap THEN NoteCap ELSE Len(s)
      /\ \A m \in 1..Len(notes) : notes[Len(notes) + 1 - m] = s[Len(s) + 1 - m]
  BY <1>1, TrimmedNotes
<1> HIDE DEF notes
<1>3. /\ IsFiniteSet(P) /\ Cardinality(P) \in Nat /\ n + 1 \notin P
      /\ Cardinality(P1) = Cardinality(P) + 1 /\ IsFiniteSet(P1)
  <2>1. IsFiniteSet(1..n)  BY FS_Interval
  <2>2. IsFiniteSet(P)  BY <2>1, FS_Subset
  <2>3. n + 1 \notin P  OBVIOUS
  <2> QED  BY <2>2, <2>3, FS_CardinalityType, FS_AddElement
<1>4. /\ Len(old) = IF Cardinality(P) > NoteCap THEN NoteCap ELSE Cardinality(P)
      /\ \A i \in P : Cardinality(From(P, i)) <= NoteCap =>
           old[Len(old) + 1 - Cardinality(From(P, i))] = h[i]
  BY DEF Latest
<1>5. Len(notes) = IF Cardinality(P1) > NoteCap THEN NoteCap ELSE Cardinality(P1)
  BY <1>1, <1>2, <1>3, <1>4
<1>6. ASSUME NEW i \in P
      PROVE  /\ Cardinality(From(P1, i)) = Cardinality(From(P, i)) + 1
             /\ Cardinality(From(P, i)) \in 1..Cardinality(P)
  <2>1. From(P1, i) = From(P, i) \cup {n + 1}  OBVIOUS
  <2>2. IsFiniteSet(From(P, i)) /\ Cardinality(From(P, i)) <= Cardinality(P)
    BY <1>3, FS_Subset
  <2>3. n + 1 \notin From(P, i) /\ i \in From(P, i)  BY <1>3
  <2> HIDE DEF From
  <2>4. Cardinality(From(P, i)) \in Nat /\ Cardinality(From(P, i)) # 0
    BY <2>2, <2>3, FS_CardinalityType, FS_EmptySet
  <2>5. Cardinality(From(P, i) \cup {n + 1}) = Cardinality(From(P, i)) + 1
    BY <2>2, <2>3, FS_AddElement, ZenonT(40)
  <2>6. Cardinality(From(P, i)) \in 1..Cardinality(P)  BY <1>3, <2>2, <2>4
  <2> QED  BY <2>1, <2>5, <2>6
<1>7. Cardinality(From(P1, n + 1)) = 1
  <2>1. \A j \in P : ~(j >= n + 1)  OBVIOUS
  <2>2. n + 1 >= n + 1  OBVIOUS
  <2>3. From(P1, n + 1) = {n + 1}  BY <2>1, <2>2
  <2> QED  BY <2>3, FS_Singleton
<1> HIDE DEF From
<1>8. ASSUME NEW i \in P1, Cardinality(From(P1, i)) <= NoteCap
      PROVE  notes[Len(notes) + 1 - Cardinality(From(P1, i))] = h1[i]
  <2>1. CASE i \in P
    <3> DEFINE m == Cardinality(From(P, i))
    <3>1. Cardinality(From(P1, i)) = m + 1 /\ m \in 1..Cardinality(P)  BY <1>6, <2>1
    <3> HIDE DEF m
    <3>2. m + 1 \in 1..Len(notes) /\ m \in 1..Len(old) /\ m <= NoteCap
      BY <1>1, <1>2, <1>3, <1>4, <1>5, <1>8, <3>1
    <3>3. notes[Len(notes) + 1 - (m + 1)] = s[Len(s) + 1 - (m + 1)]  BY <1>2, <3>2
    <3>4. Len(s) + 1 - (m + 1) = Len(old) + 1 - m /\ Len(old) + 1 - m \in 1..Len(old)
      <4>1. m \in Nat /\ m <= Len(old) /\ m >= 1 /\ Len(s) = Len(old) + 1 /\ Len(old) \in Nat
        BY <1>1, <3>2
      <4> QED  BY <4>1
    <3>5. s[Len(s) + 1 - (m + 1)] = old[Len(old) + 1 - m]  BY <1>1, <3>4
    <3>6. old[Len(old) + 1 - m] = h[i]  BY <1>4, <2>1, <3>2 DEF m
    <3> QED  BY <2>1, <3>1, <3>3, <3>5, <3>6
  <2>2. CASE i = n + 1
    <3>1. 1 \in 1..Len(notes)  BY <1>1, <1>2, <1>7, <1>8, <2>2
    <3>2. notes[Len(notes) + 1 - 1] = s[Len(s) + 1 - 1]  BY <1>2, <3>1
    <3>3. Len(s) + 1 - 1 = Len(old) + 1  BY <1>1
    <3> QED  BY <1>1, <1>7, <2>2, <3>2, <3>3
  <2> QED  BY <2>1, <2>2
<1>9. Latest(P1, h1, notes)  BY <1>5, <1>8 DEF Latest, From
<1>10. Len(notes) <= NoteCap /\ Len(old) + 1 \in {Len(notes), Len(notes) + 1}
  BY <1>1, <1>2, <1>3, <1>4
<1> QED  BY <1>2, <1>9, <1>10 DEF notes, s

\* Nothing changes for places that hold the same records.
LEMMA LatestKept ==
  ASSUME NEW P, NEW h, NEW h1, NEW notes, \A i \in P : h1[i] = h[i], Latest(P, h, notes)
  PROVE  Latest(P, h1, notes)
BY DEF Latest

LEMMA ShownKept ==
  ASSUME NEW O, NEW h, NEW h1, \A i \in O : h1[i] = h[i], HasLast(O)
  PROVE  Shown(O, h1) = Shown(O, h)
<1>1. ASSUME O # {}
      PROVE  (CHOOSE i \in O : \A j \in O : j <= i) \in O
  BY <1>1 DEF HasLast
<1> QED  BY <1>1 DEF Shown

\* The last announcement is shown.
LEMMA Announced ==
  ASSUME NEW n \in Nat, NEW O \in SUBSET (1..n), NEW h
  PROVE  HasLast(O \cup {n + 1}) /\ Shown(O \cup {n + 1}, h) = h[n + 1]
<1> DEFINE O1 == O \cup {n + 1}
<1>1. n + 1 \in O1 /\ \A j \in O1 : j <= n + 1  OBVIOUS
<1>2. \A i \in O1 : (\A j \in O1 : j <= i) => i = n + 1  OBVIOUS
<1> HIDE DEF O1
<1>3. (CHOOSE i \in O1 : \A j \in O1 : j <= i) = n + 1  BY <1>1, <1>2
<1>4. HasLast(O1) /\ Shown(O1, h) = h[n + 1]  BY <1>1, <1>3 DEF HasLast, Shown
<1> QED  BY <1>4 DEF O1

LEMMA RelayShape ==
  ASSUME RelayIInv
  PROVE  /\ relayStore \subseteq RelayRecords /\ relayState \in {"down", "meshed", "offline"}
         /\ Mirrored \subseteq RelayAgents /\ \A a \in Mirrored : lastSeenOf[a] \in Nat
         /\ DOMAIN profileOf = Mirrored /\ DOMAIN notesOf = Mirrored
         /\ DOMAIN noteCount = Mirrored
         /\ \A u \in DOMAIN usernameIndex : usernameIndex[u] \in Mirrored
         /\ \A a \in Mirrored : Len(notesOf[a]) <= NoteCap
         /\ relayStarts \in 0..MaxStarts /\ relayUnsaved \subseteq RelayRecords
         /\ Len(heard) \in Nat /\ DOMAIN heard = 1..Len(heard)
         /\ \A i \in 1..Len(heard) : heard[i] \in RelayRecords
         /\ \A a : PublishedOf(a) \in SUBSET (1..Len(heard))
                   /\ OnlineOf(a) \in SUBSET (1..Len(heard))
<1>1. RelayTypeOK /\ heard \in Seq(RelayRecords)  BY DEF RelayIInv
<1>2. \A u \in DOMAIN usernameIndex : usernameIndex[u] \in Mirrored
  BY <1>1 DEF RelayTypeOK, Range
<1>3. /\ Len(heard) \in Nat /\ DOMAIN heard = 1..Len(heard)
      /\ \A i \in 1..Len(heard) : heard[i] \in RelayRecords
  BY <1>1, LenProperties, ElementOfSeq
<1> QED  BY <1>1, <1>2, <1>3 DEF RelayTypeOK, PublishedOf, OnlineOf

\* The record of an agent reaches the mirror.
LEMMA HearStep ==
  ASSUME RelayIInv, NEW r \in RelayRecords, r \notin relayStore,
         Inserting(r), Mirroring(r), Noting(r),
         heard' = Append(heard, r), UNCHANGED <<relayState, relayStarts>>
  PROVE  RelayIInv'
<1> USE RelayShape
<1> DEFINE n == Len(heard)
           a == AuthorOf[r]
           old == IF a \in Mirrored THEN notesOf[a] ELSE <<>>
           oldCount == IF a \in Mirrored THEN noteCount[a] ELSE 0
<1>1. /\ heard' \in Seq(RelayRecords) /\ Len(heard') = n + 1 /\ n \in Nat
      /\ \A i \in 1..n : heard'[i] = heard[i]
      /\ heard'[n + 1] = r
      /\ DOMAIN heard' = 1..(n + 1) /\ 1..(n + 1) = (1..n) \cup {n + 1}
      /\ n + 1 \notin 1..n
  <2>1. heard \in Seq(RelayRecords)  BY DEF RelayIInv
  <2>2. /\ heard' \in Seq(RelayRecords) /\ Len(heard') = n + 1
        /\ \A i \in 1..n : heard'[i] = heard[i]
        /\ heard'[n + 1] = r
    BY <2>1, AppendProperties
  <2>3. n \in Nat  BY <2>1, LenProperties
  <2>4. 1..(n + 1) = (1..n) \cup {n + 1} /\ n + 1 \notin 1..n
    <3> HIDE DEF n
    <3> QED  BY <2>3
  <2> QED  BY <2>2, <2>3, <2>4, LenProperties
<1> HIDE DEF n
<1>2. /\ a \in RelayAgents /\ StampOf[r] \in Nat
      /\ KindOf[r] \in {"online", "publishable", "other"}
  BY DEF RelayAssumption
<1>3. /\ Mirrored' = Mirrored \cup {a} /\ lastSeenOf' = With(lastSeenOf, a, SeenAfter(r))
      /\ DOMAIN profileOf' = Mirrored' /\ DOMAIN notesOf' = Mirrored'
      /\ DOMAIN noteCount' = Mirrored'
      /\ \A b \in Mirrored \ {a} : profileOf'[b] = profileOf[b] /\ notesOf'[b] = notesOf[b]
                                   /\ noteCount'[b] = noteCount[b]
      /\ profileOf'[a] = IF KindOf[r] = "online" THEN r
                         ELSE IF a \in Mirrored THEN profileOf[a] ELSE "unknown"
      /\ notesOf'[a] = IF BecomesNote(r) THEN Trimmed(Append(old, r)) ELSE old
      /\ noteCount'[a] = IF BecomesNote(r) THEN Len(old) + 1 ELSE oldCount
  <2>1. lastSeenOf' = With(lastSeenOf, a, SeenAfter(r))  BY DEF Mirroring
  <2>2. Mirrored' = Mirrored \cup {a}  BY <2>1 DEF With, Mirrored
  <2>3. profileOf' = IF KindOf[r] = "online" THEN With(profileOf, a, r)
          ELSE IF a \in Mirrored THEN profileOf ELSE With(profileOf, a, "unknown")
    BY DEF Mirroring
  <2>0. DOMAIN profileOf = Mirrored /\ DOMAIN notesOf = Mirrored /\ DOMAIN noteCount = Mirrored
    OBVIOUS
  <2>4. /\ DOMAIN profileOf' = Mirrored'
        /\ \A b \in Mirrored \ {a} : profileOf'[b] = profileOf[b]
        /\ profileOf'[a] = IF KindOf[r] = "online" THEN r
                           ELSE IF a \in Mirrored THEN profileOf[a] ELSE "unknown"
    BY <2>2, <2>3, <2>0 DEF With
  <2>5. /\ notesOf' = With(notesOf, a, IF BecomesNote(r) THEN Trimmed(Append(old, r))
                                       ELSE old)
        /\ noteCount' = With(noteCount, a, IF BecomesNote(r) THEN Len(old) + 1
                                           ELSE oldCount)
    <3>1. CASE BecomesNote(r)  BY <3>1 DEF Noting
    <3>2. CASE ~BecomesNote(r)  BY <3>2 DEF Noting
    <3> QED  BY <3>1, <3>2
  <2> HIDE DEF old, oldCount
  <2>6. /\ DOMAIN notesOf' = Mirrored' /\ DOMAIN noteCount' = Mirrored'
        /\ \A b \in Mirrored \ {a} : notesOf'[b] = notesOf[b] /\ noteCount'[b] = noteCount[b]
        /\ notesOf'[a] = IF BecomesNote(r) THEN Trimmed(Append(old, r)) ELSE old
        /\ noteCount'[a] = IF BecomesNote(r) THEN Len(old) + 1 ELSE oldCount
    BY <2>2, <2>5, <2>0 DEF With
  <2> QED  BY <2>1, <2>2, <2>4, <2>6
<1>4. \A b \in Mirrored' : lastSeenOf'[b] \in Nat
  <2>1. SeenAfter(r) \in Nat  BY <1>2 DEF SeenAfter
  <2>2. /\ lastSeenOf'[a] = SeenAfter(r)
        /\ \A b \in Mirrored \ {a} : lastSeenOf'[b] = lastSeenOf[b]
    BY <1>3 DEF With, Mirrored
  <2> QED  BY <1>3, <2>1, <2>2
\* The places of an agent's records.
<1>5. \A b : /\ PublishedOf(b)' = IF b = a /\ BecomesNote(r)
                                 THEN PublishedOf(b) \cup {n + 1} ELSE PublishedOf(b)
             /\ OnlineOf(b)' = IF b = a /\ KindOf[r] = "online"
                               THEN OnlineOf(b) \cup {n + 1} ELSE OnlineOf(b)
             /\ \A i \in PublishedOf(b) \cup OnlineOf(b) : heard'[i] = heard[i]
  <2> SUFFICES ASSUME NEW b
               PROVE  /\ PublishedOf(b)' = IF b = a /\ BecomesNote(r)
                                 THEN PublishedOf(b) \cup {n + 1} ELSE PublishedOf(b)
                      /\ OnlineOf(b)' = IF b = a /\ KindOf[r] = "online"
                               THEN OnlineOf(b) \cup {n + 1} ELSE OnlineOf(b)
                      /\ \A i \in PublishedOf(b) \cup OnlineOf(b) : heard'[i] = heard[i]
    OBVIOUS
  <2>1. PublishedOf(b)' = IF b = a /\ BecomesNote(r)
                           THEN PublishedOf(b) \cup {n + 1} ELSE PublishedOf(b)
    <3>1. \A x : BecomesNote(x)' <=> BecomesNote(x)  BY DEF BecomesNote
    <3> HIDE DEF BecomesNote
    <3> QED  BY <1>1, <3>1 DEF PublishedOf, n
  <2>2. OnlineOf(b)' = IF b = a /\ KindOf[r] = "online"
                       THEN OnlineOf(b) \cup {n + 1} ELSE OnlineOf(b)
    BY <1>1 DEF OnlineOf, n
  <2>3. \A i \in PublishedOf(b) \cup OnlineOf(b) : heard'[i] = heard[i]
    BY <1>1 DEF n
  <2> QED  BY <2>1, <2>2, <2>3
<1>6. a \notin Mirrored => PublishedOf(a) = {} /\ OnlineOf(a) = {}
  BY DEF RelayIInv, PublishedOf, OnlineOf
\* Before the record, known agent or not.
<1>7. /\ old \in Seq(RelayRecords) /\ Latest(PublishedOf(a), heard, old)
      /\ Len(old) <= NoteCap /\ oldCount \in {Len(old), Len(old) + 1}
  <2>1. CASE a \in Mirrored
    BY <2>1 DEF RelayIInv, AgentMirrored
  <2>2. CASE a \notin Mirrored
    <3>1. PublishedOf(a) = {} /\ old = <<>> /\ oldCount = 0  BY <1>6, <2>2
    <3>2. old \in Seq(RelayRecords) /\ Len(old) = 0 /\ NoteCap \in Nat
      <4>1. <<>> \in Seq(RelayRecords) /\ Len(<<>>) = 0  OBVIOUS
      <4> QED  BY <3>1, <4>1 DEF RelayAssumption
    <3>3. Latest({}, heard, <<>>)
      <4>1. Cardinality({}) = 0  BY FS_EmptySet
      <4> QED  BY <3>1, <3>2, <4>1 DEF Latest
    <3> QED  BY <3>1, <3>2, <3>3
  <2> QED  BY <2>1, <2>2
<1>8. (IF a \in Mirrored THEN profileOf[a] ELSE "unknown") = Shown(OnlineOf(a), heard)
      /\ HasLast(OnlineOf(a))
  <2>1. CASE a \in Mirrored
    BY <2>1 DEF RelayIInv, AgentMirrored
  <2>2. CASE a \notin Mirrored
    BY <1>6, <2>2 DEF Shown, HasLast
  <2> QED  BY <2>1, <2>2
<1> HIDE DEF old, oldCount
<1>9. /\ notesOf'[a] \in Seq(RelayRecords) /\ Len(notesOf'[a]) <= NoteCap
      /\ Latest(PublishedOf(a)', heard', notesOf'[a])
      /\ noteCount'[a] \in {Len(notesOf'[a]), Len(notesOf'[a]) + 1}
  <2>1. CASE ~BecomesNote(r)
    <3>1. PublishedOf(a)' = PublishedOf(a)  BY <1>5, <2>1
    <3>3. \A i \in PublishedOf(a) : heard'[i] = heard[i]  BY <1>5
    <3>2. Latest(PublishedOf(a), heard', old)  BY <1>7, <3>3, LatestKept
    <3> QED  BY <1>3, <1>7, <2>1, <3>1, <3>2
  <2>2. CASE BecomesNote(r)
    <3>1. PublishedOf(a)' = PublishedOf(a) \cup {n + 1}  BY <1>5, <2>2
    <3>2. PublishedOf(a) \in SUBSET (1..n)  BY DEF n
    <3>3. LET notes == Trimmed(Append(old, heard'[n + 1])) IN
          /\ notes \in Seq(RelayRecords) /\ Len(notes) <= NoteCap
          /\ Latest(PublishedOf(a) \cup {n + 1}, heard', notes)
          /\ Len(old) + 1 \in {Len(notes), Len(notes) + 1}
      BY <1>1, <1>5, <1>7, <3>2, NoteAppended, ZenonT(40)
    <3> QED  BY <1>1, <1>3, <2>2, <3>1, <3>3
  <2> QED  BY <2>1, <2>2
<1>10. profileOf'[a] = Shown(OnlineOf(a)', heard') /\ HasLast(OnlineOf(a)')
  <2>1. CASE KindOf[r] = "online"
    <3>1. OnlineOf(a)' = OnlineOf(a) \cup {n + 1} /\ OnlineOf(a) \in SUBSET (1..n)
      BY <1>5, <2>1 DEF n
    <3>2. /\ HasLast(OnlineOf(a) \cup {n + 1})
          /\ Shown(OnlineOf(a) \cup {n + 1}, heard') = heard'[n + 1]
      BY <1>1, <3>1, Announced
    <3> QED  BY <1>1, <1>3, <2>1, <3>1, <3>2
  <2>2. CASE KindOf[r] # "online"
    <3>1. OnlineOf(a)' = OnlineOf(a)  BY <1>5, <2>2
    <3>2. \A i \in OnlineOf(a) : heard'[i] = heard[i]  BY <1>5
    <3>3. Shown(OnlineOf(a), heard') = Shown(OnlineOf(a), heard)  BY <1>8, <3>2, ShownKept
    <3> QED  BY <1>3, <1>8, <2>2, <3>1, <3>3
  <2> QED  BY <2>1, <2>2
\* Names.
<1>11. /\ \A u \in DOMAIN usernameIndex' : /\ UsernameOf[usernameIndex'[u]] = u
                                           /\ usernameIndex'[u] \in Mirrored'
       /\ \A b \in Mirrored' : UsernameOf[b] \in DOMAIN usernameIndex'
  <2>1. /\ \A u \in DOMAIN usernameIndex : UsernameOf[usernameIndex[u]] = u
        /\ \A b \in Mirrored : UsernameOf[b] \in DOMAIN usernameIndex
    BY DEF RelayIInv, AgentMirrored
  <2>2. usernameIndex' = IF a \in Mirrored THEN usernameIndex
                         ELSE With(usernameIndex, UsernameOf[a], a)
    BY DEF Mirroring
  <2>3. CASE a \in Mirrored
    BY <1>3, <2>1, <2>2, <2>3
  <2>4. CASE a \notin Mirrored
    <3>1. usernameIndex' = With(usernameIndex, UsernameOf[a], a)  BY <2>2, <2>4
    <3>2. /\ DOMAIN usernameIndex' = DOMAIN usernameIndex \cup {UsernameOf[a]}
          /\ usernameIndex'[UsernameOf[a]] = a
          /\ \A u \in DOMAIN usernameIndex \ {UsernameOf[a]} :
               usernameIndex'[u] = usernameIndex[u]
      BY <3>1 DEF With
    <3> QED  BY <1>3, <2>1, <3>2
  <2> QED  BY <2>3, <2>4
<1>12. ASSUME NEW b \in Mirrored'
       PROVE  AgentMirrored(b)' /\ Len(notesOf'[b]) <= NoteCap
  <2>1. CASE b = a
    BY <1>9, <1>10, <1>11, <1>12, <2>1 DEF AgentMirrored
  <2>2. CASE b # a
    <3>1. b \in Mirrored /\ AgentMirrored(b)  BY <1>3, <2>2 DEF RelayIInv
    <3>2. /\ PublishedOf(b)' = PublishedOf(b) /\ OnlineOf(b)' = OnlineOf(b)
          /\ \A i \in PublishedOf(b) \cup OnlineOf(b) : heard'[i] = heard[i]
      BY <1>5, <2>2
    <3>3. /\ Latest(PublishedOf(b), heard, notesOf[b]) /\ HasLast(OnlineOf(b))
          /\ profileOf[b] = Shown(OnlineOf(b), heard)
      BY <3>1 DEF AgentMirrored
    <3>4. /\ Latest(PublishedOf(b), heard', notesOf[b])
          /\ Shown(OnlineOf(b), heard') = Shown(OnlineOf(b), heard)
      BY <3>2, <3>3, LatestKept, ShownKept
    <3>5. /\ notesOf'[b] = notesOf[b] /\ noteCount'[b] = noteCount[b]
          /\ profileOf'[b] = profileOf[b]
      BY <1>3, <2>2, <3>1
    <3>6. UsernameOf[b] \in DOMAIN usernameIndex'  BY <1>11, <1>12
    <3> QED  BY <3>1, <3>2, <3>3, <3>4, <3>5, <3>6 DEF AgentMirrored
  <2> QED  BY <2>1, <2>2
<1>13. /\ \A i \in 1..(n + 1) : heard'[i] \in relayStore' \cup relayUnsaved'
       /\ \A i, j \in 1..(n + 1) :
            heard'[i] = heard'[j] /\ heard'[i] \notin relayUnsaved' => i = j
       /\ Mirrored' = { AuthorOf[heard'[i]] : i \in 1..(n + 1) }
  <2>1. /\ \A i \in 1..n : heard[i] \in relayStore \cup relayUnsaved
        /\ \A i, j \in 1..n : heard[i] = heard[j] /\ heard[i] \notin relayUnsaved => i = j
        /\ Mirrored = { AuthorOf[heard[i]] : i \in 1..n }
    BY DEF RelayIInv, n
  <2>2. /\ relayStore \subseteq relayStore' /\ relayUnsaved \subseteq relayUnsaved'
        /\ r \in relayStore' \cup relayUnsaved'
    BY DEF Inserting
  <2>3. \A i \in 1..(n + 1) : heard'[i] \in relayStore' \cup relayUnsaved'
    BY <1>1, <2>1, <2>2
  <2>4. ASSUME NEW i \in 1..n, heard'[i] = r PROVE r \in relayUnsaved'
    <3>1. heard[i] = r  BY <1>1, <2>4
    <3>2. r \in relayStore \cup relayUnsaved  BY <2>1, <3>1
    <3> QED  BY <2>2, <3>2
  <2>5. ASSUME NEW i \in 1..(n + 1), NEW j \in 1..(n + 1),
               heard'[i] = heard'[j], heard'[i] \notin relayUnsaved'
        PROVE  i = j
    BY <1>1, <2>1, <2>2, <2>4, <2>5
  <2>6. Mirrored' = { AuthorOf[heard'[i]] : i \in 1..(n + 1) }
    BY <1>1, <1>3, <2>1, SMTT(30)
  <2> QED  BY <2>3, <2>5, <2>6
<1>14. RelayTypeOK'
  <2>1. Range(usernameIndex') \subseteq Mirrored'  BY <1>11 DEF Range
  <2>2. relayStore' \subseteq RelayRecords /\ relayUnsaved' \subseteq RelayRecords
    BY DEF Inserting
  <2> QED  BY <1>2, <1>3, <1>4, <1>12, <2>1, <2>2 DEF RelayTypeOK
<1> QED  BY <1>1, <1>11, <1>12, <1>13, <1>14 DEF RelayIInv

\* A relay that has just come up has heard nothing and mirrors nobody.
LEMMA EmptyMirrorStep ==
  ASSUME EmptyMirror, relayStore' \subseteq RelayRecords,
         relayState' \in {"down", "meshed", "offline"}, relayStarts' \in 0..MaxStarts
  PROVE  RelayIInv'
<1>1. /\ heard' = <<>> /\ relayUnsaved' = {} /\ DOMAIN lastSeenOf' = {} /\ DOMAIN profileOf' = {}
      /\ DOMAIN usernameIndex' = {} /\ DOMAIN notesOf' = {} /\ DOMAIN noteCount' = {}
  BY DEF EmptyMirror
<1>2. heard' \in Seq(RelayRecords) /\ Len(heard') = 0 /\ 1..Len(heard') = {}  BY <1>1
<1>3. Mirrored' = {} /\ Range(usernameIndex') = {}  BY <1>1 DEF Mirrored, Range
<1>4. RelayTypeOK'  BY <1>1, <1>3 DEF RelayTypeOK
<1> QED  BY <1>1, <1>2, <1>3, <1>4 DEF RelayIInv

\* The mirror does not depend on the store, the state or the counters.
LEMMA RelayRests ==
  ASSUME RelayIInv, relayState' \in {"down", "meshed", "offline"},
         UNCHANGED <<relayStore, lastSeenOf, profileOf, usernameIndex, notesOf, noteCount,
                     relayStarts, heard, relayUnsaved>>
  PROVE  RelayIInv'
<1>1. /\ Mirrored' = Mirrored
      /\ \A a : PublishedOf(a)' = PublishedOf(a) /\ OnlineOf(a)' = OnlineOf(a)
  BY DEF Mirrored, PublishedOf, OnlineOf
<1>2. \A a : AgentMirrored(a)' <=> AgentMirrored(a)  BY <1>1 DEF AgentMirrored
<1>3. RelayTypeOK'  BY <1>1 DEF RelayIInv, RelayTypeOK
<1>4. \A b \in Mirrored' : AgentMirrored(b)'
  BY <1>1, <1>2 DEF RelayIInv
<1>5. Mirrored' = { AuthorOf[heard'[i]] : i \in 1..Len(heard') }
  BY <1>1 DEF RelayIInv
<1>6. /\ heard' \in Seq(RelayRecords)
      /\ \A i \in 1..Len(heard') : heard'[i] \in relayStore' \cup relayUnsaved'
      /\ \A i, j \in 1..Len(heard') :
           heard'[i] = heard'[j] /\ heard'[i] \notin relayUnsaved' => i = j
      /\ \A u \in DOMAIN usernameIndex' : UsernameOf[usernameIndex'[u]] = u
  BY DEF RelayIInv
<1> HIDE DEF RelayIInv
<1> QED  BY <1>3, <1>4, <1>5, <1>6 DEF RelayIInv

LEMMA RelayInductive == RelayIInv /\ [RelayNext]_relayVars => RelayIInv'
<1> SUFFICES ASSUME RelayIInv, [RelayNext]_relayVars PROVE RelayIInv'
  OBVIOUS
<1> USE RelayShape
<1>1. ASSUME NEW meshed \in BOOLEAN, StartRelay(meshed) PROVE RelayIInv'
  <2>1. relayStarts' \in 0..MaxStarts  BY <1>1 DEF StartRelay, RelayAssumption
  <2>2. /\ EmptyMirror /\ relayStore' \subseteq RelayRecords
        /\ relayState' \in {"down", "meshed", "offline"}
    BY <1>1 DEF StartRelay
  <2> QED  BY <2>1, <2>2, EmptyMirrorStep
<1>2. CASE StopRelay
  BY <1>2, RelayRests DEF StopRelay
<1>3. ASSUME NEW r \in RelayRecords, OnRecord(r) PROVE RelayIInv'
  <2>1. CASE r \in relayStore
    BY <1>3, <2>1, RelayRests DEF OnRecord
  <2>2. CASE r \notin relayStore
    <3>1. /\ Inserting(r) /\ Mirroring(r) /\ Noting(r)
          /\ heard' = Append(heard, r) /\ UNCHANGED <<relayState, relayStarts>>
      BY <1>3, <2>2 DEF OnRecord
    <3> QED  BY <2>2, <3>1, HearStep
  <2> QED  BY <2>1, <2>2
<1>4. CASE UNCHANGED relayVars
  BY <1>4, RelayRests DEF relayVars
<1> QED  BY <1>1, <1>2, <1>3, <1>4 DEF RelayNext

LEMMA RelayInitially == RelayInit => RelayIInv
<1> SUFFICES ASSUME RelayInit PROVE RelayIInv
  OBVIOUS
<1>1. /\ heard = <<>> /\ DOMAIN lastSeenOf = {} /\ DOMAIN profileOf = {}
      /\ DOMAIN usernameIndex = {} /\ DOMAIN notesOf = {} /\ DOMAIN noteCount = {}
      /\ relayStore = {} /\ relayState = "down" /\ relayStarts = 0 /\ relayUnsaved = {}
  BY DEF RelayInit
<1>2. heard \in Seq(RelayRecords) /\ Len(heard) = 0 /\ 1..Len(heard) = {}  BY <1>1
<1>3. Mirrored = {} /\ Range(usernameIndex) = {}  BY <1>1 DEF Mirrored, Range
<1>4. 0 \in 0..MaxStarts  BY DEF RelayAssumption
<1>5. RelayTypeOK  BY <1>1, <1>3, <1>4 DEF RelayTypeOK
<1> QED  BY <1>1, <1>2, <1>3, <1>5 DEF RelayIInv

LEMMA RelayMirrors == RelayIInv => MirrorFollowsMesh
<1> SUFFICES ASSUME RelayIInv PROVE MirrorFollowsMesh
  OBVIOUS
<1> USE RelayShape
<1>1. Mirrored = { AuthorOf[r] : r \in Range(heard) }
  <2>1. Range(heard) = { heard[i] : i \in 1..Len(heard) }  BY DEF Range
  <2>2. Mirrored = { AuthorOf[heard[i]] : i \in 1..Len(heard) }  BY DEF RelayIInv
  <2> HIDE RelayShape
  <2> QED  BY <2>1, <2>2
<1>2. \A i, j \in DOMAIN heard :
        heard[i] = heard[j] /\ heard[i] \notin relayUnsaved => i = j
  BY DEF RelayIInv
<1>3. ASSUME NEW a \in Mirrored
      PROVE  /\ Latest(PublishedOf(a), heard, notesOf[a])
             /\ noteCount[a] \in {Len(notesOf[a]), Len(notesOf[a]) + 1}
             /\ profileOf[a] = Shown(OnlineOf(a), heard)
             /\ UsernameOf[usernameIndex[UsernameOf[a]]] = UsernameOf[a]
  BY <1>3 DEF RelayIInv, AgentMirrored
<1> QED  BY <1>1, <1>2, <1>3 DEF MirrorFollowsMesh, Latest, Shown, PublishedFrom

\* The maps of the mirror are about the same agents (agent-mirror.ts).
THEOREM RelayTyping == RelaySpec => []RelayTypeOK
<1>1. RelayInit => RelayIInv  BY RelayInitially
<1>2. RelayIInv /\ [RelayNext]_relayVars => RelayIInv'  BY RelayInductive
<1>3. RelayIInv => RelayTypeOK  BY DEF RelayIInv
<1> QED  BY <1>1, <1>2, <1>3, PTL DEF RelaySpec

\* What the relay serves of an agent is what the mesh said of it since the relay
\* came up: its latest announcement and its latest notes, in the order they came in
\* (agent-mirror.ts).
THEOREM MirrorIsTheMesh == RelaySpec => []MirrorFollowsMesh
<1>1. RelayInit => RelayIInv  BY RelayInitially
<1>2. RelayIInv /\ [RelayNext]_relayVars => RelayIInv'  BY RelayInductive
<1>3. RelayIInv => MirrorFollowsMesh  BY RelayMirrors
<1> QED  BY <1>1, <1>2, <1>3, PTL DEF RelaySpec

-----------------------------------------------------------------------------
(* The shims and their daemons.                                            *)

\* Calls, processes and files keep their shape (pi-shim.ts, rpc.ts).
LEMMA BridgeInductive == BridgeTypeOK /\ [BridgeNext]_bridgeVars => BridgeTypeOK'
<1> SUFFICES ASSUME BridgeTypeOK, [BridgeNext]_bridgeVars PROVE BridgeTypeOK'
  OBVIOUS
<1> USE BridgeAssumption DEF BridgeTypeOK
<1>1. ASSUME NEW s \in Shims, SpawnCall(s) PROVE BridgeTypeOK'
  BY <1>1 DEF SpawnCall
<1>2. ASSUME NEW s \in Shims, Probed(s) PROVE BridgeTypeOK'
  BY <1>2 DEF Probed
<1>3. ASSUME NEW s \in Shims, NEW d \in Daemons, StartProcess(s, d) PROVE BridgeTypeOK'
  BY <1>3 DEF StartProcess
<1>4. ASSUME NEW s \in Shims, WaitForSocket(s) PROVE BridgeTypeOK'
  BY <1>4 DEF WaitForSocket
<1>5. ASSUME NEW s \in Shims, Connected(s) PROVE BridgeTypeOK'
  BY <1>5 DEF Connected
<1>6. ASSUME NEW s \in Shims, Answered(s) PROVE BridgeTypeOK'
  BY <1>6 DEF Answered
<1>7. ASSUME NEW s \in Shims, RpcRejected(s) PROVE BridgeTypeOK'
  BY <1>7 DEF RpcRejected
<1>8. ASSUME NEW s \in Shims, NEW method \in {"status", "shutdown"}, RpcStart(s, method)
      PROVE  BridgeTypeOK'
  BY <1>8 DEF RpcStart
<1>9. ASSUME NEW d \in Daemons, Bind(d) \/ StopServer(d) \/ Exit(d) PROVE BridgeTypeOK'
  BY <1>9 DEF Bind, StopServer, Exit
<1>10. CASE UNCHANGED bridgeVars
  BY <1>10 DEF bridgeVars
<1> QED
  BY <1>1, <1>2, <1>3, <1>4, <1>5, <1>6, <1>7, <1>8, <1>9, <1>10
  DEF BridgeNext, ShimProgress

\* Every call, process and socket file is in a state the shims and the server
\* know (pi-shim.ts, rpc.ts).
THEOREM BridgeTyping == BridgeSpec => []BridgeTypeOK
<1>1. BridgeInit => BridgeTypeOK
  <2>1. 0 \in 0..MaxCalls  BY BridgeAssumption
  <2> QED  BY <2>1 DEF BridgeInit, BridgeTypeOK, NoCall
<1> QED  BY <1>1, BridgeInductive, PTL DEF BridgeSpec

-----------------------------------------------------------------------------
(* Tor.                                                                    *)

LEMMA TorInductive == TorTypeOK /\ [TorNext]_torVars => TorTypeOK'
<1> SUFFICES ASSUME TorTypeOK, [TorNext]_torVars PROVE TorTypeOK'
  OBVIOUS
<1> USE TorAssumption DEF TorTypeOK
<1>1. ASSUME NEW p \in TorRuns, TorStart(p) PROVE TorTypeOK'
  BY <1>1 DEF TorStart
<1>2. ASSUME NEW p \in TorRuns, NEW state \in {"running", "failed"}, TorSpawned(p, state)
      PROVE  TorTypeOK'
  BY <1>2 DEF TorSpawned
<1>3. ASSUME NEW p \in TorRuns, Bootstrapped(p) \/ StartRejected(p) PROVE TorTypeOK'
  BY <1>3 DEF Bootstrapped, StartRejected
<1>4. ASSUME NEW p \in TorRuns, ReadHostname(p) PROVE TorTypeOK'
  <2>1. /\ torStep' \in {torStep, [torStep EXCEPT ![p] = "rejected"],
                         [torStep EXCEPT ![p] = "resolved"]}
        /\ onionSaved' \in BOOLEAN /\ onionAddress' \in BOOLEAN
        /\ UNCHANGED <<torProc, torKilled, torProcess, torStops, hostnameFile>>
    BY <1>4 DEF ReadHostname
  <2>2. torTries' \in [TorRuns -> 0..HostnameTries]
    <3>1. CASE UNCHANGED torTries  BY <3>1
    <3>2. CASE torTries[p] < HostnameTries /\ torTries' = [torTries EXCEPT ![p] = @ + 1]
      <4>1. torTries[p] + 1 \in 0..HostnameTries  BY <3>2
      <4> QED  BY <3>2, <4>1
    <3> QED  BY <1>4, <3>1, <3>2 DEF ReadHostname
  <2> QED  BY <2>1, <2>2
<1>5. ASSUME NEW p \in TorRuns, TorExit(p) PROVE TorTypeOK'
  BY <1>5 DEF TorExit
<1>6. ASSUME NEW p \in TorRuns, StopTimeout(p) PROVE TorTypeOK'
  BY <1>6 DEF StopTimeout
<1>7. CASE WriteHostname \/ TorStop
  BY <1>7 DEF WriteHostname, TorStop
<1>8. CASE UNCHANGED torVars
  BY <1>8 DEF torVars
<1> QED
  BY <1>1, <1>2, <1>3, <1>4, <1>5, <1>6, <1>7, <1>8 DEF TorNext, TorProgress

\* Every start of Tor and every process of it is in a state the manager knows,
\* and it looks for the hostname at most HostnameTries times (tor.ts).
THEOREM TorTyping == TorSpec => []TorTypeOK
<1>1. TorInit => TorTypeOK
  <2>1. 0 \in 0..HostnameTries  BY TorAssumption
  <2> QED  BY <2>1 DEF TorInit, TorTypeOK
<1> QED  BY <1>1, TorInductive, PTL DEF TorSpec

-----------------------------------------------------------------------------
(* All together.                                                           *)

\* Whatever component a behaviour is about, the others keep to their own
\* specification.
LEMMA NetworkSteps ==
  ASSUME [Next]_vars
  PROVE  /\ [LinkNext]_linkVars /\ [DiscoveryNext]_<<discoveryVars, now>>
         /\ [RelayNext]_relayVars /\ [BridgeNext]_bridgeVars
         /\ [TorNext]_torVars /\ [SpawnNext]_spawnVars
<1>1. CASE LinkStep  BY <1>1 DEF LinkStep
<1>2. CASE DiscoveryStep  BY <1>2 DEF DiscoveryStep
<1>3. CASE RelayStep  BY <1>3 DEF RelayStep
<1>4. CASE BridgeStep  BY <1>4 DEF BridgeStep
<1>5. CASE TorStep  BY <1>5 DEF TorStep
<1>6. CASE SpawnStep  BY <1>6 DEF SpawnStep
<1>7. CASE UNCHANGED vars  BY <1>7 DEF vars
<1> QED  BY <1>1, <1>2, <1>3, <1>4, <1>5, <1>6, <1>7 DEF Next

\* In every behaviour of the composed model each component keeps to its own
\* specification, so that what is proved of it alone holds beside the others.
THEOREM NetworkComponents ==
  Spec => /\ LinkSpec /\ DiscoverySpec /\ RelaySpec
          /\ BridgeSpec /\ TorSpec /\ SpawnSpec
<1>1. Init => /\ LinkInit /\ DiscoveryInit /\ RelayInit
              /\ BridgeInit /\ TorInit /\ SpawnInit
  BY DEF Init
<1>2. [Next]_vars => /\ [LinkNext]_linkVars /\ [DiscoveryNext]_<<discoveryVars, now>>
                     /\ [RelayNext]_relayVars /\ [BridgeNext]_bridgeVars
                     /\ [TorNext]_torVars /\ [SpawnNext]_spawnVars
  BY NetworkSteps
<1>3. Spec => Init /\ [][Next]_vars  BY PTL DEF Spec
<1> QED
  BY <1>1, <1>2, <1>3, PTL
  DEF LinkSpec, DiscoverySpec, RelaySpec, BridgeSpec, TorSpec, SpawnSpec

\* The types of all components, in every behaviour of the composed model.
THEOREM NetworkTyping == Spec => []NetworkTypeOK
<1>1. NetworkTypeOK <=> /\ LinkTypeOK /\ DiscoveryTypeOK /\ RelayTypeOK
                        /\ BridgeTypeOK /\ TorTypeOK /\ SpawnTypeOK
  BY DEF NetworkTypeOK
<1> QED
  BY <1>1, NetworkComponents, LinkTyping, DiscoveryTyping, RelayTyping, BridgeTyping,
     TorTyping, SpawnTyping, PTL

\* The properties of the components, in every behaviour of the composed model: open
\* entries of the peer map (node.ts), the mirror (agent-mirror.ts), the books on the
\* children (lifecycle.ts) and the known peers (discovery.ts).
THEOREM NetworkSafety ==
  Spec => /\ [](EntryIsOpen /\ MirrorFollowsMesh /\ StoppedWithChild)
          /\ OnlyStaleForgotten
BY NetworkComponents, EntriesAreOpen, MirrorIsTheMesh, BooksAgreeWithCloud, NobodyForgotten,
   PTL
=============================================================================
