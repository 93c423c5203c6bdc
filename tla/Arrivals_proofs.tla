-------------------------- MODULE Arrivals_proofs --------------------------
(***************************************************************************)
(* What a daemon guarantees about what arrives over the network, for any   *)
(* peers, limits, windows and caps and any sequence of calls: the rate     *)
(* limiter, the flags, the gossip of records, the stream of records and    *)
(* the kill switch.                                                        *)
(***************************************************************************)
EXTENDS RateLimiter, Flagging, Gossip, StreamPipeline, Killswitch,
        SequenceTheorems, FiniteSetTheorems, TLAPS

-----------------------------------------------------------------------------
(* The rate limiter.                                                       *)

USE LimiterAssumption

\* Times in the order in which they were written down, none after t.
Chronicle(h, t) ==
  /\ \A i, j \in 1..Len(h) : i <= j => h[i] <= h[j]
  /\ \A i \in 1..Len(h) : h[i] <= t

\* Any limit + 1 entries of h span more than the window.
SpacedOut(h, limit) ==
  \A i \in 1..Len(h) : i + limit <= Len(h) => h[i + limit] > h[i] + RateWindow

\* The first n entries of h have left the window at t.
Passed(h, n, t) == \A i \in 1..n : h[i] + RateWindow < t

\* FlagAfter entries of r lie within a cooldown.
Grounds(r) ==
  \E i \in 1..Len(r) : /\ i + FlagAfter - 1 <= Len(r)
                       /\ r[i + FlagAfter - 1] <= r[i] + Cooldown

\* What was pruned has left the window, and nobody puts it back.
WindowInv(p, k) ==
  /\ Chronicle(accepted[p][k], now)
  /\ expired[p][k] \in 0..Len(accepted[p][k])
  /\ Passed(accepted[p][k], expired[p][k], now)
  /\ SpacedOut(accepted[p][k], highest[k])

\* The violations that are counted are the last ones, the first of them is where
\* the count began.
FlagInv(p) ==
  /\ Chronicle(refused[p], now)
  /\ violations[p] \in 0..Len(refused[p])
  /\ violations[p] = 0 <=> firstViolationAt[p] = 0
  /\ violations[p] > 0 => refused[p][Len(refused[p]) - violations[p] + 1] = firstViolationAt[p]
  /\ autoFlagged[p] => Grounds(refused[p])

LimitInv(k) == highest[k] >= FallbackLimit /\ highest[k] >= configured[k]

LimiterIInv ==
  /\ LimiterTypeOK /\ now > 0
  /\ \A p \in Senders, k \in MessageTypes : WindowInv(p, k)
  /\ \A p \in Senders : FlagInv(p)
  /\ \A k \in MessageTypes : LimitInv(k)

-----------------------------------------------------------------------------
(* Histories.                                                              *)

\* A history goes on.
LEMMA Extended ==
  ASSUME NEW h \in Seq(Nat), NEW t \in Nat, Chronicle(h, t)
  PROVE  /\ Append(h, t) \in Seq(Nat) /\ Chronicle(Append(h, t), t)
         /\ Len(h) \in Nat /\ DOMAIN h = 1..Len(h)
         /\ Len(Append(h, t)) = Len(h) + 1 /\ DOMAIN Append(h, t) = 1..(Len(h) + 1)
         /\ Append(h, t)[Len(h) + 1] = t
         /\ \A i \in 1..Len(h) : Append(h, t)[i] = h[i]
<1>1. /\ Append(h, t) \in Seq(Nat)
      /\ Len(h) \in Nat /\ DOMAIN h = 1..Len(h)
      /\ Len(Append(h, t)) = Len(h) + 1 /\ DOMAIN Append(h, t) = 1..(Len(h) + 1)
      /\ Append(h, t)[Len(h) + 1] = t
      /\ \A i \in 1..Len(h) : Append(h, t)[i] = h[i]
  OBVIOUS
<1>2. \A i \in 1..(Len(h) + 1) : Append(h, t)[i] <= t
  BY <1>1 DEF Chronicle
<1>3. ASSUME NEW i \in 1..(Len(h) + 1), NEW j \in 1..(Len(h) + 1), i <= j
      PROVE  Append(h, t)[i] <= Append(h, t)[j]
  <2>1. CASE j = Len(h) + 1  BY <1>1, <1>2, <2>1
  <2>2. CASE j # Len(h) + 1
    <3>1. i \in 1..Len(h) /\ j \in 1..Len(h)  BY <1>1, <1>3, <2>2
    <3> QED  BY <1>1, <1>3, <3>1 DEF Chronicle
  <2> QED  BY <2>1, <2>2
<1> QED  BY <1>1, <1>2, <1>3 DEF Chronicle

\* A message that finds room in the window leaves the history spaced.
LEMMA AcceptedIsSpaced ==
  ASSUME NEW h \in Seq(Nat), NEW t \in Nat, Chronicle(h, t),
         NEW limit \in Nat, limit > 0, SpacedOut(h, limit),
         NEW n \in Nat, n <= Len(h), Passed(h, n, t),
         Len(h) - n < limit
  PROVE  SpacedOut(Append(h, t), limit)
<1> DEFINE g == Append(h, t)
<1>1. /\ Len(h) \in Nat /\ DOMAIN h = 1..Len(h)
      /\ Len(g) = Len(h) + 1 /\ DOMAIN g = 1..(Len(h) + 1) /\ g[Len(h) + 1] = t
      /\ \A i \in 1..Len(h) : g[i] = h[i]
  BY Extended
<1> HIDE DEF g
<1> SUFFICES ASSUME NEW i \in 1..(Len(h) + 1), i + limit <= Len(h) + 1
             PROVE  g[i + limit] > g[i] + RateWindow
  BY <1>1 DEF SpacedOut, g
<1>2. i \in 1..Len(h)  BY <1>1
<1>3. CASE i + limit = Len(h) + 1
  <2>1. i \in 1..n  BY <1>1, <1>2, <1>3
  <2>2. h[i] + RateWindow < t /\ h[i] \in Nat  BY <1>2, <2>1, ElementOfSeq DEF Passed
  <2>3. g[i + limit] = t /\ g[i] = h[i]  BY <1>1, <1>2, <1>3
  <2> QED  BY <2>2, <2>3
<1>4. CASE i + limit # Len(h) + 1
  <2>1. i + limit \in 1..Len(h) /\ i + limit <= Len(h)  BY <1>1, <1>2, <1>4
  <2>2. g[i + limit] = h[i + limit] /\ g[i] = h[i]  BY <1>1, <1>2, <2>1
  <2>3. h[i + limit] > h[i] + RateWindow  BY <1>2, <2>1 DEF SpacedOut
  <2> QED  BY <2>2, <2>3
<1> QED  BY <1>3, <1>4

\* A higher limit asks for less.
LEMMA SpacedByMore ==
  ASSUME NEW h \in Seq(Nat), NEW t \in Nat, Chronicle(h, t),
         NEW low \in Nat, NEW high \in Nat, low <= high, SpacedOut(h, low)
  PROVE  SpacedOut(h, high)
<1>1. Len(h) \in Nat /\ DOMAIN h = 1..Len(h) /\ \A i \in 1..Len(h) : h[i] \in Nat
  BY LenProperties, ElementOfSeq
<1> SUFFICES ASSUME NEW i \in 1..Len(h), i + high <= Len(h)
             PROVE  h[i + high] > h[i] + RateWindow
  BY <1>1 DEF SpacedOut
<1>2. /\ i + low \in 1..Len(h) /\ i + high \in 1..Len(h)
      /\ i + low <= Len(h) /\ i + low <= i + high
  BY <1>1
<1>3. h[i + low] > h[i] + RateWindow  BY <1>2 DEF SpacedOut
<1>4. h[i + low] <= h[i + high]  BY <1>1, <1>2 DEF Chronicle
<1> QED  BY <1>1, <1>2, <1>3, <1>4

\* A violation that completes FlagAfter within a cooldown is grounds for a flag.
LEMMA FlagIsGrounded ==
  ASSUME NEW r \in Seq(Nat), NEW t \in Nat, Chronicle(r, t),
         NEW first \in Nat, NEW count \in 1..Len(r),
         r[Len(r) - count + 1] = first,
         r[Len(r)] <= first + Cooldown,
         count >= FlagAfter
  PROVE  Grounds(r)
<1>1. Len(r) \in Nat /\ DOMAIN r = 1..Len(r) /\ \A i \in 1..Len(r) : r[i] \in Nat
  BY LenProperties, ElementOfSeq
<1> DEFINE i == Len(r) - FlagAfter + 1
           j == Len(r) - count + 1
<1>2. i \in 1..Len(r) /\ j \in 1..Len(r) /\ j <= i /\ i + FlagAfter - 1 = Len(r)
  BY <1>1
<1> HIDE DEF i
<1>3. r[j] <= r[i]  BY <1>1, <1>2 DEF Chronicle
<1>4. r[Len(r)] <= r[i] + Cooldown  BY <1>1, <1>2, <1>3, SMTT(30)
<1>5. i + FlagAfter - 1 <= Len(r)  BY <1>1, <1>2
<1>6. r[i + FlagAfter - 1] <= r[i] + Cooldown  BY <1>2, <1>4
<1> QED  BY <1>2, <1>5, <1>6 DEF Grounds

LEMMA GroundsStay ==
  ASSUME NEW r \in Seq(Nat), NEW t \in Nat, Chronicle(r, t), Grounds(r)
  PROVE  Grounds(Append(r, t))
<1>1. /\ Len(r) \in Nat /\ DOMAIN r = 1..Len(r)
      /\ Len(Append(r, t)) = Len(r) + 1 /\ DOMAIN Append(r, t) = 1..(Len(r) + 1)
      /\ \A i \in 1..Len(r) : Append(r, t)[i] = r[i]
  BY Extended
<1>2. PICK i \in 1..Len(r) : /\ i + FlagAfter - 1 <= Len(r)
                             /\ r[i + FlagAfter - 1] <= r[i] + Cooldown
  BY <1>1 DEF Grounds
<1>3. i + FlagAfter - 1 \in 1..Len(r)  BY <1>1, <1>2
<1>4. /\ i \in 1..Len(Append(r, t)) /\ i + FlagAfter - 1 <= Len(Append(r, t))
      /\ Append(r, t)[i + FlagAfter - 1] <= Append(r, t)[i] + Cooldown
  BY <1>1, <1>2, <1>3
<1> QED  BY <1>4 DEF Grounds

-----------------------------------------------------------------------------
(* What a step does to one window and to one peer's violations.            *)

LEMMA Update ==
  ASSUME NEW S, NEW T, NEW V, NEW f \in [S -> [T -> V]],
         NEW p \in S, NEW k \in T, NEW v \in V
  PROVE  /\ [f EXCEPT ![p][k] = v] \in [S -> [T -> V]]
         /\ [f EXCEPT ![p][k] = v][p][k] = v
         /\ \A q \in S, l \in T : q # p \/ l # k => [f EXCEPT ![p][k] = v][q][l] = f[q][l]
OBVIOUS

LEMMA Types ==
  ASSUME LimiterTypeOK, NEW p \in Senders, NEW k \in MessageTypes
  PROVE  /\ now \in Nat
         /\ accepted[p][k] \in Seq(Nat) /\ Len(accepted[p][k]) \in Nat
         /\ expired[p][k] \in Nat /\ highest[k] \in Nat /\ configured[k] \in Nat
<1>1. accepted[p][k] \in Seq(Nat)  BY DEF LimiterTypeOK
<1> QED  BY <1>1, LenProperties DEF LimiterTypeOK

LEMMA ChronicleStays ==
  ASSUME NEW h \in Seq(Nat), NEW t \in Nat, NEW u \in Nat, t <= u, Chronicle(h, t)
  PROVE  Chronicle(h, u)
<1>1. \A i \in 1..Len(h) : h[i] \in Nat  BY ElementOfSeq
<1> QED  BY <1>1 DEF Chronicle

LEMMA PassedStays ==
  ASSUME NEW h \in Seq(Nat), NEW n \in Nat, n <= Len(h),
         NEW t \in Nat, NEW u \in Nat, t <= u, Passed(h, n, t)
  PROVE  Passed(h, n, u)
<1>1. Len(h) \in Nat /\ \A i \in 1..n : h[i] \in Nat  BY LenProperties, ElementOfSeq
<1> QED  BY <1>1 DEF Passed

\* pruneWindow removes what has left the window, and only that.
LEMMA PrunedIsPassed ==
  ASSUME NEW STATE h, h \in Seq(Nat), NEW STATE from, from \in Nat,
         NEW CONSTANT n, now \in Nat, Passed(h, from, now), PrunedTo(h, from, n)
  PROVE  n \in Nat /\ n <= Len(h) /\ from <= n /\ Passed(h, n, now)
<1>1. Len(h) \in Nat /\ \A i \in 1..Len(h) : h[i] \in Nat  BY LenProperties, ElementOfSeq
<1>2. n \in Nat /\ n <= Len(h) /\ from <= n  BY <1>1 DEF PrunedTo
<1>3. ASSUME NEW i \in 1..n PROVE h[i] + RateWindow < now
  <2>1. h[i] \in Nat /\ i \in Nat  BY <1>1, <1>2
  <2>2. CASE i \in 1..from  BY <2>2 DEF Passed
  <2>3. CASE i \in (from + 1)..n
    <3>1. ~(h[i] + RateWindow >= now)  BY <2>3 DEF PrunedTo, Fresh
    <3> QED  BY <2>1, <3>1
  <2> QED  BY <1>2, <2>1, <2>2, <2>3
<1> QED  BY <1>2, <1>3 DEF Passed

\* A window of which nothing, or a pruned part, was removed.
LEMMA WindowKept ==
  ASSUME LimiterTypeOK, NEW p \in Senders, NEW k \in MessageTypes, WindowInv(p, k),
         accepted'[p][k] = accepted[p][k], now' \in Nat, now <= now',
         highest'[k] \in Nat, highest[k] <= highest'[k],
         \/ expired'[p][k] = expired[p][k]
         \/ PrunedTo(accepted[p][k], expired[p][k], expired'[p][k])
  PROVE  WindowInv(p, k)'
<1> DEFINE h == accepted[p][k]
<1>1. /\ h \in Seq(Nat) /\ Len(h) \in Nat /\ expired[p][k] \in Nat /\ now \in Nat
      /\ highest[k] \in Nat
  BY Types
<1>2. /\ Chronicle(h, now) /\ expired[p][k] <= Len(h)
      /\ Passed(h, expired[p][k], now) /\ SpacedOut(h, highest[k])
  BY <1>1 DEF WindowInv
<1> HIDE DEF h
<1>3. Chronicle(h, now') /\ SpacedOut(h, highest'[k])
  BY <1>1, <1>2, ChronicleStays, SpacedByMore
<1>4. /\ expired'[p][k] \in Nat /\ expired'[p][k] <= Len(h)
      /\ Passed(h, expired'[p][k], now')
  <2>1. CASE expired'[p][k] = expired[p][k]
    BY <1>1, <1>2, <2>1, PassedStays
  <2>2. CASE PrunedTo(h, expired[p][k], expired'[p][k])
    <3>1. PICK n : n = expired'[p][k]  OBVIOUS
    <3>2. n \in Nat /\ n <= Len(h) /\ Passed(h, n, now)
      BY <1>1, <1>2, <2>2, <3>1, PrunedIsPassed
    <3> QED  BY <1>1, <3>1, <3>2, PassedStays
  <2> QED  BY <2>1, <2>2 DEF h
<1> QED  BY <1>1, <1>3, <1>4 DEF WindowInv, h

\* A peer whose violations were not touched.
LEMMA FlagKept ==
  ASSUME LimiterTypeOK, NEW p \in Senders, FlagInv(p), now' \in Nat, now <= now',
         refused'[p] = refused[p], violations'[p] = violations[p],
         firstViolationAt'[p] = firstViolationAt[p], autoFlagged'[p] = autoFlagged[p]
  PROVE  FlagInv(p)'
<1>1. refused[p] \in Seq(Nat) /\ now \in Nat  BY DEF LimiterTypeOK
<1>2. Chronicle(refused[p], now')  BY <1>1, ChronicleStays DEF FlagInv
<1> QED  BY <1>2 DEF FlagInv

LEMMA CountBack ==
  ASSUME NEW m \in Nat, NEW v \in 1..m
  PROVE  (m + 1) - (v + 1) + 1 = m - v + 1 /\ m - v + 1 \in 1..m
OBVIOUS

\* A message is refused: the violation is counted, or starts a new count.
LEMMA ViolationStep ==
  ASSUME LimiterIInv, NEW p \in Senders, recordViolation(p), now' = now
  PROVE  /\ \A q \in Senders : FlagInv(q)'
         /\ violations' \in [Senders -> Nat] /\ firstViolationAt' \in [Senders -> Nat]
         /\ autoFlagged' \in [Senders -> BOOLEAN] /\ refused' \in [Senders -> Seq(Nat)]
<1> DEFINE count == IF CooledDown(p) THEN 1 ELSE violations[p] + 1
           first == IF CooledDown(p) \/ firstViolationAt[p] = 0 THEN now
                    ELSE firstViolationAt[p]
           r == refused[p]
<1>1. /\ now \in Nat /\ now > 0
      /\ violations \in [Senders -> Nat] /\ firstViolationAt \in [Senders -> Nat]
      /\ autoFlagged \in [Senders -> BOOLEAN] /\ refused \in [Senders -> Seq(Nat)]
  BY DEF LimiterIInv, LimiterTypeOK
<1>2. /\ violations[p] \in Nat /\ firstViolationAt[p] \in Nat /\ r \in Seq(Nat)
      /\ Len(r) \in Nat
  BY <1>1, LenProperties
<1>3. /\ Chronicle(r, now) /\ violations[p] \in 0..Len(r)
      /\ violations[p] = 0 <=> firstViolationAt[p] = 0
      /\ violations[p] > 0 => r[Len(r) - violations[p] + 1] = firstViolationAt[p]
      /\ autoFlagged[p] => Grounds(r)
  BY DEF LimiterIInv, FlagInv
<1>4. /\ violations' = [violations EXCEPT ![p] = count]
      /\ firstViolationAt' = [firstViolationAt EXCEPT ![p] = first]
      /\ autoFlagged' = [autoFlagged EXCEPT ![p] = autoFlagged[p] \/ count >= FlagAfter]
      /\ refused' = [refused EXCEPT ![p] = Append(r, now)]
  BY DEF recordViolation
<1> DEFINE s == Append(r, now)
<1> HIDE DEF r
<1>5. /\ s \in Seq(Nat) /\ Chronicle(s, now) /\ Len(s) = Len(r) + 1
      /\ s[Len(r) + 1] = now /\ \A i \in 1..Len(r) : s[i] = r[i]
  BY <1>1, <1>2, <1>3, Extended
<1> HIDE DEF s
<1>6. /\ count \in 1..Len(s) /\ first \in Nat /\ first > 0
      /\ s[Len(s) - count + 1] = first /\ now <= first + Cooldown
  <2>1. CASE CooledDown(p) \/ firstViolationAt[p] = 0
    <3>1. count = 1 /\ first = now  BY <1>2, <1>3, <2>1
    <3>2. Len(s) - 1 + 1 = Len(r) + 1  BY <1>2, <1>5
    <3> HIDE DEF count, first
    <3> QED  BY <1>1, <1>2, <1>5, <3>1, <3>2
  <2>2. CASE ~(CooledDown(p) \/ firstViolationAt[p] = 0)
    <3>1. count = violations[p] + 1 /\ first = firstViolationAt[p]  BY <2>2
    <3>2. violations[p] \in 1..Len(r) /\ first > 0 /\ first \in Nat
      BY <1>2, <1>3, <2>2, <3>1
    <3>3. now <= first + Cooldown
      BY <1>1, <1>2, <2>2, <3>1, <3>2 DEF CooledDown
    <3> HIDE DEF count, first
    <3>4. Len(s) - count + 1 = Len(r) - violations[p] + 1
          /\ Len(r) - violations[p] + 1 \in 1..Len(r)
      <4>1. Len(s) = Len(r) + 1 /\ count = violations[p] + 1  BY <1>5, <3>1
      <4>2. Len(r) \in Nat  BY <1>2
      <4>3. violations[p] \in 1..Len(r)  BY <3>2
      <4>4. /\ (Len(r) + 1) - (violations[p] + 1) + 1 = Len(r) - violations[p] + 1
            /\ Len(r) - violations[p] + 1 \in 1..Len(r)
        BY <4>2, <4>3, CountBack
      <4> QED  BY <4>1, <4>4
    <3>5. r[Len(r) - violations[p] + 1] = first  BY <1>3, <3>1, <3>2
    <3>6. s[Len(r) - violations[p] + 1] = first  BY <1>5, <3>4, <3>5
    <3>7. count \in 1..Len(s)  BY <1>2, <1>5, <3>1, <3>2
    <3> QED  BY <3>2, <3>3, <3>4, <3>6, <3>7
  <2> QED  BY <2>1, <2>2
<1> HIDE DEF count, first
<1>7. /\ violations' \in [Senders -> Nat] /\ firstViolationAt' \in [Senders -> Nat]
      /\ autoFlagged' \in [Senders -> BOOLEAN] /\ refused' \in [Senders -> Seq(Nat)]
  BY <1>1, <1>4, <1>5, <1>6 DEF s
<1>8. /\ violations'[p] = count /\ firstViolationAt'[p] = first /\ refused'[p] = s
      /\ autoFlagged'[p] = (autoFlagged[p] \/ count >= FlagAfter)
  BY <1>1, <1>4 DEF s
<1>9. autoFlagged'[p] => Grounds(s)
  <2>1. CASE autoFlagged[p]  BY <1>1, <1>2, <1>3, <2>1, GroundsStay DEF s
  <2>2. CASE count >= FlagAfter
    <3>1. s[Len(s)] <= first + Cooldown  BY <1>5, <1>6
    <3> QED  BY <1>1, <1>5, <1>6, <2>2, <3>1, FlagIsGrounded
  <2> QED  BY <1>8, <2>1, <2>2
<1>10. FlagInv(p)'
  <2>1. violations'[p] \in 0..Len(refused'[p])  BY <1>5, <1>6, <1>8
  <2>2. violations'[p] > 0 /\ violations'[p] # 0 /\ firstViolationAt'[p] # 0
    BY <1>6, <1>8
  <2> QED  BY <1>5, <1>6, <1>8, <1>9, <2>1, <2>2 DEF FlagInv
<1>11. ASSUME NEW q \in Senders, q # p PROVE FlagInv(q)'
  <2>1. /\ refused'[q] = refused[q] /\ violations'[q] = violations[q]
        /\ firstViolationAt'[q] = firstViolationAt[q] /\ autoFlagged'[q] = autoFlagged[q]
    BY <1>1, <1>4, <1>11
  <2> QED  BY <1>1, <2>1, FlagKept DEF LimiterIInv
<1> QED  BY <1>7, <1>10, <1>11

-----------------------------------------------------------------------------
(* The steps.                                                              *)

LEMMA LimiterInitially ==
  ASSUME LimiterInit
  PROVE  LimiterIInv
<1>1. /\ now = 1 /\ tracked = {}
      /\ accepted = [p \in Senders |-> [k \in MessageTypes |-> <<>>]]
      /\ expired = [p \in Senders |-> [k \in MessageTypes |-> 0]]
      /\ violations = [p \in Senders |-> 0] /\ firstViolationAt = [p \in Senders |-> 0]
      /\ autoFlagged = [p \in Senders |-> FALSE] /\ refused = [p \in Senders |-> <<>>]
      /\ configured = [k \in MessageTypes |-> 0]
      /\ highest = [k \in MessageTypes |-> FallbackLimit]
  BY DEF LimiterInit, ClockInit
<1>2. LimiterTypeOK  BY <1>1 DEF LimiterTypeOK
<1>3. \A p \in Senders, k \in MessageTypes : WindowInv(p, k)
  BY <1>1 DEF WindowInv, Chronicle, Passed, SpacedOut
<1>4. \A p \in Senders : FlagInv(p)
  BY <1>1 DEF FlagInv, Chronicle
<1>5. \A k \in MessageTypes : LimitInv(k)
  BY <1>1 DEF LimitInv
<1> QED  BY <1>1, <1>2, <1>3, <1>4, <1>5 DEF LimiterIInv

\* The limit in force is at most the highest there was.
LEMMA LimitBelowHighest ==
  ASSUME LimiterIInv, NEW k \in MessageTypes
  PROVE  /\ highest[k] \in Nat /\ highest[k] > 0
         /\ getLimit(k) <= highest[k] /\ getLimit(k) \in Nat
BY DEF LimiterIInv, LimitInv, LimiterTypeOK, getLimit

LEMMA CheckStep ==
  ASSUME LimiterIInv, NEW p \in Senders, NEW k \in MessageTypes, checkMessage(p, k), now' = now
  PROVE  LimiterIInv'
<1>1. PICK n \in 0..Len(accepted[p][k]) :
        /\ PrunedTo(accepted[p][k], expired[p][k], n)
        /\ tracked' = tracked \cup {p}
        /\ expired' = [expired EXCEPT ![p][k] = n]
        /\ \/ /\ recordViolation(p)
              /\ UNCHANGED accepted
           \/ /\ Len(accepted[p][k]) - n < getLimit(k)
              /\ accepted' = [accepted EXCEPT ![p][k] = Append(accepted[p][k], now)]
              /\ UNCHANGED <<violations, firstViolationAt, autoFlagged, refused>>
        /\ UNCHANGED <<configured, highest>>
  BY DEF checkMessage
<1>2. LimiterTypeOK /\ now > 0 /\ now \in Nat
  BY DEF LimiterIInv, LimiterTypeOK
<1>3. /\ accepted[p][k] \in Seq(Nat) /\ Len(accepted[p][k]) \in Nat /\ n \in Nat
      /\ WindowInv(p, k)
  BY <1>2, Types DEF LimiterIInv
<1>4. /\ expired' \in [Senders -> [MessageTypes -> Nat]] /\ expired'[p][k] = n
      /\ \A q \in Senders, l \in MessageTypes :
           q # p \/ l # k => expired'[q][l] = expired[q][l]
  BY <1>1, <1>2, <1>3, Update DEF LimiterTypeOK
<1>5. CASE recordViolation(p) /\ UNCHANGED accepted
  <2>1. /\ \A q \in Senders : FlagInv(q)'
        /\ violations' \in [Senders -> Nat] /\ firstViolationAt' \in [Senders -> Nat]
        /\ autoFlagged' \in [Senders -> BOOLEAN] /\ refused' \in [Senders -> Seq(Nat)]
    BY <1>5, ViolationStep
  <2>2. \A q \in Senders, l \in MessageTypes : WindowInv(q, l)'
    <3> TAKE q \in Senders, l \in MessageTypes
    <3>1. /\ accepted'[q][l] = accepted[q][l] /\ highest'[l] = highest[l] /\ now' = now
          /\ \/ expired'[q][l] = expired[q][l]
             \/ PrunedTo(accepted[q][l], expired[q][l], expired'[q][l])
      BY <1>1, <1>4, <1>5
    <3>2. highest[l] \in Nat /\ highest[l] <= highest[l] /\ now <= now  BY <1>2, Types
    <3> QED  BY <1>2, <3>1, <3>2, WindowKept DEF LimiterIInv
  <2>3. LimiterTypeOK'  BY <1>1, <1>2, <1>4, <1>5, <2>1 DEF LimiterTypeOK
  <2>4. \A l \in MessageTypes : LimitInv(l)'  BY <1>1 DEF LimiterIInv, LimitInv
  <2> QED  BY <1>2, <2>1, <2>2, <2>3, <2>4 DEF LimiterIInv
<1>6. CASE /\ Len(accepted[p][k]) - n < getLimit(k)
           /\ accepted' = [accepted EXCEPT ![p][k] = Append(accepted[p][k], now)]
           /\ UNCHANGED <<violations, firstViolationAt, autoFlagged, refused>>
  <2> DEFINE g == Append(accepted[p][k], now)
  <2>1. /\ g \in Seq(Nat) /\ Chronicle(g, now) /\ Len(g) = Len(accepted[p][k]) + 1
        /\ \A i \in 1..Len(accepted[p][k]) : g[i] = accepted[p][k][i]
    BY <1>2, <1>3, Extended DEF WindowInv
  <2>2. /\ accepted' \in [Senders -> [MessageTypes -> Seq(Nat)]] /\ accepted'[p][k] = g
        /\ \A q \in Senders, l \in MessageTypes :
             q # p \/ l # k => accepted'[q][l] = accepted[q][l]
    BY <1>2, <1>6, <2>1, Update DEF LimiterTypeOK
  <2>3. n <= Len(accepted[p][k]) /\ Passed(accepted[p][k], n, now)
    <3>1. expired[p][k] \in Nat /\ Passed(accepted[p][k], expired[p][k], now)
      BY <1>2, <1>3, Types DEF WindowInv
    <3> QED  BY <1>1, <1>2, <1>3, <3>1, PrunedIsPassed
  <2>4. SpacedOut(g, highest[k])
    <3>1. /\ highest[k] \in Nat /\ highest[k] > 0 /\ getLimit(k) \in Nat
          /\ getLimit(k) <= highest[k]
      BY LimitBelowHighest
    <3>2. Len(accepted[p][k]) - n < highest[k]  BY <1>3, <1>6, <3>1
    <3>3. Chronicle(accepted[p][k], now) /\ SpacedOut(accepted[p][k], highest[k])
      BY <1>3 DEF WindowInv
    <3> QED  BY <1>2, <1>3, <2>3, <3>1, <3>2, <3>3, AcceptedIsSpaced
  <2>5. Passed(g, n, now)  BY <1>3, <2>1, <2>3 DEF Passed
  <2> HIDE DEF g
  <2>6. WindowInv(p, k)'
    <3>1. n \in 0..Len(g)  BY <1>3, <2>1, <2>3
    <3> QED  BY <1>1, <1>4, <2>1, <2>2, <2>4, <2>5, <3>1 DEF WindowInv
  <2>7. ASSUME NEW q \in Senders, NEW l \in MessageTypes, q # p \/ l # k
        PROVE  WindowInv(q, l)'
    <3>1. /\ accepted'[q][l] = accepted[q][l] /\ highest'[l] = highest[l] /\ now' = now
          /\ expired'[q][l] = expired[q][l]
      BY <1>1, <1>4, <2>2, <2>7
    <3>2. highest[l] \in Nat /\ highest[l] <= highest[l] /\ now <= now  BY <1>2, Types
    <3> QED  BY <1>2, <3>1, <3>2, WindowKept DEF LimiterIInv
  <2>8. LimiterTypeOK'  BY <1>1, <1>2, <1>4, <1>6, <2>2 DEF LimiterTypeOK
  <2>9. \A l \in MessageTypes : LimitInv(l)'  BY <1>1 DEF LimiterIInv, LimitInv
  <2>10. \A q \in Senders : FlagInv(q)'
    <3> TAKE q \in Senders
    <3>1. now <= now  BY <1>2
    <3> QED  BY <1>2, <1>6, <3>1, FlagKept DEF LimiterIInv
  <2> QED  BY <1>2, <2>6, <2>7, <2>8, <2>9, <2>10 DEF LimiterIInv
<1> QED  BY <1>1, <1>5, <1>6

\* The calls that prune or forget, setLimit and the clock: no message is counted.
LEMMA LimiterRestStep ==
  ASSUME LimiterIInv, LimiterTypeOK', now' \in Nat, now <= now',
         \A p \in Senders, k \in MessageTypes :
           \/ /\ accepted'[p][k] = <<>> /\ expired'[p][k] = 0
           \/ /\ accepted'[p][k] = accepted[p][k]
              /\ \/ expired'[p][k] = expired[p][k]
                 \/ PrunedTo(accepted[p][k], expired[p][k], expired'[p][k]),
         \A p \in Senders :
           \/ /\ refused'[p] = <<>> /\ violations'[p] = 0 /\ firstViolationAt'[p] = 0
              /\ ~autoFlagged'[p]
           \/ /\ refused'[p] = refused[p] /\ violations'[p] = violations[p]
              /\ firstViolationAt'[p] = firstViolationAt[p]
              /\ autoFlagged'[p] = autoFlagged[p],
         \A k \in MessageTypes : LimitInv(k)' /\ highest[k] <= highest'[k]
  PROVE  LimiterIInv'
<1>1. LimiterTypeOK /\ now \in Nat /\ now > 0 /\ now' > 0
  BY DEF LimiterIInv, LimiterTypeOK
<1>2. ASSUME NEW p \in Senders, NEW k \in MessageTypes PROVE WindowInv(p, k)'
  <2>1. CASE accepted'[p][k] = <<>> /\ expired'[p][k] = 0
    BY <2>1 DEF WindowInv, Chronicle, Passed, SpacedOut
  <2>2. CASE /\ accepted'[p][k] = accepted[p][k]
             /\ \/ expired'[p][k] = expired[p][k]
                \/ PrunedTo(accepted[p][k], expired[p][k], expired'[p][k])
    <3>1. highest'[k] \in Nat  BY DEF LimiterTypeOK
    <3> QED  BY <1>1, <2>2, <3>1, WindowKept DEF LimiterIInv
  <2> QED  BY <2>1, <2>2
<1>3. ASSUME NEW p \in Senders PROVE FlagInv(p)'
  <2>1. CASE /\ refused'[p] = <<>> /\ violations'[p] = 0 /\ firstViolationAt'[p] = 0
             /\ ~autoFlagged'[p]
    BY <2>1 DEF FlagInv, Chronicle
  <2>2. CASE /\ refused'[p] = refused[p] /\ violations'[p] = violations[p]
             /\ firstViolationAt'[p] = firstViolationAt[p]
             /\ autoFlagged'[p] = autoFlagged[p]
    BY <1>1, <2>2, FlagKept DEF LimiterIInv
  <2> QED  BY <2>1, <2>2
<1> QED  BY <1>1, <1>2, <1>3 DEF LimiterIInv

LEMMA LimiterRests ==
  ASSUME LimiterIInv, now' \in Nat, now' >= now, UNCHANGED limiterVars
  PROVE  LimiterIInv'
<1>1. LimiterTypeOK /\ now \in Nat /\ \A k \in MessageTypes : LimitInv(k)
  BY DEF LimiterIInv, LimiterTypeOK
<1>2. UNCHANGED <<tracked, accepted, expired, violations, firstViolationAt, autoFlagged,
                  refused, configured, highest>>
  BY DEF limiterVars
<1>3. LimiterTypeOK'  BY <1>1, <1>2 DEF LimiterTypeOK
<1>4. \A k \in MessageTypes : LimitInv(k)' /\ highest[k] <= highest'[k]
  BY <1>1, <1>2 DEF LimitInv, LimiterTypeOK
<1>5. now <= now'  BY <1>1
<1> QED  BY <1>2, <1>3, <1>4, <1>5, LimiterRestStep

LEMMA LimiterInductive ==
  ASSUME LimiterIInv, [LimiterNext]_<<limiterVars, now>>
  PROVE  LimiterIInv'
<1>1. /\ now \in Nat /\ now <= now /\ LimiterTypeOK
      /\ \A k \in MessageTypes : /\ LimitInv(k) /\ highest[k] <= highest[k]
                                  /\ highest[k] \in Nat /\ configured[k] \in Nat
  BY DEF LimiterIInv, LimiterTypeOK
<1>2. CASE /\ now' = now
           /\ \E p \in Senders, k \in MessageTypes : checkMessage(p, k)
  BY <1>2, CheckStep
<1>3. CASE now' = now /\ \E p \in Senders : getPeerInfo(p)
  <2>1. PICK p \in Senders : getPeerInfo(p)  BY <1>3
  <2>2. PICK n \in [MessageTypes -> 0..MaxMessages] :
          /\ \A k \in MessageTypes : PrunedTo(accepted[p][k], expired[p][k], n[k])
          /\ expired' = [expired EXCEPT ![p] = n]
    BY <2>1 DEF getPeerInfo
  <2>3. /\ accepted' = accepted /\ refused' = refused /\ violations' = violations
        /\ firstViolationAt' = firstViolationAt /\ autoFlagged' = autoFlagged
        /\ highest' = highest /\ configured' = configured /\ tracked' = tracked
    BY <2>1 DEF getPeerInfo
  <2>4. n \in [MessageTypes -> Nat]  BY <2>2
  <2>5. /\ expired' \in [Senders -> [MessageTypes -> Nat]]
        /\ expired'[p] = n /\ \A q \in Senders \ {p} : expired'[q] = expired[q]
    BY <1>1, <2>2, <2>4 DEF LimiterTypeOK
  <2>6. LimiterTypeOK'  BY <1>1, <1>3, <2>3, <2>5 DEF LimiterTypeOK
  <2>7. \A q \in Senders, k \in MessageTypes :
          \/ expired'[q][k] = expired[q][k]
          \/ PrunedTo(accepted[q][k], expired[q][k], expired'[q][k])
    BY <2>2, <2>5
  <2>8. \A k \in MessageTypes : LimitInv(k)'  BY <1>1, <2>3 DEF LimitInv
  <2> QED  BY <1>1, <1>3, <2>3, <2>6, <2>7, <2>8, LimiterRestStep
<1>4. CASE now' = now /\ \E p \in Senders : resetAutoFlag(p)
  <2>1. PICK p \in Senders : resetAutoFlag(p)  BY <1>4
  <2>2. /\ accepted' = accepted /\ expired' = expired /\ tracked' = tracked
        /\ highest' = highest /\ configured' = configured
        /\ violations' = [violations EXCEPT ![p] = 0]
        /\ firstViolationAt' = [firstViolationAt EXCEPT ![p] = 0]
        /\ autoFlagged' = [autoFlagged EXCEPT ![p] = FALSE]
        /\ refused' = [refused EXCEPT ![p] = <<>>]
    BY <2>1 DEF resetAutoFlag
  <2>3. LimiterTypeOK'  BY <1>1, <1>4, <2>2 DEF LimiterTypeOK
  <2>4. \A q \in Senders :
          \/ /\ refused'[q] = <<>> /\ violations'[q] = 0 /\ firstViolationAt'[q] = 0
             /\ ~autoFlagged'[q]
          \/ /\ refused'[q] = refused[q] /\ violations'[q] = violations[q]
             /\ firstViolationAt'[q] = firstViolationAt[q] /\ autoFlagged'[q] = autoFlagged[q]
    BY <1>1, <2>2 DEF LimiterTypeOK
  <2>5. \A k \in MessageTypes : LimitInv(k)'  BY <1>1, <2>2 DEF LimitInv
  <2> QED  BY <1>1, <1>4, <2>2, <2>3, <2>4, <2>5, LimiterRestStep
<1>5. CASE now' = now /\ \E p \in Senders : removePeer(p)
  <2>1. PICK p \in Senders : removePeer(p)  BY <1>5
  <2>2. /\ tracked' = tracked \ {p} /\ highest' = highest /\ configured' = configured
        /\ accepted' = [accepted EXCEPT ![p] = [k \in MessageTypes |-> <<>>]]
        /\ expired' = [expired EXCEPT ![p] = [k \in MessageTypes |-> 0]]
        /\ violations' = [violations EXCEPT ![p] = 0]
        /\ firstViolationAt' = [firstViolationAt EXCEPT ![p] = 0]
        /\ autoFlagged' = [autoFlagged EXCEPT ![p] = FALSE]
        /\ refused' = [refused EXCEPT ![p] = <<>>]
    BY <2>1 DEF removePeer
  <2>3. LimiterTypeOK'  BY <1>1, <1>5, <2>2 DEF LimiterTypeOK
  <2>4. \A q \in Senders :
          \/ /\ refused'[q] = <<>> /\ violations'[q] = 0 /\ firstViolationAt'[q] = 0
             /\ ~autoFlagged'[q]
          \/ /\ refused'[q] = refused[q] /\ violations'[q] = violations[q]
             /\ firstViolationAt'[q] = firstViolationAt[q] /\ autoFlagged'[q] = autoFlagged[q]
    BY <1>1, <2>2 DEF LimiterTypeOK
  <2>5. \A q \in Senders, k \in MessageTypes :
          \/ accepted'[q][k] = <<>> /\ expired'[q][k] = 0
          \/ accepted'[q][k] = accepted[q][k] /\ expired'[q][k] = expired[q][k]
    BY <1>1, <2>2 DEF LimiterTypeOK
  <2>6. \A k \in MessageTypes : LimitInv(k)'  BY <1>1, <2>2 DEF LimitInv
  <2> QED  BY <1>1, <1>5, <2>2, <2>3, <2>4, <2>5, <2>6, LimiterRestStep
<1>6. CASE now' = now /\ \E k \in MessageTypes, limit \in Limits : setLimit(k, limit)
  <2>1. PICK k \in MessageTypes, limit \in Limits : setLimit(k, limit)  BY <1>6
  <2> DEFINE top == IF limit > highest[k] THEN limit ELSE highest[k]
  <2>2. /\ accepted' = accepted /\ expired' = expired /\ tracked' = tracked
        /\ refused' = refused /\ violations' = violations
        /\ firstViolationAt' = firstViolationAt /\ autoFlagged' = autoFlagged
        /\ configured' = [configured EXCEPT ![k] = limit]
        /\ highest' = [highest EXCEPT ![k] = top]
    BY <2>1 DEF setLimit
  <2>3. limit \in Nat /\ top \in Nat /\ top >= limit /\ top >= highest[k]
    <3>1. limit \in Nat /\ highest[k] \in Nat  BY <1>1
    <3> QED  BY <3>1
  <2> HIDE DEF top
  <2>4. LimiterTypeOK'  BY <1>1, <1>6, <2>2, <2>3 DEF LimiterTypeOK
  <2>5. \A l \in MessageTypes : LimitInv(l)' /\ highest[l] <= highest'[l]
    <3> TAKE l \in MessageTypes
    <3>1. CASE l = k
      <4>1. highest'[l] = top /\ configured'[l] = limit
        BY <1>1, <2>2, <3>1 DEF LimiterTypeOK
      <4>2. top >= FallbackLimit  BY <1>1, <2>3 DEF LimitInv
      <4> QED  BY <1>1, <2>3, <3>1, <4>1, <4>2 DEF LimitInv
    <3>2. CASE l # k
      <4>1. highest'[l] = highest[l] /\ configured'[l] = configured[l]
        BY <1>1, <2>2, <3>2 DEF LimiterTypeOK
      <4> QED  BY <1>1, <4>1 DEF LimitInv
    <3> QED  BY <3>1, <3>2
  <2> QED  BY <1>1, <1>6, <2>2, <2>4, <2>5, LimiterRestStep
<1>7. CASE now' = now /\ pruneAll
  <2>1. PICK n \in [Senders -> [MessageTypes -> 0..MaxMessages]] :
          /\ \A p \in Senders, k \in MessageTypes :
               PrunedTo(accepted[p][k], expired[p][k], n[p][k])
          /\ expired' = n
          /\ tracked' = { p \in tracked : ~Idle(p, n) }
          /\ UNCHANGED <<accepted, violations, firstViolationAt, autoFlagged, refused,
                         configured, highest>>
    BY <1>7 DEF pruneAll
  <2>2. expired' \in [Senders -> [MessageTypes -> Nat]]  BY <2>1
  <2>3. tracked' \subseteq Senders  BY <1>1, <2>1 DEF LimiterTypeOK
  <2>4. LimiterTypeOK'  BY <1>1, <1>7, <2>1, <2>2, <2>3 DEF LimiterTypeOK
  <2>5. \A k \in MessageTypes : LimitInv(k)'  BY <1>1, <2>1 DEF LimitInv
  <2> QED  BY <1>1, <1>7, <2>1, <2>4, <2>5, LimiterRestStep
<1>8. CASE TickUpTo(LimiterMaxTime) /\ UNCHANGED limiterVars
  <2>1. now' \in Nat /\ now' >= now  BY <1>1, <1>8 DEF TickUpTo
  <2> QED  BY <1>8, <2>1, LimiterRests
<1>9. CASE UNCHANGED <<limiterVars, now>>
  <2>1. now' \in Nat /\ now' >= now  BY <1>1, <1>9
  <2> QED  BY <1>9, <2>1, LimiterRests
<1> QED  BY <1>2, <1>3, <1>4, <1>5, <1>6, <1>7, <1>8, <1>9 DEF LimiterNext, LimiterCalls

-----------------------------------------------------------------------------
(* The theorems.                                                           *)

LEMMA LimiterInvImplies ==
  ASSUME LimiterIInv
  PROVE  LimiterTypeOK /\ WindowHoldsLimit /\ FlagHasGrounds
<1>1. WindowHoldsLimit
  <2> SUFFICES ASSUME NEW p \in Senders, NEW k \in MessageTypes,
                      NEW i \in DOMAIN accepted[p][k],
                      i + highest[k] <= Len(accepted[p][k])
               PROVE  accepted[p][k][i + highest[k]] > accepted[p][k][i] + RateWindow
    BY DEF WindowHoldsLimit
  <2>1. LimiterTypeOK /\ SpacedOut(accepted[p][k], highest[k])  BY DEF LimiterIInv, WindowInv
  <2>2. DOMAIN accepted[p][k] = 1..Len(accepted[p][k])  BY <2>1, Types, LenProperties
  <2> QED  BY <2>1, <2>2 DEF SpacedOut
<1>2. FlagHasGrounds
  <2> SUFFICES ASSUME NEW p \in Senders, autoFlagged[p]
               PROVE  \E i \in DOMAIN refused[p] :
                        /\ i + FlagAfter - 1 <= Len(refused[p])
                        /\ refused[p][i + FlagAfter - 1] <= refused[p][i] + Cooldown
    BY DEF FlagHasGrounds
  <2>1. Grounds(refused[p]) /\ refused[p] \in Seq(Nat)
    BY DEF LimiterIInv, FlagInv, LimiterTypeOK
  <2>2. DOMAIN refused[p] = 1..Len(refused[p])  BY <2>1, LenProperties
  <2> QED  BY <2>1, <2>2 DEF Grounds
<1> QED  BY <1>1, <1>2 DEF LimiterIInv

\* The invariant holds in every behaviour.
THEOREM LimiterInvariant == LimiterSpec => []LimiterIInv
<1>1. LimiterInit => LimiterIInv  BY LimiterInitially
<1>2. LimiterIInv /\ [LimiterNext]_<<limiterVars, now>> => LimiterIInv'  BY LimiterInductive
<1> QED  BY <1>1, <1>2, PTL DEF LimiterSpec

\* However the limits, the prunings and the clock fall, no stretch of a window's
\* length holds more messages of a peer and type than were allowed (checkMessage,
\* pruneWindow).
THEOREM LimitIsKept == LimiterSpec => []WindowHoldsLimit
<1>1. LimiterIInv => WindowHoldsLimit  BY LimiterInvImplies
<1> QED  BY <1>1, LimiterInvariant, PTL

\* A flagged peer had FlagAfter messages refused within one cooldown
\* (recordViolation).
THEOREM FlagIsEarned == LimiterSpec => []FlagHasGrounds
<1>1. LimiterIInv => FlagHasGrounds  BY LimiterInvImplies
<1> QED  BY <1>1, LimiterInvariant, PTL

HIDE LimiterAssumption

-----------------------------------------------------------------------------
(* Flags.                                                                  *)

\* Two windows of a flagger: flags before the current window were accepted before
\* its start s, and those with a window's worth of others after them before the
\* start of the window before it, more than FlagWindow earlier.
Windowed(times, c, s) ==
  /\ c <= Len(times) /\ (s = 0 => Len(times) = 0)
  /\ \A i \in 1..Len(times) : times[i] <= now
  /\ \A i \in 1..Len(times) : i + c <= Len(times) => times[i] <= s
  /\ \A i \in 1..Len(times) : i + c + MaxFlagsPerHour <= Len(times) => times[i] + FlagWindow < s

\* Two windows hold no more than twice the limit.
Spaced(times) ==
  \A i \in 1..Len(times) :
    i + 2 * MaxFlagsPerHour <= Len(times) =>
      times[i + 2 * MaxFlagsPerHour] > times[i] + FlagWindow

FlaggingIInv ==
  /\ now \in Nat \ {0}
  /\ FlaggingTypeOK
  /\ \A f \in Flaggers :
       /\ Windowed(flaggedAt[f], flagsInWindow[f], windowStart[f])
       /\ Spaced(flaggedAt[f])
       /\ f \notin blocked => abuseWarnings[f] < BlockAt
  /\ \A t \in FlagTargets :
       \A i, j \in 1..Len(flagsByTarget[t]) : flagsByTarget[t][i] = flagsByTarget[t][j] => i = j

\* The step of HidesOnlyBacked.
Backed ==
  \A u \in hiddenTargets' \ hiddenTargets :
    Cardinality({ a \in reputable : Contains(flagsByTarget'[u], a) }) >= HideAt

\* A window that is reset keeps the books.
LEMMA WindowReset ==
  ASSUME now \in Nat \ {0}, NEW times \in Seq(Nat), NEW c \in 0..MaxFlagsPerHour,
         NEW s \in 0..now,
         Windowed(times, c, s), s = 0 \/ now - s > FlagWindow
  PROVE  Windowed(times, 0, now)
<1> USE FlaggingAssumption
<1>1. Len(times) \in Nat /\ \A i \in 1..Len(times) : times[i] \in Nat
  BY LenProperties, ElementOfSeq
<1>2. ASSUME NEW i \in 1..Len(times), i + MaxFlagsPerHour <= Len(times)
      PROVE  times[i] + FlagWindow < now
  <2>1. i + c <= Len(times)  BY <1>1, <1>2
  <2>2. times[i] <= s /\ s # 0  BY <1>1, <2>1 DEF Windowed
  <2> QED  BY <1>1, <2>2
<1>3. \A i \in 1..Len(times) : i + 0 + MaxFlagsPerHour <= Len(times) => times[i] + FlagWindow < now
  BY <1>1, <1>2
<1> QED  BY <1>1, <1>3 DEF Windowed

\* So does a flag accepted in a window that is not full, and it keeps the spacing.
LEMMA FlagAccepted ==
  ASSUME now \in Nat \ {0}, NEW times \in Seq(Nat), NEW c \in 0..MaxFlagsPerHour,
         NEW s \in 0..now,
         Windowed(times, c, s), Spaced(times), s # 0, c < MaxFlagsPerHour
  PROVE  /\ Append(times, now) \in Seq(Nat)
         /\ Windowed(Append(times, now), c + 1, s)
         /\ Spaced(Append(times, now))
<1> USE FlaggingAssumption
<1> DEFINE more == Append(times, now)
           n == Len(times)
<1>1. n \in Nat /\ \A i \in 1..n : times[i] \in Nat
  BY LenProperties, ElementOfSeq
<1>2. /\ more \in Seq(Nat) /\ Len(more) = n + 1 /\ more[n + 1] = now
      /\ \A i \in 1..n : more[i] = times[i]
  BY AppendProperties
<1>3. /\ c <= n
      /\ \A i \in 1..n : times[i] <= now
      /\ \A i \in 1..n : i + c <= n => times[i] <= s
      /\ \A i \in 1..n : i + c + MaxFlagsPerHour <= n => times[i] + FlagWindow < s
      /\ \A i \in 1..n : i + 2 * MaxFlagsPerHour <= n =>
           times[i + 2 * MaxFlagsPerHour] > times[i] + FlagWindow
  BY DEF Windowed, Spaced
<1> HIDE DEF more, n
<1>4. Windowed(more, c + 1, s)
  <2>1. \A i \in 1..(n + 1) : more[i] <= now
    BY <1>1, <1>2, <1>3
  <2>2. \A i \in 1..(n + 1) : i + (c + 1) <= n + 1 => i \in 1..n /\ i + c <= n
    BY <1>1
  <2>3. \A i \in 1..(n + 1) : i + (c + 1) <= n + 1 => more[i] <= s
    BY <1>2, <1>3, <2>2
  <2>4. \A i \in 1..(n + 1) : i + (c + 1) + MaxFlagsPerHour <= n + 1 =>
          i \in 1..n /\ i + c + MaxFlagsPerHour <= n
    BY <1>1
  <2>5. \A i \in 1..(n + 1) : i + (c + 1) + MaxFlagsPerHour <= n + 1 => more[i] + FlagWindow < s
    BY <1>2, <1>3, <2>4
  <2> QED  BY <1>1, <1>2, <1>3, <2>1, <2>3, <2>5 DEF Windowed
<1>5. Spaced(more)
  <2> SUFFICES ASSUME NEW i \in 1..(n + 1), i + 2 * MaxFlagsPerHour <= n + 1
               PROVE  more[i + 2 * MaxFlagsPerHour] > more[i] + FlagWindow
    BY <1>2 DEF Spaced
  <2> DEFINE k == i + 2 * MaxFlagsPerHour
  <2>1. i \in 1..n /\ k \in 1..(n + 1)  BY <1>1
  <2>2. CASE k <= n
    <3>1. k \in 1..n  BY <1>1, <2>1, <2>2
    <3>2. more[k] = times[k] /\ more[i] = times[i]  BY <1>2, <2>1, <3>1
    <3> QED  BY <1>3, <2>1, <2>2, <3>2
  <2>3. CASE k = n + 1
    <3>1. i + c + MaxFlagsPerHour <= n  BY <1>1, <2>1, <2>3
    <3>2. times[i] + FlagWindow < s /\ times[i] \in Nat  BY <1>1, <1>3, <2>1, <3>1
    <3>3. more[k] = now /\ more[i] = times[i]  BY <1>2, <2>1, <2>3
    <3> HIDE DEF k
    <3>4. more[k] > more[i] + FlagWindow  BY <3>2, <3>3
    <3> QED  BY <3>4 DEF k
  <2> QED  BY <1>1, <2>1, <2>2, <2>3
<1> QED  BY <1>2, <1>4, <1>5 DEF more

\* The window that a flag finds or resets.
LEMMA WindowFound ==
  ASSUME FlaggingIInv, NEW f \in Flaggers
  PROVE  LET w == WindowFor(f) IN
         /\ w.start \in 1..now /\ w.count \in 0..MaxFlagsPerHour
         /\ Windowed(flaggedAt[f], w.count, w.start)
<1> USE FlaggingAssumption
<1>1. /\ flaggedAt[f] \in Seq(Nat) /\ flagsInWindow[f] \in 0..MaxFlagsPerHour
      /\ windowStart[f] \in 0..now /\ now \in Nat \ {0}
      /\ Windowed(flaggedAt[f], flagsInWindow[f], windowStart[f])
  BY DEF FlaggingIInv, FlaggingTypeOK
<1>2. CASE windowStart[f] = 0 \/ now - windowStart[f] > FlagWindow
  <2>1. WindowFor(f) = [start |-> now, count |-> 0]  BY <1>2 DEF WindowFor
  <2>2. Windowed(flaggedAt[f], 0, now)  BY <1>1, <1>2, WindowReset
  <2>3. now \in 1..now /\ 0 \in 0..MaxFlagsPerHour  BY <1>1
  <2> QED  BY <2>1, <2>2, <2>3
<1>3. CASE ~(windowStart[f] = 0 \/ now - windowStart[f] > FlagWindow)
  <2>1. WindowFor(f) = [start |-> windowStart[f], count |-> flagsInWindow[f]]
    BY <1>3 DEF WindowFor
  <2>2. windowStart[f] \in 1..now  BY <1>1, <1>3
  <2> QED  BY <1>1, <2>1, <2>2
<1> QED  BY <1>2, <1>3

\* As many different agents stand behind a target as places in its list.
LEMMA FlaggersCounted ==
  ASSUME NEW flags \in Seq(Flaggers), NEW R,
         \A i, j \in 1..Len(flags) : flags[i] = flags[j] => i = j
  PROVE  Cardinality({ f \in R : Contains(flags, f) }) =
           Cardinality({ i \in DOMAIN flags : flags[i] \in R })
<1> DEFINE places == { i \in DOMAIN flags : flags[i] \in R }
           agents == { f \in R : Contains(flags, f) }
           g == [i \in places |-> flags[i]]
<1>1. DOMAIN flags = 1..Len(flags) /\ Len(flags) \in Nat  BY LenProperties
<1>2. IsFiniteSet(places)
  <2>1. IsFiniteSet(1..Len(flags))  BY <1>1, FS_Interval
  <2> QED  BY <1>1, <2>1, FS_Subset
<1>3. g \in [places -> agents]  BY <1>1 DEF Contains
<1>4. \A i, j \in places : g[i] = g[j] => i = j  BY <1>1
<1>5. \A f \in agents : \E i \in places : g[i] = f  BY <1>1 DEF Contains
<1> HIDE DEF places, agents, g
<1>6. g \in Bijection(places, agents)
  BY <1>3, <1>4, <1>5 DEF Bijection, Injection, Surjection, IsInjective
<1>7. ExistsBijection(places, agents)  BY <1>6 DEF ExistsBijection
<1> QED  BY <1>2, <1>7, FS_Bijection DEF places, agents

\* A flag keeps the books of its flagger, and those of the target.
LEMMA FlagProcessed ==
  ASSUME FlaggingIInv, NEW f \in Flaggers, NEW t \in FlagTargets, processFlag(f, t),
         UNCHANGED now
  PROVE  /\ FlaggingIInv'
         /\ \A u \in hiddenTargets' \ hiddenTargets :
              Cardinality({ a \in reputable : Contains(flagsByTarget'[u], a) }) >= HideAt
<1> USE FlaggingAssumption
<1> DEFINE w == WindowFor(f)
           over == w.count >= MaxFlagsPerHour
           accepts == ~over /\ ~AlreadyFlagged(f, t)
<1>1. /\ w.start \in 1..now /\ w.count \in 0..MaxFlagsPerHour
      /\ Windowed(flaggedAt[f], w.count, w.start)
  BY WindowFound
<1>2. /\ f \notin blocked /\ UNCHANGED reputable
      /\ windowStart' = [windowStart EXCEPT ![f] = w.start]
      /\ flagsInWindow' = [flagsInWindow EXCEPT ![f] = w.count + (IF accepts THEN 1 ELSE 0)]
      /\ \/ over /\ RefuseOverLimit(f)
         \/ accepts /\ AcceptFlag(f, t)
         \/ /\ ~over /\ ~accepts
            /\ UNCHANGED <<flagsByTarget, hiddenTargets, abuseWarnings, blocked, flaggedAt>>
  BY DEF processFlag
<1>3. /\ FlaggingTypeOK /\ now \in Nat \ {0}
      /\ flaggedAt[f] \in Seq(Nat) /\ abuseWarnings[f] < BlockAt
      /\ abuseWarnings[f] \in 0..BlockAt
      /\ flagsByTarget[t] \in Seq(Flaggers)
  BY <1>2 DEF FlaggingIInv, FlaggingTypeOK
<1>4. \A g \in Flaggers :
        /\ Windowed(flaggedAt[g], flagsInWindow[g], windowStart[g]) /\ Spaced(flaggedAt[g])
        /\ g \notin blocked => abuseWarnings[g] < BlockAt
  BY DEF FlaggingIInv
<1>5. \A u \in FlagTargets : \A i, j \in 1..Len(flagsByTarget[u]) :
        flagsByTarget[u][i] = flagsByTarget[u][j] => i = j
  BY DEF FlaggingIInv
<1> HIDE DEF w
<1>6. ASSUME NEW times \in Seq(Nat), flaggedAt' = [flaggedAt EXCEPT ![f] = times],
             NEW c \in 0..MaxFlagsPerHour, flagsInWindow' = [flagsInWindow EXCEPT ![f] = c],
             Windowed(times, c, w.start), Spaced(times)
      PROVE  /\ flaggedAt' \in [Flaggers -> Seq(Nat)]
             /\ flagsInWindow' \in [Flaggers -> 0..MaxFlagsPerHour]
             /\ windowStart' \in [Flaggers -> 0..now]
             /\ \A g \in Flaggers : Windowed(flaggedAt'[g], flagsInWindow'[g], windowStart'[g])
             /\ \A g \in Flaggers : Spaced(flaggedAt'[g])
  <2>1. /\ flaggedAt' \in [Flaggers -> Seq(Nat)]
        /\ flagsInWindow' \in [Flaggers -> 0..MaxFlagsPerHour]
    BY <1>3, <1>6 DEF FlaggingTypeOK
  <2>2. w.start \in 0..now  BY <1>1
  <2>3. windowStart' \in [Flaggers -> 0..now]  BY <1>2, <1>3, <2>2 DEF FlaggingTypeOK
  <2>4. /\ flaggedAt'[f] = times /\ flagsInWindow'[f] = c /\ windowStart'[f] = w.start
        /\ \A g \in Flaggers \ {f} : /\ flaggedAt'[g] = flaggedAt[g]
                                   /\ flagsInWindow'[g] = flagsInWindow[g]
                                   /\ windowStart'[g] = windowStart[g]
    BY <1>2, <1>3, <1>6 DEF FlaggingTypeOK
  <2> QED  BY <1>4, <1>6, <2>1, <2>3, <2>4
<1>7. CASE accepts /\ AcceptFlag(f, t)
  <2> DEFINE times == Append(flaggedAt[f], now)
             flags == Append(flagsByTarget[t], f)
  <2>1. /\ flagsByTarget' = [flagsByTarget EXCEPT ![t] = flags]
        /\ flaggedAt' = [flaggedAt EXCEPT ![f] = times]
        /\ hiddenTargets' = IF countReputableFlags(flags) >= HideAt
                            THEN hiddenTargets \cup {t} ELSE hiddenTargets
        /\ UNCHANGED <<abuseWarnings, blocked>>
    BY <1>3, <1>7 DEF AcceptFlag, FlaggingTypeOK
  <2>2. w.count < MaxFlagsPerHour /\ w.start # 0 /\ w.start \in 0..now
    BY <1>1, <1>7
  <2>3. times \in Seq(Nat) /\ Windowed(times, w.count + 1, w.start) /\ Spaced(times)
    BY <1>1, <1>3, <1>4, <2>2, FlagAccepted
  <2>4. /\ flagsInWindow' = [flagsInWindow EXCEPT ![f] = w.count + 1]
        /\ w.count + 1 \in 0..MaxFlagsPerHour
    <3>1. (IF accepts THEN 1 ELSE 0) = 1  BY <1>7
    <3> HIDE DEF accepts
    <3>2. w.count + 1 \in 0..MaxFlagsPerHour  BY <1>1, <2>2
    <3> QED  BY <1>2, <3>1, <3>2
  <2>5. /\ flags \in Seq(Flaggers) /\ Len(flags) = Len(flagsByTarget[t]) + 1
        /\ flags[Len(flagsByTarget[t]) + 1] = f
        /\ \A i \in 1..Len(flagsByTarget[t]) : flags[i] = flagsByTarget[t][i]
    BY <1>3, AppendProperties
  <2>6. \A i \in 1..Len(flagsByTarget[t]) : flagsByTarget[t][i] # f
    BY <1>7 DEF AlreadyFlagged, Contains
  <2> HIDE DEF times, flags
  <2>7. \A i, j \in 1..Len(flags) : flags[i] = flags[j] => i = j
    <3>1. Len(flagsByTarget[t]) \in Nat  BY <1>3, LenProperties
    <3>2. \A i \in 1..Len(flags) :
            i \in 1..Len(flagsByTarget[t]) \/ (i = Len(flagsByTarget[t]) + 1 /\ flags[i] = f)
      BY <2>5, <3>1
    <3>3. \A i, j \in 1..Len(flagsByTarget[t]) :
            flagsByTarget[t][i] = flagsByTarget[t][j] => i = j
      BY <1>5
    <3>4. SUFFICES ASSUME NEW i \in 1..Len(flags), NEW j \in 1..Len(flags),
                          flags[i] = flags[j]
                   PROVE  i = j
      OBVIOUS
    <3>5. CASE i \in 1..Len(flagsByTarget[t]) /\ j \in 1..Len(flagsByTarget[t])
      BY <2>5, <3>3, <3>4, <3>5
    <3>6. CASE i \in 1..Len(flagsByTarget[t]) /\ j = Len(flagsByTarget[t]) + 1
      BY <2>5, <2>6, <3>2, <3>4, <3>6
    <3>7. CASE i = Len(flagsByTarget[t]) + 1 /\ j \in 1..Len(flagsByTarget[t])
      BY <2>5, <2>6, <3>2, <3>4, <3>7
    <3> QED  BY <3>2, <3>5, <3>6, <3>7
  <2>8. FlaggingIInv'
    <3>1. /\ flagsByTarget' \in [FlagTargets -> Seq(Flaggers)]
          /\ hiddenTargets' \subseteq FlagTargets
      BY <1>3, <2>1, <2>5 DEF FlaggingTypeOK
    <3>2. \A u \in FlagTargets : \A i, j \in 1..Len(flagsByTarget'[u]) :
            flagsByTarget'[u][i] = flagsByTarget'[u][j] => i = j
      BY <1>3, <1>5, <2>1, <2>7 DEF FlaggingTypeOK
    <3>3. /\ flaggedAt' \in [Flaggers -> Seq(Nat)]
          /\ flagsInWindow' \in [Flaggers -> 0..MaxFlagsPerHour]
          /\ windowStart' \in [Flaggers -> 0..now]
          /\ \A g \in Flaggers : Windowed(flaggedAt'[g], flagsInWindow'[g], windowStart'[g])
          /\ \A g \in Flaggers : Spaced(flaggedAt'[g])
      BY <1>6, <2>1, <2>3, <2>4
    <3> QED  BY <1>2, <1>3, <1>4, <2>1, <3>1, <3>2, <3>3
             DEF FlaggingIInv, FlaggingTypeOK, Windowed
  <2>9. ASSUME NEW u \in hiddenTargets' \ hiddenTargets
        PROVE  Cardinality({ a \in reputable : Contains(flagsByTarget'[u], a) }) >= HideAt
    <3>1. u = t /\ countReputableFlags(flags) >= HideAt  BY <2>1, <2>9
    <3>2. flagsByTarget'[u] = flags  BY <1>3, <2>1, <3>1 DEF FlaggingTypeOK
    <3>3. Cardinality({ a \in reputable : Contains(flags, a) }) = countReputableFlags(flags)
      BY <2>5, <2>7, FlaggersCounted DEF countReputableFlags
    <3> QED  BY <3>1, <3>2, <3>3
  <2> QED  BY <2>8, <2>9
<1>8. CASE ~accepts /\ flaggedAt' = flaggedAt /\ hiddenTargets' = hiddenTargets
  <2>1. flagsInWindow' = [flagsInWindow EXCEPT ![f] = w.count]
    <3>1. (IF accepts THEN 1 ELSE 0) = 0  BY <1>8
    <3> HIDE DEF accepts
    <3>2. w.count + 0 = w.count  BY <1>1
    <3> QED  BY <1>2, <3>1, <3>2
  <2>2. flaggedAt' = [flaggedAt EXCEPT ![f] = flaggedAt[f]]  BY <1>3, <1>8 DEF FlaggingTypeOK
  <2>3. /\ flaggedAt' \in [Flaggers -> Seq(Nat)]
        /\ flagsInWindow' \in [Flaggers -> 0..MaxFlagsPerHour]
        /\ windowStart' \in [Flaggers -> 0..now]
        /\ \A g \in Flaggers : Windowed(flaggedAt'[g], flagsInWindow'[g], windowStart'[g])
        /\ \A g \in Flaggers : Spaced(flaggedAt'[g])
    BY <1>1, <1>3, <1>4, <1>6, <2>1, <2>2
  <2>4. /\ UNCHANGED flagsByTarget
        /\ abuseWarnings' \in [Flaggers -> 0..BlockAt] /\ blocked' \subseteq Flaggers
        /\ \A g \in Flaggers : g \notin blocked' => abuseWarnings'[g] < BlockAt
    <3>1. CASE over /\ RefuseOverLimit(f)
      <4>1. /\ abuseWarnings' = [abuseWarnings EXCEPT ![f] = abuseWarnings[f] + 1]
            /\ blocked' = IF abuseWarnings[f] + 1 >= BlockAt THEN blocked \cup {f} ELSE blocked
            /\ UNCHANGED flagsByTarget
        BY <1>3, <3>1 DEF RefuseOverLimit, FlaggingTypeOK
      <4>2. abuseWarnings[f] + 1 \in 0..BlockAt  BY <1>3
      <4>3. blocked' \subseteq Flaggers  BY <1>3, <4>1 DEF FlaggingTypeOK
      <4>4. abuseWarnings' \in [Flaggers -> 0..BlockAt]  BY <1>3, <4>1, <4>2 DEF FlaggingTypeOK
      <4>5. ASSUME NEW g \in Flaggers, g \notin blocked' PROVE abuseWarnings'[g] < BlockAt
        <5>1. CASE g = f  BY <1>3, <4>1, <4>2, <4>5, <5>1 DEF FlaggingTypeOK
        <5>2. CASE g # f  BY <1>3, <1>4, <4>1, <4>5, <5>2 DEF FlaggingTypeOK
        <5> QED  BY <5>1, <5>2
      <4> QED  BY <4>1, <4>3, <4>4, <4>5
    <3>2. CASE UNCHANGED <<flagsByTarget, hiddenTargets, abuseWarnings, blocked, flaggedAt>>
      BY <1>3, <1>4, <3>2 DEF FlaggingTypeOK
    <3> QED  BY <1>2, <1>8, <3>1, <3>2
  <2>5. FlaggingIInv'
    BY <1>2, <1>3, <1>5, <1>8, <2>3, <2>4 DEF FlaggingIInv, FlaggingTypeOK, Windowed
  <2> QED  BY <1>8, <2>5
<1> QED
  <2>1. over /\ RefuseOverLimit(f) =>
          ~accepts /\ flaggedAt' = flaggedAt /\ hiddenTargets' = hiddenTargets
    BY DEF RefuseOverLimit
  <2> QED  BY <1>2, <1>7, <1>8, <2>1

LEMMA FlaggingRests ==
  ASSUME FlaggingIInv, now' \in Nat, now' >= now, UNCHANGED flaggingVars
  PROVE  FlaggingIInv' /\ hiddenTargets' = hiddenTargets
<1>1. now \in Nat /\ now > 0 /\ now' > 0 /\ FlaggingTypeOK  BY DEF FlaggingIInv
<1>2. \A v : v \in 0..now => v \in 0..now'  BY <1>1
<1>3. windowStart' \in [Flaggers -> 0..now']
  BY <1>1, <1>2 DEF FlaggingTypeOK, flaggingVars
<1>4. ASSUME NEW f \in Flaggers
      PROVE  Windowed(flaggedAt[f], flagsInWindow[f], windowStart[f])'
  <2>1. flaggedAt[f] \in Seq(Nat)  BY <1>1 DEF FlaggingTypeOK
  <2>2. \A i \in 1..Len(flaggedAt[f]) : flaggedAt[f][i] \in Nat /\ flaggedAt[f][i] <= now
    BY <2>1, ElementOfSeq DEF FlaggingIInv, Windowed
  <2>3. \A i \in 1..Len(flaggedAt[f]) : flaggedAt[f][i] <= now'  BY <1>1, <2>2
  <2> QED  BY <2>3 DEF FlaggingIInv, Windowed, flaggingVars
<1> QED  BY <1>1, <1>3, <1>4 DEF FlaggingIInv, FlaggingTypeOK, flaggingVars, Spaced

LEMMA FlaggingInductive ==
  ASSUME FlaggingIInv, [FlaggingNext]_<<flaggingVars, now>>
  PROVE  /\ FlaggingIInv'
         /\ \A u \in hiddenTargets' \ hiddenTargets :
              Cardinality({ a \in reputable : Contains(flagsByTarget'[u], a) }) >= HideAt
<1>1. ASSUME NEW f \in Flaggers, ReputationMoves(f), UNCHANGED now
      PROVE  FlaggingIInv' /\ hiddenTargets' = hiddenTargets
  <2>1. /\ UNCHANGED <<flagsByTarget, hiddenTargets, flagsInWindow, windowStart,
                       abuseWarnings, blocked, flaggedAt, now>>
        /\ reputable' \subseteq Flaggers
    BY <1>1 DEF ReputationMoves, FlaggingIInv, FlaggingTypeOK
  <2> QED  BY <2>1 DEF FlaggingIInv, FlaggingTypeOK, Windowed
<1>3. now \in Nat \ {0}  BY DEF FlaggingIInv
<1>4. CASE FlaggingCalls /\ UNCHANGED now
  BY <1>1, <1>4, FlagProcessed DEF FlaggingCalls
<1>5. CASE TickUpTo(FlaggingMaxTime) /\ UNCHANGED flaggingVars
  BY <1>3, <1>5, FlaggingRests DEF TickUpTo
<1>6. CASE UNCHANGED <<flaggingVars, now>>
  BY <1>3, <1>6, FlaggingRests
<1> QED  BY <1>4, <1>5, <1>6 DEF FlaggingNext

LEMMA FlaggingInitially == FlaggingInit => FlaggingIInv
<1> SUFFICES ASSUME FlaggingInit PROVE FlaggingIInv
  OBVIOUS
<1> USE FlaggingAssumption
<1>1. /\ now = 1 /\ hiddenTargets = {} /\ blocked = {} /\ reputable = {}
      /\ flagsByTarget = [t \in FlagTargets |-> <<>>]
      /\ flagsInWindow = [f \in Flaggers |-> 0] /\ windowStart = [f \in Flaggers |-> 0]
      /\ abuseWarnings = [f \in Flaggers |-> 0] /\ flaggedAt = [f \in Flaggers |-> <<>>]
  BY DEF FlaggingInit, ClockInit
<1>2. 0 \in 0..MaxFlagsPerHour /\ 0 \in 0..BlockAt /\ 0 \in 0..1 /\ 0 < BlockAt
  OBVIOUS
<1>3. Len(<<>>) = 0 /\ 1..0 = {}  OBVIOUS
<1>4. FlaggingTypeOK  BY <1>1, <1>2 DEF FlaggingTypeOK
<1>5. Windowed(<<>>, 0, 0) /\ Spaced(<<>>)  BY <1>3 DEF Windowed, Spaced
<1> QED  BY <1>1, <1>2, <1>3, <1>4, <1>5 DEF FlaggingIInv

LEMMA FlaggingInvImplies ==
  ASSUME FlaggingIInv
  PROVE  FlaggingTypeOK /\ FlagsPerHour
<1>1. \A f \in Flaggers : flaggedAt[f] \in Seq(Nat) /\ DOMAIN flaggedAt[f] = 1..Len(flaggedAt[f])
  BY DEF FlaggingIInv, FlaggingTypeOK
<1> QED  BY <1>1 DEF FlaggingIInv, FlagsPerHour, Spaced

\* The profiles and the lists of flags keep their shape, and the limit per hour
\* holds twice over in any period of a window's length (processFlag, step 2).
THEOREM FlagsAreLimited == FlaggingSpec => [](FlaggingTypeOK /\ FlagsPerHour)
<1>1. FlaggingIInv /\ [FlaggingNext]_<<flaggingVars, now>> => FlaggingIInv'
  BY FlaggingInductive
<1>2. FlaggingIInv => FlaggingTypeOK /\ FlagsPerHour  BY FlaggingInvImplies
<1> QED  BY <1>1, <1>2, FlaggingInitially, PTL DEF FlaggingSpec

\* Only a flag hides, and only with HideAt different reputable agents behind it
\* (processFlag, countReputableFlags).
THEOREM HidingIsBacked == FlaggingSpec => HidesOnlyBacked
<1>1. FlaggingIInv /\ [FlaggingNext]_<<flaggingVars, now>> => FlaggingIInv' /\ Backed
  BY FlaggingInductive DEF Backed
<1>2. FlaggingSpec => [][Backed]_flaggingVars
  BY <1>1, FlaggingInitially, PTL DEF FlaggingSpec
<1>3. Backed <=> \A t \in hiddenTargets' \ hiddenTargets :
        Cardinality({ f \in reputable : Contains(flagsByTarget'[t], f) }) >= HideAt
  BY DEF Backed
<1> QED  BY <1>2, <1>3, PTL DEF HidesOnlyBacked

-----------------------------------------------------------------------------
(* Records of other nodes.                                                 *)

\* Some copy of r waits for its verification.
UnderWay(r) == \E m \in verifying : m.record = r

\* What becomes of a record whose mark was never dropped for the cap: before its
\* first mark nothing of it is known; while that mark stands, one copy may be under
\* way, and then nobody has heard of it; when the mark has gone, a copy that comes
\* is later than any that can pass as fresh.
Tracked(r) ==
  /\ seenRecords[r] # 0 => firstMark[r] # 0 /\ firstMark[r] <= seenRecords[r]
  /\ firstMark[r] = 0 => ~UnderWay(r) /\ \A h \in RecordHandlers : heard[r][h] = 0
  /\ r \notin evicted =>
       /\ firstMark[r] # 0 /\ seenRecords[r] # firstMark[r] => now > firstMark[r] + SeenTtl
       /\ firstMark[r] # 0 /\ seenRecords[r] = firstMark[r] =>
            /\ \A m, n \in verifying : m.record = r /\ n.record = r => m = n
            /\ UnderWay(r) => \A h \in RecordHandlers : heard[r][h] = 0
       /\ StampedAt[r] < Second(firstMark[r]) =>
            \A h \in RecordHandlers : heard[r][h] <= Cardinality(Topics)

GossipIInv ==
  /\ now \in Nat \ {0}
  /\ GossipTypeOK
  /\ \A r \in GossipRecords : Tracked(r)

LEMMA SecondsType ==
  ASSUME NEW a \in Nat
  PROVE  Second(a) \in Nat
BY GossipAssumption DEF Second

\* What is more than MaxDrift seconds of ticks later is MaxDrift seconds later.
LEMMA SecondsApart ==
  ASSUME NEW a \in Nat, NEW n \in Nat, n > a + SeenTtl
  PROVE  Second(n) >= Second(a) + MaxDrift
<1> DEFINE T == TicksPerSecond
           x == Second(a)
           y == Second(n)
<1>1. T \in Nat \ {0} /\ MaxDrift \in Nat /\ SeenTtl = MaxDrift * T  BY GossipAssumption
<1>2. x \in Nat /\ y \in Nat  BY SecondsType
<1>3. T * x <= a  BY <1>1 DEF Second
<1>4. n < T * y + T  BY <1>1 DEF Second
<1> HIDE DEF T, x, y
<1>5. T * (x + MaxDrift) = T * x + SeenTtl  BY <1>1, <1>2
<1>6. T * (y + 1) = T * y + T  BY <1>1, <1>2
<1>7. T * (x + MaxDrift) < T * (y + 1)
  <2>1. T * x \in Nat /\ SeenTtl \in Nat /\ T * y \in Nat  BY <1>1, <1>2
  <2> QED  BY <1>1, <1>3, <1>4, <1>5, <1>6, <2>1
<1>8. x + MaxDrift < y + 1
  <2> DEFINE u == x + MaxDrift
             v == y + 1
  <2>1. u \in Nat /\ v \in Nat  BY <1>1, <1>2
  <2> HIDE DEF u, v
  <2>2. SUFFICES ASSUME u >= v PROVE FALSE  BY <2>1 DEF u, v
  <2>3. T * u >= T * v  BY <1>1, <2>1, <2>2
  <2>4. T * u \in Nat /\ T * v \in Nat  BY <1>1, <2>1
  <2> QED  BY <1>7, <2>3, <2>4 DEF u, v
<1> QED  BY <1>1, <1>2, <1>8 DEF x, y

\* A record that was stamped before its first mark does not pass once that mark
\* has expired.
LEMMA LateIsDrifted ==
  ASSUME NEW r \in GossipRecords, now \in Nat, firstMark[r] \in Nat,
         now > firstMark[r] + SeenTtl, StampedAt[r] < Second(firstMark[r])
  PROVE  Drifted(r)
<1> USE GossipAssumption
<1>1. Second(now) >= Second(firstMark[r]) + MaxDrift  BY SecondsApart
<1>2. Second(now) \in Nat /\ Second(firstMark[r]) \in Nat /\ StampedAt[r] \in Int
  BY SecondsType
<1> QED  BY <1>1, <1>2 DEF Drifted

LEMMA GossipTypes ==
  ASSUME GossipIInv
  PROVE  /\ now \in Nat \ {0} /\ SeenTtl \in Nat
         /\ seenRecords \in [GossipRecords -> 0..now]
         /\ firstMark \in [GossipRecords -> 0..now]
         /\ topicHandlers \in [Topics -> SUBSET RecordHandlers]
         /\ verifying \subseteq [record : GossipRecords, valid : BOOLEAN, copy : 0..arrivals]
         /\ arrivals \in 0..MaxArrivals
         /\ heard \in [GossipRecords -> [RecordHandlers -> Nat]]
         /\ evicted \subseteq GossipRecords
         /\ MaxArrivals \in Nat /\ IsFiniteSet(Topics) /\ Cardinality(Topics) \in Nat
         /\ \A r \in GossipRecords : StampedAt[r] \in Int
<1>1. IsFiniteSet(Topics) /\ Cardinality(Topics) \in Nat
  BY GossipAssumption, FS_CardinalityType
<1>2. SeenTtl \in Nat  BY GossipAssumption
<1> QED  BY <1>1, <1>2, GossipAssumption DEF GossipIInv, GossipTypeOK

\* A first mark: of what this node makes, or of what arrives.
LEMMA PublishStep ==
  ASSUME GossipIInv, NEW r \in GossipRecords, publish(r), UNCHANGED now
  PROVE  GossipIInv'
<1> USE GossipTypes
<1>1. /\ firstMark[r] = 0 /\ seenRecords[r] = 0
      /\ seenRecords' = [seenRecords EXCEPT ![r] = now]
      /\ firstMark' = [firstMark EXCEPT ![r] = now]
      /\ UNCHANGED <<topicHandlers, verifying, arrivals, heard, evicted>>
  BY DEF publish, MarkSeen, GossipIInv, Tracked
<1>2. GossipTypeOK'
  <2>1. now \in 0..now  OBVIOUS
  <2>2. seenRecords' \in [GossipRecords -> 0..now] /\ firstMark' \in [GossipRecords -> 0..now]
    BY <1>1, <2>1
  <2> QED  BY <1>1, <2>2 DEF GossipTypeOK
<1>3. ~UnderWay(r) /\ \A h \in RecordHandlers : heard[r][h] = 0
  BY <1>1 DEF GossipIInv, Tracked
<1>4. Tracked(r)'
  BY <1>1, <1>3 DEF Tracked, UnderWay
<1>5. ASSUME NEW q \in GossipRecords, q # r PROVE Tracked(q)'
  <2>1. Tracked(q) /\ seenRecords'[q] = seenRecords[q] /\ firstMark'[q] = firstMark[q]
    BY <1>1, <1>5 DEF GossipIInv
  <2> QED  BY <1>1, <2>1 DEF Tracked, UnderWay, Second
<1> QED  BY <1>2, <1>4, <1>5 DEF GossipIInv

LEMMA ArrivalStep ==
  ASSUME GossipIInv, NEW r \in GossipRecords, NEW valid \in BOOLEAN,
         handleIncomingMessage(r, valid), UNCHANGED now
  PROVE  GossipIInv'
<1> USE GossipTypes
<1> DEFINE m == [record |-> r, valid |-> valid, copy |-> arrivals]
           first == IF firstMark[r] = 0 THEN now ELSE firstMark[r]
<1>1. /\ seenRecords[r] = 0 /\ arrivals < MaxArrivals
      /\ seenRecords' = [seenRecords EXCEPT ![r] = now]
      /\ firstMark' = [firstMark EXCEPT ![r] = first]
      /\ arrivals' = arrivals + 1
      /\ verifying' = verifying \cup {m}
      /\ UNCHANGED <<topicHandlers, heard, evicted>>
  BY DEF handleIncomingMessage, MarkSeen
<1>2. GossipTypeOK'
  <2>1. now \in 0..now /\ first \in 0..now  OBVIOUS
  <2> HIDE DEF first
  <2>2. seenRecords' \in [GossipRecords -> 0..now] /\ firstMark' \in [GossipRecords -> 0..now]
    BY <1>1, <2>1
  <2>3. arrivals' \in 0..MaxArrivals /\ \A k \in 0..arrivals : k \in 0..arrivals'
    BY <1>1
  <2>4. verifying' \subseteq [record : GossipRecords, valid : BOOLEAN, copy : 0..arrivals']
    <3>1. arrivals \in 0..arrivals  OBVIOUS
    <3>2. m \in [record : GossipRecords, valid : BOOLEAN, copy : 0..arrivals']  BY <2>3, <3>1
    <3>3. \A n \in verifying : n \in [record : GossipRecords, valid : BOOLEAN, copy : 0..arrivals']
      BY <2>3
    <3> QED  BY <1>1, <3>2, <3>3
  <2> QED  BY <1>1, <2>2, <2>3, <2>4 DEF GossipTypeOK
<1>3. Tracked(r)'
  <2>0. Tracked(r)  BY DEF GossipIInv
  <2>1. seenRecords'[r] = now /\ firstMark'[r] = first  BY <1>1
  <2>2. CASE firstMark[r] = 0
    <3>1. /\ first = now
          /\ \A n \in verifying : n.record # r
          /\ \A h \in RecordHandlers : heard[r][h] = 0
      BY <2>0, <2>2 DEF Tracked, UnderWay
    <3>2. \A n \in verifying' : n.record = r => n = m  BY <1>1, <3>1
    <3> QED  BY <1>1, <2>1, <3>1, <3>2 DEF Tracked
  <2>3. CASE firstMark[r] # 0
    <3>1. first = firstMark[r] /\ first \in 0..now  BY <2>3
    <3>2. r \notin evicted => now > first + SeenTtl
      BY <1>1, <2>0, <2>3, <3>1 DEF Tracked
    <3>3. r \notin evicted => now # first  BY <3>1, <3>2
    <3>4. r \notin evicted /\ StampedAt[r] < Second(first) =>
            \A h \in RecordHandlers : heard[r][h] <= Cardinality(Topics)
      BY <2>0, <3>1 DEF Tracked
    <3> HIDE DEF first
    <3> QED  BY <1>1, <2>1, <2>3, <3>1, <3>2, <3>3, <3>4 DEF Tracked, Second
  <2> QED  BY <2>2, <2>3
<1>4. ASSUME NEW q \in GossipRecords, q # r PROVE Tracked(q)'
  <2>1. Tracked(q) /\ seenRecords'[q] = seenRecords[q] /\ firstMark'[q] = firstMark[q]
    BY <1>1, <1>4 DEF GossipIInv
  <2>2. \A n : n.record = q => (n \in verifying' <=> n \in verifying)
    BY <1>1, <1>4
  <2>3. UnderWay(q)' <=> UnderWay(q)  BY <2>2 DEF UnderWay
  <2> HIDE DEF m
  <2> QED  BY <1>1, <2>1, <2>2, <2>3 DEF Tracked, Second
<1> QED  BY <1>2, <1>3, <1>4 DEF GossipIInv

\* A verification ends: whoever hears the record has not heard it before, or it
\* has drifted.
LEMMA VerifiedStep ==
  ASSUME GossipIInv, NEW m \in verifying, Verified(m), UNCHANGED now
  PROVE  GossipIInv'
<1> USE GossipTypes
<1> DEFINE r == m.record
           more(h) == Cardinality({ t \in Topics : h \in topicHandlers[t] })
<1>1. /\ m \in verifying /\ r \in GossipRecords
      /\ verifying' = verifying \ {m}
      /\ UNCHANGED <<seenRecords, topicHandlers, arrivals, firstMark, evicted>>
  BY DEF Verified
<1>2. \A h : more(h) \in Nat /\ more(h) <= Cardinality(Topics)
  <2> SUFFICES ASSUME NEW h PROVE more(h) \in Nat /\ more(h) <= Cardinality(Topics)
    OBVIOUS
  <2>1. { t \in Topics : h \in topicHandlers[t] } \in SUBSET Topics  OBVIOUS
  <2> QED  BY <2>1, FS_Subset, FS_CardinalityType
<1>3. \/ UNCHANGED heard
      \/ /\ ~Drifted(r)
         /\ heard' = [heard EXCEPT ![r] = [h \in RecordHandlers |-> heard[r][h] + more(h)]]
  BY DEF Verified, routeRecord
<1> HIDE DEF r, more
<1>4. /\ heard' \in [GossipRecords -> [RecordHandlers -> Nat]]
      /\ \A q \in GossipRecords \ {r} : heard'[q] = heard[q]
      /\ heard'[r] # heard[r] =>
           ~Drifted(r) /\ \A h \in RecordHandlers : heard'[r][h] = heard[r][h] + more(h)
  <2>1. CASE UNCHANGED heard  BY <2>1
  <2>2. CASE /\ ~Drifted(r)
             /\ heard' = [heard EXCEPT ![r] = [h \in RecordHandlers |-> heard[r][h] + more(h)]]
    <3>1. \A h \in RecordHandlers : heard[r][h] + more(h) \in Nat  BY <1>1, <1>2
    <3>2. [h \in RecordHandlers |-> heard[r][h] + more(h)] \in [RecordHandlers -> Nat]  BY <3>1
    <3> QED  BY <1>1, <2>2, <3>2
  <2> QED  BY <1>3, <2>1, <2>2
<1>5. GossipTypeOK'  BY <1>1, <1>4 DEF GossipTypeOK
<1>6. Tracked(r)'
  <2>0. Tracked(r) /\ UnderWay(r)  BY <1>1 DEF GossipIInv, UnderWay, r
  <2>1. firstMark[r] # 0 /\ firstMark[r] \in Nat  BY <1>1, <2>0 DEF Tracked
  <2>2. ASSUME r \notin evicted, seenRecords[r] = firstMark[r]
        PROVE  /\ ~UnderWay(r)' /\ \A n, o \in verifying' : n.record = r /\ o.record = r => n = o
               /\ \A h \in RecordHandlers : heard'[r][h] <= Cardinality(Topics)
    <3>1. /\ \A n, o \in verifying : n.record = r /\ o.record = r => n = o
          /\ \A h \in RecordHandlers : heard[r][h] = 0
      BY <2>0, <2>1, <2>2 DEF Tracked
    <3>2. \A n \in verifying' : n.record # r  BY <1>1, <3>1 DEF r
    <3>3. ASSUME NEW h \in RecordHandlers PROVE heard'[r][h] <= Cardinality(Topics)
      <4>1. CASE heard'[r] = heard[r]  BY <3>1, <4>1
      <4>2. CASE heard'[r] # heard[r]
        <5>1. heard'[r][h] = 0 + more(h)  BY <1>4, <3>1, <4>2
        <5> QED  BY <1>2, <5>1
      <4> QED  BY <4>1, <4>2
    <3> QED  BY <3>2, <3>3 DEF UnderWay
  <2>3. ASSUME r \notin evicted, seenRecords[r] # firstMark[r], StampedAt[r] < Second(firstMark[r])
        PROVE  \A h \in RecordHandlers : heard'[r][h] <= Cardinality(Topics)
    <3>1. now > firstMark[r] + SeenTtl  BY <2>0, <2>1, <2>3 DEF Tracked
    <3>2. Drifted(r)  BY <1>1, <2>1, <2>3, <3>1, LateIsDrifted
    <3>3. heard'[r] = heard[r]  BY <1>4, <3>2
    <3> QED  BY <2>0, <2>3, <3>3 DEF Tracked
  <2> QED  BY <1>1, <2>0, <2>1, <2>2, <2>3 DEF Tracked, Second
<1>7. ASSUME NEW q \in GossipRecords, q # r PROVE Tracked(q)'
  <2>1. Tracked(q) /\ heard'[q] = heard[q]  BY <1>4, <1>7 DEF GossipIInv
  <2>2. UnderWay(q)' => UnderWay(q)  BY <1>1 DEF UnderWay
  <2>3. \A n \in verifying' : n \in verifying  BY <1>1
  <2> QED  BY <1>1, <2>1, <2>2, <2>3 DEF Tracked, Second
<1> QED  BY <1>1, <1>5, <1>6, <1>7 DEF GossipIInv

\* The cleanup takes away marks that are outdated, or drops them for the cap.
LEMMA PruneStep ==
  ASSUME GossipIInv, pruneSeenRecords, UNCHANGED now
  PROVE  GossipIInv'
<1> USE GossipTypes
<1> DEFINE old == { r \in Marked : Outdated(r) }
<1>1. PICK cut \in SUBSET (Marked \ old) :
        /\ seenRecords' = [r \in GossipRecords |->
                             IF r \in old \cup cut THEN 0 ELSE seenRecords[r]]
        /\ evicted' = evicted \cup cut
        /\ UNCHANGED <<topicHandlers, verifying, arrivals, heard, firstMark>>
  BY DEF pruneSeenRecords, kSubset
<1>2. cut \subseteq GossipRecords  BY DEF Marked
<1>3. GossipTypeOK'
  <2>1. 0 \in 0..now  OBVIOUS
  <2>2. seenRecords' \in [GossipRecords -> 0..now]  BY <1>1, <2>1
  <2> QED  BY <1>1, <1>2, <2>2 DEF GossipTypeOK
<1>4. ASSUME NEW r \in GossipRecords PROVE Tracked(r)'
  <2>1. Tracked(r) /\ seenRecords'[r] \in {0, seenRecords[r]}  BY <1>1 DEF GossipIInv
  <2>2. UnderWay(r)' <=> UnderWay(r)  BY <1>1 DEF UnderWay
  <2>3. ASSUME r \notin evicted', firstMark[r] # 0, seenRecords'[r] # firstMark[r]
        PROVE  now > firstMark[r] + SeenTtl
    <3>1. r \notin evicted /\ r \notin cut  BY <1>1, <2>3
    <3>2. CASE seenRecords[r] # firstMark[r]  BY <2>1, <2>3, <3>1, <3>2 DEF Tracked
    <3>3. CASE seenRecords[r] = firstMark[r]
      <4>1. r \in old  BY <1>1, <2>3, <3>1, <3>3
      <4>2. now - seenRecords[r] > SeenTtl  BY <4>1 DEF Outdated
      <4>3. firstMark[r] \in Nat  OBVIOUS
      <4> QED  BY <3>3, <4>2, <4>3
    <3> QED  BY <3>2, <3>3
  <2>4. seenRecords'[r] = firstMark[r] /\ firstMark[r] # 0 => seenRecords[r] = firstMark[r]
    BY <2>1
  <2> HIDE DEF old
  <2> QED  BY <1>1, <2>1, <2>2, <2>3, <2>4 DEF Tracked, Second
<1> QED  BY <1>3, <1>4 DEF GossipIInv

\* Handlers, and the clock.
LEMMA GossipRests ==
  ASSUME GossipIInv, now' \in Nat, now' >= now,
         topicHandlers' \in [Topics -> SUBSET RecordHandlers],
         UNCHANGED <<seenRecords, verifying, arrivals, heard, firstMark, evicted>>
  PROVE  GossipIInv'
<1> USE GossipTypes
<1>1. \A k \in 0..now : k \in 0..now'  OBVIOUS
<1>2. seenRecords' \in [GossipRecords -> 0..now'] /\ firstMark' \in [GossipRecords -> 0..now']
  BY <1>1
<1>3. GossipTypeOK'  BY <1>2 DEF GossipTypeOK
<1>4. ASSUME NEW r \in GossipRecords PROVE Tracked(r)'
  <2>1. Tracked(r) /\ firstMark[r] \in Nat  BY DEF GossipIInv
  <2>2. UnderWay(r)' <=> UnderWay(r)  BY DEF UnderWay
  <2>3. now > firstMark[r] + SeenTtl => now' > firstMark[r] + SeenTtl  BY <2>1
  <2> QED  BY <2>1, <2>2, <2>3 DEF Tracked, Second
<1> QED  BY <1>3, <1>4 DEF GossipIInv

LEMMA GossipInductive == GossipIInv /\ [GossipNext]_<<gossipVars, now>> => GossipIInv'
<1> SUFFICES ASSUME GossipIInv, [GossipNext]_<<gossipVars, now>> PROVE GossipIInv'
  OBVIOUS
<1>1. ASSUME NEW t \in Topics, NEW h \in RecordHandlers, subscribe(t, h), UNCHANGED now
      PROVE  GossipIInv'
  <2>1. topicHandlers' \in [Topics -> SUBSET RecordHandlers]  BY <1>1, GossipTypes DEF subscribe
  <2> QED  BY <1>1, <2>1, GossipTypes, GossipRests DEF subscribe
<1>2. ASSUME NEW t \in Topics, unsubscribe(t), UNCHANGED now
      PROVE  GossipIInv'
  <2>1. topicHandlers' \in [Topics -> SUBSET RecordHandlers]  BY <1>2, GossipTypes DEF unsubscribe
  <2> QED  BY <1>2, <2>1, GossipTypes, GossipRests DEF unsubscribe
<1>3. CASE GossipSteps /\ UNCHANGED now
  BY <1>1, <1>2, <1>3, PublishStep, ArrivalStep, VerifiedStep, PruneStep DEF GossipSteps
<1>4. CASE UNCHANGED gossipVars /\ (UNCHANGED now \/ TickUpTo(GossipMaxTime))
  <2>1. now' \in Nat /\ now' >= now  BY <1>4, GossipTypes DEF TickUpTo
  <2> QED  BY <1>4, <2>1, GossipTypes, GossipRests DEF gossipVars
<1> QED  BY <1>3, <1>4 DEF GossipNext

LEMMA GossipInitially == GossipInit => GossipIInv
<1> SUFFICES ASSUME GossipInit PROVE GossipIInv
  OBVIOUS
<1>1. /\ now = 1 /\ verifying = {} /\ arrivals = 0 /\ evicted = {}
      /\ seenRecords = [r \in GossipRecords |-> 0]
      /\ topicHandlers = [t \in Topics |-> {}]
      /\ heard = [r \in GossipRecords |-> [h \in RecordHandlers |-> 0]]
      /\ firstMark = [r \in GossipRecords |-> 0]
  BY DEF GossipInit, ClockInit
<1>2. 0 \in 0..1 /\ 0 \in 0..MaxArrivals  BY GossipAssumption
<1>3. GossipTypeOK  BY <1>1, <1>2 DEF GossipTypeOK
<1>4. Cardinality(Topics) \in Nat  BY GossipAssumption, FS_CardinalityType
<1>5. \A r \in GossipRecords : Tracked(r)  BY <1>1, <1>4 DEF Tracked, UnderWay
<1> QED  BY <1>1, <1>3, <1>5 DEF GossipIInv

LEMMA GossipInvImplies ==
  ASSUME GossipIInv
  PROVE  GossipTypeOK /\ HeardOnce
BY DEF GossipIInv, Tracked, HeardOnce

\* Marks, copies and handlers keep their shape, and no handler hears a record
\* twice, whatever arrives again and however verifications, prunings and the clock
\* interleave (handleIncomingMessage, pruneSeenRecords).
THEOREM RecordsAreHeardOnce == GossipSpec => [](GossipTypeOK /\ HeardOnce)
<1>1. GossipIInv => GossipTypeOK /\ HeardOnce  BY GossipInvImplies
<1> QED  BY <1>1, GossipInitially, GossipInductive, PTL DEF GossipSpec

-----------------------------------------------------------------------------
(* The record pipeline.                                                    *)

\* Copies that are checked are public, and counted before the next one comes.
PipelineShape ==
  /\ PipelineTypeOK
  /\ IsFiniteSet(checking)
  /\ \A m \in checking : m.copy < recordsIn /\ TypeOfRecord[m.record] \in PublicTypes
  /\ \A r \in raced : TypeOfRecord[r] \in PublicTypes

\* The handlers that heard the record of m are behind it in its array, and none is
\* the wildcard's while m is still with those of its own type.
BehindIt(m) ==
  \A p \in heardBy : p[1] = m.record =>
    /\ m.type # Wildcard => p[2] # Wildcard
    /\ p[2] = m.type /\ p[3] = m.array => p[4] < m.next

\* A record that was never checked twice at once, and saved when it could be, is
\* checked before it is in the table and routed, once, after that.
OnceSoFar(r) ==
  /\ \A m, n \in checking : m.record = r /\ n.record = r => m = n
  /\ r \in table => \A m \in checking : m.record # r
  /\ r \notin table => /\ \A m \in routing : m.record # r
                       /\ \A p \in heardBy : p[1] # r
  /\ \A m, n \in routing : m.record = r /\ n.record = r => m = n
  /\ \A m \in routing : m.record = r => BehindIt(m)
  /\ r \notin heardAgain

Orderly == \A r \in PipelineRecords \ (raced \cup unsaved) : OnceSoFar(r)

PipelineIInv == PipelineShape /\ BooksBalance /\ Orderly

Counters == {"processed", "accepted", "rejected", "duplicates"}

\* Calls that are counted as processed and nothing else.
Unsettled == Cardinality(checking) + thrown

Copies(n) == [record : PipelineRecords, copy : 0..n, type : HandlerTypes,
              array : 1..MaxArrays, next : Nat]

LEMMA PipelineTypes ==
  ASSUME PipelineIInv
  PROVE  /\ table \subseteq PipelineRecords
         /\ stats \in [Counters -> 0..recordsIn] /\ thrown \in Nat
         /\ handlerRegistry \in [HandlerTypes -> 1..MaxArrays]
         /\ handlersIn \in [HandlerTypes -> [1..MaxArrays -> Nat]] /\ handlersAdded \in Nat
         /\ checking \subseteq [record : PipelineRecords, valid : BOOLEAN, copy : 0..recordsIn]
         /\ routing \subseteq Copies(recordsIn)
         /\ recordsIn \in 0..MaxRecordsIn /\ MaxRecordsIn \in Nat /\ recordsIn \in Nat
         /\ heardBy \subseteq PipelineRecords \X HandlerTypes \X (1..MaxArrays) \X Nat
         /\ heardAgain \subseteq PipelineRecords
         /\ raced \subseteq PipelineRecords /\ unsaved \subseteq PipelineRecords
         /\ IsFiniteSet(checking) /\ Cardinality(checking) \in Nat /\ Unsettled \in Nat
<1>1. recordsIn \in Nat /\ thrown \in Nat
  BY PipelineAssumption DEF PipelineIInv, PipelineShape, PipelineTypeOK
<1>2. IsFiniteSet(checking) /\ Cardinality(checking) \in Nat
  BY FS_CardinalityType DEF PipelineIInv, PipelineShape
<1>3. Unsettled \in Nat  BY <1>1, <1>2 DEF Unsettled
<1>4. recordsIn \in 0..MaxRecordsIn /\ MaxRecordsIn \in Nat
  BY PipelineAssumption DEF PipelineIInv, PipelineShape, PipelineTypeOK
<1>5. /\ stats \in [Counters -> 0..recordsIn]
      /\ routing \subseteq Copies(recordsIn)
  BY DEF PipelineIInv, PipelineShape, PipelineTypeOK, Counters, Copies
<1> QED
  BY <1>1, <1>2, <1>3, <1>4, <1>5 DEF PipelineIInv, PipelineShape, PipelineTypeOK

\* The counters s of n calls, c of which are not settled.
Balanced(s, n, c) ==
  /\ s \in [Counters -> Nat]
  /\ s.processed <= n
  /\ s.processed = s.accepted + s.rejected + s.duplicates + c

LEMMA BalancedBounds ==
  ASSUME NEW s, NEW n \in Nat, NEW c \in Nat, Balanced(s, n, c)
  PROVE  s \in [Counters -> 0..n] /\ c <= n
<1>1. /\ s \in [Counters -> Nat]
      /\ s["processed"] \in Nat /\ s["accepted"] \in Nat
      /\ s["rejected"] \in Nat /\ s["duplicates"] \in Nat
  BY DEF Balanced, Counters
<1>2. /\ s["processed"] \in 0..n /\ s["accepted"] \in 0..n
      /\ s["rejected"] \in 0..n /\ s["duplicates"] \in 0..n /\ c <= n
  BY <1>1 DEF Balanced
<1>3. \A f \in Counters : s[f] \in 0..n  BY <1>2 DEF Counters
<1> QED  BY <1>1, <1>2, <1>3

LEMMA BalancedNow ==
  ASSUME PipelineIInv
  PROVE  Balanced(stats, recordsIn, Unsettled)
<1>1. /\ stats \in [Counters -> Nat]
      /\ stats["processed"] \in 0..recordsIn /\ stats["accepted"] \in Nat
      /\ stats["rejected"] \in Nat /\ stats["duplicates"] \in Nat
      /\ Cardinality(checking) \in Nat /\ thrown \in Nat /\ recordsIn \in Nat
  BY PipelineTypes DEF Counters
<1>2. stats["processed"] = stats["accepted"] + stats["rejected"] + stats["duplicates"]
                             + Cardinality(checking) + thrown
  BY DEF PipelineIInv, BooksBalance
<1> QED  BY <1>1, <1>2 DEF Balanced, Unsettled

\* What balanced counters say of the books.
LEMMA Booked ==
  ASSUME recordsIn' \in Nat, IsFiniteSet(checking'), thrown' \in Nat,
         Balanced(stats', recordsIn', Cardinality(checking') + thrown')
  PROVE  stats' \in [Counters -> 0..recordsIn'] /\ thrown' \in 0..recordsIn' /\ BooksBalance'
<1>1. Cardinality(checking') \in Nat  BY FS_CardinalityType
<1>2. Cardinality(checking') + thrown' \in Nat  BY <1>1
<1>3. /\ stats' \in [Counters -> 0..recordsIn']
      /\ Cardinality(checking') + thrown' <= recordsIn'
  BY <1>2, BalancedBounds
<1>4. thrown' \in 0..recordsIn'  BY <1>1, <1>3
<1>5. BooksBalance'
  <2>1. /\ stats'["accepted"] \in Nat /\ stats'["rejected"] \in Nat
        /\ stats'["duplicates"] \in Nat
    BY DEF Balanced, Counters
  <2>2. stats'["processed"] = stats'["accepted"] + stats'["rejected"] + stats'["duplicates"]
                                + (Cardinality(checking') + thrown')
    BY DEF Balanced
  <2> QED  BY <1>1, <2>1, <2>2 DEF BooksBalance
<1> QED  BY <1>3, <1>4, <1>5

\* What Counted makes of the counters.
LEMMA CountedFields ==
  ASSUME stats \in [Counters -> Nat], NEW field \in Counters \ {"processed"}
  PROVE  /\ Counted(field) \in [Counters -> Nat]
         /\ Counted(field)["processed"] = stats["processed"] + 1
         /\ Counted(field)[field] = stats[field] + 1
         /\ \A f \in Counters \ {"processed", field} : Counted(field)[f] = stats[f]
<1> DEFINE p == stats["processed"] + 1
           q == stats[field] + 1
<1>1. p \in Nat /\ q \in Nat  BY DEF Counters
<1>2. Counted(field) = [stats EXCEPT !["processed"] = p, ![field] = q]
  BY DEF Counted, Counters
<1> HIDE DEF p, q
<1>3. Counted(field) \in [Counters -> Nat]  BY <1>1, <1>2 DEF Counters
<1> QED  BY <1>2, <1>3 DEF p, q, Counters

\* One more call, counted once.
LEMMA CountedBalances ==
  ASSUME PipelineIInv, recordsIn' = recordsIn + 1,
         NEW field \in Counters \ {"processed"}, stats' = Counted(field)
  PROVE  Balanced(stats', recordsIn', Unsettled)
<1>0. Balanced(stats, recordsIn, Unsettled) /\ recordsIn \in Nat /\ Unsettled \in Nat
  BY BalancedNow, PipelineTypes
<1>1. /\ stats \in [Counters -> Nat]
      /\ stats["processed"] \in Nat /\ stats["accepted"] \in Nat
      /\ stats["rejected"] \in Nat /\ stats["duplicates"] \in Nat
  BY <1>0 DEF Balanced, Counters
<1>2. /\ stats["processed"] <= recordsIn
      /\ stats["processed"] = stats["accepted"] + stats["rejected"]
                                + stats["duplicates"] + Unsettled
  BY <1>0 DEF Balanced
<1>3. /\ stats' \in [Counters -> Nat]
      /\ stats'["processed"] = stats["processed"] + 1
      /\ stats'[field] = stats[field] + 1
      /\ \A f \in Counters \ {"processed", field} : stats'[f] = stats[f]
  BY <1>1, CountedFields
<1>4. /\ stats'["processed"] <= recordsIn'
      /\ stats'["processed"] = stats'["accepted"] + stats'["rejected"]
                                 + stats'["duplicates"] + Unsettled
  <2>1. CASE field = "accepted"    BY <1>0, <1>1, <1>2, <1>3, <2>1 DEF Counters
  <2>2. CASE field = "rejected"    BY <1>0, <1>1, <1>2, <1>3, <2>2 DEF Counters
  <2>3. CASE field = "duplicates"  BY <1>0, <1>1, <1>2, <1>3, <2>3 DEF Counters
  <2> QED  BY <2>1, <2>2, <2>3 DEF Counters
<1> QED  BY <1>3, <1>4 DEF Balanced

\* One more call, counted as processed only.
LEMMA ProcessedBalances ==
  ASSUME PipelineIInv, recordsIn' = recordsIn + 1,
         stats' = [stats EXCEPT !.processed = @ + 1]
  PROVE  Balanced(stats', recordsIn', Unsettled + 1)
<1>0. Balanced(stats, recordsIn, Unsettled) /\ recordsIn \in Nat /\ Unsettled \in Nat
  BY BalancedNow, PipelineTypes
<1>1. /\ stats \in [Counters -> Nat]
      /\ stats["processed"] \in Nat /\ stats["accepted"] \in Nat
      /\ stats["rejected"] \in Nat /\ stats["duplicates"] \in Nat
  BY <1>0 DEF Balanced, Counters
<1>2. /\ stats' \in [Counters -> Nat]
      /\ stats'["processed"] = stats["processed"] + 1
      /\ stats'["accepted"] = stats["accepted"] /\ stats'["rejected"] = stats["rejected"]
      /\ stats'["duplicates"] = stats["duplicates"]
  BY <1>1 DEF Counters
<1>3. /\ stats["processed"] <= recordsIn
      /\ stats["processed"] = stats["accepted"] + stats["rejected"]
                                + stats["duplicates"] + Unsettled
  BY <1>0 DEF Balanced
<1>4. /\ stats'["processed"] <= recordsIn'
      /\ stats'["processed"] = stats'["accepted"] + stats'["rejected"]
                                 + stats'["duplicates"] + (Unsettled + 1)
  BY <1>0, <1>1, <1>2, <1>3
<1> QED  BY <1>2, <1>4 DEF Balanced

\* A step that the bookkeeping, the tables and the order survive.
LEMMA PipelineKept ==
  ASSUME PipelineIInv, recordsIn' \in 0..MaxRecordsIn, recordsIn <= recordsIn',
         IsFiniteSet(checking'), thrown' \in Nat,
         Balanced(stats', recordsIn', Cardinality(checking') + thrown'),
         handlerRegistry' \in [HandlerTypes -> 1..MaxArrays],
         handlersIn' \in [HandlerTypes -> [1..MaxArrays -> Nat]], handlersAdded' \in Nat,
         table' \subseteq PipelineRecords, unsaved' \subseteq PipelineRecords,
         \A r \in raced' : r \in PipelineRecords /\ TypeOfRecord[r] \in PublicTypes,
         \A m \in checking' :
           \/ m \in checking
           \/ /\ m \in [record : PipelineRecords, valid : BOOLEAN, copy : 0..recordsIn']
              /\ m.copy < recordsIn' /\ TypeOfRecord[m.record] \in PublicTypes,
         \A m \in routing' : m \in routing \/ m \in Copies(recordsIn'),
         heardBy' \subseteq PipelineRecords \X HandlerTypes \X (1..MaxArrays) \X Nat,
         heardAgain' \subseteq PipelineRecords,
         Orderly'
  PROVE  PipelineIInv'
<1>1. recordsIn' \in Nat /\ recordsIn \in Nat  BY PipelineTypes
<1>2. stats' \in [Counters -> 0..recordsIn'] /\ thrown' \in 0..recordsIn' /\ BooksBalance'
  BY <1>1, Booked
<1>3. \A k \in 0..recordsIn : k \in 0..recordsIn' /\ (k < recordsIn => k < recordsIn')
  BY <1>1
<1>4. ASSUME NEW m \in checking'
      PROVE  /\ m \in [record : PipelineRecords, valid : BOOLEAN, copy : 0..recordsIn']
             /\ m.copy < recordsIn' /\ TypeOfRecord[m.record] \in PublicTypes
  BY <1>3, PipelineTypes DEF PipelineIInv, PipelineShape
<1>5. ASSUME NEW m \in routing' PROVE m \in Copies(recordsIn')
  <2>1. CASE m \in routing
    <3>1. m \in Copies(recordsIn)  BY <2>1, PipelineTypes
    <3> QED  BY <1>3, <3>1 DEF Copies
  <2> QED  BY <2>1
<1>6. PipelineTypeOK'
  BY <1>2, <1>4, <1>5 DEF PipelineTypeOK, Counters, Copies
<1>7. PipelineShape'  BY <1>4, <1>6 DEF PipelineShape
<1> QED  BY <1>2, <1>7 DEF PipelineIInv

\* Fewer copies under way, as when a routing ends or the process restarts, handlers
\* that come and go, one more call that is refused and the clock touch nothing else.
LEMMA PipelineRests ==
  ASSUME PipelineIInv, recordsIn' \in 0..MaxRecordsIn, recordsIn <= recordsIn',
         checking' \subseteq checking, routing' \subseteq routing, thrown' \in Nat,
         Balanced(stats', recordsIn', Cardinality(checking') + thrown'),
         handlerRegistry' \in [HandlerTypes -> 1..MaxArrays],
         handlersIn' \in [HandlerTypes -> [1..MaxArrays -> Nat]], handlersAdded' \in Nat,
         UNCHANGED <<table, heardBy, heardAgain, raced, unsaved>>
  PROVE  PipelineIInv'
<1>1. IsFiniteSet(checking')  BY PipelineTypes, FS_Subset
<1>2. ASSUME NEW q \in PipelineRecords, q \notin raced' \cup unsaved'
      PROVE  OnceSoFar(q)'
  <2>1. OnceSoFar(q)  BY <1>2 DEF PipelineIInv, Orderly
  <2>2. /\ \A m \in checking' : m \in checking
        /\ \A m \in routing' : m \in routing
    OBVIOUS
  <2> QED  BY <2>1, <2>2 DEF OnceSoFar, BehindIt
<1>3. Orderly'  BY <1>2 DEF Orderly
<1>4. \A r \in raced' : r \in PipelineRecords /\ TypeOfRecord[r] \in PublicTypes
  BY PipelineTypes DEF PipelineIInv, PipelineShape
<1>5. /\ table' \subseteq PipelineRecords /\ unsaved' \subseteq PipelineRecords
      /\ heardBy' \subseteq PipelineRecords \X HandlerTypes \X (1..MaxArrays) \X Nat
      /\ heardAgain' \subseteq PipelineRecords
  BY PipelineTypes
<1> QED  BY <1>1, <1>3, <1>4, <1>5, PipelineKept

\* A call that ends where it began: only the counters move.
LEMMA RefusedStep ==
  ASSUME PipelineIInv, NEW field \in {"rejected", "duplicates"}, Take, stats' = Counted(field),
         UNCHANGED <<table, thrown, registryVars, checking, routing, heardBy, heardAgain,
                     raced, unsaved>>
  PROVE  PipelineIInv'
<1>1. recordsIn' = recordsIn + 1 /\ recordsIn' \in 0..MaxRecordsIn /\ recordsIn <= recordsIn'
  BY PipelineTypes DEF Take
<1>2. Balanced(stats', recordsIn', Unsettled)  BY <1>1, CountedBalances DEF Counters
<1>3. Balanced(stats', recordsIn', Cardinality(checking') + thrown')
  BY <1>2 DEF Unsettled
<1> QED  BY <1>1, <1>3, PipelineTypes, PipelineRests DEF registryVars

\* A record is stored and its routing begins, if its type has handlers.
LEMMA RoutingBegins ==
  ASSUME PipelineIInv, NEW r \in PipelineRecords, NEW n \in 0..recordsIn', StoreAndRoute(r, n),
         checking' \subseteq checking, UNCHANGED <<heardBy, heardAgain, raced>>,
         r \notin raced \cup unsaved =>
           r \notin table /\ \A m \in checking' : m.record # r
  PROVE  /\ table' \subseteq PipelineRecords /\ unsaved' \subseteq PipelineRecords
         /\ \A m \in routing' : m \in routing \/ m \in Copies(recordsIn')
         /\ Orderly'
<1> DEFINE k == TypeOfRecord[r]
           e == [record |-> r, copy |-> n, type |-> k,
                 array |-> handlerRegistry[k], next |-> 1]
<1>1. k \in HandlerTypes  BY DEF HandlerTypes, RecordTypes
<1>2. handlerRegistry[k] \in 1..MaxArrays  BY <1>1, PipelineTypes
<1>3. e \in Copies(recordsIn') /\ e.record = r  BY <1>1, <1>2 DEF Copies
<1>4. /\ routing' = routing \/ routing' = routing \cup {e}
      /\ \/ table' = table \cup {r} /\ unsaved' = unsaved
         \/ table' = table /\ unsaved' = unsaved \cup {r}
  BY DEF StoreAndRoute
<1> HIDE DEF e
<1>5. /\ table' \subseteq PipelineRecords /\ unsaved' \subseteq PipelineRecords
      /\ \A m \in routing' : m \in routing \/ m \in Copies(recordsIn')
  BY <1>3, <1>4, PipelineTypes
<1>6. ASSUME NEW q \in PipelineRecords, q \notin raced' \cup unsaved'
      PROVE  OnceSoFar(q)'
  <2>0. OnceSoFar(q)  BY <1>4, <1>6 DEF PipelineIInv, Orderly
  <2>1. CASE q # r
    <3>1. (q \in table') <=> (q \in table)  BY <1>4, <2>1
    <3>2. \A m : m.record = q => (m \in routing' <=> m \in routing)  BY <1>3, <1>4, <2>1
    <3> QED  BY <2>0, <3>1, <3>2 DEF OnceSoFar, BehindIt
  <2>2. CASE q = r
    <3>1. /\ r \notin table /\ r \in table'
          /\ \A m \in checking' : m.record # r
      BY <1>4, <1>6, <2>2
    <3>2. /\ \A m \in routing : m.record # r
          /\ \A p \in heardBy : p[1] # r
          /\ r \notin heardAgain
      BY <2>0, <2>2, <3>1 DEF OnceSoFar
    <3>3. \A m \in routing' : m.record = r => m = e  BY <1>4, <3>2
    <3> QED  BY <2>2, <3>1, <3>2, <3>3 DEF OnceSoFar, BehindIt
  <2> QED  BY <2>1, <2>2
<1> QED  BY <1>5, <1>6 DEF Orderly

LEMMA TakePrivateStep ==
  ASSUME PipelineIInv, NEW r \in PipelineRecords, TakePrivate(r)
  PROVE  PipelineIInv'
<1>1. /\ recordsIn' = recordsIn + 1 /\ recordsIn' \in 0..MaxRecordsIn
      /\ recordsIn <= recordsIn' /\ recordsIn \in 0..recordsIn' /\ recordsIn \in Nat
      /\ r \notin table /\ TypeOfRecord[r] \notin PublicTypes
      /\ UNCHANGED <<handlerRegistry, handlersIn, handlersAdded, checking, heardBy,
                     heardAgain, raced>>
  BY PipelineTypes DEF TakePrivate, Take, Known, registryVars
<1>2. CASE stats' = Counted("accepted") /\ StoreAndRoute(r, recordsIn) /\ UNCHANGED thrown
  <2>1. Balanced(stats', recordsIn', Unsettled)  BY <1>1, <1>2, CountedBalances DEF Counters
  <2>2. Balanced(stats', recordsIn', Cardinality(checking') + thrown')
    BY <1>1, <1>2, <2>1 DEF Unsettled
  <2>3. \A m \in checking : m.record # r
    BY <1>1 DEF PipelineIInv, PipelineShape
  <2>4. /\ table' \subseteq PipelineRecords /\ unsaved' \subseteq PipelineRecords
        /\ \A m \in routing' : m \in routing \/ m \in Copies(recordsIn')
        /\ Orderly'
    BY <1>1, <1>2, <2>3, RoutingBegins
  <2>5. \A q \in raced' : q \in PipelineRecords /\ TypeOfRecord[q] \in PublicTypes
    BY <1>1, PipelineTypes DEF PipelineIInv, PipelineShape
  <2> QED  BY <1>1, <1>2, <2>2, <2>4, <2>5, PipelineTypes, PipelineKept
<1>3. CASE /\ stats' = [stats EXCEPT !.processed = @ + 1] /\ thrown' = thrown + 1
           /\ UNCHANGED <<table, routing, unsaved>>
  <2>1. Balanced(stats', recordsIn', Unsettled + 1)  BY <1>1, <1>3, ProcessedBalances
  <2>0. checking' = checking /\ thrown' = thrown + 1  BY <1>1, <1>3
  <2>2. Unsettled + 1 = Cardinality(checking') + thrown' /\ thrown' \in Nat
    <3>1. Cardinality(checking) \in Nat /\ thrown \in Nat  BY PipelineTypes
    <3> QED  BY <2>0, <3>1 DEF Unsettled
  <2>3. Balanced(stats', recordsIn', Cardinality(checking') + thrown')  BY <2>1, <2>2
  <2> QED  BY <1>1, <1>3, <2>2, <2>3, PipelineTypes, PipelineRests
<1> QED  BY <1>2, <1>3 DEF TakePrivate

LEMMA TakePublicStep ==
  ASSUME PipelineIInv, NEW r \in PipelineRecords, NEW valid \in BOOLEAN, TakePublic(r, valid)
  PROVE  PipelineIInv'
<1> DEFINE m == [record |-> r, valid |-> valid, copy |-> recordsIn]
<1>1. /\ recordsIn' = recordsIn + 1 /\ recordsIn' \in 0..MaxRecordsIn
      /\ recordsIn <= recordsIn' /\ recordsIn \in 0..recordsIn' /\ recordsIn \in Nat
      /\ recordsIn < recordsIn'
      /\ r \notin table /\ TypeOfRecord[r] \in PublicTypes
      /\ stats' = [stats EXCEPT !.processed = @ + 1]
      /\ checking' = checking \cup {m}
      /\ raced' = IF \E k \in checking : k.record = r THEN raced \cup {r} ELSE raced
      /\ UNCHANGED <<table, thrown, handlerRegistry, handlersIn, handlersAdded, routing,
                     heardBy, heardAgain, unsaved>>
  BY PipelineTypes DEF TakePublic, Take, Known, registryVars
<1>2. m \notin checking /\ m.record = r /\ m.copy = recordsIn
  BY <1>1 DEF PipelineIInv, PipelineShape
<1>3. m \in [record : PipelineRecords, valid : BOOLEAN, copy : 0..recordsIn']  BY <1>1
<1> HIDE DEF m
<1>4. IsFiniteSet(checking') /\ Cardinality(checking') = Cardinality(checking) + 1
  BY <1>1, <1>2, PipelineTypes, FS_AddElement
<1>5. Balanced(stats', recordsIn', Cardinality(checking') + thrown')
  <2>1. Balanced(stats', recordsIn', Unsettled + 1)  BY <1>1, ProcessedBalances
  <2>2. Unsettled + 1 = Cardinality(checking') + thrown'
    BY <1>1, <1>4, PipelineTypes DEF Unsettled
  <2> QED  BY <2>1, <2>2
<1>6. \A k \in checking' :
        \/ k \in checking
        \/ /\ k \in [record : PipelineRecords, valid : BOOLEAN, copy : 0..recordsIn']
           /\ k.copy < recordsIn' /\ TypeOfRecord[k.record] \in PublicTypes
  BY <1>1, <1>2, <1>3
<1>7. \A q \in raced' : q \in PipelineRecords /\ TypeOfRecord[q] \in PublicTypes
  BY <1>1, PipelineTypes DEF PipelineIInv, PipelineShape
<1>8. ASSUME NEW q \in PipelineRecords, q \notin raced' \cup unsaved'
      PROVE  OnceSoFar(q)'
  <2>1. OnceSoFar(q)  BY <1>1, <1>8 DEF PipelineIInv, Orderly
  <2>2. CASE q # r
    <3>1. \A k : k.record = q => (k \in checking' <=> k \in checking)  BY <1>1, <1>2, <2>2
    <3> QED  BY <1>1, <2>1, <3>1 DEF OnceSoFar, BehindIt
  <2>3. CASE q = r
    <3>1. \A k \in checking' : k.record = r => k = m  BY <1>1, <1>8, <2>3
    <3> QED  BY <1>1, <2>1, <2>3, <3>1 DEF OnceSoFar, BehindIt
  <2> QED  BY <2>2, <2>3
<1>9. Orderly'  BY <1>8 DEF Orderly
<1> QED  BY <1>1, <1>4, <1>5, <1>6, <1>7, <1>9, PipelineTypes, PipelineKept

LEMMA SignatureCheckedStep ==
  ASSUME PipelineIInv, NEW m \in checking, SignatureChecked(m)
  PROVE  PipelineIInv'
<1> DEFINE r == m.record
<1>1. /\ checking' = checking \ {m}
      /\ UNCHANGED <<handlerRegistry, handlersIn, handlersAdded, recordsIn, heardBy,
                     heardAgain, raced>>
      /\ r \in PipelineRecords /\ m.copy \in 0..recordsIn' /\ m.valid \in BOOLEAN
      /\ recordsIn \in Nat /\ recordsIn \in 0..MaxRecordsIn /\ recordsIn' = recordsIn
  BY PipelineTypes DEF SignatureChecked, registryVars
<1>2. /\ \/ Settled(m) /\ StoreAndRoute(r, m.copy) /\ UNCHANGED thrown
         \/ Settled(m) /\ UNCHANGED <<table, thrown, routing, unsaved>>
         \/ thrown' = thrown + 1 /\ UNCHANGED <<table, stats, routing, unsaved>>
  BY DEF SignatureChecked
<1>3. /\ IsFiniteSet(checking') /\ Cardinality(checking') = Cardinality(checking) - 1
      /\ Cardinality(checking') \in Nat
  BY <1>1, PipelineTypes, FS_RemoveElement, FS_CardinalityType
<1>4. ASSUME Settled(m), UNCHANGED thrown
      PROVE  Balanced(stats', recordsIn', Cardinality(checking') + thrown')
  <2>1. Balanced(stats, recordsIn, Unsettled)  BY BalancedNow
  <2>2. /\ stats \in [Counters -> Nat]
        /\ stats["processed"] \in Nat /\ stats["accepted"] \in Nat
        /\ stats["rejected"] \in Nat /\ stats["duplicates"] \in Nat
    BY <2>1 DEF Balanced, Counters
  <2>3. /\ stats' \in [Counters -> Nat]
        /\ stats'["processed"] = stats["processed"] /\ stats'["duplicates"] = stats["duplicates"]
        /\ \/ /\ stats'["accepted"] = stats["accepted"] + 1
              /\ stats'["rejected"] = stats["rejected"]
           \/ /\ stats'["accepted"] = stats["accepted"]
              /\ stats'["rejected"] = stats["rejected"] + 1
    <3>1. CASE m.valid = TRUE
      <4>1. stats' = [stats EXCEPT !["accepted"] = @ + 1]  BY <1>4, <3>1 DEF Settled
      <4> QED  BY <2>2, <4>1 DEF Counters
    <3>2. CASE m.valid = FALSE
      <4>1. stats' = [stats EXCEPT !["rejected"] = @ + 1]  BY <1>4, <3>2 DEF Settled
      <4> QED  BY <2>2, <4>1 DEF Counters
    <3> QED  BY <1>1, <3>1, <3>2
  <2>4. /\ stats["processed"] <= recordsIn
        /\ stats["processed"] = stats["accepted"] + stats["rejected"]
                                  + stats["duplicates"] + Unsettled
    BY <2>1 DEF Balanced
  <2>5. Unsettled = Cardinality(checking') + thrown' + 1 /\ thrown' \in Nat
    BY <1>3, <1>4, PipelineTypes DEF Unsettled
  <2>6. /\ stats'["processed"] <= recordsIn'
        /\ stats'["processed"] = stats'["accepted"] + stats'["rejected"]
                                   + stats'["duplicates"] + (Cardinality(checking') + thrown')
    BY <1>1, <1>3, <2>2, <2>3, <2>4, <2>5
  <2> QED  BY <2>3, <2>6 DEF Balanced
<1> HIDE DEF r
<1>5. CASE Settled(m) /\ StoreAndRoute(r, m.copy) /\ UNCHANGED thrown
  <2>1. ASSUME r \notin raced \cup unsaved
        PROVE  r \notin table /\ \A k \in checking' : k.record # r
    <3>1. OnceSoFar(r)  BY <1>1, <2>1 DEF PipelineIInv, Orderly
    <3> QED  BY <1>1, <3>1 DEF OnceSoFar, r
  <2>2. checking' \subseteq checking  BY <1>1
  <2>3. /\ table' \subseteq PipelineRecords /\ unsaved' \subseteq PipelineRecords
        /\ \A k \in routing' : k \in routing \/ k \in Copies(recordsIn')
        /\ Orderly'
    BY <1>1, <1>5, <2>1, <2>2, RoutingBegins
  <2>4. \A q \in raced' : q \in PipelineRecords /\ TypeOfRecord[q] \in PublicTypes
    BY <1>1, PipelineTypes DEF PipelineIInv, PipelineShape
  <2> QED  BY <1>1, <1>3, <1>4, <1>5, <2>2, <2>3, <2>4, PipelineTypes, PipelineKept, SMTT(30)
<1>6. CASE Settled(m) /\ UNCHANGED <<table, thrown, routing, unsaved>>
  BY <1>1, <1>4, <1>6, PipelineTypes, PipelineRests
<1>7. CASE thrown' = thrown + 1 /\ UNCHANGED <<table, stats, routing, unsaved>>
  <2>1. Unsettled = Cardinality(checking') + thrown' /\ thrown' \in Nat
    BY <1>3, <1>7, PipelineTypes DEF Unsettled
  <2>2. Balanced(stats', recordsIn', Cardinality(checking') + thrown')
    BY <1>1, <1>7, <2>1, BalancedNow
  <2> QED  BY <1>1, <1>7, <2>1, <2>2, PipelineTypes, PipelineRests
<1> QED  BY <1>2, <1>5, <1>6, <1>7 DEF r

\* A routing goes on: with the next handler of its array, or with the wildcard's.
LEMMA RoutingGoesOn ==
  ASSUME PipelineIInv, NEW m \in routing, NEW e \in Copies(recordsIn), e.record = m.record,
         routing' \subseteq (routing \ {m}) \cup {e},
         NEW P \in SUBSET (PipelineRecords \X HandlerTypes \X (1..MaxArrays) \X Nat),
         heardBy' = heardBy \cup P, \A p \in P : p[1] = m.record,
         heardAgain' \subseteq heardAgain \cup {m.record},
         \A q \in PipelineRecords \ (raced \cup unsaved) :
           q = m.record /\ OnceSoFar(q) => BehindIt(e)' /\ q \notin heardAgain',
         UNCHANGED <<table, stats, thrown, registryVars, checking, recordsIn, raced, unsaved>>
  PROVE  PipelineIInv'
<1> DEFINE r == m.record
<1>1. m \in Copies(recordsIn) /\ r \in PipelineRecords  BY PipelineTypes DEF Copies
<1> HIDE DEF r
<1>2. ASSUME NEW q \in PipelineRecords, q \notin raced' \cup unsaved'
      PROVE  OnceSoFar(q)'
  <2>1. OnceSoFar(q)  BY <1>2 DEF PipelineIInv, Orderly
  <2>2. CASE q # r
    <3>1. \A k \in routing' : k.record = q => k \in routing  BY <2>2 DEF r
    <3>2. \A p \in heardBy' : p[1] = q => p \in heardBy  BY <2>2 DEF r
    <3>3. q \notin heardAgain'  BY <2>1, <2>2 DEF OnceSoFar, r
    <3> QED  BY <2>1, <3>1, <3>2, <3>3 DEF OnceSoFar, BehindIt
  <2>3. CASE q = r
    <3>1. \A k \in routing' : k.record = r => k = e  BY <2>1, <2>3 DEF OnceSoFar, r
    <3>2. BehindIt(e)' /\ r \notin heardAgain'  BY <1>2, <2>1, <2>3 DEF r
    <3>3. r \in table  BY <2>1, <2>3 DEF OnceSoFar, r
    <3> QED  BY <2>1, <2>3, <3>1, <3>2, <3>3 DEF OnceSoFar
  <2> QED  BY <2>2, <2>3
<1>3. Orderly'  BY <1>2 DEF Orderly
<1>4. Balanced(stats', recordsIn', Cardinality(checking') + thrown')
  BY BalancedNow DEF Unsettled
<1>5. \A q \in raced' : q \in PipelineRecords /\ TypeOfRecord[q] \in PublicTypes
  BY PipelineTypes DEF PipelineIInv, PipelineShape
<1>6. \A k \in routing' : k \in routing \/ k \in Copies(recordsIn')
  OBVIOUS
<1>7. /\ heardBy' \subseteq PipelineRecords \X HandlerTypes \X (1..MaxArrays) \X Nat
      /\ heardAgain' \subseteq PipelineRecords
  BY <1>1, PipelineTypes DEF r
<1>8. recordsIn <= recordsIn'  BY PipelineTypes
<1> QED  BY <1>3, <1>4, <1>5, <1>6, <1>7, <1>8, PipelineTypes, PipelineKept DEF registryVars

\* A handler is called: those before it in the array were, and it was not.
LEMMA CallHandlerStep ==
  ASSUME PipelineIInv, NEW m \in routing, CallHandler(m)
  PROVE  PipelineIInv'
<1> DEFINE e == [m EXCEPT !.next = @ + 1]
           r == m.record
<1>1. m \in Copies(recordsIn)  BY PipelineTypes
<1>2. /\ r \in PipelineRecords /\ m.type \in HandlerTypes
      /\ m.array \in 1..MaxArrays /\ m.next \in Nat
  BY <1>1 DEF Copies
<1>3. /\ e \in Copies(recordsIn) /\ e.record = r /\ e.type = m.type
      /\ e.array = m.array /\ e.next = m.next + 1
  BY <1>1 DEF Copies
<1>4. /\ Place(m) \in PipelineRecords \X HandlerTypes \X (1..MaxArrays) \X Nat
      /\ Place(m)[1] = r /\ Place(m)[2] = m.type
      /\ Place(m)[3] = m.array /\ Place(m)[4] = m.next
  BY <1>2 DEF Place
<1>5. /\ heardBy' = heardBy \cup {Place(m)}
      /\ heardAgain' = IF Place(m) \in heardBy THEN heardAgain \cup {r} ELSE heardAgain
      /\ routing' = (routing \ {m}) \cup {e}
      /\ UNCHANGED <<table, stats, thrown, registryVars, checking, recordsIn, raced, unsaved>>
  BY DEF CallHandler
<1> HIDE DEF e
<1>6. ASSUME NEW q \in PipelineRecords \ (raced \cup unsaved), q = r, OnceSoFar(q)
      PROVE  BehindIt(e)' /\ q \notin heardAgain'
  <2>1. BehindIt(m) /\ q \notin heardAgain  BY <1>6 DEF OnceSoFar
  <2>2. \A p \in heardBy : p[4] \in Nat  BY PipelineTypes
  <2>3. Place(m) \notin heardBy  BY <1>2, <1>4, <2>1 DEF BehindIt
  <2>4. ASSUME NEW p \in heardBy', p[1] = e.record
        PROVE  /\ e.type # Wildcard => p[2] # Wildcard
               /\ p[2] = e.type /\ p[3] = e.array => p[4] < e.next
    <3>1. CASE p = Place(m)  BY <1>2, <1>3, <1>4, <3>1
    <3>2. CASE p \in heardBy  BY <1>2, <1>3, <2>1, <2>2, <2>4, <3>2 DEF BehindIt
    <3> QED  BY <1>5, <3>1, <3>2
  <2>5. BehindIt(e)'  BY <2>4 DEF BehindIt
  <2> QED  BY <1>5, <2>1, <2>3, <2>5
<1> DEFINE P == {Place(m)}
<1>7. /\ P \in SUBSET (PipelineRecords \X HandlerTypes \X (1..MaxArrays) \X Nat)
      /\ heardBy' = heardBy \cup P /\ \A p \in P : p[1] = r
      /\ heardAgain' \subseteq heardAgain \cup {r}
      /\ routing' \subseteq (routing \ {m}) \cup {e}
  BY <1>4, <1>5
<1> HIDE DEF P
<1> QED  BY <1>3, <1>5, <1>6, <1>7, RoutingGoesOn

\* The array of its type is at its end: none of the wildcard's has heard the record.
LEMMA ArrayEndsStep ==
  ASSUME PipelineIInv, NEW m \in routing, ArrayEnds(m)
  PROVE  PipelineIInv'
<1>1. m \in Copies(recordsIn)  BY PipelineTypes
<1>2. Wildcard \in HandlerTypes  BY DEF HandlerTypes
<1>3. handlerRegistry[Wildcard] \in 1..MaxArrays  BY <1>2, PipelineTypes
<1>4. PICK e \in Copies(recordsIn) :
        /\ e = [m EXCEPT !.type = Wildcard, !.array = handlerRegistry[Wildcard], !.next = 1]
        /\ e.record = m.record /\ e.type = Wildcard
  <2> DEFINE x == [m EXCEPT !.type = Wildcard, !.array = handlerRegistry[Wildcard], !.next = 1]
  <2>1. x \in Copies(recordsIn) /\ x.record = m.record /\ x.type = Wildcard
    BY <1>1, <1>2, <1>3 DEF Copies
  <2> QED  BY <2>1
<1>5. /\ routing' = (routing \ {m}) \cup
           (IF m.type = Wildcard \/ HandlerCount(Wildcard) = 0 THEN {} ELSE {e})
      /\ UNCHANGED <<table, stats, thrown, registryVars, checking, recordsIn, heardBy,
                     heardAgain, raced, unsaved>>
  BY <1>4 DEF ArrayEnds
<1>6. CASE m.type = Wildcard \/ HandlerCount(Wildcard) = 0
  <2>1. routing' \subseteq routing  BY <1>5, <1>6
  <2>2. Balanced(stats', recordsIn', Cardinality(checking') + thrown')
    BY <1>5, BalancedNow DEF Unsettled
  <2>3. recordsIn <= recordsIn'  BY <1>5, PipelineTypes
  <2> QED  BY <1>5, <2>1, <2>2, <2>3, PipelineTypes, PipelineRests DEF registryVars
<1>7. CASE ~(m.type = Wildcard \/ HandlerCount(Wildcard) = 0)
  <2>1. routing' \subseteq (routing \ {m}) \cup {e}  BY <1>5
  <2>2. ASSUME NEW q \in PipelineRecords \ (raced \cup unsaved), q = m.record, OnceSoFar(q)
        PROVE  BehindIt(e)' /\ q \notin heardAgain'
    <3>1. BehindIt(m) /\ q \notin heardAgain  BY <2>2 DEF OnceSoFar
    <3>2. \A p \in heardBy : p[1] = m.record => p[2] # Wildcard
      BY <1>7, <3>1 DEF BehindIt
    <3>3. BehindIt(e)'  BY <1>4, <1>5, <3>2 DEF BehindIt
    <3> QED  BY <1>5, <3>1, <3>3
  <2> DEFINE P == {}
  <2>3. /\ P \in SUBSET (PipelineRecords \X HandlerTypes \X (1..MaxArrays) \X Nat)
        /\ heardBy' = heardBy \cup P /\ \A p \in P : p[1] = m.record
        /\ heardAgain' \subseteq heardAgain \cup {m.record}
    BY <1>5
  <2> HIDE DEF P
  <2> QED  BY <1>4, <1>5, <2>1, <2>2, <2>3, RoutingGoesOn
<1> QED  BY <1>6, <1>7

\* Arrays are dropped one after the other.
LEMMA DroppedTypes ==
  ASSUME PipelineIInv, NEW gone \in SUBSET HandlerTypes, ArraysDropped(gone)
  PROVE  /\ handlerRegistry' \in [HandlerTypes -> 1..MaxArrays]
         /\ UNCHANGED <<handlersIn, handlersAdded>>
<1> DEFINE dropped == { k \in gone : HandlerCount(k) > 0 }
<1>1. /\ \A k \in dropped : handlerRegistry[k] < MaxArrays
      /\ handlerRegistry' = [k \in HandlerTypes |->
           IF k \in dropped THEN handlerRegistry[k] + 1 ELSE handlerRegistry[k]]
      /\ UNCHANGED <<handlersIn, handlersAdded>>
  BY DEF ArraysDropped
<1>2. \A k \in HandlerTypes : handlerRegistry[k] \in 1..MaxArrays  BY PipelineTypes
<1> HIDE DEF dropped
<1>3. \A k \in HandlerTypes :
        (IF k \in dropped THEN handlerRegistry[k] + 1 ELSE handlerRegistry[k]) \in 1..MaxArrays
  BY <1>1, <1>2, PipelineAssumption
<1> QED  BY <1>1, <1>3

LEMMA RestartStep ==
  ASSUME PipelineIInv, RestartPipeline
  PROVE  PipelineIInv'
<1>1. /\ stats' = NoStats /\ thrown' = 0 /\ checking' = {} /\ routing' = {}
      /\ UNCHANGED <<table, recordsIn, heardBy, heardAgain, raced, unsaved>>
      /\ ArraysDropped(HandlerTypes)
      /\ recordsIn \in Nat
  BY PipelineTypes DEF RestartPipeline
<1>2. Cardinality({}) = 0  BY FS_EmptySet
<1>3. Balanced(NoStats, recordsIn, 0)  BY <1>1 DEF Balanced, NoStats, Counters
<1>4. Balanced(stats', recordsIn', Cardinality(checking') + thrown')
  <2>1. Cardinality(checking') + thrown' = 0  BY <1>1, <1>2
  <2> QED  BY <1>1, <1>3, <2>1
<1>5. /\ handlerRegistry' \in [HandlerTypes -> 1..MaxArrays]
      /\ UNCHANGED <<handlersIn, handlersAdded>>
  BY <1>1, DroppedTypes
<1>6. recordsIn <= recordsIn' /\ thrown' \in Nat  BY <1>1
<1> QED  BY <1>1, <1>4, <1>5, <1>6, PipelineTypes, PipelineRests

\* A handler is added at the end of its array, also of one that is being walked.
LEMMA AddHandlerStep ==
  ASSUME PipelineIInv, NEW k \in HandlerTypes, addHandler(k)
  PROVE  PipelineIInv'
<1> DEFINE a == handlerRegistry[k]
<1>1. a \in 1..MaxArrays /\ handlersIn[k][a] \in Nat  BY PipelineTypes
<1>2. /\ handlersAdded' \in Nat
      /\ handlersIn' = [handlersIn EXCEPT ![k][a] = @ + 1]
      /\ UNCHANGED <<table, stats, thrown, handlerRegistry, checking, routing, recordsIn,
                     heardBy, heardAgain, raced, unsaved>>
  BY PipelineTypes DEF addHandler
<1>3. handlersIn' \in [HandlerTypes -> [1..MaxArrays -> Nat]]
  BY <1>1, <1>2, PipelineTypes
<1>4. Balanced(stats', recordsIn', Cardinality(checking') + thrown')
  BY <1>2, BalancedNow DEF Unsettled
<1>5. recordsIn <= recordsIn'  BY <1>2, PipelineTypes
<1> QED  BY <1>2, <1>3, <1>4, <1>5, PipelineTypes, PipelineRests

LEMMA RemoveHandlerStep ==
  ASSUME PipelineIInv, NEW k \in HandlerTypes, removeHandler(k)
  PROVE  PipelineIInv'
<1>1. /\ ArraysDropped({k})
      /\ UNCHANGED <<table, stats, thrown, checking, routing, recordsIn, heardBy, heardAgain,
                     raced, unsaved>>
  BY DEF removeHandler
<1>2. /\ handlerRegistry' \in [HandlerTypes -> 1..MaxArrays]
      /\ UNCHANGED <<handlersIn, handlersAdded>>
  BY <1>1, DroppedTypes
<1>3. Balanced(stats', recordsIn', Cardinality(checking') + thrown')
  BY <1>1, BalancedNow DEF Unsettled
<1>4. recordsIn <= recordsIn'  BY <1>1, PipelineTypes
<1> QED  BY <1>1, <1>2, <1>3, <1>4, PipelineTypes, PipelineRests

LEMMA PipelineUntouched ==
  ASSUME PipelineIInv, UNCHANGED pipelineVars
  PROVE  PipelineIInv'
<1>1. UNCHANGED <<table, stats, thrown, handlerRegistry, handlersIn, handlersAdded,
                  checking, routing, recordsIn, heardBy, heardAgain, raced, unsaved>>
  BY DEF pipelineVars, registryVars
<1>2. Balanced(stats', recordsIn', Cardinality(checking') + thrown')
  BY <1>1, BalancedNow DEF Unsettled
<1>3. recordsIn <= recordsIn'  BY <1>1, PipelineTypes
<1> QED  BY <1>1, <1>2, <1>3, PipelineTypes, PipelineRests

LEMMA PipelineInductive == PipelineIInv /\ [PipelineNext]_<<pipelineVars, now>> => PipelineIInv'
<1> SUFFICES ASSUME PipelineIInv, [PipelineNext]_<<pipelineVars, now>> PROVE PipelineIInv'
  OBVIOUS
<1>1. CASE RejectMalformed  BY <1>1, RefusedStep DEF RejectMalformed
<1>2. ASSUME NEW r \in PipelineRecords, RejectDuplicate(r) \/ RejectDrifted(r)
      PROVE  PipelineIInv'
  BY <1>2, RefusedStep DEF RejectDuplicate, RejectDrifted
<1>3. CASE UNCHANGED pipelineVars  BY <1>3, PipelineUntouched
<1>4. CASE PipelineSteps
  BY <1>1, <1>2, <1>4, TakePrivateStep, TakePublicStep, SignatureCheckedStep,
     CallHandlerStep, ArrayEndsStep, RestartStep, AddHandlerStep, RemoveHandlerStep
  DEF PipelineSteps
<1> QED  BY <1>3, <1>4 DEF PipelineNext

LEMMA PipelineInitially == PipelineInit => PipelineIInv
<1> SUFFICES ASSUME PipelineInit PROVE PipelineIInv
  OBVIOUS
<1>1. /\ table = {} /\ stats = NoStats /\ thrown = 0 /\ checking = {} /\ routing = {}
      /\ handlerRegistry = [k \in HandlerTypes |-> 1]
      /\ handlersIn = [k \in HandlerTypes |-> [a \in 1..MaxArrays |-> 0]]
      /\ handlersAdded = 0 /\ recordsIn = 0
      /\ heardBy = {} /\ heardAgain = {} /\ raced = {} /\ unsaved = {}
  BY DEF PipelineInit
<1>2. 0 \in 0..MaxRecordsIn /\ 0 \in 0..0 /\ 1 \in 1..MaxArrays  BY PipelineAssumption
<1>3. /\ NoStats.processed = 0 /\ NoStats.accepted = 0 /\ NoStats.rejected = 0
      /\ NoStats.duplicates = 0
      /\ NoStats \in [{"processed", "accepted", "rejected", "duplicates"} -> 0..0]
  BY <1>2 DEF NoStats
<1>4. IsFiniteSet({}) /\ Cardinality({}) = 0  BY FS_EmptySet
<1>5. PipelineShape  BY <1>1, <1>2, <1>3, <1>4 DEF PipelineShape, PipelineTypeOK
<1>6. BooksBalance  BY <1>1, <1>3, <1>4 DEF BooksBalance
<1>7. Orderly  BY <1>1 DEF Orderly, OnceSoFar
<1> QED  BY <1>5, <1>6, <1>7 DEF PipelineIInv

LEMMA PipelineInvImplies ==
  ASSUME PipelineIInv
  PROVE  PipelineTypeOK /\ BooksBalance /\ RoutedOnce
<1>1. PipelineTypeOK /\ BooksBalance  BY DEF PipelineIInv, PipelineShape
<1>2. heardAgain \subseteq raced \cup unsaved
  <2>1. heardAgain \subseteq PipelineRecords  BY PipelineTypes
  <2> QED  BY <2>1 DEF PipelineIInv, Orderly, OnceSoFar
<1>3. RoutedOnce  BY <1>2 DEF PipelineIInv, PipelineShape, RoutedOnce
<1> QED  BY <1>1, <1>3

\* The tables and copies keep their shape and the counters add up, at every wait of
\* every call and after every restart, for any records, those without data or without
\* references included: the calls that end in an exception are the difference (process).
THEOREM CountersBalance == PipelineSpec => [](PipelineTypeOK /\ BooksBalance)
<1>1. PipelineIInv => PipelineTypeOK /\ BooksBalance  BY PipelineInvImplies
<1> QED  BY <1>1, PipelineInitially, PipelineInductive, PTL DEF PipelineSpec

\* A handler is called at most once for a record that was saved and of which no two
\* copies were checked at once, also when handlers are added and removed while it is
\* routed and the process restarts (process, routeToHandlers, insert).
THEOREM HandlersHearOnce == PipelineSpec => []RoutedOnce
<1>1. PipelineIInv => RoutedOnce  BY PipelineInvImplies
<1> QED  BY <1>1, PipelineInitially, PipelineInductive, PTL DEF PipelineSpec

-----------------------------------------------------------------------------
(* The kill switch.                                                        *)

\* Every copy is under way or has been handled, or neither; and as long as no two
\* were under way at once there was only one.
KillIInv ==
  /\ KillTypeOK
  /\ IsFiniteSet(killChecks) /\ \A c \in killChecks : c < killCopies
  /\ handlerCalls + Cardinality(killChecks) <= killCopies
  /\ handlerCalls # 0 => killReceived
  /\ ~killsOverlapped =>
       /\ \A c, d \in killChecks : c = d
       /\ handlerCalls <= 1 /\ (handlerCalls # 0 => killChecks = {})

LEMMA KillTypes ==
  ASSUME KillIInv
  PROVE  /\ killCopies \in Nat /\ killCopies <= MaxKillCopies /\ MaxKillCopies \in Nat
         /\ handlerCalls \in Nat /\ handlersRunning \in 0..handlerCalls
         /\ Cardinality(killChecks) \in Nat
         /\ killsOverlapped \in BOOLEAN /\ IsFiniteSet(killChecks)
         /\ \A c \in killChecks : c \in 0..killCopies /\ c < killCopies
         /\ handlerCalls + Cardinality(killChecks) <= killCopies
         /\ handlerCalls # 0 => killReceived
         /\ ~killsOverlapped =>
              /\ \A c, d \in killChecks : c = d
              /\ handlerCalls <= 1 /\ (handlerCalls # 0 => killChecks = {})
BY KillAssumption, FS_CardinalityType DEF KillIInv, KillTypeOK

LEMMA KillCopyStep ==
  ASSUME KillIInv, NEW r \in KillRecords, processKillRecord(r)
  PROVE  KillIInv'
<1>1. /\ killCopies < MaxKillCopies /\ ~killReceived
      /\ killCopies' = killCopies + 1 /\ killChecks' = killChecks \cup {killCopies}
      /\ killsOverlapped' = (killsOverlapped \/ killChecks # {})
      /\ UNCHANGED <<rootKeySet, killReceived, handlersRunning, handlerCalls, processUp>>
  BY DEF processKillRecord, Awaited, KillIInv, KillTypeOK
<1>2. handlerCalls = 0  BY <1>1, KillTypes
<1>3. killCopies \notin killChecks  BY KillTypes
<1>4. IsFiniteSet(killChecks') /\ Cardinality(killChecks') = Cardinality(killChecks) + 1
  BY <1>1, <1>3, FS_AddElement, KillTypes
<1>5. handlerCalls' + Cardinality(killChecks') <= killCopies'
  BY <1>1, <1>4, KillTypes
<1>6. /\ killCopies' \in 0..MaxKillCopies /\ handlerCalls' \in 0..killCopies'
      /\ \A c \in killChecks' : c \in 0..killCopies' /\ c < killCopies'
  BY <1>1, <1>2, KillTypes
<1>7. killsOverlapped' \in BOOLEAN /\ (~killsOverlapped' => killChecks = {})
  BY <1>1
<1>8. KillTypeOK'  BY <1>1, <1>6, <1>7 DEF KillIInv, KillTypeOK
<1> QED  BY <1>1, <1>2, <1>4, <1>5, <1>6, <1>7, <1>8 DEF KillIInv

LEMMA KillVerifiedStep ==
  ASSUME KillIInv, NEW c \in killChecks, KillVerified(c)
  PROVE  KillIInv'
<1>1. /\ killChecks' = killChecks \ {c} /\ killReceived' = TRUE
      /\ handlersRunning' = handlersRunning + 1 /\ handlerCalls' = handlerCalls + 1
      /\ UNCHANGED <<rootKeySet, killCopies, processUp, killsOverlapped>>
  BY DEF KillVerified
<1>2. IsFiniteSet(killChecks') /\ Cardinality(killChecks') = Cardinality(killChecks) - 1
  BY <1>1, FS_RemoveElement DEF KillIInv
<1>3. Cardinality(killChecks') \in Nat  BY <1>2, FS_CardinalityType
<1>4. handlerCalls' + Cardinality(killChecks') <= killCopies'
  BY <1>1, <1>2, KillTypes
<1>5. handlerCalls' \in 0..killCopies' /\ handlersRunning' \in 0..handlerCalls'
  BY <1>1, <1>3, <1>4, KillTypes
<1>6. KillTypeOK'  BY <1>1, <1>5 DEF KillIInv, KillTypeOK
<1>7. ~killsOverlapped' => handlerCalls = 0 /\ killChecks' = {}
  BY <1>1, KillTypes
<1> QED  BY <1>1, <1>2, <1>4, <1>6, <1>7, KillTypes DEF KillIInv

LEMMA KillInductive == KillIInv /\ [KillNext]_<<killVars, now>> => KillIInv'
<1> SUFFICES ASSUME KillIInv, [KillNext]_<<killVars, now>> PROVE KillIInv'
  OBVIOUS
<1>1. CASE handleKillSignal
  BY <1>1 DEF handleKillSignal, KillIInv, KillTypeOK
<1>2. CASE KillHandlerEnds
  <2>1. handlersRunning' \in 0..handlerCalls  BY <1>2, KillTypes DEF KillHandlerEnds
  <2> QED  BY <1>2, <2>1 DEF KillHandlerEnds, KillIInv, KillTypeOK
<1>3. CASE KillHandlerFails
  BY <1>3 DEF KillHandlerFails, KillIInv, KillTypeOK
<1>4. CASE UNCHANGED killVars
  BY <1>4 DEF killVars, KillIInv, KillTypeOK
<1> QED
  BY <1>1, <1>2, <1>3, <1>4, KillCopyStep, KillVerifiedStep DEF KillNext, KillSteps

LEMMA KillInitially == KillInit => KillIInv
<1> SUFFICES ASSUME KillInit PROVE KillIInv
  OBVIOUS
<1>1. IsFiniteSet({}) /\ Cardinality({}) = 0  BY FS_EmptySet
<1>2. 0 \in 0..MaxKillCopies /\ 0 \in 0..0  BY KillAssumption
<1>3. /\ killCopies = 0 /\ handlerCalls = 0 /\ handlersRunning = 0 /\ killChecks = {}
      /\ killReceived = FALSE /\ rootKeySet = FALSE /\ processUp = TRUE
      /\ killsOverlapped = FALSE
  BY DEF KillInit
<1>4. KillTypeOK  BY <1>2, <1>3 DEF KillTypeOK
<1> QED  BY <1>1, <1>3, <1>4 DEF KillIInv

LEMMA KillInvImplies ==
  ASSUME KillIInv
  PROVE  KillTypeOK /\ KillHandlerOnce
<1>1. ~killsOverlapped => handlerCalls <= 1 /\ handlerCalls \in Nat
  BY KillTypes DEF KillIInv
<1> QED  BY <1>1, KillTypes DEF KillIInv, KillHandlerOnce

\* The kill handler is called at most once, unless copies were verified at the same
\* time (processKillRecord).
THEOREM KilledOnce == KillSpec => [](KillTypeOK /\ KillHandlerOnce)
<1>1. KillIInv => KillTypeOK /\ KillHandlerOnce  BY KillInvImplies
<1> QED  BY <1>1, KillInitially, KillInductive, PTL DEF KillSpec
=============================================================================
