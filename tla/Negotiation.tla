---------------------------- MODULE Negotiation ----------------------------
(***************************************************************************)
(* The price negotiation of the bidder (src/src/marketplace/bidder.ts):    *)
(* the requester makes offers, the bidder accepts, counters at the         *)
(* midpoint or rejects.                                                    *)
(*                                                                         *)
(* Prices are whole numbers of a small unit; a price the bidder writes is  *)
(* rounded to a multiple of Grid (toFixed(6)).  A closed negotiation is    *)
(* not protected: the next offer reopens it while rounds are left.  The    *)
(* first bid is the caller's, and is neither compared with the minimum nor *)
(* rounded; firstBid remembers it for the properties.                      *)
(***************************************************************************)
EXTENDS Naturals, FiniteSets

CONSTANTS
  NegotiatedTasks,
  Prices,      \* the offers of requesters
  FirstBids,   \* the prices negotiations are started with
  MinPrice,    \* config.minPriceXmr
  MaxRounds,   \* maxRounds, 5
  Grid,        \* the units in 0.000001 XMR
  MaxOffers    \* bound: rounds of a negotiation

ASSUME NegotiationAssumption ==
  /\ Prices \subseteq Nat /\ Grid \in Nat \ {0}
  /\ FirstBids \subseteq Nat
  /\ MinPrice \in Nat /\ MaxRounds \in Nat \ {0} /\ MaxOffers \in Nat \ {0}

VARIABLE negotiations  \* [task] -> its negotiation, or NoNegotiation

NoNegotiation == [state |-> "none"]

NegotiationInit == negotiations = [t \in NegotiatedTasks |-> NoNegotiation]

\* A new negotiation replaces the one there was.
startNegotiation(t, bid) ==
  negotiations' = [negotiations EXCEPT ![t] =
    [state |-> "bid_sent", ourBid |-> bid, theirOffer |-> 0, rounds |-> 1,
     firstBid |-> bid]]

\* What toFixed makes of half the sum of two prices.
RoundedHalf(sum, r) ==
  /\ r % Grid = 0
  /\ 2 * r <= sum + Grid /\ sum <= 2 * r + Grid

\* Mutant of Outcome: the midpoint is not compared with the minimum.
OutcomeLow(neg, offer, rounds) ==
  CASE rounds > MaxRounds -> {[state |-> "rejected", bid |-> neg.ourBid]}
    [] rounds <= MaxRounds /\ offer >= MinPrice ->
         {[state |-> "accepted", bid |-> neg.ourBid]}
    [] OTHER ->
         { [state |-> "counter_sent", bid |-> r] :
             r \in { b \in 0..neg.ourBid : RoundedHalf(offer + neg.ourBid, b) } }

\* The state and bid that may follow an offer: too many rounds, acceptable, worth a
\* counter-offer, or too low.
Outcome(neg, offer, rounds) ==
  CASE rounds > MaxRounds -> {[state |-> "rejected", bid |-> neg.ourBid]}
    [] rounds <= MaxRounds /\ offer >= MinPrice ->
         {[state |-> "accepted", bid |-> neg.ourBid]}
    [] rounds <= MaxRounds /\ offer < MinPrice /\ offer + neg.ourBid >= 2 * MinPrice ->
         { [state |-> "counter_sent", bid |-> r] :
             r \in { b \in 0..(offer + neg.ourBid + Grid) :
                       RoundedHalf(offer + neg.ourBid, b) } }
    [] OTHER -> {[state |-> "rejected", bid |-> neg.ourBid]}

handleCounter(t, offer) ==
  LET neg == negotiations[t] IN
  /\ neg # NoNegotiation /\ neg.rounds < MaxOffers
  /\ \E o \in Outcome(neg, offer, neg.rounds + 1) :
       negotiations' = [negotiations EXCEPT ![t] =
         [state |-> o.state, ourBid |-> o.bid, theirOffer |-> offer,
          rounds |-> neg.rounds + 1, firstBid |-> neg.firstBid]]

NegotiationNext ==
  \E t \in NegotiatedTasks :
    \/ \E bid \in FirstBids : startNegotiation(t, bid)
    \/ \E offer \in Prices : handleCounter(t, offer)

NegotiationSpec == NegotiationInit /\ [][NegotiationNext]_negotiations

-----------------------------------------------------------------------------
(* Properties.                                                             *)

NegotiationTypeOK ==
  negotiations \in [NegotiatedTasks -> {NoNegotiation} \cup
    [state : {"bid_sent", "counter_sent", "accepted", "rejected"}, ourBid : Nat,
     theirOffer : {0} \cup Prices, rounds : 1..MaxOffers, firstBid : FirstBids]]

\* However often a negotiation is countered, closed and reopened, and whatever it
\* was started with, a bid that is not the first one is at or above the minimum, up
\* to the rounding of the last digit; what is accepted is no less than the minimum;
\* and past the last round it is rejected, until a new one is started
\* (startNegotiation, handleCounter).
PriceFloor ==
  \A t \in NegotiatedTasks : LET neg == negotiations[t] IN
    neg # NoNegotiation =>
      /\ neg.ourBid = neg.firstBid \/ 2 * neg.ourBid + Grid >= 2 * MinPrice
      /\ neg.state = "accepted" => neg.theirOffer >= MinPrice
      /\ neg.rounds > MaxRounds => neg.state = "rejected"
=============================================================================
