--------------------------- MODULE OrderProgress ---------------------------
(***************************************************************************)
(* What the web client makes of an order (deriveTransactionProgress in     *)
(* apps/web/lib/dashboard/transaction-progress.ts): which milestone is the *)
(* active one, which step is next and which of the two parties is asked to *)
(* take it.  The operators are functions of the state of the replay engine *)
(* that the node serves; the properties relate what a party is asked for   *)
(* to what the engine would accept from it.                                *)
(***************************************************************************)
EXTENDS Escrow, Sequences

\* The node answers with the state at the end of a replay run.
Served == ~closing /\ now <= asOf

\* The orders in which the milestones of an order may be listed.
Listings(o) == Bijection(1 .. Cardinality(orders[o].spec), orders[o].spec)

-----------------------------------------------------------------------------
\* Mutant of Closed: an order is closed when one of its milestones is terminal.
ClosedByOne(o) == \E k \in orders[o].spec : status[k] \in Terminal

\* The status of an order that the engine reports is derived from its milestones.
Closed(o) == \A k \in orders[o].spec : status[k] \in Terminal

MilestoneFunded(k) ==
  funded[k] >= amount[k] \/ status[k] \in {"Funded", "Delivered", "Accepted"}

MilestoneDelivered(k) == status[k] \in {"Delivered", "Accepted"}

MilestoneAccepted(k) == status[k] = "Accepted" \/ Closed(OrderOf[k])

MilestoneDisputed(k) == status[k] = "Disputed"

\* The first milestone of the list that is not accepted, or the last one.
ActiveMilestone(list) ==
  LET waiting == {n \in DOMAIN list : ~MilestoneAccepted(list[n])
                                        \/ MilestoneDisputed(list[n])}
  IN list[IF waiting = {} THEN Len(list)
          ELSE CHOOSE n \in waiting : \A other \in waiting : n <= other]

-----------------------------------------------------------------------------
NeedsFunding(k) == funded[k] < amount[k] /\ status[k] \in {"Open", "PartiallyFunded"}

ReadyForDelivery(k) == status[k] = "Funded"

ReadyForAccept(k) == status[k] = "Delivered"

\* The step the progress bar stands at.
CurrentStep(k) == IF ~MilestoneFunded(k) THEN "fund"
                  ELSE IF ~MilestoneDelivered(k) THEN "deliver"
                  ELSE IF ~MilestoneAccepted(k) THEN "accept" ELSE "none"

\* Whose turn it is to take a step.
Taker(step) == CASE step \in {"fund", "accept"} -> "buyer"
                 [] step = "deliver" -> "provider"
                 [] OTHER -> "nobody"

\* What the status of a milestone asks of a party.
Ready(k, role) ==
  CASE role = "buyer" /\ NeedsFunding(k) -> "fund"
    [] role = "provider" /\ ReadyForDelivery(k) -> "deliver"
    [] role = "buyer" /\ ReadyForAccept(k) -> "accept"
    [] OTHER -> "none"

\* The step a party is asked for, "none" when it has to wait: what the status of
\* the active milestone asks, else the step of the progress bar if it is its turn.
AskedFor(list, role) ==
  LET k == ActiveMilestone(list)
  IN IF MilestoneDisputed(k) THEN "settle"
     ELSE IF \A n \in DOMAIN list : MilestoneAccepted(list[n]) THEN "none"
     ELSE IF Ready(k, role) # "none" THEN Ready(k, role)
     ELSE IF Taker(CurrentStep(k)) = role THEN CurrentStep(k) ELSE "none"

-----------------------------------------------------------------------------
(* Properties *)

\* Whether the engine takes the step, in an event created at t, from the party it
\* is asked of: the buyer spends what is missing, an acceptance refers to the
\* delivery of the milestone, a settlement returns everything.  These are the
\* engine's checks of the order and the milestone; it also asks for a balance and
\* a fresh nonce of a spend, for the evidence of a delivery, and for a provider
\* who is eligible and under the issuance limit when a delivery is accepted.
Applies(step, k, t) ==
  CASE step = "fund" -> /\ amount[k] > funded[k]
                        /\ FundingOk(OrderIn(k).buyer, k, amount[k] - funded[k])
    [] step = "deliver" -> /\ status[k] = "Funded"
                           /\ DeliveryOk(OrderIn(k).provider, k)
    [] step = "accept" -> /\ status[k] = "Delivered"
                          /\ AcceptanceOk(OrderIn(k).buyer, k, k, t)
    [] step = "settle" -> \A i \in {OrderIn(k).buyer, OrderIn(k).provider} :
                            /\ SettlementOk(i, k, funded[k], 0)
                            /\ status[k] \in Contested

Parties == {"buyer", "provider"}

\* The acceptance window of a delivered milestone is over at t: the client, which
\* does not look at the window, goes on asking the buyer to accept.
Late(k, t) == status[k] = "Delivered" /\ t > deliveredAt[k] + AcceptanceWindow

\* While the active milestone is neither waiting for a counterparty nor closed on
\* its own, an open order waits for exactly one party, or for both to settle a
\* dispute; the step asked for is the one the guided form is opened with, and
\* whenever it is taken from now on the order lets the engine apply it, but for an
\* acceptance after the window.  Nobody is asked exactly when every milestone is
\* terminal.
RightStepIsAsked ==
  Served => \A o \in Orders : Placed(o) => \A list \in Listings(o) :
    LET k == ActiveMilestone(list)
        asked == [role \in Parties |-> AskedFor(list, role)]
        steps == {asked[role] : role \in Parties} \ {"none"}
        later == {t \in Times : t > asOf}
    IN
    /\ (steps = {}) <=> (\A j \in orders[o].spec : status[j] \in Terminal)
    /\ status[k] \in Fundable \cup {"Delivered"} =>
         /\ steps = {CurrentStep(k)}
         /\ \E role \in Parties : asked[role] = "none"
         /\ \A t \in later : Applies(CurrentStep(k), k, t) <=> ~Late(k, t)
    /\ status[k] = "Disputed" =>
         /\ \A role \in Parties : asked[role] = "settle"
         /\ \A t \in later : Applies("settle", k, t)
=============================================================================
