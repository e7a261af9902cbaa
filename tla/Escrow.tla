------------------------------- MODULE Escrow -------------------------------
(***************************************************************************)
(* The escrow of the replay engine (crates/state-engine/src/replay.rs):    *)
(* credits of a buyer are locked in the milestones of an order and leave   *)
(* them again by acceptance, by a paired settlement, cancellation or       *)
(* amendment, or by the refund of an overdue dispute that ends every       *)
(* replay run.  One action is one signed event the engine applies, in the  *)
(* order of their creation times; the end of a run (into_replay_run) and   *)
(* its resumption from the checkpoint are actions too.                     *)
(*                                                                         *)
(* An event that fails a guard is rejected and, for most kinds, changes    *)
(* nothing: a stutter here.  The two kinds whose handlers write before     *)
(* they have finished checking, SpendCredits and ServiceOrder, have        *)
(* rejection actions of their own.                                         *)
(*                                                                         *)
(* A reference to an event is the milestone that event is about, because   *)
(* a milestone is delivered, disputed and cancelled at most once; an       *)
(* amendment can be proposed again and is numbered.  Policy parameters     *)
(* are constants, keys are the identities they resolve to, and a balance   *)
(* is the sum of an identity's lots, from which normalize_lots may take an *)
(* arbitrary loss (decay and expiry) each time the code calls it.          *)
(***************************************************************************)
EXTENDS Integers, FiniteSets, Functions

CONSTANTS
  Ids,                   \* identity roots
  Orders,                \* order ids
  Milestones,            \* milestone keys: an order id and a milestone id
  OrderOf,               \* the order a milestone key belongs to
  Nonces,                \* nonces of SpendCredits events
  None,                  \* no identity
  MaxMilestonesPerOrder, \* policy.max_milestones_per_order
  MaxMilestoneCredits,   \* policy.max_milestone_credits
  AcceptanceWindow,      \* policy.acceptance_window_seconds
  DisputeTimeout,        \* policy.dispute_timeout_seconds
  Expiries,              \* the values of orderExpiresAt that events carry
  MaxMinted,             \* bound: credits minted from contributions
  MaxTime,               \* bound: creation times of events
  MaxAmends,             \* bound: amendments proposed for one milestone
  MaxRejected,           \* bound: rejected SpendCredits and ServiceOrder events
  MaxLoss                \* bound: credits one normalisation takes

ASSUME NoneFresh == None \notin Ids
ASSUME FiniteType == IsFiniteSet(Ids) /\ IsFiniteSet(Milestones)
ASSUME OrderOfType == OrderOf \in [Milestones -> Orders]
ASSUME PolicyType ==
  /\ MaxMilestonesPerOrder \in Nat \ {0}
  /\ MaxMilestoneCredits \in Nat \ {0}
  /\ AcceptanceWindow \in Nat \ {0}
  /\ DisputeTimeout \in Nat \ {0}
  /\ Expiries \subseteq Nat
ASSUME BoundsType ==
  /\ MaxMinted \in Nat
  /\ MaxTime \in Nat
  /\ MaxAmends \in Nat
  /\ MaxRejected \in Nat
  /\ MaxLoss \in Nat

VARIABLES
  now,        \* last_event_time: creation time of the last event processed
  asOf,       \* as_of of the last run that ended, NoTime before the first
  closing,    \* whether a run is being ended
  orders,     \* ReplayOrderRecord of each order
  \* The fields of the ReplayMilestoneRecord of each milestone key:
  status, amount, funded,
  deliveredAt, timeoutAt,  \* creation of its delivery, dispute_timeout_at
  refund, reward,          \* buyer_refund_credits, provider_reward_credits
  settling,                \* pending_settlement_*, pending_*_credits
  cancelling,              \* pending_cancel_author
  amending,                \* pending_amend_*
  amends,                  \* number of the last amendment proposed
  bal,        \* sum of the remaining amounts of an identity's lots
  lost,       \* what decay and expiry have taken from an identity's lots
  minted,     \* credits minted from contributions
  sunk,       \* credits spent into sinks other than escrow
  nonces,     \* used (spender, sink, nonce) triples
  drawn,      \* credits spent into each milestone
  toBuyer,    \* credits of the lots each milestone has issued to its buyer
  toProvider, \* credits of the lots each milestone has issued to its provider
  signed,     \* the applied handshake events
  rejected    \* rejected SpendCredits and ServiceOrder events

wallet == <<bal, lost, minted, sunk, nonces>>
ledger == <<drawn, toBuyer, toProvider>>
clock == <<now, asOf, closing>>
price == <<amount, funded>>
times == <<deliveredAt, timeoutAt>>
outcome == <<refund, reward>>
pending == <<settling, cancelling, amending, amends>>
milestones == <<status, price, times, outcome, pending>>
vars == <<clock, orders, milestones, wallet, ledger, signed, rejected>>

-----------------------------------------------------------------------------
NoTime == -1

Fundable == {"Open", "PartiallyFunded", "Funded"}
Contested == {"Disputed", "SettlementPending"}
Terminal == {"Accepted", "Settled", "AutoRefunded", "Cancelled"}
Statuses == {"Absent", "Delivered", "CancelPending", "AmendPending"}
              \cup Fundable \cup Contested \cup Terminal

Order == [buyer : Ids, provider : Ids, spec : SUBSET Milestones, expires : Nat]

Settlement == [by : Ids \cup {None}, refund : Nat, reward : Nat]
Amendment == [by : Ids \cup {None}, amount : Nat, expires : Nat]

\* An applied ServiceSettle, ServiceCancel or OrderAmend event: its author, its
\* milestone, the two numbers it agrees to and the proposal it belongs to.
Signature == [kind : {"settle", "cancel", "amend"}, by : Ids, key : Milestones,
              terms : Nat \X Nat, ref : Nat]

NoOrder == [buyer |-> None, provider |-> None, spec |-> {}, expires |-> 0]
NoSettlement == [by |-> None, refund |-> 0, reward |-> 0]
NoAmendment == [by |-> None, amount |-> 0, expires |-> 0]

OrderIn(k) == orders[OrderOf[k]]
Placed(o) == orders[o].buyer # None
IsParty(i, k) == Placed(OrderOf[k]) /\ i \in {OrderIn(k).buyer, OrderIn(k).provider}

\* The credits a milestone still holds: the record keeps its funded amount for
\* good, but what a terminal milestone held has been paid out.
Held(k) == IF status[k] \in Terminal THEN 0 ELSE funded[k]

TypeOK ==
  /\ now \in Nat /\ asOf \in Int /\ closing \in BOOLEAN
  /\ orders \in [Orders -> Order \cup {NoOrder}]
  /\ status \in [Milestones -> Statuses]
  /\ amount \in [Milestones -> Nat] /\ funded \in [Milestones -> Nat]
  /\ deliveredAt \in [Milestones -> Int] /\ timeoutAt \in [Milestones -> Int]
  /\ refund \in [Milestones -> Nat] /\ reward \in [Milestones -> Nat]
  /\ settling \in [Milestones -> Settlement]
  /\ cancelling \in [Milestones -> Ids \cup {None}]
  /\ amending \in [Milestones -> Amendment]
  /\ amends \in [Milestones -> Nat]
  /\ bal \in [Ids -> Nat] /\ lost \in [Ids -> Nat]
  /\ minted \in Nat /\ sunk \in Nat
  /\ nonces \subseteq Ids \X {"ServiceEscrowSink", "burn"} \X Nonces
  /\ drawn \in [Milestones -> Nat]
  /\ toBuyer \in [Milestones -> Nat] /\ toProvider \in [Milestones -> Nat]
  /\ signed \subseteq Signature
  /\ rejected \in Nat

Init ==
  /\ now = 0 /\ asOf = NoTime /\ closing = FALSE
  /\ orders = [o \in Orders |-> NoOrder]
  /\ status = [k \in Milestones |-> "Absent"]
  /\ amount = [k \in Milestones |-> 0] /\ funded = [k \in Milestones |-> 0]
  /\ deliveredAt = [k \in Milestones |-> NoTime]
  /\ timeoutAt = [k \in Milestones |-> NoTime]
  /\ refund = [k \in Milestones |-> 0] /\ reward = [k \in Milestones |-> 0]
  /\ settling = [k \in Milestones |-> NoSettlement]
  /\ cancelling = [k \in Milestones |-> None]
  /\ amending = [k \in Milestones |-> NoAmendment]
  /\ amends = [k \in Milestones |-> 0]
  /\ bal = [i \in Ids |-> 0] /\ lost = [i \in Ids |-> 0]
  /\ minted = 0 /\ sunk = 0 /\ nonces = {}
  /\ drawn = [k \in Milestones |-> 0]
  /\ toBuyer = [k \in Milestones |-> 0] /\ toProvider = [k \in Milestones |-> 0]
  /\ signed = {} /\ rejected = 0

-----------------------------------------------------------------------------
\* The engine processes an event created at t: events come in creation order,
\* and those of a resumed run are later than the as_of of the checkpoint.
Event(t) ==
  /\ ~closing
  /\ now <= t /\ asOf < t /\ t <= MaxTime
  /\ now' = t
  /\ UNCHANGED <<asOf, closing>>

Move(k, from, to) ==
  /\ status[k] \in from
  /\ status' = [status EXCEPT ![k] = to]

\* What a normalisation of i's lots may take.
CanLose(i, loss) == loss <= bal[i] /\ loss <= MaxLoss

\* Mutant of Credit: the new lot replaces the lots the identity had.
CreditReplacesLots(i, loss, a) ==
  /\ CanLose(i, loss)
  /\ bal' = [bal EXCEPT ![i] = a]
  /\ lost' = [lost EXCEPT ![i] = @ + loss]

\* normalize_lots takes loss from i, and a new lot of a credits is pushed.
Credit(i, loss, a) ==
  /\ CanLose(i, loss)
  /\ bal' = [bal EXCEPT ![i] = @ - loss + a]
  /\ lost' = [lost EXCEPT ![i] = @ + loss]

\* The same when the code skips both for an amount of zero.
CreditIfPositive(i, loss, a) ==
  /\ (a = 0) => (loss = 0)
  /\ Credit(i, loss, a)

\* The lot that MintCredits pushes for an approved contribution claim.
MintCredits(i, a, loss, t) ==
  /\ Event(t)
  /\ minted + a <= MaxMinted
  /\ Credit(i, loss, a)
  /\ minted' = minted + a
  /\ UNCHANGED <<orders, milestones, sunk, nonces, ledger, signed, rejected>>

-----------------------------------------------------------------------------
\* Mutant of OrderOk: an order id is not refused when it is used again.
OrderOkAgain(o, amounts) ==
  /\ DOMAIN amounts # {}
  /\ Cardinality(DOMAIN amounts) <= MaxMilestonesPerOrder
  /\ \A k \in DOMAIN amounts : OrderOf[k] = o

\* ServiceOrder.  amounts maps the milestones ordered to their credits.
OrderOk(o, amounts) ==
  /\ ~Placed(o)
  /\ DOMAIN amounts # {}
  /\ Cardinality(DOMAIN amounts) <= MaxMilestonesPerOrder
  /\ \A k \in DOMAIN amounts : OrderOf[k] = o

Reset(f, M, v) == [k \in Milestones |-> IF k \in M THEN v ELSE f[k]]

\* Fresh records for the milestones, whatever was there.
OpenMilestones(amounts) ==
  LET M == DOMAIN amounts
  IN
  /\ status' = Reset(status, M, "Open")
  /\ amount' = [k \in Milestones |-> IF k \in M THEN amounts[k] ELSE amount[k]]
  /\ funded' = Reset(funded, M, 0)
  /\ deliveredAt' = Reset(deliveredAt, M, NoTime)
  /\ timeoutAt' = Reset(timeoutAt, M, NoTime)
  /\ refund' = Reset(refund, M, 0) /\ reward' = Reset(reward, M, 0)
  /\ settling' = Reset(settling, M, NoSettlement)
  /\ cancelling' = Reset(cancelling, M, None)
  /\ amending' = Reset(amending, M, NoAmendment)
  /\ amends' = Reset(amends, M, 0)

PlaceOrder(o, b, p, amounts, x, t) ==
  /\ Event(t)
  /\ OrderOk(o, amounts)
  /\ x > t
  /\ OpenMilestones(amounts)
  /\ orders' = [orders EXCEPT ![o] = [buyer |-> b, provider |-> p,
                                      spec |-> DOMAIN amounts, expires |-> x]]
  /\ UNCHANGED <<wallet, ledger, signed, rejected>>

\* A ServiceOrder one of whose later milestones fails validation (a duplicate,
\* an amount over the cap, evidence the offer does not allow): the milestones
\* before it have been inserted and stay.
RejectOrder(o, amounts, t) ==
  /\ Event(t)
  /\ rejected < MaxRejected
  /\ OrderOk(o, amounts)
  /\ Cardinality(DOMAIN amounts) < MaxMilestonesPerOrder
  /\ OpenMilestones(amounts)
  /\ rejected' = rejected + 1
  /\ UNCHANGED <<orders, wallet, ledger, signed>>

-----------------------------------------------------------------------------
\* SpendCredits: the nonce is consumed and the lots normalised before the
\* balance and the milestone are looked at.
FreshNonce(i, sink, n) == <<i, sink, n>> \notin nonces

\* Mutant of CoveredBy: the balance of before the normalisation counts.
CoveredByStale(i, a, loss) == a <= bal[i]

CoveredBy(i, a, loss) == a <= bal[i] - loss

FundingOk(i, k, a) ==
  /\ Placed(OrderOf[k]) /\ OrderIn(k).buyer = i
  /\ k \in OrderIn(k).spec
  /\ status[k] \in Fundable
  /\ funded[k] + a <= amount[k]

FundMilestone(i, k, a, n, loss, t) ==
  /\ Event(t)
  /\ FreshNonce(i, "ServiceEscrowSink", n)
  /\ CanLose(i, loss) /\ CoveredBy(i, a, loss)
  /\ FundingOk(i, k, a)
  /\ funded' = [funded EXCEPT ![k] = @ + a]
  /\ status' = [status EXCEPT ![k] = IF funded[k] + a = amount[k]
                                       THEN "Funded" ELSE "PartiallyFunded"]
  /\ bal' = [bal EXCEPT ![i] = @ - loss - a]
  /\ lost' = [lost EXCEPT ![i] = @ + loss]
  /\ nonces' = nonces \cup {<<i, "ServiceEscrowSink", n>>}
  /\ drawn' = [drawn EXCEPT ![k] = @ + a]
  /\ UNCHANGED <<orders, amount, times, outcome, pending, minted, sunk,
                 toBuyer, toProvider, signed, rejected>>

SpendToSink(i, a, n, loss, t) ==
  /\ Event(t)
  /\ FreshNonce(i, "burn", n)
  /\ CanLose(i, loss) /\ CoveredBy(i, a, loss)
  /\ bal' = [bal EXCEPT ![i] = @ - loss - a]
  /\ lost' = [lost EXCEPT ![i] = @ + loss]
  /\ sunk' = sunk + a
  /\ nonces' = nonces \cup {<<i, "burn", n>>}
  /\ UNCHANGED <<orders, milestones, minted, ledger, signed, rejected>>

RejectFunding(i, k, a, n, loss, t) ==
  /\ Event(t)
  /\ rejected < MaxRejected
  /\ FreshNonce(i, "ServiceEscrowSink", n)
  /\ CanLose(i, loss)
  /\ ~CoveredBy(i, a, loss) \/ ~FundingOk(i, k, a)
  /\ bal' = [bal EXCEPT ![i] = @ - loss]
  /\ lost' = [lost EXCEPT ![i] = @ + loss]
  /\ nonces' = nonces \cup {<<i, "ServiceEscrowSink", n>>}
  /\ rejected' = rejected + 1
  /\ UNCHANGED <<orders, milestones, minted, sunk, ledger, signed>>

-----------------------------------------------------------------------------
DeliveryOk(by, k) ==
  /\ Placed(OrderOf[k]) /\ OrderIn(k).provider = by
  /\ k \in OrderIn(k).spec

Deliver(by, k, t) ==
  /\ Event(t)
  /\ DeliveryOk(by, k)
  /\ Move(k, {"Funded"}, "Delivered")
  /\ deliveredAt' = [deliveredAt EXCEPT ![k] = t]
  /\ UNCHANGED <<orders, price, timeoutAt, outcome, pending, wallet, ledger,
                 signed, rejected>>

\* Mutant of OwnDelivery: any delivery will do.
AnyDelivery(k, d) == TRUE

\* The referenced delivery is the one recorded in the milestone.
OwnDelivery(k, d) == d = k

\* d is the milestone of the delivery the event refers to: the window is that
\* delivery's, and the delivery must be the milestone's own.
AcceptanceOk(by, k, d, t) ==
  /\ deliveredAt[d] # NoTime
  /\ t <= deliveredAt[d] + AcceptanceWindow
  /\ Placed(OrderOf[k]) /\ OrderIn(k).buyer = by
  /\ OwnDelivery(k, d)

Accept(by, k, d, loss, t) ==
  /\ Event(t)
  /\ AcceptanceOk(by, k, d, t)
  /\ Move(k, {"Delivered"}, "Accepted")
  /\ refund' = [refund EXCEPT ![k] = 0]
  /\ reward' = [reward EXCEPT ![k] = funded[k]]
  /\ Credit(OrderIn(k).provider, loss, funded[k])
  /\ toProvider' = [toProvider EXCEPT ![k] = @ + funded[k]]
  /\ UNCHANGED <<orders, price, times, pending, minted, sunk, nonces, drawn,
                 toBuyer, signed, rejected>>

\* at is the payload's disputedAt; the event itself may be created later.
Dispute(by, k, d, at, t) ==
  /\ Event(t)
  /\ deliveredAt[d] # NoTime
  /\ at <= deliveredAt[d] + AcceptanceWindow
  /\ Placed(OrderOf[k]) /\ OrderIn(k).buyer = by
  /\ OwnDelivery(k, d)
  /\ Move(k, {"Delivered"}, "Disputed")
  /\ timeoutAt' = [timeoutAt EXCEPT ![k] = at + DisputeTimeout]
  /\ UNCHANGED <<orders, price, deliveredAt, outcome, pending, wallet, ledger,
                 signed, rejected>>

-----------------------------------------------------------------------------
\* Mutant of Counterparty: whoever proposed may also confirm.
Anyone(by, author) == TRUE

\* A matching event comes from the party that did not propose.
Counterparty(by, author) == author # by

Sign(kind, by, k, terms, ref) ==
  signed' = signed \cup {[kind |-> kind, by |-> by, key |-> k,
                          terms |-> terms, ref |-> ref]}

\* Mutant of SettlementOk: the amounts need not use up what was funded.
SettlementAnySum(by, k, r, w) ==
  /\ IsParty(by, k)
  /\ timeoutAt[k] # NoTime
  /\ r > 0

\* ServiceSettle, r credits to the buyer and w to the provider.  The outcome is
\* buyerWins when the provider gets nothing and split when both get something;
\* the amounts sum to the funded amount.
SettlementOk(by, k, r, w) ==
  /\ IsParty(by, k)
  /\ timeoutAt[k] # NoTime
  /\ r + w = funded[k]
  /\ r > 0

ProposeSettlement(by, k, r, w, t) ==
  /\ Event(t)
  /\ SettlementOk(by, k, r, w)
  /\ Move(k, {"Disputed"}, "SettlementPending")
  /\ settling' = [settling EXCEPT ![k] = [by |-> by, refund |-> r, reward |-> w]]
  /\ Sign("settle", by, k, <<r, w>>, 0)
  /\ UNCHANGED <<orders, price, times, outcome, cancelling, amending, amends,
                 wallet, ledger, rejected>>

\* lossB and lossP are what normalisation takes from the buyer and the provider.
MatchSettlement(by, k, r, w, lossB, lossP, t) ==
  LET b == OrderIn(k).buyer
      p == OrderIn(k).provider
  IN
  /\ Event(t)
  /\ SettlementOk(by, k, r, w)
  /\ Counterparty(by, settling[k].by)
  /\ settling[k].refund = r /\ settling[k].reward = w
  /\ CanLose(b, lossB) /\ CanLose(p, lossP)
  /\ (w = 0) => (lossP = 0)
  /\ Move(k, {"SettlementPending"}, "Settled")
  /\ settling' = [settling EXCEPT ![k] = NoSettlement]
  /\ refund' = [refund EXCEPT ![k] = r]
  /\ reward' = [reward EXCEPT ![k] = w]
  /\ bal' = [bal EXCEPT ![b] = @ - lossB + r, ![p] = @ - lossP + w]
  /\ lost' = [lost EXCEPT ![b] = @ + lossB, ![p] = @ + lossP]
  /\ toBuyer' = [toBuyer EXCEPT ![k] = @ + r]
  /\ toProvider' = [toProvider EXCEPT ![k] = @ + w]
  /\ Sign("settle", by, k, <<r, w>>, 0)
  /\ UNCHANGED <<orders, price, times, cancelling, amending, amends, minted, sunk,
                 nonces, drawn, rejected>>

-----------------------------------------------------------------------------
\* ServiceCancel; unlike the other handlers it does not ask whether the
\* milestone is one the order lists.
ProposeCancel(by, k, t) ==
  /\ Event(t)
  /\ IsParty(by, k)
  /\ amending[k].by = None
  /\ Move(k, Fundable, "CancelPending")
  /\ cancelling' = [cancelling EXCEPT ![k] = by]
  /\ Sign("cancel", by, k, <<0, 0>>, 0)
  /\ UNCHANGED <<orders, price, times, outcome, settling, amending, amends,
                 wallet, ledger, rejected>>

\* Mutant of CancelRefund: the price comes back instead of what was funded.
CancelRefundPrice(k) == amount[k]

CancelRefund(k) == funded[k]

MatchCancel(by, k, loss, t) ==
  /\ Event(t)
  /\ IsParty(by, k)
  /\ Counterparty(by, cancelling[k])
  /\ Move(k, {"CancelPending"}, "Cancelled")
  /\ cancelling' = [cancelling EXCEPT ![k] = None]
  /\ refund' = [refund EXCEPT ![k] = CancelRefund(k)]
  /\ reward' = [reward EXCEPT ![k] = 0]
  /\ CreditIfPositive(OrderIn(k).buyer, loss, CancelRefund(k))
  /\ toBuyer' = [toBuyer EXCEPT ![k] = @ + CancelRefund(k)]
  /\ Sign("cancel", by, k, <<0, 0>>, 0)
  /\ UNCHANGED <<orders, price, times, settling, amending, amends, minted, sunk,
                 nonces, drawn, toProvider, rejected>>

\* OrderAmend, over the milestone's amount and the order's expiry.
AmendmentOk(by, k, a, x, t) ==
  /\ x > t
  /\ a > 0 /\ a <= MaxMilestoneCredits
  /\ IsParty(by, k)
  /\ k \in OrderIn(k).spec

ProposeAmend(by, k, a, x, t) ==
  /\ Event(t)
  /\ AmendmentOk(by, k, a, x, t)
  /\ cancelling[k] = None
  /\ amends[k] < MaxAmends
  /\ Move(k, Fundable, "AmendPending")
  /\ amending' = [amending EXCEPT ![k] = [by |-> by, amount |-> a, expires |-> x]]
  /\ amends' = [amends EXCEPT ![k] = @ + 1]
  /\ Sign("amend", by, k, <<a, x>>, amends[k] + 1)
  /\ UNCHANGED <<orders, price, times, outcome, settling, cancelling, wallet, ledger,
                 rejected>>

\* Mutant of PendingAmend: a reference to an earlier proposal will do.
SomeAmend(k, ref) == ref \in 1 .. amends[k]

\* ref is the number of the proposal a matching event refers to.
PendingAmend(k, ref) == ref = amends[k]

Lesser(a, b) == IF a <= b THEN a ELSE b

MatchAmend(by, k, a, x, ref, loss, t) ==
  LET kept == Lesser(funded[k], a)
      excess == funded[k] - kept
  IN
  /\ Event(t)
  /\ AmendmentOk(by, k, a, x, t)
  /\ PendingAmend(k, ref)
  /\ Counterparty(by, amending[k].by)
  /\ amending[k].amount = a /\ amending[k].expires = x
  /\ Move(k, {"AmendPending"}, IF kept = 0 THEN "Open"
                               ELSE IF kept < a THEN "PartiallyFunded" ELSE "Funded")
  /\ orders' = [orders EXCEPT ![OrderOf[k]].expires = x]
  /\ amount' = [amount EXCEPT ![k] = a]
  /\ funded' = [funded EXCEPT ![k] = kept]
  /\ amending' = [amending EXCEPT ![k] = NoAmendment]
  /\ CreditIfPositive(OrderIn(k).buyer, loss, excess)
  /\ toBuyer' = [toBuyer EXCEPT ![k] = @ + excess]
  /\ Sign("amend", by, k, <<a, x>>, ref)
  /\ UNCHANGED <<times, outcome, settling, cancelling, amends, minted, sunk, nonces,
                 drawn, toProvider, rejected>>

-----------------------------------------------------------------------------
\* The end of a replay run at as_of t, the refund of each milestone whose
\* dispute is overdue by then, and the resumption from the checkpoint.
Horizon == MaxTime + DisputeTimeout

CloseRun(t) ==
  /\ ~closing
  /\ now <= t /\ asOf < t /\ t <= Horizon
  /\ asOf' = t /\ closing' = TRUE
  /\ UNCHANGED <<now, orders, milestones, wallet, ledger, signed, rejected>>

\* Mutant of Overdue: a dispute whose settlement is pending is passed over.
OverdueDispute(k, t) ==
  /\ status[k] = "Disputed"
  /\ timeoutAt[k] <= t
  /\ Placed(OrderOf[k])

\* Mutant of Overdue: a dispute that has been settled is refunded as well.
OverdueAnyStatus(k, t) ==
  /\ timeoutAt[k] # NoTime /\ status[k] # "AutoRefunded"
  /\ timeoutAt[k] <= t
  /\ Placed(OrderOf[k])

Overdue(k, t) ==
  /\ status[k] \in Contested
  /\ timeoutAt[k] <= t
  /\ Placed(OrderOf[k])

\* Mutant of ClearSettling: the settlement that was pending stays.
KeepSettling(k) == UNCHANGED settling

ClearSettling(k) == settling' = [settling EXCEPT ![k] = NoSettlement]

AutoRefund(k, loss) ==
  /\ closing
  /\ Overdue(k, asOf)
  /\ status' = [status EXCEPT ![k] = "AutoRefunded"]
  /\ refund' = [refund EXCEPT ![k] = funded[k]]
  /\ reward' = [reward EXCEPT ![k] = 0]
  /\ ClearSettling(k)
  /\ Credit(OrderIn(k).buyer, loss, funded[k])
  /\ toBuyer' = [toBuyer EXCEPT ![k] = @ + funded[k]]
  /\ UNCHANGED <<clock, orders, price, times, cancelling, amending, amends, minted,
                 sunk, nonces, drawn, toProvider, signed, rejected>>

\* losses is what the closing normalisation takes from every identity.
EndRun(losses) ==
  /\ closing
  /\ \A k \in Milestones : ~Overdue(k, asOf)
  /\ \A i \in Ids : CanLose(i, losses[i])
  /\ closing' = FALSE
  /\ bal' = [i \in Ids |-> bal[i] - losses[i]]
  /\ lost' = [i \in Ids |-> lost[i] + losses[i]]
  /\ UNCHANGED <<now, asOf, orders, milestones, minted, sunk, nonces, ledger, signed,
                 rejected>>

-----------------------------------------------------------------------------
Times == 0 .. MaxTime
Losses == 0 .. MaxLoss
Amounts == 1 .. MaxMilestoneCredits
Shares == 0 .. MaxMilestoneCredits

OrderEvent ==
  \E o \in Orders, t \in Times, M \in SUBSET Milestones :
    \E amounts \in [M -> Amounts] :
      \/ \E b, p \in Ids, x \in Expiries : PlaceOrder(o, b, p, amounts, x, t)
      \/ RejectOrder(o, amounts, t)

SpendEvent ==
  \E i \in Ids, a \in Amounts, loss \in Losses, n \in Nonces, t \in Times :
    \/ SpendToSink(i, a, n, loss, t)
    \/ \E k \in Milestones : \/ FundMilestone(i, k, a, n, loss, t)
                             \/ RejectFunding(i, k, a, n, loss, t)

DeliveryEvent ==
  \E by \in Ids, k, d \in Milestones, t \in Times :
    \/ Deliver(by, k, t)
    \/ \E loss \in Losses : Accept(by, k, d, loss, t)
    \/ \E at \in Times : Dispute(by, k, d, at, t)

HandshakeEvent ==
  \E by \in Ids, k \in Milestones, t \in Times :
    \/ \E r, w \in Shares : ProposeSettlement(by, k, r, w, t)
    \/ \E r, w \in Shares, lb, lp \in Losses : MatchSettlement(by, k, r, w, lb, lp, t)
    \/ ProposeCancel(by, k, t)
    \/ \E loss \in Losses : MatchCancel(by, k, loss, t)
    \/ \E a \in Amounts, x \in Expiries :
         \/ ProposeAmend(by, k, a, x, t)
         \/ \E ref \in 0 .. MaxAmends, loss \in Losses :
              MatchAmend(by, k, a, x, ref, loss, t)

RunEnd ==
  \/ \E t \in 0 .. Horizon : CloseRun(t)
  \/ \E k \in Milestones, loss \in Losses : AutoRefund(k, loss)
  \/ \E losses \in [Ids -> Losses] : EndRun(losses)

Next ==
  \/ \E i \in Ids, a \in Amounts, loss \in Losses, t \in Times : MintCredits(i, a, loss, t)
  \/ OrderEvent
  \/ SpendEvent
  \/ DeliveryEvent
  \/ HandshakeEvent
  \/ RunEnd

Spec == Init /\ [][Next]_vars

\* Replays keep being run with a later as_of: the engine has no timer, each
\* read of the node replays the log as of the moment of the request.
FairSpec == Spec /\ WF_vars(RunEnd)

-----------------------------------------------------------------------------
(* Properties *)

\* Every credit spent into a milestone is still held by it or has been issued
\* again to the buyer or the provider, once: no sequence of funding, amending,
\* cancelling, accepting, settling and refunding creates or destroys credits.
EscrowLedger ==
  \A k \in Milestones : drawn[k] = Held(k) + toBuyer[k] + toProvider[k]

\* A provider is paid when a milestone becomes terminal and not before, and the
\* recorded outcome is what was paid and uses up the funded amount.
PayoutsMatchOutcome ==
  \A k \in Milestones :
    /\ status[k] \notin Terminal => toProvider[k] = 0
    /\ status[k] \in Terminal =>
         /\ refund[k] + reward[k] = funded[k]
         /\ toProvider[k] = reward[k]
         /\ toBuyer[k] >= refund[k]

\* A milestone waits for a counterparty exactly when its pending fields name
\* the party that proposed, and at most one handshake is pending: the "pending
\* ... author missing" errors of the handlers are unreachable.
HandshakesWellFormed ==
  \A k \in Milestones :
    /\ status[k] = "SettlementPending" <=> settling[k].by # None
    /\ status[k] = "CancelPending" <=> cancelling[k] # None
    /\ status[k] = "AmendPending" <=> amending[k].by # None
    /\ \A i \in Ids : i \in {settling[k].by, cancelling[k], amending[k].by}
                        => IsParty(i, k)

Signed(kind, by, k, terms, ref) ==
  [kind |-> kind, by |-> by, key |-> k, terms |-> terms, ref |-> ref] \in signed

Agreed(kind, k, terms, ref) ==
  /\ OrderIn(k).buyer # OrderIn(k).provider
  /\ \A i \in {OrderIn(k).buyer, OrderIn(k).provider} : Signed(kind, i, k, terms, ref)

\* A milestone is settled or cancelled only when its buyer and its provider, two
\* identities, both signed events for these very amounts.
ExitNeedsBothParties ==
  \A k \in Milestones :
    /\ status[k] = "Settled" =>
         Agreed("settle", k, <<refund[k], reward[k]>>, 0)
    /\ status[k] = "Cancelled" => Agreed("cancel", k, <<0, 0>>, 0)

\* The milestones of an order that was never accepted, which a rejected order
\* may have left behind, hold and have moved nothing.
OrphansHoldNothing ==
  \A k \in Milestones : ~Placed(OrderOf[k]) =>
    /\ status[k] \in {"Absent", "Open"}
    /\ funded[k] = 0 /\ drawn[k] = 0 /\ toBuyer[k] = 0 /\ toProvider[k] = 0

\* What is pending in a milestone has been signed by the party it names.
ProposalsAreSigned ==
  \A k \in Milestones :
    /\ settling[k].by # None =>
         Signed("settle", settling[k].by, k, <<settling[k].refund, settling[k].reward>>, 0)
    /\ cancelling[k] # None => Signed("cancel", cancelling[k], k, <<0, 0>>, 0)
    /\ amending[k].by # None =>
         Signed("amend", amending[k].by, k, <<amending[k].amount, amending[k].expires>>,
                amends[k])

\* The inductive invariant of the engine: the ledger of every milestone balances,
\* handshakes are well formed and signed, and both parties agreed to every exit.
EscrowInv ==
  /\ TypeOK
  /\ OrphansHoldNothing
  /\ EscrowLedger
  /\ PayoutsMatchOutcome
  /\ HandshakesWellFormed
  /\ ProposalsAreSigned
  /\ ExitNeedsBothParties

\* The amount of a milestone and the expiry of its order change, and escrowed
\* credits come back before the milestone is terminal, only by an amendment both
\* parties signed for the same proposal.
TermsAgreed(k) == Agreed("amend", k, <<amount[k], OrderIn(k).expires>>, amends[k])

TermsNeedBothParties ==
  [][/\ \A k \in Milestones :
          /\ Placed(OrderOf[k]) /\ k \in OrderIn(k).spec
          /\ status'[k] \notin Terminal
          /\ \/ amount'[k] # amount[k]
             \/ funded'[k] < funded[k]
          => TermsAgreed(k)'
     /\ \A o \in Orders :
          Placed(o) /\ orders'[o].expires # orders[o].expires
            => \E k \in orders[o].spec : OrderOf[k] = o /\ TermsAgreed(k)']_vars

\* Credits come from contributions only and stay in lots, in escrow, in sinks
\* or in what decay has taken: K-05, nothing else moves them.
CreditsConserved ==
  minted = SumFunction(bal) + SumFunction(lost) + sunk
             + SumFunction([k \in Milestones |-> Held(k)])

Record(k) == <<status[k], amount[k], funded[k], deliveredAt[k], timeoutAt[k],
               refund[k], reward[k], settling[k], cancelling[k], amending[k],
               amends[k]>>

\* The outcome of a milestone is final: no later event, repeated order or resumed
\* run changes it or pays it again.
OutcomeIsFinal ==
  [][\A k \in Milestones : status[k] \in Terminal =>
       /\ Record(k)' = Record(k)
       /\ drawn'[k] = drawn[k] /\ toBuyer'[k] = toBuyer[k]
       /\ toProvider'[k] = toProvider[k]]_vars

\* A milestone is accepted within the window of the delivery it accepts, measured
\* on the creation time of the acceptance.
AcceptedInWindow ==
  [][\A k \in Milestones :
       status[k] # "Accepted" /\ status'[k] = "Accepted"
         => now' <= deliveredAt[k] + AcceptanceWindow]_vars

\* A disputed milestone is settled or refunded, whatever the parties do.
DisputesEnd ==
  \A k \in Milestones : status[k] \in Contested ~> status[k] \in Terminal

\* What the escrow promises, per milestone.
Ideal == INSTANCE IdealEscrow WITH
  Accounts <- Milestones,
  held <- [k \in Milestones |-> Held(k)],
  paidIn <- drawn,
  toBuyer <- toBuyer,
  toProvider <- toProvider,
  open <- [k \in Milestones |-> status[k] \notin Terminal]

ImplementsIdealEscrow == Ideal!Spec

\* docs/specs/kernel-boundary-spec.md, K-02: invalid events never mutate derived
\* state, of which the milestones are a part.
InvalidEventsInert == [][rejected' # rejected => milestones' = milestones]_vars
=============================================================================
