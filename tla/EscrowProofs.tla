---------------------------- MODULE EscrowProofs ----------------------------
(***************************************************************************)
(* Theorems about Escrow, for every set of identities, orders and          *)
(* milestones and every value of the policy parameters and bounds.         *)
(***************************************************************************)
EXTENDS OrderProgress, FiniteSums, TLAPS

-----------------------------------------------------------------------------
(* Type correctness *)

\* The sets the parameters of the events are drawn from hold natural numbers.
LEMMA ParameterTypes ==
  /\ Times \subseteq Nat /\ Losses \subseteq Nat
  /\ Amounts \subseteq Nat \ {0} /\ Shares \subseteq Nat
  /\ Expiries \subseteq Nat /\ 0 .. MaxAmends \subseteq Nat
  /\ 0 .. Horizon \subseteq Nat
BY PolicyType, BoundsType DEF Times, Losses, Amounts, Shares, Horizon

\* A normalisation followed by a new lot keeps balances natural numbers.
LEMMA CreditType ==
  ASSUME TypeOK, NEW i \in Ids, NEW loss \in Nat, NEW a \in Nat,
         Credit(i, loss, a)
  PROVE  bal' \in [Ids -> Nat] /\ lost' \in [Ids -> Nat]
<1>1. bal[i] - loss + a \in Nat
  BY DEF TypeOK, Credit, CanLose
<1>. QED BY <1>1 DEF TypeOK, Credit

\* The buyer and the provider of a placed order are identities.
LEMMA PartiesAreIds ==
  ASSUME TypeOK, NEW k \in Milestones, Placed(OrderOf[k])
  PROVE  OrderIn(k).buyer \in Ids /\ OrderIn(k).provider \in Ids
BY OrderOfType DEF TypeOK, OrderIn, Placed, Order, NoOrder

LEMMA SignType ==
  ASSUME TypeOK, NEW kind \in {"settle", "cancel", "amend"}, NEW by \in Ids,
         NEW k \in Milestones, NEW a \in Nat, NEW b \in Nat, NEW ref \in Nat,
         Sign(kind, by, k, <<a, b>>, ref)
  PROVE  signed' \subseteq Signature
BY DEF TypeOK, Sign, Signature

MilestonesTyped ==
  /\ status \in [Milestones -> Statuses]
  /\ amount \in [Milestones -> Nat] /\ funded \in [Milestones -> Nat]
  /\ deliveredAt \in [Milestones -> Int] /\ timeoutAt \in [Milestones -> Int]
  /\ refund \in [Milestones -> Nat] /\ reward \in [Milestones -> Nat]
  /\ settling \in [Milestones -> Settlement]
  /\ cancelling \in [Milestones -> Ids \cup {None}]
  /\ amending \in [Milestones -> Amendment]
  /\ amends \in [Milestones -> Nat]

LEMMA OpenMilestonesType ==
  ASSUME TypeOK, NEW M \in SUBSET Milestones, NEW amounts \in [M -> Amounts],
         OpenMilestones(amounts)
  PROVE  MilestonesTyped'
<1>1. status' \in [Milestones -> Statuses]
  BY DEF TypeOK, OpenMilestones, Reset, Statuses, Fundable
<1>2. amount' \in [Milestones -> Nat]
  BY ParameterTypes DEF TypeOK, OpenMilestones
<1>3. /\ settling' \in [Milestones -> Settlement]
      /\ amending' \in [Milestones -> Amendment]
  BY DEF TypeOK, OpenMilestones, Reset, NoSettlement, NoAmendment, Settlement, Amendment
<1>4. /\ funded' \in [Milestones -> Nat] /\ amends' \in [Milestones -> Nat]
      /\ refund' \in [Milestones -> Nat] /\ reward' \in [Milestones -> Nat]
  BY DEF TypeOK, OpenMilestones, Reset
<1>5. /\ deliveredAt' \in [Milestones -> Int] /\ timeoutAt' \in [Milestones -> Int]
      /\ cancelling' \in [Milestones -> Ids \cup {None}]
  BY DEF TypeOK, OpenMilestones, Reset, NoTime
<1>. QED BY <1>1, <1>2, <1>3, <1>4, <1>5 DEF MilestonesTyped

LEMMA OrderEventType == TypeOK /\ OrderEvent => TypeOK'
<1>. SUFFICES ASSUME TypeOK, NEW o \in Orders, NEW t \in Times,
                     NEW M \in SUBSET Milestones, NEW amounts \in [M -> Amounts],
                     \/ \E b, p \in Ids, x \in Expiries : PlaceOrder(o, b, p, amounts, x, t)
                     \/ RejectOrder(o, amounts, t)
              PROVE  TypeOK'
  BY DEF OrderEvent
<1>. t \in Nat
  BY ParameterTypes
<1>1. CASE RejectOrder(o, amounts, t)
  <2>1. OpenMilestones(amounts)
    BY <1>1 DEF RejectOrder
  <2>2. MilestonesTyped'
    BY <2>1, OpenMilestonesType
  <2>. QED BY <1>1, <2>2 DEF MilestonesTyped, TypeOK, RejectOrder, Event, wallet, ledger
<1>2. ASSUME NEW b \in Ids, NEW p \in Ids, NEW x \in Expiries,
             PlaceOrder(o, b, p, amounts, x, t)
      PROVE  TypeOK'
  <2>1. OpenMilestones(amounts)
    BY <1>2 DEF PlaceOrder
  <2>2. orders' \in [Orders -> Order \cup {NoOrder}]
    BY <1>2, ParameterTypes DEF TypeOK, PlaceOrder, Order
  <2>3. MilestonesTyped'
    BY <2>1, OpenMilestonesType
  <2>. QED BY <1>2, <2>2, <2>3 DEF MilestonesTyped, TypeOK, PlaceOrder, Event, wallet, ledger
<1>. QED BY <1>1, <1>2

LEMMA SpendEventType == TypeOK /\ SpendEvent => TypeOK'
<1>. SUFFICES ASSUME TypeOK, NEW i \in Ids, NEW a \in Nat, NEW loss \in Nat,
                     NEW n \in Nonces, NEW t \in Nat,
                     \/ SpendToSink(i, a, n, loss, t)
                     \/ \E k \in Milestones : \/ FundMilestone(i, k, a, n, loss, t)
                                              \/ RejectFunding(i, k, a, n, loss, t)
              PROVE  TypeOK'
  BY ParameterTypes DEF SpendEvent
<1>1. CASE SpendToSink(i, a, n, loss, t)
  BY <1>1 DEF TypeOK, SpendToSink, Event, CanLose, CoveredBy, milestones, price, times,
              outcome, pending, ledger
<1>2. ASSUME NEW k \in Milestones, FundMilestone(i, k, a, n, loss, t)
      PROVE  TypeOK'
  BY <1>2 DEF TypeOK, FundMilestone, Event, CanLose, CoveredBy, Statuses, Fundable,
              times, outcome, pending
<1>3. ASSUME NEW k \in Milestones, RejectFunding(i, k, a, n, loss, t)
      PROVE  TypeOK'
  BY <1>3 DEF TypeOK, RejectFunding, Event, CanLose, milestones, price, times, outcome,
              pending, ledger
<1>. QED BY <1>1, <1>2, <1>3

LEMMA DeliveryEventType == TypeOK /\ DeliveryEvent => TypeOK'
<1>. SUFFICES ASSUME TypeOK, NEW by \in Ids, NEW k \in Milestones, NEW d \in Milestones,
                     NEW t \in Nat,
                     \/ Deliver(by, k, t)
                     \/ \E loss \in Losses : Accept(by, k, d, loss, t)
                     \/ \E at \in Times : Dispute(by, k, d, at, t)
              PROVE  TypeOK'
  BY ParameterTypes DEF DeliveryEvent
<1>1. CASE Deliver(by, k, t)
  BY <1>1 DEF TypeOK, Deliver, Event, Move, Statuses, price, outcome, pending, wallet, ledger
<1>2. ASSUME NEW loss \in Losses, Accept(by, k, d, loss, t)
      PROVE  TypeOK'
  <2>1. bal' \in [Ids -> Nat] /\ lost' \in [Ids -> Nat]
    <3>1. OrderIn(k).provider \in Ids
      BY <1>2, PartiesAreIds DEF Accept, AcceptanceOk
    <3>. QED BY <1>2, <3>1, CreditType, ParameterTypes DEF TypeOK, Accept
  <2>. QED BY <1>2, <2>1 DEF TypeOK, Accept, Event, Move, Statuses, Terminal, price, times,
                             pending
<1>3. ASSUME NEW at \in Times, Dispute(by, k, d, at, t)
      PROVE  TypeOK'
  BY <1>3, ParameterTypes, PolicyType
     DEF TypeOK, Dispute, Event, Move, Statuses, Contested, price, outcome, pending, wallet, ledger
<1>. QED BY <1>1, <1>2, <1>3

LEMMA HandshakeEventType == TypeOK /\ HandshakeEvent => TypeOK'
<1>. SUFFICES ASSUME TypeOK, NEW by \in Ids, NEW k \in Milestones, NEW t \in Nat,
                     \/ \E r, w \in Nat : ProposeSettlement(by, k, r, w, t)
                     \/ \E r, w, lb, lp \in Nat : MatchSettlement(by, k, r, w, lb, lp, t)
                     \/ ProposeCancel(by, k, t)
                     \/ \E loss \in Nat : MatchCancel(by, k, loss, t)
                     \/ \E a, x \in Nat : ProposeAmend(by, k, a, x, t)
                     \/ \E a, x, ref, loss \in Nat : MatchAmend(by, k, a, x, ref, loss, t)
              PROVE  TypeOK'
  BY ParameterTypes DEF HandshakeEvent
<1>1. ASSUME NEW r \in Nat, NEW w \in Nat, ProposeSettlement(by, k, r, w, t)
      PROVE  TypeOK'
  <2>1. signed' \subseteq Signature
    BY <1>1, SignType DEF ProposeSettlement
  <2>. QED BY <1>1, <2>1 DEF TypeOK, ProposeSettlement, Event, Move, Statuses, Contested,
              Settlement, price, times, outcome, wallet, ledger
<1>2. ASSUME NEW r \in Nat, NEW w \in Nat, NEW lb \in Nat, NEW lp \in Nat,
             MatchSettlement(by, k, r, w, lb, lp, t)
      PROVE  TypeOK'
  <2>1. signed' \subseteq Signature
    BY <1>2, SignType DEF MatchSettlement
  <2>2. OrderIn(k).buyer \in Ids /\ OrderIn(k).provider \in Ids
    BY <1>2, PartiesAreIds DEF MatchSettlement, SettlementOk, IsParty
  <2>3. bal' \in [Ids -> Nat] /\ lost' \in [Ids -> Nat]
    BY <1>2, <2>2 DEF TypeOK, MatchSettlement, CanLose
  <2>4. settling' \in [Milestones -> Settlement] /\ status' \in [Milestones -> Statuses]
    BY <1>2 DEF TypeOK, MatchSettlement, Move, Statuses, Terminal, Settlement, NoSettlement
  <2>. QED BY <1>2, <2>1, <2>3, <2>4 DEF TypeOK, MatchSettlement, Event, price, times
<1>3. ASSUME ProposeCancel(by, k, t)
      PROVE  TypeOK'
  <2>1. signed' \subseteq Signature
    BY <1>3, SignType DEF ProposeCancel
  <2>. QED BY <1>3, <2>1 DEF TypeOK, ProposeCancel, Event, Move, Statuses, price, times,
              outcome, wallet, ledger
<1>4. ASSUME NEW loss \in Nat, MatchCancel(by, k, loss, t)
      PROVE  TypeOK'
  <2>1. signed' \subseteq Signature
    BY <1>4, SignType DEF MatchCancel
  <2>2. OrderIn(k).buyer \in Ids
    BY <1>4, PartiesAreIds DEF MatchCancel, IsParty
  <2>3. bal' \in [Ids -> Nat] /\ lost' \in [Ids -> Nat]
    BY <1>4, <2>2, CreditType DEF TypeOK, MatchCancel, CreditIfPositive, CancelRefund
  <2>. QED BY <1>4, <2>1, <2>3 DEF TypeOK, MatchCancel, Event, Move, Statuses, Terminal,
              CancelRefund, price, times
<1>5. ASSUME NEW a \in Nat, NEW x \in Nat, ProposeAmend(by, k, a, x, t)
      PROVE  TypeOK'
  <2>1. signed' \subseteq Signature
    <3>1. amends[k] + 1 \in Nat
      BY DEF TypeOK
    <3>2. Sign("amend", by, k, <<a, x>>, amends[k] + 1)
      BY <1>5 DEF ProposeAmend
    <3>. QED BY <3>1, <3>2, SignType
  <2>2. amending' \in [Milestones -> Amendment] /\ status' \in [Milestones -> Statuses]
    BY <1>5 DEF TypeOK, ProposeAmend, Move, Statuses, Amendment
  <2>. QED BY <1>5, <2>1, <2>2 DEF TypeOK, ProposeAmend, Event, price, times, outcome,
              wallet, ledger
<1>6. ASSUME NEW a \in Nat, NEW x \in Nat, NEW ref \in Nat, NEW loss \in Nat,
             MatchAmend(by, k, a, x, ref, loss, t)
      PROVE  TypeOK'
  <2>. DEFINE kept == Lesser(funded[k], a)
  <2>1. kept \in Nat /\ funded[k] - kept \in Nat
    BY DEF TypeOK, Lesser
  <2>2. signed' \subseteq Signature
    BY <1>6, SignType DEF MatchAmend
  <2>3. OrderIn(k).buyer \in Ids
    BY <1>6, PartiesAreIds DEF MatchAmend, AmendmentOk, IsParty
  <2>4. bal' \in [Ids -> Nat] /\ lost' \in [Ids -> Nat]
    BY <1>6, <2>1, <2>3, CreditType DEF MatchAmend, CreditIfPositive
  <2>5. orders' \in [Orders -> Order \cup {NoOrder}]
    <3>1. OrderIn(k) \in Order
      <4>1. OrderIn(k) \in Order \cup {NoOrder} /\ OrderIn(k).buyer # None
        BY <1>6, OrderOfType DEF MatchAmend, AmendmentOk, IsParty, Placed, OrderIn, TypeOK
      <4>. QED BY <4>1 DEF NoOrder
    <3>2. [OrderIn(k) EXCEPT !.expires = x] \in Order
      BY <3>1 DEF Order
    <3>. QED BY <1>6, <3>2 DEF MatchAmend, TypeOK, OrderIn
  <2>6. status' \in [Milestones -> Statuses]
    BY <1>6 DEF MatchAmend, TypeOK, Move, Statuses, Fundable
  <2>7. /\ amount' \in [Milestones -> Nat] /\ funded' \in [Milestones -> Nat]
        /\ toBuyer' \in [Milestones -> Nat]
        /\ amending' \in [Milestones -> Amendment]
    BY <1>6, <2>1 DEF MatchAmend, TypeOK, Amendment, NoAmendment
  <2>. QED BY <1>6, <2>2, <2>4, <2>5, <2>6, <2>7 DEF TypeOK, MatchAmend, Event, times, outcome
<1>. QED BY <1>1, <1>2, <1>3, <1>4, <1>5, <1>6

LEMMA RunEndType == TypeOK /\ RunEnd => TypeOK'
<1>. SUFFICES ASSUME TypeOK, RunEnd
              PROVE  TypeOK'
  OBVIOUS
<1>1. ASSUME NEW t \in 0 .. Horizon, CloseRun(t)
      PROVE  TypeOK'
  BY <1>1, ParameterTypes DEF TypeOK, CloseRun, milestones, price, times, outcome, pending,
     wallet, ledger
<1>2. ASSUME NEW k \in Milestones, NEW loss \in Losses, AutoRefund(k, loss)
      PROVE  TypeOK'
  <2>1. OrderIn(k).buyer \in Ids
    BY <1>2, PartiesAreIds DEF AutoRefund, Overdue
  <2>2. bal' \in [Ids -> Nat] /\ lost' \in [Ids -> Nat]
    BY <1>2, <2>1, CreditType, ParameterTypes DEF TypeOK, AutoRefund
  <2>3. settling' \in [Milestones -> Settlement] /\ status' \in [Milestones -> Statuses]
    BY <1>2 DEF TypeOK, AutoRefund, ClearSettling, Statuses, Terminal, Settlement, NoSettlement
  <2>. QED BY <1>2, <2>2, <2>3 DEF TypeOK, AutoRefund, clock, price, times
<1>3. ASSUME NEW losses \in [Ids -> Losses], EndRun(losses)
      PROVE  TypeOK'
  <2>1. \A i \in Ids : losses[i] \in Nat
    BY ParameterTypes
  <2>2. bal' \in [Ids -> Nat] /\ lost' \in [Ids -> Nat]
    BY <1>3, <2>1 DEF TypeOK, EndRun, CanLose
  <2>. QED BY <1>3, <2>2 DEF TypeOK, EndRun, milestones, price, times, outcome, pending,
              ledger
<1>. QED BY <1>1, <1>2, <1>3 DEF RunEnd

LEMMA InitType == Init => TypeOK
<1>. SUFFICES ASSUME Init PROVE TypeOK
  OBVIOUS
<1>1. /\ status \in [Milestones -> Statuses]
      /\ settling \in [Milestones -> Settlement]
      /\ amending \in [Milestones -> Amendment]
  BY DEF Init, Statuses, NoSettlement, NoAmendment, Settlement, Amendment
<1>2. /\ asOf \in Int /\ deliveredAt \in [Milestones -> Int]
      /\ timeoutAt \in [Milestones -> Int]
  <2>1. NoTime \in Int
    BY DEF NoTime
  <2>. QED BY <2>1 DEF Init
<1>3. closing \in BOOLEAN /\ orders \in [Orders -> Order \cup {NoOrder}]
  BY DEF Init
<1>4. /\ nonces \subseteq Ids \X {"ServiceEscrowSink", "burn"} \X Nonces
      /\ signed \subseteq Signature
  BY DEF Init
<1>5. cancelling \in [Milestones -> Ids \cup {None}]
  BY DEF Init
<1>. QED BY <1>1, <1>2, <1>3, <1>4, <1>5 DEF Init, TypeOK

LEMMA NextType == TypeOK /\ [Next]_vars => TypeOK'
<1>. SUFFICES ASSUME TypeOK, [Next]_vars PROVE TypeOK'
  OBVIOUS
<1>1. ASSUME NEW i \in Ids, NEW a \in Amounts, NEW loss \in Losses, NEW t \in Times,
             MintCredits(i, a, loss, t)
      PROVE  TypeOK'
  <2>1. bal' \in [Ids -> Nat] /\ lost' \in [Ids -> Nat]
    BY <1>1, CreditType, ParameterTypes DEF MintCredits
  <2>. QED BY <1>1, <2>1, ParameterTypes DEF TypeOK, MintCredits, Event, milestones, price,
              times, outcome, pending, ledger
<1>2. CASE UNCHANGED vars
  BY <1>2 DEF TypeOK, vars, clock, milestones, price, times, outcome, pending, wallet, ledger
<1>. QED BY <1>1, <1>2, OrderEventType, SpendEventType, DeliveryEventType,
            HandshakeEventType, RunEndType DEF Next

\* Every variable keeps its type, balances and ledgers above all: no handler takes
\* an identity or a milestone below zero.
THEOREM TypeCorrect == Spec => []TypeOK
BY InitType, NextType, PTL DEF Spec

-----------------------------------------------------------------------------
(* The ledger of a milestone *)

\* What EscrowInv says of the ledger of one milestone.
Balanced(k) ==
  /\ drawn[k] = Held(k) + toBuyer[k] + toProvider[k]
  /\ status[k] \notin Terminal => toProvider[k] = 0
  /\ status[k] \in Terminal =>
       /\ refund[k] + reward[k] = funded[k]
       /\ toProvider[k] = reward[k]
       /\ toBuyer[k] >= refund[k]
  /\ ~Placed(OrderOf[k]) =>
       /\ status[k] \in {"Absent", "Open"}
       /\ funded[k] = 0 /\ drawn[k] = 0 /\ toBuyer[k] = 0 /\ toProvider[k] = 0

Books == \A k \in Milestones : Balanced(k)

LEMMA BooksAreTheInvariants ==
  Books <=> OrphansHoldNothing /\ EscrowLedger /\ PayoutsMatchOutcome
BY DEF Books, Balanced, OrphansHoldNothing, EscrowLedger, PayoutsMatchOutcome

\* A milestone that is closed with all it held paid out stays balanced.
LEMMA ClosedBooks ==
  ASSUME TypeOK, NEW k \in Milestones, Balanced(k), NEW r \in Nat, NEW w \in Nat,
         Placed(OrderOf[k]), Placed(OrderOf[k])',
         status[k] \notin Terminal, status'[k] \in Terminal,
         r + w = funded[k], funded'[k] = funded[k], drawn'[k] = drawn[k],
         refund'[k] = r, reward'[k] = w,
         toBuyer'[k] = toBuyer[k] + r, toProvider'[k] = toProvider[k] + w
  PROVE  Balanced(k)'
<1>1. /\ drawn[k] \in Nat /\ funded[k] \in Nat /\ toBuyer[k] \in Nat
      /\ toProvider[k] \in Nat
  BY DEF TypeOK
<1>2. toProvider[k] = 0 /\ drawn[k] = funded[k] + toBuyer[k] + toProvider[k]
  BY DEF Balanced, Held
<1>3. Held(k)' = 0
  BY DEF Held
<1>. QED BY <1>1, <1>2, <1>3 DEF Balanced

LEMMA OrderEventBooks == TypeOK /\ Books /\ OrderEvent => Books'
<1>. SUFFICES ASSUME TypeOK, Books, NEW o \in Orders, NEW t \in Times,
                     NEW M \in SUBSET Milestones, NEW amounts \in [M -> Amounts],
                     \/ \E b, p \in Ids, x \in Expiries : PlaceOrder(o, b, p, amounts, x, t)
                     \/ RejectOrder(o, amounts, t),
                     NEW k \in Milestones
              PROVE  Balanced(k)'
  BY DEF OrderEvent, Books
<1>1. OrderOk(o, amounts) /\ OpenMilestones(amounts) /\ UNCHANGED ledger
  BY DEF PlaceOrder, RejectOrder
<1>2. Balanced(k)
  BY DEF Books
<1>3. CASE k \in M
  <2>1. ~Placed(OrderOf[k])
    BY <1>1, <1>3 DEF OrderOk
  <2>2. funded[k] = 0 /\ drawn[k] = 0 /\ toBuyer[k] = 0 /\ toProvider[k] = 0
    BY <1>2, <2>1 DEF Balanced
  <2>3. status'[k] = "Open" /\ funded'[k] = 0
    BY <1>1, <1>3 DEF OpenMilestones, Reset
  <2>4. drawn'[k] = 0 /\ toBuyer'[k] = 0 /\ toProvider'[k] = 0
    BY <1>1, <2>2 DEF ledger
  <2>. QED BY <2>3, <2>4 DEF Balanced, Held, Terminal
<1>4. CASE k \notin M
  <2>1. /\ status'[k] = status[k] /\ funded'[k] = funded[k]
        /\ refund'[k] = refund[k] /\ reward'[k] = reward[k]
    BY <1>1, <1>4 DEF OpenMilestones, Reset
  <2>2. drawn'[k] = drawn[k] /\ toBuyer'[k] = toBuyer[k] /\ toProvider'[k] = toProvider[k]
    BY <1>1 DEF ledger
  <2>3. Placed(OrderOf[k]) => Placed(OrderOf[k])'
    BY NoneFresh, OrderOfType DEF PlaceOrder, RejectOrder, Placed, TypeOK
  <2>. QED BY <1>2, <2>1, <2>2, <2>3 DEF Balanced, Held
<1>. QED BY <1>3, <1>4

LEMMA SpendEventBooks == TypeOK /\ Books /\ SpendEvent => Books'
<1>. SUFFICES ASSUME TypeOK, Books, NEW i \in Ids, NEW a \in Nat \ {0}, NEW loss \in Nat,
                     NEW n \in Nonces, NEW t \in Nat,
                     \/ SpendToSink(i, a, n, loss, t)
                     \/ \E k \in Milestones : \/ FundMilestone(i, k, a, n, loss, t)
                                              \/ RejectFunding(i, k, a, n, loss, t),
                     NEW j \in Milestones
              PROVE  Balanced(j)'
  BY ParameterTypes DEF SpendEvent, Books
<1>1. Balanced(j)
  BY DEF Books
<1>2. CASE SpendToSink(i, a, n, loss, t)
  BY <1>1, <1>2 DEF SpendToSink, milestones, price, outcome, ledger, Balanced, Held, Placed
<1>3. ASSUME NEW k \in Milestones, RejectFunding(i, k, a, n, loss, t)
      PROVE  Balanced(j)'
  BY <1>1, <1>3 DEF RejectFunding, milestones, price, outcome, ledger, Balanced, Held, Placed
<1>4. ASSUME NEW k \in Milestones, FundMilestone(i, k, a, n, loss, t)
      PROVE  Balanced(j)'
  <2>1. /\ UNCHANGED <<orders, refund, reward, toBuyer, toProvider>>
        /\ \A m \in Milestones \ {k} :
             status'[m] = status[m] /\ funded'[m] = funded[m] /\ drawn'[m] = drawn[m]
    BY <1>4 DEF FundMilestone, TypeOK, outcome
  <2>2. CASE j = k
    <3>1. /\ status[k] \in Fundable /\ Placed(OrderOf[k])
          /\ status'[k] \in {"PartiallyFunded", "Funded"}
          /\ funded'[k] = funded[k] + a /\ drawn'[k] = drawn[k] + a
      BY <1>4 DEF FundMilestone, FundingOk, TypeOK
    <3>2. drawn[k] \in Nat /\ funded[k] \in Nat /\ toBuyer[k] \in Nat /\ toProvider[k] \in Nat
      BY DEF TypeOK
    <3>3. Held(k) = funded[k] /\ Held(k)' = funded[k] + a
      BY <3>1 DEF Held, Fundable, Terminal
    <3>4. drawn[k] = funded[k] + toBuyer[k] + toProvider[k] /\ toProvider[k] = 0
      BY <1>1, <2>2, <3>1, <3>3 DEF Balanced, Fundable, Terminal
    <3>5. drawn'[k] = Held(k)' + toBuyer'[k] + toProvider'[k] /\ toProvider'[k] = 0
      BY <2>1, <3>1, <3>2, <3>3, <3>4
    <3>6. status'[k] \notin Terminal /\ Placed(OrderOf[k])'
      BY <2>1, <3>1 DEF Terminal, Placed
    <3>. QED BY <2>2, <3>5, <3>6 DEF Balanced
  <2>3. CASE j # k
    BY <1>1, <2>1, <2>3 DEF Balanced, Held, Placed
  <2>. QED BY <2>2, <2>3
<1>. QED BY <1>2, <1>3, <1>4

LEMMA DeliveryEventBooks == TypeOK /\ Books /\ DeliveryEvent => Books'
<1>. SUFFICES ASSUME TypeOK, Books, NEW by \in Ids, NEW k \in Milestones,
                     NEW d \in Milestones, NEW t \in Nat,
                     \/ Deliver(by, k, t)
                     \/ \E loss \in Losses : Accept(by, k, d, loss, t)
                     \/ \E at \in Times : Dispute(by, k, d, at, t),
                     NEW j \in Milestones
              PROVE  Balanced(j)'
  BY ParameterTypes DEF DeliveryEvent, Books
<1>1. Balanced(j)
  BY DEF Books
<1>2. drawn[k] \in Nat /\ funded[k] \in Nat /\ toBuyer[k] \in Nat /\ toProvider[k] \in Nat
  BY DEF TypeOK
<1>3. ASSUME Deliver(by, k, t) \/ \E at \in Times : Dispute(by, k, d, at, t)
      PROVE  Balanced(j)'
  <2>1. /\ UNCHANGED <<orders, funded, refund, reward, ledger>>
        /\ status[k] \in {"Funded", "Delivered"} /\ status'[k] \in {"Delivered", "Disputed"}
        /\ \A m \in Milestones \ {k} : status'[m] = status[m]
        /\ Placed(OrderOf[k])
    BY <1>3 DEF Deliver, DeliveryOk, Dispute, Move, TypeOK, price, outcome
  <2>. QED BY <1>1, <2>1 DEF Balanced, Held, Terminal, ledger, Placed
<1>4. ASSUME NEW loss \in Losses, Accept(by, k, d, loss, t)
      PROVE  Balanced(j)'
  <2>1. /\ UNCHANGED <<orders, funded, drawn, toBuyer>>
        /\ \A m \in Milestones \ {k} :
             /\ status'[m] = status[m] /\ toProvider'[m] = toProvider[m]
             /\ refund'[m] = refund[m] /\ reward'[m] = reward[m]
    BY <1>4 DEF Accept, Move, TypeOK, price
  <2>2. CASE j = k
    <3>1. /\ status[k] = "Delivered" /\ status'[k] = "Accepted" /\ Placed(OrderOf[k])
          /\ toProvider'[k] = toProvider[k] + funded[k]
          /\ refund'[k] = 0 /\ reward'[k] = funded[k]
      BY <1>4 DEF Accept, AcceptanceOk, Move, TypeOK
    <3>2. /\ Placed(OrderOf[k])' /\ funded'[k] = funded[k] /\ drawn'[k] = drawn[k]
          /\ toBuyer'[k] = toBuyer[k] + 0 /\ 0 + funded[k] = funded[k]
      BY <1>2, <2>1, <3>1 DEF Placed
    <3>. QED BY <1>1, <1>2, <2>2, <3>1, <3>2, ClosedBooks DEF Terminal
  <2>3. CASE j # k
    BY <1>1, <2>1, <2>3 DEF Balanced, Held, Placed
  <2>. QED BY <2>2, <2>3
<1>. QED BY <1>3, <1>4

LEMMA HandshakeEventBooks == TypeOK /\ Books /\ HandshakeEvent => Books'
<1>. SUFFICES ASSUME TypeOK, Books, NEW by \in Ids, NEW k \in Milestones, NEW t \in Nat,
                     \/ \E r, w \in Nat : ProposeSettlement(by, k, r, w, t)
                     \/ \E r, w, lb, lp \in Nat : MatchSettlement(by, k, r, w, lb, lp, t)
                     \/ ProposeCancel(by, k, t)
                     \/ \E loss \in Nat : MatchCancel(by, k, loss, t)
                     \/ \E a, x \in Nat : ProposeAmend(by, k, a, x, t)
                     \/ \E a, x, ref, loss \in Nat : MatchAmend(by, k, a, x, ref, loss, t),
                     NEW j \in Milestones
              PROVE  Balanced(j)'
  BY ParameterTypes DEF HandshakeEvent, Books
<1>1. Balanced(j)
  BY DEF Books
<1>2. drawn[k] \in Nat /\ funded[k] \in Nat /\ toBuyer[k] \in Nat /\ toProvider[k] \in Nat
  BY DEF TypeOK
<1>3. ASSUME \/ \E r, w \in Nat : ProposeSettlement(by, k, r, w, t)
             \/ ProposeCancel(by, k, t)
             \/ \E a, x \in Nat : ProposeAmend(by, k, a, x, t)
      PROVE  Balanced(j)'
  <2>1. /\ UNCHANGED <<orders, funded, refund, reward, ledger>>
        /\ status[k] \in Fundable \cup {"Disputed"}
        /\ status'[k] \in {"SettlementPending", "CancelPending", "AmendPending"}
        /\ \A m \in Milestones \ {k} : status'[m] = status[m]
        /\ Placed(OrderOf[k])
    BY <1>3 DEF ProposeSettlement, SettlementOk, ProposeCancel, ProposeAmend, AmendmentOk,
                IsParty, Move, TypeOK, price, outcome
  <2>. QED BY <1>1, <2>1 DEF Balanced, Held, Terminal, Fundable, ledger, Placed
<1>4. ASSUME NEW r \in Nat, NEW w \in Nat, NEW lb \in Nat, NEW lp \in Nat,
             MatchSettlement(by, k, r, w, lb, lp, t)
      PROVE  Balanced(j)'
  <2>1. /\ UNCHANGED <<orders, funded, drawn>>
        /\ \A m \in Milestones \ {k} :
             /\ status'[m] = status[m] /\ toProvider'[m] = toProvider[m]
             /\ toBuyer'[m] = toBuyer[m]
             /\ refund'[m] = refund[m] /\ reward'[m] = reward[m]
    BY <1>4 DEF MatchSettlement, Move, TypeOK, price
  <2>2. CASE j = k
    <3>1. /\ status[k] = "SettlementPending" /\ status'[k] = "Settled"
          /\ Placed(OrderOf[k]) /\ r + w = funded[k]
          /\ toBuyer'[k] = toBuyer[k] + r /\ toProvider'[k] = toProvider[k] + w
          /\ refund'[k] = r /\ reward'[k] = w
      BY <1>4 DEF MatchSettlement, SettlementOk, IsParty, Move, TypeOK
    <3>2. Placed(OrderOf[k])' /\ funded'[k] = funded[k] /\ drawn'[k] = drawn[k]
      BY <2>1, <3>1 DEF Placed
    <3>. QED BY <1>1, <2>2, <3>1, <3>2, ClosedBooks DEF Terminal
  <2>3. CASE j # k
    BY <1>1, <2>1, <2>3 DEF Balanced, Held, Placed
  <2>. QED BY <2>2, <2>3
<1>5. ASSUME NEW loss \in Nat, MatchCancel(by, k, loss, t)
      PROVE  Balanced(j)'
  <2>1. /\ UNCHANGED <<orders, funded, drawn, toProvider>>
        /\ \A m \in Milestones \ {k} :
             /\ status'[m] = status[m] /\ toBuyer'[m] = toBuyer[m]
             /\ refund'[m] = refund[m] /\ reward'[m] = reward[m]
    BY <1>5 DEF MatchCancel, Move, TypeOK, price
  <2>2. CASE j = k
    <3>1. /\ status[k] = "CancelPending" /\ status'[k] = "Cancelled"
          /\ Placed(OrderOf[k])
          /\ toBuyer'[k] = toBuyer[k] + funded[k]
          /\ refund'[k] = funded[k] /\ reward'[k] = 0
      BY <1>5 DEF MatchCancel, CancelRefund, IsParty, Move, TypeOK
    <3>2. /\ Placed(OrderOf[k])' /\ funded'[k] = funded[k] /\ drawn'[k] = drawn[k]
          /\ toProvider'[k] = toProvider[k] + 0 /\ funded[k] + 0 = funded[k]
      BY <1>2, <2>1, <3>1 DEF Placed, TypeOK
    <3>. QED BY <1>1, <1>2, <2>2, <3>1, <3>2, ClosedBooks DEF Terminal
  <2>3. CASE j # k
    BY <1>1, <2>1, <2>3 DEF Balanced, Held, Placed
  <2>. QED BY <2>2, <2>3
<1>6. ASSUME NEW a \in Nat, NEW x \in Nat, NEW ref \in Nat, NEW loss \in Nat,
             MatchAmend(by, k, a, x, ref, loss, t)
      PROVE  Balanced(j)'
  <2>. DEFINE kept == Lesser(funded[k], a)
              excess == funded[k] - kept
  <2>1. /\ UNCHANGED <<drawn, toProvider, refund, reward>>
        /\ \A m \in Milestones \ {k} :
             /\ status'[m] = status[m] /\ toBuyer'[m] = toBuyer[m]
             /\ funded'[m] = funded[m]
    BY <1>6 DEF MatchAmend, Move, TypeOK, outcome
  <2>2. \A m \in Milestones : Placed(OrderOf[m])' <=> Placed(OrderOf[m])
    BY <1>6, OrderOfType DEF MatchAmend, Placed, TypeOK
  <2>3. CASE j = k
    <3>1. /\ status[k] = "AmendPending" /\ status'[k] \in Fundable
          /\ Placed(OrderOf[k])
          /\ toBuyer'[k] = toBuyer[k] + excess
          /\ funded'[k] = kept
      BY <1>6 DEF MatchAmend, AmendmentOk, IsParty, Move, TypeOK, Fundable
    <3>2. kept \in Nat /\ excess \in Nat /\ funded[k] = kept + excess
      BY <1>2 DEF Lesser
    <3>3. Held(k) = funded[k] /\ Held(k)' = kept
      BY <3>1 DEF Held, Fundable, Terminal
    <3>4. drawn[k] = kept + excess + toBuyer[k] + toProvider[k] /\ toProvider[k] = 0
      BY <1>1, <2>3, <3>1, <3>2, <3>3 DEF Balanced, Terminal
    <3>5. drawn'[k] = Held(k)' + toBuyer'[k] + toProvider'[k]
      <4>. HIDE DEF kept, excess
      <4>. QED BY <1>2, <2>1, <3>1, <3>2, <3>3, <3>4
    <3>6. status'[k] \notin Terminal /\ toProvider'[k] = 0 /\ Placed(OrderOf[k])'
      BY <2>1, <2>2, <3>1, <3>4 DEF Fundable, Terminal
    <3>. QED BY <2>3, <3>5, <3>6 DEF Balanced
  <2>4. CASE j # k
    BY <1>1, <2>1, <2>2, <2>4 DEF Balanced, Held
  <2>. QED BY <2>3, <2>4
<1>. QED BY <1>3, <1>4, <1>5, <1>6

LEMMA RunEndBooks == TypeOK /\ Books /\ RunEnd => Books'
<1>. SUFFICES ASSUME TypeOK, Books, RunEnd, NEW j \in Milestones
              PROVE  Balanced(j)'
  BY DEF Books
<1>1. Balanced(j)
  BY DEF Books
<1>2. ASSUME \/ \E t \in 0 .. Horizon : CloseRun(t)
             \/ \E losses \in [Ids -> Losses] : EndRun(losses)
      PROVE  Balanced(j)'
  BY <1>1, <1>2 DEF CloseRun, EndRun, milestones, price, outcome, ledger, Balanced, Held, Placed
<1>3. ASSUME NEW k \in Milestones, NEW loss \in Losses, AutoRefund(k, loss)
      PROVE  Balanced(j)'
  <2>1. /\ UNCHANGED <<orders, funded, drawn, toProvider>>
        /\ \A m \in Milestones \ {k} :
             /\ status'[m] = status[m] /\ toBuyer'[m] = toBuyer[m]
             /\ refund'[m] = refund[m] /\ reward'[m] = reward[m]
    BY <1>3 DEF AutoRefund, TypeOK, price
  <2>2. CASE j = k
    <3>1. /\ status[k] \in Contested /\ status'[k] = "AutoRefunded"
          /\ Placed(OrderOf[k])
          /\ toBuyer'[k] = toBuyer[k] + funded[k]
          /\ refund'[k] = funded[k] /\ reward'[k] = 0
      BY <1>3 DEF AutoRefund, Overdue, TypeOK
    <3>2. /\ Placed(OrderOf[k])' /\ funded'[k] = funded[k] /\ drawn'[k] = drawn[k]
          /\ funded[k] \in Nat
          /\ toProvider'[k] = toProvider[k] + 0 /\ funded[k] + 0 = funded[k]
      BY <2>1, <3>1 DEF Placed, TypeOK
    <3>. QED BY <1>1, <2>2, <3>1, <3>2, ClosedBooks DEF Terminal, Contested
  <2>3. CASE j # k
    BY <1>1, <2>1, <2>3 DEF Balanced, Held, Placed
  <2>. QED BY <2>2, <2>3
<1>. QED BY <1>2, <1>3 DEF RunEnd

-----------------------------------------------------------------------------
(* The consent of the parties *)

Idle(k) == settling[k].by = None /\ cancelling[k] = None /\ amending[k].by = None

\* What EscrowInv says of the handshakes of one milestone.
Consented(k) ==
  /\ status[k] = "SettlementPending" <=> settling[k].by # None
  /\ status[k] = "CancelPending" <=> cancelling[k] # None
  /\ status[k] = "AmendPending" <=> amending[k].by # None
  /\ \A i \in Ids : i \in {settling[k].by, cancelling[k], amending[k].by} => IsParty(i, k)
  /\ settling[k].by # None =>
       Signed("settle", settling[k].by, k, <<settling[k].refund, settling[k].reward>>, 0)
  /\ cancelling[k] # None => Signed("cancel", cancelling[k], k, <<0, 0>>, 0)
  /\ amending[k].by # None =>
       Signed("amend", amending[k].by, k, <<amending[k].amount, amending[k].expires>>,
              amends[k])
  /\ status[k] = "Settled" => Agreed("settle", k, <<refund[k], reward[k]>>, 0)
  /\ status[k] = "Cancelled" => Agreed("cancel", k, <<0, 0>>, 0)

Consents == \A k \in Milestones : Consented(k)

LEMMA ConsentsAreTheInvariants ==
  Consents <=> HandshakesWellFormed /\ ProposalsAreSigned /\ ExitNeedsBothParties
BY DEF Consents, Consented, HandshakesWellFormed, ProposalsAreSigned, ExitNeedsBothParties

SameParties(k) ==
  OrderIn(k)'.buyer = OrderIn(k).buyer /\ OrderIn(k)'.provider = OrderIn(k).provider

\* A milestone with nothing pending that was not closed by a handshake needs no
\* consent.
LEMMA IdleConsent ==
  ASSUME NoneFresh, NEW k \in Milestones, Idle(k)',
         status'[k] \notin {"SettlementPending", "CancelPending", "AmendPending",
                            "Settled", "Cancelled"}
  PROVE  Consented(k)'
BY DEF Idle, Consented

\* Signatures are never withdrawn: an untouched milestone keeps its consents.
LEMMA UntouchedConsent ==
  ASSUME NEW k \in Milestones, Consented(k), SameParties(k), signed \subseteq signed',
         status'[k] = status[k], settling'[k] = settling[k],
         cancelling'[k] = cancelling[k], amending'[k] = amending[k],
         amends'[k] = amends[k], refund'[k] = refund[k], reward'[k] = reward[k]
  PROVE  Consented(k)'
<1>1. \A i : IsParty(i, k) <=> IsParty(i, k)'
  BY DEF SameParties, IsParty, Placed, OrderIn
<1>2. \A kind, by, terms, ref : Signed(kind, by, k, terms, ref)
                                  => Signed(kind, by, k, terms, ref)'
  BY DEF Signed
<1>3. \A kind, terms, ref : Agreed(kind, k, terms, ref) => Agreed(kind, k, terms, ref)'
  BY <1>2 DEF Agreed, SameParties, OrderIn
<1>. QED BY <1>1, <1>2, <1>3 DEF Consented

LEMMA OrderEventConsents == TypeOK /\ Books /\ Consents /\ OrderEvent => Consents'
<1>. SUFFICES ASSUME TypeOK, Books, Consents, NEW o \in Orders, NEW t \in Times,
                     NEW M \in SUBSET Milestones, NEW amounts \in [M -> Amounts],
                     \/ \E b, p \in Ids, x \in Expiries : PlaceOrder(o, b, p, amounts, x, t)
                     \/ RejectOrder(o, amounts, t),
                     NEW k \in Milestones
              PROVE  Consented(k)'
  BY DEF OrderEvent, Consents
<1>1. OrderOk(o, amounts) /\ OpenMilestones(amounts) /\ UNCHANGED signed
  BY DEF PlaceOrder, RejectOrder
<1>2. Balanced(k) /\ Consented(k)
  BY DEF Books, Consents
<1>3. CASE k \in M
  <2>1. status'[k] = "Open" /\ Idle(k)'
    BY <1>1, <1>3 DEF OpenMilestones, Reset, Idle, NoSettlement, NoAmendment
  <2>. QED BY <2>1, NoneFresh, IdleConsent
<1>4. CASE k \notin M
  <2>1. /\ status'[k] = status[k] /\ settling'[k] = settling[k]
        /\ cancelling'[k] = cancelling[k] /\ amending'[k] = amending[k]
        /\ amends'[k] = amends[k] /\ refund'[k] = refund[k] /\ reward'[k] = reward[k]
    BY <1>1, <1>4 DEF OpenMilestones, Reset
  <2>2. CASE Placed(OrderOf[k])
    <3>1. SameParties(k)
      BY <1>1, <2>2, OrderOfType DEF PlaceOrder, RejectOrder, OrderOk, Placed, TypeOK,
                                     SameParties, OrderIn
    <3>. QED BY <1>1, <1>2, <2>1, <3>1, UntouchedConsent
  <2>3. CASE ~Placed(OrderOf[k])
    <3>1. status[k] \in {"Absent", "Open"}
      BY <1>2, <2>3 DEF Balanced
    <3>2. Idle(k)
      BY <1>2, <3>1 DEF Consented, Idle
    <3>. QED BY <2>1, <3>1, <3>2, NoneFresh, IdleConsent DEF Idle
  <2>. QED BY <2>2, <2>3
<1>. QED BY <1>3, <1>4

LEMMA SpendEventConsents == TypeOK /\ Consents /\ SpendEvent => Consents'
<1>. SUFFICES ASSUME TypeOK, Consents, NEW i \in Ids, NEW a \in Amounts, NEW loss \in Losses,
                     NEW n \in Nonces, NEW t \in Times,
                     \/ SpendToSink(i, a, n, loss, t)
                     \/ \E k \in Milestones : \/ FundMilestone(i, k, a, n, loss, t)
                                              \/ RejectFunding(i, k, a, n, loss, t),
                     NEW j \in Milestones
              PROVE  Consented(j)'
  BY DEF SpendEvent, Consents
<1>1. Consented(j)
  BY DEF Consents
<1>2. /\ UNCHANGED <<signed, settling, cancelling, amending, amends, refund, reward>>
      /\ SameParties(j)
  BY DEF SpendToSink, FundMilestone, RejectFunding, milestones, pending, outcome,
         SameParties, OrderIn
<1>3. CASE status'[j] = status[j]
  BY <1>1, <1>2, <1>3, UntouchedConsent
<1>4. ASSUME NEW k \in Milestones, FundMilestone(i, k, a, n, loss, t),
             status'[j] # status[j]
      PROVE  Consented(j)'
  <2>1. status[j] \in Fundable /\ status'[j] \in {"PartiallyFunded", "Funded"}
    BY <1>4 DEF FundMilestone, FundingOk, TypeOK
  <2>2. Idle(j)'
    BY <1>1, <1>2, <2>1 DEF Consented, Idle, Fundable
  <2>. QED BY <2>1, <2>2, NoneFresh, IdleConsent
<1>. QED BY <1>3, <1>4 DEF SpendToSink, RejectFunding, milestones

LEMMA DeliveryEventConsents == TypeOK /\ Consents /\ DeliveryEvent => Consents'
<1>. SUFFICES ASSUME TypeOK, Consents, NEW by \in Ids, NEW k \in Milestones,
                     NEW d \in Milestones, NEW t \in Times,
                     \/ Deliver(by, k, t)
                     \/ \E loss \in Losses : Accept(by, k, d, loss, t)
                     \/ \E at \in Times : Dispute(by, k, d, at, t),
                     NEW j \in Milestones
              PROVE  Consented(j)'
  BY DEF DeliveryEvent, Consents
<1>1. Consented(j)
  BY DEF Consents
<1>2. /\ UNCHANGED <<signed, settling, cancelling, amending, amends>>
      /\ SameParties(j)
  BY DEF Deliver, Accept, Dispute, pending, SameParties, OrderIn
<1>3. CASE j # k
  <2>1. status'[j] = status[j] /\ refund'[j] = refund[j] /\ reward'[j] = reward[j]
    BY <1>3 DEF Deliver, Accept, Dispute, Move, outcome, TypeOK
  <2>. QED BY <1>1, <1>2, <2>1, UntouchedConsent
<1>4. CASE j = k
  <2>1. /\ status[k] \in {"Funded", "Delivered"}
        /\ status'[k] \in {"Delivered", "Accepted", "Disputed"}
    BY DEF Deliver, Accept, Dispute, Move, TypeOK
  <2>2. Idle(j)'
    BY <1>1, <1>2, <1>4, <2>1 DEF Consented, Idle
  <2>. QED BY <1>4, <2>1, <2>2, NoneFresh, IdleConsent
<1>. QED BY <1>3, <1>4

LEMMA RunEndConsents == TypeOK /\ Consents /\ RunEnd => Consents'
<1>. SUFFICES ASSUME TypeOK, Consents, RunEnd, NEW j \in Milestones
              PROVE  Consented(j)'
  BY DEF Consents
<1>1. Consented(j)
  BY DEF Consents
<1>2. UNCHANGED <<signed, cancelling, amending, amends>> /\ SameParties(j)
  BY DEF RunEnd, CloseRun, AutoRefund, EndRun, milestones, pending, SameParties, OrderIn
<1>3. ASSUME \/ \E t \in 0 .. Horizon : CloseRun(t)
             \/ \E losses \in [Ids -> Losses] : EndRun(losses)
      PROVE  Consented(j)'
  <2>1. UNCHANGED <<status, settling, refund, reward>>
    BY <1>3 DEF CloseRun, EndRun, milestones, pending, outcome
  <2>. QED BY <1>1, <1>2, <2>1, UntouchedConsent
<1>4. ASSUME NEW k \in Milestones, NEW loss \in Losses, AutoRefund(k, loss)
      PROVE  Consented(j)'
  <2>1. CASE j # k
    <3>1. /\ status'[j] = status[j] /\ refund'[j] = refund[j] /\ reward'[j] = reward[j]
          /\ settling'[j] = settling[j]
      BY <1>4, <2>1 DEF AutoRefund, ClearSettling, TypeOK
    <3>. QED BY <1>1, <1>2, <3>1, UntouchedConsent
  <2>2. CASE j = k
    <3>1. /\ status[k] \in Contested /\ status'[k] = "AutoRefunded"
          /\ settling'[k] = NoSettlement
      BY <1>4 DEF AutoRefund, ClearSettling, Overdue, TypeOK
    <3>2. Idle(j)'
      BY <1>1, <1>2, <2>2, <3>1 DEF Consented, Idle, Contested, NoSettlement
    <3>. QED BY <2>2, <3>1, <3>2, NoneFresh, IdleConsent
  <2>. QED BY <2>1, <2>2
<1>. QED BY <1>3, <1>4 DEF RunEnd

\* Two signatures of one kind by distinct parties of a placed order are the
\* agreement of both.
LEMMA TwoSignaturesAgree ==
  ASSUME NEW k \in Milestones, NEW kind, NEW terms, NEW ref, NEW i, NEW j,
         IsParty(i, k), IsParty(j, k), i # j,
         Signed(kind, i, k, terms, ref)', Signed(kind, j, k, terms, ref)',
         SameParties(k)
  PROVE  Agreed(kind, k, terms, ref)'
BY DEF IsParty, Agreed, SameParties, OrderIn

LEMMA SignSigns ==
  ASSUME NEW kind, NEW by, NEW k, NEW terms, NEW ref, Sign(kind, by, k, terms, ref)
  PROVE  /\ signed \subseteq signed'
         /\ Signed(kind, by, k, terms, ref)'
BY DEF Sign, Signed

LEMMA HandshakeEventConsents == TypeOK /\ Consents /\ HandshakeEvent => Consents'
<1>. SUFFICES ASSUME TypeOK, Consents, NEW by \in Ids, NEW k \in Milestones, NEW t \in Nat,
                     \/ \E r, w \in Nat : ProposeSettlement(by, k, r, w, t)
                     \/ \E r, w, lb, lp \in Nat : MatchSettlement(by, k, r, w, lb, lp, t)
                     \/ ProposeCancel(by, k, t)
                     \/ \E loss \in Nat : MatchCancel(by, k, loss, t)
                     \/ \E a, x \in Nat : ProposeAmend(by, k, a, x, t)
                     \/ \E a, x, ref, loss \in Nat : MatchAmend(by, k, a, x, ref, loss, t),
                     NEW j \in Milestones
              PROVE  Consented(j)'
  BY ParameterTypes DEF HandshakeEvent, Consents
<1>1. Consented(j)
  BY DEF Consents
<1>2. SameParties(j)
  <2>1. ASSUME UNCHANGED orders PROVE SameParties(j)
    BY <2>1 DEF SameParties, OrderIn
  <2>2. ASSUME NEW a \in Nat, NEW x \in Nat, NEW ref \in Nat, NEW loss \in Nat,
               MatchAmend(by, k, a, x, ref, loss, t)
        PROVE  SameParties(j)
    <3>1. orders' = [orders EXCEPT ![OrderOf[k]].expires = x]
      BY <2>2 DEF MatchAmend
    <3>2. \A o \in Orders : /\ orders'[o].buyer = orders[o].buyer
                            /\ orders'[o].provider = orders[o].provider
      BY <3>1 DEF TypeOK, Order, NoOrder
    <3>. QED BY <3>2, OrderOfType DEF SameParties, OrderIn
  <2>. QED BY <2>1, <2>2 DEF ProposeSettlement, MatchSettlement, ProposeCancel,
              MatchCancel, ProposeAmend
<1>3. signed \subseteq signed'
  BY SignSigns DEF ProposeSettlement, MatchSettlement, ProposeCancel, MatchCancel,
     ProposeAmend, MatchAmend
<1>4. CASE j # k
  <2>1. /\ status'[j] = status[j] /\ settling'[j] = settling[j]
        /\ cancelling'[j] = cancelling[j] /\ amending'[j] = amending[j]
        /\ amends'[j] = amends[j] /\ refund'[j] = refund[j] /\ reward'[j] = reward[j]
    <3>1. CASE \E r, w \in Nat : ProposeSettlement(by, k, r, w, t)
      BY <1>4, <3>1 DEF ProposeSettlement, Move, outcome, TypeOK
    <3>2. CASE \E r, w, lb, lp \in Nat : MatchSettlement(by, k, r, w, lb, lp, t)
      BY <1>4, <3>2 DEF MatchSettlement, Move, TypeOK
    <3>3. CASE ProposeCancel(by, k, t) \/ \E loss \in Nat : MatchCancel(by, k, loss, t)
      BY <1>4, <3>3 DEF ProposeCancel, MatchCancel, Move, outcome, TypeOK
    <3>4. CASE \E a, x \in Nat : ProposeAmend(by, k, a, x, t)
      BY <1>4, <3>4 DEF ProposeAmend, Move, outcome, TypeOK
    <3>5. CASE \E a, x, ref, loss \in Nat : MatchAmend(by, k, a, x, ref, loss, t)
      BY <1>4, <3>5 DEF MatchAmend, Move, outcome, TypeOK
    <3>. QED BY <3>1, <3>2, <3>3, <3>4, <3>5
  <2>. QED BY <1>1, <1>2, <1>3, <2>1, UntouchedConsent
<1>5. ASSUME j = k, NEW r \in Nat, NEW w \in Nat, ProposeSettlement(by, k, r, w, t)
      PROVE  Consented(j)'
  <2>1. /\ status[k] = "Disputed" /\ status'[k] = "SettlementPending"
        /\ settling'[k] = [by |-> by, refund |-> r, reward |-> w]
        /\ UNCHANGED <<cancelling, amending, amends>> /\ IsParty(by, k)
    BY <1>5 DEF ProposeSettlement, SettlementOk, Move, TypeOK
  <2>2. Signed("settle", by, k, <<r, w>>, 0)'
    BY <1>5, SignSigns DEF ProposeSettlement
  <2>3. cancelling'[k] = None /\ amending'[k].by = None
    BY <1>1, <1>5, <2>1 DEF Consented
  <2>4. IsParty(by, k)'
    BY <1>2, <1>5, <2>1 DEF IsParty, SameParties, Placed, OrderIn
  <2>. QED BY <1>5, <2>1, <2>2, <2>3, <2>4, NoneFresh DEF Consented
<1>6. ASSUME j = k, ProposeCancel(by, k, t)
      PROVE  Consented(j)'
  <2>1. /\ status[k] \in Fundable /\ status'[k] = "CancelPending"
        /\ cancelling'[k] = by
        /\ UNCHANGED <<settling, amending, amends>> /\ IsParty(by, k)
    BY <1>6 DEF ProposeCancel, Move, TypeOK
  <2>2. Signed("cancel", by, k, <<0, 0>>, 0)'
    BY <1>6, SignSigns DEF ProposeCancel
  <2>3. settling'[k].by = None /\ amending'[k].by = None
    BY <1>1, <1>6, <2>1 DEF Consented, Fundable
  <2>4. IsParty(by, k)'
    BY <1>2, <1>6, <2>1 DEF IsParty, SameParties, Placed, OrderIn
  <2>. QED BY <1>6, <2>1, <2>2, <2>3, <2>4, NoneFresh DEF Consented
<1>7. ASSUME j = k, NEW a \in Nat, NEW x \in Nat, ProposeAmend(by, k, a, x, t)
      PROVE  Consented(j)'
  <2>1. /\ status[k] \in Fundable /\ status'[k] = "AmendPending"
        /\ amending'[k] = [by |-> by, amount |-> a, expires |-> x]
        /\ amends'[k] = amends[k] + 1
        /\ UNCHANGED <<settling, cancelling>> /\ IsParty(by, k)
    BY <1>7 DEF ProposeAmend, AmendmentOk, Move, TypeOK
  <2>2. Signed("amend", by, k, <<a, x>>, amends[k])'
    <3>1. PICK ref \in Nat : ref = amends[k] + 1
      BY DEF TypeOK
    <3>2. Signed("amend", by, k, <<a, x>>, ref)'
      BY <1>7, <3>1, SignSigns DEF ProposeAmend
    <3>. QED BY <2>1, <3>1, <3>2
  <2>3. settling'[k].by = None /\ cancelling'[k] = None
    BY <1>1, <1>7, <2>1 DEF Consented, Fundable
  <2>4. IsParty(by, k)'
    BY <1>2, <1>7, <2>1 DEF IsParty, SameParties, Placed, OrderIn
  <2>. QED BY <1>7, <2>1, <2>2, <2>3, <2>4, NoneFresh DEF Consented
<1>8. ASSUME j = k, NEW r \in Nat, NEW w \in Nat, NEW lb \in Nat, NEW lp \in Nat,
             MatchSettlement(by, k, r, w, lb, lp, t)
      PROVE  Consented(j)'
  <2>1. /\ status[k] = "SettlementPending" /\ status'[k] = "Settled"
        /\ settling'[k] = NoSettlement /\ refund'[k] = r /\ reward'[k] = w
        /\ UNCHANGED <<cancelling, amending>> /\ IsParty(by, k)
        /\ settling[k].by # by /\ settling[k].refund = r /\ settling[k].reward = w
    BY <1>8 DEF MatchSettlement, SettlementOk, Counterparty, Move, TypeOK
  <2>2. Idle(k)'
    BY <1>1, <1>8, <2>1 DEF Consented, Idle, NoSettlement
  <2>3. PICK author \in Ids : author = settling[k].by
    BY <1>1, <1>8, <2>1 DEF Consented, TypeOK, Settlement
  <2>4. IsParty(author, k) /\ Signed("settle", author, k, <<r, w>>, 0)
    BY <1>1, <1>8, <2>1, <2>3, NoneFresh DEF Consented
  <2>5. Agreed("settle", k, <<r, w>>, 0)'
    <3>1. Signed("settle", author, k, <<r, w>>, 0)'
      BY <1>3, <2>4 DEF Signed
    <3>2. Signed("settle", by, k, <<r, w>>, 0)'
      BY <1>8, SignSigns DEF MatchSettlement
    <3>. QED BY <1>2, <1>8, <2>1, <2>3, <2>4, <3>1, <3>2, TwoSignaturesAgree
  <2>. QED BY <1>8, <2>1, <2>2, <2>5, NoneFresh DEF Consented, Idle
<1>9. ASSUME j = k, NEW loss \in Nat, MatchCancel(by, k, loss, t)
      PROVE  Consented(j)'
  <2>1. /\ status[k] = "CancelPending" /\ status'[k] = "Cancelled"
        /\ cancelling'[k] = None /\ cancelling[k] # by
        /\ UNCHANGED <<settling, amending>> /\ IsParty(by, k)
    BY <1>9 DEF MatchCancel, Counterparty, Move, TypeOK
  <2>2. Idle(k)'
    BY <1>1, <1>9, <2>1 DEF Consented, Idle
  <2>3. PICK author \in Ids : author = cancelling[k]
    BY <1>1, <1>9, <2>1 DEF Consented, TypeOK
  <2>4. IsParty(author, k) /\ Signed("cancel", author, k, <<0, 0>>, 0)
    BY <1>1, <1>9, <2>1, <2>3, NoneFresh DEF Consented
  <2>5. Agreed("cancel", k, <<0, 0>>, 0)'
    <3>1. Signed("cancel", author, k, <<0, 0>>, 0)'
      BY <1>3, <2>4 DEF Signed
    <3>2. Signed("cancel", by, k, <<0, 0>>, 0)'
      BY <1>9, SignSigns DEF MatchCancel
    <3>. QED BY <1>2, <1>9, <2>1, <2>3, <2>4, <3>1, <3>2, TwoSignaturesAgree
  <2>. QED BY <1>9, <2>1, <2>2, <2>5, NoneFresh DEF Consented, Idle
<1>10. ASSUME j = k, NEW a \in Nat, NEW x \in Nat, NEW ref \in Nat, NEW loss \in Nat,
              MatchAmend(by, k, a, x, ref, loss, t)
       PROVE  Consented(j)'
  <2>1. /\ status[k] = "AmendPending" /\ status'[k] \in Fundable
        /\ amending'[k] = NoAmendment
        /\ UNCHANGED <<settling, cancelling>>
    BY <1>10 DEF MatchAmend, Move, TypeOK, Fundable
  <2>2. Idle(k)'
    BY <1>1, <1>10, <2>1 DEF Consented, Idle, NoAmendment
  <2>. QED BY <1>10, <2>1, <2>2, NoneFresh, IdleConsent DEF Fundable
<1>. QED BY <1>4, <1>5, <1>6, <1>7, <1>8, <1>9, <1>10

-----------------------------------------------------------------------------
(* The invariants of the engine *)

LEMMA InvIsBooksAndConsents == EscrowInv <=> TypeOK /\ Books /\ Consents
BY BooksAreTheInvariants, ConsentsAreTheInvariants DEF EscrowInv

LEMMA InitInv == Init => EscrowInv
<1>. SUFFICES ASSUME Init PROVE EscrowInv
  OBVIOUS
<1>1. TypeOK
  BY InitType
<1>2. ASSUME NEW k \in Milestones PROVE Balanced(k) /\ Consented(k)
  <2>1. /\ status[k] = "Absent" /\ funded[k] = 0 /\ drawn[k] = 0
        /\ toBuyer[k] = 0 /\ toProvider[k] = 0
    BY DEF Init
  <2>2. Balanced(k)
    BY <2>1 DEF Balanced, Held, Terminal
  <2>3. Idle(k)
    BY DEF Init, Idle, NoSettlement, NoAmendment
  <2>. QED BY <2>1, <2>2, <2>3, NoneFresh DEF Consented, Idle
<1>. QED BY <1>1, <1>2, InvIsBooksAndConsents DEF Books, Consents

LEMMA NextInv == EscrowInv /\ [Next]_vars => EscrowInv'
<1>. SUFFICES ASSUME EscrowInv, [Next]_vars PROVE EscrowInv'
  OBVIOUS
<1>1. TypeOK /\ Books /\ Consents
  BY InvIsBooksAndConsents
<1>2. TypeOK'
  BY <1>1, NextType
<1>3. Books' /\ Consents'
  <2>1. CASE \/ UNCHANGED vars
             \/ \E i \in Ids, a \in Amounts, loss \in Losses, t \in Times :
                  MintCredits(i, a, loss, t)
    <3>1. UNCHANGED <<orders, milestones, ledger, signed>>
      BY <2>1 DEF vars, MintCredits
    <3>2. ASSUME NEW k \in Milestones PROVE Balanced(k)' /\ Consented(k)'
      <4>1. Balanced(k) /\ Consented(k)
        BY <1>1 DEF Books, Consents
      <4>2. Balanced(k)'
        BY <3>1, <4>1 DEF Balanced, Held, Placed, milestones, price, outcome, ledger
      <4>3. Consented(k)'
        <5>1. SameParties(k)
          BY <3>1 DEF SameParties, OrderIn
        <5>. QED BY <3>1, <4>1, <5>1, UntouchedConsent DEF milestones, outcome, pending
      <4>. QED BY <4>2, <4>3
    <3>. QED BY <3>2 DEF Books, Consents
  <2>2. CASE OrderEvent
    BY <1>1, <2>2, OrderEventBooks, OrderEventConsents
  <2>3. CASE SpendEvent
    BY <1>1, <2>3, SpendEventBooks, SpendEventConsents
  <2>4. CASE DeliveryEvent
    BY <1>1, <2>4, DeliveryEventBooks, DeliveryEventConsents
  <2>5. CASE HandshakeEvent
    BY <1>1, <2>5, HandshakeEventBooks, HandshakeEventConsents
  <2>6. CASE RunEnd
    BY <1>1, <2>6, RunEndBooks, RunEndConsents
  <2>. QED BY <2>1, <2>2, <2>3, <2>4, <2>5, <2>6 DEF Next
<1>4. (TypeOK /\ Books /\ Consents)' => EscrowInv'
  BY InvIsBooksAndConsents, PTL
<1>. QED BY <1>2, <1>3, <1>4

\* The inductive invariant, from which the theorems below follow.
THEOREM InvariantHolds == Spec => []EscrowInv
BY InitInv, NextInv, PTL DEF Spec

\* No sequence of escrow events creates or destroys credits.
THEOREM LedgerBalances == Spec => []EscrowLedger
<1>1. EscrowInv => EscrowLedger
  BY DEF EscrowInv
<1>. QED BY <1>1, InvariantHolds, PTL

\* Providers are paid by outcomes only, and outcomes pay out what was funded.
THEOREM OutcomesArePaid == Spec => []PayoutsMatchOutcome
<1>1. EscrowInv => PayoutsMatchOutcome
  BY DEF EscrowInv
<1>. QED BY <1>1, InvariantHolds, PTL

\* Statuses and pending fields agree.
THEOREM HandshakesAreWellFormed == Spec => []HandshakesWellFormed
<1>1. EscrowInv => HandshakesWellFormed
  BY DEF EscrowInv
<1>. QED BY <1>1, InvariantHolds, PTL

\* Both parties signed every settlement and every cancellation.
THEOREM ExitsAreAgreed == Spec => []ExitNeedsBothParties
<1>1. EscrowInv => ExitNeedsBothParties
  BY DEF EscrowInv
<1>. QED BY <1>1, InvariantHolds, PTL

-----------------------------------------------------------------------------
(* What a step may never do *)

\* No action touches a terminal milestone.
LEMMA TerminalUntouched ==
  ASSUME EscrowInv, [Next]_vars, NEW k \in Milestones, status[k] \in Terminal
  PROVE  /\ Record(k)' = Record(k)
         /\ drawn'[k] = drawn[k] /\ toBuyer'[k] = toBuyer[k]
         /\ toProvider'[k] = toProvider[k]
<1>. TypeOK
  BY DEF EscrowInv
<1>1. Placed(OrderOf[k])
  BY DEF EscrowInv, OrphansHoldNothing, Terminal
<1>2. CASE \/ UNCHANGED vars
           \/ \E i \in Ids, a \in Amounts, loss \in Losses, t \in Times :
                MintCredits(i, a, loss, t)
  BY <1>2 DEF vars, MintCredits, milestones, price, times, outcome, pending, ledger, Record
<1>3. CASE OrderEvent
  <2>1. PICK o \in Orders, t \in Times, M \in SUBSET Milestones :
          \E amounts \in [M -> Amounts] :
            OrderOk(o, amounts) /\ OpenMilestones(amounts) /\ UNCHANGED ledger
    BY <1>3 DEF OrderEvent, PlaceOrder, RejectOrder
  <2>2. PICK amounts \in [M -> Amounts] :
          OrderOk(o, amounts) /\ OpenMilestones(amounts) /\ UNCHANGED ledger
    BY <2>1
  <2>3. k \notin M
    BY <1>1, <2>2 DEF OrderOk
  <2>. QED BY <2>2, <2>3 DEF OpenMilestones, Reset, Record, ledger
<1>4. CASE SpendEvent
  <2>1. PICK i \in Ids, a \in Amounts, loss \in Losses, n \in Nonces, t \in Times :
          \/ SpendToSink(i, a, n, loss, t)
          \/ \E j \in Milestones : \/ FundMilestone(i, j, a, n, loss, t)
                                   \/ RejectFunding(i, j, a, n, loss, t)
    BY <1>4 DEF SpendEvent
  <2>2. ASSUME NEW j \in Milestones, FundMilestone(i, j, a, n, loss, t)
        PROVE  /\ UNCHANGED <<Record(k), toBuyer, toProvider>>
               /\ drawn'[k] = drawn[k]
    <3>1. j # k
      BY <2>2 DEF FundMilestone, FundingOk, Fundable, Terminal
    <3>. QED BY <2>2, <3>1 DEF FundMilestone, TypeOK, times, outcome, pending, Record
  <2>. QED BY <2>1, <2>2 DEF SpendToSink, RejectFunding, milestones, price, times, outcome,
              pending, ledger, Record
<1>5. CASE DeliveryEvent
  <2>1. PICK by \in Ids, j \in Milestones, d \in Milestones, t \in Times :
          \/ Deliver(by, j, t)
          \/ \E loss \in Losses : Accept(by, j, d, loss, t)
          \/ \E at \in Times : Dispute(by, j, d, at, t)
    BY <1>5 DEF DeliveryEvent
  <2>2. j # k
    BY <2>1 DEF Deliver, Accept, Dispute, Move, Terminal
  <2>3. CASE Deliver(by, j, t)
    BY <2>2, <2>3 DEF Deliver, Move, TypeOK, price, outcome, pending, ledger, Record
  <2>4. CASE \E loss \in Losses : Accept(by, j, d, loss, t)
    BY <2>2, <2>4 DEF Accept, Move, TypeOK, price, times, pending, Record
  <2>5. CASE \E at \in Times : Dispute(by, j, d, at, t)
    BY <2>2, <2>5 DEF Dispute, Move, TypeOK, price, outcome, pending, ledger, Record
  <2>. QED BY <2>1, <2>3, <2>4, <2>5
<1>6. CASE HandshakeEvent
  <2>1. PICK by \in Ids, j \in Milestones, t \in Times :
          \/ \E r, w \in Shares : ProposeSettlement(by, j, r, w, t)
          \/ \E r, w \in Shares, lb, lp \in Losses : MatchSettlement(by, j, r, w, lb, lp, t)
          \/ ProposeCancel(by, j, t)
          \/ \E loss \in Losses : MatchCancel(by, j, loss, t)
          \/ \E a \in Amounts, x \in Expiries : ProposeAmend(by, j, a, x, t)
          \/ \E a \in Amounts, x \in Expiries, ref \in 0 .. MaxAmends, loss \in Losses :
               MatchAmend(by, j, a, x, ref, loss, t)
    BY <1>6 DEF HandshakeEvent
  <2>2. j # k
    <3>1. status[j] \in Fundable \cup {"Disputed", "SettlementPending", "CancelPending",
                                       "AmendPending"}
      BY <2>1 DEF ProposeSettlement, MatchSettlement, ProposeCancel, MatchCancel,
                  ProposeAmend, MatchAmend, Move
    <3>. QED BY <3>1 DEF Fundable, Terminal
  <2>3. CASE \E r, w \in Shares : ProposeSettlement(by, j, r, w, t)
    <3>1. UNCHANGED <<price, times, outcome, cancelling, amending, amends, ledger>>
      BY <2>3 DEF ProposeSettlement
    <3>2. status'[k] = status[k] /\ settling'[k] = settling[k]
      BY <2>2, <2>3 DEF ProposeSettlement, Move, TypeOK
    <3>. QED BY <3>1, <3>2 DEF price, times, outcome, ledger, Record
  <2>4. CASE \E r, w \in Shares, lb, lp \in Losses : MatchSettlement(by, j, r, w, lb, lp, t)
    BY <2>2, <2>4 DEF MatchSettlement, Move, TypeOK, price, times, Record
  <2>5. CASE \E loss \in Losses : MatchCancel(by, j, loss, t)
    BY <2>2, <2>5 DEF MatchCancel, Move, TypeOK, price, times, Record
  <2>6. CASE \E a \in Amounts, x \in Expiries, ref \in 0 .. MaxAmends, loss \in Losses :
               MatchAmend(by, j, a, x, ref, loss, t)
    BY <2>2, <2>6 DEF MatchAmend, Move, TypeOK, times, outcome, Record
  <2>7. CASE ProposeCancel(by, j, t)
    BY <2>2, <2>7 DEF ProposeCancel, Move, TypeOK, price, times, outcome, ledger, Record
  <2>8. CASE \E a \in Amounts, x \in Expiries : ProposeAmend(by, j, a, x, t)
    BY <2>2, <2>8 DEF ProposeAmend, Move, TypeOK, price, times, outcome, ledger, Record
  <2>. QED BY <2>1, <2>3, <2>4, <2>5, <2>6, <2>7, <2>8
<1>7. CASE RunEnd
  <2>1. ASSUME NEW j \in Milestones, NEW loss \in Losses, AutoRefund(j, loss)
        PROVE  /\ UNCHANGED <<Record(k), drawn, toProvider>>
               /\ toBuyer'[k] = toBuyer[k]
    <3>1. j # k
      BY <2>1 DEF AutoRefund, Overdue, Contested, Terminal
    <3>. QED BY <2>1, <3>1 DEF AutoRefund, ClearSettling, TypeOK, price, times, Record
  <2>. QED BY <1>7, <2>1 DEF RunEnd, CloseRun, EndRun, milestones, price, times, outcome,
              pending, ledger, Record
<1>. QED BY <1>2, <1>3, <1>4, <1>5, <1>6, <1>7 DEF Next

\* Terminal outcomes are final, whatever events, repeated orders and resumed runs
\* follow.
THEOREM OutcomesAreFinal == Spec => OutcomeIsFinal
<1>1. EscrowInv /\ [Next]_vars =>
        \A k \in Milestones : status[k] \in Terminal =>
          /\ Record(k)' = Record(k)
          /\ drawn'[k] = drawn[k] /\ toBuyer'[k] = toBuyer[k]
          /\ toProvider'[k] = toProvider[k]
  BY TerminalUntouched
<1>. QED BY <1>1, InvariantHolds, PTL DEF Spec, OutcomeIsFinal

-----------------------------------------------------------------------------
(* Escrow implements IdealEscrow *)

LEMMA SameMaps ==
  ASSUME \A k \in Milestones : Held(k)' = Held(k),
         \A k \in Milestones : status'[k] \in Terminal <=> status[k] \in Terminal,
         UNCHANGED ledger
  PROVE  UNCHANGED Ideal!vars
<1>1. [k \in Milestones |-> Held(k)]' = [k \in Milestones |-> Held(k)]
  OBVIOUS
<1>2. [k \in Milestones |-> status[k] \notin Terminal]'
        = [k \in Milestones |-> status[k] \notin Terminal]
  <2>1. \A k \in Milestones : (status'[k] \notin Terminal) = (status[k] \notin Terminal)
    OBVIOUS
  <2>. QED BY <2>1
<1>. QED BY <1>1, <1>2 DEF Ideal!vars, ledger

\* A milestone that takes credits and stays open is a deposit.
LEMMA DepositStep ==
  ASSUME EscrowInv, NEW k \in Milestones, NEW a \in Nat \ {0},
         status[k] \notin Terminal,
         \A m \in Milestones : status'[m] \in Terminal <=> status[m] \in Terminal,
         funded' = [funded EXCEPT ![k] = @ + a],
         drawn' = [drawn EXCEPT ![k] = @ + a],
         toBuyer' = toBuyer, toProvider' = toProvider
  PROVE  Ideal!Next
<1>. TypeOK
  BY DEF EscrowInv
<1>1. drawn'[k] - drawn[k] = a
  BY DEF TypeOK
<1>2. [m \in Milestones |-> Held(m)]'
        = [[m \in Milestones |-> Held(m)] EXCEPT ![k] = @ + a]
  <2>1. Held(k)' = Held(k) + a
    BY DEF Held, TypeOK
  <2>2. \A m \in Milestones \ {k} : Held(m)' = Held(m)
    BY DEF Held, TypeOK
  <2>3. [m \in Milestones |-> Held(m)]'
          = [m \in Milestones |-> IF m = k THEN Held(k) + a ELSE Held(m)]
    BY <2>1, <2>2
  <2>4. [[m \in Milestones |-> Held(m)] EXCEPT ![k] = @ + a]
          = [m \in Milestones |-> IF m = k THEN Held(k) + a ELSE Held(m)]
    OBVIOUS
  <2>. QED BY <2>3, <2>4
<1>3. [m \in Milestones |-> status[m] \notin Terminal]'
        = [m \in Milestones |-> status[m] \notin Terminal]
  <2>1. \A m \in Milestones : (status'[m] \notin Terminal) = (status[m] \notin Terminal)
    OBVIOUS
  <2>. QED BY <2>1
<1>4. Ideal!Deposit(k, a)
  <2>1. [m \in Milestones |-> status[m] \notin Terminal][k]
    OBVIOUS
  <2>2. a > 0
    OBVIOUS
  <2>3. UNCHANGED <<toBuyer, toProvider, [m \in Milestones |-> status[m] \notin Terminal]>>
    BY <1>3
  <2>. QED BY ONLY <2>1, <2>2, <2>3, <1>2, drawn' = [drawn EXCEPT ![k] = @ + a]
              DEF Ideal!Deposit
<1>. QED BY <1>1, <1>4 DEF Ideal!Next

\* A milestone that returns credits and stays open gives them back.
LEMMA GiveBackStep ==
  ASSUME EscrowInv, NEW k \in Milestones, NEW a \in Nat \ {0}, a <= funded[k],
         status[k] \notin Terminal,
         \A m \in Milestones : status'[m] \in Terminal <=> status[m] \in Terminal,
         funded' = [funded EXCEPT ![k] = @ - a],
         toBuyer' = [toBuyer EXCEPT ![k] = @ + a],
         drawn' = drawn, toProvider' = toProvider
  PROVE  Ideal!Next
<1>. TypeOK
  BY DEF EscrowInv
<1>1. toBuyer'[k] - toBuyer[k] = a
  BY DEF TypeOK
<1>2. [m \in Milestones |-> Held(m)]'
        = [[m \in Milestones |-> Held(m)] EXCEPT ![k] = @ - a]
  <2>1. Held(k)' = Held(k) - a
    BY DEF Held, TypeOK
  <2>2. \A m \in Milestones \ {k} : Held(m)' = Held(m)
    BY DEF Held, TypeOK
  <2>3. [m \in Milestones |-> Held(m)]'
          = [m \in Milestones |-> IF m = k THEN Held(k) - a ELSE Held(m)]
    BY <2>1, <2>2
  <2>4. [[m \in Milestones |-> Held(m)] EXCEPT ![k] = @ - a]
          = [m \in Milestones |-> IF m = k THEN Held(k) - a ELSE Held(m)]
    OBVIOUS
  <2>. QED BY <2>3, <2>4
<1>3. [m \in Milestones |-> status[m] \notin Terminal]'
        = [m \in Milestones |-> status[m] \notin Terminal]
  <2>1. \A m \in Milestones : (status'[m] \notin Terminal) = (status[m] \notin Terminal)
    OBVIOUS
  <2>. QED BY <2>1
<1>4. Ideal!GiveBack(k, a)
  <2>1. [m \in Milestones |-> status[m] \notin Terminal][k]
    OBVIOUS
  <2>2. a > 0 /\ a <= [m \in Milestones |-> Held(m)][k]
    BY DEF Held
  <2>3. UNCHANGED <<drawn, toProvider, [m \in Milestones |-> status[m] \notin Terminal]>>
    BY <1>3
  <2>. QED BY ONLY <2>1, <2>2, <2>3, <1>2, toBuyer' = [toBuyer EXCEPT ![k] = @ + a]
              DEF Ideal!GiveBack
<1>. QED BY <1>1, <1>4 DEF Ideal!Next

\* A milestone that becomes terminal pays out all it held and closes.
LEMMA CloseStep ==
  ASSUME EscrowInv, NEW k \in Milestones, NEW r \in Nat, NEW w \in Nat,
         NEW s \in Terminal, status[k] \notin Terminal,
         r + w = funded[k],
         status' = [status EXCEPT ![k] = s],
         toBuyer' = [toBuyer EXCEPT ![k] = @ + r],
         toProvider' = [toProvider EXCEPT ![k] = @ + w],
         funded' = funded, drawn' = drawn
  PROVE  Ideal!Next
<1>. TypeOK
  BY DEF EscrowInv
<1>1. toBuyer'[k] - toBuyer[k] = r /\ toProvider'[k] - toProvider[k] = w
  BY DEF TypeOK
<1>2. [m \in Milestones |-> Held(m)]' = [[m \in Milestones |-> Held(m)] EXCEPT ![k] = 0]
  BY DEF Held, TypeOK
<1>3. [m \in Milestones |-> status[m] \notin Terminal]'
        = [[m \in Milestones |-> status[m] \notin Terminal] EXCEPT ![k] = FALSE]
  <2>1. \A m \in Milestones \ {k} : status'[m] = status[m]
    BY DEF TypeOK
  <2>2. status'[k] \in Terminal
    BY DEF TypeOK
  <2>3. \A m \in Milestones :
          (status'[m] \notin Terminal)
            = (IF m = k THEN FALSE ELSE status[m] \notin Terminal)
    BY <2>1, <2>2
  <2>4. [m \in Milestones |-> status[m] \notin Terminal]'
          = [m \in Milestones |-> IF m = k THEN FALSE ELSE status[m] \notin Terminal]
    BY <2>3
  <2>5. [[m \in Milestones |-> status[m] \notin Terminal] EXCEPT ![k] = FALSE]
          = [m \in Milestones |-> IF m = k THEN FALSE ELSE status[m] \notin Terminal]
    OBVIOUS
  <2>. QED BY <2>4, <2>5
<1>4. Ideal!Close(k, toBuyer'[k] - toBuyer[k], toProvider'[k] - toProvider[k])
  <2>1. [m \in Milestones |-> status[m] \notin Terminal][k]
    OBVIOUS
  <2>2. (toBuyer'[k] - toBuyer[k]) + (toProvider'[k] - toProvider[k])
          = [m \in Milestones |-> Held(m)][k]
    BY <1>1 DEF Held
  <2>3. /\ toBuyer' = [toBuyer EXCEPT ![k] = @ + (toBuyer'[k] - toBuyer[k])]
        /\ toProvider' = [toProvider EXCEPT ![k] = @ + (toProvider'[k] - toProvider[k])]
    BY <1>1
  <2>. QED BY ONLY <2>1, <2>2, <2>3, <1>2, <1>3, drawn' = drawn DEF Ideal!Close
<1>5. toBuyer'[k] >= toBuyer[k] /\ toProvider'[k] >= toProvider[k]
  BY <1>1 DEF TypeOK
<1>. QED BY ONLY <1>4, <1>5, k \in Milestones DEF Ideal!Next

LEMMA InitIdeal == Init => Ideal!Init
<1>. SUFFICES ASSUME Init PROVE Ideal!Init
  OBVIOUS
<1>1. \A k \in Milestones : status[k] \notin Terminal /\ Held(k) = 0
  BY DEF Init, Held, Terminal
<1>2. [k \in Milestones |-> Held(k)] = [k \in Milestones |-> 0]
  BY <1>1
<1>3. [k \in Milestones |-> status[k] \notin Terminal] = [k \in Milestones |-> TRUE]
  <2>1. \A k \in Milestones : (status[k] \notin Terminal) = TRUE
    BY <1>1
  <2>. QED BY <2>1
<1>. QED BY <1>2, <1>3 DEF Init, Ideal!Init

\* A step that moves a milestone among the statuses that are not terminal, or no
\* milestone, and pays nothing is a stutter of the ideal escrow.
LEMMA QuietStep ==
  ASSUME UNCHANGED <<funded, ledger>>,
         \A m \in Milestones :
           \/ status'[m] = status[m]
           \/ status[m] \notin Terminal /\ status'[m] \notin Terminal
  PROVE  UNCHANGED Ideal!vars
<1>1. \A k \in Milestones : Held(k)' = Held(k)
  BY DEF Held
<1>2. \A k \in Milestones : status'[k] \in Terminal <=> status[k] \in Terminal
  OBVIOUS
<1>. QED BY <1>1, <1>2, SameMaps

LEMMA OrderEventIdeal == EscrowInv /\ OrderEvent => UNCHANGED Ideal!vars
<1>. SUFFICES ASSUME EscrowInv, OrderEvent PROVE UNCHANGED Ideal!vars
  OBVIOUS
<1>1. PICK M \in SUBSET Milestones, o \in Orders :
        \E amounts \in [M -> Amounts] :
          OrderOk(o, amounts) /\ OpenMilestones(amounts) /\ UNCHANGED ledger
  BY DEF OrderEvent, PlaceOrder, RejectOrder
<1>2. PICK amounts \in [M -> Amounts] :
        OrderOk(o, amounts) /\ OpenMilestones(amounts) /\ UNCHANGED ledger
  BY <1>1
<1>3. \A k \in M : status[k] \notin Terminal /\ funded[k] = 0
  <2>1. \A k \in M : ~Placed(OrderOf[k])
    BY <1>2 DEF OrderOk
  <2>. QED BY <2>1 DEF EscrowInv, OrphansHoldNothing, Terminal
<1>4. \A k \in Milestones : \/ status'[k] = status[k]
                            \/ status[k] \notin Terminal /\ status'[k] \notin Terminal
  BY <1>2, <1>3 DEF OpenMilestones, Reset, Terminal
<1>5. funded' = funded
  BY <1>2, <1>3 DEF OpenMilestones, Reset, EscrowInv, TypeOK
<1>. QED BY <1>2, <1>4, <1>5, QuietStep

LEMMA SpendEventIdeal == EscrowInv /\ SpendEvent => [Ideal!Next]_Ideal!vars
<1>. SUFFICES ASSUME EscrowInv, NEW i \in Ids, NEW a \in Nat \ {0}, NEW loss \in Losses,
                     NEW n \in Nonces, NEW t \in Times,
                     \/ SpendToSink(i, a, n, loss, t)
                     \/ \E k \in Milestones : \/ FundMilestone(i, k, a, n, loss, t)
                                              \/ RejectFunding(i, k, a, n, loss, t)
              PROVE  Ideal!Next \/ UNCHANGED Ideal!vars
  BY ParameterTypes DEF SpendEvent
<1>1. ASSUME NEW k \in Milestones, FundMilestone(i, k, a, n, loss, t)
      PROVE  Ideal!Next
  <2>1. /\ funded' = [funded EXCEPT ![k] = @ + a]
        /\ drawn' = [drawn EXCEPT ![k] = @ + a]
        /\ toBuyer' = toBuyer /\ toProvider' = toProvider
        /\ status[k] \in Fundable
    BY <1>1 DEF FundMilestone, FundingOk
  <2>2. \A m \in Milestones : \/ status'[m] = status[m]
                              \/ m = k /\ status'[m] \in {"PartiallyFunded", "Funded"}
    BY <1>1 DEF FundMilestone, EscrowInv, TypeOK
  <2>3. /\ status[k] \notin Terminal
        /\ \A m \in Milestones : status'[m] \in Terminal <=> status[m] \in Terminal
    BY <2>1, <2>2 DEF Fundable, Terminal
  <2>. QED BY <2>1, <2>3, DepositStep
<1>2. ASSUME UNCHANGED <<milestones, ledger>> PROVE UNCHANGED Ideal!vars
  BY <1>2, QuietStep DEF milestones, price
<1>. QED BY <1>1, <1>2 DEF SpendToSink, RejectFunding

LEMMA DeliveryEventIdeal == EscrowInv /\ DeliveryEvent => [Ideal!Next]_Ideal!vars
<1>. SUFFICES ASSUME EscrowInv, NEW by \in Ids, NEW k \in Milestones, NEW d \in Milestones,
                     NEW t \in Times,
                     \/ Deliver(by, k, t)
                     \/ \E loss \in Losses : Accept(by, k, d, loss, t)
                     \/ \E at \in Times : Dispute(by, k, d, at, t)
              PROVE  Ideal!Next \/ UNCHANGED Ideal!vars
  BY DEF DeliveryEvent
<1>. TypeOK
  BY DEF EscrowInv
<1>1. ASSUME Deliver(by, k, t) \/ \E at \in Times : Dispute(by, k, d, at, t)
      PROVE  UNCHANGED Ideal!vars
  <2>1. /\ UNCHANGED <<funded, ledger>>
        /\ status[k] \in {"Funded", "Delivered"} /\ status'[k] \in {"Delivered", "Disputed"}
        /\ \A m \in Milestones \ {k} : status'[m] = status[m]
    BY <1>1 DEF Deliver, Dispute, Move, TypeOK, price
  <2>2. \A m \in Milestones : \/ status'[m] = status[m]
                              \/ status[m] \notin Terminal /\ status'[m] \notin Terminal
    BY <2>1 DEF Terminal
  <2>. QED BY <2>1, <2>2, QuietStep
<1>2. ASSUME NEW loss \in Losses, Accept(by, k, d, loss, t)
      PROVE  Ideal!Next
  <2>1. /\ status' = [status EXCEPT ![k] = "Accepted"]
        /\ toProvider' = [toProvider EXCEPT ![k] = @ + funded[k]]
        /\ toBuyer' = [toBuyer EXCEPT ![k] = @ + 0]
        /\ funded' = funded /\ drawn' = drawn /\ status[k] = "Delivered"
    BY <1>2 DEF Accept, Move, TypeOK, price
  <2>2. /\ 0 + funded[k] = funded[k] /\ funded[k] \in Nat
        /\ status[k] \notin Terminal /\ "Accepted" \in Terminal
    BY <2>1 DEF TypeOK, Terminal
  <2>. QED BY <2>1, <2>2, CloseStep
<1>. QED BY <1>1, <1>2

LEMMA HandshakeEventIdeal == EscrowInv /\ HandshakeEvent => [Ideal!Next]_Ideal!vars
<1>. SUFFICES ASSUME EscrowInv, NEW by \in Ids, NEW k \in Milestones, NEW t \in Nat,
                     \/ \E r, w \in Nat : ProposeSettlement(by, k, r, w, t)
                     \/ \E r, w, lb, lp \in Nat : MatchSettlement(by, k, r, w, lb, lp, t)
                     \/ ProposeCancel(by, k, t)
                     \/ \E loss \in Nat : MatchCancel(by, k, loss, t)
                     \/ \E a, x \in Nat : ProposeAmend(by, k, a, x, t)
                     \/ \E a, x, ref, loss \in Nat : MatchAmend(by, k, a, x, ref, loss, t)
              PROVE  Ideal!Next \/ UNCHANGED Ideal!vars
  BY ParameterTypes DEF HandshakeEvent
<1>. TypeOK
  BY DEF EscrowInv
<1>1. ASSUME \/ \E r, w \in Nat : ProposeSettlement(by, k, r, w, t)
             \/ ProposeCancel(by, k, t)
             \/ \E a, x \in Nat : ProposeAmend(by, k, a, x, t)
      PROVE  UNCHANGED Ideal!vars
  <2>1. /\ UNCHANGED <<funded, ledger>>
        /\ status[k] \in Fundable \cup {"Disputed"}
        /\ status'[k] \in {"SettlementPending", "CancelPending", "AmendPending"}
        /\ \A m \in Milestones \ {k} : status'[m] = status[m]
    BY <1>1 DEF ProposeSettlement, ProposeCancel, ProposeAmend, Move, TypeOK, price
  <2>2. \A m \in Milestones : \/ status'[m] = status[m]
                              \/ status[m] \notin Terminal /\ status'[m] \notin Terminal
    BY <2>1 DEF Terminal, Fundable
  <2>. QED BY <2>1, <2>2, QuietStep
<1>2. ASSUME NEW r \in Nat, NEW w \in Nat, NEW lb \in Nat, NEW lp \in Nat,
             MatchSettlement(by, k, r, w, lb, lp, t)
      PROVE  Ideal!Next
  <2>1. /\ status' = [status EXCEPT ![k] = "Settled"]
        /\ toBuyer' = [toBuyer EXCEPT ![k] = @ + r]
        /\ toProvider' = [toProvider EXCEPT ![k] = @ + w]
        /\ funded' = funded /\ drawn' = drawn
        /\ status[k] = "SettlementPending" /\ r + w = funded[k]
    BY <1>2 DEF MatchSettlement, SettlementOk, Move, price
  <2>2. status[k] \notin Terminal /\ "Settled" \in Terminal
    BY <2>1 DEF Terminal
  <2>. QED BY <2>1, <2>2, CloseStep
<1>3. ASSUME NEW loss \in Nat, MatchCancel(by, k, loss, t)
      PROVE  Ideal!Next
  <2>1. /\ status' = [status EXCEPT ![k] = "Cancelled"]
        /\ toBuyer' = [toBuyer EXCEPT ![k] = @ + funded[k]]
        /\ toProvider' = [toProvider EXCEPT ![k] = @ + 0]
        /\ funded' = funded /\ drawn' = drawn /\ status[k] = "CancelPending"
    BY <1>3 DEF MatchCancel, CancelRefund, Move, TypeOK, price
  <2>2. /\ funded[k] + 0 = funded[k] /\ funded[k] \in Nat
        /\ status[k] \notin Terminal /\ "Cancelled" \in Terminal
    BY <2>1 DEF TypeOK, Terminal
  <2>. QED BY <2>1, <2>2, CloseStep
<1>4. ASSUME NEW a \in Nat, NEW x \in Nat, NEW ref \in Nat, NEW loss \in Nat,
             MatchAmend(by, k, a, x, ref, loss, t)
      PROVE  Ideal!Next \/ UNCHANGED Ideal!vars
  <2>1. PICK excess \in Nat : excess = funded[k] - Lesser(funded[k], a)
    BY DEF Lesser, TypeOK
  <2>2. excess <= funded[k] /\ Lesser(funded[k], a) = funded[k] - excess
    BY <2>1 DEF Lesser, TypeOK
  <2>3. /\ funded' = [funded EXCEPT ![k] = @ - excess]
        /\ toBuyer' = [toBuyer EXCEPT ![k] = @ + excess]
        /\ drawn' = drawn /\ toProvider' = toProvider
        /\ status[k] = "AmendPending" /\ status'[k] \in Fundable
        /\ \A m \in Milestones \ {k} : status'[m] = status[m]
    BY <1>4, <2>1, <2>2 DEF MatchAmend, Move, TypeOK, Fundable
  <2>4. /\ status[k] \notin Terminal
        /\ \A m \in Milestones : status'[m] \in Terminal <=> status[m] \in Terminal
        /\ \A m \in Milestones : \/ status'[m] = status[m]
                                 \/ status[m] \notin Terminal /\ status'[m] \notin Terminal
    BY <2>3 DEF Fundable, Terminal
  <2>5. CASE excess = 0
    <3>1. funded' = funded /\ toBuyer' = toBuyer
      BY <2>3, <2>5 DEF TypeOK
    <3>. QED BY <2>3, <2>4, <3>1, QuietStep DEF ledger
  <2>6. CASE excess # 0
    BY <2>2, <2>3, <2>4, <2>6, GiveBackStep
  <2>. QED BY <2>5, <2>6
<1>. QED BY <1>1, <1>2, <1>3, <1>4

LEMMA RunEndIdeal == EscrowInv /\ RunEnd => [Ideal!Next]_Ideal!vars
<1>. SUFFICES ASSUME EscrowInv, RunEnd PROVE Ideal!Next \/ UNCHANGED Ideal!vars
  OBVIOUS
<1>. TypeOK
  BY DEF EscrowInv
<1>1. ASSUME UNCHANGED <<milestones, ledger>> PROVE UNCHANGED Ideal!vars
  BY <1>1, QuietStep DEF milestones, price
<1>2. ASSUME NEW k \in Milestones, NEW loss \in Losses, AutoRefund(k, loss)
      PROVE  Ideal!Next
  <2>1. /\ status' = [status EXCEPT ![k] = "AutoRefunded"]
        /\ toBuyer' = [toBuyer EXCEPT ![k] = @ + funded[k]]
        /\ toProvider' = [toProvider EXCEPT ![k] = @ + 0]
        /\ funded' = funded /\ drawn' = drawn /\ status[k] \in Contested
    BY <1>2 DEF AutoRefund, Overdue, TypeOK, price
  <2>2. /\ funded[k] + 0 = funded[k] /\ funded[k] \in Nat
        /\ status[k] \notin Terminal /\ "AutoRefunded" \in Terminal
    BY <2>1 DEF TypeOK, Terminal, Contested
  <2>. QED BY <2>1, <2>2, CloseStep
<1>. QED BY <1>1, <1>2 DEF RunEnd, CloseRun, EndRun

\* Whatever events the engine replays, each milestone is an account of the ideal
\* escrow: credits come in while it is open, and it is closed once, by paying out
\* all it holds.
THEOREM EscrowImplementsIdeal == Spec => ImplementsIdealEscrow
<1>1. EscrowInv /\ [Next]_vars => [Ideal!Next]_Ideal!vars
  <2>. SUFFICES ASSUME EscrowInv, [Next]_vars PROVE [Ideal!Next]_Ideal!vars
    OBVIOUS
  <2>1. CASE \/ UNCHANGED vars
             \/ \E i \in Ids, a \in Amounts, loss \in Losses, t \in Times :
                  MintCredits(i, a, loss, t)
    <3>1. UNCHANGED <<milestones, ledger>>
      BY <2>1 DEF vars, MintCredits
    <3>. QED BY <3>1, QuietStep DEF milestones, price
  <2>. QED BY <2>1, OrderEventIdeal, SpendEventIdeal, DeliveryEventIdeal,
              HandshakeEventIdeal, RunEndIdeal DEF Next
<1>. QED BY <1>1, InitIdeal, InvariantHolds, PTL DEF Spec, ImplementsIdealEscrow, Ideal!Spec

\* The terms of an order: the price and the funding of a milestone of a placed
\* order, and the expiry of a placed order.
PriceKept(k) ==
  Placed(OrderOf[k]) => amount'[k] = amount[k] /\ funded'[k] >= funded[k]

LEMMA OrderEventKeepsTerms ==
  ASSUME EscrowInv, OrderEvent
  PROVE  /\ \A k \in Milestones : PriceKept(k)
         /\ \A o \in Orders : Placed(o) => orders'[o] = orders[o]
<1>. TypeOK
  BY DEF EscrowInv
<1>1. PICK o \in Orders, M \in SUBSET Milestones :
        \E amounts \in [M -> Amounts] :
          /\ OrderOk(o, amounts) /\ OpenMilestones(amounts)
          /\ \A p \in Orders \ {o} : orders'[p] = orders[p]
  BY DEF OrderEvent, PlaceOrder, RejectOrder, TypeOK
<1>2. PICK amounts \in [M -> Amounts] :
        /\ OrderOk(o, amounts) /\ OpenMilestones(amounts)
        /\ \A p \in Orders \ {o} : orders'[p] = orders[p]
  BY <1>1
<1>3. ASSUME NEW k \in Milestones, Placed(OrderOf[k])
      PROVE  amount'[k] = amount[k] /\ funded'[k] >= funded[k]
  <2>1. k \notin M
    BY <1>2, <1>3 DEF OrderOk
  <2>. QED BY <1>2, <2>1 DEF OpenMilestones, Reset, TypeOK
<1>. QED BY <1>2, <1>3 DEF PriceKept, OrderOk

LEMMA SpendEventKeepsTerms ==
  ASSUME EscrowInv, SpendEvent
  PROVE  (\A k \in Milestones : PriceKept(k)) /\ UNCHANGED orders
<1>. TypeOK
  BY DEF EscrowInv
<1>1. PICK i \in Ids, a \in Amounts, loss \in Losses, n \in Nonces, t \in Times :
        \/ SpendToSink(i, a, n, loss, t)
        \/ \E j \in Milestones : \/ FundMilestone(i, j, a, n, loss, t)
                                 \/ RejectFunding(i, j, a, n, loss, t)
  BY DEF SpendEvent
<1>2. a \in Nat
  BY ParameterTypes
<1>3. ASSUME NEW j \in Milestones, FundMilestone(i, j, a, n, loss, t)
      PROVE  (\A k \in Milestones : PriceKept(k)) /\ UNCHANGED orders
  BY <1>2, <1>3 DEF FundMilestone, TypeOK, PriceKept
<1>4. ASSUME UNCHANGED <<orders, milestones>>
      PROVE  (\A k \in Milestones : PriceKept(k)) /\ UNCHANGED orders
  BY <1>4 DEF milestones, price, TypeOK, PriceKept
<1>. QED BY <1>1, <1>3, <1>4 DEF SpendToSink, RejectFunding

LEMMA PriceUnchanged ==
  ASSUME EscrowInv, UNCHANGED price
  PROVE  \A k \in Milestones : PriceKept(k)
BY DEF price, EscrowInv, TypeOK, PriceKept

\* The handshake that changes the terms has been signed by both parties.
LEMMA AmendmentIsAgreed ==
  ASSUME EscrowInv, NEW by \in Ids, NEW k \in Milestones, NEW t \in Nat, NEW a \in Nat,
         NEW x \in Nat, NEW ref \in Nat, NEW loss \in Nat,
         MatchAmend(by, k, a, x, ref, loss, t)
  PROVE  /\ TermsAgreed(k)'
         /\ k \in OrderIn(k).spec
         /\ \A j \in Milestones \ {k} : PriceKept(j)
         /\ \A o \in Orders \ {OrderOf[k]} : orders'[o] = orders[o]
<1>. TypeOK
  BY DEF EscrowInv
<1>1. /\ status[k] = "AmendPending" /\ amending[k].by # by
      /\ amending[k].amount = a /\ amending[k].expires = x /\ ref = amends[k]
      /\ IsParty(by, k) /\ k \in OrderIn(k).spec
      /\ amount' = [amount EXCEPT ![k] = a]
      /\ funded' = [funded EXCEPT ![k] = Lesser(funded[k], a)]
      /\ orders' = [orders EXCEPT ![OrderOf[k]].expires = x]
      /\ Sign("amend", by, k, <<a, x>>, ref)
      /\ amends' = amends
  BY DEF MatchAmend, AmendmentOk, PendingAmend, Counterparty, Move
<1>2. PICK author \in Ids : author = amending[k].by
  BY <1>1 DEF EscrowInv, HandshakesWellFormed, TypeOK, Amendment
<1>3. IsParty(author, k) /\ Signed("amend", author, k, <<a, x>>, ref)
  BY <1>1, <1>2, NoneFresh DEF EscrowInv, HandshakesWellFormed, ProposalsAreSigned
<1>4. Signed("amend", author, k, <<a, x>>, ref)' /\ Signed("amend", by, k, <<a, x>>, ref)'
  BY <1>1, <1>3, SignSigns DEF Signed
<1>5. /\ SameParties(k) /\ OrderIn(k)'.expires = x
      /\ \A o \in Orders \ {OrderOf[k]} : orders'[o] = orders[o]
  <2>1. orders[OrderOf[k]] \in Order /\ OrderOf[k] \in Orders
    <3>1. /\ OrderOf[k] \in Orders
          /\ orders[OrderOf[k]] \in Order \cup {NoOrder} /\ orders[OrderOf[k]].buyer # None
      BY <1>1, OrderOfType DEF IsParty, Placed, TypeOK
    <3>. QED BY <3>1 DEF NoOrder
  <2>. QED BY <1>1, <2>1 DEF SameParties, OrderIn, TypeOK, Order
<1>6. Agreed("amend", k, <<a, x>>, ref)'
  BY <1>1, <1>2, <1>3, <1>4, <1>5, TwoSignaturesAgree
<1>7. amount'[k] = a /\ amends'[k] = ref
  BY <1>1 DEF TypeOK
<1>8. TermsAgreed(k)'
  BY <1>5, <1>6, <1>7 DEF TermsAgreed
<1>9. \A j \in Milestones \ {k} : PriceKept(j)
  BY <1>1 DEF TypeOK, PriceKept
<1>. QED BY <1>1, <1>5, <1>8, <1>9

\* What a step changes of the terms has been agreed.
LEMMA TermsStep ==
  ASSUME EscrowInv, [Next]_vars
  PROVE  \/ /\ \A k \in Milestones : PriceKept(k)
            /\ \A o \in Orders : Placed(o) => orders'[o] = orders[o]
         \/ \E k \in Milestones :
              /\ TermsAgreed(k)' /\ k \in OrderIn(k).spec
              /\ \A j \in Milestones \ {k} : PriceKept(j)
              /\ \A o \in Orders \ {OrderOf[k]} : orders'[o] = orders[o]
<1>1. ASSUME UNCHANGED <<orders, price>>
      PROVE  /\ \A k \in Milestones : PriceKept(k)
             /\ \A o \in Orders : Placed(o) => orders'[o] = orders[o]
  BY <1>1, PriceUnchanged
<1>2. CASE \/ UNCHANGED vars
           \/ \E i \in Ids, a \in Amounts, loss \in Losses, t \in Times :
                MintCredits(i, a, loss, t)
  BY <1>1, <1>2 DEF vars, MintCredits, milestones
<1>3. CASE DeliveryEvent
  BY <1>1, <1>3 DEF DeliveryEvent, Deliver, Accept, Dispute
<1>4. CASE RunEnd
  BY <1>1, <1>4 DEF RunEnd, CloseRun, AutoRefund, EndRun, milestones
<1>5. CASE HandshakeEvent
  <2>1. PICK by \in Ids, k \in Milestones, t \in Nat :
          \/ \E r, w \in Nat : ProposeSettlement(by, k, r, w, t)
          \/ \E r, w, lb, lp \in Nat : MatchSettlement(by, k, r, w, lb, lp, t)
          \/ ProposeCancel(by, k, t)
          \/ \E loss \in Nat : MatchCancel(by, k, loss, t)
          \/ \E a, x \in Nat : ProposeAmend(by, k, a, x, t)
          \/ \E a, x, ref, loss \in Nat : MatchAmend(by, k, a, x, ref, loss, t)
    BY <1>5, ParameterTypes DEF HandshakeEvent
  <2>2. ASSUME NEW a \in Nat, NEW x \in Nat, NEW ref \in Nat, NEW loss \in Nat,
               MatchAmend(by, k, a, x, ref, loss, t)
        PROVE  /\ TermsAgreed(k)' /\ k \in OrderIn(k).spec
               /\ \A j \in Milestones \ {k} : PriceKept(j)
               /\ \A o \in Orders \ {OrderOf[k]} : orders'[o] = orders[o]
    BY <2>2, AmendmentIsAgreed
  <2>. QED BY <1>1, <2>1, <2>2 DEF ProposeSettlement, MatchSettlement, ProposeCancel,
              MatchCancel, ProposeAmend
<1>. QED BY <1>2, <1>3, <1>4, <1>5, OrderEventKeepsTerms, SpendEventKeepsTerms DEF Next

\* The terms of an order change only as both of its parties signed.
THEOREM TermsAreAgreed == Spec => TermsNeedBothParties
<1>. DEFINE A == /\ \A k \in Milestones :
                      /\ Placed(OrderOf[k]) /\ k \in OrderIn(k).spec
                      /\ status'[k] \notin Terminal
                      /\ \/ amount'[k] # amount[k]
                         \/ funded'[k] < funded[k]
                      => TermsAgreed(k)'
                 /\ \A o \in Orders :
                      Placed(o) /\ orders'[o].expires # orders[o].expires
                        => \E k \in orders[o].spec : OrderOf[k] = o /\ TermsAgreed(k)'
<1>1. EscrowInv /\ [Next]_vars => A
  <2>. SUFFICES ASSUME EscrowInv, [Next]_vars PROVE A
    OBVIOUS
  <2>1. \A k \in Milestones : amount'[k] # amount[k] \/ funded'[k] < funded[k]
                                => ~PriceKept(k) \/ ~Placed(OrderOf[k])
    <3>1. \A k \in Milestones : funded[k] \in Nat /\ funded'[k] \in Nat
      BY NextType DEF EscrowInv, TypeOK
    <3>. QED BY <3>1 DEF PriceKept
  <2>2. \A k \in Milestones : OrderOf[k] \in Orders
    BY OrderOfType
  <2>. QED BY <2>1, <2>2, TermsStep DEF OrderIn
<1>. QED BY <1>1, InvariantHolds, PTL DEF Spec, TermsNeedBothParties

\* A milestone is accepted within the acceptance window of its own delivery.
THEOREM AcceptancesAreInTime == Spec => AcceptedInWindow
<1>. DEFINE A == \A k \in Milestones :
                   status[k] # "Accepted" /\ status'[k] = "Accepted"
                     => now' <= deliveredAt[k] + AcceptanceWindow
<1>1. EscrowInv /\ [Next]_vars => A
  <2>. SUFFICES ASSUME EscrowInv, [Next]_vars, NEW k \in Milestones,
                       status[k] # "Accepted", status'[k] = "Accepted"
                PROVE  now' <= deliveredAt[k] + AcceptanceWindow
    OBVIOUS
  <2>. TypeOK
    BY DEF EscrowInv
  <2>1. PICK by \in Ids, j \in Milestones, d \in Milestones, loss \in Losses, t \in Times :
          Accept(by, j, d, loss, t)
    <3>1. CASE \/ UNCHANGED vars
               \/ \E i \in Ids, a \in Amounts, loss \in Losses, t \in Times :
                    MintCredits(i, a, loss, t)
      BY <3>1 DEF vars, MintCredits, milestones
    <3>2. CASE OrderEvent
      BY <3>2 DEF OrderEvent, PlaceOrder, RejectOrder, OpenMilestones, Reset
    <3>3. CASE SpendEvent
      BY <3>3 DEF SpendEvent, SpendToSink, FundMilestone, RejectFunding, milestones, TypeOK
    <3>4. CASE DeliveryEvent
      BY <3>4 DEF DeliveryEvent, Deliver, Dispute, Move, TypeOK
    <3>5. CASE HandshakeEvent
      <4>1. PICK by \in Ids, m \in Milestones, t \in Times :
              \/ \E r, w \in Shares : ProposeSettlement(by, m, r, w, t)
              \/ \E r, w \in Shares, lb, lp \in Losses :
                   MatchSettlement(by, m, r, w, lb, lp, t)
              \/ ProposeCancel(by, m, t)
              \/ \E loss \in Losses : MatchCancel(by, m, loss, t)
              \/ \E a \in Amounts, x \in Expiries : ProposeAmend(by, m, a, x, t)
              \/ \E a \in Amounts, x \in Expiries, ref \in 0 .. MaxAmends, loss \in Losses :
                   MatchAmend(by, m, a, x, ref, loss, t)
        BY <3>5 DEF HandshakeEvent
      <4>2. /\ \A n \in Milestones \ {m} : status'[n] = status[n]
            /\ status'[m] \in {"SettlementPending", "Settled", "CancelPending", "Cancelled",
                               "AmendPending", "Open", "PartiallyFunded", "Funded"}
        <5>1. CASE \E a \in Amounts, x \in Expiries, ref \in 0 .. MaxAmends, loss \in Losses :
                     MatchAmend(by, m, a, x, ref, loss, t)
          BY <5>1 DEF MatchAmend, Move, TypeOK
        <5>2. CASE \/ \E r, w \in Shares : ProposeSettlement(by, m, r, w, t)
                   \/ \E r, w \in Shares, lb, lp \in Losses :
                        MatchSettlement(by, m, r, w, lb, lp, t)
          BY <5>2 DEF ProposeSettlement, MatchSettlement, Move, TypeOK
        <5>3. CASE \/ ProposeCancel(by, m, t)
                   \/ \E loss \in Losses : MatchCancel(by, m, loss, t)
                   \/ \E a \in Amounts, x \in Expiries : ProposeAmend(by, m, a, x, t)
          BY <5>3 DEF ProposeCancel, MatchCancel, ProposeAmend, Move, TypeOK
        <5>. QED BY <4>1, <5>1, <5>2, <5>3
      <4>. QED BY <4>2
    <3>6. CASE RunEnd
      BY <3>6 DEF RunEnd, CloseRun, AutoRefund, EndRun, milestones, TypeOK
    <3>. QED BY <3>1, <3>2, <3>3, <3>4, <3>5, <3>6 DEF Next
  <2>2. j = k
    BY <2>1 DEF Accept, Move, TypeOK
  <2>. QED BY <2>1, <2>2 DEF Accept, AcceptanceOk, Event, OwnDelivery
<1>. QED BY <1>1, InvariantHolds, PTL DEF Spec, AcceptedInWindow

-----------------------------------------------------------------------------
(* Conservation of credits *)

InEscrow == [k \in Milestones |-> Held(k)]

\* What a step that touches one milestone does to the credits in escrow.
LEMMA EscrowMoves ==
  ASSUME TypeOK, TypeOK', NEW k \in Milestones,
         \A m \in Milestones \ {k} : status'[m] = status[m] /\ funded'[m] = funded[m]
  PROVE  /\ SumFunction(InEscrow) \in Int
         /\ SumFunction(InEscrow') = SumFunction(InEscrow) + Held(k)' - Held(k)
<1>1. InEscrow \in [Milestones -> Int] /\ InEscrow' \in [Milestones -> Int]
  BY DEF TypeOK, InEscrow, Held
<1>2. /\ \A m \in Milestones \ {k} : InEscrow'[m] = InEscrow[m]
      /\ InEscrow'[k] = Held(k)' /\ InEscrow[k] = Held(k)
  BY DEF InEscrow, Held
<1>. HIDE DEF InEscrow
<1>3. /\ SumFunction(InEscrow) \in Int
      /\ SumFunction(InEscrow') = SumFunction(InEscrow) + InEscrow'[k] - InEscrow[k]
  BY ONLY <1>1, <1>2, FiniteType, SumChanges, k \in Milestones
<1>. QED BY <1>2, <1>3

\* A step that leaves the funding of every milestone as it is, or moves one among
\* the statuses that are not terminal, leaves the credits in escrow as they are.
LEMMA EscrowStays ==
  ASSUME UNCHANGED funded,
         \A m \in Milestones :
           \/ status'[m] = status[m]
           \/ status[m] \notin Terminal /\ status'[m] \notin Terminal
  PROVE  InEscrow' = InEscrow
BY DEF InEscrow, Held

\* The totals of CreditsConserved are numbers.
LEMMA TotalsAreNumbers ==
  ASSUME TypeOK
  PROVE  /\ SumFunction(bal) \in Int /\ SumFunction(lost) \in Int
         /\ SumFunction(InEscrow) \in Int
<1>1. /\ bal \in [Ids -> Int] /\ lost \in [Ids -> Int]
      /\ InEscrow \in [Milestones -> Int]
  BY DEF TypeOK, InEscrow, Held
<1>. HIDE DEF InEscrow
<1>2. PICK zero : zero = [i \in Ids |-> 0]
  OBVIOUS
<1>3. PICK nought : nought = [k \in Milestones |-> 0]
  OBVIOUS
<1>4. /\ zero \in [Ids -> Int]
      /\ \A i \in Ids : bal[i] = bal[i] + zero[i] /\ lost[i] = lost[i] + zero[i]
  BY ONLY <1>1, <1>2
<1>5. /\ nought \in [Milestones -> Int]
      /\ \A k \in Milestones : InEscrow[k] = InEscrow[k] + nought[k]
  BY ONLY <1>1, <1>3
<1>6. SumFunction(bal) \in Int /\ SumFunction(lost) \in Int
  BY ONLY <1>1, <1>4, FiniteType, SumsAdd
<1>7. SumFunction(InEscrow) \in Int
  BY ONLY <1>1, <1>5, FiniteType, SumsAdd
<1>. QED BY <1>6, <1>7

\* The totals of CreditsConserved move together.
TotalsMove(mint, inLots, decayed, spent, held) ==
  /\ minted' = minted + mint /\ sunk' = sunk + spent
  /\ SumFunction(bal') = SumFunction(bal) + inLots
  /\ SumFunction(lost') = SumFunction(lost) + decayed
  /\ SumFunction(InEscrow') = SumFunction(InEscrow) + held

LEMMA Conserves ==
  ASSUME TypeOK, CreditsConserved, NEW mint \in Int, NEW inLots \in Int,
         NEW decayed \in Int, NEW spent \in Int, NEW held \in Int,
         TotalsMove(mint, inLots, decayed, spent, held),
         mint = inLots + decayed + spent + held
  PROVE  CreditsConserved'
<1>1. /\ SumFunction(bal) \in Int /\ SumFunction(lost) \in Int
      /\ SumFunction(InEscrow) \in Int /\ minted \in Int /\ sunk \in Int
  BY TotalsAreNumbers DEF TypeOK
<1>2. minted = SumFunction(bal) + SumFunction(lost) + sunk + SumFunction(InEscrow)
  BY DEF CreditsConserved, InEscrow
<1>3. minted' = SumFunction(bal') + SumFunction(lost') + sunk' + SumFunction(InEscrow')
  BY ONLY <1>1, <1>2, TotalsMove(mint, inLots, decayed, spent, held), mint \in Int,
          inLots \in Int, decayed \in Int, spent \in Int, held \in Int,
          mint = inLots + decayed + spent + held DEF TotalsMove
<1>. QED BY <1>3 DEF CreditsConserved, InEscrow

\* A step that changes the lots of one identity only.
LotsMove(i, d, loss) ==
  /\ bal'[i] = bal[i] + d /\ lost'[i] = lost[i] + loss
  /\ \A j \in Ids \ {i} : bal'[j] = bal[j] /\ lost'[j] = lost[j]

LEMMA OneWallet ==
  ASSUME TypeOK, TypeOK', NEW i \in Ids, NEW d \in Int, NEW loss \in Int,
         LotsMove(i, d, loss)
  PROVE  /\ SumFunction(bal') = SumFunction(bal) + d
         /\ SumFunction(lost') = SumFunction(lost) + loss
<1>1. /\ bal \in [Ids -> Int] /\ lost \in [Ids -> Int]
      /\ bal' \in [Ids -> Int] /\ lost' \in [Ids -> Int]
      /\ bal[i] \in Int /\ lost[i] \in Int
  BY DEF TypeOK
<1>2. /\ bal'[i] = bal[i] + d /\ lost'[i] = lost[i] + loss
      /\ \A j \in Ids \ {i} : bal'[j] = bal[j] /\ lost'[j] = lost[j]
  BY DEF LotsMove
<1>3. SumFunction(bal) \in Int /\ SumFunction(bal') = SumFunction(bal) + bal'[i] - bal[i]
  BY ONLY <1>1, <1>2, FiniteType, SumChanges, i \in Ids
<1>4. SumFunction(lost) \in Int /\ SumFunction(lost') = SumFunction(lost) + lost'[i] - lost[i]
  BY ONLY <1>1, <1>2, FiniteType, SumChanges, i \in Ids
<1>. QED BY ONLY <1>1, <1>2, <1>3, <1>4, d \in Int, loss \in Int

LEMMA OneMilestone ==
  ASSUME TypeOK, TypeOK', NEW k \in Milestones, NEW d \in Int,
         \A m \in Milestones \ {k} : status'[m] = status[m] /\ funded'[m] = funded[m],
         Held(k)' = Held(k) + d
  PROVE  SumFunction(InEscrow') = SumFunction(InEscrow) + d
<1>1. Held(k) \in Int
  BY DEF TypeOK, Held
<1>2. /\ SumFunction(InEscrow) \in Int
      /\ SumFunction(InEscrow') = SumFunction(InEscrow) + Held(k)' - Held(k)
  BY EscrowMoves
<1>. QED BY ONLY <1>1, <1>2, Held(k)' = Held(k) + d, d \in Int

LEMMA NoMilestone ==
  ASSUME TypeOK, UNCHANGED funded,
         \A m \in Milestones :
           \/ status'[m] = status[m]
           \/ status[m] \notin Terminal /\ status'[m] \notin Terminal
  PROVE  SumFunction(InEscrow') = SumFunction(InEscrow) + 0
<1>1. SumFunction(InEscrow) \in Int
  BY TotalsAreNumbers
<1>2. InEscrow' = InEscrow
  BY EscrowStays
<1>3. SumFunction(InEscrow') = SumFunction(InEscrow)
  BY ONLY <1>2, Zenon
<1>. QED BY ONLY <1>1, <1>3

LEMMA OrderEventConserves == EscrowInv /\ CreditsConserved /\ OrderEvent => CreditsConserved'
<1>. SUFFICES ASSUME EscrowInv, CreditsConserved, OrderEvent PROVE CreditsConserved'
  OBVIOUS
<1>1. PICK M \in SUBSET Milestones, o \in Orders :
        \E amounts \in [M -> Amounts] :
          OrderOk(o, amounts) /\ OpenMilestones(amounts) /\ UNCHANGED wallet
  BY DEF OrderEvent, PlaceOrder, RejectOrder
<1>2. PICK amounts \in [M -> Amounts] :
        OrderOk(o, amounts) /\ OpenMilestones(amounts) /\ UNCHANGED wallet
  BY <1>1
<1>3. \A k \in M : status[k] \notin Terminal /\ funded[k] = 0
  <2>1. \A k \in M : ~Placed(OrderOf[k])
    BY <1>2 DEF OrderOk
  <2>. QED BY <2>1 DEF EscrowInv, OrphansHoldNothing, Terminal
<1>4. \A k \in Milestones : \/ status'[k] = status[k]
                            \/ status[k] \notin Terminal /\ status'[k] \notin Terminal
  BY <1>2, <1>3 DEF OpenMilestones, Reset, Terminal
<1>5. funded' = funded
  BY <1>2, <1>3 DEF OpenMilestones, Reset, EscrowInv, TypeOK
<1>6. InEscrow' = InEscrow
  BY <1>4, <1>5, EscrowStays
<1>. QED BY <1>2, <1>6 DEF CreditsConserved, InEscrow, wallet

LEMMA SpendEventConserves == EscrowInv /\ CreditsConserved /\ SpendEvent => CreditsConserved'
<1>. SUFFICES ASSUME EscrowInv, CreditsConserved, TypeOK', NEW i \in Ids, NEW a \in Nat,
                     NEW loss \in Nat, NEW n \in Nonces, NEW t \in Times,
                     \/ SpendToSink(i, a, n, loss, t)
                     \/ \E k \in Milestones : \/ FundMilestone(i, k, a, n, loss, t)
                                              \/ RejectFunding(i, k, a, n, loss, t)
              PROVE  CreditsConserved'
  BY SpendEventType, ParameterTypes DEF SpendEvent, EscrowInv
<1>. TypeOK
  BY DEF EscrowInv
<1>0. 0 \in Int /\ a \in Int /\ -a \in Int /\ loss \in Int /\ -loss \in Int /\ -loss - a \in Int
  OBVIOUS
<1>1. ASSUME NEW k \in Milestones, FundMilestone(i, k, a, n, loss, t)
      PROVE  CreditsConserved'
  <2>1. LotsMove(i, -loss - a, loss)
    BY <1>1 DEF FundMilestone, TypeOK, LotsMove
  <2>2. Held(k)' = Held(k) + a
    BY <1>1 DEF FundMilestone, FundingOk, Held, TypeOK, Terminal, Fundable
  <2>3. \A m \in Milestones \ {k} : status'[m] = status[m] /\ funded'[m] = funded[m]
    BY <1>1 DEF FundMilestone, TypeOK
  <2>4. /\ SumFunction(bal') = SumFunction(bal) + (-loss - a)
        /\ SumFunction(lost') = SumFunction(lost) + loss
    BY <1>0, <2>1, OneWallet
  <2>5. SumFunction(InEscrow') = SumFunction(InEscrow) + a
    BY <1>0, <2>2, <2>3, OneMilestone
  <2>6. TotalsMove(0, -loss - a, loss, 0, a)
    BY <1>1, <2>4, <2>5 DEF TotalsMove, FundMilestone, TypeOK
  <2>. QED BY <1>0, <2>6, Conserves
<1>2. CASE SpendToSink(i, a, n, loss, t)
  <2>1. LotsMove(i, -loss - a, loss)
    BY <1>2 DEF SpendToSink, TypeOK, LotsMove
  <2>3. SumFunction(InEscrow') = SumFunction(InEscrow) + 0
    BY <1>2, NoMilestone DEF SpendToSink, milestones, price
  <2>4. /\ SumFunction(bal') = SumFunction(bal) + (-loss - a)
        /\ SumFunction(lost') = SumFunction(lost) + loss
    BY <1>0, <2>1, OneWallet
  <2>5. TotalsMove(0, -loss - a, loss, a, 0)
    BY <1>2, <2>3, <2>4 DEF TotalsMove, SpendToSink, TypeOK
  <2>. QED BY <1>0, <2>5, Conserves
<1>3. ASSUME NEW k \in Milestones, RejectFunding(i, k, a, n, loss, t)
      PROVE  CreditsConserved'
  <2>1. LotsMove(i, -loss, loss)
    BY <1>3 DEF RejectFunding, TypeOK, LotsMove
  <2>3. SumFunction(InEscrow') = SumFunction(InEscrow) + 0
    BY <1>3, NoMilestone DEF RejectFunding, milestones, price
  <2>4. /\ SumFunction(bal') = SumFunction(bal) + (-loss)
        /\ SumFunction(lost') = SumFunction(lost) + loss
    BY <1>0, <2>1, OneWallet
  <2>5. TotalsMove(0, -loss, loss, 0, 0)
    BY <1>3, <2>3, <2>4 DEF TotalsMove, RejectFunding, TypeOK
  <2>. QED BY <1>0, <2>5, Conserves
<1>. QED BY <1>1, <1>2, <1>3

LEMMA DeliveryEventConserves ==
  EscrowInv /\ CreditsConserved /\ DeliveryEvent => CreditsConserved'
<1>. SUFFICES ASSUME EscrowInv, CreditsConserved, TypeOK', NEW by \in Ids,
                     NEW k \in Milestones, NEW d \in Milestones, NEW t \in Times,
                     \/ Deliver(by, k, t)
                     \/ \E loss \in Losses : Accept(by, k, d, loss, t)
                     \/ \E at \in Times : Dispute(by, k, d, at, t)
              PROVE  CreditsConserved'
  BY DeliveryEventType DEF DeliveryEvent, EscrowInv
<1>. TypeOK
  BY DEF EscrowInv
<1>1. ASSUME Deliver(by, k, t) \/ \E at \in Times : Dispute(by, k, d, at, t)
      PROVE  CreditsConserved'
  <2>1. /\ UNCHANGED <<funded, wallet>>
        /\ status[k] \in {"Funded", "Delivered"} /\ status'[k] \in {"Delivered", "Disputed"}
        /\ \A m \in Milestones \ {k} : status'[m] = status[m]
    BY <1>1 DEF Deliver, Dispute, Move, TypeOK, price
  <2>2. InEscrow' = InEscrow
    BY <2>1, EscrowStays DEF Terminal
  <2>. QED BY <2>1, <2>2 DEF CreditsConserved, InEscrow, wallet
<1>2. ASSUME NEW loss \in Losses, Accept(by, k, d, loss, t)
      PROVE  CreditsConserved'
  <2>. DEFINE p == OrderIn(k).provider
              a == funded[k]
  <2>1. /\ p \in Ids /\ a \in Int /\ loss \in Int
        /\ a - loss \in Int /\ -a \in Int /\ 0 \in Int
    BY <1>2, PartiesAreIds, ParameterTypes DEF Accept, AcceptanceOk, TypeOK
  <2>2. LotsMove(p, a - loss, loss) /\ minted' = minted /\ sunk' = sunk
    BY <1>2, <2>1 DEF Accept, Credit, TypeOK, LotsMove
  <2>3. /\ Held(k)' = Held(k) + (-a)
        /\ \A m \in Milestones \ {k} : status'[m] = status[m] /\ funded'[m] = funded[m]
    BY <1>2 DEF Accept, Move, Held, TypeOK, Terminal, price
  <2>. HIDE DEF p, a
  <2>4. /\ SumFunction(bal') = SumFunction(bal) + (a - loss)
        /\ SumFunction(lost') = SumFunction(lost) + loss
    BY <2>1, <2>2, OneWallet
  <2>5. SumFunction(InEscrow') = SumFunction(InEscrow) + (-a)
    BY <2>1, <2>3, OneMilestone
  <2>6. TotalsMove(0, a - loss, loss, 0, -a)
    BY <2>2, <2>4, <2>5 DEF TotalsMove, TypeOK
  <2>. QED BY <2>1, <2>6, Conserves
<1>. QED BY <1>1, <1>2

\* A milestone that pays its buyer all it gives up conserves the credits.
LEMMA BackToBuyer ==
  ASSUME EscrowInv, CreditsConserved, TypeOK', NEW k \in Milestones, NEW i \in Ids,
         NEW a \in Nat, NEW loss \in Nat,
         Credit(i, loss, a), minted' = minted, sunk' = sunk,
         \A m \in Milestones \ {k} : status'[m] = status[m] /\ funded'[m] = funded[m],
         Held(k)' = Held(k) - a
  PROVE  CreditsConserved'
<1>. TypeOK
  BY DEF EscrowInv
<1>1. a \in Int /\ loss \in Int /\ a - loss \in Int /\ -a \in Int /\ 0 \in Int
  OBVIOUS
<1>2. LotsMove(i, a - loss, loss)
  BY DEF Credit, TypeOK, LotsMove
<1>3. Held(k)' = Held(k) + (-a)
  BY DEF Held, TypeOK
<1>4. /\ SumFunction(bal') = SumFunction(bal) + (a - loss)
      /\ SumFunction(lost') = SumFunction(lost) + loss
  BY <1>1, <1>2, OneWallet
<1>5. SumFunction(InEscrow') = SumFunction(InEscrow) + (-a)
  BY <1>1, <1>3, OneMilestone
<1>6. TotalsMove(0, a - loss, loss, 0, -a)
  BY <1>4, <1>5 DEF TotalsMove, TypeOK
<1>7. 0 = (a - loss) + loss + 0 + (-a)
  OBVIOUS
<1>. QED BY <1>1, <1>6, <1>7, Conserves

LEMMA HandshakeEventConserves ==
  EscrowInv /\ CreditsConserved /\ HandshakeEvent => CreditsConserved'
<1>. SUFFICES ASSUME EscrowInv, CreditsConserved, TypeOK', NEW by \in Ids,
                     NEW k \in Milestones, NEW t \in Nat,
                     \/ \E r, w \in Nat : ProposeSettlement(by, k, r, w, t)
                     \/ \E r, w, lb, lp \in Nat : MatchSettlement(by, k, r, w, lb, lp, t)
                     \/ ProposeCancel(by, k, t)
                     \/ \E loss \in Nat : MatchCancel(by, k, loss, t)
                     \/ \E a, x \in Nat : ProposeAmend(by, k, a, x, t)
                     \/ \E a, x, ref, loss \in Nat : MatchAmend(by, k, a, x, ref, loss, t)
              PROVE  CreditsConserved'
  BY HandshakeEventType, ParameterTypes DEF HandshakeEvent, EscrowInv
<1>. TypeOK
  BY DEF EscrowInv
<1>1. ASSUME \/ \E r, w \in Nat : ProposeSettlement(by, k, r, w, t)
             \/ ProposeCancel(by, k, t)
             \/ \E a, x \in Nat : ProposeAmend(by, k, a, x, t)
      PROVE  CreditsConserved'
  <2>1. /\ UNCHANGED <<funded, wallet>>
        /\ status[k] \in Fundable \cup {"Disputed"}
        /\ status'[k] \in {"SettlementPending", "CancelPending", "AmendPending"}
        /\ \A m \in Milestones \ {k} : status'[m] = status[m]
    BY <1>1 DEF ProposeSettlement, ProposeCancel, ProposeAmend, Move, TypeOK, price
  <2>2. InEscrow' = InEscrow
    BY <2>1, EscrowStays DEF Terminal, Fundable
  <2>. QED BY <2>1, <2>2 DEF CreditsConserved, InEscrow, wallet
<1>2. ASSUME NEW r \in Nat, NEW w \in Nat, NEW lb \in Nat, NEW lp \in Nat,
             MatchSettlement(by, k, r, w, lb, lp, t)
      PROVE  CreditsConserved'
  <2>. DEFINE b == OrderIn(k).buyer
              p == OrderIn(k).provider
              a == funded[k]
  <2>0. b # p
    <3>1. settling[k].by \in {b, p} /\ by \in {b, p} /\ settling[k].by # by
      BY <1>2 DEF MatchSettlement, SettlementOk, IsParty, Counterparty, Move,
                  EscrowInv, HandshakesWellFormed, TypeOK, Settlement
    <3>. QED BY <3>1
  <2>1. /\ b \in Ids /\ p \in Ids
        /\ bal' = [bal EXCEPT ![b] = @ - lb + r, ![p] = @ - lp + w]
        /\ lost' = [lost EXCEPT ![b] = @ + lb, ![p] = @ + lp]
        /\ minted' = minted /\ sunk' = sunk
    BY <1>2, PartiesAreIds DEF MatchSettlement, SettlementOk, IsParty
  <2>2. /\ a \in Nat /\ r + w = a /\ Held(k)' = Held(k) - a
        /\ \A m \in Milestones \ {k} : status'[m] = status[m] /\ funded'[m] = funded[m]
    BY <1>2 DEF MatchSettlement, SettlementOk, Move, Held, TypeOK, Terminal, price
  <2>. HIDE DEF b, p, a
  <2>3. /\ SumFunction(bal') = SumFunction(bal) + (r + w - lb - lp)
        /\ SumFunction(lost') = SumFunction(lost) + (lb + lp)
    <3>1. /\ bal \in [Ids -> Int] /\ bal' \in [Ids -> Int]
          /\ lost \in [Ids -> Int] /\ lost' \in [Ids -> Int]
          /\ bal[b] \in Int /\ bal[p] \in Int /\ lost[b] \in Int /\ lost[p] \in Int
      BY <2>1 DEF TypeOK
    <3>2. /\ \A i \in Ids \ {b, p} : bal'[i] = bal[i] /\ lost'[i] = lost[i]
          /\ bal'[b] = bal[b] - lb + r /\ bal'[p] = bal[p] - lp + w
          /\ lost'[b] = lost[b] + lb /\ lost'[p] = lost[p] + lp
      BY ONLY <2>0, <2>1, <3>1
    <3>3. /\ SumFunction(bal) \in Int
          /\ SumFunction(bal') = SumFunction(bal) + (bal'[b] - bal[b]) + (bal'[p] - bal[p])
      <4>1. \A i \in Ids \ {b, p} : bal'[i] = bal[i]
        BY ONLY <3>2
      <4>2. b \in Ids /\ p \in Ids
        BY ONLY <2>1
      <4>3. IsFiniteSet(Ids) /\ bal \in [Ids -> Int] /\ bal' \in [Ids -> Int]
        BY ONLY <3>1, FiniteType
      <4>. QED BY ONLY <2>0, <4>1, <4>2, <4>3, SumChangesTwice
    <3>4. /\ SumFunction(lost) \in Int
          /\ SumFunction(lost')
               = SumFunction(lost) + (lost'[b] - lost[b]) + (lost'[p] - lost[p])
      <4>1. \A i \in Ids \ {b, p} : lost'[i] = lost[i]
        BY ONLY <3>2
      <4>2. b \in Ids /\ p \in Ids
        BY ONLY <2>1
      <4>3. IsFiniteSet(Ids) /\ lost \in [Ids -> Int] /\ lost' \in [Ids -> Int]
        BY ONLY <3>1, FiniteType
      <4>. QED BY ONLY <2>0, <4>1, <4>2, <4>3, SumChangesTwice
    <3>. QED BY ONLY <3>1, <3>2, <3>3, <3>4, r \in Nat, w \in Nat, lb \in Nat, lp \in Nat
  <2>4. SumFunction(InEscrow') = SumFunction(InEscrow) + (-a)
    <3>1. Held(k)' = Held(k) + (-a) /\ -a \in Int
      BY <2>2 DEF Held, TypeOK
    <3>. QED BY <2>2, <3>1, OneMilestone
  <2>5. TotalsMove(0, r + w - lb - lp, lb + lp, 0, -a)
    BY <2>1, <2>3, <2>4 DEF TotalsMove, TypeOK
  <2>6. /\ 0 \in Int /\ r + w - lb - lp \in Int /\ lb + lp \in Int /\ -a \in Int
        /\ 0 = (r + w - lb - lp) + (lb + lp) + 0 + (-a)
    BY <2>2
  <2>. QED BY <2>5, <2>6, Conserves
<1>3. ASSUME NEW loss \in Nat, MatchCancel(by, k, loss, t)
      PROVE  CreditsConserved'
  <2>1. /\ OrderIn(k).buyer \in Ids /\ funded[k] \in Nat
        /\ Credit(OrderIn(k).buyer, loss, funded[k]) /\ minted' = minted /\ sunk' = sunk
    BY <1>3, PartiesAreIds DEF MatchCancel, IsParty, CreditIfPositive, CancelRefund, TypeOK
  <2>2. /\ Held(k)' = Held(k) - funded[k]
        /\ \A m \in Milestones \ {k} : status'[m] = status[m] /\ funded'[m] = funded[m]
    BY <1>3 DEF MatchCancel, Move, Held, TypeOK, Terminal, price
  <2>. QED BY <2>1, <2>2, BackToBuyer
<1>4. ASSUME NEW a \in Nat, NEW x \in Nat, NEW ref \in Nat, NEW loss \in Nat,
             MatchAmend(by, k, a, x, ref, loss, t)
      PROVE  CreditsConserved'
  <2>1. PICK excess \in Nat : excess = funded[k] - Lesser(funded[k], a)
    BY DEF Lesser, TypeOK
  <2>2. Lesser(funded[k], a) = funded[k] - excess /\ funded[k] \in Nat
    BY <2>1 DEF Lesser, TypeOK
  <2>3. /\ OrderIn(k).buyer \in Ids
        /\ Credit(OrderIn(k).buyer, loss, excess) /\ minted' = minted /\ sunk' = sunk
    BY <1>4, <2>1, PartiesAreIds DEF MatchAmend, AmendmentOk, IsParty, CreditIfPositive
  <2>4. /\ status[k] = "AmendPending" /\ status'[k] \in Fundable
        /\ funded'[k] = funded[k] - excess
        /\ \A m \in Milestones \ {k} : status'[m] = status[m] /\ funded'[m] = funded[m]
    BY <1>4, <2>2 DEF MatchAmend, Move, TypeOK, Fundable
  <2>5. Held(k)' = Held(k) - excess
    BY <2>4 DEF Held, Fundable, Terminal
  <2>. QED BY <2>3, <2>4, <2>5, BackToBuyer
<1>. QED BY <1>1, <1>2, <1>3, <1>4

LEMMA RunEndConserves == EscrowInv /\ CreditsConserved /\ RunEnd => CreditsConserved'
<1>. SUFFICES ASSUME EscrowInv, CreditsConserved, TypeOK', RunEnd PROVE CreditsConserved'
  BY RunEndType DEF EscrowInv
<1>. TypeOK
  BY DEF EscrowInv
<1>1. ASSUME NEW t \in 0 .. Horizon, CloseRun(t)
      PROVE  CreditsConserved'
  <2>1. InEscrow' = InEscrow
    BY <1>1, EscrowStays DEF CloseRun, milestones, price
  <2>. QED BY <1>1, <2>1 DEF CreditsConserved, InEscrow, CloseRun, wallet
<1>2. ASSUME NEW k \in Milestones, NEW loss \in Losses, AutoRefund(k, loss)
      PROVE  CreditsConserved'
  <2>1. /\ OrderIn(k).buyer \in Ids /\ funded[k] \in Nat /\ loss \in Nat
        /\ Credit(OrderIn(k).buyer, loss, funded[k]) /\ minted' = minted /\ sunk' = sunk
    BY <1>2, PartiesAreIds, ParameterTypes DEF AutoRefund, Overdue, TypeOK
  <2>2. /\ Held(k)' = Held(k) - funded[k]
        /\ \A m \in Milestones \ {k} : status'[m] = status[m] /\ funded'[m] = funded[m]
    BY <1>2 DEF AutoRefund, Overdue, Held, TypeOK, Terminal, Contested, price
  <2>. QED BY <2>1, <2>2, BackToBuyer
<1>3. ASSUME NEW losses \in [Ids -> Losses], EndRun(losses)
      PROVE  CreditsConserved'
  <2>1. /\ bal \in [Ids -> Int] /\ lost \in [Ids -> Int]
        /\ bal' \in [Ids -> Int] /\ lost' \in [Ids -> Int]
        /\ losses \in [Ids -> Int]
    <3>1. losses \in [Ids -> Int]
      <4>1. \A i \in Ids : losses[i] \in Nat
        BY ParameterTypes
      <4>. QED BY <4>1
    <3>. QED BY <3>1 DEF TypeOK
  <2>2. /\ \A i \in Ids : bal[i] = bal'[i] + losses[i]
        /\ \A i \in Ids : lost'[i] = lost[i] + losses[i]
    BY <1>3, <2>1 DEF EndRun
  <2>3. /\ SumFunction(bal') \in Int /\ SumFunction(losses) \in Int
        /\ SumFunction(bal) = SumFunction(bal') + SumFunction(losses)
    BY ONLY <2>1, <2>2, FiniteType, SumsAdd
  <2>4. SumFunction(lost') = SumFunction(lost) + SumFunction(losses)
    BY ONLY <2>1, <2>2, FiniteType, SumsAdd
  <2>5. SumFunction(InEscrow') = SumFunction(InEscrow) + 0
    BY <1>3, NoMilestone DEF EndRun, milestones, price
  <2>6. PICK s \in Int : s = SumFunction(losses)
    BY <2>3
  <2>7. TotalsMove(0, -s, s, 0, 0)
    <3>1. SumFunction(bal') = SumFunction(bal) + (-s)
      BY ONLY <2>3, <2>6
    <3>. QED BY <1>3, <2>4, <2>5, <2>6, <3>1 DEF TotalsMove, EndRun, TypeOK
  <2>8. 0 \in Int /\ -s \in Int /\ 0 = (-s) + s + 0 + 0
    OBVIOUS
  <2>. QED BY <2>6, <2>7, <2>8, Conserves
<1>. QED BY <1>1, <1>2, <1>3 DEF RunEnd

LEMMA NextConserves == EscrowInv /\ CreditsConserved /\ [Next]_vars => CreditsConserved'
<1>. SUFFICES ASSUME EscrowInv, CreditsConserved, [Next]_vars PROVE CreditsConserved'
  OBVIOUS
<1>. TypeOK /\ TypeOK'
  BY NextType DEF EscrowInv
<1>1. CASE UNCHANGED vars
  <2>1. InEscrow' = InEscrow /\ UNCHANGED wallet
    BY <1>1, EscrowStays DEF vars, milestones, price
  <2>. QED BY <2>1 DEF CreditsConserved, InEscrow, wallet
<1>2. ASSUME NEW i \in Ids, NEW a \in Amounts, NEW loss \in Losses, NEW t \in Times,
             MintCredits(i, a, loss, t)
      PROVE  CreditsConserved'
  <2>1. /\ a \in Int /\ loss \in Int /\ a - loss \in Int /\ 0 \in Int
        /\ a = (a - loss) + loss + 0 + 0
    BY ParameterTypes
  <2>2. LotsMove(i, a - loss, loss)
    BY <1>2, <2>1 DEF MintCredits, Credit, TypeOK, LotsMove
  <2>3. /\ SumFunction(bal') = SumFunction(bal) + (a - loss)
        /\ SumFunction(lost') = SumFunction(lost) + loss
    BY <2>1, <2>2, OneWallet
  <2>4. SumFunction(InEscrow') = SumFunction(InEscrow) + 0
    BY <1>2, NoMilestone DEF MintCredits, milestones, price
  <2>5. TotalsMove(a, a - loss, loss, 0, 0)
    BY <1>2, <2>3, <2>4 DEF TotalsMove, MintCredits, TypeOK
  <2>. QED BY <2>1, <2>5, Conserves
<1>. QED BY <1>1, <1>2, OrderEventConserves, SpendEventConserves, DeliveryEventConserves,
            HandshakeEventConserves, RunEndConserves DEF Next

LEMMA InitConserves == Init => CreditsConserved
<1>. SUFFICES ASSUME Init PROVE CreditsConserved
  OBVIOUS
<1>1. /\ bal = [i \in Ids |-> 0] /\ lost = [i \in Ids |-> 0]
      /\ InEscrow = [k \in Milestones |-> 0]
  BY DEF Init, InEscrow, Held
<1>2. SumFunction(bal) = 0 /\ SumFunction(lost) = 0 /\ SumFunction(InEscrow) = 0
  BY ONLY <1>1, FiniteType, SumOfZeros
<1>. QED BY <1>2 DEF Init, CreditsConserved, InEscrow

\* Whatever is ordered, spent, settled, amended or refunded, the credits minted
\* from contributions are the credits in the lots of the identities, in escrow, in
\* sinks and taken by decay.
THEOREM CreditsAreConserved == Spec => []CreditsConserved
BY InitConserves, NextConserves, InvariantHolds, PTL DEF Spec

-----------------------------------------------------------------------------
(* What the web client asks of the parties *)

\* What the status of a milestone says of its funding and its delivery.
Stated(k) ==
  /\ status[k] = "Delivered" => deliveredAt[k] # NoTime
  /\ status[k] = "Open" => funded[k] = 0 /\ amount[k] > 0
  /\ status[k] = "PartiallyFunded" => funded[k] > 0 /\ funded[k] < amount[k]
  /\ status[k] \in {"Funded", "Delivered"} \cup Contested =>
       funded[k] = amount[k] /\ amount[k] > 0
  /\ status[k] \in Contested => timeoutAt[k] # NoTime

\* The milestones of a placed order are its own, and there are some.
Listed(o) ==
  /\ Placed(o) => orders[o].spec # {}
  /\ \A k \in orders[o].spec : OrderOf[k] = o

\* The inductive invariant on top of EscrowInv that the client's view needs.
StatedInv == (\A k \in Milestones : Stated(k)) /\ (\A o \in Orders : Listed(o))

LEMMA SameStated ==
  ASSUME NEW k \in Milestones, Stated(k), status'[k] = status[k],
         amount'[k] = amount[k], funded'[k] = funded[k],
         deliveredAt'[k] = deliveredAt[k], timeoutAt'[k] = timeoutAt[k]
  PROVE  Stated(k)'
BY DEF Stated

LEMMA SameListed ==
  ASSUME StatedInv, UNCHANGED orders
  PROVE  \A o \in Orders : Listed(o)'
BY DEF StatedInv, Listed, Placed

LEMMA OrderEventStated == TypeOK /\ StatedInv /\ OrderEvent => StatedInv'
<1>. SUFFICES ASSUME TypeOK, StatedInv, NEW o \in Orders, NEW t \in Times,
                     NEW M \in SUBSET Milestones, NEW amounts \in [M -> Amounts],
                     \/ \E b, p \in Ids, x \in Expiries : PlaceOrder(o, b, p, amounts, x, t)
                     \/ RejectOrder(o, amounts, t)
              PROVE  StatedInv'
  BY DEF OrderEvent
<1>1. OrderOk(o, amounts) /\ OpenMilestones(amounts)
  BY DEF PlaceOrder, RejectOrder
<1>2. ASSUME NEW k \in Milestones PROVE Stated(k)'
  <2>1. CASE k \in M
    <3>1. status'[k] = "Open" /\ funded'[k] = 0 /\ amount'[k] = amounts[k]
      BY <1>1, <2>1 DEF OpenMilestones, Reset
    <3>2. amounts[k] > 0
      <4>1. amounts[k] \in Amounts
        BY <2>1
      <4>2. \A a \in Amounts : a > 0
        BY PolicyType DEF Amounts
      <4>. QED BY ONLY <4>1, <4>2
    <3>. QED BY <3>1, <3>2 DEF Stated, Contested
  <2>2. CASE k \notin M
    <3>1. /\ status'[k] = status[k] /\ amount'[k] = amount[k]
          /\ funded'[k] = funded[k] /\ deliveredAt'[k] = deliveredAt[k]
          /\ timeoutAt'[k] = timeoutAt[k]
      BY <1>1, <2>2 DEF OpenMilestones, Reset
    <3>. QED BY <3>1, SameStated DEF StatedInv
  <2>. QED BY <2>1, <2>2
<1>3. ASSUME NEW p \in Orders PROVE Listed(p)'
  <2>1. \/ orders'[p] = orders[p]
        \/ p = o /\ orders'[p].spec = M
    BY DEF PlaceOrder, RejectOrder, TypeOK
  <2>2. M # {} /\ \A k \in M : OrderOf[k] = o
    BY <1>1 DEF OrderOk
  <2>. QED BY <2>1, <2>2 DEF StatedInv, Listed, Placed
<1>. QED BY <1>2, <1>3 DEF StatedInv

LEMMA SpendEventStated == TypeOK /\ StatedInv /\ SpendEvent => StatedInv'
<1>. SUFFICES ASSUME TypeOK, StatedInv, NEW i \in Ids, NEW a \in Nat \ {0},
                     NEW loss \in Losses, NEW n \in Nonces, NEW t \in Times,
                     \/ SpendToSink(i, a, n, loss, t)
                     \/ \E k \in Milestones : \/ FundMilestone(i, k, a, n, loss, t)
                                              \/ RejectFunding(i, k, a, n, loss, t)
              PROVE  StatedInv'
  BY ParameterTypes DEF SpendEvent
<1>1. UNCHANGED orders
  BY DEF SpendToSink, FundMilestone, RejectFunding
<1>2. ASSUME NEW k \in Milestones, NEW j \in Milestones, FundMilestone(i, j, a, n, loss, t)
      PROVE  Stated(k)'
  <2>1. CASE k # j
    <3>1. /\ status'[k] = status[k] /\ amount'[k] = amount[k]
          /\ funded'[k] = funded[k] /\ deliveredAt'[k] = deliveredAt[k]
          /\ timeoutAt'[k] = timeoutAt[k]
      BY <1>2, <2>1 DEF FundMilestone, TypeOK, times
    <3>. QED BY <3>1, SameStated DEF StatedInv
  <2>2. CASE k = j
    <3>1. /\ amount'[k] = amount[k] /\ funded'[k] = funded[k] + a
          /\ funded[k] + a <= amount[k]
          /\ status'[k] = IF funded[k] + a = amount[k] THEN "Funded" ELSE "PartiallyFunded"
          /\ funded[k] \in Nat /\ amount[k] \in Nat
      BY <1>2, <2>2 DEF FundMilestone, FundingOk, TypeOK
    <3>. QED BY <3>1 DEF Stated, Contested
  <2>. QED BY <2>1, <2>2
<1>3. ASSUME UNCHANGED milestones PROVE \A k \in Milestones : Stated(k)'
  BY <1>3, SameStated DEF StatedInv, milestones, price, times
<1>. QED BY <1>1, <1>2, <1>3, SameListed DEF StatedInv, SpendToSink, RejectFunding

LEMMA DeliveryEventStated == TypeOK /\ StatedInv /\ DeliveryEvent => StatedInv'
<1>. SUFFICES ASSUME TypeOK, StatedInv, NEW by \in Ids, NEW j \in Milestones,
                     NEW d \in Milestones, NEW t \in Times,
                     \/ Deliver(by, j, t)
                     \/ \E loss \in Losses : Accept(by, j, d, loss, t)
                     \/ \E at \in Times : Dispute(by, j, d, at, t),
                     NEW k \in Milestones
              PROVE  Stated(k)'
  <2>1. ASSUME DeliveryEvent PROVE UNCHANGED orders
    BY <2>1 DEF DeliveryEvent, Deliver, Accept, Dispute
  <2>. QED BY <2>1, SameListed DEF DeliveryEvent, StatedInv
<1>1. CASE k # j
  <2>1. /\ status'[k] = status[k] /\ amount'[k] = amount[k]
        /\ funded'[k] = funded[k] /\ deliveredAt'[k] = deliveredAt[k]
        /\ timeoutAt'[k] = timeoutAt[k]
    BY <1>1 DEF Deliver, Accept, Dispute, Move, TypeOK, price, times
  <2>. QED BY <2>1, SameStated DEF StatedInv
<1>2. CASE k = j
  <2>1. Stated(k) /\ amount'[k] = amount[k] /\ funded'[k] = funded[k]
    BY DEF Deliver, Accept, Dispute, StatedInv, price
  <2>2. \/ status[k] = "Funded" /\ status'[k] = "Delivered" /\ deliveredAt'[k] # NoTime
        \/ status'[k] = "Accepted"
        \/ status[k] = "Delivered" /\ status'[k] = "Disputed" /\ timeoutAt'[k] # NoTime
    <3>1. ASSUME NEW at \in Times, Dispute(by, j, d, at, t)
          PROVE  /\ status[k] = "Delivered" /\ status'[k] = "Disputed"
                 /\ timeoutAt'[k] # NoTime
      BY <1>2, <3>1, ParameterTypes, PolicyType DEF Dispute, Move, TypeOK, NoTime
    <3>2. ASSUME Deliver(by, j, t) PROVE deliveredAt'[k] # NoTime
      BY <1>2, <3>2, ParameterTypes DEF Deliver, TypeOK, NoTime
    <3>. QED BY <1>2, <3>1, <3>2 DEF Deliver, Accept, Move, TypeOK
  <2>. QED BY <2>1, <2>2 DEF Stated, Contested
<1>. QED BY <1>1, <1>2

LEMMA HandshakeEventStated == TypeOK /\ StatedInv /\ HandshakeEvent => StatedInv'
<1>. SUFFICES ASSUME TypeOK, StatedInv, NEW by \in Ids, NEW j \in Milestones, NEW t \in Nat,
                     \/ \E r, w \in Nat : ProposeSettlement(by, j, r, w, t)
                     \/ \E r, w, lb, lp \in Nat : MatchSettlement(by, j, r, w, lb, lp, t)
                     \/ ProposeCancel(by, j, t)
                     \/ \E loss \in Nat : MatchCancel(by, j, loss, t)
                     \/ \E a, x \in Nat : ProposeAmend(by, j, a, x, t)
                     \/ \E a, x, ref, loss \in Nat : MatchAmend(by, j, a, x, ref, loss, t)
              PROVE  StatedInv'
  BY ParameterTypes DEF HandshakeEvent
<1>1. ASSUME NEW k \in Milestones, UNCHANGED <<price, times>>,
             \/ status'[k] = status[k]
             \/ status[k] = "Disputed" /\ status'[k] = "SettlementPending"
             \/ status'[k] \in {"Settled", "CancelPending", "Cancelled", "AmendPending"}
      PROVE  Stated(k)'
  BY <1>1 DEF StatedInv, Stated, Contested, price, times
<1>2. ASSUME \/ \E r, w \in Nat : ProposeSettlement(by, j, r, w, t)
             \/ \E r, w, lb, lp \in Nat : MatchSettlement(by, j, r, w, lb, lp, t)
      PROVE  StatedInv'
  <2>1. \A k \in Milestones : \/ status'[k] = status[k]
                              \/ status[k] = "Disputed" /\ status'[k] = "SettlementPending"
                              \/ status'[k] = "Settled"
    BY <1>2 DEF ProposeSettlement, MatchSettlement, Move, TypeOK
  <2>2. UNCHANGED <<price, times>> /\ UNCHANGED orders
    BY <1>2 DEF ProposeSettlement, MatchSettlement
  <2>. QED BY <1>1, <2>1, <2>2, SameListed DEF StatedInv
<1>3. ASSUME \/ ProposeCancel(by, j, t)
             \/ \E loss \in Nat : MatchCancel(by, j, loss, t)
             \/ \E a, x \in Nat : ProposeAmend(by, j, a, x, t)
      PROVE  StatedInv'
  <2>1. \A k \in Milestones :
          \/ status'[k] = status[k]
          \/ status'[k] \in {"CancelPending", "Cancelled", "AmendPending"}
    BY <1>3 DEF ProposeCancel, MatchCancel, ProposeAmend, Move, TypeOK
  <2>2. UNCHANGED <<price, times>> /\ UNCHANGED orders
    BY <1>3 DEF ProposeCancel, MatchCancel, ProposeAmend
  <2>. QED BY <1>1, <2>1, <2>2, SameListed DEF StatedInv
<1>4. ASSUME NEW a \in Nat, NEW x \in Nat, NEW ref \in Nat, NEW loss \in Nat,
             MatchAmend(by, j, a, x, ref, loss, t)
      PROVE  StatedInv'
  <2>. DEFINE kept == Lesser(funded[j], a)
  <2>1. /\ a > 0 /\ kept \in Nat /\ kept <= a
        /\ status' = [status EXCEPT ![j] = IF kept = 0 THEN "Open"
                                           ELSE IF kept < a THEN "PartiallyFunded" ELSE "Funded"]
        /\ amount' = [amount EXCEPT ![j] = a] /\ funded' = [funded EXCEPT ![j] = kept]
        /\ orders' = [orders EXCEPT ![OrderOf[j]].expires = x] /\ UNCHANGED times
    BY <1>4 DEF MatchAmend, AmendmentOk, Move, Lesser, TypeOK
  <2>. HIDE DEF kept
  <2>2. ASSUME NEW k \in Milestones PROVE Stated(k)'
    <3>1. CASE k = j
      <4>1. /\ amount'[k] = a /\ funded'[k] = kept
            /\ status'[k] = IF kept = 0 THEN "Open"
                            ELSE IF kept < a THEN "PartiallyFunded" ELSE "Funded"
        BY <2>1, <3>1 DEF TypeOK
      <4>. QED BY <2>1, <4>1 DEF Stated, Contested
    <3>2. CASE k # j
      BY <2>1, <3>2, SameStated DEF StatedInv, TypeOK, times
    <3>. QED BY <3>1, <3>2
  <2>3. ASSUME NEW o \in Orders PROVE Listed(o)'
    <3>1. orders'[o].spec = orders[o].spec /\ orders'[o].buyer = orders[o].buyer
      <4>1. CASE o # OrderOf[j]
        BY <2>1, <4>1 DEF TypeOK
      <4>2. CASE o = OrderOf[j]
        <5>1. orders[o] \in Order \cup {NoOrder}
          BY DEF TypeOK
        <5>2. orders'[o] = [orders[o] EXCEPT !.expires = x]
          BY <2>1, <4>2 DEF TypeOK
        <5>. QED BY <5>1, <5>2 DEF Order, NoOrder
      <4>. QED BY <4>1, <4>2
    <3>. QED BY <3>1 DEF Listed, Placed, StatedInv
  <2>. QED BY <2>2, <2>3 DEF StatedInv
<1>. QED BY <1>2, <1>3, <1>4

LEMMA RunEndStated == TypeOK /\ StatedInv /\ RunEnd => StatedInv'
<1>. SUFFICES ASSUME TypeOK, StatedInv, RunEnd PROVE StatedInv'
  OBVIOUS
<1>1. UNCHANGED <<orders, price, times>>
  BY DEF RunEnd, CloseRun, AutoRefund, EndRun, milestones
<1>2. \A k \in Milestones : status'[k] = status[k] \/ status'[k] = "AutoRefunded"
  BY DEF RunEnd, CloseRun, AutoRefund, EndRun, milestones, TypeOK
<1>3. \A k \in Milestones : Stated(k)'
  BY <1>1, <1>2 DEF StatedInv, Stated, Contested, price, times
<1>. QED BY <1>1, <1>3, SameListed DEF StatedInv

LEMMA NextStated == TypeOK /\ StatedInv /\ [Next]_vars => StatedInv'
<1>. SUFFICES ASSUME TypeOK, StatedInv, [Next]_vars PROVE StatedInv'
  OBVIOUS
<1>1. ASSUME UNCHANGED <<orders, milestones>> PROVE StatedInv'
  BY <1>1, SameListed, SameStated DEF StatedInv, milestones, price, times
<1>. QED BY <1>1, OrderEventStated, SpendEventStated, DeliveryEventStated,
            HandshakeEventStated, RunEndStated DEF Next, MintCredits, vars

LEMMA InitStated == Init => StatedInv
BY DEF Init, StatedInv, Stated, Listed, Placed, NoOrder, Contested, NoTime

\* The first milestone of a listing that is not accepted is found when there is
\* one, and some milestone of the order is found in any case.
LEMMA ActiveFound ==
  ASSUME TypeOK, StatedInv, NEW o \in Orders, Placed(o), NEW list \in Listings(o)
  PROVE  /\ \A n \in DOMAIN list : list[n] \in orders[o].spec
         /\ \A k \in orders[o].spec : \E n \in DOMAIN list : list[n] = k
         /\ ActiveMilestone(list) \in orders[o].spec
         /\ (\E n \in DOMAIN list : ~MilestoneAccepted(list[n])
                                      \/ MilestoneDisputed(list[n])) =>
              \/ ~MilestoneAccepted(ActiveMilestone(list))
              \/ MilestoneDisputed(ActiveMilestone(list))
<1>. DEFINE N == Cardinality(orders[o].spec)
            Waiting == {n \in DOMAIN list : ~MilestoneAccepted(list[n])
                                              \/ MilestoneDisputed(list[n])}
            first == CHOOSE n \in Waiting : \A other \in Waiting : n <= other
<1>1. /\ orders[o].spec \subseteq Milestones /\ orders[o].spec # {}
  BY DEF TypeOK, Order, NoOrder, StatedInv, Listed
<1>2. IsFiniteSet(orders[o].spec)
  BY <1>1, FiniteType, FS_Subset
<1>3. N \in Nat /\ N # 0
  BY <1>1, <1>2, FS_CardinalityType, FS_EmptySet
<1>4. /\ list \in [1 .. N -> orders[o].spec]
      /\ \A k \in orders[o].spec : \E n \in 1 .. N : list[n] = k
  BY DEF Listings, Bijection, Injection, Surjection
<1>. HIDE DEF N
<1>5. DOMAIN list = 1 .. N /\ \A n \in DOMAIN list : list[n] \in orders[o].spec
  BY <1>4
<1>6. Len(list) = N
  <2>1. list \in Seq(orders[o].spec)
    BY <1>3, <1>4
  <2>. QED BY <1>3, <1>5, <2>1
<1>7. ASSUME Waiting # {} PROVE first \in Waiting
  <2>1. Waiting \in SUBSET Nat
    BY <1>3, <1>5
  <2>. HIDE DEF Waiting
  <2>2. \E n \in Waiting : \A other \in Waiting : n <= other
    BY <1>7, <2>1, LeastOfNats
  <2>. QED BY <2>2
<1>8. ActiveMilestone(list) = list[IF Waiting = {} THEN Len(list) ELSE first]
  BY DEF ActiveMilestone
<1>9. CASE Waiting = {}
  <2>1. ActiveMilestone(list) = list[N] /\ N \in DOMAIN list
    BY <1>3, <1>5, <1>6, <1>8, <1>9
  <2>. QED BY <1>4, <1>5, <1>9, <2>1
<1>10. CASE Waiting # {}
  <2>1. ActiveMilestone(list) = list[first] /\ first \in Waiting
    BY <1>7, <1>8, <1>10
  <2>. HIDE DEF first
  <2>. QED BY <1>4, <1>5, <2>1
<1>. QED BY <1>9, <1>10

\* Every reachable order asks its parties for steps the engine would take.
LEMMA StatedImpliesProgress == TypeOK /\ StatedInv => RightStepIsAsked
<1>. SUFFICES ASSUME TypeOK, StatedInv, NEW o \in Orders, Placed(o),
                     NEW list \in Listings(o)
     PROVE LET k == ActiveMilestone(list)
               asked == [role \in Parties |-> AskedFor(list, role)]
               steps == {asked[role] : role \in Parties} \ {"none"}
               later == {t \in Times : t > asOf}
           IN /\ (steps = {}) <=> (\A j \in orders[o].spec : status[j] \in Terminal)
              /\ status[k] \in Fundable \cup {"Delivered"} =>
                   /\ steps = {CurrentStep(k)}
                   /\ \E role \in Parties : asked[role] = "none"
                   /\ \A t \in later : Applies(CurrentStep(k), k, t) <=> ~Late(k, t)
              /\ status[k] = "Disputed" =>
                   /\ \A role \in Parties : asked[role] = "settle"
                   /\ \A t \in later : Applies("settle", k, t)
  BY DEF RightStepIsAsked
<1>. DEFINE k == ActiveMilestone(list)
            buyer == AskedFor(list, "buyer")
            provider == AskedFor(list, "provider")
            asked == [role \in Parties |-> AskedFor(list, role)]
            steps == {asked[role] : role \in Parties} \ {"none"}
            Over == \A j \in orders[o].spec : status[j] \in Terminal
            AllAccepted == \A n \in DOMAIN list : MilestoneAccepted(list[n])
<1>1. /\ k \in orders[o].spec /\ k \in Milestones
      /\ \A j \in orders[o].spec : j \in Milestones /\ OrderOf[j] = o
  BY ActiveFound DEF TypeOK, Order, NoOrder, StatedInv, Listed
<1>2. /\ asked["buyer"] = buyer /\ asked["provider"] = provider
      /\ steps = {buyer, provider} \ {"none"}
  BY DEF Parties
<1>3. /\ funded[k] \in Nat /\ amount[k] \in Nat /\ Stated(k)
      /\ OrderIn(k) = orders[o]
  BY <1>1 DEF TypeOK, StatedInv, OrderIn
<1>4. Closed(o) <=> Over
  BY DEF Closed
<1>5. \A j \in orders[o].spec : MilestoneAccepted(j) <=> status[j] = "Accepted" \/ Over
  BY <1>1, <1>4 DEF MilestoneAccepted
<1>6. AllAccepted <=> \A j \in orders[o].spec : status[j] = "Accepted" \/ Over
  BY <1>5, ActiveFound
<1>7. AllAccepted <=> Over
  BY <1>6 DEF Terminal
<1>8. ~Over => ~MilestoneAccepted(k) \/ MilestoneDisputed(k)
  BY <1>7, ActiveFound
<1>9. \A role \in Parties :
        AskedFor(list, role) =
          IF MilestoneDisputed(k) THEN "settle"
          ELSE IF AllAccepted THEN "none"
          ELSE IF Ready(k, role) # "none" THEN Ready(k, role)
          ELSE IF Taker(CurrentStep(k)) = role THEN CurrentStep(k) ELSE "none"
  BY DEF AskedFor
<1>. HIDE DEF k, buyer, provider, asked, steps, Over, AllAccepted
<1>10. (steps = {}) <=> Over
  <2>1. ASSUME Over PROVE steps = {}
    <3>1. ~MilestoneDisputed(k)
      BY <1>1, <2>1 DEF Over, MilestoneDisputed, Terminal
    <3>2. buyer = "none" /\ provider = "none"
      BY <1>7, <1>9, <2>1, <3>1 DEF buyer, provider, Parties
    <3>. QED BY <1>2, <3>2
  <2>2. ASSUME ~Over PROVE steps # {}
    <3>1. CASE MilestoneDisputed(k)
      <4>1. buyer = "settle"
        BY <1>9, <3>1 DEF buyer, Parties
      <4>. QED BY <1>2, <4>1
    <3>2. CASE ~MilestoneDisputed(k)
      <4>1. ~AllAccepted /\ ~MilestoneAccepted(k)
        BY <1>7, <1>8, <2>2, <3>2
      <4>2. \/ CurrentStep(k) = "fund" /\ Taker(CurrentStep(k)) = "buyer"
            \/ CurrentStep(k) = "deliver" /\ Taker(CurrentStep(k)) = "provider"
            \/ CurrentStep(k) = "accept" /\ Taker(CurrentStep(k)) = "buyer"
        BY <4>1 DEF CurrentStep, Taker
      <4>3. PICK role \in Parties : Taker(CurrentStep(k)) = role
        BY <4>2 DEF Parties
      <4>4. AskedFor(list, role) # "none"
        BY <1>9, <3>2, <4>1, <4>2, <4>3
      <4>. QED BY <1>2, <4>3, <4>4 DEF Parties, buyer, provider
    <3>. QED BY <3>1, <3>2
  <2>. QED BY <2>1, <2>2
<1>11. ASSUME status[k] \in Fundable \cup {"Delivered"}
       PROVE  /\ steps = {CurrentStep(k)}
              /\ \E role \in Parties : asked[role] = "none"
              /\ \A t \in Times : Applies(CurrentStep(k), k, t) <=> ~Late(k, t)
  <2>1. ~Over /\ ~MilestoneDisputed(k) /\ ~MilestoneAccepted(k)
    BY <1>1, <1>5, <1>11 DEF Over, Terminal, Fundable, MilestoneDisputed
  <2>2. \A role \in Parties :
          AskedFor(list, role) =
            IF Ready(k, role) # "none" THEN Ready(k, role)
            ELSE IF Taker(CurrentStep(k)) = role THEN CurrentStep(k) ELSE "none"
    BY <1>7, <1>9, <2>1
  <2>3. ASSUME buyer = CurrentStep(k), provider = "none", CurrentStep(k) # "none"
        PROVE  /\ steps = {CurrentStep(k)}
               /\ \E role \in Parties : asked[role] = "none"
    BY <1>2, <2>3 DEF Parties
  <2>4. ASSUME buyer = "none", provider = CurrentStep(k), CurrentStep(k) # "none"
        PROVE  /\ steps = {CurrentStep(k)}
               /\ \E role \in Parties : asked[role] = "none"
    BY <1>2, <2>4 DEF Parties
  <2>5. CASE status[k] \in {"Open", "PartiallyFunded"}
    <3>1. funded[k] < amount[k]
      BY <1>3, <2>5 DEF Stated
    <3>2. CurrentStep(k) = "fund" /\ Ready(k, "buyer") = "fund" /\ Ready(k, "provider") = "none"
      BY <1>3, <2>5, <3>1 DEF CurrentStep, Ready, MilestoneFunded, NeedsFunding,
                              ReadyForDelivery, ReadyForAccept
    <3>3. buyer = "fund" /\ provider = "none"
      BY <2>2, <3>2 DEF buyer, provider, Parties, Taker
    <3>4. \A t \in Times : Applies("fund", k, t) /\ ~Late(k, t)
      BY <1>1, <1>3, <2>5, <3>1 DEF Applies, FundingOk, Fundable, Late
    <3>. QED BY <2>3, <3>2, <3>3, <3>4
  <2>6. CASE status[k] = "Funded"
    <3>1. /\ CurrentStep(k) = "deliver" /\ Ready(k, "buyer") = "none"
          /\ Ready(k, "provider") = "deliver"
      BY <2>6 DEF CurrentStep, Ready, MilestoneFunded, MilestoneDelivered, NeedsFunding,
                  ReadyForDelivery, ReadyForAccept
    <3>2. buyer = "none" /\ provider = "deliver"
      BY <2>2, <3>1 DEF buyer, provider, Parties, Taker
    <3>3. \A t \in Times : Applies("deliver", k, t) /\ ~Late(k, t)
      BY <1>1, <1>3, <2>6 DEF Applies, DeliveryOk, Late
    <3>. QED BY <2>4, <3>1, <3>2, <3>3
  <2>7. CASE status[k] = "Delivered"
    <3>1. /\ CurrentStep(k) = "accept" /\ Ready(k, "buyer") = "accept"
          /\ Ready(k, "provider") = "none"
      BY <2>1, <2>7 DEF CurrentStep, Ready, MilestoneFunded, MilestoneDelivered,
                        NeedsFunding, ReadyForDelivery, ReadyForAccept
    <3>2. buyer = "accept" /\ provider = "none"
      BY <2>2, <3>1 DEF buyer, provider, Parties, Taker
    <3>3. /\ deliveredAt[k] # NoTime /\ deliveredAt[k] + AcceptanceWindow \in Int
          /\ Placed(OrderOf[k])
      BY <1>1, <1>3, <2>7, PolicyType DEF Stated, TypeOK
    <3>4. \A t \in Times : Applies("accept", k, t) <=> ~Late(k, t)
      BY <2>7, <3>3, ParameterTypes DEF Applies, AcceptanceOk, OwnDelivery, Late
    <3>. QED BY <2>3, <3>1, <3>2, <3>4
  <2>. QED BY <1>11, <2>5, <2>6, <2>7 DEF Fundable
<1>12. ASSUME status[k] = "Disputed"
       PROVE  /\ \A role \in Parties : asked[role] = "settle"
              /\ \A t \in Times : Applies("settle", k, t)
  <2>1. \A role \in Parties : asked[role] = "settle"
    BY <1>9, <1>12 DEF MilestoneDisputed, asked
  <2>2. /\ timeoutAt[k] # NoTime /\ funded[k] > 0
    BY <1>3, <1>12 DEF Stated, Contested
  <2>3. \A i \in {OrderIn(k).buyer, OrderIn(k).provider} : SettlementOk(i, k, funded[k], 0)
    BY <1>1, <1>3, <2>2 DEF SettlementOk, IsParty
  <2>. QED BY <1>12, <2>1, <2>3 DEF Applies, Contested
<1>. QED BY <1>10, <1>11, <1>12 DEF k, asked, steps, Over

\* While an order is open the client asks the right parties for steps, and what it
\* asks for is what the order lets the engine apply, but for late acceptances.
THEOREM RightStepsAreAsked == Spec => []RightStepIsAsked
BY InitType, NextType, InitStated, NextStated, StatedImpliesProgress, PTL DEF Spec
=============================================================================
