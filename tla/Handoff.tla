------------------------------ MODULE Handoff ------------------------------
(***************************************************************************)
(* The in-person handoff of the web client: the wizard in which the        *)
(* provider signs a delivery over the acknowledgments of both parties      *)
(* (components/transport/physical-handoff-wizard.tsx), the queue of signed *)
(* events a browser keeps (lib/transport/handoff-queue.ts) and the panel   *)
(* that submits them later (handoff-queue-panel.tsx), in tabs that share   *)
(* the queue and the session of KeySession.                                *)
(***************************************************************************)
EXTENDS KeySession, Sequences

CONSTANTS
  Orders,        \* physical-handoff orders of the node
  Provider, Buyer,  \* their parties, functions from Orders to Keys
  Notes,         \* notes on the handoff, each with its hash
  Acks,          \* acknowledgment texts, each with its hash
  Begun,         \* wizards of the tabs at first, in which the user may have entered something
  Linked,        \* the order of the page's link, or None
  MaxSigns       \* bound on the events the wizard signs

VARIABLES
  status,    \* status[o]: the status of the order's active milestone at the node
  signed,    \* the events of the wizards in the order of their clicks
  log,       \* which of them the node has accepted
  queue,     \* localStorage: entries [id, event, failed]
  clock,     \* the millisecond of the last entry, of which its id is made
  wizard,    \* wizard[t]: what the wizard of a tab holds
  items,     \* items[t]: the entries its queue panel shows
  loads,     \* refreshes whose answers are awaited
  hashes,    \* hashes that are being computed
  flights,   \* submissions under way
  queued,    \* every [id, event] that was ever put into the queue
  removed    \* events whose entry the user has removed

handoffVars == <<status, signed, log, queue, clock, wizard, items, loads, hashes, flights,
                 queued, removed>>
vars == <<authVars, handoffVars, ops>>

---------------------------------------------------------------------------
\* The wizard of a tab that was just opened asks for the orders of the session.
Fresh == [orders |-> None, step |-> "pick", selected |-> None, provider |-> None,
          buyer |-> None, notes |-> None, busy |-> FALSE, submitting |-> None]

\* What is loaded of an order: the viewer's role decides what the wizard offers.
Candidate(o, viewer) ==
  [order |-> o,
   canDeliver |-> viewer = Provider[o] /\ viewer # Buyer[o] /\ status[o] = "Funded",
   canAccept |-> viewer = Buyer[o] /\ status[o] = "Delivered"]

CandidatesOf(viewer) ==
  {Candidate(o, viewer) : o \in {p \in Orders : viewer \in {Provider[p], Buyer[p]}}}

AskOrders(t) == {[tab |-> t, viewer |-> ActiveSession(t).public]}

HashError(w) == w.provider = None \/ w.buyer = None \/ w.provider = w.buyer

Without(id) == {q \in queue : q.id # id}

MarkFailed(id) ==
  {IF q.id = id THEN [q EXCEPT !.failed = TRUE] ELSE q : q \in queue}

---------------------------------------------------------------------------
(* Loading.                                                                *)

\* Signed out, the wizard shows nothing.
Refresh(t) ==
  /\ ActiveSession(t) # NoPair
  /\ loads' = loads \cup AskOrders(t)
  /\ UNCHANGED <<status, signed, log, queue, clock, wizard, items, hashes, flights, queued, removed>>
  /\ Step

\* The order of the link is selected as soon as it is loaded.
OrdersLoaded(l) ==
  /\ loads' = loads \ {l}
  /\ LET found == {c \in CandidatesOf(l.viewer) : c.order = Linked}
         w == [wizard[l.tab] EXCEPT !.orders = CandidatesOf(l.viewer)]
     IN  wizard' = [wizard EXCEPT ![l.tab] =
           IF w.selected = None /\ found # {}
             THEN [w EXCEPT !.selected = CHOOSE c \in found : TRUE, !.step = "acks"] ELSE w]
  /\ UNCHANGED <<status, signed, log, queue, clock, items, hashes, flights, queued, removed>>

OrdersFail(l) ==
  /\ loads' = loads \ {l}
  /\ wizard' = [wizard EXCEPT ![l.tab].orders = None]
  /\ UNCHANGED <<status, signed, log, queue, clock, items, hashes, flights, queued, removed>>

\* The page is left and opened again: what was awaited continues and finds no
\* wizard to tell, though it may still queue what it has signed.  When the tab is
\* reloaded nothing continues.
Reopen(t, reload) ==
  /\ Step
  /\ wizard' = [wizard EXCEPT ![t] = Fresh]
  /\ items' = [items EXCEPT ![t] = queue]
  /\ loads' = {l \in loads : l.tab # t} \cup
                (IF ActiveSession(t) = NoPair THEN {} ELSE AskOrders(t))
  /\ hashes' = {h \in hashes : h.tab # t}
  /\ flights' = {f \in flights : f.tab # t} \cup
                (IF reload THEN {} ELSE {[f EXCEPT !.shown = FALSE] : f \in {g \in flights : g.tab = t}})
  /\ UNCHANGED <<status, signed, log, queue, clock, queued, removed>>

---------------------------------------------------------------------------
(* The steps of the wizard.                                                *)

WizardStep(t, w) ==
  /\ Step
  /\ wizard' = [wizard EXCEPT ![t] = w]
  /\ UNCHANGED <<status, signed, log, queue, clock, items, loads, flights, queued, removed>>

\* The acknowledgments of the order selected before stay.
PickOrder(t, c) ==
  /\ wizard[t].orders # None /\ wizard[t].step = "pick" /\ c \in wizard[t].orders
  /\ WizardStep(t, [wizard[t] EXCEPT !.selected = c, !.step = "acks"])
  /\ UNCHANGED hashes

ChangeOrder(t) ==
  /\ wizard[t].step # "pick"
  /\ WizardStep(t, [wizard[t] EXCEPT !.step = "pick"])
  /\ UNCHANGED hashes

\* A text is hashed asynchronously.
HashText(t, field, a) ==
  /\ wizard[t].step = "acks"
  /\ hashes' = hashes \cup {[tab |-> t, field |-> field, ack |-> a]}
  /\ WizardStep(t, wizard[t])

Hashed(h) ==
  /\ hashes' = hashes \ {h}
  /\ wizard' = [wizard EXCEPT ![h.tab] =
       CASE h.field = "provider" -> [@ EXCEPT !.provider = h.ack]
         [] h.field = "buyer" -> [@ EXCEPT !.buyer = h.ack]
         [] h.field = "notes" -> [@ EXCEPT !.notes = h.ack]]
  /\ UNCHANGED <<status, signed, log, queue, clock, items, loads, flights, queued, removed>>

\* The staging of the other party, scanned from a QR code.
ImportStaging(t, o, role, a) ==
  /\ wizard[t].step = "acks" /\ o = wizard[t].selected.order
  /\ WizardStep(t, IF role = "provider" THEN [wizard[t] EXCEPT !.provider = a]
                                        ELSE [wizard[t] EXCEPT !.buyer = a])
  /\ UNCHANGED hashes

Review(t) ==
  /\ wizard[t].step = "acks" /\ ~HashError(wizard[t]) /\ wizard[t].notes # None
  /\ WizardStep(t, [wizard[t] EXCEPT !.step = "review"])
  /\ UNCHANGED hashes

---------------------------------------------------------------------------
(* Signing.  The session, the order and the hashes are those of the click; *)
(* the version of the policy is asked for before the event is signed.      *)

\* Mutant of MayDeliver: the check of the step to the review is not repeated.
MayDeliverUnchecked(w, pair) == pair.public = Provider[w.selected.order]

MayDeliver(w, pair) ==
  /\ pair.public = Provider[w.selected.order]
  /\ ~HashError(w) /\ w.notes # None

Click(t, kind, how) ==
  LET w == wizard[t]
      pair == ActiveSession(t)
  IN  /\ ~w.busy /\ pair # NoPair
      /\ Step
      /\ Len(signed) < MaxSigns
      /\ signed' = Append(signed, [kind |-> kind, order |-> w.selected.order, pair |-> pair,
                                   provider |-> w.provider, buyer |-> w.buyer, notes |-> w.notes])
      /\ flights' = flights \cup {[tab |-> t, event |-> Len(signed) + 1, how |-> how, id |-> 0,
                                   at |-> "policy", shown |-> TRUE]}
      /\ wizard' = [wizard EXCEPT ![t].busy = TRUE]
      /\ UNCHANGED <<status, log, queue, clock, items, loads, hashes, queued, removed>>

SubmitDelivery(t, queueOnly) ==
  /\ wizard[t].step = "review" /\ wizard[t].selected.canDeliver
  /\ MayDeliver(wizard[t], ActiveSession(t))
  /\ Click(t, "delivery", IF queueOnly THEN "queue" ELSE "submit")

SubmitAccept(t) ==
  /\ wizard[t].step = "review" /\ wizard[t].selected.canAccept
  /\ ActiveSession(t).public = Buyer[wizard[t].selected.order]
  /\ Click(t, "accept", "submit")

Released(f) == [wizard EXCEPT ![f.tab].busy = FALSE]

\* Mutant of PanelReleased: the panel forgets the button after an error.
PanelReleasedOnAccept(f) ==
  IF f.at = "accepted" THEN [wizard EXCEPT ![f.tab].submitting = None] ELSE wizard

PanelReleased(f) == [wizard EXCEPT ![f.tab].submitting = None]

Done(f) ==
  /\ flights' = flights \ {f}
  /\ wizard' = IF ~f.shown THEN wizard
               ELSE IF f.how = "queued" THEN PanelReleased(f)
               ELSE Released(f)

\* Two entries of one millisecond get the same id.
Enqueue(n) ==
  \E now \in {clock, clock + 1} :
    /\ clock' = now /\ queue' = queue \cup {[id |-> now, event |-> n, failed |-> FALSE]}
    /\ queued' = queued \cup {[id |-> now, event |-> n]}

\* The policy is known and the event signed: it is queued, or sent to the node.
Signed(f) ==
  /\ f.at = "policy"
  /\ IF f.how = "queue" THEN Done(f) /\ Enqueue(f.event)
     ELSE flights' = (flights \ {f}) \cup {[f EXCEPT !.at = "sent"]} /\ UNCHANGED <<wizard, queue, clock, queued>>
  /\ UNCHANGED <<status, signed, log, items, loads, hashes, removed>>

\* The node refuses what its author has not signed, and may refuse anything.
Receive(f, ok) ==
  LET e == signed[f.event]
  IN  /\ f.at = "sent"
      /\ ok => Matches(e.pair)
      /\ flights' = (flights \ {f}) \cup {[f EXCEPT !.at = IF ok THEN "accepted" ELSE "rejected"]}
      /\ log' = IF ok THEN log \cup {f.event} ELSE log
      /\ status' = [status EXCEPT ![e.order] =
           IF ok /\ e.kind = "delivery" /\ @ = "Funded" THEN "Delivered"
           ELSE IF ok /\ e.kind = "accept" /\ @ = "Delivered" THEN "Accepted" ELSE @]
      /\ UNCHANGED <<signed, queue, clock, wizard, items, loads, hashes, queued, removed>>

\* A delivery the node has refused is queued; an acceptance is not.
Answered(f) ==
  /\ f.how = "submit" /\ f.at \in {"accepted", "rejected"}
  /\ Done(f)
  /\ IF f.at = "rejected" /\ signed[f.event].kind = "delivery" THEN Enqueue(f.event)
                                                               ELSE UNCHANGED <<queue, clock, queued>>
  /\ loads' = IF f.at = "accepted" /\ f.shown /\ ActiveSession(f.tab) # NoPair
                THEN loads \cup AskOrders(f.tab) ELSE loads
  /\ UNCHANGED <<status, signed, log, items, hashes, removed>>

\* No policy, no signature or no answer: an error is shown, and nothing queued.
SubmitLost(f) ==
  /\ f.how # "queued"
  /\ Done(f)
  /\ UNCHANGED <<status, signed, log, queue, clock, items, loads, hashes, queued, removed>>

---------------------------------------------------------------------------
(* The queue panel.  It shows what the queue held when it last looked.     *)

SubmitQueued(t, q) ==
  /\ wizard[t].submitting # q.id
  /\ Step
  /\ wizard' = [wizard EXCEPT ![t].submitting = q.id]
  /\ flights' = flights \cup {[tab |-> t, event |-> q.event, how |-> "queued", id |-> q.id,
                               at |-> "sent", shown |-> TRUE]}
  /\ UNCHANGED <<status, signed, log, queue, clock, items, loads, hashes, queued, removed>>

\* Mutant of Settled: what the node has answered is not looked at.
SettledAnyhow(f) == TRUE

Settled(f) == f.at = "accepted"

QueuedAnswered(f) ==
  /\ f.how = "queued" /\ f.at \in {"accepted", "rejected"}
  /\ Done(f)
  /\ queue' = IF Settled(f) THEN Without(f.id) ELSE MarkFailed(f.id)
  /\ items' = IF f.shown THEN [items EXCEPT ![f.tab] = queue'] ELSE items
  /\ loads' = IF f.at = "accepted" /\ f.shown /\ ActiveSession(f.tab) # NoPair
                THEN loads \cup AskOrders(f.tab) ELSE loads
  /\ UNCHANGED <<status, signed, log, clock, hashes, queued, removed>>

QueuedLost(f) ==
  /\ f.how = "queued"
  /\ Done(f)
  /\ queue' = MarkFailed(f.id)
  /\ items' = IF f.shown THEN [items EXCEPT ![f.tab] = queue'] ELSE items
  /\ UNCHANGED <<status, signed, log, clock, loads, hashes, queued, removed>>

RemoveQueued(t, q) ==
  /\ Step
  /\ queue' = Without(q.id)
  /\ items' = [items EXCEPT ![t] = queue']
  /\ removed' = removed \cup {q.event}
  /\ UNCHANGED <<status, signed, log, clock, wizard, loads, hashes, flights, queued>>

\* The parties act elsewhere: a delivery is disputed, accepted or replaced.
Elsewhere(o, s) ==
  /\ Step
  /\ \/ status[o] = "Funded" /\ s \in {"Delivered", "Disputed"}
     \/ status[o] = "Delivered" /\ s \in {"Accepted", "Disputed"}
  /\ status' = [status EXCEPT ![o] = s]
  /\ UNCHANGED <<signed, log, queue, clock, wizard, items, loads, hashes, flights, queued, removed>>

---------------------------------------------------------------------------
HandoffInit ==
  /\ status \in [Orders -> {"Funded", "Delivered"}] /\ signed = <<>> /\ log = {}
  /\ queue = {} /\ clock = 1
  /\ wizard \in Begun /\ items = [t \in Tabs |-> {}]
  /\ loads = {} /\ hashes = {} /\ flights = {} /\ queued = {} /\ removed = {}

Init == AuthInit /\ HandoffInit

WizardUser ==
  \E t \in Tabs :
    \/ Refresh(t) \/ ChangeOrder(t) \/ Review(t) \/ SubmitAccept(t)
    \/ \E b \in BOOLEAN : Reopen(t, b) \/ SubmitDelivery(t, b)
    \/ \E c \in IF wizard[t].orders = None THEN {} ELSE wizard[t].orders : PickOrder(t, c)
    \/ \E a \in Acks, role \in {"provider", "buyer"} : HashText(t, role, a)
    \/ \E a \in Notes : HashText(t, "notes", a)
    \/ \E o \in Orders, role \in {"provider", "buyer"}, a \in Acks : ImportStaging(t, o, role, a)
    \/ \E q \in items[t] : SubmitQueued(t, q) \/ RemoveQueued(t, q)

HandoffSettling ==
  \/ \E l \in loads : OrdersLoaded(l) \/ OrdersFail(l)
  \/ \E h \in hashes : Hashed(h)
  \/ \E f \in flights : \/ Signed(f) \/ Answered(f) \/ SubmitLost(f)
                        \/ QueuedAnswered(f) \/ QueuedLost(f)
                        \/ \E ok \in BOOLEAN : Receive(f, ok)

Next ==
  \/ AuthNext /\ UNCHANGED handoffVars
  \/ WizardUser /\ UNCHANGED authVars
  \/ HandoffSettling /\ UNCHANGED <<authVars, ops>>
  \/ (\E o \in Orders, s \in {"Delivered", "Accepted", "Disputed"} : Elsewhere(o, s))
       /\ UNCHANGED authVars

Spec == Init /\ [][Next]_vars

\* Continuations run, and requests are answered or fail.
FairSpec == Spec /\ WF_vars(HandoffSettling /\ UNCHANGED <<authVars, ops>>)

---------------------------------------------------------------------------
\* A delivery that is signed carries two different acknowledgments and notes, and
\* whatever is signed names the party of the order it is for, though hashes arrive
\* and sessions change while the wizard is open.
EvidenceIsWhole ==
  \A n \in DOMAIN signed :
    /\ signed[n].kind = "delivery" =>
         /\ signed[n].provider # signed[n].buyer
         /\ None \notin {signed[n].provider, signed[n].buyer, signed[n].notes}
         /\ signed[n].pair.public = Provider[signed[n].order]
    /\ signed[n].kind = "accept" => signed[n].pair.public = Buyer[signed[n].order]

\* Signed events stay in the queue until the node has them or the user has removed
\* them, and come back in no way, whatever the panels of other tabs still show;
\* if no two of them were queued in the same millisecond.
QueueKeepsEvents ==
  \A e \in queued : (\A d \in queued : d.id = e.id => d = e) =>
    LET kept == \E q \in queue : q.event = e.event
    IN  /\ kept \/ e.event \in log \cup removed
        /\ e.event \in removed => ~kept

\* The buttons of the wizard and of an entry that is submitted do not stay disabled.
HandoffIsReleased ==
  \A t \in Tabs :
    /\ wizard[t].busy ~> ~wizard[t].busy
    /\ (wizard[t].submitting # None) ~> (wizard[t].submitting = None)
=============================================================================
