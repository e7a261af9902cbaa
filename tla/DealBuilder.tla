----------------------------- MODULE DealBuilder -----------------------------
(***************************************************************************)
(* The deal builder of the web client: the forms of the nine marketplace   *)
(* events (components/marketplace-event-builder.tsx) in the guided panel   *)
(* (transaction-builder-panel.tsx) and in its operator view.               *)
(*                                                                         *)
(* A submission awaits the derivation of a key and the answer of the node; *)
(* meanwhile the user edits the forms, changes the step, follows a deep    *)
(* link, loads a starter or leaves the page.  The forms are saved in the   *)
(* browser after every change and restored when the builder mounts; the    *)
(* references of two forms are filled in by answers of the node.           *)
(***************************************************************************)
EXTENDS Naturals, Sequences, SequencesExt

CONSTANTS
  DealIds,     \* ids of offers and orders the user may enter
  Milestones,  \* ids of milestones
  m1,          \* the one of Milestones the forms start with
  Modes,       \* the forms of the instance, a subset of AllModes
  Links,       \* deep links: records [order, milestone, flow, step]
  Stored,      \* events other clients have stored in the node, a sequence
  Empty,       \* an empty field, an absent query parameter
  MaxSubmits,  \* bound on the submissions of the user
  MaxEdits     \* bound on the other operations of the user

\* The events of others have the first ids; those of submissions follow.
ASSUME StoredType ==
  Stored \in Seq(Range(Stored)) /\ \A i \in DOMAIN Stored : Stored[i].eid \in 1 .. Len(Stored)

AllModes == {"offer", "order", "escrowSpend", "delivery", "accept", "dispute",
             "settle", "cancel", "amend"}

VARIABLES
  view,        \* "closed", the panel ("guided") or the operator view ("full")
  link,        \* the query parameters of the page
  flow,        \* the panel's flow
  step,        \* the panel's step, the mode of the guided builder
  mode,        \* the mode of the operator builder
  form,        \* form[m] = [id, ms, ref]: order (or offer) id, milestone, reference
  session,     \* sessionAcceptedEvents
  signedEvent, \* the last event signed
  asks,        \* questions of the hydration effect whose answer is awaited
  inFlight,    \* submissions under way
  busy,        \* isSubmitting
  draft,       \* the builder's entry in localStorage
  nodeLog,     \* the events the node has accepted
  shown,       \* shown[i]: the form as it was at the i-th click
  edits

ui == <<view, link, flow, step, mode>>
builderVars == <<ui, form, session, signedEvent, asks, inFlight, busy, draft, nodeLog, shown,
                 edits>>

---------------------------------------------------------------------------
(* Forms, links and drafts.                                                *)

Steps(f) ==
  SelectSeq(CASE f = "happy" -> <<"offer", "order", "escrowSpend", "delivery", "accept">>
              [] f = "dispute" -> <<"dispute", "settle">>
              [] f = "adjust" -> <<"cancel", "amend">>,
            LAMBDA m : m \in Modes)
Flows == {f \in {"happy", "dispute", "adjust"} : Steps(f) # <<>>}

\* The routes of the operator view.
Route(disputed) ==
  SelectSeq(<<"offer", "order", "escrowSpend", "delivery">>
              \o IF disputed THEN <<"dispute", "settle">> ELSE <<"accept">>,
            LAMBDA m : m \in Modes)

Mode == IF view = "guided" THEN step ELSE mode

EmptyForm == [id |-> Empty, ms |-> m1, ref |-> Empty]
EmptyForms == [m \in Modes |-> EmptyForm]

PrefillOrder(f, l) ==
  [m \in Modes |-> IF l.order = Empty \/ m = "offer" THEN f[m]
                   ELSE [f[m] EXCEPT !.id = l.order]]
PrefillMilestone(f, l) ==
  [m \in Modes |-> IF l.milestone = Empty \/ m \in {"offer", "order"} THEN f[m]
                   ELSE [f[m] EXCEPT !.ms = l.milestone]]

\* Milestone ids are not part of a draft.
Restored(f, d) ==
  IF d = Empty THEN f
  ELSE [m \in Modes |->
          [id |-> IF d.form[m].id = Empty THEN f[m].id ELSE d.form[m].id,
           ms |-> f[m].ms,
           ref |-> IF d.form[m].ref = Empty THEN f[m].ref ELSE d.form[m].ref]]

\* The effects of a mount run in the order in which they are declared.
Mounted(l) == Restored(PrefillMilestone(PrefillOrder(EmptyForms, l), l), draft)

\* resetBuilderInputs leaves the forms for cancellations and amendments alone.
ResetForms == [m \in Modes |-> IF m \in {"cancel", "amend"} THEN form[m] ELSE EmptyForm]

Persist ==
  draft' = IF view' = "closed" THEN draft
           ELSE [form |-> [m \in Modes |-> [id |-> form'[m].id, ref |-> form'[m].ref]],
                 mode |-> Mode', session |-> session']

---------------------------------------------------------------------------
(* The hydration of the references of the accept and dispute forms: the    *)
(* effect asks the node for the milestone that the form names, and asks    *)
(* again when a field it depends on changes.                               *)

Question ==
  LET id == IF form[step].id = Empty THEN link.order ELSE form[step].id
      ms == IF form[step].ms # Empty THEN form[step].ms
            ELSE IF link.milestone # Empty THEN link.milestone ELSE m1
  IN  IF view = "guided" /\ step \in {"accept", "dispute"} /\ id # Empty
        THEN {[mode |-> step, id |-> id, ms |-> ms]} ELSE {}

Dependencies ==
  <<view, step, link, [m \in Modes \cap {"accept", "dispute"} |-> <<form[m].id, form[m].ms>>]>>

\* The cleanup of the effect: answers to earlier questions are ignored.
StillAwaited == {}

Rehydrate ==
  asks' = IF Dependencies' = Dependencies THEN asks ELSE StillAwaited \cup Question'

DeliveryOf(id, ms) ==
  SelectSeq(nodeLog, LAMBDA e : e.kind = "delivery" /\ e.oid = id /\ e.ms = ms)

HydrateReference(a) ==
  /\ asks' = asks \ {a}
  /\ form' = IF DeliveryOf(a.id, a.ms) = <<>> \/ form[a.mode].ref # Empty THEN form
             ELSE [form EXCEPT ![a.mode].ref = DeliveryOf(a.id, a.ms)[1].eid]
  /\ UNCHANGED <<ui, session, signedEvent, inFlight, busy, nodeLog, shown, edits>>
  /\ Persist

HydrationFails(a) ==
  /\ asks' = asks \ {a}
  /\ UNCHANGED <<ui, form, session, signedEvent, inFlight, busy, draft, nodeLog, shown, edits>>

---------------------------------------------------------------------------
(* Pages and views.                                                        *)

\* When the page goes, a submission loses the builder it belongs to, and the
\* fields it will still read keep their last value.
LateMilestone(f) ==
  IF f.attached /\ Mode = f.mode /\ form[f.mode].ms # Empty THEN form[f.mode].ms ELSE f.ms
Detached(panelStays) ==
  {[f EXCEPT !.ms = IF f.at = "deriving" /\ f.mode \in {"dispute", "settle", "cancel", "amend"}
                      THEN LateMilestone(f) ELSE f.ms,
             !.attached = FALSE,
             !.panel = f.panel /\ panelStays] : f \in inFlight}

Mount(v, l) ==
  /\ view' = v
  /\ form' = Mounted(l)
  /\ session' = IF draft = Empty THEN <<>> ELSE draft.session
  /\ mode' = IF draft = Empty \/ v = "guided" THEN Route(FALSE)[1] ELSE draft.mode
  /\ signedEvent' = Empty
  /\ busy' = FALSE
  /\ edits < MaxEdits /\ edits' = edits + 1

Open(l) ==
  /\ view = "closed"
  /\ Mount("guided", l)
  /\ link' = l
  /\ flow' = IF l.flow = Empty THEN "happy" ELSE l.flow
  /\ step' = IF l.step = Empty THEN Steps("happy")[1] ELSE l.step
  /\ UNCHANGED <<inFlight, nodeLog, shown>>
  /\ Rehydrate /\ Persist

\* The guided and the operator builder are two mounts of the same component.
SwitchView ==
  /\ view # "closed"
  /\ Mount(IF view = "guided" THEN "full" ELSE "guided", link)
  /\ inFlight' = Detached(TRUE)
  /\ UNCHANGED <<link, flow, step, nodeLog, shown>>
  /\ Rehydrate /\ Persist

\* Nothing of an unmounted builder is kept but its draft.
Unmount ==
  /\ view # "closed" /\ view' = "closed"
  /\ form' = EmptyForms /\ session' = <<>> /\ signedEvent' = Empty
  /\ busy' = FALSE /\ asks' = {}
  /\ edits < MaxEdits /\ edits' = edits + 1
  /\ UNCHANGED <<link, flow, step, mode, draft, nodeLog, shown>>

Leave == Unmount /\ inFlight' = Detached(FALSE)

\* The tab is closed: nothing that was awaited continues.
Kill == Unmount /\ inFlight' = {}

\* A deep link followed on the page: each effect runs when its parameters change.
FollowLink(l) ==
  /\ view # "closed" /\ l # link /\ link' = l
  /\ form' = LET g == IF l.order = link.order THEN form ELSE PrefillOrder(form, l)
             IN  IF l.milestone = link.milestone THEN g ELSE PrefillMilestone(g, l)
  /\ IF <<l.flow, l.step>> = <<link.flow, link.step>> \/ l.flow = Empty
       THEN UNCHANGED <<flow, step>>
       ELSE flow' = l.flow /\ step' = l.step
  /\ edits < MaxEdits /\ edits' = edits + 1
  /\ UNCHANGED <<view, mode, session, signedEvent, inFlight, busy, nodeLog, shown>>
  /\ Rehydrate /\ Persist

---------------------------------------------------------------------------
(* Operations of the user on the mounted builder; the form that is shown   *)
(* is that of the mode.  None of them is disabled while a submission is    *)
(* under way.                                                              *)

UserStep ==
  /\ view # "closed"
  /\ edits < MaxEdits /\ edits' = edits + 1
  /\ UNCHANGED <<view, link, inFlight, busy, nodeLog, shown>>
  /\ Rehydrate /\ Persist

Edit(g) ==
  /\ g # form[Mode]
  /\ form' = [form EXCEPT ![Mode] = g]
  /\ UNCHANGED <<flow, step, mode, session, signedEvent>>
  /\ UserStep

PickFlow(f) ==
  /\ view = "guided"
  /\ flow' = f /\ step' = Steps(f)[1]
  /\ UNCHANGED <<mode, form, session, signedEvent>>
  /\ UserStep

PickStep(s) ==
  /\ view = "guided" /\ s \in Range(Steps(flow)) /\ step' = s
  /\ UNCHANGED <<flow, mode, form, session, signedEvent>>
  /\ UserStep

PickMode(m) ==
  /\ view = "full" /\ mode' = m
  /\ UNCHANGED <<flow, step, form, session, signedEvent>>
  /\ UserStep

\* What the preflight asks for.
Requirements(m, g) ==
  /\ g.id # Empty
  /\ m \notin {"offer", "order"} => g.ms # Empty
  /\ view = "guided" /\ m # "offer" => g.ref # Empty

Completed(m) == \E i \in DOMAIN session : session[i].kind = m

\* The operator view goes on along its route when the present step was accepted
\* in this session and the fields of the next one are filled in.
StepForward(disputed) ==
  /\ view = "full"
  /\ \E i \in DOMAIN Route(disputed) :
       /\ Route(disputed)[i] = mode /\ Completed(mode)
       /\ i < Len(Route(disputed))
       /\ Requirements(Route(disputed)[i + 1], form[Route(disputed)[i + 1]])
       /\ mode' = Route(disputed)[i + 1]
  /\ UNCHANGED <<flow, step, form, session, signedEvent>>
  /\ UserStep

\* The kinds of events a form is filled in from, and what it takes of one.
Sources(m) ==
  CASE m = "order" -> {"offer"}
    [] m = "delivery" -> {"escrowSpend", "order"}
    [] m \in {"accept", "dispute"} -> {"delivery"}
    [] m = "settle" -> {"dispute"}
    [] m \in {"escrowSpend", "cancel", "amend"} -> {"order"}
    [] m = "offer" -> {}

Autofilled(m, g, e) ==
  CASE m = "order" -> [g EXCEPT !.ref = e.eid]
    [] m \in {"cancel", "amend"} -> [g EXCEPT !.id = e.oid, !.ref = e.eid]
    [] e.kind = "escrowSpend" ->
         [id |-> e.oid, ms |-> e.ms, ref |-> IF e.ref = Empty THEN g.ref ELSE e.ref]
    [] OTHER -> [id |-> e.oid, ms |-> e.ms, ref |-> e.eid]

Autofill(e) ==
  /\ e.kind \in Sources(Mode)
  /\ form' = [form EXCEPT ![Mode] = Autofilled(Mode, form[Mode], e)]
  /\ UNCHANGED <<flow, step, mode, session, signedEvent>>
  /\ UserStep

UseLastSigned == signedEvent # Empty /\ Autofill(signedEvent)

UsePreviousAccepted ==
  LET known == SelectSeq(session, LAMBDA e : e.kind \in Sources(Mode))
  IN  known # <<>> /\ Autofill(known[Len(known)])

\* The reset buttons of the operator view, of which one keeps the checklist, and
\* the import of a draft, which the guided view offers too.
Reset(keepSession) ==
  /\ "offer" \in Modes
  /\ view = "guided" => flow = "happy" /\ ~keepSession
  /\ form' = ResetForms
  /\ session' = IF keepSession THEN session ELSE <<>>
  /\ signedEvent' = Empty
  /\ IF view = "guided" THEN step' = "offer" /\ UNCHANGED mode
                        ELSE mode' = "offer" /\ UNCHANGED step
  /\ UNCHANGED flow
  /\ UserStep

\* A starter names the orders of a new draft; a fixture keeps mode and session.
LoadStarter(o) ==
  /\ view = "full" /\ "offer" \in Modes
  /\ form' = [m \in Modes |-> IF m \in {"cancel", "amend"} THEN form[m]
                              ELSE [EmptyForm EXCEPT !.id = o]]
  /\ session' = <<>> /\ signedEvent' = Empty /\ mode' = "offer"
  /\ UNCHANGED <<flow, step>>
  /\ UserStep

LoadFixture(o) ==
  /\ view = "full"
  /\ form' = [m \in Modes |-> IF m \in {"cancel", "amend"} THEN form[m]
                              ELSE [EmptyForm EXCEPT !.id = o]]
  /\ UNCHANGED <<flow, step, mode, session, signedEvent>>
  /\ UserStep

ClearChecklist ==
  /\ view = "full" /\ session # <<>> /\ session' = <<>>
  /\ UNCHANGED <<flow, step, mode, form, signedEvent>>
  /\ UserStep

---------------------------------------------------------------------------
(* handleSubmit.                                                           *)

\* The click: all fields but four are read, and the preflight passes.
Submit ==
  /\ view # "closed" /\ ~busy /\ busy' = TRUE
  /\ Requirements(Mode, form[Mode])
  /\ Len(shown) < MaxSubmits /\ shown' = Append(shown, form[Mode])
  /\ inFlight' = inFlight \cup
       {[eid |-> Len(Stored) + Len(shown) + 1, mode |-> Mode, id |-> form[Mode].id,
         ms |-> form[Mode].ms, ref |-> form[Mode].ref, at |-> "deriving", attached |-> TRUE,
         panel |-> view = "guided", flow |-> flow]}
  /\ UNCHANGED <<ui, form, session, signedEvent, asks, draft, nodeLog, edits>>

\* Mutant of Envelope: all fields are read when the key is there.
EnvelopeReread(f) ==
  [eid |-> f.eid, kind |-> f.mode, oid |-> form[f.mode].id,
   ms |-> LateMilestone(f), ref |-> form[f.mode].ref]

\* What is signed, once the key is derived.  The milestones of four kinds of
\* events are read only now.
Envelope(f) ==
  [eid |-> f.eid, kind |-> f.mode, oid |-> f.id,
   ms |-> IF f.mode \in {"dispute", "settle", "cancel", "amend"}
            THEN LateMilestone(f) ELSE f.ms,
   ref |-> f.ref]

Sign(f) ==
  /\ f.at = "deriving"
  /\ f.mode \in {"cancel", "amend"} => f.ref # Empty
  /\ inFlight' = (inFlight \ {f}) \cup {[f EXCEPT !.at = "sent", !.ms = Envelope(f).ms,
                                                !.id = Envelope(f).oid, !.ref = Envelope(f).ref]}
  /\ signedEvent' = IF f.attached THEN Envelope(f) ELSE signedEvent
  /\ UNCHANGED <<ui, form, session, asks, busy, draft, nodeLog, shown, edits>>

Sent(f) == [eid |-> f.eid, kind |-> f.mode, oid |-> f.id, ms |-> f.ms, ref |-> f.ref]

\* The node ingests the event.
NodeIngests(f, ok) ==
  /\ f.at = "sent"
  /\ inFlight' = (inFlight \ {f}) \cup {[f EXCEPT !.at = IF ok THEN "accepted" ELSE "rejected"]}
  /\ nodeLog' = IF ok THEN Append(nodeLog, Sent(f)) ELSE nodeLog
  /\ UNCHANGED <<ui, form, session, signedEvent, asks, busy, draft, shown, edits>>

\* finally: whatever happened, the builder may submit again.
Release(f) == busy' = IF f.attached THEN FALSE ELSE busy

\* A key that does not match, an envelope that cannot be built, a request or an
\* answer that is lost: an error is shown and nothing recorded.
SubmitFails(f) ==
  /\ inFlight' = inFlight \ {f}
  /\ Release(f)
  /\ UNCHANGED <<ui, form, session, signedEvent, asks, draft, nodeLog, shown, edits>>

\* handleAccepted is the closure of the render the click belongs to.
Advanced(f) ==
  CASE f.flow = "dispute" /\ f.mode = "dispute" /\ "settle" \in Modes -> "settle"
    [] f.flow = "happy" /\ \E i \in 1 .. Len(Steps("happy")) - 1 : Steps("happy")[i] = f.mode ->
         Steps("happy")[1 + CHOOSE i \in DOMAIN Steps("happy") : Steps("happy")[i] = f.mode]
    [] OTHER -> step

\* Mutant of Recorded: a rejected event is recorded as well.
RecordedAnyhow(f) == f.attached

Recorded(f) == f.at = "accepted" /\ f.attached

Answer(f) ==
  /\ f.at \in {"accepted", "rejected"}
  /\ inFlight' = inFlight \ {f}
  /\ session' = IF Recorded(f) THEN Append(session, Sent(f)) ELSE session
  /\ step' = IF f.at = "accepted" /\ f.panel /\ view # "closed" THEN Advanced(f) ELSE step
  /\ Release(f)
  /\ UNCHANGED <<view, link, flow, mode, form, signedEvent, nodeLog, shown, edits>>
  /\ Rehydrate /\ Persist

---------------------------------------------------------------------------
BuilderInit ==
  /\ view = "closed" /\ link \in Links /\ flow = "happy"
  /\ step = Steps("happy")[1] /\ mode = Route(FALSE)[1]
  /\ form = EmptyForms /\ session = <<>> /\ signedEvent = Empty
  /\ asks = {} /\ inFlight = {} /\ busy = FALSE
  /\ draft = Empty
  /\ nodeLog = Stored
  /\ shown = <<>>
  /\ edits = 0

UserOps ==
  \/ \E l \in Links : Open(l) \/ FollowLink(l)
  \/ SwitchView \/ Leave \/ Kill
  \/ \E id \in DealIds \cup {Empty} : Edit([form[Mode] EXCEPT !.id = id])
  \/ \E ms \in Milestones \cup {Empty} :
       Mode \notin {"offer", "order"} /\ Edit([form[Mode] EXCEPT !.ms = ms])
  \/ \E ref \in {nodeLog[i].eid : i \in DOMAIN nodeLog} \cup {Empty} :
       Edit([form[Mode] EXCEPT !.ref = ref])
  \/ \E f \in Flows : PickFlow(f)
  \/ \E m \in Modes : PickStep(m) \/ PickMode(m)
  \/ \E b \in BOOLEAN : StepForward(b) \/ Reset(b)
  \/ UseLastSigned \/ UsePreviousAccepted
  \/ ClearChecklist
  \/ \E o \in DealIds : LoadStarter(o) \/ LoadFixture(o)
  \/ Submit

Settling ==
  \/ \E f \in inFlight : Sign(f) \/ SubmitFails(f) \/ Answer(f)
  \/ \E f \in inFlight, ok \in BOOLEAN : NodeIngests(f, ok)
Hydrating == \E a \in asks : HydrateReference(a) \/ HydrationFails(a)

BuilderNext == UserOps \/ Settling \/ Hydrating

BuilderSpec == BuilderInit /\ [][BuilderNext]_builderVars

\* Continuations run, and requests are answered or fail.
FairBuilderSpec == BuilderSpec /\ WF_builderVars(Settling)

---------------------------------------------------------------------------
\* The form that an event of a submission was clicked on.
Checked(e) == shown[e.eid - Len(Stored)]

\* What is sent is what was on the form when the user clicked and the preflight
\* passed, whatever was edited, restored or reset while the key was derived.  The
\* milestones that are read late are at least not empty.
SentAsChecked ==
  \A e \in {Sent(f) : f \in {g \in inFlight : g.at # "deriving"}} \cup Range(nodeLog) :
    e.eid > Len(Stored) =>
      /\ e.oid = Checked(e).id /\ e.ref = Checked(e).ref
      /\ e.kind \in {"escrowSpend", "delivery", "accept"} => e.ms = Checked(e).ms
      /\ e.kind \notin {"offer", "order"} => e.ms # Empty

\* The checklist that unlocks the next steps, and its copy in the draft that
\* later mounts restore, hold events the node has accepted.
ChecklistAccepted ==
  Range(session) \cup (IF draft = Empty THEN {} ELSE Range(draft.session)) \subseteq Range(nodeLog)

\* The submit button does not stay disabled.
SubmissionEnds == busy ~> ~busy
=============================================================================
