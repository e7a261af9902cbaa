----------------------------- MODULE MCWebPages -----------------------------
(***************************************************************************)
(* The pages of the web client that work over several steps: the in-person *)
(* handoff and the deal builder sign events, the operator console keeps    *)
(* evidence.  They share no state this model follows, so a behavior is one *)
(* of either.                                                              *)
(***************************************************************************)
EXTENDS Handoff, DealBuilder, OpsEvidence

CONSTANTS k1, k2, o1, o2, m2, t1, a, b, n

VARIABLE page

webVars == <<page, vars, builderVars, opsVars>>

NoLink == [order |-> Empty, milestone |-> Empty, flow |-> Empty, step |-> Empty]
AcceptLink == [order |-> o2, milestone |-> m2, flow |-> "happy", step |-> "accept"]
DealLinks == {NoLink, AcceptLink}

DeliveryEvent(i, o) == [eid |-> i, kind |-> "delivery", oid |-> o, ms |-> m1, ref |-> Empty]
StoredEvents == <<DeliveryEvent(1, o1), DeliveryEvent(2, o2)>>

\* The handoff: k1 provides o1 to k2, and either has come to deliver or to accept; one
\* tab reviews the evidence, in the other the user may still edit it.
ProviderOf == [o \in Orders |-> k1]
BuyerOf == [o \in Orders |-> k2]
Editing(c) ==
  [Fresh EXCEPT !.orders = {c}, !.step = "acks", !.selected = c,
                !.provider = a, !.buyer = b, !.notes = n]
Prepared ==
  {[t \in Tabs |-> IF t = t1 THEN [Editing(c) EXCEPT !.step = "review"] ELSE Editing(c)] :
     c \in [order : {o1}, canDeliver : BOOLEAN, canAccept : BOOLEAN]}

WebInit ==
  /\ page \in {"handoff", "builder", "console"}
  /\ Init /\ BuilderInit /\ OpsInit
  /\ stored.public \in {k1, k2} /\ wizard[t1].selected = Candidate(o1, stored.public)
  /\ status[o1] = IF stored.public = k1 THEN "Funded" ELSE "Delivered"
  /\ page # "builder" => link = NoLink
  /\ page # "handoff" => stored.public = k1
  /\ page # "console" => atRoot

WebNext ==
  \/ page = "handoff" /\ Next /\ UNCHANGED <<page, builderVars, opsVars>>
  \/ page = "builder" /\ BuilderNext /\ UNCHANGED <<page, vars, opsVars>>
  \/ page = "console" /\ OpsNext /\ UNCHANGED <<page, vars, builderVars>>

\* Continuations run, and requests are answered or fail.
WebSpec ==
  /\ WebInit /\ [][WebNext]_webVars
  /\ WF_webVars(HandoffSettling /\ UNCHANGED <<authVars, ops, page, builderVars, opsVars>>)
  /\ WF_webVars(Settling /\ UNCHANGED <<page, vars, opsVars>>)

\* No button stays disabled: neither of the wizard, nor of an entry of the queue that
\* is submitted, nor of the builder.
ButtonsAreReleased == HandoffIsReleased /\ SubmissionEnds
=============================================================================
