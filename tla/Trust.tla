------------------------------- MODULE Trust -------------------------------
(***************************************************************************)
(* Admission to the network: the identities of the replay engine and their *)
(* keys, the vouches between them, and the contribution claims that other  *)
(* identities attest before their credits are minted (IdentityCreate to    *)
(* MintCredits in crates/state-engine/src/replay.rs); and the eligibility  *)
(* that the web client computes for a key from the node's event feed       *)
(* (apps/web/lib/dashboard/trust-bootstrap.ts).                            *)
(*                                                                         *)
(* One action is one event the engine applies, in the order of creation    *)
(* times.  An event that fails a guard changes nothing and is left out,    *)
(* but for vouches: a rejected vouch stays in the feed the client reads.   *)
(* An identity is named by its root, the key it was created with.  Policy  *)
(* parameters are constants; the reputation and risk limits on minting are *)
(* those of the default policy, which sets none.                           *)
(***************************************************************************)
EXTENDS Integers, FiniteSets, Sequences, FiniteSetsExt

CONSTANTS
  Keys,                 \* public keys
  Founders,             \* keys whose identities exist from the start
  ClaimIds,             \* claim ids, which claimants choose
  None,                 \* no key
  Weights,              \* weights that vouches carry
  Expiries,             \* expiry times that vouches carry
  Amounts,              \* credits that claims request
  ProviderThreshold,    \* policy.provider_eligibility_threshold
  AttestorThreshold,    \* policy.attestor_eligibility_threshold
  ApprovalThreshold,    \* policy.claim_approval_threshold
  IssuanceWindow,       \* policy.issuance_window_seconds
  MaxPerWindow,         \* policy.max_issuance_events_per_identity_window
  MaxRead,              \* events of a kind the web client reads: 50 pages of 200
  MaxTime,              \* bound: creation times of events
  Budgets               \* bound: events about keys, vouches and claims

ASSUME KeysType == None \notin Keys /\ Founders \subseteq Keys /\ IsFiniteSet(Keys)
ASSUME PolicyType ==
  /\ Weights \subseteq Nat /\ Amounts \subseteq Nat /\ Expiries \subseteq Nat
  /\ ProviderThreshold \in Nat /\ AttestorThreshold \in Nat \ {0}
  /\ ApprovalThreshold \in Nat \ {0}
  /\ IssuanceWindow \in Nat \ {0} /\ MaxPerWindow \in Nat \ {0} /\ MaxRead \in Nat \ {0}
ASSUME BoundsType ==
  MaxTime \in Nat /\ Budgets \subseteq [keys : Nat, vouches : Nat, claims : Nat]

VARIABLES
  now,         \* creation time of the last event
  active,      \* identities: the active key of each root, None before it exists
  rootOf,      \* active_to_root: the root that a key acts for, or None
  vouches,     \* ReplayVouchRecord of each pair of voucher and subject roots
  claimEvents, \* applied ContributionClaim events: author key and claim id
  claims,      \* keys of the claims map: claimant root and claim id
  requested,   \* requested_credits of each claim
  approvals, rejections, \* roots that voted on each claim
  issued,      \* the lots minted, and issuance_history
  feed,        \* Vouch and VouchRevoke events the node has, in creation order
  left         \* what is left of the budget of events

keyVars == <<active, rootOf>>
claimVars == <<claimEvents, claims, requested, approvals, rejections>>
vars == <<now, keyVars, vouches, claimVars, issued, feed, left>>

-----------------------------------------------------------------------------
Never == -1       \* a vouch without expiry
Times == 0 .. MaxTime
Claims == Keys \X ClaimIds

Edge == [weight : Nat, expires : Int, revoked : BOOLEAN, event : Nat]
NoEdge == [weight |-> 0, expires |-> Never, revoked |-> TRUE, event |-> 0]

\* A lot, the identity that has it and the claim it was minted for.
Lot == [to : Keys, claim : Claims, amount : Nat, time : Nat]

FeedEvent == [kind : {"Vouch", "VouchRevoke"}, by : Keys, subject : Keys, weight : Nat,
              expires : Int, time : Nat, applied : BOOLEAN]

TypeOK ==
  /\ now \in Nat
  /\ active \in [Keys -> Keys \cup {None}]
  /\ rootOf \in [Keys -> Keys \cup {None}]
  /\ vouches \in [Keys \X Keys -> Edge]
  /\ claimEvents \subseteq Claims /\ claims \subseteq Claims
  /\ requested \in [Claims -> Nat]
  /\ approvals \in [Claims -> SUBSET Keys] /\ rejections \in [Claims -> SUBSET Keys]
  /\ issued \subseteq Lot
  /\ feed \in Seq(FeedEvent)
  /\ left \in [keys : Nat, vouches : Nat, claims : Nat]

Init ==
  /\ now = 0
  /\ active = [k \in Keys |-> IF k \in Founders THEN k ELSE None]
  /\ rootOf = [k \in Keys |-> IF k \in Founders THEN k ELSE None]
  /\ vouches = [pair \in Keys \X Keys |-> NoEdge]
  /\ claimEvents = {} /\ claims = {}
  /\ requested = [c \in Claims |-> 0]
  /\ approvals = [c \in Claims |-> {}] /\ rejections = [c \in Claims |-> {}]
  /\ issued = {}
  /\ feed = <<>>
  /\ left \in Budgets

-----------------------------------------------------------------------------
Event(sort, t) ==
  /\ left[sort] > 0
  /\ now <= t /\ t <= MaxTime
  /\ now' = t
  /\ left' = [left EXCEPT ![sort] = @ - 1]

Exists(root) == active[root] # None

\* The identity that a key names in a payload: the one it acts for, or the one
\* it is the root of.
Resolve(k) == IF rootOf[k] # None THEN rootOf[k] ELSE IF Exists(k) THEN k ELSE None

\* IdentityCreate asks whether the key is a root already, and not whether it is
\* the active key of an identity that was rotated to it.
CreateIdentity(k, t) ==
  /\ Event("keys", t)
  /\ ~Exists(k)
  /\ active' = [active EXCEPT ![k] = k]
  /\ rootOf' = [rootOf EXCEPT ![k] = k]
  /\ UNCHANGED <<vouches, claimVars, issued, feed>>

\* Mutant of Retire: the key an identity is rotated from keeps acting for it.
KeepActing(old, new, root) == [rootOf EXCEPT ![new] = root]

Retire(old, new, root) == [rootOf EXCEPT ![old] = None, ![new] = root]

\* IdentityUpdate with a nextPubKey, signed with the active key.
Rotate(root, next, t) ==
  /\ Event("keys", t)
  /\ Exists(root)
  /\ rootOf[next] = None /\ ~Exists(next)
  /\ active' = [active EXCEPT ![root] = next]
  /\ rootOf' = Retire(active[root], next, root)
  /\ UNCHANGED <<vouches, claimVars, issued, feed>>

-----------------------------------------------------------------------------
Expired(edge, t) == edge.expires # Never /\ edge.expires <= t

Counts(edge, t) == ~edge.revoked /\ ~Expired(edge, t)

\* incoming_vouch_score.
Score(root, t) ==
  MapThenSumSet(LAMBDA v : vouches[<<v, root>>].weight,
                {v \in Keys : Counts(vouches[<<v, root>>], t)})

VouchOk(by, subject, t) ==
  /\ rootOf[by] # None /\ Resolve(subject) # None
  /\ rootOf[by] # Resolve(subject)
  /\ ~Counts(vouches[<<rootOf[by], Resolve(subject)>>], t)

Entry(kind, by, subject, w, x, t, applied) ==
  [kind |-> kind, by |-> by, subject |-> subject, weight |-> w, expires |-> x,
   time |-> t, applied |-> applied]

Vouch(by, subject, w, x, t) ==
  /\ Event("vouches", t)
  /\ VouchOk(by, subject, t)
  /\ vouches' = [vouches EXCEPT ![<<rootOf[by], Resolve(subject)>>] =
                   [weight |-> w, expires |-> x, revoked |-> FALSE,
                    event |-> Len(feed) + 1]]
  /\ feed' = Append(feed, Entry("Vouch", by, subject, w, x, t, TRUE))
  /\ UNCHANGED <<keyVars, claimVars, issued>>

RejectVouch(by, subject, w, x, t) ==
  /\ Event("vouches", t)
  /\ ~VouchOk(by, subject, t)
  /\ feed' = Append(feed, Entry("Vouch", by, subject, w, x, t, FALSE))
  /\ UNCHANGED <<keyVars, vouches, claimVars, issued>>

\* VouchRevoke, which refers to the vouch event n.
Revoke(by, subject, n, t) ==
  LET pair == <<rootOf[by], Resolve(subject)>>
  IN
  /\ Event("vouches", t)
  /\ rootOf[by] # None /\ Resolve(subject) # None
  /\ vouches[pair].event = n /\ ~vouches[pair].revoked
  /\ vouches' = [vouches EXCEPT ![pair].revoked = TRUE]
  /\ feed' = Append(feed, Entry("VouchRevoke", by, subject, 0, Never, t, TRUE))
  /\ UNCHANGED <<keyVars, claimVars, issued>>

-----------------------------------------------------------------------------
Claim(by, id, a, t) ==
  LET c == <<rootOf[by], id>>
  IN
  /\ Event("claims", t)
  /\ rootOf[by] # None
  /\ c \notin claims
  /\ claims' = claims \cup {c}
  /\ claimEvents' = claimEvents \cup {<<by, id>>}
  /\ requested' = [requested EXCEPT ![c] = a]
  /\ UNCHANGED <<keyVars, vouches, approvals, rejections, issued, feed>>

\* The claim an attestation or a mint refers to: the claimant is looked up from
\* the key that signed the claim, as it resolves by now.
Referred(e) == <<Resolve(e[1]), e[2]>>

\* Mutant of Voter: votes are counted by key.
VoterByKey(by) == by

Voter(by) == rootOf[by]

Attest(by, e, approve, t) ==
  LET c == Referred(e)
  IN
  /\ Event("claims", t)
  /\ rootOf[by] # None
  /\ e \in claimEvents /\ c \in claims
  /\ rootOf[by] # c[1]
  /\ Score(rootOf[by], t) >= AttestorThreshold
  /\ Voter(by) \notin approvals[c] \cup rejections[c]
  /\ IF approve THEN /\ approvals' = [approvals EXCEPT ![c] = @ \cup {Voter(by)}]
                     /\ UNCHANGED rejections
                ELSE /\ rejections' = [rejections EXCEPT ![c] = @ \cup {Voter(by)}]
                     /\ UNCHANGED approvals
  /\ UNCHANGED <<keyVars, vouches, claimEvents, claims, requested, issued, feed>>

\* Mutant of Unminted: a claim may be minted again.
UnmintedAlways(c) == TRUE

Unminted(c) == \A lot \in issued : lot.claim # c

\* Mutant of InWindow: a window begins at the multiples of its length.
InWindowFixed(root, t) ==
  {lot \in issued : /\ lot.to = root
                    /\ t - (t % IssuanceWindow) <= lot.time /\ lot.time <= t}

\* The lots minted to a root in the window that ends at t.
InWindow(root, t) ==
  {lot \in issued : /\ lot.to = root
                    /\ t - IssuanceWindow < lot.time /\ lot.time <= t}

\* MintCredits: of a claim of its author, at most what was requested.
Mint(by, e, a, t) ==
  LET c == Referred(e)
  IN
  /\ Event("claims", t)
  /\ rootOf[by] # None
  /\ e \in claimEvents /\ c \in claims
  /\ c[1] = rootOf[by]
  /\ Unminted(c)
  /\ Cardinality(approvals[c]) >= ApprovalThreshold
  /\ a <= requested[c]
  /\ Cardinality(InWindow(rootOf[by], t)) < MaxPerWindow
  /\ issued' = issued \cup {[to |-> rootOf[by], claim |-> c, amount |-> a, time |-> t]}
  /\ UNCHANGED <<keyVars, vouches, claimVars, feed>>

-----------------------------------------------------------------------------
KeyEvent ==
  \E k \in Keys, t \in Times : \/ CreateIdentity(k, t)
                               \/ \E next \in Keys : Rotate(k, next, t)

VouchEvent ==
  \E by, subject \in Keys, t \in Times :
    \/ \E w \in Weights, x \in Expiries \cup {Never} :
         \/ Vouch(by, subject, w, x, t)
         \/ RejectVouch(by, subject, w, x, t)
    \/ \E n \in 1 .. Len(feed) : Revoke(by, subject, n, t)

ClaimEvent ==
  \E by \in Keys, t \in Times :
    \/ \E id \in ClaimIds, a \in Amounts : Claim(by, id, a, t)
    \/ \E e \in claimEvents, approve \in BOOLEAN : Attest(by, e, approve, t)
    \/ \E e \in claimEvents, a \in Amounts : Mint(by, e, a, t)

Next == KeyEvent \/ VouchEvent \/ ClaimEvent

Spec == Init /\ [][Next]_vars

-----------------------------------------------------------------------------
(* The eligibility the web client shows *)

\* A ServiceOffer of the key passes the engine's trust threshold.
OfferOk(k, t) == rootOf[k] # None /\ Score(rootOf[k], t) >= ProviderThreshold

\* What the pages that are read have of a kind: all there is, or the MaxRead events
\* that arrived first, which are any, because the feed is in creation order.
Pages(kind) ==
  LET all == {n \in 1 .. Len(feed) : feed[n].kind = kind}
  IN IF Cardinality(all) <= MaxRead THEN {all} ELSE kSubset(MaxRead, all)

Reads == {vouched \cup revoked : vouched \in Pages("Vouch"), revoked \in Pages("VouchRevoke")}

\* The places among those read of what the key by says about the key s.
Said(read, kind, by, s) ==
  {n \in read : feed[n].kind = kind /\ feed[n].by = by /\ feed[n].subject = s}

\* Mutant of Withdrawn: any revoke withdraws the vouch, also an earlier one.
WithdrawnEver(read, by, s, n) == Said(read, "VouchRevoke", by, s) # {}

\* A later revoke by the same key withdraws the vouch at n.
Withdrawn(read, by, s, n) == \E m \in Said(read, "VouchRevoke", by, s) : m > n

\* The last vouch of a key for s, when it counts at t, 0 when none does.
ActiveVouch(read, by, s, t) ==
  LET said == Said(read, "Vouch", by, s)
      n == IF said = {} THEN 0 ELSE Max(said)
  IN IF n = 0 THEN 0
     ELSE IF Withdrawn(read, by, s, n) \/ Expired(feed[n], t) THEN 0 ELSE n

\* A weight that is not positive reads as the default of one.
ReadWeight(w) == IF w > 0 THEN w ELSE 1

ShownWeight(read, s, t) ==
  MapThenSumSet(LAMBDA by : ReadWeight(feed[ActiveVouch(read, by, s, t)].weight),
                {by \in Keys : ActiveVouch(read, by, s, t) # 0})

DefaultOnboardingThreshold == 2

\* The threshold the node answers with, or the client's own when the request for the
\* policy fails or the answer is not positive.
OnboardingThreshold(answered) ==
  IF answered /\ ProviderThreshold > 0 THEN ProviderThreshold
                                        ELSE DefaultOnboardingThreshold

ShownEligible(read, answered, s, t) ==
  ShownWeight(read, s, t) >= OnboardingThreshold(answered)

-----------------------------------------------------------------------------
(* Properties *)

\* A key acts only for the identity whose active key it is: after a rotation the
\* old key acts for nobody, whatever is created with it later.
KeysActForTheirIdentity ==
  \A k \in Keys : rootOf[k] # None => active[rootOf[k]] = k

\* A claim is voted on by identities other than the claimant, each with one vote
\* however often it changes its key, and each vouched for by somebody else.
VotesAreOfOthers ==
  \A c \in Claims :
    LET voters == approvals[c] \cup rejections[c]
    IN
    /\ approvals[c] \cap rejections[c] = {}
    /\ voters # {} => c \in claims
    /\ \A i \in voters : /\ Exists(i) /\ i # c[1]
                         /\ \E v \in Keys \ {i} : vouches[<<v, i>>].event # 0

\* Credits come from claims: a lot goes to the identity that made the claim, is at
\* most what it requested and was approved by enough identities, and no claim is
\* minted twice.
MintsAreBacked ==
  /\ \A lot \in issued :
       /\ lot.claim \in claims /\ lot.to = lot.claim[1]
       /\ lot.amount <= requested[lot.claim]
       /\ Cardinality(approvals[lot.claim]) >= ApprovalThreshold
  /\ \A x, y \in issued : x.claim = y.claim => x = y

\* No window of the policy's length, wherever it begins, has more issuances to an
\* identity than the policy allows.
RateIsKept ==
  \A k \in Keys, t \in 0 .. MaxTime + IssuanceWindow :
    Cardinality({lot \in issued : /\ lot.to = k
                                  /\ t - IssuanceWindow < lot.time /\ lot.time <= t})
      <= MaxPerWindow

Rotated == {k \in Keys : Exists(k) /\ active[k] # k}

About(s) == {n \in 1 .. Len(feed) : feed[n].subject = s}

\* As long as no identity has been rotated and the engine applied every vouch in
\* the feed about a key, with a positive weight, a client that read all of them
\* shows the score the engine has at every later time, though it knows only the raw
\* events and the engine the edges they left; and who it shows as eligible may
\* publish an offer, and nobody else, unless the threshold it fell back to is not
\* the policy's.
EligibilityIsTrue ==
  Rotated = {} =>
    \A s \in Keys :
      /\ Exists(s)
      /\ \A n \in About(s) :
           feed[n].applied /\ (feed[n].kind = "Vouch" => feed[n].weight > 0)
      => \A read \in Reads, t \in now .. MaxTime + 1 :
           About(s) \subseteq read =>
             /\ ShownWeight(read, s, t) = Score(s, t)
             /\ \A answered \in BOOLEAN :
                  OnboardingThreshold(answered) = ProviderThreshold
                    => (ShownEligible(read, answered, s, t) <=> OfferOk(s, t))
=============================================================================
