---------------------------- MODULE TrustProofs ----------------------------
(***************************************************************************)
(* Proofs about Trust, for every set of keys, founders and claim ids and   *)
(* every policy and bound: whatever keys are created and rotated between   *)
(* them, claims are voted on by others who are vouched for, lots are       *)
(* backed by votes, and issuances keep to the rate.                        *)
(***************************************************************************)
EXTENDS Trust, FiniteSums, TLAPS

-----------------------------------------------------------------------------
(* The invariant *)

\* An edge that is not revoked comes from a vouch event and joins two identities.
EdgesJoinTwo ==
  \A v, s \in Keys : ~vouches[<<v, s>>].revoked => vouches[<<v, s>>].event # 0 /\ v # s

ClaimsAreFinite ==
  /\ IsFiniteSet(issued)
  /\ \A c \in Claims : IsFiniteSet(approvals[c])

\* Nothing was minted at a later time than that of the last event.
MintedByNow == \A lot \in issued : lot.time <= now

TrustInv ==
  /\ TypeOK
  /\ KeysActForTheirIdentity
  /\ EdgesJoinTwo
  /\ VotesAreOfOthers
  /\ ClaimsAreFinite
  /\ MintsAreBacked
  /\ MintedByNow
  /\ RateIsKept

\* Nobody rejected a vouch for s, or a revocation of one.
AllApplied(s) == \A n \in 1 .. Len(feed) : feed[n].subject = s => feed[n].applied

\* What the feed has of a kind by v about s, and whether a revoke by v follows place n.
AllSaid(kind, v, s) ==
  {n \in 1 .. Len(feed) : feed[n].kind = kind /\ feed[n].by = v /\ feed[n].subject = s}

Revoked(v, s, n) == \E m \in AllSaid("VouchRevoke", v, s) : m > n

\* The edge from v to s is the last vouch of v for s in the feed, revoked when a
\* later event of v withdraws it.
EdgeFollowsFeed(v, s) ==
  LET edge == vouches[<<v, s>>]
      n == edge.event
  IN
  /\ n = 0 => AllSaid("Vouch", v, s) = {}
  /\ n # 0 => /\ n \in AllSaid("Vouch", v, s)
              /\ \A m \in AllSaid("Vouch", v, s) : m <= n
              /\ edge.weight = feed[n].weight /\ edge.expires = feed[n].expires
              /\ edge.revoked <=> Revoked(v, s, n)

\* As long as no identity was rotated, keys are their own roots, and the engine's
\* edges are what the raw events say.
EdgesFollowFeed ==
  Rotated = {} =>
    /\ \A k \in Keys : Exists(k) => rootOf[k] = k
    /\ \A v, s \in Keys : AllApplied(s) => EdgeFollowsFeed(v, s)

-----------------------------------------------------------------------------
(* Lemmas on the operators *)

\* The sets the parameters of the events are drawn from.
LEMMA ParameterTypes ==
  /\ Times \subseteq Nat /\ Amounts \subseteq Nat /\ Weights \subseteq Nat
  /\ Expiries \cup {Never} \subseteq Int
BY PolicyType, BoundsType DEF Times, Never

\* The identity that a key acts for is a key, as is the one that it names.
LEMMA RootsAreKeys ==
  ASSUME TypeOK, NEW k \in Keys
  PROVE  /\ rootOf[k] # None => rootOf[k] \in Keys
         /\ Resolve(k) # None => Resolve(k) \in Keys
BY DEF TypeOK, Resolve

\* An event takes one from a budget and moves the time on.
LEMMA EventType ==
  ASSUME TypeOK, NEW sort \in {"keys", "vouches", "claims"}, NEW t \in Times,
         Event(sort, t)
  PROVE  now' \in Nat /\ left' \in [keys : Nat, vouches : Nat, claims : Nat]
<1>1. left[sort] - 1 \in Nat
  BY DEF TypeOK, Event
<1>2. left' = [left EXCEPT ![sort] = left[sort] - 1]
  BY DEF Event
<1>. QED BY <1>1, <1>2, ParameterTypes DEF TypeOK, Event

\* Nobody vouches for an identity whose score is zero: a sum over no identities
\* is zero, so that a positive score has a voucher.
LEMMA ScoreNeedsVoucher ==
  ASSUME NEW root \in Keys, NEW t \in Times, Score(root, t) >= AttestorThreshold
  PROVE  \E v \in Keys : Counts(vouches[<<v, root>>], t)
<1>. DEFINE S == {v \in Keys : Counts(vouches[<<v, root>>], t)}
            Weight(v) == vouches[<<v, root>>].weight
            Some(s) == CHOOSE x \in s : TRUE
            Sums(f) == f = [s \in SUBSET S |->
                              IF s = {} THEN 0
                              ELSE Weight(Some(s)) + f[s \ {Some(s)}]]
<1>1. SUFFICES ASSUME S = {} PROVE FALSE
  OBVIOUS
<1>2. Score(root, t) = (CHOOSE f : Sums(f))[S]
  BY DEF Score, MapThenSumSet, MapThenFoldSet
<1>3. Sums([s \in SUBSET S |-> 0])
  BY <1>1
<1>4. Sums(CHOOSE f : Sums(f))
  <2>. HIDE DEF Sums
  <2>. QED BY <1>3
<1>5. (CHOOSE f : Sums(f))[S] = 0
  BY <1>1, <1>4
<1>. QED BY <1>2, <1>5, PolicyType

-----------------------------------------------------------------------------
(* What a step leaves of the invariant when it is about something else *)

\* Votes stay those of others as long as identities and vouch events stay.
LEMMA VotesStay ==
  ASSUME TypeOK, VotesAreOfOthers,
         UNCHANGED <<approvals, rejections>>,
         claims \subseteq claims',
         \A k \in Keys : Exists(k) => active'[k] # None,
         \A pair \in Keys \X Keys : vouches[pair].event # 0 => vouches'[pair].event # 0
  PROVE  VotesAreOfOthers'
<1>. SUFFICES ASSUME NEW c \in Claims
              PROVE  /\ approvals[c] \cap rejections[c] = {}
                     /\ approvals[c] \cup rejections[c] # {} => c \in claims
                     /\ \A i \in approvals[c] \cup rejections[c] :
                          /\ active'[i] # None /\ i # c[1]
                          /\ \E v \in Keys \ {i} : vouches'[<<v, i>>].event # 0
  BY DEF VotesAreOfOthers, Exists
<1>1. \A i \in approvals[c] \cup rejections[c] :
        /\ i \in Keys /\ Exists(i) /\ i # c[1]
        /\ \E v \in Keys \ {i} : vouches[<<v, i>>].event # 0
  BY DEF VotesAreOfOthers, TypeOK
<1>. QED BY <1>1 DEF VotesAreOfOthers

\* What was minted stays backed and within the rate as long as nothing is minted.
LEMMA MintsStay ==
  ASSUME TypeOK, MintsAreBacked, MintedByNow, RateIsKept, ClaimsAreFinite,
         UNCHANGED <<claims, requested, approvals, issued>>, now' \in Nat, now <= now'
  PROVE  ClaimsAreFinite' /\ MintsAreBacked' /\ MintedByNow' /\ RateIsKept'
<1>1. ClaimsAreFinite' /\ MintsAreBacked' /\ RateIsKept'
  BY DEF ClaimsAreFinite, MintsAreBacked, RateIsKept
<1>2. MintedByNow'
  BY DEF MintedByNow, TypeOK, Lot, Times
<1>. QED BY <1>1, <1>2

-----------------------------------------------------------------------------
(* Keys *)

LEMMA CreateIdentityStep ==
  ASSUME TrustInv, NEW k \in Keys, NEW t \in Times, CreateIdentity(k, t)
  PROVE  TrustInv'
<1>. USE DEF TrustInv
<1>1. now' \in Nat /\ now <= now' /\ left' \in [keys : Nat, vouches : Nat, claims : Nat]
  BY EventType, ParameterTypes DEF CreateIdentity, Event
<1>2. TypeOK'
  BY <1>1 DEF TypeOK, CreateIdentity, claimVars
<1>3. KeysActForTheirIdentity'
  BY KeysType DEF TypeOK, CreateIdentity, KeysActForTheirIdentity, Exists
<1>4. EdgesJoinTwo'
  BY DEF EdgesJoinTwo, CreateIdentity
<1>5. VotesAreOfOthers'
  <2>1. \A i \in Keys : Exists(i) => active'[i] # None
    BY KeysType DEF TypeOK, CreateIdentity, Exists
  <2>. QED BY <2>1, VotesStay DEF CreateIdentity, claimVars
<1>6. ClaimsAreFinite' /\ MintsAreBacked' /\ MintedByNow' /\ RateIsKept'
  BY <1>1, MintsStay DEF CreateIdentity, claimVars
<1>. QED BY <1>2, <1>3, <1>4, <1>5, <1>6

LEMMA RotateStep ==
  ASSUME TrustInv, NEW root \in Keys, NEW next \in Keys, NEW t \in Times,
         Rotate(root, next, t)
  PROVE  TrustInv'
<1>. USE DEF TrustInv
<1>1. now' \in Nat /\ now <= now' /\ left' \in [keys : Nat, vouches : Nat, claims : Nat]
  BY EventType, ParameterTypes DEF Rotate, Event
<1>2. TypeOK'
  BY <1>1 DEF TypeOK, Rotate, Retire, Exists, claimVars
\* Only the old key acted for the root, and it acts for nobody now.
<1>3. KeysActForTheirIdentity'
  BY KeysType DEF TypeOK, Rotate, Retire, KeysActForTheirIdentity, Exists
<1>4. EdgesJoinTwo'
  BY DEF EdgesJoinTwo, Rotate
<1>5. VotesAreOfOthers'
  <2>1. \A i \in Keys : Exists(i) => active'[i] # None
    BY KeysType DEF TypeOK, Rotate, Exists
  <2>. QED BY <2>1, VotesStay DEF Rotate, claimVars
<1>6. ClaimsAreFinite' /\ MintsAreBacked' /\ MintedByNow' /\ RateIsKept'
  BY <1>1, MintsStay DEF Rotate, claimVars
<1>. QED BY <1>2, <1>3, <1>4, <1>5, <1>6

-----------------------------------------------------------------------------
(* Vouches *)

\* An entry of the feed keeps its type.
LEMMA FeedType ==
  ASSUME TypeOK, NEW kind \in {"Vouch", "VouchRevoke"}, NEW by \in Keys,
         NEW subject \in Keys, NEW w \in Nat, NEW x \in Int, NEW t \in Times,
         NEW applied \in BOOLEAN,
         feed' = Append(feed, Entry(kind, by, subject, w, x, t, applied))
  PROVE  feed' \in Seq(FeedEvent)
<1>1. Entry(kind, by, subject, w, x, t, applied) \in FeedEvent
  BY ParameterTypes DEF Entry, FeedEvent
<1>2. feed \in Seq(FeedEvent)
  BY DEF TypeOK
<1>. QED BY <1>1, <1>2

LEMMA VouchStep ==
  ASSUME TrustInv, NEW by \in Keys, NEW subject \in Keys, NEW w \in Weights,
         NEW x \in Expiries \cup {Never}, NEW t \in Times, Vouch(by, subject, w, x, t)
  PROVE  TrustInv'
<1>. USE DEF TrustInv
<1>. DEFINE pair == <<rootOf[by], Resolve(subject)>>
            edge == [weight |-> w, expires |-> x, revoked |-> FALSE,
                     event |-> Len(feed) + 1]
<1>1. now' \in Nat /\ now <= now' /\ left' \in [keys : Nat, vouches : Nat, claims : Nat]
  BY EventType, ParameterTypes DEF Vouch, Event
<1>2. rootOf[by] \in Keys /\ Resolve(subject) \in Keys /\ rootOf[by] # Resolve(subject)
  BY RootsAreKeys DEF Vouch, VouchOk
<1>3. edge \in Edge /\ edge.event # 0
  <2>1. w \in Nat /\ x \in Int
    BY ParameterTypes
  <2>2. Len(feed) \in Nat
    BY DEF TypeOK
  <2>. QED BY <2>1, <2>2 DEF Edge
<1>4. vouches' = [vouches EXCEPT ![pair] = edge] /\ pair \in Keys \X Keys
  BY <1>2 DEF Vouch
<1>5. TypeOK'
  <2>1. feed' \in Seq(FeedEvent)
    BY FeedType, ParameterTypes DEF Vouch
  <2>2. vouches' \in [Keys \X Keys -> Edge]
    BY <1>3, <1>4 DEF TypeOK
  <2>. HIDE DEF edge
  <2>. QED BY <1>1, <2>1, <2>2 DEF TypeOK, Vouch, keyVars, claimVars
<1>6. KeysActForTheirIdentity'
  BY DEF Vouch, keyVars, KeysActForTheirIdentity
<1>7. EdgesJoinTwo'
  <2>. SUFFICES ASSUME NEW v \in Keys, NEW s \in Keys, ~vouches'[<<v, s>>].revoked
                PROVE  vouches'[<<v, s>>].event # 0 /\ v # s
    BY DEF EdgesJoinTwo
  <2>1. CASE <<v, s>> = pair
    BY <2>1, <1>2, <1>3, <1>4 DEF TypeOK
  <2>2. CASE <<v, s>> # pair
    BY <2>2, <1>4 DEF TypeOK, EdgesJoinTwo
  <2>. QED BY <2>1, <2>2
<1>8. VotesAreOfOthers'
  <2>1. \A q \in Keys \X Keys : vouches[q].event # 0 => vouches'[q].event # 0
    BY <1>3, <1>4 DEF TypeOK
  <2>. QED BY <2>1, VotesStay DEF Vouch, keyVars, claimVars, Exists
<1>9. ClaimsAreFinite' /\ MintsAreBacked' /\ MintedByNow' /\ RateIsKept'
  BY <1>1, MintsStay DEF Vouch, claimVars
<1>. QED BY <1>5, <1>6, <1>7, <1>8, <1>9

LEMMA RejectVouchStep ==
  ASSUME TrustInv, NEW by \in Keys, NEW subject \in Keys, NEW w \in Weights,
         NEW x \in Expiries \cup {Never}, NEW t \in Times,
         RejectVouch(by, subject, w, x, t)
  PROVE  TrustInv'
<1>. USE DEF TrustInv
<1>1. now' \in Nat /\ now <= now' /\ left' \in [keys : Nat, vouches : Nat, claims : Nat]
  BY EventType, ParameterTypes DEF RejectVouch, Event
<1>2. feed' \in Seq(FeedEvent)
  BY FeedType, ParameterTypes DEF RejectVouch
<1>3. TypeOK' /\ KeysActForTheirIdentity' /\ EdgesJoinTwo'
  BY <1>1, <1>2
     DEF TypeOK, RejectVouch, keyVars, claimVars, KeysActForTheirIdentity, EdgesJoinTwo
<1>4. VotesAreOfOthers'
  BY VotesStay DEF RejectVouch, keyVars, claimVars, Exists
<1>5. ClaimsAreFinite' /\ MintsAreBacked' /\ MintedByNow' /\ RateIsKept'
  BY <1>1, MintsStay DEF RejectVouch, claimVars
<1>. QED BY <1>3, <1>4, <1>5

LEMMA RevokeStep ==
  ASSUME TrustInv, NEW by \in Keys, NEW subject \in Keys, NEW n \in Nat,
         NEW t \in Times, Revoke(by, subject, n, t)
  PROVE  TrustInv'
<1>. USE DEF TrustInv
<1>. DEFINE pair == <<rootOf[by], Resolve(subject)>>
            edge == [vouches[pair] EXCEPT !.revoked = TRUE]
<1>1. now' \in Nat /\ now <= now' /\ left' \in [keys : Nat, vouches : Nat, claims : Nat]
  BY EventType, ParameterTypes DEF Revoke, Event
<1>2. pair \in Keys \X Keys
  BY RootsAreKeys DEF Revoke
<1>3. edge \in Edge /\ edge.revoked /\ edge.event = vouches[pair].event
  <2>1. vouches[pair] \in Edge
    BY <1>2 DEF TypeOK
  <2>. QED BY <2>1 DEF Edge
<1>4. vouches' = [vouches EXCEPT ![pair] = edge]
  BY DEF Revoke
<1>5. TypeOK'
  <2>1. feed' = Append(feed, Entry("VouchRevoke", by, subject, 0, Never, t, TRUE))
    BY DEF Revoke
  <2>2. feed' \in Seq(FeedEvent)
    BY <2>1, FeedType, ParameterTypes DEF Never
  <2>3. vouches' \in [Keys \X Keys -> Edge]
    BY <1>2, <1>3, <1>4 DEF TypeOK
  <2>. HIDE DEF edge
  <2>. QED BY <1>1, <2>2, <2>3 DEF TypeOK, Revoke, keyVars, claimVars
<1>6. KeysActForTheirIdentity'
  BY DEF Revoke, keyVars, KeysActForTheirIdentity
<1>7. EdgesJoinTwo'
  <2>. HIDE DEF edge
  <2>. QED BY <1>2, <1>3, <1>4 DEF TypeOK, EdgesJoinTwo
<1>8. VotesAreOfOthers'
  <2>1. \A q \in Keys \X Keys : vouches[q].event # 0 => vouches'[q].event # 0
    BY <1>2, <1>3, <1>4 DEF TypeOK
  <2>. QED BY <2>1, VotesStay DEF Revoke, keyVars, claimVars, Exists
<1>9. ClaimsAreFinite' /\ MintsAreBacked' /\ MintedByNow' /\ RateIsKept'
  BY <1>1, MintsStay DEF Revoke, claimVars
<1>. QED BY <1>5, <1>6, <1>7, <1>8, <1>9

-----------------------------------------------------------------------------
(* Claims *)

\* The claim that an event refers to is a claim when it is among the claims.
LEMMA ClaimType ==
  ASSUME TypeOK
  PROVE  /\ claims \subseteq Claims /\ claimEvents \subseteq Claims
         /\ \A c \in Claims : c[1] \in Keys /\ approvals[c] \in SUBSET Keys
                              /\ rejections[c] \in SUBSET Keys
BY DEF TypeOK, Claims

\* A claim nobody made has no votes and no lots.
LEMMA ClaimStep ==
  ASSUME TrustInv, NEW by \in Keys, NEW id \in ClaimIds, NEW a \in Amounts,
         NEW t \in Times, Claim(by, id, a, t)
  PROVE  TrustInv'
<1>. USE DEF TrustInv
<1>. DEFINE c == <<rootOf[by], id>>
<1>1. now' \in Nat /\ now <= now' /\ left' \in [keys : Nat, vouches : Nat, claims : Nat]
  BY EventType, ParameterTypes DEF Claim, Event
<1>2. c \in Claims /\ c \notin claims /\ a \in Nat
  BY RootsAreKeys, ParameterTypes DEF Claim, Claims
<1>3. claims' = claims \cup {c} /\ requested' = [requested EXCEPT ![c] = a]
  BY DEF Claim
<1>4. TypeOK'
  <2>1. claimEvents' \subseteq Claims
    BY DEF TypeOK, Claim, Claims
  <2>. HIDE DEF c
  <2>. QED BY <1>1, <1>2, <1>3, <2>1 DEF TypeOK, Claim, keyVars
<1>5. KeysActForTheirIdentity' /\ EdgesJoinTwo'
  BY DEF Claim, keyVars, KeysActForTheirIdentity, EdgesJoinTwo
<1>6. VotesAreOfOthers'
  BY <1>3, VotesStay DEF Claim, keyVars, Exists
<1>7. MintsAreBacked'
  <2>1. UNCHANGED <<issued, approvals>>
    BY DEF Claim
  <2>2. ASSUME NEW lot \in issued
        PROVE  /\ lot.claim \in claims' /\ lot.to = lot.claim[1]
               /\ lot.amount <= requested'[lot.claim]
               /\ Cardinality(approvals[lot.claim]) >= ApprovalThreshold
    <3>1. lot.claim \in claims /\ lot.claim \in Claims
      BY DEF MintsAreBacked, TypeOK
    <3>2. requested'[lot.claim] = requested[lot.claim]
      BY <3>1, <1>2, <1>3 DEF TypeOK
    <3>. QED BY <3>1, <3>2, <1>3 DEF MintsAreBacked
  <2>. QED BY <2>1, <2>2 DEF MintsAreBacked
<1>8. ClaimsAreFinite' /\ RateIsKept'
  BY DEF Claim, ClaimsAreFinite, RateIsKept
<1>9. MintedByNow'
  BY <1>1 DEF Claim, MintedByNow, TypeOK, Lot
<1>. QED BY <1>4, <1>5, <1>6, <1>7, <1>8, <1>9

LEMMA AttestStep ==
  ASSUME TrustInv, NEW by \in Keys, NEW e \in claimEvents, NEW approve \in BOOLEAN,
         NEW t \in Times, Attest(by, e, approve, t)
  PROVE  TrustInv'
<1>. USE DEF TrustInv
<1>. DEFINE c == Referred(e)
            voter == rootOf[by]
<1>1. now' \in Nat /\ now <= now' /\ left' \in [keys : Nat, vouches : Nat, claims : Nat]
  BY EventType, ParameterTypes DEF Attest, Event
<1>2. c \in Claims /\ c \in claims /\ voter \in Keys
  BY ClaimType, RootsAreKeys DEF Attest
<1>3. /\ voter # c[1]
      /\ voter \notin approvals[c] \cup rejections[c]
      /\ \/ /\ approvals' = [approvals EXCEPT ![c] = @ \cup {voter}]
            /\ rejections' = rejections
         \/ /\ rejections' = [rejections EXCEPT ![c] = @ \cup {voter}]
            /\ approvals' = approvals
  BY DEF Attest, Voter
<1>4. UNCHANGED <<keyVars, vouches, claimEvents, claims, requested, issued, feed>>
  BY DEF Attest
\* The voter's key is the active key of an identity, which others vouched for.
<1>5. Exists(voter) /\ \E v \in Keys \ {voter} : vouches[<<v, voter>>].event # 0
  <2>1. Exists(voter)
    BY <1>2, KeysType DEF Attest, KeysActForTheirIdentity, Exists
  <2>2. \E v \in Keys : Counts(vouches[<<v, voter>>], t)
    BY <1>2, ScoreNeedsVoucher DEF Attest
  <2>. QED BY <1>2, <2>1, <2>2 DEF Counts, EdgesJoinTwo
<1>. HIDE DEF c, voter
<1>6. TypeOK'
  <2>1. approvals' \in [Claims -> SUBSET Keys]
    BY <1>2, <1>3 DEF TypeOK
  <2>2. rejections' \in [Claims -> SUBSET Keys]
    BY <1>2, <1>3 DEF TypeOK
  <2>. QED BY <1>1, <1>4, <2>1, <2>2 DEF TypeOK, keyVars
<1>7. KeysActForTheirIdentity' /\ EdgesJoinTwo'
  BY <1>4 DEF keyVars, KeysActForTheirIdentity, EdgesJoinTwo
\* The votes on other claims stay, and those on c gain one voter.
<1>8. /\ \A d \in Claims \ {c} : approvals'[d] = approvals[d] /\ rejections'[d] = rejections[d]
      /\ \/ approvals'[c] = approvals[c] \cup {voter} /\ rejections'[c] = rejections[c]
         \/ rejections'[c] = rejections[c] \cup {voter} /\ approvals'[c] = approvals[c]
  BY <1>2, <1>3 DEF TypeOK
<1>9. VotesAreOfOthers'
  <2>. SUFFICES ASSUME NEW d \in Claims
                PROVE  /\ approvals'[d] \cap rejections'[d] = {}
                       /\ approvals'[d] \cup rejections'[d] # {} => d \in claims
                       /\ \A i \in approvals'[d] \cup rejections'[d] :
                            /\ Exists(i) /\ i # d[1]
                            /\ \E v \in Keys \ {i} : vouches[<<v, i>>].event # 0
    BY <1>4 DEF VotesAreOfOthers, Exists, keyVars
  <2>1. /\ approvals[d] \cap rejections[d] = {}
        /\ approvals[d] \cup rejections[d] # {} => d \in claims
        /\ \A i \in approvals[d] \cup rejections[d] :
             /\ Exists(i) /\ i # d[1]
             /\ \E v \in Keys \ {i} : vouches[<<v, i>>].event # 0
    BY DEF VotesAreOfOthers
  <2>2. CASE d = c
    BY <2>1, <2>2, <1>2, <1>3, <1>5, <1>8
  <2>3. CASE d # c
    BY <2>1, <2>3, <1>8
  <2>. QED BY <2>2, <2>3
\* No claim loses an approval.
<1>10. \A d \in Claims : /\ IsFiniteSet(approvals'[d])
                         /\ Cardinality(approvals'[d]) \in Nat
                         /\ Cardinality(approvals[d]) \in Nat
                         /\ Cardinality(approvals[d]) <= Cardinality(approvals'[d])
  <2>. SUFFICES ASSUME NEW d \in Claims
                PROVE  /\ IsFiniteSet(approvals'[d])
                       /\ Cardinality(approvals'[d]) \in Nat
                       /\ Cardinality(approvals[d]) \in Nat
                       /\ Cardinality(approvals[d]) <= Cardinality(approvals'[d])
    OBVIOUS
  <2>1. IsFiniteSet(approvals[d])
    BY DEF ClaimsAreFinite
  <2>2. approvals'[d] = approvals[d] \/ approvals'[d] = approvals[d] \cup {voter}
    BY <1>8
  <2>3. IsFiniteSet(approvals'[d])
    BY <2>1, <2>2, FS_AddElement
  <2>4. approvals[d] \in SUBSET approvals'[d]
    BY <2>2
  <2>. QED BY <2>1, <2>3, <2>4, FS_Subset, FS_CardinalityType
<1>11. MintsAreBacked'
  <2>1. \A lot \in issued : lot.claim \in Claims
    BY DEF TypeOK, Lot
  <2>. QED BY <1>4, <1>10, <2>1, PolicyType DEF MintsAreBacked
<1>12. ClaimsAreFinite' /\ RateIsKept'
  BY <1>4, <1>10 DEF ClaimsAreFinite, RateIsKept
<1>13. MintedByNow'
  BY <1>1, <1>4 DEF MintedByNow, TypeOK, Lot
<1>. QED BY <1>6, <1>7, <1>9, <1>11, <1>12, <1>13

LEMMA MintStep ==
  ASSUME TrustInv, NEW by \in Keys, NEW e \in claimEvents, NEW a \in Amounts,
         NEW t \in Times, Mint(by, e, a, t)
  PROVE  TrustInv'
<1>. USE DEF TrustInv
<1>. DEFINE c == Referred(e)
            root == rootOf[by]
            new == [to |-> root, claim |-> c, amount |-> a, time |-> t]
<1>1. now' = t /\ t \in Nat /\ now <= t
      /\ left' \in [keys : Nat, vouches : Nat, claims : Nat]
  BY EventType, ParameterTypes DEF Mint, Event
<1>2. c \in Claims /\ c \in claims /\ root \in Keys /\ a \in Nat
  BY ClaimType, RootsAreKeys, ParameterTypes DEF Mint
<1>3. /\ c[1] = root /\ Unminted(c) /\ a <= requested[c]
      /\ Cardinality(approvals[c]) >= ApprovalThreshold
      /\ Cardinality(InWindow(root, t)) < MaxPerWindow
      /\ issued' = issued \cup {new}
  BY DEF Mint
<1>4. UNCHANGED <<keyVars, vouches, claimVars, feed>>
  BY DEF Mint
<1>5. new \in Lot /\ new.to = root /\ new.claim = c /\ new.amount = a /\ new.time = t
  BY <1>1, <1>2 DEF Lot
<1>. HIDE DEF c, root, new
<1>6. TypeOK'
  BY <1>1, <1>3, <1>4, <1>5 DEF TypeOK, keyVars, claimVars
<1>7. KeysActForTheirIdentity' /\ EdgesJoinTwo'
  BY <1>4 DEF keyVars, KeysActForTheirIdentity, EdgesJoinTwo
<1>8. VotesAreOfOthers'
  BY <1>4, VotesStay DEF keyVars, claimVars, Exists
<1>9. ClaimsAreFinite'
  BY <1>3, <1>4, FS_AddElement DEF claimVars, ClaimsAreFinite
\* The claim of the new lot has no lot yet.
<1>10. MintsAreBacked'
  <2>1. \A lot \in issued' :
          /\ lot.claim \in claims /\ lot.to = lot.claim[1]
          /\ lot.amount <= requested[lot.claim]
          /\ Cardinality(approvals[lot.claim]) >= ApprovalThreshold
    BY <1>2, <1>3, <1>5 DEF MintsAreBacked
  <2>2. \A x, y \in issued' : x.claim = y.claim => x = y
    BY <1>3, <1>5 DEF MintsAreBacked, Unminted
  <2>. QED BY <1>4, <2>1, <2>2 DEF MintsAreBacked, claimVars
<1>11. MintedByNow'
  BY <1>1, <1>3, <1>5 DEF MintedByNow, TypeOK, Lot
\* A window with the new lot in it has, but for it, only lots of the window that
\* ends at t: no lot is later than t.
<1>12. RateIsKept'
  <2>. SUFFICES ASSUME NEW k \in Keys, NEW u \in 0 .. MaxTime + IssuanceWindow
                PROVE  Cardinality({lot \in issued' : /\ lot.to = k
                                                      /\ u - IssuanceWindow < lot.time
                                                      /\ lot.time <= u}) <= MaxPerWindow
    BY DEF RateIsKept
  <2>. DEFINE Old == {lot \in issued : /\ lot.to = k
                                       /\ u - IssuanceWindow < lot.time /\ lot.time <= u}
              New == {lot \in issued' : /\ lot.to = k
                                        /\ u - IssuanceWindow < lot.time /\ lot.time <= u}
  <2>1. IsFiniteSet(Old) /\ Cardinality(Old) <= MaxPerWindow
    BY FS_Subset DEF RateIsKept, ClaimsAreFinite
  <2>2. New = Old \/ (New = Old \cup {new} /\ k = root /\ u - IssuanceWindow < t /\ t <= u)
    BY <1>3, <1>5
  <2>3. CASE New = Old
    BY <2>1, <2>3
  <2>4. CASE New = Old \cup {new} /\ k = root /\ u - IssuanceWindow < t /\ t <= u
    <3>1. \A lot \in issued : lot.time \in Nat /\ lot.time <= t
      BY <1>1 DEF MintedByNow, TypeOK, Lot
    <3>2. u \in Nat /\ IssuanceWindow \in Nat /\ MaxPerWindow \in Nat
      BY PolicyType, BoundsType
    <3>3. Old \in SUBSET InWindow(root, t)
      BY <2>4, <3>1, <3>2, <1>1 DEF InWindow
    <3>4. IsFiniteSet(InWindow(root, t))
      BY FS_Subset DEF InWindow, ClaimsAreFinite
    <3>5. Cardinality(Old) <= Cardinality(InWindow(root, t))
      BY <3>3, <3>4, FS_Subset
    <3>. HIDE DEF New, Old
    <3>6. IsFiniteSet(New) /\ Cardinality(New) =
            IF new \in Old THEN Cardinality(Old) ELSE Cardinality(Old) + 1
      BY <2>1, <2>4, FS_AddElement
    <3>7. Cardinality(Old) \in Nat /\ Cardinality(InWindow(root, t)) \in Nat
      BY <2>1, <3>4, FS_CardinalityType
    <3>8. Cardinality(New) <= MaxPerWindow
      BY <3>2, <3>5, <3>6, <3>7, <1>3
    <3>. QED BY <3>8 DEF New
  <2>. QED BY <2>2, <2>3, <2>4
<1>. QED BY <1>6, <1>7, <1>8, <1>9, <1>10, <1>11, <1>12

-----------------------------------------------------------------------------
(* Eligibility *)

\* A score is the sum of the weights of the edges that count, ...
LEMMA ScoreIsSum ==
  ASSUME NEW root \in Keys, NEW t \in Int, NEW S, NEW f,
         S = {v \in Keys : Counts(vouches[<<v, root>>], t)},
         f = [v \in S |-> vouches[<<v, root>>].weight]
  PROVE  Score(root, t) = SumFunction(f)
<1>. DEFINE Weight(v) == vouches[<<v, root>>].weight
            Sums(g) == g = [s \in SUBSET S |->
                              IF s = {} THEN 0
                              ELSE Weight(Chosen(s)) + g[s \ {Chosen(s)}]]
<1>1. Score(root, t) = (CHOOSE g : Sums(g))[S]
  BY DEF Score, MapThenSumSet, MapThenFoldSet, Chosen
<1>2. IsFiniteSet(S)
  BY KeysType, FS_Subset
<1>3. \A s \in SUBSET S : s # {} => f[Chosen(s)] = Weight(Chosen(s))
  BY DEF Chosen
<1>4. ASSUME NEW g PROVE Sums(g) <=> PartialSums(f, S, g)
  BY <1>3 DEF PartialSums
<1>5. PICK g : PartialSums(f, S, g) /\ SumFunction(f) = g[S]
  BY <1>2, SumWitness
<1>6. PartialSums(f, S, CHOOSE h : Sums(h))
  <2>1. Sums(g)
    BY <1>4, <1>5
  <2>. HIDE DEF Sums
  <2>2. Sums(CHOOSE h : Sums(h))
    BY <2>1
  <2>. QED BY <1>4, <2>2
<1>. HIDE DEF Sums
<1>. QED BY <1>1, <1>2, <1>5, <1>6, PartialSumsAgree

\* ... and what the client shows is that of the vouches it finds active.
LEMMA ShownIsSum ==
  ASSUME NEW read, NEW k \in Keys, NEW t \in Int, NEW S, NEW f,
         S = {by \in Keys : ActiveVouch(read, by, k, t) # 0},
         f = [by \in S |-> ReadWeight(feed[ActiveVouch(read, by, k, t)].weight)]
  PROVE  ShownWeight(read, k, t) = SumFunction(f)
<1>. DEFINE Weight(by) == ReadWeight(feed[ActiveVouch(read, by, k, t)].weight)
            Sums(g) == g = [s \in SUBSET S |->
                              IF s = {} THEN 0
                              ELSE Weight(Chosen(s)) + g[s \ {Chosen(s)}]]
<1>1. ShownWeight(read, k, t) = (CHOOSE g : Sums(g))[S]
  BY DEF ShownWeight, MapThenSumSet, MapThenFoldSet, Chosen
<1>2. IsFiniteSet(S)
  BY KeysType, FS_Subset
<1>3. \A s \in SUBSET S : s # {} => f[Chosen(s)] = Weight(Chosen(s))
  BY DEF Chosen
<1>4. ASSUME NEW g PROVE Sums(g) <=> PartialSums(f, S, g)
  BY <1>3 DEF PartialSums
<1>5. PICK g : PartialSums(f, S, g) /\ SumFunction(f) = g[S]
  BY <1>2, SumWitness
<1>6. PartialSums(f, S, CHOOSE h : Sums(h))
  <2>1. Sums(g)
    BY <1>4, <1>5
  <2>. HIDE DEF Sums
  <2>2. Sums(CHOOSE h : Sums(h))
    BY <2>1
  <2>. QED BY <1>4, <2>2
<1>. HIDE DEF Sums
<1>. QED BY <1>1, <1>2, <1>5, <1>6, PartialSumsAgree

\* Keys name themselves while no identity was rotated.
LEMMA KeysNameThemselves ==
  ASSUME TrustInv, Rotated = {}, NEW k \in Keys
  PROVE  /\ rootOf[k] # None => rootOf[k] = k
         /\ Resolve(k) # None => Resolve(k) = k
<1>1. rootOf[k] # None => rootOf[k] = k
  BY KeysType, RootsAreKeys DEF TrustInv, TypeOK, KeysActForTheirIdentity, Rotated, Exists
<1>. QED BY <1>1 DEF Resolve

\* A new entry is the last thing that its author says of its subject, and nothing
\* else anybody says.
LEMMA FeedGrows ==
  ASSUME TypeOK, NEW e \in FeedEvent, feed' = Append(feed, e)
  PROVE  /\ Len(feed) \in Nat /\ Len(feed') = Len(feed) + 1
         /\ feed'[Len(feed) + 1] = e
         /\ \A n \in 1 .. Len(feed) : feed'[n] = feed[n]
         /\ \A kind \in {"Vouch", "VouchRevoke"}, v, s \in Keys :
              /\ AllSaid(kind, v, s) \subseteq 1 .. Len(feed)
              /\ e.kind = kind /\ e.by = v /\ e.subject = s
                   => AllSaid(kind, v, s)' = AllSaid(kind, v, s) \cup {Len(feed) + 1}
              /\ ~(e.kind = kind /\ e.by = v /\ e.subject = s)
                   => AllSaid(kind, v, s)' = AllSaid(kind, v, s)
<1>1. /\ Len(feed) \in Nat /\ Len(feed') = Len(feed) + 1
      /\ feed'[Len(feed) + 1] = e
      /\ \A n \in 1 .. Len(feed) : feed'[n] = feed[n]
  <2>1. feed \in Seq(FeedEvent)
    BY DEF TypeOK
  <2>. QED BY <2>1
<1>. QED BY <1>1 DEF AllSaid

\* An edge that nobody speaks of keeps following the feed.
LEMMA OtherEdgesFollow ==
  ASSUME TypeOK, NEW e \in FeedEvent, feed' = Append(feed, e),
         NEW v \in Keys, NEW s \in Keys, EdgeFollowsFeed(v, s),
         vouches'[<<v, s>>] = vouches[<<v, s>>],
         ~(e.by = v /\ e.subject = s)
  PROVE  EdgeFollowsFeed(v, s)'
<1>1. /\ AllSaid("Vouch", v, s)' = AllSaid("Vouch", v, s)
      /\ AllSaid("VouchRevoke", v, s)' = AllSaid("VouchRevoke", v, s)
      /\ \A n \in AllSaid("Vouch", v, s) : feed'[n] = feed[n]
  BY FeedGrows
<1>. QED BY <1>1 DEF EdgeFollowsFeed, Revoked

\* What was applied before a further event was applied before.
LEMMA AppliedBefore ==
  ASSUME TypeOK, NEW e \in FeedEvent, feed' = Append(feed, e), NEW s \in Keys,
         AllApplied(s)'
  PROVE  AllApplied(s) /\ (e.subject = s => e.applied)
BY FeedGrows DEF AllApplied

\* The identities that were rotated stay so.
LEMMA RotatedStay ==
  ASSUME UNCHANGED keyVars
  PROVE  Rotated' = Rotated /\ \A k : Exists(k)' <=> Exists(k)
BY DEF keyVars, Rotated, Exists

LEMMA FollowKeyEvent ==
  ASSUME TrustInv, EdgesFollowFeed, KeyEvent
  PROVE  EdgesFollowFeed'
<1>1. ASSUME NEW k \in Keys, NEW t \in Times, CreateIdentity(k, t) PROVE EdgesFollowFeed'
  <2>1. /\ ~Exists(k)
        /\ active' = [active EXCEPT ![k] = k] /\ rootOf' = [rootOf EXCEPT ![k] = k]
        /\ UNCHANGED <<vouches, feed>>
    BY <1>1 DEF CreateIdentity
  <2>2. active \in [Keys -> Keys \cup {None}] /\ rootOf \in [Keys -> Keys \cup {None}]
    BY DEF TrustInv, TypeOK
  <2>3. Rotated \subseteq Rotated'
    BY <2>1, <2>2 DEF Rotated, Exists
  <2>4. \A j \in Keys : Exists(j)' => j = k \/ Exists(j)
    BY <2>1, <2>2 DEF Exists
  <2>5. \A v, s \in Keys : /\ AllApplied(s)' <=> AllApplied(s)
                           /\ EdgeFollowsFeed(v, s)' <=> EdgeFollowsFeed(v, s)
    BY <2>1 DEF AllApplied, EdgeFollowsFeed, AllSaid, Revoked
  <2>. QED BY <2>1, <2>2, <2>3, <2>4, <2>5 DEF EdgesFollowFeed
<1>2. ASSUME NEW root \in Keys, NEW next \in Keys, NEW t \in Times, Rotate(root, next, t)
      PROVE  root \in Rotated'
  <2>1. /\ Exists(root) /\ ~Exists(next)
        /\ active' = [active EXCEPT ![root] = next]
    BY <1>2 DEF Rotate
  <2>2. active \in [Keys -> Keys \cup {None}] /\ next # None /\ next # root
    BY <2>1, KeysType DEF TrustInv, TypeOK
  <2>. QED BY <2>1, <2>2 DEF Rotated, Exists
<1>. QED BY <1>1, <1>2 DEF KeyEvent, EdgesFollowFeed

LEMMA FollowVouch ==
  ASSUME TrustInv, EdgesFollowFeed, NEW by \in Keys, NEW subject \in Keys,
         NEW w \in Weights, NEW x \in Expiries \cup {Never}, NEW t \in Times,
         Vouch(by, subject, w, x, t)
  PROVE  EdgesFollowFeed'
<1>. SUFFICES ASSUME Rotated = {}
              PROVE  /\ \A k \in Keys : Exists(k)' => rootOf'[k] = k
                     /\ \A v, s \in Keys : AllApplied(s)' => EdgeFollowsFeed(v, s)'
  BY RotatedStay DEF Vouch, EdgesFollowFeed
<1>1. PICK e : e = Entry("Vouch", by, subject, w, x, t, TRUE)
  OBVIOUS
<1>2. /\ e \in FeedEvent /\ e.kind = "Vouch" /\ e.by = by /\ e.subject = subject
      /\ e.weight = w /\ e.expires = x
  BY <1>1, ParameterTypes DEF Entry, FeedEvent
<1>3. PICK edge : edge = [weight |-> w, expires |-> x, revoked |-> FALSE,
                          event |-> Len(feed) + 1]
  OBVIOUS
<1>4. /\ feed' = Append(feed, e) /\ UNCHANGED keyVars
      /\ vouches' = [vouches EXCEPT ![<<by, subject>>] = edge]
  BY <1>1, <1>3, KeysNameThemselves DEF Vouch, VouchOk
<1>5. TypeOK
  BY DEF TrustInv
<1>6. \A v, s \in Keys : <<v, s>> # <<by, subject>>
                           => vouches'[<<v, s>>] = vouches[<<v, s>>]
  BY <1>4, <1>5 DEF TypeOK
<1>7. EdgeFollowsFeed(by, subject)'
  <2>1. vouches'[<<by, subject>>] = edge
    BY <1>4, <1>5 DEF TypeOK
  <2>2. /\ edge.event = Len(feed) + 1 /\ edge.weight = w /\ edge.expires = x
        /\ edge.revoked = FALSE
    BY <1>3
  <2>3. /\ Len(feed) \in Nat
        /\ AllSaid("Vouch", by, subject) \subseteq 1 .. Len(feed)
        /\ AllSaid("VouchRevoke", by, subject) \subseteq 1 .. Len(feed)
        /\ AllSaid("Vouch", by, subject)' = AllSaid("Vouch", by, subject) \cup {Len(feed) + 1}
        /\ AllSaid("VouchRevoke", by, subject)' = AllSaid("VouchRevoke", by, subject)
        /\ feed'[Len(feed) + 1] = e
    BY <1>2, <1>4, <1>5, FeedGrows
  <2>4. PICK k \in Nat : k = Len(feed) + 1
    BY <2>3
  <2>5. /\ k \in AllSaid("Vouch", by, subject)'
        /\ \A m \in AllSaid("Vouch", by, subject)' : m <= k
        /\ \A m \in AllSaid("VouchRevoke", by, subject)' : ~(m > k)
    BY <2>3, <2>4
  <2>6. ~Revoked(by, subject, k)'
    BY ONLY <2>5 DEF Revoked
  <2>7. edge.event = k /\ k # 0 /\ feed'[k] = e
    BY <2>2, <2>3, <2>4
  <2>. QED BY ONLY <1>2, <2>1, <2>2, <2>5, <2>6, <2>7 DEF EdgeFollowsFeed
<1>8. ASSUME NEW v \in Keys, NEW s \in Keys, AllApplied(s)', <<v, s>> # <<by, subject>>
      PROVE  EdgeFollowsFeed(v, s)'
  <2>1. EdgeFollowsFeed(v, s)
    BY <1>2, <1>4, <1>5, <1>8, AppliedBefore DEF EdgesFollowFeed
  <2>. QED BY <1>2, <1>4, <1>5, <1>6, <1>8, <2>1, OtherEdgesFollow
<1>9. \A k \in Keys : Exists(k)' => rootOf'[k] = k
  BY <1>4 DEF keyVars, Exists, EdgesFollowFeed
<1>. QED BY <1>7, <1>8, <1>9

LEMMA FollowRejectVouch ==
  ASSUME TrustInv, EdgesFollowFeed, NEW by \in Keys, NEW subject \in Keys,
         NEW w \in Weights, NEW x \in Expiries \cup {Never}, NEW t \in Times,
         RejectVouch(by, subject, w, x, t)
  PROVE  EdgesFollowFeed'
<1>1. PICK e : e = Entry("Vouch", by, subject, w, x, t, FALSE)
  OBVIOUS
<1>2. e \in FeedEvent /\ e.subject = subject /\ ~e.applied
  BY <1>1, ParameterTypes DEF Entry, FeedEvent
<1>3. feed' = Append(feed, e) /\ UNCHANGED <<keyVars, vouches>>
  BY <1>1 DEF RejectVouch
<1>4. TypeOK
  BY DEF TrustInv
<1>5. ASSUME NEW v \in Keys, NEW s \in Keys, AllApplied(s)', Rotated = {}
      PROVE  EdgeFollowsFeed(v, s)'
  <2>1. EdgeFollowsFeed(v, s) /\ s # subject
    BY <1>2, <1>3, <1>4, <1>5, AppliedBefore DEF EdgesFollowFeed
  <2>. QED BY <1>2, <1>3, <1>4, <2>1, OtherEdgesFollow
<1>. QED BY <1>3, <1>5, RotatedStay DEF EdgesFollowFeed, keyVars

LEMMA FollowRevoke ==
  ASSUME TrustInv, EdgesFollowFeed, NEW by \in Keys, NEW subject \in Keys,
         NEW n \in 1 .. Len(feed), NEW t \in Times, Revoke(by, subject, n, t)
  PROVE  EdgesFollowFeed'
<1>. SUFFICES ASSUME Rotated = {}
              PROVE  /\ \A k \in Keys : Exists(k)' => rootOf'[k] = k
                     /\ \A v, s \in Keys : AllApplied(s)' => EdgeFollowsFeed(v, s)'
  BY RotatedStay DEF Revoke, EdgesFollowFeed
<1>1. PICK e : e = Entry("VouchRevoke", by, subject, 0, Never, t, TRUE)
  OBVIOUS
<1>2. e \in FeedEvent /\ e.kind = "VouchRevoke" /\ e.by = by /\ e.subject = subject
  BY <1>1, ParameterTypes DEF Entry, FeedEvent
<1>3. rootOf[by] = by /\ Resolve(subject) = subject
  BY KeysNameThemselves DEF Revoke
<1>4. /\ feed' = Append(feed, e) /\ UNCHANGED keyVars
      /\ vouches[<<by, subject>>].event = n
      /\ vouches' = [vouches EXCEPT ![<<by, subject>>].revoked = TRUE]
  BY <1>1, <1>3 DEF Revoke
<1>5. TypeOK
  BY DEF TrustInv
<1>6. \A v, s \in Keys : <<v, s>> # <<by, subject>>
                           => vouches'[<<v, s>>] = vouches[<<v, s>>]
  BY <1>4, <1>5 DEF TypeOK
<1>7. ASSUME EdgeFollowsFeed(by, subject) PROVE EdgeFollowsFeed(by, subject)'
  <2>1. PICK old, edge : old = vouches[<<by, subject>>] /\ edge = vouches'[<<by, subject>>]
    OBVIOUS
  <2>2. /\ edge.event = n /\ edge.weight = old.weight /\ edge.expires = old.expires
        /\ edge.revoked = TRUE
    <3>1. old \in Edge /\ edge = [old EXCEPT !.revoked = TRUE] /\ old.event = n
      BY <1>4, <1>5, <2>1 DEF TypeOK
    <3>. QED BY <3>1 DEF Edge
  <2>3. /\ Len(feed) \in Nat
        /\ AllSaid("Vouch", by, subject)' = AllSaid("Vouch", by, subject)
        /\ AllSaid("VouchRevoke", by, subject)'
             = AllSaid("VouchRevoke", by, subject) \cup {Len(feed) + 1}
        /\ feed'[n] = feed[n]
    BY <1>2, <1>4, <1>5, FeedGrows
  <2>4. \E m \in AllSaid("VouchRevoke", by, subject)' : m > n
    <3>1. PICK k \in Nat : k = Len(feed) + 1
      BY <2>3
    <3>2. k > n
      BY <2>3, <3>1
    <3>3. k \in AllSaid("VouchRevoke", by, subject)'
      BY ONLY <2>3, <3>1
    <3>. QED BY ONLY <3>2, <3>3
  <2>5. /\ n \in AllSaid("Vouch", by, subject) /\ n # 0
        /\ \A m \in AllSaid("Vouch", by, subject) : m <= n
        /\ old.weight = feed[n].weight /\ old.expires = feed[n].expires
    BY <1>4, <1>7, <2>1 DEF EdgeFollowsFeed
  <2>6. /\ n \in AllSaid("Vouch", by, subject)'
        /\ \A m \in AllSaid("Vouch", by, subject)' : m <= n
        /\ edge.weight = feed'[n].weight /\ edge.expires = feed'[n].expires
    BY ONLY <2>2, <2>3, <2>5
  <2>. QED BY ONLY <2>1, <2>2, <2>4, <2>5, <2>6 DEF EdgeFollowsFeed, Revoked
<1>8. ASSUME NEW v \in Keys, NEW s \in Keys, AllApplied(s)'
      PROVE  EdgeFollowsFeed(v, s)'
  <2>1. EdgeFollowsFeed(v, s)
    BY <1>2, <1>4, <1>5, <1>8, AppliedBefore DEF EdgesFollowFeed
  <2>2. CASE <<v, s>> = <<by, subject>>
    BY <1>7, <2>1, <2>2
  <2>3. CASE <<v, s>> # <<by, subject>>
    BY <1>2, <1>4, <1>5, <1>6, <2>1, <2>3, OtherEdgesFollow
  <2>. QED BY <2>2, <2>3
<1>9. \A k \in Keys : Exists(k)' => rootOf'[k] = k
  BY <1>4 DEF keyVars, Exists, EdgesFollowFeed
<1>. QED BY <1>8, <1>9

\* Edges and feed stay as they are when an event is about a claim.
LEMMA FollowOther ==
  ASSUME EdgesFollowFeed, UNCHANGED <<keyVars, vouches, feed>>
  PROVE  EdgesFollowFeed'
<1>1. \A v, s \in Keys : /\ AllApplied(s)' <=> AllApplied(s)
                         /\ EdgeFollowsFeed(v, s)' <=> EdgeFollowsFeed(v, s)
  BY DEF AllApplied, EdgeFollowsFeed, AllSaid, Revoked
<1>. QED BY <1>1, RotatedStay DEF EdgesFollowFeed, keyVars

LEMMA FollowStep ==
  ASSUME TrustInv, EdgesFollowFeed, [Next]_vars
  PROVE  EdgesFollowFeed'
<1>1. CASE VouchEvent
  BY <1>1, FollowVouch, FollowRejectVouch, FollowRevoke DEF VouchEvent
<1>2. CASE ClaimEvent \/ UNCHANGED vars
  BY <1>2, FollowOther DEF ClaimEvent, Claim, Attest, Mint, vars, claimVars
<1>. QED BY <1>1, <1>2, FollowKeyEvent DEF Next

\* A client that read all of the feed about s has what the feed has about s.
LEMMA AllIsRead ==
  ASSUME NEW read \in Reads, NEW s \in Keys, About(s) \subseteq read,
         NEW kind \in {"Vouch", "VouchRevoke"}, NEW v \in Keys
  PROVE  Said(read, kind, v, s) = AllSaid(kind, v, s)
<1>1. read \subseteq 1 .. Len(feed)
  <2>1. PICK vouched \in Pages("Vouch"), revoked \in Pages("VouchRevoke") :
          read = vouched \cup revoked
    BY DEF Reads
  <2>2. ASSUME NEW sort, NEW part \in Pages(sort) PROVE part \subseteq 1 .. Len(feed)
    BY <2>2 DEF Pages, kSubset
  <2>3. vouched \subseteq 1 .. Len(feed)
    BY <2>2
  <2>4. revoked \subseteq 1 .. Len(feed)
    BY <2>2
  <2>. QED BY <2>1, <2>3, <2>4
<1>. QED BY <1>1 DEF Said, AllSaid, About

\* Such a client finds a vouch active exactly when the engine's edge counts, and reads
\* the weight it has.
LEMMA ActiveVouchCounts ==
  ASSUME TrustInv, NEW v \in Keys, NEW s \in Keys, NEW t \in Int, EdgeFollowsFeed(v, s),
         NEW read \in Reads, About(s) \subseteq read,
         \A n \in About(s) : feed[n].kind = "Vouch" => feed[n].weight > 0
  PROVE  /\ ActiveVouch(read, v, s, t) # 0 <=> Counts(vouches[<<v, s>>], t)
         /\ ActiveVouch(read, v, s, t) # 0 =>
              ReadWeight(feed[ActiveVouch(read, v, s, t)].weight) = vouches[<<v, s>>].weight
<1>. DEFINE edge == vouches[<<v, s>>]
            said == AllSaid("Vouch", v, s)
<1>. Said(read, "Vouch", v, s) = said
  BY AllIsRead
<1>. Said(read, "VouchRevoke", v, s) = AllSaid("VouchRevoke", v, s)
  BY AllIsRead
<1>1. edge.event \in Nat
  BY DEF TrustInv, TypeOK, Edge
<1>2. CASE edge.event = 0
  <2>1. ActiveVouch(read, v, s, t) = 0
    BY <1>2 DEF EdgeFollowsFeed, ActiveVouch
  <2>2. ~Counts(edge, t)
    BY <1>2 DEF TrustInv, EdgesJoinTwo, Counts
  <2>. QED BY <2>1, <2>2
<1>3. CASE edge.event # 0
  <2>1. PICK n : n = edge.event
    OBVIOUS
  <2>2. /\ n \in said /\ \A m \in said : m <= n
        /\ edge.weight = feed[n].weight /\ edge.expires = feed[n].expires
        /\ edge.revoked <=> Revoked(v, s, n)
    BY <1>3, <2>1 DEF EdgeFollowsFeed
  <2>3. said \subseteq Nat /\ feed[n].weight > 0
    BY <2>2 DEF AllSaid, About
  <2>4. Max(said) = n
    <3>1. \A x \in said : (\A y \in said : x >= y) => x = n
      BY <2>2, <2>3
    <3>2. \A y \in said : n >= y
      BY <2>2, <2>3
    <3>. HIDE DEF said
    <3>. QED BY <2>2, <3>1, <3>2 DEF Max
  <2>5. ActiveVouch(read, v, s, t) = IF Revoked(v, s, n) \/ Expired(feed[n], t) THEN 0 ELSE n
    <3>1. Withdrawn(read, v, s, n) <=> Revoked(v, s, n)
      BY DEF Withdrawn, Revoked
    <3>. HIDE DEF said
    <3>. QED BY <1>1, <1>3, <2>1, <2>2, <2>4, <3>1 DEF ActiveVouch
  <2>6. Expired(feed[n], t) <=> Expired(edge, t)
    BY <2>2 DEF Expired
  <2>. QED BY <1>3, <2>1, <2>2, <2>3, <2>5, <2>6 DEF Counts, ReadWeight
<1>. QED BY <1>2, <1>3

-----------------------------------------------------------------------------
(* The theorems *)

LEMMA InitInv ==
  ASSUME Init
  PROVE  TrustInv
<1>1. TypeOK
  BY KeysType, BoundsType DEF Init, TypeOK, NoEdge, Edge, Never
<1>2. KeysActForTheirIdentity
  BY KeysType DEF Init, KeysActForTheirIdentity
<1>3. EdgesJoinTwo
  BY DEF Init, EdgesJoinTwo, NoEdge
<1>4. VotesAreOfOthers
  BY DEF Init, VotesAreOfOthers
<1>5. ClaimsAreFinite
  BY FS_EmptySet DEF Init, ClaimsAreFinite
<1>6. MintsAreBacked /\ MintedByNow
  BY DEF Init, MintsAreBacked, MintedByNow
<1>7. RateIsKept
  <2>. SUFFICES ASSUME NEW k \in Keys, NEW t \in 0 .. MaxTime + IssuanceWindow
                PROVE  Cardinality({lot \in issued : /\ lot.to = k
                                                     /\ t - IssuanceWindow < lot.time
                                                     /\ lot.time <= t}) <= MaxPerWindow
    BY DEF RateIsKept
  <2>1. {lot \in issued : /\ lot.to = k
                          /\ t - IssuanceWindow < lot.time /\ lot.time <= t} = {}
    BY DEF Init
  <2>. HIDE DEF Init
  <2>2. Cardinality({}) = 0 /\ 0 <= MaxPerWindow
    BY FS_EmptySet, PolicyType
  <2>. QED BY <2>1, <2>2
<1>. QED BY <1>1, <1>2, <1>3, <1>4, <1>5, <1>6, <1>7 DEF TrustInv

LEMMA NextInv ==
  ASSUME TrustInv, [Next]_vars
  PROVE  TrustInv'
<1>1. CASE KeyEvent
  BY <1>1, CreateIdentityStep, RotateStep DEF KeyEvent
<1>2. CASE VouchEvent
  <2>1. PICK by \in Keys, subject \in Keys, t \in Times :
          \/ \E w \in Weights, x \in Expiries \cup {Never} :
               \/ Vouch(by, subject, w, x, t)
               \/ RejectVouch(by, subject, w, x, t)
          \/ \E n \in 1 .. Len(feed) : Revoke(by, subject, n, t)
    BY <1>2 DEF VouchEvent
  <2>2. 1 .. Len(feed) \subseteq Nat
    OBVIOUS
  <2>. QED BY <2>1, <2>2, VouchStep, RejectVouchStep, RevokeStep
<1>3. CASE ClaimEvent
  BY <1>3, ClaimStep, AttestStep, MintStep DEF ClaimEvent
<1>4. CASE UNCHANGED vars
  <2>1. TypeOK' /\ KeysActForTheirIdentity' /\ EdgesJoinTwo'
    BY <1>4 DEF TrustInv, vars, keyVars, claimVars, TypeOK, KeysActForTheirIdentity,
                EdgesJoinTwo
  <2>2. VotesAreOfOthers'
    BY <1>4, VotesStay DEF TrustInv, vars, keyVars, claimVars, Exists
  <2>3. now' \in Nat /\ now <= now'
    BY <1>4 DEF TrustInv, vars, TypeOK
  <2>4. ClaimsAreFinite' /\ MintsAreBacked' /\ MintedByNow' /\ RateIsKept'
    BY <1>4, <2>3, MintsStay DEF TrustInv, vars, claimVars
  <2>. QED BY <2>1, <2>2, <2>4 DEF TrustInv
<1>. QED BY <1>1, <1>2, <1>3, <1>4 DEF Next

\* Every reachable state satisfies the invariant.
THEOREM InvariantHolds == Spec => []TrustInv
<1>. QED BY InitInv, NextInv, PTL DEF Spec

\* Every variable keeps its type.
THEOREM TypeCorrect == Spec => []TypeOK
<1>1. TrustInv => TypeOK
  BY DEF TrustInv
<1>. QED BY InvariantHolds, <1>1, PTL

\* No order of creations and rotations lets a retired key act: IdentityUpdate takes
\* the old key out of active_to_root, and only the old key acted for the root.
THEOREM RetiredKeysActForNobody == Spec => []KeysActForTheirIdentity
<1>1. TrustInv => KeysActForTheirIdentity
  BY DEF TrustInv
<1>. QED BY InvariantHolds, <1>1, PTL

\* However keys rotate, a claim has votes of other identities only, one of each,
\* and each of them had a vouch from somebody else.
THEOREM ClaimsAreVotedOnByOthers == Spec => []VotesAreOfOthers
<1>1. TrustInv => VotesAreOfOthers
  BY DEF TrustInv
<1>. QED BY InvariantHolds, <1>1, PTL

\* Every lot is the only one of an approved claim of its owner.
THEOREM LotsAreBacked == Spec => []MintsAreBacked
<1>1. TrustInv => MintsAreBacked
  BY DEF TrustInv
<1>. QED BY InvariantHolds, <1>1, PTL

\* No window of any place exceeds the policy's number of issuances, though the
\* engine only counts those of the window that ends at the event.
THEOREM IssuancesKeepTheRate == Spec => []RateIsKept
<1>1. TrustInv => RateIsKept
  BY DEF TrustInv
<1>. QED BY InvariantHolds, <1>1, PTL

\* While no identity was rotated, and of whoever only applied vouches of a positive
\* weight speak, a client that read them all shows the weight the engine sums up, at
\* every later time, and the engine's verdict when it compares with the policy's
\* threshold.
THEOREM EligibilityIsShown == Spec => []EligibilityIsTrue
<1>1. Init => EdgesFollowFeed
  <2>. SUFFICES ASSUME Init PROVE EdgesFollowFeed
    OBVIOUS
  <2>1. \A k \in Keys : Exists(k) => rootOf[k] = k
    BY KeysType DEF Init, Exists
  <2>2. \A v, s \in Keys : EdgeFollowsFeed(v, s)
    BY DEF Init, EdgeFollowsFeed, NoEdge, AllSaid
  <2>. QED BY <2>1, <2>2 DEF EdgesFollowFeed
<1>2. TrustInv /\ EdgesFollowFeed /\ [Next]_vars => EdgesFollowFeed'
  BY FollowStep
<1>3. TrustInv /\ EdgesFollowFeed => EligibilityIsTrue
  <2>. SUFFICES ASSUME TrustInv, EdgesFollowFeed, Rotated = {}, NEW s \in Keys, Exists(s),
                       \A n \in About(s) :
                         feed[n].applied /\ (feed[n].kind = "Vouch" => feed[n].weight > 0),
                       NEW read \in Reads, NEW t \in now .. MaxTime + 1,
                       About(s) \subseteq read
                PROVE  /\ ShownWeight(read, s, t) = Score(s, t)
                       /\ \A answered \in BOOLEAN :
                            OnboardingThreshold(answered) = ProviderThreshold
                              => (ShownEligible(read, answered, s, t) <=> OfferOk(s, t))
    BY DEF EligibilityIsTrue
  <2>1. t \in Int
    OBVIOUS
  <2>2. rootOf[s] = s /\ s # None /\ \A v \in Keys : EdgeFollowsFeed(v, s)
    BY KeysType DEF EdgesFollowFeed, AllApplied, About
  <2>. DEFINE S == {v \in Keys : Counts(vouches[<<v, s>>], t)}
              T == {v \in Keys : ActiveVouch(read, v, s, t) # 0}
              f == [v \in S |-> vouches[<<v, s>>].weight]
              g == [v \in T |-> ReadWeight(feed[ActiveVouch(read, v, s, t)].weight)]
  <2>3. \A v \in Keys :
          /\ ActiveVouch(read, v, s, t) # 0 <=> Counts(vouches[<<v, s>>], t)
          /\ ActiveVouch(read, v, s, t) # 0 =>
               ReadWeight(feed[ActiveVouch(read, v, s, t)].weight)
                 = vouches[<<v, s>>].weight
    BY <2>1, <2>2, ActiveVouchCounts
  <2>4. S = T
    BY <2>3
  <2>5. f = g
    BY <2>3, <2>4
  <2>6. Score(s, t) = SumFunction(f)
    BY <2>1, ScoreIsSum
  <2>7. ShownWeight(read, s, t) = SumFunction(g)
    BY <2>1, ShownIsSum
  <2>. HIDE DEF f, g
  <2>. QED BY <2>2, <2>5, <2>6, <2>7 DEF ShownEligible, OfferOk
<1>. QED BY <1>1, <1>2, <1>3, InvariantHolds, PTL DEF Spec
=============================================================================
