--------------------------- MODULE HandoffProofs ---------------------------
(***************************************************************************)
(* Proofs about KeySession and Handoff, for every set of tabs, keys,       *)
(* orders and texts and every bound: the keys a browser remembers belong   *)
(* together, a registration signs in as the identity the node knows, what  *)
(* is signed was checked at the click, and signed events stay in the queue *)
(* until the node has them or the user has removed them.                   *)
(***************************************************************************)
EXTENDS Handoff, TLAPS

-----------------------------------------------------------------------------
(* Keys and sessions *)

\* A pair matches, or is one that was left without its public key.
Sound(pair) == Matches(pair) \/ pair \in torn

\* What the node has accepted is an identity.
AcceptedAreKnown == \A r \in registering : r.at = "accepted" => r.key \in identities

\* The pairs that reach the remembered session come from keys, from the vault, from
\* the backup files or from the secret that is being typed.
KeyInv ==
  /\ AuthTypeOK
  /\ StoredPairMatches
  /\ Sound(vault)
  /\ \A pair \in backups : Sound(pair)
  /\ \A u \in unlocks : Sound(u.pair)
  /\ AcceptedAreKnown

LEMMA PairsOfKeys ==
  /\ NoPair \in Pairs
  /\ \A k \in Keys \cup {None} : Pair(k, k) \in Pairs /\ Matches(Pair(k, k))
  /\ Matches(NoPair)
BY DEF NoPair, Pair, Pairs, Matches

LEMMA ActiveIsPair ==
  ASSUME AuthTypeOK, NEW t \in Tabs
  PROVE  ActiveSession(t) \in Pairs /\ settings[t] \in Pairs
BY PairsOfKeys DEF AuthTypeOK, ActiveSession

LEMMA KeyInit == AuthInit => KeyInv
<1>. SUFFICES ASSUME AuthInit PROVE KeyInv
  OBVIOUS
<1>1. AuthTypeOK
  BY PairsOfKeys DEF AuthInit, AuthTypeOK
<1>. QED BY <1>1, PairsOfKeys
     DEF AuthInit, KeyInv, StoredPairMatches, Sound, AcceptedAreKnown

\* Saving a pair leaves the session well typed and, when the pair is sound, matching.
LEMMA Saved ==
  ASSUME AuthTypeOK, NEW t \in Tabs, NEW pair \in Pairs, NEW remember \in BOOLEAN,
         SaveSession(t, pair, remember)
  PROVE  /\ stored' \in Pairs /\ mirror' \in [Tabs -> Pairs]
         /\ stored' = pair \/ Matches(stored')
         /\ mirror'[t] = pair
BY PairsOfKeys DEF AuthTypeOK, SaveSession

LEMMA TypingKeeps ==
  ASSUME KeyInv, NEW t \in Tabs, NEW k \in Keys, TypeSecret(t, k)
  PROVE  KeyInv'
<1>1. stored' \in Pairs /\ stored'.secret = k
  BY DEF KeyInv, AuthTypeOK, TypeSecret, Pairs
<1>2. \A d \in typing' : d \in typing \/ d = [tab |-> t, key |-> k]
  BY DEF TypeSecret
<1>3. AuthTypeOK'
  BY <1>1, <1>2 DEF KeyInv, AuthTypeOK, TypeSecret, pageVars
<1>4. \E d \in typing' : d.key = stored'.secret
  <2>1. [tab |-> t, key |-> k] \in typing' /\ [tab |-> t, key |-> k].key = k
    BY DEF TypeSecret
  <2>. QED BY <1>1, <2>1
<1>. QED BY <1>3, <1>4
     DEF KeyInv, TypeSecret, StoredPairMatches, Sound, AcceptedAreKnown, pageVars

LEMMA DerivingKeeps ==
  ASSUME KeyInv, NEW d \in typing, SecretDerived(d)
  PROVE  KeyInv'
<1>1. d.tab \in Tabs /\ d.key \in Keys
  BY DEF KeyInv, AuthTypeOK
<1>2. stored' \in Pairs /\ mirror' \in [Tabs -> Pairs] /\ Matches(stored')
  BY <1>1, PairsOfKeys, Saved DEF KeyInv, SecretDerived
<1>3. AuthTypeOK'
  BY <1>2 DEF KeyInv, AuthTypeOK, SecretDerived, pageVars
<1>. QED BY <1>2, <1>3
     DEF KeyInv, SecretDerived, StoredPairMatches, Sound, AcceptedAreKnown, pageVars

\* When derivations end without a public key, what they leave stored is known.
LEMMA LeavingKeeps ==
  ASSUME KeyInv, NEW gone \in SUBSET typing, typing' = typing \ gone,
         torn' = torn \cup LeftBy(gone), UNCHANGED stored
  PROVE  StoredPairMatches' /\ torn' \subseteq Pairs
<1>1. torn' \subseteq Pairs
  BY DEF KeyInv, AuthTypeOK, LeftBy, Unmatched
<1>2. ASSUME NEW d \in typing, d.key = stored.secret, ~Matches(stored)
      PROVE  stored \in torn' \/ d \in typing'
  BY <1>2 DEF LeftBy, Unmatched
<1>. QED BY <1>1, <1>2 DEF KeyInv, StoredPairMatches

LEMMA FailingKeeps ==
  ASSUME KeyInv, NEW d \in typing, DerivationFails(d)
  PROVE  KeyInv'
<1>1. StoredPairMatches' /\ torn' \subseteq Pairs
  BY LeavingKeeps DEF DerivationFails
<1>2. AuthTypeOK'
  BY <1>1 DEF KeyInv, AuthTypeOK, DerivationFails, pageVars
<1>. QED BY <1>1, <1>2
     DEF KeyInv, DerivationFails, Sound, AcceptedAreKnown, pageVars

\* A sign-in begins with a sound pair.
LEMMA BeginKeeps ==
  ASSUME KeyInv, NEW t \in Tabs, NEW pair \in Pairs, NEW keep \in Keepings,
         Sound(pair), Begin(t, pair, keep)
  PROVE  KeyInv'
<1>1. \A u \in unlocks' : u \in unlocks \/ u = [tab |-> t, pair |-> pair, keep |-> keep]
  BY DEF Begin
<1>2. AuthTypeOK'
  BY <1>1 DEF KeyInv, AuthTypeOK, Begin, pageVars
<1>3. \A u \in unlocks' : Sound(u.pair)
  BY <1>1 DEF KeyInv
<1>. QED BY <1>2, <1>3
     DEF KeyInv, Begin, StoredPairMatches, Sound, AcceptedAreKnown, pageVars

LEMMA UnlockedKeeps ==
  ASSUME KeyInv, NEW u \in unlocks, Unlocked(u)
  PROVE  KeyInv'
<1>1. u.tab \in Tabs /\ u.pair \in Pairs /\ Sound(u.pair)
  BY DEF KeyInv, AuthTypeOK
<1>2. /\ stored' \in Pairs /\ mirror' \in [Tabs -> Pairs]
      /\ stored' = stored \/ stored' = u.pair \/ Matches(stored')
  <2>1. CASE UNCHANGED <<stored, mirror>>
    BY <2>1 DEF KeyInv, AuthTypeOK
  <2>2. CASE SaveSession(u.tab, u.pair, u.keep = "browser")
    BY <1>1, <2>2, PairsOfKeys DEF KeyInv, AuthTypeOK, SaveSession
  <2>. QED BY <2>1, <2>2 DEF Unlocked
<1>3. AuthTypeOK'
  BY <1>1, <1>2 DEF KeyInv, AuthTypeOK, Unlocked
<1>4. StoredPairMatches'
  BY <1>1, <1>2 DEF KeyInv, Unlocked, StoredPairMatches, Sound
<1>. QED BY <1>3, <1>4 DEF KeyInv, Unlocked, Sound, AcceptedAreKnown

\* The settings page may take a pair that awaits its public key; torn says so.
LEMMA SettingsKeep ==
  ASSUME KeyInv, NEW t \in Tabs,
         \/ OpenSettings(t)
         \/ \E pair \in {settings[t], ActiveSession(t)} : ExportBackup(t, pair) \/ SetupVault(t, pair)
  PROVE  KeyInv'
<1>1. settings[t] \in Pairs /\ ActiveSession(t) \in Pairs
  BY ActiveIsPair DEF KeyInv
<1>2. CASE OpenSettings(t)
  <2>1. AuthTypeOK'
    BY <1>1, <1>2 DEF KeyInv, AuthTypeOK, OpenSettings
  <2>. QED BY <1>2, <2>1
       DEF KeyInv, OpenSettings, StoredPairMatches, Sound, AcceptedAreKnown
<1>3. ASSUME NEW pair \in Pairs, ExportBackup(t, pair) PROVE KeyInv'
  <2>1. settings' \in [Tabs -> Pairs] /\ backups' \subseteq Pairs /\ torn' \subseteq Pairs
    BY <1>3 DEF KeyInv, AuthTypeOK, ExportBackup, InSettings, Unmatched
  <2>2. AuthTypeOK'
    BY <1>3, <2>1 DEF KeyInv, AuthTypeOK, ExportBackup
  <2>3. \A p \in backups' : Matches(p) \/ p \in torn'
    BY <1>3 DEF KeyInv, ExportBackup, Sound, Unmatched
  <2>. QED BY <1>3, <2>2, <2>3
       DEF KeyInv, ExportBackup, StoredPairMatches, Sound, AcceptedAreKnown
<1>4. ASSUME NEW pair \in Pairs, SetupVault(t, pair) PROVE KeyInv'
  <2>1. \A v \in seals' : v \in seals \/ v = [tab |-> t, pair |-> pair]
    BY <1>4 DEF SetupVault
  <2>2. settings' \in [Tabs -> Pairs]
    BY <1>4 DEF KeyInv, AuthTypeOK, SetupVault, InSettings
  <2>3. AuthTypeOK'
    BY <1>4, <2>1, <2>2 DEF KeyInv, AuthTypeOK, SetupVault
  <2>. QED BY <1>4, <2>3
       DEF KeyInv, SetupVault, StoredPairMatches, Sound, AcceptedAreKnown
<1>. QED BY <1>1, <1>2, <1>3, <1>4

LEMMA VaultKeeps ==
  ASSUME KeyInv,
         RemoveVault \/ \E v \in seals : VaultSealed(v) \/ SetupFails(v)
  PROVE  KeyInv'
<1>1. CASE RemoveVault
  <2>1. AuthTypeOK'
    BY <1>1, PairsOfKeys DEF KeyInv, AuthTypeOK, RemoveVault, pageVars
  <2>. QED BY <1>1, <2>1, PairsOfKeys
       DEF KeyInv, RemoveVault, StoredPairMatches, Sound, AcceptedAreKnown, pageVars
<1>2. ASSUME NEW v \in seals, VaultSealed(v) PROVE KeyInv'
  <2>1. torn' \subseteq Pairs /\ v.pair \in Pairs
    BY <1>2 DEF KeyInv, AuthTypeOK, VaultSealed, Unmatched
  <2>2. AuthTypeOK'
    BY <1>2, <2>1 DEF KeyInv, AuthTypeOK, VaultSealed, pageVars
  <2>3. Sound(vault)' /\ torn \subseteq torn'
    BY <1>2 DEF VaultSealed, Sound, Unmatched
  <2>. QED BY <1>2, <2>2, <2>3
       DEF KeyInv, VaultSealed, StoredPairMatches, Sound, AcceptedAreKnown, pageVars
<1>3. ASSUME NEW v \in seals, SetupFails(v) PROVE KeyInv'
  <2>1. AuthTypeOK'
    BY <1>3 DEF KeyInv, AuthTypeOK, SetupFails, pageVars
  <2>. QED BY <1>3, <2>1
       DEF KeyInv, SetupFails, StoredPairMatches, Sound, AcceptedAreKnown, pageVars
<1>. QED BY <1>1, <1>2, <1>3

LEMMA TabKeeps ==
  ASSUME KeyInv, NEW t \in Tabs, SignOut(t) \/ CloseTab(t)
  PROVE  KeyInv'
<1>1. CASE SignOut(t)
  <2>1. AuthTypeOK'
    BY <1>1, PairsOfKeys DEF KeyInv, AuthTypeOK, SignOut, pageVars
  <2>. QED BY <1>1, <2>1, PairsOfKeys
       DEF KeyInv, SignOut, StoredPairMatches, Sound, AcceptedAreKnown, pageVars
<1>2. CASE CloseTab(t)
  <2>. DEFINE gone == {d \in typing : d.tab = t}
  <2>1. gone \in SUBSET typing /\ typing' = typing \ gone /\ torn' = torn \cup LeftBy(gone)
    BY <1>2 DEF CloseTab
  <2>2. StoredPairMatches' /\ torn' \subseteq Pairs
    <3>. HIDE DEF gone
    <3>. QED BY <1>2, <2>1, LeavingKeeps DEF CloseTab
  <2>3. AuthTypeOK'
    BY <1>2, <2>2, PairsOfKeys DEF KeyInv, AuthTypeOK, CloseTab
  <2>. QED BY <1>2, <2>2, <2>3
       DEF KeyInv, CloseTab, Sound, AcceptedAreKnown
<1>. QED BY <1>1, <1>2

LEMMA RegistrationKeeps ==
  ASSUME KeyInv,
         \/ \E t \in Tabs : (\E k \in Keys : GenerateKeys(t, k)) \/ Register(t)
         \/ \E r \in registering : \/ RegisterAnswered(r) \/ RegisterLost(r)
                                   \/ \E ok \in BOOLEAN : NodeRegisters(r, ok)
  PROVE  KeyInv'
<1>1. ASSUME NEW t \in Tabs, NEW k \in Keys, GenerateKeys(t, k) PROVE KeyInv'
  <2>1. AuthTypeOK'
    BY <1>1 DEF KeyInv, AuthTypeOK, GenerateKeys, pageVars
  <2>. QED BY <1>1, <2>1
       DEF KeyInv, GenerateKeys, StoredPairMatches, Sound, AcceptedAreKnown, pageVars
<1>2. ASSUME NEW t \in Tabs, Register(t) PROVE KeyInv'
  <2>1. \A r \in registering' :
          r \in registering \/ r = [tab |-> t, key |-> keyPair[t], at |-> "sent"]
    BY <1>2 DEF Register
  <2>2. keyPair[t] \in Keys
    BY <1>2 DEF KeyInv, AuthTypeOK, Register, pageVars
  <2>3. AuthTypeOK'
    BY <1>2, <2>1, <2>2 DEF KeyInv, AuthTypeOK, Register, pageVars
  <2>4. AcceptedAreKnown'
    BY <1>2, <2>1 DEF KeyInv, AcceptedAreKnown, Register
  <2>. QED BY <1>2, <2>3, <2>4
       DEF KeyInv, Register, StoredPairMatches, Sound, pageVars
<1>3. ASSUME NEW r \in registering, RegisterAnswered(r) PROVE KeyInv'
  <2>1. r.tab \in Tabs /\ r.key \in Keys
    BY DEF KeyInv, AuthTypeOK
  <2>2. /\ stored' \in Pairs /\ mirror' \in [Tabs -> Pairs]
        /\ Matches(stored') \/ UNCHANGED stored
    <3>1. CASE UNCHANGED <<stored, mirror>>
      BY <3>1 DEF KeyInv, AuthTypeOK
    <3>2. CASE SaveSession(r.tab, Pair(r.key, r.key), TRUE)
      BY <2>1, <3>2, PairsOfKeys, Saved DEF KeyInv
    <3>. QED BY <1>3, <3>1, <3>2 DEF RegisterAnswered, RegisteredKey
  <2>3. AuthTypeOK'
    BY <1>3, <2>2 DEF KeyInv, AuthTypeOK, RegisterAnswered, pageVars
  <2>. QED BY <1>3, <2>2, <2>3
       DEF KeyInv, RegisterAnswered, StoredPairMatches, Sound, AcceptedAreKnown, pageVars
<1>4. ASSUME NEW r \in registering, RegisterLost(r) PROVE KeyInv'
  <2>1. AuthTypeOK'
    BY <1>4 DEF KeyInv, AuthTypeOK, RegisterLost, pageVars
  <2>. QED BY <1>4, <2>1
       DEF KeyInv, RegisterLost, StoredPairMatches, Sound, AcceptedAreKnown, pageVars
<1>5. ASSUME NEW r \in registering, NEW ok \in BOOLEAN, NodeRegisters(r, ok) PROVE KeyInv'
  <2>. DEFINE answered == [r EXCEPT !.at = IF ok THEN "accepted" ELSE "rejected"]
  <2>1. registering' = (registering \ {r}) \cup {answered}
    BY <1>5 DEF NodeRegisters
  <2>2. answered.tab = r.tab /\ answered.key = r.key /\ (answered.at = "accepted" => ok)
    BY <1>5 DEF KeyInv, AuthTypeOK, NodeRegisters, pageVars
  <2>3. identities' = IF ok THEN identities \cup {r.key} ELSE identities
    BY <1>5 DEF NodeRegisters
  <2>. HIDE DEF answered
  <2>4. AuthTypeOK'
    BY <1>5, <2>1, <2>2, <2>3 DEF KeyInv, AuthTypeOK, NodeRegisters, pageVars
  <2>5. AcceptedAreKnown'
    BY <2>1, <2>2, <2>3 DEF KeyInv, AcceptedAreKnown
  <2>. QED BY <1>5, <2>4, <2>5
       DEF KeyInv, NodeRegisters, StoredPairMatches, Sound, pageVars
<1>. QED BY <1>1, <1>2, <1>3, <1>4, <1>5

LEMMA AuthStep == KeyInv /\ [AuthNext]_authVars => KeyInv'
<1>. SUFFICES ASSUME KeyInv, [AuthNext]_authVars PROVE KeyInv'
  OBVIOUS
<1>. "browser" \in Keepings
  BY DEF Keepings
<1>1. ASSUME NEW t \in Tabs, NEW k \in Keys, NEW keep \in Keepings, SignIn(t, k, keep)
      PROVE  KeyInv'
  <2>1. Sound(Pair(k, k)) /\ Pair(k, k) \in Pairs
    BY PairsOfKeys DEF Sound
  <2>. QED BY <1>1, <2>1, BeginKeeps DEF SignIn
<1>2. ASSUME NEW t \in Tabs, NEW pair \in backups, NEW keep \in Keepings,
             RestoreBackup(t, pair, keep)
      PROVE  KeyInv'
  <2>1. Sound(pair) /\ pair \in Pairs
    BY DEF KeyInv, AuthTypeOK
  <2>. QED BY <1>2, <2>1, BeginKeeps DEF RestoreBackup
<1>3. ASSUME NEW t \in Tabs, UseSavedKey(t) PROVE KeyInv'
  <2>1. stored.secret \in Keys \cup {None}
    BY DEF KeyInv, AuthTypeOK, Pairs
  <2>. QED BY <1>3, <2>1, PairsOfKeys, BeginKeeps DEF UseSavedKey, Sound
<1>4. ASSUME NEW t \in Tabs, UnlockVault(t) PROVE KeyInv'
  BY <1>4, BeginKeeps DEF KeyInv, AuthTypeOK, UnlockVault
<1>5. ASSUME NEW u \in unlocks, UnlockFails(u) PROVE KeyInv'
  <2>1. AuthTypeOK'
    BY <1>5 DEF KeyInv, AuthTypeOK, UnlockFails, pageVars
  <2>. QED BY <1>5, <2>1
       DEF KeyInv, UnlockFails, StoredPairMatches, Sound, AcceptedAreKnown, pageVars
<1>6. CASE UNCHANGED authVars
  <2>1. AuthTypeOK'
    BY <1>6 DEF KeyInv, AuthTypeOK, authVars, pageVars
  <2>. QED BY <1>6, <2>1
       DEF KeyInv, authVars, StoredPairMatches, Sound, AcceptedAreKnown, pageVars
<1>7. CASE AuthUser
  BY <1>1, <1>2, <1>3, <1>4, <1>7, TypingKeeps, SettingsKeep, VaultKeeps, TabKeeps,
     RegistrationKeeps
  DEF AuthUser
<1>8. CASE AuthSettling
  BY <1>5, <1>8, DerivingKeeps, FailingKeeps, VaultKeeps, UnlockedKeeps, RegistrationKeeps
  DEF AuthSettling
<1>. QED BY <1>6, <1>7, <1>8 DEF AuthNext

\* The keys of a browser keep to their invariant, for any tabs and keys.
THEOREM KeysKeepTheirInvariant == Spec => []KeyInv
<1>1. Init => KeyInv
  BY KeyInit DEF Init
<1>2. KeyInv /\ [Next]_vars => KeyInv'
  <2>1. [Next]_vars => [AuthNext]_authVars
    BY DEF Next, vars
  <2>. QED BY <2>1, AuthStep
<1>. QED BY <1>1, <1>2, PTL DEF Spec

\* The remembered session is a pair of one key's halves, except while its public key
\* is derived or when it is a pair that was left without it: whatever sign-ins, unlocks,
\* exports, restores and registrations of how many tabs interleave, no other mixture of
\* two keys comes about.
THEOREM RememberedPairMatches == Spec => []StoredPairMatches
<1>1. KeyInv => StoredPairMatches
  BY DEF KeyInv
<1>. QED BY <1>1, KeysKeepTheirInvariant, PTL

\* A tab whose registration was accepted signs with a key the node knows.
THEOREM RegistrationsSignIn == Spec => RegistersIdentity
<1>1. KeyInv /\ [Next]_vars =>
        [\A r \in registering : RegisterAnswered(r) /\ r.at = "accepted" =>
           mirror'[r.tab].public \in identities]_authVars
  <2>. SUFFICES ASSUME KeyInv, NEW r \in registering, RegisterAnswered(r), r.at = "accepted"
                PROVE  mirror'[r.tab].public \in identities
    OBVIOUS
  <2>1. r.tab \in Tabs /\ mirror \in [Tabs -> Pairs] /\ r.key \in identities
    BY DEF KeyInv, AuthTypeOK, AcceptedAreKnown
  <2>2. mirror'[r.tab] = Pair(r.key, r.key)
    BY <2>1 DEF RegisterAnswered, SaveSession, RegisteredKey
  <2>. QED BY <2>1, <2>2 DEF Pair
<1>. QED BY <1>1, KeysKeepTheirInvariant, PTL DEF Spec, RegistersIdentity

-----------------------------------------------------------------------------
(* Signed events and their queue *)

\* What the queue, the panels and the flights are made of.
Entries == [id : Nat, event : Nat, failed : BOOLEAN]
Flights == [tab : Tabs, event : Nat, how : {"queue", "submit", "queued"}, id : Nat,
            at : {"policy", "sent", "accepted", "rejected"}, shown : BOOLEAN]
IsASeq(s) == s \in Seq({s[i] : i \in DOMAIN s})

HandoffType ==
  /\ IsASeq(signed)
  /\ queue \subseteq Entries /\ items \in [Tabs -> SUBSET Entries]
  /\ flights \subseteq Flights
  /\ clock \in Nat /\ queued \subseteq [id : Nat, event : Nat]

\* The identity of an entry, or of the entry a panel submits.
Ref(q) == [id |-> q.id, event |-> q.event]

\* A signed event that is not in the queue yet.
Direct(f) == f.how # "queued"

\* Whatever a queue or a panel holds, however old, was queued once, ...
Entered ==
  /\ \A q \in queue : Ref(q) \in queued
  /\ \A t \in Tabs : \A q \in items[t] : Ref(q) \in queued
  /\ \A f \in flights : ~Direct(f) => Ref(f) \in queued
  /\ \A x \in removed : \E e \in queued : e.event = x

\* ... and under one id; ...
QueuedOnce ==
  /\ \A d, e \in queued : d.event = e.event => d = e
  /\ \A e \in queued : e.event <= Len(signed)

\* ... what was not queued is in one flight, ...
Unqueued ==
  /\ \A f \in flights : f.event <= Len(signed)
  /\ \A f \in flights : Direct(f) => \A e \in queued : e.event # f.event
  /\ \A f, g \in flights : Direct(f) /\ Direct(g) /\ f.event = g.event => f = g

\* ... and what the node is said to have accepted it has.
AcceptedAreLogged == \A f \in flights : f.at = "accepted" => f.event \in log

QueueInv ==
  HandoffType /\ Entered /\ QueuedOnce /\ Unqueued /\ AcceptedAreLogged /\ QueueKeepsEvents

-----------------------------------------------------------------------------
(* Lemmas on sequences, entries and flights *)

LEMMA Appending ==
  ASSUME NEW s, IsASeq(s), NEW x
  PROVE  /\ IsASeq(Append(s, x)) /\ Len(s) \in Nat /\ Len(Append(s, x)) = Len(s) + 1
         /\ DOMAIN Append(s, x) = 1 .. Len(s) + 1 /\ DOMAIN s = 1 .. Len(s)
         /\ \A i \in 1 .. Len(s) : Append(s, x)[i] = s[i]
         /\ Append(s, x)[Len(s) + 1] = x
<1>. DEFINE S == {s[i] : i \in DOMAIN s} \cup {x}
            r == Append(s, x)
<1>1. s \in Seq(S) /\ x \in S
  BY DEF IsASeq
<1>2. /\ r \in Seq(S) /\ Len(r) = Len(s) + 1 /\ Len(s) \in Nat
      /\ DOMAIN r = 1 .. Len(s) + 1 /\ DOMAIN s = 1 .. Len(s)
      /\ \A i \in 1 .. Len(s) : r[i] = s[i]
      /\ r[Len(s) + 1] = x
  BY ONLY <1>1
<1>3. r \in Seq({r[i] : i \in DOMAIN r})
  BY ONLY <1>2
<1>. QED BY <1>2, <1>3 DEF IsASeq

LEMMA RefsAreEqual ==
  ASSUME NEW p, NEW q
  PROVE  (Ref(p) = Ref(q)) <=> (p.id = q.id /\ p.event = q.event)
BY DEF Ref

\* Marking an entry changes nothing but its mark.
LEMMA Marking ==
  ASSUME NEW id, queue \subseteq Entries
  PROVE  /\ MarkFailed(id) \subseteq Entries
         /\ \A q \in MarkFailed(id) : \E p \in queue : p.id = q.id /\ p.event = q.event
         /\ \A p \in queue : \E q \in MarkFailed(id) : p.id = q.id /\ p.event = q.event
<1>. DEFINE M(q) == IF q.id = id THEN [q EXCEPT !.failed = TRUE] ELSE q
<1>1. \A q \in queue : M(q) \in Entries /\ M(q).id = q.id /\ M(q).event = q.event
  BY DEF Entries
<1>2. MarkFailed(id) = {M(q) : q \in queue}
  BY DEF MarkFailed
<1>. HIDE DEF M
<1>. QED BY <1>1, <1>2

\* Flights that come from flights keep what the queue needs of them.
LEMMA FlightsFollow ==
  ASSUME QueueInv, UNCHANGED <<signed, queued>>, log \subseteq log',
         \A f \in flights' :
           /\ f \in Flights
           /\ \E g \in flights :
                /\ f.event = g.event /\ f.how = g.how /\ f.id = g.id
                /\ f.at = "accepted" => g.at = "accepted" \/ f.event \in log',
         \A f, g \in flights' : Direct(f) /\ Direct(g) /\ f.event = g.event => f = g
  PROVE  /\ flights' \subseteq Flights /\ Unqueued' /\ AcceptedAreLogged'
         /\ \A f \in flights' : ~Direct(f) => Ref(f) \in queued'
<1>1. Unqueued'
  BY DEF QueueInv, Unqueued, Direct
<1>2. AcceptedAreLogged'
  BY DEF QueueInv, AcceptedAreLogged
<1>3. ASSUME NEW f \in flights', ~Direct(f) PROVE Ref(f) \in queued'
  <2>1. PICK g \in flights : f.event = g.event /\ f.how = g.how /\ f.id = g.id
    OBVIOUS
  <2>2. Ref(g) \in queued
    BY <1>3, <2>1 DEF QueueInv, Entered, Direct
  <2>. QED BY <2>1, <2>2, RefsAreEqual
<1>. QED BY <1>1, <1>2, <1>3

\* Flights that end, with what is left of the queue and the panels.
LEMMA FlightsEnd ==
  ASSUME QueueInv, UNCHANGED <<signed, queued>>, log \subseteq log', flights' \subseteq flights
  PROVE  /\ flights' \subseteq Flights /\ Unqueued' /\ AcceptedAreLogged'
         /\ \A f \in flights' : ~Direct(f) => Ref(f) \in queued'
<1>1. \A f \in flights' : f \in Flights
  BY DEF QueueInv, HandoffType
<1>2. \A f, g \in flights' : Direct(f) /\ Direct(g) /\ f.event = g.event => f = g
  BY DEF QueueInv, Unqueued
<1>. QED BY <1>1, <1>2, FlightsFollow

\* A queue of the same entries, whatever their marks, keeps its promise.
LEMMA SameEntriesKept ==
  ASSUME QueueKeepsEvents, UNCHANGED <<queued, removed>>, log \subseteq log',
         \A p \in queue : \E q \in queue' : p.id = q.id /\ p.event = q.event,
         \A q \in queue' : \E p \in queue : p.id = q.id /\ p.event = q.event
  PROVE  QueueKeepsEvents'
<1>. SUFFICES ASSUME NEW e \in queued, \A d \in queued : d.id = e.id => d = e
              PROVE  /\ (\E q \in queue' : q.event = e.event) \/ e.event \in log' \cup removed
                     /\ e.event \in removed => ~ \E q \in queue' : q.event = e.event
  BY DEF QueueKeepsEvents
<1>1. /\ (\E q \in queue : q.event = e.event) \/ e.event \in log \cup removed
      /\ e.event \in removed => ~ \E q \in queue : q.event = e.event
  BY DEF QueueKeepsEvents
<1>. QED BY <1>1

\* A step that leaves the queue and what it is about alone.
LEMMA QueueUntouched ==
  ASSUME QueueInv,
         UNCHANGED <<signed, log, queue, clock, items, flights, queued, removed>>
  PROVE  QueueInv'
<1>1. HandoffType' /\ Entered' /\ QueuedOnce'
  BY DEF QueueInv, HandoffType, Entered, QueuedOnce
<1>2. Unqueued' /\ AcceptedAreLogged' /\ QueueKeepsEvents'
  BY DEF QueueInv, Unqueued, AcceptedAreLogged, QueueKeepsEvents
<1>. QED BY <1>1, <1>2 DEF QueueInv

-----------------------------------------------------------------------------
(* The steps of the wizard and of its submissions *)

LEMMA QueueInit == HandoffInit => QueueInv /\ EvidenceIsWhole
<1>. SUFFICES ASSUME HandoffInit PROVE QueueInv /\ EvidenceIsWhole
  OBVIOUS
<1>1. IsASeq(signed) /\ DOMAIN signed = {}
  BY DEF HandoffInit, IsASeq
<1>2. HandoffType /\ Entered /\ QueuedOnce
  BY <1>1 DEF HandoffInit, HandoffType, Entered, QueuedOnce
<1>3. Unqueued /\ AcceptedAreLogged /\ QueueKeepsEvents
  BY DEF HandoffInit, Unqueued, AcceptedAreLogged, QueueKeepsEvents
<1>. QED BY <1>1, <1>2, <1>3 DEF QueueInv, EvidenceIsWhole

\* A page that is opened again shows the queue; what it awaited is hidden from it.
LEMMA ReopenKeepsQueue ==
  ASSUME QueueInv, NEW t \in Tabs, NEW reload \in BOOLEAN, Reopen(t, reload)
  PROVE  QueueInv'
<1>. DEFINE Hidden(f) == [f EXCEPT !.shown = FALSE]
<1>0. flights \subseteq Flights
  BY DEF QueueInv, HandoffType
<1>1. \A f \in Flights : /\ Hidden(f) \in Flights /\ Hidden(f).event = f.event
                         /\ Hidden(f).how = f.how /\ Hidden(f).id = f.id
                         /\ Hidden(f).at = f.at /\ Hidden(f).tab = f.tab
  BY DEF Flights
<1>2. \A f \in flights' : \/ f \in flights /\ f.tab # t
                          \/ \E g \in flights : g.tab = t /\ f = Hidden(g)
  BY DEF Reopen
<1>. HIDE DEF Hidden
<1>3. \A f \in flights' :
        /\ f \in Flights
        /\ \E g \in flights :
             /\ f.event = g.event /\ f.how = g.how /\ f.id = g.id
             /\ f.at = "accepted" => g.at = "accepted" \/ f.event \in log'
  BY <1>0, <1>1, <1>2
<1>4. \A f, g \in flights' : Direct(f) /\ Direct(g) /\ f.event = g.event => f = g
  BY <1>0, <1>1, <1>2 DEF QueueInv, Unqueued, Direct
<1>5. UNCHANGED <<signed, log, queue, clock, queued, removed>>
  BY DEF Reopen
<1>6. /\ flights' \subseteq Flights /\ Unqueued' /\ AcceptedAreLogged'
      /\ \A f \in flights' : ~Direct(f) => Ref(f) \in queued'
  BY <1>3, <1>4, <1>5, FlightsFollow
<1>7. items' = [items EXCEPT ![t] = queue]
  BY DEF Reopen
<1>8. HandoffType'
  BY <1>5, <1>6, <1>7 DEF QueueInv, HandoffType
<1>9. \A u \in Tabs : items'[u] = items[u] \/ items'[u] = queue
  BY <1>7 DEF QueueInv, HandoffType
<1>10. Entered'
  BY <1>5, <1>6, <1>9 DEF QueueInv, Entered
<1>11. QueuedOnce' /\ QueueKeepsEvents'
  BY <1>5 DEF QueueInv, QueuedOnce, QueueKeepsEvents
<1>. QED BY <1>6, <1>8, <1>10, <1>11 DEF QueueInv

\* A click signs an event that is in no other flight.
LEMMA ClickKeepsQueue ==
  ASSUME QueueInv, NEW t \in Tabs, NEW kind, NEW how \in {"queue", "submit"},
         Click(t, kind, how)
  PROVE  QueueInv'
<1>. DEFINE n == Len(signed) + 1
            flight == [tab |-> t, event |-> n, how |-> how, id |-> 0, at |-> "policy",
                       shown |-> TRUE]
<1>1. PICK x : signed' = Append(signed, x)
  BY DEF Click
<1>2. IsASeq(signed') /\ Len(signed) \in Nat /\ Len(signed') = n
  BY <1>1, Appending DEF QueueInv, HandoffType
<1>3. /\ flights' = flights \cup {flight}
      /\ UNCHANGED <<log, queue, clock, items, queued, removed>>
  BY DEF Click
<1>4. flight \in Flights /\ flight.event = n /\ Direct(flight) /\ flight.at # "accepted"
  BY <1>2 DEF Flights, Direct
<1>. HIDE DEF flight
<1>5. HandoffType'
  BY <1>2, <1>3, <1>4 DEF QueueInv, HandoffType
<1>6. Entered'
  BY <1>3, <1>4 DEF QueueInv, Entered
<1>7. \A f \in flights : f \in Flights /\ f.event <= Len(signed)
  BY DEF QueueInv, HandoffType, Unqueued
<1>8. \A e \in queued : e.event \in Nat /\ e.event <= Len(signed)
  BY DEF QueueInv, HandoffType, QueuedOnce
<1>9. \A f \in Flights : f.event \in Nat
  BY DEF Flights
<1>10. QueuedOnce'
  BY <1>2, <1>3, <1>8 DEF QueueInv, QueuedOnce
<1>11. Unqueued'
  <2>1. \A f \in flights' : f.event <= Len(signed')
    BY <1>2, <1>3, <1>4, <1>7, <1>9
  <2>2. \A e \in queued : e.event # n
    BY <1>2, <1>8
  <2>3. \A f \in flights : f.event # n
    BY <1>2, <1>7, <1>9
  <2>. HIDE DEF n
  <2>. QED BY <1>3, <1>4, <2>1, <2>2, <2>3 DEF QueueInv, Unqueued
<1>12. AcceptedAreLogged' /\ QueueKeepsEvents'
  BY <1>3, <1>4 DEF QueueInv, AcceptedAreLogged, QueueKeepsEvents
<1>. QED BY <1>5, <1>6, <1>10, <1>11, <1>12 DEF QueueInv

\* A flight that goes on stays the only one of its event.
LEMMA AdvanceKeepsQueue ==
  ASSUME QueueInv, NEW f \in flights, NEW stage \in {"sent", "accepted", "rejected"},
         flights' = (flights \ {f}) \cup {[f EXCEPT !.at = stage]},
         stage = "accepted" => f.event \in log',
         log \subseteq log', UNCHANGED <<signed, queue, clock, items, queued, removed>>
  PROVE  QueueInv'
<1>. DEFINE next == [f EXCEPT !.at = stage]
<1>1. \A g \in flights : g \in Flights
  BY DEF QueueInv, HandoffType
<1>2. /\ next \in Flights /\ next.event = f.event /\ next.how = f.how /\ next.id = f.id
      /\ next.at = stage
  BY <1>1 DEF Flights
<1>3. flights' = (flights \ {f}) \cup {next}
  OBVIOUS
<1>. HIDE DEF next
<1>4. \A g \in flights' :
        /\ g \in Flights
        /\ \E h \in flights :
             /\ g.event = h.event /\ g.how = h.how /\ g.id = h.id
             /\ g.at = "accepted" => h.at = "accepted" \/ g.event \in log'
  BY <1>1, <1>2, <1>3
<1>5. \A g, h \in flights' : Direct(g) /\ Direct(h) /\ g.event = h.event => g = h
  BY <1>2, <1>3 DEF QueueInv, Unqueued, Direct
<1>6. /\ flights' \subseteq Flights /\ Unqueued' /\ AcceptedAreLogged'
      /\ \A g \in flights' : ~Direct(g) => Ref(g) \in queued'
  BY <1>4, <1>5, FlightsFollow
<1>7. HandoffType' /\ Entered' /\ QueuedOnce'
  BY <1>6 DEF QueueInv, HandoffType, Entered, QueuedOnce
<1>8. QueueKeepsEvents'
  BY DEF QueueInv, QueueKeepsEvents
<1>. QED BY <1>6, <1>7, <1>8 DEF QueueInv

\* A direct flight that ends may leave its event in the queue.
LEMMA EnqueueKeepsQueue ==
  ASSUME QueueInv, NEW f \in flights, Direct(f), flights' = flights \ {f},
         Enqueue(f.event), UNCHANGED <<signed, log, items, removed>>
  PROVE  QueueInv'
<1>1. PICK now \in {clock, clock + 1} :
        /\ clock' = now /\ queue' = queue \cup {[id |-> now, event |-> f.event, failed |-> FALSE]}
        /\ queued' = queued \cup {[id |-> now, event |-> f.event]}
  BY DEF Enqueue
<1>. DEFINE entry == [id |-> now, event |-> f.event, failed |-> FALSE]
            new == [id |-> now, event |-> f.event]
<1>2. now \in Nat /\ f.event \in Nat /\ f.event <= Len(signed)
  BY DEF QueueInv, HandoffType, Flights, Unqueued
<1>3. \A e \in queued : e.event # f.event
  BY DEF QueueInv, Unqueued
<1>4. \A g \in flights' : Direct(g) => g.event # f.event
  BY DEF QueueInv, Unqueued
<1>5. /\ entry \in Entries /\ entry.event = f.event /\ Ref(entry) = new
      /\ new \in [id : Nat, event : Nat] /\ new.event = f.event /\ new.id = now
  BY <1>2 DEF Entries, Ref
<1>6. queue' = queue \cup {entry} /\ queued' = queued \cup {new}
  BY <1>1
<1>. HIDE DEF entry, new
<1>7. HandoffType'
  BY <1>1, <1>2, <1>5, <1>6 DEF QueueInv, HandoffType
<1>8. Entered'
  BY <1>5, <1>6 DEF QueueInv, Entered
<1>9. QueuedOnce'
  BY <1>2, <1>3, <1>5, <1>6 DEF QueueInv, QueuedOnce
<1>10. Unqueued'
  BY <1>4, <1>5, <1>6 DEF QueueInv, Unqueued
<1>11. AcceptedAreLogged'
  BY DEF QueueInv, AcceptedAreLogged
<1>12. QueueKeepsEvents'
  <2>. SUFFICES ASSUME NEW e \in queued', \A d \in queued' : d.id = e.id => d = e
                PROVE  /\ (\E q \in queue' : q.event = e.event) \/ e.event \in log \cup removed
                       /\ e.event \in removed => ~ \E q \in queue' : q.event = e.event
    BY DEF QueueKeepsEvents
  <2>1. f.event \notin removed
    BY <1>3 DEF QueueInv, Entered
  <2>2. CASE e = new
    BY <1>5, <1>6, <2>1, <2>2
  <2>3. CASE e \in queued
    <3>1. e.event # f.event
      BY <1>3, <2>3
    <3>2. /\ (\E q \in queue : q.event = e.event) \/ e.event \in log \cup removed
          /\ e.event \in removed => ~ \E q \in queue : q.event = e.event
      BY <1>6, <2>3 DEF QueueInv, QueueKeepsEvents
    <3>. QED BY <1>5, <1>6, <3>1, <3>2
  <2>. QED BY <1>6, <2>2, <2>3
<1>. QED BY <1>7, <1>8, <1>9, <1>10, <1>11, <1>12 DEF QueueInv

LEMMA SubmissionKeepsQueue ==
  ASSUME QueueInv, NEW f \in flights,
         \/ Signed(f) \/ Answered(f) \/ SubmitLost(f)
         \/ \E ok \in BOOLEAN : Receive(f, ok)
  PROVE  QueueInv'
<1>1. CASE Signed(f)
  <2>1. CASE f.how = "queue"
    BY <1>1, <2>1, EnqueueKeepsQueue DEF Signed, Done, Direct
  <2>2. CASE f.how # "queue"
    BY <1>1, <2>2, AdvanceKeepsQueue DEF Signed
  <2>. QED BY <2>1, <2>2
<1>2. ASSUME flights' = flights \ {f},
             UNCHANGED <<signed, log, queue, clock, items, queued, removed>>
      PROVE  QueueInv'
  <2>1. /\ flights' \subseteq Flights /\ Unqueued' /\ AcceptedAreLogged'
        /\ \A g \in flights' : ~Direct(g) => Ref(g) \in queued'
    BY <1>2, FlightsEnd
  <2>2. HandoffType' /\ Entered' /\ QueuedOnce' /\ QueueKeepsEvents'
    BY <1>2, <2>1 DEF QueueInv, HandoffType, Entered, QueuedOnce, QueueKeepsEvents
  <2>. QED BY <2>1, <2>2 DEF QueueInv
<1>3. CASE Answered(f)
  <2>1. CASE Enqueue(f.event)
    BY <1>3, <2>1, EnqueueKeepsQueue DEF Answered, Done, Direct
  <2>2. CASE UNCHANGED <<queue, clock, queued>>
    BY <1>2, <1>3, <2>2 DEF Answered, Done
  <2>. QED BY <1>3, <2>1, <2>2 DEF Answered
<1>4. CASE SubmitLost(f)
  BY <1>2, <1>4 DEF SubmitLost, Done
<1>5. ASSUME NEW ok \in BOOLEAN, Receive(f, ok) PROVE QueueInv'
  <2>. DEFINE stage == IF ok THEN "accepted" ELSE "rejected"
  <2>1. /\ flights' = (flights \ {f}) \cup {[f EXCEPT !.at = stage]}
        /\ log' = IF ok THEN log \cup {f.event} ELSE log
        /\ UNCHANGED <<signed, queue, clock, items, queued, removed>>
    BY <1>5 DEF Receive
  <2>2. stage \in {"sent", "accepted", "rejected"} /\ (stage = "accepted" => ok)
    OBVIOUS
  <2>. HIDE DEF stage
  <2>. QED BY <2>1, <2>2, AdvanceKeepsQueue
<1>. QED BY <1>1, <1>3, <1>4, <1>5

-----------------------------------------------------------------------------
(* The steps of the queue panels *)

LEMMA SubmitQueuedKeepsQueue ==
  ASSUME QueueInv, NEW t \in Tabs, NEW q \in items[t], SubmitQueued(t, q)
  PROVE  QueueInv'
<1>. DEFINE flight == [tab |-> t, event |-> q.event, how |-> "queued", id |-> q.id,
                       at |-> "sent", shown |-> TRUE]
<1>1. /\ flights' = flights \cup {flight}
      /\ UNCHANGED <<signed, log, queue, clock, items, queued, removed>>
  BY DEF SubmitQueued
<1>2. q \in Entries /\ Ref(q) \in queued
  BY DEF QueueInv, HandoffType, Entered
<1>3. /\ flight \in Flights /\ ~Direct(flight) /\ flight.at # "accepted"
      /\ Ref(flight) = Ref(q) /\ flight.event = q.event
  BY <1>2 DEF Flights, Entries, Direct, Ref
<1>. HIDE DEF flight
<1>4. flight.event <= Len(signed)
  <2>1. Ref(q).event = q.event
    BY DEF Ref
  <2>. QED BY <1>2, <1>3, <2>1 DEF QueueInv, QueuedOnce
<1>5. HandoffType' /\ Entered' /\ QueuedOnce'
  BY <1>1, <1>2, <1>3 DEF QueueInv, HandoffType, Entered, QueuedOnce
<1>6. Unqueued' /\ AcceptedAreLogged' /\ QueueKeepsEvents'
  BY <1>1, <1>3, <1>4 DEF QueueInv, Unqueued, AcceptedAreLogged, QueueKeepsEvents
<1>. QED BY <1>5, <1>6 DEF QueueInv

\* What the queue and the panel of a tab hold after a step of that panel.
LEMMA PanelsFollow ==
  ASSUME QueueInv, NEW t \in Tabs, queue' \subseteq Entries,
         \A q \in queue' : \E p \in queue : p.id = q.id /\ p.event = q.event,
         items' = [items EXCEPT ![t] = queue'] \/ items' = items, UNCHANGED queued
  PROVE  /\ items' \in [Tabs -> SUBSET Entries]
         /\ \A q \in queue' : Ref(q) \in queued'
         /\ \A u \in Tabs : \A q \in items'[u] : Ref(q) \in queued'
<1>1. \A q \in queue' : Ref(q) \in queued
  <2>. SUFFICES ASSUME NEW q \in queue' PROVE Ref(q) \in queued
    OBVIOUS
  <2>1. PICK p \in queue : p.id = q.id /\ p.event = q.event
    OBVIOUS
  <2>. QED BY <2>1, RefsAreEqual DEF QueueInv, Entered
<1>2. items \in [Tabs -> SUBSET Entries] /\ \A u \in Tabs : \A q \in items[u] : Ref(q) \in queued
  BY DEF QueueInv, HandoffType, Entered
<1>3. \A u \in Tabs : items'[u] = items[u] \/ items'[u] = queue'
  BY <1>2
<1>4. items' \in [Tabs -> SUBSET Entries]
  BY <1>2
<1>. QED BY <1>1, <1>2, <1>3, <1>4

\* An entry leaves the queue when the node has its event or the user removes it; what
\* another entry, queued in another millisecond, stands for is kept.
LEMMA DropKeepsQueue ==
  ASSUME QueueInv, NEW q, Ref(q) \in queued,
         queue' = Without(q.id), UNCHANGED <<log, queued>>,
         \/ q.event \in log /\ UNCHANGED removed
         \/ removed' = removed \cup {q.event}
  PROVE  QueueKeepsEvents'
<1>. SUFFICES ASSUME NEW e \in queued, \A d \in queued : d.id = e.id => d = e
              PROVE  /\ (\E p \in queue' : p.event = e.event) \/ e.event \in log \cup removed'
                     /\ e.event \in removed' => ~ \E p \in queue' : p.event = e.event
  BY DEF QueueKeepsEvents
<1>1. /\ (\E p \in queue : p.event = e.event) \/ e.event \in log \cup removed
      /\ e.event \in removed => ~ \E p \in queue : p.event = e.event
  BY DEF QueueInv, QueueKeepsEvents
<1>2. Ref(q).id = q.id /\ Ref(q).event = q.event
  BY DEF Ref
<1>3. \A p \in queue : Ref(p) \in queued /\ Ref(p).id = p.id /\ Ref(p).event = p.event
  BY DEF QueueInv, Entered, Ref
<1>4. \A p \in queue : p.event = e.event => p.id = e.id
  BY <1>3 DEF QueueInv, QueuedOnce
<1>5. e.id = q.id => e.event = q.event
  BY <1>2
<1>6. e.event = q.event => e.id = q.id
  BY <1>2 DEF QueueInv, QueuedOnce
<1>7. \A p : p \in queue' <=> p \in queue /\ p.id # q.id
  BY DEF Without
<1>8. CASE e.event = q.event
  BY <1>1, <1>4, <1>6, <1>7, <1>8
<1>9. CASE e.event # q.event
  BY <1>1, <1>4, <1>5, <1>7, <1>9
<1>. QED BY <1>8, <1>9

LEMMA AnswerKeepsQueue ==
  ASSUME QueueInv, NEW f \in flights, QueuedAnswered(f) \/ QueuedLost(f)
  PROVE  QueueInv'
<1>1. /\ f.how = "queued" /\ flights' = flights \ {f}
      /\ items' = [items EXCEPT ![f.tab] = queue'] \/ items' = items
      /\ UNCHANGED <<signed, log, clock, queued, removed>>
      /\ \/ queue' = Without(f.id) /\ f.at = "accepted"
         \/ queue' = MarkFailed(f.id)
  BY DEF QueuedAnswered, QueuedLost, Done, Settled
<1>2. f.tab \in Tabs /\ queue \subseteq Entries
  BY DEF QueueInv, HandoffType, Flights
<1>3. /\ queue' \subseteq Entries
      /\ \A q \in queue' : \E p \in queue : p.id = q.id /\ p.event = q.event
  BY <1>1, <1>2, Marking DEF Without
<1>4. /\ items' \in [Tabs -> SUBSET Entries]
      /\ \A q \in queue' : Ref(q) \in queued'
      /\ \A u \in Tabs : \A q \in items'[u] : Ref(q) \in queued'
  BY <1>1, <1>2, <1>3, PanelsFollow
<1>5. /\ flights' \subseteq Flights /\ Unqueued' /\ AcceptedAreLogged'
      /\ \A g \in flights' : ~Direct(g) => Ref(g) \in queued'
  BY <1>1, FlightsEnd
<1>6. HandoffType' /\ Entered' /\ QueuedOnce'
  BY <1>1, <1>3, <1>4, <1>5 DEF QueueInv, HandoffType, Entered, QueuedOnce
<1>7. QueueKeepsEvents'
  <2>1. CASE queue' = MarkFailed(f.id)
    BY <1>1, <1>2, <2>1, Marking, SameEntriesKept DEF QueueInv
  <2>2. CASE queue' = Without(f.id) /\ f.at = "accepted"
    <3>1. Ref(f) \in queued /\ f.event \in log
      BY <1>1, <2>2 DEF QueueInv, Entered, AcceptedAreLogged, Direct
    <3>. QED BY <1>1, <2>2, <3>1, DropKeepsQueue
  <2>. QED BY <1>1, <2>1, <2>2
<1>. QED BY <1>5, <1>6, <1>7 DEF QueueInv

LEMMA RemoveKeepsQueue ==
  ASSUME QueueInv, NEW t \in Tabs, NEW q \in items[t], RemoveQueued(t, q)
  PROVE  QueueInv'
<1>1. /\ queue' = Without(q.id) /\ items' = [items EXCEPT ![t] = queue']
      /\ removed' = removed \cup {q.event}
      /\ UNCHANGED <<signed, log, clock, flights, queued>>
  BY DEF RemoveQueued
<1>2. Ref(q) \in queued /\ Ref(q).event = q.event
  BY DEF QueueInv, Entered, Ref
<1>3. queue' \subseteq queue /\ queue \subseteq Entries
  BY <1>1 DEF QueueInv, HandoffType, Without
<1>4. /\ items' \in [Tabs -> SUBSET Entries]
      /\ \A p \in queue' : Ref(p) \in queued'
      /\ \A u \in Tabs : \A p \in items'[u] : Ref(p) \in queued'
  BY <1>1, <1>3, PanelsFollow
<1>5. HandoffType' /\ QueuedOnce' /\ Unqueued' /\ AcceptedAreLogged'
  BY <1>1, <1>3, <1>4
  DEF QueueInv, HandoffType, QueuedOnce, Unqueued, AcceptedAreLogged
<1>6. Entered'
  BY <1>1, <1>2, <1>4 DEF QueueInv, Entered
<1>7. QueueKeepsEvents'
  BY <1>1, <1>2, DropKeepsQueue
<1>. QED BY <1>5, <1>6, <1>7 DEF QueueInv

-----------------------------------------------------------------------------
(* What the wizard signs *)

\* Only a click signs, and it has checked what it signs.
LEMMA ClickChecksEvidence ==
  ASSUME QueueInv, EvidenceIsWhole, NEW t \in Tabs,
         \/ \E b \in BOOLEAN : SubmitDelivery(t, b)
         \/ SubmitAccept(t)
  PROVE  EvidenceIsWhole'
<1>. DEFINE w == wizard[t]
            Signing(kind) == [kind |-> kind, order |-> w.selected.order,
                              pair |-> ActiveSession(t), provider |-> w.provider,
                              buyer |-> w.buyer, notes |-> w.notes]
            Fine(e) == /\ e.kind = "delivery" =>
                            /\ e.provider # e.buyer
                            /\ None \notin {e.provider, e.buyer, e.notes}
                            /\ e.pair.public = Provider[e.order]
                       /\ e.kind = "accept" => e.pair.public = Buyer[e.order]
<1>1. \E kind : signed' = Append(signed, Signing(kind)) /\ Fine(Signing(kind))
  <2>1. CASE SubmitAccept(t)
    <3>1. signed' = Append(signed, Signing("accept"))
      BY <2>1 DEF SubmitAccept, Click
    <3>2. Fine(Signing("accept"))
      BY <2>1 DEF SubmitAccept
    <3>. QED BY ONLY <3>1, <3>2
  <2>2. ASSUME NEW b \in BOOLEAN, SubmitDelivery(t, b)
        PROVE  signed' = Append(signed, Signing("delivery")) /\ Fine(Signing("delivery"))
    <3>1. signed' = Append(signed, Signing("delivery"))
      BY <2>2 DEF SubmitDelivery, Click
    <3>2. Fine(Signing("delivery"))
      BY <2>2 DEF SubmitDelivery, MayDeliver, HashError
    <3>. QED BY ONLY <3>1, <3>2
  <2>. HIDE DEF Signing, Fine
  <2>. QED BY <2>1, <2>2
<1>2. \A n \in DOMAIN signed : Fine(signed[n])
  BY DEF EvidenceIsWhole
<1>. HIDE DEF Signing
<1>3. \A n \in DOMAIN signed' : Fine(signed'[n])
  <2>. HIDE DEF Fine
  <2>1. PICK x : signed' = Append(signed, x) /\ Fine(x)
    BY <1>1
  <2>2. /\ DOMAIN signed' = 1 .. Len(signed) + 1 /\ DOMAIN signed = 1 .. Len(signed)
        /\ \A i \in 1 .. Len(signed) : signed'[i] = signed[i]
        /\ signed'[Len(signed) + 1] = x /\ Len(signed) \in Nat
    BY <2>1, Appending DEF QueueInv, HandoffType
  <2>3. \A i \in 1 .. Len(signed) + 1 : i \in 1 .. Len(signed) \/ i = Len(signed) + 1
    BY <2>2
  <2>. QED BY <1>2, <2>1, <2>2, <2>3
<1>. QED BY <1>3 DEF EvidenceIsWhole

LEMMA HandoffStep ==
  ASSUME QueueInv, EvidenceIsWhole, [Next]_vars
  PROVE  QueueInv' /\ EvidenceIsWhole'
<1>1. ASSUME UNCHANGED signed PROVE EvidenceIsWhole'
  BY <1>1 DEF EvidenceIsWhole
<1>. DEFINE Quiet == UNCHANGED <<signed, log, queue, clock, items, flights, queued, removed>>
<1>2. CASE Quiet
  BY <1>1, <1>2, QueueUntouched
<1>3. CASE UNCHANGED handoffVars
  BY <1>2, <1>3 DEF handoffVars
<1>4. ASSUME NEW t \in Tabs,
             \/ Refresh(t) \/ ChangeOrder(t) \/ Review(t)
             \/ \E c \in IF wizard[t].orders = None THEN {} ELSE wizard[t].orders : PickOrder(t, c)
             \/ \E a \in Acks, role \in {"provider", "buyer"} : HashText(t, role, a)
             \/ \E a \in Notes : HashText(t, "notes", a)
             \/ \E o \in Orders, role \in {"provider", "buyer"}, a \in Acks :
                  ImportStaging(t, o, role, a)
      PROVE  Quiet
  BY <1>4 DEF Refresh, ChangeOrder, Review, PickOrder, HashText, ImportStaging, WizardStep
<1>5. ASSUME NEW t \in Tabs, \E b \in BOOLEAN : Reopen(t, b)
      PROVE  QueueInv' /\ UNCHANGED signed
  BY <1>5, ReopenKeepsQueue DEF Reopen
<1>6. ASSUME NEW t \in Tabs, (\E b \in BOOLEAN : SubmitDelivery(t, b)) \/ SubmitAccept(t)
      PROVE  QueueInv' /\ EvidenceIsWhole'
  <2>1. \E kind : \E how \in {"queue", "submit"} : Click(t, kind, how)
    BY <1>6 DEF SubmitDelivery, SubmitAccept
  <2>2. QueueInv'
    BY <2>1, ClickKeepsQueue
  <2>. QED BY <1>6, <2>2, ClickChecksEvidence
<1>7. ASSUME NEW t \in Tabs, NEW q \in items[t], SubmitQueued(t, q) \/ RemoveQueued(t, q)
      PROVE  QueueInv' /\ UNCHANGED signed
  BY <1>7, SubmitQueuedKeepsQueue, RemoveKeepsQueue DEF SubmitQueued, RemoveQueued
<1>8. ASSUME \/ \E l \in loads : OrdersLoaded(l) \/ OrdersFail(l)
             \/ \E h \in hashes : Hashed(h)
             \/ \E o \in Orders, s \in {"Delivered", "Accepted", "Disputed"} : Elsewhere(o, s)
      PROVE  Quiet
  BY <1>8 DEF OrdersLoaded, OrdersFail, Hashed, Elsewhere
<1>9. ASSUME NEW f \in flights,
             \/ Signed(f) \/ Answered(f) \/ SubmitLost(f)
             \/ QueuedAnswered(f) \/ QueuedLost(f)
             \/ \E ok \in BOOLEAN : Receive(f, ok)
      PROVE  QueueInv' /\ UNCHANGED signed
  BY <1>9, SubmissionKeepsQueue, AnswerKeepsQueue
  DEF Signed, Answered, SubmitLost, QueuedAnswered, QueuedLost, Receive
<1>. HIDE DEF Quiet
<1>10. CASE WizardUser
  BY <1>1, <1>2, <1>4, <1>5, <1>6, <1>7, <1>10 DEF WizardUser
<1>11. CASE HandoffSettling
  BY <1>1, <1>2, <1>8, <1>9, <1>11 DEF HandoffSettling
<1>12. CASE \E o \in Orders, s \in {"Delivered", "Accepted", "Disputed"} : Elsewhere(o, s)
  BY <1>2, <1>8, <1>12
<1>. QED BY <1>3, <1>10, <1>11, <1>12 DEF Next, vars

\* The queue keeps to its invariant, and evidence is whole, for any tabs and orders.
THEOREM HandoffKeepsItsInvariant == Spec => [](QueueInv /\ EvidenceIsWhole)
<1>1. Init => QueueInv /\ EvidenceIsWhole
  BY QueueInit DEF Init
<1>2. QueueInv /\ EvidenceIsWhole /\ [Next]_vars => (QueueInv /\ EvidenceIsWhole)'
  BY HandoffStep
<1>. QED BY <1>1, <1>2, PTL DEF Spec

\* What is signed was whole at the click, though hashes and sessions change around it.
THEOREM SignedEvidenceIsWhole == Spec => []EvidenceIsWhole
BY HandoffKeepsItsInvariant, PTL

\* Signed events are in the queue until the node has them or the user removed them, and
\* removed ones do not come back, whatever the panels of how many tabs show.
THEOREM SignedEventsAreKept == Spec => []QueueKeepsEvents
<1>1. QueueInv => QueueKeepsEvents
  BY DEF QueueInv
<1>. QED BY <1>1, HandoffKeepsItsInvariant, PTL
=============================================================================
