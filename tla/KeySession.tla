----------------------------- MODULE KeySession -----------------------------
(***************************************************************************)
(* The keys of the web client in a browser (lib/auth): the tabs of a       *)
(* browser share the session a user asked to remember (localStorage) and   *)
(* the passkey vault, and each tab mirrors the session it signed in with   *)
(* (sessionStorage).  Signing in, restoring a backup, unlocking the vault, *)
(* registering and signing out write both, partly after awaits.  The       *)
(* settings page of a tab seals and exports the session it has loaded.     *)
(*                                                                         *)
(* A session is a pair [secret, public]; the public key of the secret key  *)
(* k is k, so that a pair of two different keys is one that does not match.*)
(***************************************************************************)
EXTENDS Naturals, FiniteSets

CONSTANTS
  Tabs,      \* tabs of one browser
  Keys,      \* key pairs the user has, or the registration form generates
  None,      \* nothing stored
  MaxOps     \* bound on the operations of the user

ASSUME KeysAssumption == None \notin Keys

VARIABLES
  stored,      \* localStorage: [secret, public], None where an item is absent
  mirror,      \* mirror[t]: sessionStorage of a tab
  settings,    \* settings[t]: the session that the settings page of a tab has loaded
  vault,       \* the session in the passkey vault, or NoPair
  backups,     \* sessions in the backup files the user has
  keyPair,     \* keyPair[t]: the pair the registration form of a tab shows
  seals,       \* passkeys that are being created for a session
  unlocks,     \* sign-ins, unlocks and restores of a tab that await something
  typing,      \* derivations of the public key of a secret that is being typed
  identities,  \* keys whose IdentityCreate the node has accepted
  registering, \* registrations under way
  torn,        \* pairs that do not match and were still stored when a derivation of
               \* theirs failed or was cut off, or that the vault or a backup took
  ops

pageVars == <<settings, backups>>
authVars == <<stored, mirror, pageVars, vault, keyPair, seals, unlocks, typing, identities,
              registering, torn>>

Pair(s, p) == [secret |-> s, public |-> p]
NoPair == Pair(None, None)
Pairs == [secret : Keys \cup {None}, public : Keys \cup {None}]
Whole(pair) == pair.secret # None /\ pair.public # None
Matches(pair) == pair.secret = pair.public
Unmatched(pair) == IF Matches(pair) THEN {} ELSE {pair}

\* loadActiveSession: what a tab signs with.
ActiveSession(t) ==
  IF Whole(stored) THEN stored ELSE IF Whole(mirror[t]) THEN mirror[t] ELSE NoPair

---------------------------------------------------------------------------
\* Mutant of SaveSession: the public key of another session is kept.
SaveSecret(t, pair, remember) ==
  /\ mirror' = [mirror EXCEPT ![t] = pair]
  /\ stored' = IF remember /\ stored.public = None THEN pair
               ELSE IF remember THEN [stored EXCEPT !.secret = pair.secret] ELSE NoPair

SaveSession(t, pair, remember) ==
  /\ mirror' = [mirror EXCEPT ![t] = pair]
  /\ stored' = IF remember THEN pair ELSE NoPair

\* An operation of the user, of which there are at most MaxOps.
Step == ops < MaxOps /\ ops' = ops + 1

\* persistTypedSecret: a valid secret is stored as soon as it is typed, its
\* public key when it is derived.
TypeSecret(t, k) ==
  /\ Step
  /\ stored' = [stored EXCEPT !.secret = k]
  /\ typing' = typing \cup {[tab |-> t, key |-> k]}
  /\ UNCHANGED <<mirror, pageVars, vault, keyPair, seals, unlocks, identities, registering, torn>>

SecretDerived(d) ==
  /\ typing' = typing \ {d}
  /\ SaveSession(d.tab, Pair(d.key, d.key), TRUE)
  /\ UNCHANGED <<pageVars, vault, keyPair, seals, unlocks, identities, registering, torn, ops>>

\* What is stored when these derivations end without a public key.
LeftBy(gone) == IF \E d \in gone : d.key = stored.secret THEN Unmatched(stored) ELSE {}

\* The failure is swallowed, and the public key stored before stays.
DerivationFails(d) ==
  /\ typing' = typing \ {d}
  /\ torn' = torn \cup LeftBy({d})
  /\ UNCHANGED <<stored, mirror, pageVars, vault, keyPair, seals, unlocks, identities,
                 registering, ops>>

---------------------------------------------------------------------------
(* Signing in: with the secret of the form or the saved one, from the      *)
(* vault or from a backup file.  The forms admit one at a time; the saved  *)
(* key and the backup have buttons that stay enabled.                      *)

Begin(t, pair, keep) ==
  /\ Step
  /\ unlocks' = unlocks \cup {[tab |-> t, pair |-> pair, keep |-> keep]}
  /\ UNCHANGED <<stored, mirror, pageVars, vault, keyPair, seals, typing, identities,
                 registering, torn>>

\* What a sign-in keeps: the session is remembered, kept by the tab or only shown.
Keepings == {"browser", "tab", "page"}

SignIn(t, k, keep) == keep # "page" /\ Begin(t, Pair(k, k), keep)

UseSavedKey(t) ==
  stored.secret # None /\ Begin(t, Pair(stored.secret, stored.secret), "browser")

\* The file is taken for what it says: its public key is compared with the one that
\* is encrypted in it, and with no secret.  The settings page only shows the session.
RestoreBackup(t, pair, keep) == keep # "tab" /\ Begin(t, pair, keep)

\* The record is read before the passkey is asked for.
UnlockVault(t) == vault # NoPair /\ Begin(t, vault, "browser")

Unlocked(u) ==
  /\ unlocks' = unlocks \ {u}
  /\ settings' = [settings EXCEPT ![u.tab] = u.pair]
  /\ IF u.keep = "page" THEN UNCHANGED <<stored, mirror>>
                        ELSE SaveSession(u.tab, u.pair, u.keep = "browser")
  /\ UNCHANGED <<backups, vault, keyPair, seals, typing, identities, registering, torn, ops>>

\* A wrong password, a passkey that was cancelled.
UnlockFails(u) ==
  /\ unlocks' = unlocks \ {u}
  /\ UNCHANGED <<stored, mirror, pageVars, vault, keyPair, seals, typing, identities,
                 registering, torn, ops>>

---------------------------------------------------------------------------
(* The settings page.  It works on the session it has loaded when it was   *)
(* opened, whatever other tabs store meanwhile.                            *)

OpenSettings(t) ==
  /\ Step
  /\ settings[t] # ActiveSession(t)
  /\ settings' = [settings EXCEPT ![t] = ActiveSession(t)]
  /\ UNCHANGED <<stored, mirror, backups, vault, keyPair, seals, unlocks, typing, identities,
                 registering, torn>>

\* The session a panel of the page works on: the page is open, or opened for it.
InSettings(t, pair) ==
  /\ Step
  /\ pair \in {settings[t], ActiveSession(t)} \ {NoPair}
  /\ settings' = [settings EXCEPT ![t] = pair]

\* A backup file holds both halves as they are.
ExportBackup(t, pair) ==
  /\ InSettings(t, pair)
  /\ backups' = backups \cup {pair}
  /\ torn' = torn \cup Unmatched(pair)
  /\ UNCHANGED <<stored, mirror, vault, keyPair, seals, unlocks, typing, identities, registering>>

\* The session is sealed once a passkey is created.
SetupVault(t, pair) ==
  /\ InSettings(t, pair)
  /\ seals' = seals \cup {[tab |-> t, pair |-> pair]}
  /\ UNCHANGED <<stored, mirror, backups, vault, keyPair, unlocks, typing, identities,
                 registering, torn>>

VaultSealed(v) ==
  /\ seals' = seals \ {v}
  /\ vault' = v.pair /\ torn' = torn \cup Unmatched(v.pair)
  /\ UNCHANGED <<stored, mirror, pageVars, keyPair, unlocks, typing, identities, registering, ops>>

SetupFails(v) ==
  /\ seals' = seals \ {v}
  /\ UNCHANGED <<stored, mirror, pageVars, vault, keyPair, unlocks, typing, identities,
                 registering, torn, ops>>

RemoveVault ==
  /\ Step
  /\ vault # NoPair /\ vault' = NoPair
  /\ UNCHANGED <<stored, mirror, pageVars, keyPair, seals, unlocks, typing, identities,
                 registering, torn>>

\* The page's own button forgets what is shown, as opening it again does.
SignOut(t) ==
  /\ Step
  /\ ActiveSession(t) # NoPair
  /\ stored' = NoPair /\ mirror' = [mirror EXCEPT ![t] = NoPair]
  /\ UNCHANGED <<pageVars, vault, keyPair, seals, unlocks, typing, identities, registering, torn>>

\* A tab is closed, and a new one opened in its place.
CloseTab(t) ==
  /\ Step
  /\ mirror' = [mirror EXCEPT ![t] = NoPair] /\ settings' = [settings EXCEPT ![t] = NoPair]
  /\ keyPair' = [keyPair EXCEPT ![t] = None]
  /\ unlocks' = {u \in unlocks : u.tab # t}
  /\ seals' = {v \in seals : v.tab # t}
  /\ typing' = {d \in typing : d.tab # t}
  /\ registering' = {r \in registering : r.tab # t}
  /\ torn' = torn \cup LeftBy({d \in typing : d.tab = t})
  /\ UNCHANGED <<stored, backups, vault, identities>>

---------------------------------------------------------------------------
(* Registration.  The form generates another pair on request, also while   *)
(* the node is asked.                                                      *)

GenerateKeys(t, k) ==
  /\ Step
  /\ keyPair' = [keyPair EXCEPT ![t] = k]
  /\ UNCHANGED <<stored, mirror, pageVars, vault, seals, unlocks, typing, identities, registering, torn>>

Register(t) ==
  /\ Step
  /\ keyPair[t] # None /\ \A r \in registering : r.tab # t
  /\ registering' = registering \cup {[tab |-> t, key |-> keyPair[t], at |-> "sent"]}
  /\ UNCHANGED <<stored, mirror, pageVars, vault, keyPair, seals, unlocks, typing, identities, torn>>

\* The node ingests the IdentityCreate.
NodeRegisters(r, ok) ==
  /\ r.at = "sent"
  /\ registering' = (registering \ {r}) \cup {[r EXCEPT !.at = IF ok THEN "accepted" ELSE "rejected"]}
  /\ identities' = IF ok THEN identities \cup {r.key} ELSE identities
  /\ UNCHANGED <<stored, mirror, pageVars, vault, keyPair, seals, unlocks, typing, torn, ops>>

\* Mutant of RegisteredKey: the pair the form shows when the answer arrives.
ShownKey(r) == keyPair[r.tab]

\* The closure keeps the pair the submission began with.
RegisteredKey(r) == r.key

RegisterAnswered(r) ==
  /\ r.at # "sent"
  /\ registering' = registering \ {r}
  /\ IF r.at = "accepted" THEN SaveSession(r.tab, Pair(RegisteredKey(r), RegisteredKey(r)), TRUE)
                          ELSE UNCHANGED <<stored, mirror>>
  /\ UNCHANGED <<pageVars, vault, keyPair, seals, unlocks, typing, identities, torn, ops>>

RegisterLost(r) ==
  /\ registering' = registering \ {r}
  /\ UNCHANGED <<stored, mirror, pageVars, vault, keyPair, seals, unlocks, typing, identities, torn, ops>>

---------------------------------------------------------------------------
\* The backup files from before are of keys.
AuthInit ==
  /\ stored \in {NoPair} \cup {Pair(k, k) : k \in Keys}
  /\ mirror = [t \in Tabs |-> NoPair] /\ settings = [t \in Tabs |-> NoPair]
  /\ vault = NoPair /\ backups = {Pair(k, k) : k \in Keys}
  /\ keyPair = [t \in Tabs |-> None]
  /\ seals = {} /\ unlocks = {} /\ typing = {} /\ identities = {} /\ registering = {}
  /\ torn = {} /\ ops = 0

AuthUser ==
  \E t \in Tabs :
    \/ \E k \in Keys : \/ TypeSecret(t, k) \/ GenerateKeys(t, k)
                       \/ \E keep \in Keepings : SignIn(t, k, keep)
    \/ \E pair \in backups, keep \in Keepings : RestoreBackup(t, pair, keep)
    \/ \E pair \in {settings[t], ActiveSession(t)} : ExportBackup(t, pair) \/ SetupVault(t, pair)
    \/ UseSavedKey(t) \/ UnlockVault(t) \/ OpenSettings(t) \/ RemoveVault
    \/ SignOut(t) \/ CloseTab(t) \/ Register(t)

AuthSettling ==
  \/ \E d \in typing : SecretDerived(d) \/ DerivationFails(d)
  \/ \E v \in seals : VaultSealed(v) \/ SetupFails(v)
  \/ \E u \in unlocks : Unlocked(u) \/ UnlockFails(u)
  \/ \E r \in registering : \/ RegisterAnswered(r) \/ RegisterLost(r)
                            \/ \E ok \in BOOLEAN : NodeRegisters(r, ok)

AuthNext == AuthUser \/ AuthSettling

---------------------------------------------------------------------------
AuthTypeOK ==
  /\ stored \in Pairs /\ mirror \in [Tabs -> Pairs] /\ settings \in [Tabs -> Pairs]
  /\ vault \in Pairs /\ backups \subseteq Pairs /\ torn \subseteq Pairs
  /\ keyPair \in [Tabs -> Keys \cup {None}]
  /\ \A u \in unlocks : u.tab \in Tabs /\ u.pair \in Pairs /\ u.keep \in Keepings
  /\ \A v \in seals : v.tab \in Tabs /\ v.pair \in Pairs
  /\ \A d \in typing : d.tab \in Tabs /\ d.key \in Keys
  /\ identities \subseteq Keys
  /\ \A r \in registering : r.tab \in Tabs /\ r.key \in Keys

\* The two halves of the remembered session disagree only while a secret that was
\* typed waits for its public key, or when that pair, and no other, was left so: its
\* derivation failed or its tab was closed, or the vault or a backup took it meanwhile
\* and brings it back.
StoredPairMatches ==
  \/ Matches(stored)
  \/ stored \in torn
  \/ \E d \in typing : d.key = stored.secret

\* A registration leaves its tab signed in as an identity the node has accepted.
RegistersIdentity ==
  [][\A r \in registering : RegisterAnswered(r) /\ r.at = "accepted" =>
       mirror'[r.tab].public \in identities]_authVars
=============================================================================
