# Vectis in TLA+

Vectis is a protocol for coordination and settlement on signed events. People
publish events (identities, vouches, claims, offers, orders, deliveries,
acceptances, disputes, settlements, credit spends); a node stores them in an
append-only log and derives the state of the world by replaying the log with a
deterministic engine. The Rust kernel under `crates/` is the product; `apps/` and
`packages/` are clients of it, `scripts/` its tools. This directory models the
kernel, the clients' pages that work over several steps, and the tools that keep
operational evidence.

    tlc -config escrow_handshakes.cfg MCEscrow        # a run (see section 3)
    tlapm EscrowProofs.tla                            # the proofs of a module

`PROJECT.json` lists the components, the runs, the mutants every property is
measured with, the source lines of every definition, the hazards of the code and
the theorems.

## 1. The system

| Component | State | Operations | Talks to | Model |
|---|---|---|---|---|
| Protocol core (`protocol-core/src/lib.rs`) | none | parse, hash, sign, validate an envelope | called by the node and the engine | - |
| Policy (`policy/src/lib.rs`) | parameters with a version | default, validation, forward-only updates | read by every handler | constants |
| Replay engine, escrow (`state-engine/src/replay.rs`, `model.rs`) | orders, milestones, lots, nonces of `ReplayContext` | one handler per event kind, refunds at the end of a run, resumption | called by the node with lines and a checkpoint | `Escrow` |
| Replay engine, admission and issuance (same files) | identities, vouches, claims, attestations, issuance history | `IdentityCreate` to `MintCredits` | same | `Trust` |
| Node: ingest and log (`node/src/lib.rs`, `event_log_chain.rs`) | `events.log`, `events.chain.jsonl`, `ingest_lock` | `ingest_event`, `ingest_batch`, startup validation | storage; HTTP and CLI threads call it concurrently | `EventIngest` |
| Node: storage (`storage.rs`) | SQLite: events, event_order, invalid_events, snapshots, peer_sync_state | inserts and queries, a connection each | all threads, other processes on the directory | in the node's modules |
| Node: replay and snapshots (`node/src/lib.rs`) | snapshot rows | `replay_execution`, `create_snapshot` | storage, engine | `SnapshotReplay` |
| Node: peer sync (same) | a cursor, failures and backoff per peer; permits | pull, reset, bootstrap, supervisor loop | other nodes by HTTP, ingest | `PeerSync` |
| Node: rate limit (`ingest_rate_limit.rs`) | a window per client | check | in front of ingest | - |
| HTTP server, CLI, SDK | none | routing and calls | node | - |
| Desktop shell (`apps/desktop/src-tauri`) | sidecar process, unlocked vault | start, stop, unlock, lock | runs the node | - |
| Offline-lane and alert rollups (`node/src/lib.rs`, lines 3513-6935) | none | classify rows into reports | storage, read only | - |
| Web: progress of orders (`apps/web/lib/dashboard`) | none | which step is next, and whose | reads the node's state | `OrderProgress` |
| Web: trust status (same) | none | eligibility from the raw feed | reads the node's feed | `Trust` |
| Web: keys and sessions (`apps/web/lib/auth`, `components/auth`) | localStorage, sessionStorage, the passkey vault | sign in, restore, unlock, register, sign out | node, other tabs | `KeySession` |
| Web: in-person handoff (`components/transport`) | wizard, queue of signed events | stage, hash, sign, queue, submit | session, node, other tabs | `Handoff` |
| Web: deal builder (`marketplace-event-builder.tsx`, `transaction-builder-panel.tsx`) | nine forms, draft, checklist | edit, hydrate, sign, submit | node | `DealBuilder` |
| Web and scripts: operations evidence | audit log, archives, run directories, prune plan | export, clean up, plan, remove | processes that share files | `OpsEvidence` |
| Other pages, drills, packaging | none that lasts, or none | forms with one request, views, test drivers | node | - |

What is hard in it:

* **Handshakes between two parties.** Settlements, cancellations and amendments
  need a proposal and a matching event of the other party, in any order with
  deliveries, disputes and other proposals.
* **Time without timers.** The engine applies events at their creation time; what
  happens by the passage of time (refund of an overdue dispute, decay) happens at
  the end of a run, as of the moment the reader asks for. Runs are resumed from
  checkpoints that contain these refunds.
* **Three stores without a transaction.** An event goes to a log file, a chain
  file and two tables, one write after another; processes crash and writes fail in
  between; two processes may share the directory.
* **Queries that do not see one state.** A replay and a snapshot are several
  queries on several connections, while ingestion goes on.
* **Cursors and awaits.** Peer sync reads its state, awaits the network, and
  writes all of it back.
* **Keys that change hands.** Keys rotate, claims and votes name keys, and a key
  may be rotated between a claim, its attestation and its mint.
* **Pages that await.** The pages of the web client derive keys, hash, ask the node
  and read storage that other tabs write, while the user goes on editing, leaves
  and comes back.

What makes each component correct is stated by the properties of section 3. All
hazards, with their lines and the properties that watch them, are in
`PROJECT.json`.

## 2. Modules

| Module | Models | Role |
|---|---|---|
| `IdealEscrow` | what an escrow promises: deposits while open, partial returns, one close that divides all it holds | abstract specification |
| `Escrow` | the escrow of the replay engine: every handler that touches an order, a milestone or a balance, and the end of a run | component |
| `OrderProgress` | what the web client makes of an order: the active milestone, the next step, who is asked for it | operators over `Escrow` |
| `MCEscrow`, `EscrowProofs` | instances; proofs, also of `OrderProgress` | |
| `EventIngest` | `ingest_event` step by step, with threads, processes, crashes, failures, and the startup validation | component |
| `MCEventIngest`, `EventIngestProofs` | one process, or several on one directory; proofs | |
| `SnapshotReplay` | `replay_execution` and `create_snapshot` query by query | component |
| `MCSnapshotReplay`, `SnapshotReplayProofs` | instances; proofs | |
| `PeerSync` | the supervisor, the one-shot commands, and the rows and stores they share | component |
| `MCPeerSync`, `PeerSyncProofs` | instances; proofs | |
| `Trust` | identities, vouches, claims, votes and mints of the engine, beside the eligibility the web client computes | component |
| `MCTrust`, `TrustProofs` | instances; proofs | |
| `KeySession` | the keys a browser keeps, in the tabs that share them | component |
| `Handoff` | the in-person handoff and its queue; extends `KeySession` | component, composed |
| `DealBuilder` | the deal builder | component |
| `OpsEvidence` | the operator's evidence and its cleanup | component |
| `MCWebPages` | a behavior of one of the three pages `Handoff`, `DealBuilder`, `OpsEvidence` | composition |
| `HandoffProofs`, `PagesProofs` | proofs about `KeySession` and `Handoff`, and about `OpsEvidence` and `DealBuilder` | |
| `FiniteSums` | lemmas on sums over a finite domain and on least numbers, used by `EscrowProofs` and `TrustProofs` | |

The components meet in the feed: `EventIngest` shows in which order and how often
an event enters it, `PeerSync` how the feeds of other nodes get there (its
ingestion is one step, which may fail), `SnapshotReplay` starts from an arbitrary
growing feed and shows which events a run is given, and `Escrow` and `Trust` start
from an arbitrary sequence of events and show what a run does with them.
`OrderProgress` reads the state of `Escrow`; `Trust` has both folds of the same feed,
the engine's and the client's; `Handoff` signs with the session of `KeySession` as other
tabs change it.

### Escrow

One action is one signed event the engine applies; `now` is the creation time of
the last one, since a replay sorts its lines by creation time. `CloseRun(t)` ends
the events of a run as of `t`, `AutoRefund` is one round of the loop of
`auto_refund_disputed_milestones`, and `EndRun` the normalisation of all balances;
the run may then be resumed, as `from_checkpoint` does, by further events. The
fields of `ReplayMilestoneRecord` are one function each (`status`, `amount`,
`funded`, ...), the pending fields of the three handshakes are grouped in
`settling`, `cancelling` and `amending`.

An event that fails a guard is rejected and changes nothing, a stutter. Two
handlers write before they have finished checking and have a rejection action of
their own: `RejectOrder` (milestones before the failing one stay) and
`RejectFunding` (the nonce is burnt and the lots are normalised).

`drawn`, `toBuyer`, `toProvider`, `lost`, `minted`, `sunk` and `signed` are history
variables: what a milestone was paid and has paid, where credits went, and which
handshake events were applied. No guard reads them, except that the bound on
minting reads `minted`.

Abstractions: offers and identities are there already and keys are the identities
they resolve to (an order's guard on its offer is left out); policy parameters are
constants; the clock skew is zero; a balance is the sum of the lots, and each
normalisation may take any loss up to a bound, where the code takes the one that
decay and expiry give; evidence formats, hashes and texts are not compared; a
milestone key belongs to a given order, which is so when ids hold no `:` (the keys
are concatenations). Reputation deltas are not kept.

### EventIngest

A file is the sequence of what was written to it. `writeln!` on a `File` writes the
text and the newline separately, so there are two actions for a line of the log
(`WriteLogText`, `WriteLogEnd`) and two for an entry of the chain. The tables
`events` and `event_order` are the set `stored` and the sequence `feed`; they are
written by two actions because `insert_event` opens no transaction. `pc[t]` is the
place of a thread in `ingest_event`, `lock[p]` the `ingest_lock` of a process;
`Return` is the drop of the guard at every return. `FailCheck`, `FailWrite` and
`FailRead` are the error branches; a failing read gives the chain entry the default
the code uses (`unwrap_or`). `Crash(p)` loses the threads and the lock of a process
and no file; `Start(p)` is guarded by `CanStart`, the startup validation.

Abstractions: hashes do not collide, so that a chain hash is the sequence of the
lines it covers; a line is a place of the file, and its number how many texts there
are up to it; static validation is membership in `Malformed`; what a crash
leaves is what was written (no write is lost by the operating system); sequence
numbers are places in the feed (a bootstrap shifts them). Rate limiting is in
front of ingestion and not part of it.

`MCEventIngest` starts either with all threads in one process or with a process per
thread (`Shared`, an instance with variables of its own), as when the CLI ingests
beside a running server.

### SnapshotReplay

`feed` is `event_order` joined with `events`, `snaps` the snapshots. A request of a
thread goes through its queries one action at a time: `Begin`, `FindSnapshot`,
`CheckBackfill`, then `ReplayDelta` or `ReplayGenesis`, then `Reply`, or
`TakeSnapshot` for `create_snapshot`. Events (`Arrive`) may come between any two. The
engine is reduced to what makes one run differ from another: which events it has
seen, which it has applied (a settlement is applied when its dispute is open), and
what it has refunded at its end, which stays in the checkpoint.

Abstractions: imported snapshots (see `PeerSync`) and snapshots of an older format
are left out; two snapshots of one as_of are told apart by their insertion, where
the code compares their created_at; creation times are numbers. `Replayed` is the
list of kinds the queries filter on: `ReplayKinds` in the instances has what
storage.rs lists.

### PeerSync

A row of `peer_sync_state` is `cursor`, `failures`, `broken` and `wait` (what is left until
next_attempt_at). A pull is `Fetch`, one `Ingest` per event of a page, and `Save`, which
writes back the row read by `Fetch`; any action of another puller may come between.
The supervisor's cycle is `StartCycle` (the peers that are due), `Spawn` (a task, when a
permit is free) and the steps of the tasks; `Restart` kills all of them. A command
is `SyncPull`, `SyncReset` or `SyncBootstrap`, in a process of its own and so without the
permits; a bootstrap is `Import`, `SeedCursor`, `Align` and then a pull. `Publish` and
`Submit` let the feeds grow; `seqOf` and `floor` are event_order and sqlite_sequence, whose
floor a bootstrap raises. What becomes of an event that is ingested is `Store`, `Reject` (a
row of invalid_events) or `Drop`: when the database fails the question whether the event
is there (lib.rs:1356), or fails to record a rejection, which is ignored (1257, 1368,
1420), nothing is left of it, and the cursor passes it all the same (1847). `aligned` and
`dropped` are history variables.

Abstractions: a peer is its feed and its snapshots, of which an import takes any
one; `TimelySnapshots` says whether peers take snapshots only as of times past every
creation time; the place of an event in a feed is its seq; the replay after a
bootstrap is the operator `Replayed` over the same conditions as
`replay_execution`.

### Trust and OrderProgress

One action of `Trust` is one event the engine applies. An identity is named by the key
it was created with (`rootOf`, `active`). `feed` keeps the vouch events as the node serves
them, the rejected ones marked, since the client folds raw events. Budgets bound how
many events of each sort a behavior has. Left out: the reputation and risk limits
that the default policy does not set, mints of market closes, the caps per set of
attestors. `OrderProgress` has no variables; the milestones of an order may be
listed in any order; its `Applies` is made of the guards of the handlers of `Escrow`
(`FundingOk`, `DeliveryOk`, `AcceptanceOk`, `SettlementOk`), the acceptance window included.

What a client reads of the feed is `Reads`: of each kind all events, or, when there are
more than its pages hold (50 of 200, `MaxRead`), any that many, since the feed is in
creation order and a new event may come anywhere. Its threshold is that of the policy,
or its own (`DefaultOnboardingThreshold`) when the policy's request fails or the answer
is not positive.

### KeySession, Handoff, DealBuilder, OpsEvidence

Every handler is an action up to its first await; what follows an await is an
action of its own (`SecretDerived`, `DerivationFails`, `Hashed`, `Signed`, `Answered`, ...), which reads from its
record in `typing`, `hashes`, `flights`, ... what the closure captured and from the variables
what the code reads anew. Such a record survives the component that began it, and
is lost with its tab. `Elsewhere` is what other clients do to an order.

In `KeySession` the settings page of a tab has a session of its own, `settings`, which it
loads when it is opened (`OpenSettings`) and which other tabs do not change: its panels
export (`ExportBackup`) and seal (`SetupVault`) that one. A backup file holds the pair it
was made of, matching or not (`backups`), and restoring compares its two public keys and
derives nothing. `torn` is a history variable with the pairs that may have been left
unmatched: by a derivation that failed, which sign-in-form.tsx:41 swallows, by a tab
that was closed, or by the vault or a backup that took them.

In `OpsEvidence` the exports route finds the root of the repository by walking up
(route.ts:122-148), and the console looks for the log under the directory it was started
in (operator-console-page.tsx:1644, 1812). `atRoot` says whether these are the same: they
are not when the client is started in apps/web, as scripts/dev-web.mjs:19 and
apps/web/README.md:51 do.

Abstractions: a pair of keys is a record in which the public key of secret `k` is
`k`; passwords, ciphers and passkeys succeed or fail; the queue and the audit log are
sets of numbered entries, the number being what the code orders them by, so that a
removal or a cleanup is a set difference; a form is its ids and its
reference, its other fields being validated at the click; the staging file of the
other party is any acknowledgment; in `OpsEvidence` reading a directory or a file is
one step, while emptying and rewriting the log are two.

## 3. What is checked

Every property of a passing run has a mutant in `PROJECT.json`: a plausible bug of
the code, one definition away, that violates it.

| Run | Shows |
|---|---|
| `escrow_handshakes` | `TypeOK`, `CreditsConserved`, `EscrowLedger`, `PayoutsMatchOutcome`, `HandshakesWellFormed`, `ExitNeedsBothParties`, `TermsNeedBothParties`, `DisputesEnd`, and the refinement `ImplementsIdealEscrow`, for a milestone of up to 2 credits through every handshake with up to 2 amendments, with lots that decay |
| `escrow_references` | `OutcomeIsFinal`, `AcceptedInWindow`, `RightStepIsAsked`: with two milestones in an order an event can refer to the delivery of the wrong one, an order can be rejected half way, and the client has to choose the active milestone, of which the step it asks for is one the engine applies, but for an acceptance after the window |
| `ingest_recovery` | `StoredIsLogged`, `FeedFollowsLog`, `ChainFollowsLog`, `RejectedOnlyByFailure` for two threads of a process with a crash and a failure, hash chain enabled; `IngestedOnce`, which says of a single process that resubmissions add no line; `RequestsEnd`, and that an event is fed once, also for two processes that share the directory |
| `snapshot_timely` | `ReplayInv`, `ReplayEquivalence`, `NothingStoredIsMissed` when `Timely` holds |
| `peer_sync` | `TypeOK` (the backoff stays within its cap), `NothingSkipped` and `CatchesUp` (of what peers offer, the node lacks at most one event per failure of its database), `FailuresTogether`, `DeltaFollowsSnapshot` |
| `trust` | `KeysActForTheirIdentity`, `VotesAreOfOthers`, `MintsAreBacked`, `RateIsKept`, and `EligibilityIsTrue` for clients that read all that was said about a provider |
| `web_pages` | `StoredPairMatches`, `RegistersIdentity` (sessions), `EvidenceIsWhole`, `QueueKeepsEvents` (handoff), `SentAsChecked`, `ChecklistAccepted` (deal builder), `ButtonsAreReleased` (wizard, queue and builder), `AuditIsKept`, `NewestRunsStay` (evidence) |

Five runs show a disagreement between the repository's documents and its code:

| Run | Property | What happens |
|---|---|---|
| `escrow_invalid_events` | `InvalidEventsInert` (K-02) | a ServiceOrder rejected for its second milestone leaves the first in the state |
| `ingest_present` | `PresentIsServed` (RES-01) | after a crash between the two inserts an event is present for ever and served never |
| `snapshot_race` | `ReplayEquivalence` (K-04) | an event that arrives between the replay of a snapshot and the query of its sequence number is missed by all later answers from it |
| `replay_kinds` | `AppliedKindsAreReplayed` | the queries of a replay filter out ServiceCancel and OrderAmend, which ingestion accepts and the engine applies |
| `peer_restore` | `RestorePreserved` (K-04) | one event older than an imported snapshot makes a bootstrapped node replay its own log, which lacks what the snapshot covers |

`ReplayEquivalence` fails in other ways, which need only other constants: with `Skew = 1`
and `SnapshotsAlone = TRUE` (an event created ahead of the node's clock belongs to
neither the checkpoint nor the delta), and with `SettledAt = 4` (a settlement created
after the timeout is applied by a replay from the genesis and rejected after a
snapshot that holds the refund). `Timely` names exactly these conditions. With several
processes `RejectedOnlyByFailure` and `FeedFollowsLog` fail, since each process has a lock of
its own and the loser's second insert is recorded as an invalid event.

Some divergences have no run of their own. They were seen while modelling:

* The dispute window is measured on the disputedAt the buyer writes and not on the
  creation of the event (replay.rs:2270).
* Once the acceptance window of a delivery is over the web client goes on asking the
  buyer to accept it, which the engine refuses (transaction-progress.ts:228-242,
  replay.rs:2123). No refund of the engine ends such a milestone either. A dispute may
  still take it out of that state when its disputedAt lies inside the window
  (replay.rs:2270), but the client moves disputedAt to the creation of the event at the
  earliest (marketplace-event-builder.tsx:1978), so that the buyer has to back-date the
  event. `RightStepIsAsked` names the exception.
* A pulled event whose ingestion fails on a database error leaves no row, while the
  cursor passes it (lib.rs:1356, 1847), so that it is pulled again only after a reset;
  docs/specs/restart-decisions.md:39 asks for "no silent drops".
* Outside the root of the repository the console shows no audit log and so no alert,
  although the route records the failures (see `OpsEvidence` in section 2).
* A page that shows eligibility falls back to a threshold of 2 (trust-bootstrap.ts:5, 264),
  which is that of the default policy and need not be that of the node's, and reads
  10,000 events of a kind at most.
* A remembered pair that does not match stays so after a derivation that failed, can be
  sealed and exported, and comes back by unlocking or restoring.
* After a cleanup of the audit log a failed line outlives the later success of its
  action, because failures are kept longer: the console alerts although the latest
  run passed (v1-export-audit-log-plan.mjs:149; docs/roadmap/progress.md:762 says
  that it alerts when the latest run failed). `AuditIsKept` states the direction that
  holds.
* A local reminder of an order may fire twice although the panel says that it
  "Fires once" (order-workspace-notes-panel.tsx): on the first load the panel and the
  flush of due reminders decrypt separate copies of the store, the flush marks its
  own, and saving the note from the panel's copy puts the unfired reminder back.
* Milestone keys join an order id and a milestone id with `:`, which both may contain
  (replay.rs:3716).
* Balances of a run are normalised at the time of its last event and not at its
  as_of (replay.rs:3167).
* The onboarding wizard counts vouches where the engine adds their weights
  (onboarding-wizard.tsx:855).
* Creation times are compared as text in SQL (storage.rs:608).

### Bounds

*Escrow.* Two identities are a buyer and a provider, who may also be the same one;
every handshake involves one milestone, so that one suffices for the handshakes,
and two are needed for references to the wrong one and for orders rejected half
way. Two credits let a settlement be split and an amendment go up and down. Times
up to 2 with windows of 1 put events before, at and after every limit. Two
amendments let a signature of the first meet the proposal of the second.

*EventIngest.* Two threads and two events are the least with two requests for one
event and two in different orders; a crash and a failure meet in one behavior,
and every place of a thread can be the one where they strike. Two processes race
for one event, with a crash.

*SnapshotReplay.* A dispute, its settlement and an unrelated event that may arrive
late; two snapshots, so that one is taken of a run resumed from the other and the
choice between two is real; times reach beyond the timeout of the dispute. One
thread is enough for TLC because requests meet only in the snapshots they read,
and the proof covers any number.

*PeerSync.* Two peers and one permit make a peer wait for another. One of them offers
two events, one of which the node refuses and which were created in the other order;
a third event is the node's own. A page holds one event and a pull two pages, so that
an event may be left to the next pull. One command at a time runs beside the
supervisor, and one request, ingestion or process fails, or one event is dropped. Delays up to 2 with an
interval of 2 reach the cap at once. `peer_restore` is the same instance without the
refused event.

*Trust.* Three keys, two of which have identities from the start, so that one may be
created, or be what another rotates to. `Mixes` are the budgets: vouches alone (three, for
a vouch, a revoke and a vouch again), keys alone, six steps of a claim, and rotations
between the steps of a claim. Expiries, windows and times are such that an edge
counts before and not at its expiry, and that two issuances fall into one window or
into two. A client reads two events of a kind (`MaxRead`), so that the third vouch of a
mix makes its pages too few.

*Web pages.* Two tabs with one key each or a common one; one order, in which the user is
the provider or the buyer, at the step before the evidence is reviewed, since a
wizard reaches it by filling in fields (`Prepared`). Three operations of the user and two
signatures are enough for a sign-in between hash, review and click, and three
operations for a typed secret, a derivation that fails and a pair that is sealed or
exported and comes back. The builder has
two orders, of which one has a delivery of its own, two milestones, one
submission and five other operations (edit, link, leave, restore, ...). The
console has two requests, a cleanup, three clicks and two days, with retentions of
a day or none.

`CHECK_DEADLOCK FALSE` everywhere: a log may end, bounds are reached, and a node may
refuse to start.

### Fairness

`Escrow!FairSpec` assumes weak fairness of the end of a run and nothing of the
parties. The engine has no timer; each read of the node replays the log as of the
moment it is asked for, so that a node somebody reads, or that takes snapshots, keeps
ending runs at later times. `MCEventIngest!MCFairSpec` assumes that a thread that can take
its next step does; it assumes nothing of requests, crashes or failures. A mutex is
not fair in general, but an event is ingested once and failures are few, so a
waiting thread is overtaken finitely often. `PeerSync!FairSpec` assumes that time passes,
that the supervisor's loop and its tasks go on, and that a request to a peer is
answered or fails; the last is a property of the transport, since the HTTP client
has no timeout of its own. It assumes nothing of the commands. `WebSpec` assumes that
continuations run and that requests are answered or fail, and nothing of the user.

## 4. What is proved

All proofs are checked by TLAPS for every value of the constants that satisfies
the named assumptions (types and freshness, `BoundsType`, `PolicyType`, ...). Every
invariant and every action property that a passing run checks, and the refinement,
is a theorem; the four liveness properties are not.

* `EscrowProofs`. `TypeCorrect`; then `InvariantHolds` for `EscrowInv`. The ledger alone is
  not inductive: that an exit pays what the milestone holds needs the payout facts,
  that it is agreed needs that a pending proposal was signed by the party it names
  (`ProposalsAreSigned`), and that a rejected order leaves nothing behind that a later
  order could be paid from needs `OrphansHoldNothing`. `LedgerBalances`,
  `OutcomesArePaid`, `HandshakesAreWellFormed` and `ExitsAreAgreed` follow.
  `OutcomesAreFinal`, `TermsAreAgreed` and `AcceptancesAreInTime` are action properties, by
  cases on the actions under the invariant: that an amendment was agreed to needs that
  the pending one was signed by the party it names. `CreditsAreConserved` needs no more
  than types, but every action that touches one milestone or one balance has to be
  shown to move as much out of one sum as into another (`EscrowMoves`, `LotsMove`,
  `TotalsMove`). `EscrowImplementsIdeal` maps every action to a deposit, a partial
  return, a close or a stutter of `IdealEscrow`. `RightStepsAreAsked` is about the web
  client's reading of an order (`OrderProgress`), for every later time of the event that
  takes the step: it needs what a status says of the funding and the delivery of its
  milestone (`Stated`) and that the milestones of a placed order are its
  own (`Listed`), which `EscrowInv` does not imply.
* `FiniteSums`. A sum over a finite domain is what the library defines by a fold over
  sets, whose value a prover sees only through the equation of its recursive function.
  `LeastOfNats` and an induction over subsets by a counterexample with the fewest
  elements give that sums are integers, follow a change of one value, and agree when
  the values do (`PartialSumsAgree`).
* `EventIngestProofs`. `InvariantHolds` for `IngestInv`, for any number of processes: the
  lock of a process is held by the thread that ingests, what is stored is logged,
  no event is fed twice. That two threads never order the same event needs no lock:
  it rests on the primary key of the table (`EventInProgress`). `LogIsComplete` and
  `EventsAreFedOnce` follow. With `SingleServer`, `SingleServerInv` adds that the event
  being ingested is absent from the tables and last in the log; `FeedHasLogOrder` and
  `RejectionsAreFailures` follow. `IngestionIsIdempotent` rests on `LinesInv`: each line is
  paid for by a stored event, a crash, a failure, or the one thread that has written
  its line and not its row. `ChainVerifiesAtRest` rests on `ChainFollows`, which says
  where the two files are at each stage: texts and ends of line alternate, the chain
  has one entry less than the log has lines between the writing of a line and that of
  its entry, the line without an entry is that of the thread that ingests, and the
  entry it has prepared covers all lines.
* `SnapshotReplayProofs`. `Timely => (Spec => []ReplayInv)`: a snapshot is the run over a
  prefix of the feed that its as_of covers entirely. The core is the lemma
  `ResumedRunIsReplay`: a run resumed over lines that are all later than its
  checkpoint is the run over all lines, provided no dispute was refunded that a
  later line settles. `SnapshotsAnswerAsReplay` and `AnswersMissNothing` follow. The
  lines are those of the replayed kinds, whatever the list is.
* `PeerSyncProofs`. `SyncInvariant`: types, that what a pull has passed of its page is
  accounted for (by ingestion, by a record of its rejection, or by an imported
  snapshot the cursor was seeded from) or dropped, with a fault for each event dropped, that the failure fields a pull read agree, and
  that no seq exceeds the floor, while what was stored since a bootstrap exceeds its
  snapshot's. Where cursors may be seeded from
  snapshots it needs `TimelySnapshots`: a snapshot taken of a past time does not cover
  what its sequence number says. `NothingIsSkipped`, `FailuresStayTogether` and
  `DeltaIsReplayed` follow, for any number of peers, commands, pages and failures.
  `RowsKeepTheirTypes` adds the delays: a power of two is capped, for any number of
  failures, because the exponent is at most 20.
* `TrustProofs`. `InvariantHolds` for `TrustInv`: an edge that is not revoked comes from a
  vouch event and joins two identities, approvals and lots are finite sets, and no lot
  is later than the last event. A vote needs a voucher because a sum over no
  identities is zero (`ScoreNeedsVoucher`); the rate is kept in every window because
  lots are minted in the order of time, so that a window with the newest lot in it has
  only lots of the window that ends with it. `RetiredKeysActForNobody`,
  `ClaimsAreVotedOnByOthers`, `LotsAreBacked` and `IssuancesKeepTheRate` follow, for any
  number of keys and claims. `EligibilityIsShown` joins the two folds of the feed: the
  invariant `EdgesFollowFeed` says that, until a key is rotated, the engine's edge
  between two keys is the last vouch of one for the other and is revoked exactly when a
  later revoke of theirs is in the feed; the two scores are then sums of the same
  values. It needs that there are finitely many keys (`KeysType`). It is stated of a
  client that read every event about the provider: what is about others changes
  neither sum (`AllIsRead`), so that a fold cut short elsewhere does no harm.
* `HandoffProofs`. `KeysKeepTheirInvariant` for `KeyInv`: the pairs that can still reach the
  remembered session (those of keys, of the vault, of a backup, of an unlock that is
  under way) match or are in `torn`, where a step puts a pair only when it is unmatched
  and a derivation fails, a tab closes over one, or the vault or a backup takes it. The
  settings page's session is no such pair by itself, since nothing but these two copies it.
  `RememberedPairMatches` and `RegistrationsSignIn` follow. `HandoffKeepsItsInvariant` for
  `QueueInv`: an event that was not queued is in exactly one flight, one that was queued
  has one id whichever tab holds the entry, and what a flight says was accepted is in
  the log; so an event leaves the queue only when the node has it or the user removed
  it. `SignedEvidenceIsWhole` and `SignedEventsAreKept` follow.
* `PagesProofs`. `EvidenceKeepsItsInvariant` for `OpsInv`: a cleanup rewrites the log only
  after it archived what it leaves out, every line recorded is in the log, in the
  archive, in a cleanup's hands or among those an overlapping cleanup lost, and as many
  completed runs as are kept are newer than any that a plan or a clipboard lists. A
  clipboard can only come from a console that reads the root's plan (`atRoot`).
  `AuditSurvivesCleanups` and `NewestRunsAreKept` follow. `BuilderKeepsItsInvariant` for
  `BuilderInv`: a submission has what the form had at its click from the click on, though
  some of its fields are read after an await, and what the node has is from others or
  such a submission. `SubmissionsAreFaithful` and `ChecklistIsAccepted` follow.

The provers have no induction over data. Its place is taken by least elements of sets of
naturals (`LeastNatural`, `LeastOfNats`), by minimal subsets (`SubsetInduction` in
`FiniteSums`), and, where a count of a growing file is needed, by its change at the end
(`TextsGrow`).

The inductive invariants were checked by TLC on the instances of the runs before they
were proved; of them only `ReplayInv` is a property of a listed run, since the others
imply the named properties that are.

Only model-checked: `DisputesEnd`, `RequestsEnd`, `CatchesUp` and `ButtonsAreReleased`
(liveness under fairness is beyond the prover), and with `RequestsEnd` that the two
processes of `Shared` feed an event once, which `IngestionIsIdempotent` proves of any
number. The five violations are shown by TLC.

## 5. What the properties rest on

* `EscrowLedger` and `PayoutsMatchOutcome` speak of one replay. That two replays agree is
  `SnapshotReplay`'s subject, and that they are given the same events is that of
  `EventIngest` and `PeerSync`.
* `SnapshotReplay` shows equivalence for a reduced engine, in which the refund at the
  end of a run is the only thing that depends on where a run was cut. The decay of
  lots does not: `normalize_lots` advances the last decay by whole weeks.
* `FeedFollowsLog` and `RejectedOnlyByFailure` need a single process.
* `NothingSkipped` counts an event as accounted for when it was rejected. An event that
  was rejected because what it depends on was missing is not fetched again; ingestion
  validates an envelope statically, so that dependencies are judged by later replays.
* `EligibilityIsTrue` is about identities that were never rotated, vouches the engine
  applied with a positive weight, and clients whose pages hold every event about the
  provider; the client sees keys and raw events, and may be wrong beyond that. Of the
  verdict it excepts a client that fell back to a threshold that is not the policy's.
* `NothingSkipped` and `CatchesUp` except one event per failure of the database, and
  `StoredPairMatches` the pairs that were left unmatched in one of the ways `torn` lists; it
  states that no others are.
* The alert of `AuditIsKept` is that of a console that works in the root.
* `SentAsChecked` asks of milestones, which are read late, only that there are some;
  `ChainFollowsLog` is about runs without crash or failed read; `DeltaFollowsSnapshot` about
  what is stored once a bootstrap has moved the floor; `KeysActForTheirIdentity` says
  that no key acts for two identities, not that each identity keeps its key. The hazards
  on the other side of these lines (`PROJECT.json`) have a note and no property.
* `QueueKeepsEvents` excepts entries queued in one millisecond, which share their id, and
  `AuditIsKept` the lines an overlapping cleanup overwrites.

## 6. What is not modelled

* The wire formats, hashing and signatures of the protocol core: pure functions over
  data. The HTTP server, the CLI and the SDK: each call is one function of the node.
* The rollups and alerts of the node (a quarter of `node/src/lib.rs`): read-only
  classification of rows.
* Of the engine: the lots themselves (decay, expiry, FIFO), policy updates and the
  timeline of versions, reputation, mints of market closes and the caps per set of
  attestors.
* Rate limiting: one window of timestamps per client behind one lock; what matters
  in it is a comparison at its boundary (ingest_rate_limit.rs:81).
* The desktop shell: the life of a child process and of an unlocked vault, made of
  calls of the operating system.
* Most of the web client by lines. It has some 300 files of which most are views:
  what a page shows of one answer of the node, in JSX, without state that outlives
  the answer. The contribution, offer and quickstart forms send one request per
  button from fields captured at the click. The console's more than 3,900 lines are
  mostly panels of read-only rollups; `OpsEvidence` has what it writes. The notes of
  the order workspace, with a cache per tab over one document per browser, are left
  out, but for the observation in section 3.
* The scripts under `scripts/` but those of `OpsEvidence`: drills, smoke tests, fixture
  generators and packaging, which run other programs one after another and
  compare their output. There is nothing between their steps that a model could
  order differently.

## 7. Plan

What remains to be proved is no property of a run but what they rest on:

1. That what the two partial rejections of `Escrow` (`RejectOrder`, `RejectFunding`) leave
   behind is read by no later event of another order.
2. The safety part of the liveness properties: that a dispute past its timeout enables
   the refund, that a thread that waits is behind one that can go on, and that a button
   that is held belongs to a continuation that will release it, as invariants.
3. That a run of `SnapshotReplay` depends on the set of the lines it is given and their
   order only, for any engine that refunds nothing, so that the equivalence does not
   rest on the reduced engine.

Beyond proof: the contribution form, the notes of the order workspace and the rate
limit of ingestion are the next parts to model.
