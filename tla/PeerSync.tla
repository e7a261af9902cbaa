------------------------------ MODULE PeerSync ------------------------------
(***************************************************************************)
(* How a node replicates the feeds of its peers (sync_* and                *)
(* run_sync_cycle in crates/node/src/lib.rs, peer_sync_state and           *)
(* event_order in storage.rs).  The supervisor of node serve pulls every   *)
(* enabled peer that is due, in parallel, cycle after cycle; the commands  *)
(* node sync pull, reset and bootstrap of the CLI work on the same rows    *)
(* from a process of their own.  A pull reads the row of its peer before   *)
(* its first await and writes the whole of it back at its end.             *)
(*                                                                         *)
(* A peer is its feed: event_order only grows, and a row's seq is taken to *)
(* be its place.  An ingestion is one step (EventIngest has its parts); it *)
(* may fail, leaving a row of invalid_events or nothing at all, and a pull *)
(* counts either like any rejection and passes the event.  Time is what is *)
(* left until next_attempt_at.                                             *)
(***************************************************************************)
EXTENDS Integers, Sequences, FiniteSets

CONSTANTS
  Peers,
  Commands,        \* processes of the CLI
  Events,
  Created,         \* creation time of an event
  Offers,          \* the events a peer may come to store
  Own,             \* the events the node's own clients may submit
  Refused,         \* events the static validation of this node refuses
  Limit,           \* events of a page, 1..200
  MaxPages,        \* pages of a pull
  MaxParallel,     \* max_parallel_peers
  Interval,        \* interval_seconds
  MaxDelay,        \* 300 seconds
  TimelySnapshots, \* whether peers take snapshots as of a time past every creation time
  MaxFaults,       \* bound: failed requests, failed ingestions, crashes
  MaxCommands      \* bound

ASSUME PeersType == Peers # {} /\ Peers \cap Commands = {} /\ IsFiniteSet(Peers)
ASSUME EventsType ==
  /\ Created \in [Events -> Nat]
  /\ Offers \in [Peers -> SUBSET Events]
  /\ Own \subseteq Events /\ Refused \subseteq Events
ASSUME ParametersType ==
  /\ Limit \in Nat \ {0} /\ MaxPages \in Nat \ {0} /\ MaxParallel \in Nat \ {0}
  /\ Interval \in Nat \ {0} /\ MaxDelay \in Nat
  /\ TimelySnapshots \in BOOLEAN
  /\ MaxFaults \in Nat /\ MaxCommands \in Nat

VARIABLES
  remote,    \* event_order of each peer
  seqOf,     \* local event_order: the seq of an event, 0 when it is not stored
  floor,     \* sqlite_sequence: the last seq given out
  invalid,   \* invalid_events
  dropped,   \* ghost: events whose ingestion failed and left nothing
  imported,  \* snapshots of peers in the table snapshots
  aligned,   \* ghost: a snapshot, and the events held when the floor followed it
  \* peer_sync_state, an absent row being the default one:
  cursor, failures, broken, wait,
  enabled,   \* peers.json: the peers that are enabled
  due,       \* peers the supervisor's cycle has still to start
  \* A pull: its next step, and the local variables of sync_peer_pull_once:
  pc, at, pageEnd, full, pages, error, oldFailures, oldWait,
  \* A command: the peers it has still to pull, its peer, its snapshot:
  todo, target, snap,
  faults, commands

feeds == <<remote, seqOf, floor, invalid, dropped>>
snapshots == <<imported, aligned>>
rows == <<cursor, failures, broken, wait>>
pull == <<at, pageEnd, full, pages, error, oldFailures, oldWait>>
command == <<todo, target, snap>>
vars == <<feeds, snapshots, rows, enabled, due, pc, pull, command, faults, commands>>

-----------------------------------------------------------------------------
Pullers == Peers \cup Commands

\* The peer a pull reads.  A task of the supervisor is named by its peer.
PeerOf(t) == IF t \in Peers THEN t ELSE target[t]

Held == {e \in Events : seqOf[e] > 0}

Snapshot == [peer : Peers, seq : Nat, asOf : Nat, covers : SUBSET Events]

NoSnapshot == [peer |-> CHOOSE p \in Peers : TRUE, seq |-> 0, asOf |-> 0, covers |-> {}]

CoveredBy(p, n, a) ==
  {remote[p][i] : i \in {j \in 1 .. n : Created[remote[p][j]] <= a}}

\* What create_snapshot of a peer may have stored: event_seq is the greatest seq
\* created by as_of, and the checkpoint covers what was created by then.
SnapshotsOf(p) ==
  {s \in {[peer |-> p, seq |-> n, asOf |-> Created[e], covers |-> CoveredBy(p, n, Created[e])] :
            n \in 1 .. Len(remote[p]), e \in Events} :
     /\ Created[remote[p][s.seq]] <= s.asOf
     /\ TimelySnapshots => \A j \in 1 .. s.seq : Created[remote[p][j]] <= s.asOf}

Smaller(m, n) == IF m < n THEN m ELSE n
Greater(m, n) == IF m < n THEN n ELSE m

\* Mutant of Backoff: the cap is applied before the multiplication.
BackoffCappedFirst(n) == Smaller(Interval, MaxDelay) * 2 ^ Smaller(n, 20)

\* compute_backoff_delay_seconds.
Backoff(n) == Smaller(Interval * 2 ^ Smaller(n, 20), MaxDelay)

-----------------------------------------------------------------------------
TypeOK ==
  /\ remote \in [Peers -> Seq(Events)]
  /\ seqOf \in [Events -> Nat] /\ floor \in Nat
  /\ invalid \subseteq Events /\ dropped \subseteq Events
  /\ imported \subseteq Snapshot
  /\ aligned \subseteq Snapshot \X SUBSET Events
  /\ cursor \in [Peers -> Nat] /\ failures \in [Peers -> Nat]
  /\ broken \in [Peers -> BOOLEAN] /\ wait \in [Peers -> 0 .. MaxDelay]
  /\ enabled \subseteq Peers /\ due \subseteq Peers
  /\ pc \in [Pullers -> {"idle", "fetch", "ingest", "save", "document", "seed", "align"}]
  /\ at \in [Pullers -> Nat] /\ pageEnd \in [Pullers -> Nat]
  /\ full \in [Pullers -> BOOLEAN] /\ pages \in [Pullers -> Nat]
  /\ error \in [Pullers -> BOOLEAN]
  /\ oldFailures \in [Pullers -> Nat] /\ oldWait \in [Pullers -> 0 .. MaxDelay]
  /\ todo \in [Commands -> SUBSET Peers] /\ target \in [Commands -> Peers]
  /\ snap \in [Commands -> Snapshot \cup {NoSnapshot}]
  /\ faults \in Nat /\ commands \in Nat

Init ==
  /\ remote = [p \in Peers |-> <<>>]
  /\ seqOf = [e \in Events |-> 0] /\ floor = 0 /\ invalid = {} /\ dropped = {}
  /\ imported = {} /\ aligned = {}
  /\ cursor = [p \in Peers |-> 0] /\ failures = [p \in Peers |-> 0]
  /\ broken = [p \in Peers |-> FALSE] /\ wait = [p \in Peers |-> 0]
  /\ enabled = Peers /\ due = {}
  /\ pc = [t \in Pullers |-> "idle"]
  /\ at = [t \in Pullers |-> 0] /\ pageEnd = [t \in Pullers |-> 0]
  /\ full = [t \in Pullers |-> FALSE] /\ pages = [t \in Pullers |-> 0]
  /\ error = [t \in Pullers |-> FALSE]
  /\ oldFailures = [t \in Pullers |-> 0] /\ oldWait = [t \in Pullers |-> 0]
  /\ todo = [c \in Commands |-> {}]
  /\ target = [c \in Commands |-> CHOOSE p \in Peers : TRUE]
  /\ snap = [c \in Commands |-> NoSnapshot]
  /\ faults = 0 /\ commands = 0

-----------------------------------------------------------------------------
(* The surroundings *)

\* A peer stores an event.
Publish(p, e) ==
  /\ e \in Offers[p]
  /\ \A i \in 1 .. Len(remote[p]) : remote[p][i] # e
  /\ remote' = [remote EXCEPT ![p] = Append(@, e)]
  /\ UNCHANGED <<seqOf, floor, invalid, dropped, snapshots, rows, enabled, due, pc,
                 pull, command, faults, commands>>

\* The node stores an event it does not hold: AUTOINCREMENT.
Store(e) ==
  /\ seqOf' = [seqOf EXCEPT ![e] = floor + 1]
  /\ floor' = floor + 1
  /\ UNCHANGED <<invalid, dropped>>

Reject(e) ==
  /\ invalid' = invalid \cup {e}
  /\ UNCHANGED <<seqOf, floor, dropped>>

\* The database fails the question whether the event is there, or fails to record
\* why the event is not stored, which ingest_event ignores.
Drop(e) ==
  /\ dropped' = dropped \cup ({e} \ (Held \cup invalid))
  /\ UNCHANGED <<seqOf, floor, invalid>>

\* A client of the node submits an event.
Submit(e) ==
  /\ e \in Own \ (Refused \cup Held)
  /\ Store(e)
  /\ UNCHANGED <<remote, snapshots, rows, enabled, due, pc, pull, command, faults,
                 commands>>

\* Time passes.
Tick ==
  /\ \E p \in Peers : wait[p] > 0
  /\ wait' = [p \in Peers |-> Greater(wait[p] - 1, 0)]
  /\ oldWait' = [t \in Pullers |-> Greater(oldWait[t] - 1, 0)]
  /\ UNCHANGED <<feeds, snapshots, cursor, failures, broken, enabled, due, pc, at,
                 pageEnd, full, pages, error, oldFailures, command, faults, commands>>

Fault ==
  /\ faults < MaxFaults
  /\ faults' = faults + 1

\* The operator edits peers.json.
Toggle(p) ==
  /\ commands < MaxCommands
  /\ commands' = commands + 1
  /\ enabled' = IF p \in enabled THEN enabled \ {p} ELSE enabled \cup {p}
  /\ UNCHANGED <<feeds, snapshots, rows, due, pc, pull, command, faults>>

-----------------------------------------------------------------------------
(* One pull: sync_peer_pull_once *)

Go(t, next) == pc' = [pc EXCEPT ![t] = next]

\* The local variables of pulls that ended are gone.
Forget(T) ==
  /\ at' = [t \in Pullers |-> IF t \in T THEN 0 ELSE at[t]]
  /\ pageEnd' = [t \in Pullers |-> IF t \in T THEN 0 ELSE pageEnd[t]]
  /\ full' = [t \in Pullers |-> full[t] /\ t \notin T]
  /\ pages' = [t \in Pullers |-> IF t \in T THEN 0 ELSE pages[t]]
  /\ error' = [t \in Pullers |-> error[t] /\ t \notin T]
  /\ oldFailures' = [t \in Pullers |-> IF t \in T THEN 0 ELSE oldFailures[t]]
  /\ oldWait' = [t \in Pullers |-> IF t \in T THEN 0 ELSE oldWait[t]]

\* The row is read.
Begin(t, p) ==
  /\ at' = [at EXCEPT ![t] = cursor[p]]
  /\ oldFailures' = [oldFailures EXCEPT ![t] = failures[p]]
  /\ oldWait' = [oldWait EXCEPT ![t] = wait[p]]
  /\ pages' = [pages EXCEPT ![t] = 0]
  /\ error' = [error EXCEPT ![t] = FALSE]
  /\ pageEnd' = [pageEnd EXCEPT ![t] = 0]
  /\ full' = [full EXCEPT ![t] = FALSE]

\* A page arrives: fetch_remote_events_page, answered by list_events of the peer.
Fetch(t) ==
  LET last == Smaller(at[t] + Limit, Len(remote[PeerOf(t)]))
  IN
  /\ pc[t] = "fetch"
  /\ IF last <= at[t]
       THEN Go(t, "save") /\ UNCHANGED <<pageEnd, full>>
       ELSE /\ Go(t, "ingest")
            /\ pageEnd' = [pageEnd EXCEPT ![t] = last]
            /\ full' = [full EXCEPT ![t] = last = at[t] + Limit]
  /\ UNCHANGED <<feeds, snapshots, rows, enabled, due, at, pages, error, oldFailures,
                 oldWait, command, faults, commands>>

\* The request fails, is not authorised or cannot be decoded.
FetchFails(t) ==
  /\ pc[t] = "fetch"
  /\ Fault
  /\ Go(t, "save")
  /\ error' = [error EXCEPT ![t] = TRUE]
  /\ UNCHANGED <<feeds, snapshots, rows, enabled, due, at, pageEnd, full, pages,
                 oldFailures, oldWait, command, commands>>

\* Mutant of Passed: the cursor stays before an event that was rejected.
PassedUnlessRejected(t, e) == IF e \in Refused THEN at[t] ELSE at[t] + 1

\* page_last_seq after an event: whatever became of it.
Passed(t, e) == at[t] + 1

\* The next event of the page is ingested; the last one ends the page.
Ingest(t) ==
  LET e == remote[PeerOf(t)][at[t] + 1]
      endOfPage == at[t] + 1 = pageEnd[t]
      more == full[t] /\ pages[t] + 1 < MaxPages
  IN
  /\ pc[t] = "ingest"
  /\ \/ /\ e \in Refused
        /\ Reject(e) /\ UNCHANGED faults
     \/ /\ e \notin Refused \cup Held
        /\ Store(e) /\ UNCHANGED faults
     \/ /\ e \in Held \ Refused
        /\ UNCHANGED <<seqOf, floor, invalid, dropped, faults>>
     \/ /\ e \notin Refused \cup Held
        /\ Fault
        /\ Reject(e)
     \/ Fault /\ Drop(e)
  /\ at' = [at EXCEPT ![t] = Passed(t, e)]
  /\ Go(t, IF ~endOfPage THEN "ingest" ELSE IF more THEN "fetch" ELSE "save")
  /\ pages' = IF endOfPage THEN [pages EXCEPT ![t] = @ + 1] ELSE pages
  /\ UNCHANGED <<remote, snapshots, rows, enabled, due, pageEnd, full, error,
                 oldFailures, oldWait, command, commands>>

\* Mutant of SavedFailures: a success leaves the streak.
SavedFailuresKept(t) == oldFailures[t] + (IF error[t] /\ t \in Peers THEN 1 ELSE 0)

\* Only the supervisor counts failures: apply_backoff.
SavedFailures(t) ==
  IF ~error[t] THEN 0
  ELSE oldFailures[t] + (IF t \in Peers THEN 1 ELSE 0)

SavedWait(t) ==
  IF ~error[t] THEN 0
  ELSE IF t \in Peers THEN Backoff(SavedFailures(t)) ELSE oldWait[t]

\* The whole row is written, over whatever it has become since it was read.
Save(t) ==
  LET p == PeerOf(t)
  IN
  /\ pc[t] = "save"
  /\ cursor' = [cursor EXCEPT ![p] = at[t]]
  /\ failures' = [failures EXCEPT ![p] = SavedFailures(t)]
  /\ wait' = [wait EXCEPT ![p] = SavedWait(t)]
  /\ broken' = [broken EXCEPT ![p] = error[t]]
  /\ Go(t, "idle") /\ Forget({t})
  /\ UNCHANGED <<feeds, snapshots, enabled, due, command, faults, commands>>

-----------------------------------------------------------------------------
(* The supervisor *)

Running == {p \in Peers : pc[p] # "idle"}

\* run_sync_cycle begins when the tasks of the last one have ended.
StartCycle ==
  /\ due = {} /\ Running = {}
  /\ due' = {p \in enabled : wait[p] = 0}
  /\ due' # {}
  /\ UNCHANGED <<feeds, snapshots, rows, enabled, pc, pull, command, faults, commands>>

\* A permit of the semaphore is free; respect_next_attempt.
Spawn(p) ==
  /\ p \in due
  /\ Cardinality(Running) < MaxParallel
  /\ due' = due \ {p}
  /\ IF wait[p] = 0 THEN Begin(p, p) /\ Go(p, "fetch") ELSE UNCHANGED <<pull, pc>>
  /\ UNCHANGED <<feeds, snapshots, rows, enabled, command, faults, commands>>

\* node serve is killed and starts again.
Restart ==
  /\ due # {} \/ Running # {}
  /\ Fault
  /\ due' = {}
  /\ pc' = [t \in Pullers |-> IF t \in Peers THEN "idle" ELSE pc[t]]
  /\ Forget(Peers)
  /\ UNCHANGED <<feeds, snapshots, rows, enabled, command, commands>>

-----------------------------------------------------------------------------
(* The commands *)

Free(c) == pc[c] = "idle" /\ todo[c] = {}

Run(c) ==
  /\ Free(c)
  /\ commands < MaxCommands
  /\ commands' = commands + 1

\* node sync pull: one peer, all of them, or those enabled (select_sync_peers).
SyncPull(c, S) ==
  /\ Run(c)
  /\ todo' = [todo EXCEPT ![c] = S]
  /\ UNCHANGED <<feeds, snapshots, rows, enabled, due, pc, pull, target, snap, faults>>

\* The command turns to a peer, neither heeding nor causing a backoff.
PullNext(c, p) ==
  /\ pc[c] = "idle"
  /\ p \in todo[c]
  /\ todo' = [todo EXCEPT ![c] = @ \ {p}]
  /\ target' = [target EXCEPT ![c] = p]
  /\ Begin(c, p)
  /\ Go(c, "fetch")
  /\ UNCHANGED <<feeds, snapshots, rows, enabled, due, snap, faults, commands>>

\* node sync reset deletes rows.
SyncReset(c, S) ==
  /\ Run(c)
  /\ cursor' = [p \in Peers |-> IF p \in S THEN 0 ELSE cursor[p]]
  /\ failures' = [p \in Peers |-> IF p \in S THEN 0 ELSE failures[p]]
  /\ broken' = [p \in Peers |-> broken[p] /\ p \notin S]
  /\ wait' = [p \in Peers |-> IF p \in S THEN 0 ELSE wait[p]]
  /\ UNCHANGED <<feeds, snapshots, enabled, due, pc, pull, command, faults>>

\* node sync bootstrap asks for a snapshot.
SyncBootstrap(c, p) ==
  /\ Run(c)
  /\ target' = [target EXCEPT ![c] = p]
  /\ Go(c, "document")
  /\ UNCHANGED <<feeds, snapshots, rows, enabled, due, pull, todo, snap, faults>>

\* The document arrives and passes validate_imported_snapshot; it is inserted, unless
\* it is there already, and the row is read.
Import(c) ==
  /\ pc[c] = "document"
  /\ \E s \in SnapshotsOf(target[c]) :
       /\ snap' = [snap EXCEPT ![c] = s]
       /\ imported' = imported \cup {s}
  /\ at' = [at EXCEPT ![c] = cursor[target[c]]]
  /\ Go(c, "seed")
  /\ UNCHANGED <<feeds, aligned, rows, enabled, due, pageEnd, full, pages, error,
                 oldFailures, oldWait, todo, target, faults, commands>>

\* There is no snapshot, the request fails, or the document fails the validation.
BootstrapFails(c) ==
  /\ pc[c] = "document"
  /\ Go(c, "idle")
  /\ UNCHANGED <<feeds, snapshots, rows, enabled, due, pull, command, faults, commands>>

\* Mutant of Seed: the cursor is seeded with the head of the peer's feed.
SeedHead(c) == Greater(at[c], Len(remote[target[c]]))

Seed(c) == Greater(at[c], snap[c].seq)

\* The row is written with the cursor of the snapshot.
SeedCursor(c) ==
  LET p == target[c]
  IN
  /\ pc[c] = "seed"
  /\ cursor' = [cursor EXCEPT ![p] = Seed(c)]
  /\ failures' = [failures EXCEPT ![p] = 0]
  /\ broken' = [broken EXCEPT ![p] = FALSE]
  /\ wait' = [wait EXCEPT ![p] = 0]
  /\ at' = [at EXCEPT ![c] = Seed(c)]
  /\ Go(c, "align")
  /\ UNCHANGED <<feeds, snapshots, enabled, due, pageEnd, full, pages, error,
                 oldFailures, oldWait, command, faults, commands>>

\* Mutant of Floor: the sequence is left as it is.
FloorUnchanged(c) == floor

Floor(c) == Greater(floor, at[c])

\* ensure_event_order_sequence_at_least; then the peer is pulled.
Align(c) ==
  /\ pc[c] = "align"
  /\ floor' = Floor(c)
  /\ aligned' = aligned \cup {<<snap[c], Held>>}
  /\ snap' = [snap EXCEPT ![c] = NoSnapshot]
  /\ todo' = [todo EXCEPT ![c] = {target[c]}]
  /\ Go(c, "idle") /\ Forget({c})
  /\ UNCHANGED <<remote, seqOf, invalid, dropped, imported, rows, enabled, due, target,
                 faults, commands>>

\* A command is killed.
Kill(c) ==
  /\ ~Free(c)
  /\ Fault
  /\ Go(c, "idle") /\ Forget({c})
  /\ todo' = [todo EXCEPT ![c] = {}]
  /\ snap' = [snap EXCEPT ![c] = NoSnapshot]
  /\ UNCHANGED <<feeds, snapshots, rows, enabled, due, target, commands>>

-----------------------------------------------------------------------------
Selections == {{p} : p \in Peers} \cup {Peers, enabled}

Surroundings ==
  \/ \E p \in Peers, e \in Events : Publish(p, e)
  \/ \E e \in Events : Submit(e)
  \/ \E p \in Peers : Toggle(p)
  \/ Tick

Step(t) == Fetch(t) \/ FetchFails(t) \/ Ingest(t) \/ Save(t)

Supervisor == StartCycle \/ Restart \/ \E p \in Peers : Spawn(p)

Command(c) ==
  \/ \E S \in Selections : SyncPull(c, S) \/ SyncReset(c, S)
  \/ \E p \in Peers : PullNext(c, p) \/ SyncBootstrap(c, p)
  \/ Import(c) \/ BootstrapFails(c) \/ SeedCursor(c) \/ Align(c) \/ Kill(c)

Next ==
  \/ Surroundings
  \/ Supervisor
  \/ \E t \in Pullers : Step(t)
  \/ \E c \in Commands : Command(c)

Spec == Init /\ [][Next]_vars

\* The supervisor's tasks run, requests are answered or fail (the HTTP client has no
\* timeout of its own, so this is asked of the peers), and time passes.  Nothing is
\* asked of the commands.
FairSpec ==
  /\ Spec
  /\ WF_vars(Tick)
  /\ WF_vars(StartCycle)
  /\ \A p \in Peers : WF_vars(Spawn(p)) /\ WF_vars(Fetch(p) \/ Ingest(p) \/ Save(p))

-----------------------------------------------------------------------------
(* Properties *)

\* What the node has of an event: it, a record of its rejection, or a snapshot that
\* covers it.
Accounted == Held \cup invalid \cup UNION {s.covers : s \in imported}

\* Every event of a peer's feed at or below the cursor is accounted for, although
\* pulls, bootstraps and resets of the same peer overwrite each other's row and
\* processes are killed in between; but for events lost to a failure of the database,
\* of which each failure takes one at most.
NothingSkipped ==
  /\ Cardinality(dropped) <= faults
  /\ \A p \in Peers :
       /\ cursor[p] <= Len(remote[p])
       /\ \A i \in 1 .. cursor[p] : remote[p][i] \in Accounted \cup dropped

\* The failure fields of a row belong together: a peer is only kept waiting after
\* failures, and only counts failures while its last result is an error.
FailuresTogether ==
  \A p \in Peers :
    /\ wait[p] # 0 => failures[p] > 0
    /\ failures[p] > 0 => broken[p]

\* replay_execution on the snapshot s: backfill makes it replay the node's own log.
HasBackfill(s) == \E e \in Held : seqOf[e] > s.seq /\ Created[e] <= s.asOf

Replayed(s) ==
  IF HasBackfill(s) THEN Held
  ELSE s.covers \cup {e \in Held : seqOf[e] > s.seq /\ Created[e] > s.asOf}

IsLatest(s) == \A r \in imported : r.asOf <= s.asOf

\* After a bootstrap, and as long as nothing older than its snapshot arrives, the state
\* has what the snapshot covers and every event stored since the bootstrap.
DeltaFollowsSnapshot ==
  \A x \in aligned :
    IsLatest(x[1]) /\ ~HasBackfill(x[1])
      => x[1].covers \cup (Held \ x[2]) \subseteq Replayed(x[1])

\* docs/specs/deployment-distribution-spec.md:105, "Restore must preserve K-04 (genesis
\* = snapshot+delta)": what an imported snapshot covers stays in the state.
RestorePreserved ==
  \A x \in aligned : IsLatest(x[1]) => x[1].covers \subseteq Replayed(x[1])

\* The node catches up with a peer that stays enabled, again and again, whatever the
\* requests that fail, the restarts and the commands of the operator: what it lacks
\* then is what it dropped, and nothing when the database never failed it.
CatchesUp ==
  \A p \in Peers :
    <>[](p \in enabled)
      => []<>(\A i \in 1 .. Len(remote[p]) : remote[p][i] \in Accounted \cup dropped)

=============================================================================
