--------------------------- MODULE PeerSyncProofs ---------------------------
(***************************************************************************)
(* Proofs about PeerSync, for every set of peers, commands and events and  *)
(* every page size, backoff and bound: no pull, bootstrap, reset, crash or *)
(* interleaving of them moves a cursor past an event that was not offered  *)
(* to the node, and the events stored after a bootstrap are in its delta.  *)
(***************************************************************************)
EXTENDS PeerSync, FiniteSetTheorems, TLAPS

-----------------------------------------------------------------------------
(* The invariant *)

\* TypeOK without what DelayTypes has.
Types ==
  /\ remote \in [Peers -> Seq(Events)]
  /\ seqOf \in [Events -> Nat] /\ floor \in Nat
  /\ invalid \subseteq Events /\ dropped \subseteq Events
  /\ imported \subseteq Snapshot
  /\ aligned \subseteq Snapshot \X SUBSET Events
  /\ cursor \in [Peers -> Nat] /\ failures \in [Peers -> Nat]
  /\ broken \in [Peers -> BOOLEAN] /\ DOMAIN wait = Peers
  /\ enabled \subseteq Peers
  /\ pc \in [Pullers -> {"idle", "fetch", "ingest", "save", "document", "seed", "align"}]
  /\ at \in [Pullers -> Nat] /\ pageEnd \in [Pullers -> Nat]
  /\ pages \in [Pullers -> Nat]
  /\ error \in [Pullers -> BOOLEAN]
  /\ oldFailures \in [Pullers -> Nat] /\ DOMAIN oldWait = Pullers
  /\ todo \in [Commands -> SUBSET Peers] /\ target \in [Commands -> Peers]
  /\ snap \in [Commands -> Snapshot \cup {NoSnapshot}]

\* What was ingested, with whatever result, or comes with a snapshot.
Met == Accounted \cup dropped

\* A peer's feed has n rows, which the node met when snapshots are timely.
Through(p, n) ==
  /\ n <= Len(remote[p])
  /\ TimelySnapshots => \A i \in 1 .. n : remote[p][i] \in Met

\* What a pull or a command in progress knows.
Knows(t) ==
  /\ pc[t] \in {"fetch", "ingest", "save", "seed", "align"} => Through(PeerOf(t), at[t])
  /\ pc[t] = "ingest" => at[t] < pageEnd[t] /\ pageEnd[t] <= Len(remote[PeerOf(t)])
  /\ pc[t] \in {"seed", "align"} => t \in Commands /\ snap[t] \in Snapshot
  /\ pc[t] = "seed" => Through(PeerOf(t), snap[t].seq)
  /\ pc[t] = "align" => snap[t].seq <= at[t]
  /\ pc[t] = "document" => t \in Commands

CursorInv ==
  /\ \A p \in Peers : Through(p, cursor[p])
  /\ \A t \in Pullers : Knows(t)

\* A failure of the database loses one event at most.
DropInv == IsFiniteSet(dropped) /\ Cardinality(dropped) <= faults /\ faults \in Nat

\* The sequence numbers of what was stored since a bootstrap exceed its snapshot's.
FloorInv ==
  /\ \A e \in Events : seqOf[e] <= floor
  /\ \A x \in aligned :
       /\ x[1].seq <= floor
       /\ \A e \in Held \ x[2] : x[1].seq < seqOf[e]

WaitInv ==
  /\ FailuresTogether
  /\ \A t \in Pullers : oldWait[t] # 0 => oldFailures[t] > 0

SyncInv == Types /\ CursorInv /\ FloorInv /\ WaitInv /\ DropInv

-----------------------------------------------------------------------------
(* Types *)

USE DEF Pullers, feeds, snapshots, rows, pull, command, Go, Fault

LEMMA GreaterType ==
  ASSUME NEW m \in Nat, NEW n \in Nat
  PROVE  Greater(m, n) \in Nat /\ m <= Greater(m, n) /\ n <= Greater(m, n)
BY DEF Greater

LEMMA PeerOfType ==
  ASSUME Types, NEW t \in Pullers
  PROVE  PeerOf(t) \in Peers
BY DEF Types, PeerOf

LEMMA SnapshotsOfType ==
  ASSUME Types, NEW p \in Peers, NEW s \in SnapshotsOf(p)
  PROVE  /\ s \in Snapshot
         /\ s.peer = p /\ s.seq \in 1 .. Len(remote[p])
         /\ s.covers = CoveredBy(p, s.seq, s.asOf)
         /\ TimelySnapshots => \A j \in 1 .. s.seq : Created[remote[p][j]] <= s.asOf
<1>1. PICK n \in 1 .. Len(remote[p]), e \in Events :
        s = [peer |-> p, seq |-> n, asOf |-> Created[e],
             covers |-> CoveredBy(p, n, Created[e])]
  BY DEF SnapshotsOf
<1>2. remote[p] \in Seq(Events) /\ Created[e] \in Nat
  BY EventsType DEF Types
<1>3. CoveredBy(p, n, Created[e]) \in SUBSET Events
  BY <1>2 DEF CoveredBy
<1>4. TimelySnapshots => \A j \in 1 .. s.seq : Created[remote[p][j]] <= s.asOf
  BY DEF SnapshotsOf
<1>5. QED
  BY <1>1, <1>2, <1>3, <1>4 DEF Snapshot

\* The row a pull is about to ingest is one of the peer's feed.
LEMMA RowToIngest ==
  ASSUME Types, CursorInv, NEW t \in Pullers, pc[t] = "ingest"
  PROVE  /\ at[t] + 1 \in 1 .. Len(remote[PeerOf(t)])
         /\ remote[PeerOf(t)][at[t] + 1] \in Events
<1>1. remote[PeerOf(t)] \in Seq(Events) /\ at[t] \in Nat /\ pageEnd[t] \in Nat
  BY PeerOfType DEF Types
<1>2. at[t] < pageEnd[t] /\ pageEnd[t] <= Len(remote[PeerOf(t)])
  BY DEF CursorInv, Knows
<1>3. QED
  BY <1>1, <1>2

LEMMA TypesInit == Init => Types
<1>1. (CHOOSE p \in Peers : TRUE) \in Peers
  BY PeersType
<1>2. QED
  BY <1>1 DEF Init, Types

LEMMA TypesPublish ==
  ASSUME Types, NEW p \in Peers, NEW e \in Events, Publish(p, e)
  PROVE  Types'
BY DEF Types, Publish

LEMMA TypesSubmit ==
  ASSUME Types, NEW e \in Events, Submit(e)
  PROVE  Types'
BY DEF Types, Submit, Store

LEMMA TypesTick ==
  ASSUME Types, Tick
  PROVE  Types'
BY DEF Types, Tick

LEMMA TypesToggle ==
  ASSUME Types, NEW p \in Peers, Toggle(p)
  PROVE  Types'
BY DEF Types, Toggle

LEMMA TypesFetch ==
  ASSUME Types, NEW t \in Pullers, Fetch(t)
  PROVE  Types'
<1>1. remote[PeerOf(t)] \in Seq(Events) /\ at[t] \in Nat /\ Limit \in Nat
  BY PeerOfType, ParametersType DEF Types
<1>2. Smaller(at[t] + Limit, Len(remote[PeerOf(t)])) \in Nat
  BY <1>1 DEF Smaller
<1>3. pageEnd' \in [Pullers -> Nat]
  <2>1. \/ pageEnd' = pageEnd
        \/ pageEnd' = [pageEnd EXCEPT ![t] = Smaller(at[t] + Limit, Len(remote[PeerOf(t)]))]
    BY DEF Fetch
  <2>2. pageEnd \in [Pullers -> Nat]
    BY DEF Types
  <2>3. QED
    BY <1>2, <2>1, <2>2
<1>4. QED
  BY <1>3 DEF Types, Fetch

LEMMA TypesFetchFails ==
  ASSUME Types, NEW t \in Pullers, FetchFails(t)
  PROVE  Types'
BY DEF Types, FetchFails

LEMMA TypesIngest ==
  ASSUME Types, CursorInv, NEW t \in Pullers, Ingest(t)
  PROVE  Types'
<1>1. PICK e : e = remote[PeerOf(t)][at[t] + 1] /\ pc[t] = "ingest"
  BY DEF Ingest
<1>2. /\ at' = [at EXCEPT ![t] = at[t] + 1]
      /\ pages' = pages \/ pages' = [pages EXCEPT ![t] = @ + 1]
      /\ \E n \in {"ingest", "fetch", "save"} : pc' = [pc EXCEPT ![t] = n]
      /\ UNCHANGED <<remote, imported, aligned, cursor, failures, broken, wait, enabled,
                     pageEnd, error, oldFailures, oldWait, todo, target, snap>>
  BY DEF Ingest, Passed
<1>3. at' \in [Pullers -> Nat] /\ pages' \in [Pullers -> Nat]
  <2>1. at \in [Pullers -> Nat] /\ pages \in [Pullers -> Nat]
    BY DEF Types
  <2>2. QED
    BY <1>2, <2>1
<1>4. pc' \in [Pullers -> {"idle", "fetch", "ingest", "save", "document", "seed", "align"}]
  BY <1>2 DEF Types
<1>5. /\ seqOf' \in [Events -> Nat] /\ floor' \in Nat
      /\ invalid' \subseteq Events /\ dropped' \subseteq Events
  <2>1. Reject(e) \/ Store(e) \/ Drop(e) \/ UNCHANGED <<seqOf, floor, invalid, dropped>>
    BY <1>1 DEF Ingest
  <2>2. e \in Events
    BY <1>1, RowToIngest
  <2>3. /\ seqOf \in [Events -> Nat] /\ floor \in Nat
        /\ invalid \subseteq Events /\ dropped \subseteq Events
    BY DEF Types
  <2>4. QED
    BY <2>1, <2>2, <2>3 DEF Store, Reject, Drop
<1>6. QED
  BY <1>2, <1>3, <1>4, <1>5 DEF Types

LEMMA TypesSave ==
  ASSUME Types, NEW t \in Pullers, Save(t)
  PROVE  Types'
<1>1. SavedFailures(t) \in Nat
  BY DEF SavedFailures, Types
<1>2. cursor' \in [Peers -> Nat] /\ failures' \in [Peers -> Nat] /\ broken' \in [Peers -> BOOLEAN]
  BY <1>1, PeerOfType DEF Types, Save
<1>3. DOMAIN wait' = Peers /\ DOMAIN oldWait' = Pullers
  BY DEF Types, Save, Forget
<1>4. QED
  BY <1>2, <1>3 DEF Types, Save, Forget

LEMMA TypesStartCycle ==
  ASSUME Types, StartCycle
  PROVE  Types'
BY DEF Types, StartCycle

LEMMA TypesRestart ==
  ASSUME Types, Restart
  PROVE  Types'
BY DEF Types, Restart, Forget

LEMMA TypesSpawn ==
  ASSUME Types, NEW p \in Peers, Spawn(p)
  PROVE  Types'
<1>1. CASE wait[p] # 0
  BY <1>1 DEF Types, Spawn
<1>2. CASE wait[p] = 0
  <2>1. /\ at' \in [Pullers -> Nat] /\ oldFailures' \in [Pullers -> Nat]
        /\ pages' \in [Pullers -> Nat] /\ pageEnd' \in [Pullers -> Nat]
        /\ error' \in [Pullers -> BOOLEAN] /\ DOMAIN oldWait' = Pullers
    <3>1. /\ at \in [Pullers -> Nat] /\ oldFailures \in [Pullers -> Nat]
          /\ pages \in [Pullers -> Nat] /\ pageEnd \in [Pullers -> Nat]
          /\ error \in [Pullers -> BOOLEAN] /\ DOMAIN oldWait = Pullers
          /\ cursor[p] \in Nat /\ failures[p] \in Nat
      BY DEF Types
    <3>2. Begin(p, p)
      BY <1>2 DEF Spawn
    <3>3. at' \in [Pullers -> Nat] /\ oldFailures' \in [Pullers -> Nat]
      BY <3>1, <3>2 DEF Begin
    <3>4. pages' \in [Pullers -> Nat] /\ pageEnd' \in [Pullers -> Nat]
      BY <3>1, <3>2 DEF Begin
    <3>5. error' \in [Pullers -> BOOLEAN] /\ DOMAIN oldWait' = Pullers
      BY <3>1, <3>2 DEF Begin
    <3>6. QED
      BY <3>3, <3>4, <3>5
  <2>2. QED
    BY <1>2, <2>1 DEF Types, Spawn
<1>3. QED
  BY <1>1, <1>2

LEMMA TypesSyncPull ==
  ASSUME Types, NEW c \in Commands, NEW S \in SUBSET Peers, SyncPull(c, S)
  PROVE  Types'
BY DEF Types, SyncPull, Run

LEMMA TypesSyncReset ==
  ASSUME Types, NEW c \in Commands, NEW S \in SUBSET Peers, SyncReset(c, S)
  PROVE  Types'
BY DEF Types, SyncReset, Run

LEMMA TypesPullNext ==
  ASSUME Types, NEW c \in Commands, NEW p \in Peers, PullNext(c, p)
  PROVE  Types'
BY DEF Types, PullNext, Begin

LEMMA TypesSyncBootstrap ==
  ASSUME Types, NEW c \in Commands, NEW p \in Peers, SyncBootstrap(c, p)
  PROVE  Types'
BY DEF Types, SyncBootstrap, Run

LEMMA TypesImport ==
  ASSUME Types, NEW c \in Commands, Import(c)
  PROVE  Types'
<1>1. target[c] \in Peers
  BY DEF Types
<1>2. PICK s \in Snapshot : snap' = [snap EXCEPT ![c] = s] /\ imported' = imported \cup {s}
  BY <1>1, SnapshotsOfType DEF Import
<1>3. snap' \in [Commands -> Snapshot \cup {NoSnapshot}] /\ imported' \subseteq Snapshot
  BY <1>2 DEF Types
<1>4. at' \in [Pullers -> Nat]
  <2>1. at \in [Pullers -> Nat] /\ cursor[target[c]] \in Nat
    BY <1>1 DEF Types
  <2>2. QED
    BY <2>1 DEF Import
<1>5. QED
  BY <1>3, <1>4 DEF Types, Import

LEMMA TypesBootstrapFails ==
  ASSUME Types, NEW c \in Commands, BootstrapFails(c)
  PROVE  Types'
BY DEF Types, BootstrapFails

LEMMA TypesSeedCursor ==
  ASSUME Types, NEW c \in Commands, SeedCursor(c)
  PROVE  Types'
<1>1. snap[c].seq \in Nat /\ at[c] \in Nat /\ target[c] \in Peers
  BY DEF Types, Snapshot, NoSnapshot
<1>2. Seed(c) \in Nat
  BY <1>1, GreaterType DEF Seed
<1>3. QED
  BY <1>1, <1>2 DEF Types, SeedCursor

LEMMA TypesAlign ==
  ASSUME Types, NEW c \in Commands, Align(c), pc[c] = "align" => snap[c] \in Snapshot
  PROVE  Types'
BY DEF Types, Align, Floor, Greater, Forget, Held

LEMMA TypesKill ==
  ASSUME Types, NEW c \in Commands, Kill(c)
  PROVE  Types'
BY DEF Types, Kill, Forget

-----------------------------------------------------------------------------
(* What the node has met stays so *)

FeedsGrow ==
  /\ \A p \in Peers :
       /\ Len(remote[p]) <= Len(remote'[p])
       /\ \A i \in 1 .. Len(remote[p]) : remote'[p][i] = remote[p][i]
  /\ Met \subseteq Met'

LEMMA MetGrows ==
  ASSUME Held \subseteq Held', invalid \subseteq invalid', dropped \subseteq dropped',
         imported \subseteq imported'
  PROVE  Met \subseteq Met'
BY DEF Met, Accounted

\* Storing, rejecting or losing an event.
LEMMA StoreGrows ==
  ASSUME Types, NEW e, Store(e)
  PROVE  /\ Held \subseteq Held' /\ invalid \subseteq invalid' /\ dropped \subseteq dropped'
         /\ e \in Events => e \in Held'
BY DEF Types, Store, Held

LEMMA RejectGrows ==
  ASSUME Types, NEW e, Reject(e)
  PROVE  /\ Held \subseteq Held' /\ invalid \subseteq invalid' /\ dropped \subseteq dropped'
         /\ e \in invalid'
BY DEF Reject, Held

LEMMA DropGrows ==
  ASSUME Types, NEW e, Drop(e)
  PROVE  /\ Held \subseteq Held' /\ invalid \subseteq invalid' /\ dropped \subseteq dropped'
         /\ e \in Held' \cup invalid' \cup dropped'
BY DEF Drop, Held

LEMMA FeedsSame ==
  ASSUME Types, UNCHANGED remote,
         Held \subseteq Held', invalid \subseteq invalid', dropped \subseteq dropped',
         imported \subseteq imported'
  PROVE  FeedsGrow
<1>1. \A p \in Peers : Len(remote[p]) \in Nat
  BY DEF Types
<1>2. QED
  BY <1>1, MetGrows DEF FeedsGrow

LEMMA FeedsUnchanged ==
  ASSUME Types, UNCHANGED <<feeds, imported>>
  PROVE  FeedsGrow
BY FeedsSame DEF Held

LEMMA PublishGrows ==
  ASSUME Types, NEW p \in Peers, NEW e \in Events, Publish(p, e)
  PROVE  FeedsGrow
<1>1. Met \subseteq Met'
  BY MetGrows DEF Publish, Held
<1>2. ASSUME NEW q \in Peers
      PROVE  /\ Len(remote[q]) <= Len(remote'[q])
             /\ \A i \in 1 .. Len(remote[q]) : remote'[q][i] = remote[q][i]
  <2>1. remote[q] \in Seq(Events) /\ remote[p] \in Seq(Events)
    BY DEF Types
  <2>2. remote'[q] = remote[q] \/ remote'[q] = Append(remote[q], e)
    BY DEF Types, Publish
  <2>3. QED
    BY <2>1, <2>2
<1>3. QED
  BY <1>1, <1>2 DEF FeedsGrow

LEMMA ThroughGrows ==
  ASSUME Types, FeedsGrow, NEW p \in Peers, NEW n \in Nat, Through(p, n),
         Types'
  PROVE  Through(p, n)'
<1>1. Len(remote[p]) \in Nat /\ Len(remote'[p]) \in Nat
  BY DEF Types
<1>2. n <= Len(remote[p]) /\ (TimelySnapshots => \A i \in 1 .. n : remote[p][i] \in Met)
  BY DEF Through
<1>3. n <= Len(remote'[p])
  BY <1>1, <1>2 DEF FeedsGrow
<1>4. TimelySnapshots => \A i \in 1 .. n : remote'[p][i] \in Met'
  BY <1>1, <1>2 DEF FeedsGrow
<1>5. QED
  BY <1>3, <1>4 DEF Through

-----------------------------------------------------------------------------
(* What a pull knows *)

PullKept(t) ==
  /\ pc'[t] = pc[t] /\ at'[t] = at[t] /\ pageEnd'[t] = pageEnd[t]
  /\ t \in Commands => target'[t] = target[t] /\ snap'[t] = snap[t]

LEMMA PeerOfKept ==
  ASSUME NEW t \in Pullers, PullKept(t)
  PROVE  PeerOf(t)' = PeerOf(t)
BY DEF PullKept, PeerOf

\* A pull that a step leaves alone knows what it knew.
LEMMA KnowsStays ==
  ASSUME Types, Types', FeedsGrow, NEW t \in Pullers, Knows(t), PullKept(t)
  PROVE  Knows(t)'
<1>1. PICK p \in Peers : p = PeerOf(t)
  BY PeerOfType
<1>2. PICK n \in Nat : n = at[t]
  BY DEF Types
<1>3. PeerOf(t)' = p /\ at'[t] = n /\ pc'[t] = pc[t] /\ pageEnd'[t] = pageEnd[t]
  BY <1>1, <1>2, PeerOfKept DEF PullKept
<1>4. pc[t] \in {"fetch", "ingest", "save", "seed", "align"} => Through(p, n)'
  BY <1>1, <1>2, ThroughGrows DEF Knows
<1>5. pc'[t] \in {"fetch", "ingest", "save", "seed", "align"} => Through(PeerOf(t), at[t])'
  BY <1>3, <1>4 DEF Through
<1>6. pc[t] = "ingest" => pageEnd[t] <= Len(remote'[p])
  <2>1. Len(remote[p]) \in Nat /\ Len(remote'[p]) \in Nat
    <3>1. remote \in [Peers -> Seq(Events)]
      BY DEF Types
    <3>2. remote' \in [Peers -> Seq(Events)]
      BY DEF Types
    <3>3. QED
      BY <3>1, <3>2
  <2>2. pageEnd[t] \in Nat
    BY DEF Types
  <2>3. QED
    BY <1>1, <2>1, <2>2 DEF Knows, FeedsGrow
<1>7. pc'[t] = "ingest" => at'[t] < pageEnd'[t] /\ pageEnd'[t] <= Len(remote'[PeerOf(t)'])
  BY <1>2, <1>3, <1>6 DEF Knows
<1>8. pc[t] \in {"seed", "align"} => t \in Commands /\ snap'[t] = snap[t] /\ snap[t] \in Snapshot
  BY DEF Knows, PullKept
<1>9. pc'[t] = "seed" => Through(PeerOf(t), snap[t].seq)'
  <2>1. SUFFICES ASSUME pc[t] = "seed" PROVE Through(PeerOf(t), snap[t].seq)'
    BY <1>3
  <2>2. PICK m \in Nat : m = snap[t].seq
    BY <1>8, <2>1 DEF Snapshot
  <2>3. Through(p, m)'
    BY <1>1, <2>1, <2>2, ThroughGrows DEF Knows
  <2>4. snap'[t].seq = m
    BY <1>8, <2>1, <2>2
  <2>5. QED
    BY <1>3, <2>3, <2>4 DEF Through
<1>10. pc'[t] = "align" => snap'[t].seq <= at'[t]
  BY <1>2, <1>3, <1>8 DEF Knows
<1>11. pc'[t] = "document" => t \in Commands
  BY <1>3 DEF Knows
<1>12. QED
  BY <1>3, <1>5, <1>7, <1>8, <1>9, <1>10, <1>11 DEF Knows

\* A step that changes one pull at most, and no cursor.
LEMMA PullStep ==
  ASSUME Types, Types', CursorInv, FeedsGrow, NEW t \in Pullers, Knows(t)',
         \A u \in Pullers : u # t => PullKept(u),
         UNCHANGED cursor
  PROVE  CursorInv'
<1>1. ASSUME NEW u \in Pullers PROVE Knows(u)'
  BY KnowsStays DEF CursorInv
<1>2. ASSUME NEW p \in Peers PROVE Through(p, cursor[p])'
  <2>1. PICK n \in Nat : n = cursor[p]
    BY DEF Types
  <2>2. Through(p, n)'
    BY <2>1, ThroughGrows DEF CursorInv
  <2>3. QED
    BY <2>1, <2>2 DEF Through
<1>3. QED
  BY <1>1, <1>2 DEF CursorInv

\* A step that changes no pull, and no cursor.
LEMMA OtherStep ==
  ASSUME Types, Types', CursorInv, FeedsGrow,
         \A u \in Pullers : PullKept(u) \/ pc'[u] = "idle",
         UNCHANGED cursor
  PROVE  CursorInv'
<1>1. ASSUME NEW u \in Pullers PROVE Knows(u)'
  <2>1. CASE PullKept(u)
    BY <2>1, KnowsStays DEF CursorInv
  <2>2. CASE pc'[u] = "idle"
    BY <2>2 DEF Knows
  <2>3. QED
    BY <2>1, <2>2
<1>2. ASSUME NEW p \in Peers PROVE Through(p, cursor[p])'
  <2>1. PICK n \in Nat : n = cursor[p]
    BY DEF Types
  <2>2. Through(p, n)'
    BY <2>1, ThroughGrows DEF CursorInv
  <2>3. QED
    BY <2>1, <2>2 DEF Through
<1>3. QED
  BY <1>1, <1>2 DEF CursorInv

\* A pull that knows the first n rows, and is at one of the steps that need no more.
LEMMA KnowsRows ==
  ASSUME NEW t \in Pullers, NEW p, NEW n, Through(p, n)',
         PeerOf(t)' = p, at'[t] = n, pc'[t] \in {"fetch", "save"}
  PROVE  Knows(t)'
BY DEF Knows, Through

-----------------------------------------------------------------------------
(* Each action preserves CursorInv *)

LEMMA CursorPublish ==
  ASSUME Types, Types', CursorInv, NEW p \in Peers, NEW e \in Events, Publish(p, e)
  PROVE  CursorInv'
BY OtherStep, PublishGrows DEF PullKept, Publish

LEMMA CursorSubmit ==
  ASSUME Types, Types', CursorInv, NEW e \in Events, Submit(e)
  PROVE  CursorInv'
BY OtherStep, FeedsSame, StoreGrows DEF PullKept, Submit

LEMMA CursorFetch ==
  ASSUME Types, Types', CursorInv, NEW t \in Pullers, Fetch(t)
  PROVE  CursorInv'
<1>1. PICK p \in Peers : p = PeerOf(t)
  BY PeerOfType
<1>2. PICK n \in Nat : n = at[t]
  BY DEF Types
<1>3. FeedsGrow
  BY FeedsUnchanged DEF Fetch
<1>4. at'[t] = n /\ PeerOf(t)' = p /\ UNCHANGED <<remote, cursor, target>>
  BY <1>1, <1>2 DEF Fetch, PeerOf
<1>5. Through(p, n)'
  BY <1>1, <1>2, <1>3, ThroughGrows DEF CursorInv, Knows, Fetch
<1>6. Knows(t)'
  <2>1. CASE pc'[t] = "save"
    BY <1>4, <1>5, <2>1, KnowsRows
  <2>2. CASE pc'[t] # "save"
    <3>1. remote[p] \in Seq(Events) /\ Limit \in Nat \ {0}
      BY ParametersType DEF Types
    <3>2. pc'[t] = "ingest" /\ pageEnd'[t] = Smaller(n + Limit, Len(remote[p]))
          /\ ~ (Smaller(n + Limit, Len(remote[p])) <= n)
      BY <1>1, <1>2, <2>2 DEF Fetch, Types
    <3>3. n < pageEnd'[t] /\ pageEnd'[t] <= Len(remote[p])
      BY <3>1, <3>2 DEF Smaller
    <3>4. QED
      BY <1>4, <1>5, <3>2, <3>3 DEF Knows, Through
  <2>3. QED
    BY <2>1, <2>2
<1>7. \A u \in Pullers : u # t => PullKept(u)
  BY DEF Fetch, PullKept, Types
<1>8. QED
  BY <1>3, <1>4, <1>6, <1>7, PullStep

LEMMA CursorFetchFails ==
  ASSUME Types, Types', CursorInv, NEW t \in Pullers, FetchFails(t)
  PROVE  CursorInv'
<1>1. PICK p \in Peers : p = PeerOf(t)
  BY PeerOfType
<1>2. PICK n \in Nat : n = at[t]
  BY DEF Types
<1>3. FeedsGrow
  BY FeedsUnchanged DEF FetchFails
<1>4. at'[t] = n /\ PeerOf(t)' = p /\ UNCHANGED cursor /\ pc'[t] = "save"
  BY <1>1, <1>2 DEF FetchFails, PeerOf, Types
<1>5. Through(p, n)'
  BY <1>1, <1>2, <1>3, ThroughGrows DEF CursorInv, Knows, FetchFails
<1>6. Knows(t)'
  BY <1>4, <1>5, KnowsRows
<1>7. \A u \in Pullers : u # t => PullKept(u)
  BY DEF FetchFails, PullKept, Types
<1>8. QED
  BY <1>3, <1>4, <1>6, <1>7, PullStep

\* The row just ingested is accounted for, whether it was stored, known or rejected.
LEMMA CursorIngest ==
  ASSUME Types, Types', CursorInv, NEW t \in Pullers, Ingest(t)
  PROVE  CursorInv'
<1>1. PICK p \in Peers : p = PeerOf(t)
  BY PeerOfType
<1>2. PICK n \in Nat : n = at[t]
  BY DEF Types
<1>3. PICK e \in Events : e = remote[p][n + 1]
  BY <1>1, <1>2, RowToIngest DEF Ingest
<1>4. n + 1 \in 1 .. Len(remote[p])
  BY <1>1, <1>2, RowToIngest DEF Ingest
<1>5. \/ Reject(e) \/ Store(e) \/ Drop(e)
      \/ e \in Held /\ UNCHANGED <<seqOf, floor, invalid, dropped>>
  BY <1>1, <1>2, <1>3 DEF Ingest
<1>6. /\ Held \subseteq Held' /\ invalid \subseteq invalid' /\ dropped \subseteq dropped'
      /\ e \in Held' \cup invalid' \cup dropped'
  BY <1>5, StoreGrows, RejectGrows, DropGrows DEF Held
<1>7. UNCHANGED <<remote, imported, cursor, target>>
  BY DEF Ingest
<1>8. FeedsGrow
  BY <1>6, <1>7, FeedsSame
<1>9. e \in Met'
  BY <1>6 DEF Met, Accounted
<1>10. Through(p, n)'
  BY <1>1, <1>2, <1>8, ThroughGrows DEF CursorInv, Knows, Ingest
<1>11. PICK k \in Nat : k = n + 1
  OBVIOUS
<1>12. Through(p, k)'
  <2>1. remote'[p][k] \in Met' /\ k <= Len(remote'[p])
    BY <1>3, <1>4, <1>7, <1>9, <1>11
  <2>2. \A i \in 1 .. k : i \in 1 .. n \/ i = k
    BY <1>11
  <2>3. QED
    BY <1>10, <2>1, <2>2 DEF Through
<1>13. at'[t] = k /\ PeerOf(t)' = p
  BY <1>1, <1>2, <1>7, <1>11 DEF Ingest, Passed, PeerOf, Types
<1>14. Knows(t)'
  <2>1. pc'[t] \in {"ingest", "fetch", "save"}
    BY DEF Ingest, Types
  <2>2. CASE pc'[t] # "ingest"
    BY <1>12, <1>13, <2>1, <2>2, KnowsRows
  <2>3. CASE pc'[t] = "ingest"
    <3>1. at[t] + 1 # pageEnd[t] /\ pageEnd'[t] = pageEnd[t]
      BY <2>3 DEF Ingest, Types
    <3>2. at[t] < pageEnd[t] /\ pageEnd[t] <= Len(remote[p]) /\ pageEnd[t] \in Nat
      BY <1>1 DEF CursorInv, Knows, Ingest, Types
    <3>3. k < pageEnd'[t] /\ pageEnd'[t] <= Len(remote'[p])
      BY <1>2, <1>7, <1>11, <3>1, <3>2
    <3>4. QED
      BY <1>12, <1>13, <2>3, <3>3 DEF Knows, Through
  <2>4. QED
    BY <2>2, <2>3
<1>15. \A u \in Pullers : u # t => PullKept(u)
  BY DEF Ingest, PullKept, Types
<1>16. QED
  BY <1>7, <1>8, <1>14, <1>15, PullStep

\* A pull writes its cursor over whatever the row has become: it was right when it
\* was reached, and stays so.
LEMMA CursorSave ==
  ASSUME Types, Types', CursorInv, NEW t \in Pullers, Save(t)
  PROVE  CursorInv'
<1>1. PICK p \in Peers : p = PeerOf(t)
  BY PeerOfType
<1>2. PICK n \in Nat : n = at[t]
  BY DEF Types
<1>3. FeedsGrow
  BY FeedsUnchanged DEF Save
<1>4. Through(p, n)'
  BY <1>1, <1>2, <1>3, ThroughGrows DEF CursorInv, Knows, Save
<1>5. cursor' = [cursor EXCEPT ![p] = n]
  BY <1>1, <1>2 DEF Save
<1>6. ASSUME NEW q \in Peers PROVE Through(q, cursor[q])'
  <2>1. CASE q = p
    BY <1>4, <1>5, <2>1 DEF Through, Types
  <2>2. CASE q # p
    <3>1. PICK m \in Nat : m = cursor[q]
      BY DEF Types
    <3>2. cursor'[q] = m
      BY <1>5, <2>2, <3>1 DEF Types
    <3>3. Through(q, m)'
      BY <1>3, <3>1, ThroughGrows DEF CursorInv
    <3>4. QED
      BY <3>2, <3>3 DEF Through
  <2>3. QED
    BY <2>1, <2>2
<1>7. ASSUME NEW u \in Pullers PROVE Knows(u)'
  <2>1. CASE u = t
    <3>1. pc'[u] = "idle"
      BY <2>1 DEF Save, Types
    <3>2. QED
      BY <3>1 DEF Knows
  <2>2. CASE u # t
    <3>1. PullKept(u)
      BY <2>2 DEF Save, Forget, PullKept, Types
    <3>2. QED
      BY <1>3, <3>1, KnowsStays DEF CursorInv
  <2>3. QED
    BY <2>1, <2>2
<1>8. QED
  BY <1>6, <1>7 DEF CursorInv

\* A pull begins at the cursor of its peer.
LEMMA CursorBegin ==
  ASSUME Types, Types', CursorInv, NEW t \in Pullers, NEW p \in Peers, Begin(t, p),
         pc' = [pc EXCEPT ![t] = "fetch"],
         UNCHANGED <<feeds, imported, cursor, snap>>,
         PeerOf(t)' = p,
         \A u \in Commands : u # t => target'[u] = target[u]
  PROVE  CursorInv'
<1>1. PICK n \in Nat : n = cursor[p]
  BY DEF Types
<1>2. FeedsGrow
  BY FeedsUnchanged
<1>3. Through(p, n)'
  BY <1>1, <1>2, ThroughGrows DEF CursorInv
<1>4. at'[t] = n /\ pc'[t] = "fetch"
  BY <1>1 DEF Begin, Types
<1>5. Knows(t)'
  BY <1>3, <1>4, KnowsRows
<1>6. \A u \in Pullers : u # t => PullKept(u)
  BY DEF Begin, PullKept, Types
<1>7. QED
  BY <1>2, <1>5, <1>6, PullStep

LEMMA CursorSpawn ==
  ASSUME Types, Types', CursorInv, NEW p \in Peers, Spawn(p)
  PROVE  CursorInv'
<1>1. CASE wait[p] # 0
  <2>1. FeedsGrow
    BY <1>1, FeedsUnchanged DEF Spawn
  <2>2. \A u \in Pullers : PullKept(u)
    BY <1>1 DEF Spawn, PullKept
  <2>3. QED
    BY <1>1, <2>1, <2>2, OtherStep DEF Spawn
<1>2. CASE wait[p] = 0
  <2>1. PeerOf(p)' = p
    BY DEF PeerOf
  <2>2. QED
    BY <1>2, <2>1, CursorBegin DEF Spawn
<1>3. QED
  BY <1>1, <1>2

LEMMA CursorPullNext ==
  ASSUME Types, Types', CursorInv, NEW c \in Commands, NEW p \in Peers, PullNext(c, p)
  PROVE  CursorInv'
<1>1. PeerOf(c)' = p
  BY PeersType DEF PeerOf, PullNext, Types
<1>2. \A u \in Commands : u # c => target'[u] = target[u]
  BY DEF PullNext, Types
<1>3. QED
  BY <1>1, <1>2, CursorBegin DEF PullNext

\* A reset forgets what was reached, and nothing else.
LEMMA CursorReset ==
  ASSUME Types, Types', CursorInv, NEW c \in Commands, NEW S \in SUBSET Peers,
         SyncReset(c, S)
  PROVE  CursorInv'
<1>1. FeedsGrow
  BY FeedsUnchanged DEF SyncReset
<1>2. ASSUME NEW u \in Pullers PROVE Knows(u)'
  BY <1>1, KnowsStays DEF CursorInv, SyncReset, PullKept
<1>3. ASSUME NEW q \in Peers PROVE Through(q, cursor[q])'
  <2>1. CASE q \in S
    <3>1. cursor'[q] = 0 /\ Len(remote'[q]) \in Nat
      BY <2>1 DEF SyncReset, Types
    <3>2. QED
      BY <3>1 DEF Through
  <2>2. CASE q \notin S
    <3>1. PICK m \in Nat : m = cursor[q]
      BY DEF Types
    <3>2. cursor'[q] = m
      BY <2>2, <3>1 DEF SyncReset
    <3>3. Through(q, m)'
      BY <1>1, <3>1, ThroughGrows DEF CursorInv
    <3>4. QED
      BY <3>2, <3>3 DEF Through
  <2>3. QED
    BY <2>1, <2>2
<1>4. QED
  BY <1>2, <1>3 DEF CursorInv

LEMMA CursorBootstrap ==
  ASSUME Types, Types', CursorInv, NEW c \in Commands, NEW p \in Peers,
         SyncBootstrap(c, p)
  PROVE  CursorInv'
<1>1. FeedsGrow
  BY FeedsUnchanged DEF SyncBootstrap
<1>2. Knows(c)'
  <2>1. pc'[c] = "document"
    BY DEF SyncBootstrap, Types
  <2>2. QED
    BY <2>1 DEF Knows
<1>3. \A u \in Pullers : u # c => PullKept(u)
  BY DEF SyncBootstrap, PullKept, Types
<1>4. QED
  BY <1>1, <1>2, <1>3, PullStep DEF SyncBootstrap

\* A snapshot taken as of a time past every creation time covers all it precedes.
LEMMA CursorImport ==
  ASSUME Types, Types', CursorInv, NEW c \in Commands, Import(c)
  PROVE  CursorInv'
<1>1. PICK p \in Peers : p = target[c]
  BY DEF Types
<1>2. PICK s \in SnapshotsOf(p) : snap' = [snap EXCEPT ![c] = s] /\ imported' = imported \cup {s}
  BY <1>1 DEF Import
<1>3. PICK n \in Nat : n = cursor[p]
  BY DEF Types
<1>4. UNCHANGED <<feeds, cursor, target>>
  BY DEF Import
<1>5. FeedsGrow
  BY <1>2, <1>4, FeedsSame DEF Held
<1>6. /\ s \in Snapshot /\ s.seq \in 1 .. Len(remote[p]) /\ s.covers = CoveredBy(p, s.seq, s.asOf)
      /\ TimelySnapshots => \A j \in 1 .. s.seq : Created[remote[p][j]] <= s.asOf
  BY SnapshotsOfType
<1>7. PICK m \in Nat : m = s.seq
  BY <1>6 DEF Snapshot
<1>8. Through(p, m)'
  <2>1. TimelySnapshots => \A j \in 1 .. m : remote[p][j] \in s.covers
    BY <1>6, <1>7 DEF CoveredBy
  <2>2. s.covers \subseteq Met'
    BY <1>2 DEF Met, Accounted
  <2>3. /\ m <= Len(remote'[p])
        /\ TimelySnapshots => \A j \in 1 .. m : remote'[p][j] \in Met'
    BY <1>4, <1>6, <1>7, <2>1, <2>2
  <2>4. QED
    BY <2>3 DEF Through
<1>9. Through(p, n)'
  BY <1>3, <1>5, ThroughGrows DEF CursorInv
<1>10. /\ pc'[c] = "seed" /\ at'[c] = n /\ PeerOf(c)' = p /\ snap'[c] = s
  BY <1>1, <1>2, <1>3, <1>4, PeersType DEF Import, PeerOf, Types
<1>11. Knows(c)'
  BY <1>6, <1>7, <1>8, <1>9, <1>10 DEF Knows, Through
<1>12. \A u \in Pullers : u # c => PullKept(u)
  BY <1>2, <1>4 DEF Import, PullKept, Types
<1>13. QED
  BY <1>4, <1>5, <1>11, <1>12, PullStep

LEMMA CursorSeed ==
  ASSUME Types, Types', CursorInv, NEW c \in Commands, SeedCursor(c)
  PROVE  CursorInv'
<1>1. PICK p \in Peers : p = target[c] /\ p = PeerOf(c)
  BY PeersType DEF Types, PeerOf
<1>2. at[c] \in Nat /\ snap[c].seq \in Nat /\ snap[c] \in Snapshot
      /\ Through(p, at[c]) /\ Through(p, snap[c].seq)
  BY <1>1 DEF CursorInv, Knows, SeedCursor, Types, Snapshot
<1>3. PICK n \in Nat : n = Seed(c)
  BY <1>2, GreaterType DEF Seed
<1>4. Through(p, n) /\ snap[c].seq <= n
  BY <1>2, <1>3 DEF Seed, Greater
<1>5. FeedsGrow
  BY FeedsUnchanged DEF SeedCursor
<1>6. Through(p, n)'
  BY <1>4, <1>5, ThroughGrows
<1>7. cursor' = [cursor EXCEPT ![p] = n] /\ at' = [at EXCEPT ![c] = n]
      /\ pc' = [pc EXCEPT ![c] = "align"] /\ UNCHANGED <<target, snap, pageEnd>>
  BY <1>1, <1>3 DEF SeedCursor
<1>8. ASSUME NEW q \in Peers PROVE Through(q, cursor[q])'
  <2>1. CASE q = p
    BY <1>6, <1>7, <2>1 DEF Through, Types
  <2>2. CASE q # p
    <3>1. PICK m \in Nat : m = cursor[q]
      BY DEF Types
    <3>2. cursor'[q] = m
      BY <1>7, <2>2, <3>1 DEF Types
    <3>3. Through(q, m)'
      BY <1>5, <3>1, ThroughGrows DEF CursorInv
    <3>4. QED
      BY <3>2, <3>3 DEF Through
  <2>3. QED
    BY <2>1, <2>2
<1>9. ASSUME NEW u \in Pullers PROVE Knows(u)'
  <2>1. CASE u = c
    <3>1. at'[c] = n /\ pc'[c] = "align" /\ PeerOf(c)' = p /\ snap'[c] = snap[c]
      BY <1>1, <1>7 DEF Types, PeerOf
    <3>2. QED
      BY <1>2, <1>4, <1>6, <2>1, <3>1 DEF Knows, Through
  <2>2. CASE u # c
    <3>1. PullKept(u)
      BY <1>7, <2>2 DEF PullKept, Types
    <3>2. QED
      BY <1>5, <3>1, KnowsStays DEF CursorInv
  <2>3. QED
    BY <2>1, <2>2
<1>10. QED
  BY <1>8, <1>9 DEF CursorInv

\* A command or a task that ends, or is killed, knows nothing any more.
LEMMA CursorAlign ==
  ASSUME Types, Types', CursorInv, NEW c \in Commands, Align(c)
  PROVE  CursorInv'
<1>1. FeedsGrow
  BY FeedsSame DEF Align, Held
<1>2. \A u \in Pullers : PullKept(u) \/ pc'[u] = "idle"
  BY DEF Align, Forget, PullKept, Types
<1>3. QED
  BY <1>1, <1>2, OtherStep DEF Align

LEMMA CursorKill ==
  ASSUME Types, Types', CursorInv, NEW c \in Commands, Kill(c)
  PROVE  CursorInv'
<1>1. FeedsGrow
  BY FeedsUnchanged DEF Kill
<1>2. \A u \in Pullers : PullKept(u) \/ pc'[u] = "idle"
  BY DEF Kill, Forget, PullKept, Types
<1>3. QED
  BY <1>1, <1>2, OtherStep DEF Kill

LEMMA CursorRestart ==
  ASSUME Types, Types', CursorInv, Restart
  PROVE  CursorInv'
<1>1. FeedsGrow
  BY FeedsUnchanged DEF Restart
<1>2. \A u \in Pullers : PullKept(u) \/ pc'[u] = "idle"
  BY DEF Restart, Forget, PullKept, Types
<1>3. QED
  BY <1>1, <1>2, OtherStep DEF Restart

LEMMA CursorBootstrapFails ==
  ASSUME Types, Types', CursorInv, NEW c \in Commands, BootstrapFails(c)
  PROVE  CursorInv'
<1>1. FeedsGrow
  BY FeedsUnchanged DEF BootstrapFails
<1>2. \A u \in Pullers : PullKept(u) \/ pc'[u] = "idle"
  BY DEF BootstrapFails, PullKept, Types
<1>3. QED
  BY <1>1, <1>2, OtherStep DEF BootstrapFails

\* Steps that change none of it.
LEMMA CursorSame ==
  ASSUME Types, Types', CursorInv, UNCHANGED <<feeds, imported, cursor, pc, at, pageEnd, target, snap>>
  PROVE  CursorInv'
<1>1. FeedsGrow
  BY FeedsUnchanged
<1>2. \A u \in Pullers : PullKept(u)
  BY DEF PullKept
<1>3. QED
  BY <1>1, <1>2, OtherStep

-----------------------------------------------------------------------------
(* The delta of a bootstrap *)

LEMMA FloorStore ==
  ASSUME Types, FloorInv, NEW e \in Events, Store(e), UNCHANGED aligned
  PROVE  FloorInv'
<1>1. /\ seqOf \in [Events -> Nat] /\ floor \in Nat
      /\ \A x \in aligned : x[1].seq \in Nat
  BY DEF Types, Snapshot
<1>2. \A d \in Events : seqOf'[d] = IF d = e THEN floor + 1 ELSE seqOf[d]
  BY <1>1 DEF Store
<1>3. floor' = floor + 1
  BY DEF Store
<1>4. ASSUME NEW x \in aligned
      PROVE  x[1].seq <= floor' /\ \A d \in Held' \ x[2] : x[1].seq < seqOf'[d]
  <2>1. x[1].seq <= floor /\ \A d \in Held \ x[2] : x[1].seq < seqOf[d]
    BY DEF FloorInv
  <2>2. QED
    BY <1>1, <1>2, <1>3, <2>1 DEF Held
<1>5. \A d \in Events : seqOf'[d] <= floor'
  BY <1>1, <1>2, <1>3 DEF FloorInv
<1>6. QED
  BY <1>4, <1>5 DEF FloorInv

LEMMA FloorAlign ==
  ASSUME Types, CursorInv, FloorInv, NEW c \in Commands, Align(c)
  PROVE  FloorInv'
<1>1. /\ seqOf \in [Events -> Nat] /\ floor \in Nat /\ at[c] \in Nat
      /\ \A x \in aligned : x[1].seq \in Nat
  BY DEF Types, Snapshot
<1>2. snap[c].seq \in Nat /\ snap[c].seq <= at[c]
  BY DEF CursorInv, Knows, Align, Snapshot
<1>3. floor' \in Nat /\ floor <= floor' /\ at[c] <= floor'
  BY <1>1, GreaterType DEF Align, Floor
<1>4. seqOf' = seqOf /\ Held' = Held /\ aligned' = aligned \cup {<<snap[c], Held>>}
  BY DEF Align, Held
<1>5. ASSUME NEW x \in aligned'
      PROVE  x[1].seq <= floor' /\ \A d \in Held' \ x[2] : x[1].seq < seqOf'[d]
  <2>1. CASE x \in aligned
    BY <1>1, <1>3, <1>4, <2>1 DEF FloorInv
  <2>2. CASE x = <<snap[c], Held>>
    BY <1>1, <1>2, <1>3, <1>4, <2>2
  <2>3. QED
    BY <1>4, <2>1, <2>2
<1>6. \A d \in Events : seqOf'[d] <= floor'
  BY <1>1, <1>3, <1>4 DEF FloorInv
<1>7. QED
  BY <1>5, <1>6 DEF FloorInv

LEMMA FloorSame ==
  ASSUME FloorInv, UNCHANGED <<seqOf, floor, aligned>>
  PROVE  FloorInv'
BY DEF FloorInv, Held

LEMMA FloorIngest ==
  ASSUME Types, CursorInv, FloorInv, NEW t \in Pullers, Ingest(t)
  PROVE  FloorInv'
<1>1. PICK e \in Events : e = remote[PeerOf(t)][at[t] + 1]
  BY RowToIngest DEF Ingest
<1>2. Store(e) \/ UNCHANGED <<seqOf, floor>>
  BY <1>1 DEF Ingest, Reject, Drop
<1>3. UNCHANGED aligned
  BY DEF Ingest
<1>4. QED
  BY <1>1, <1>2, <1>3, FloorStore, FloorSame

-----------------------------------------------------------------------------
(* The failures of a row *)

LEMMA WaitSame ==
  ASSUME WaitInv, UNCHANGED <<failures, broken, wait, oldFailures, oldWait>>
  PROVE  WaitInv'
BY DEF WaitInv, FailuresTogether

LEMMA WaitForget ==
  ASSUME Types, WaitInv, NEW T, Forget(T), UNCHANGED <<failures, broken, wait>>
  PROVE  WaitInv'
BY DEF Types, WaitInv, FailuresTogether, Forget

LEMMA WaitTick ==
  ASSUME Types, WaitInv, Tick
  PROVE  WaitInv'
<1>1. \A p \in Peers : wait'[p] # 0 => wait[p] # 0
  BY DEF Tick, Greater
<1>2. \A t \in Pullers : oldWait'[t] # 0 => oldWait[t] # 0
  BY DEF Tick, Greater
<1>3. UNCHANGED <<failures, broken, oldFailures>>
  BY DEF Tick
<1>4. QED
  BY <1>1, <1>2, <1>3 DEF WaitInv, FailuresTogether

LEMMA WaitSave ==
  ASSUME Types, WaitInv, NEW t \in Pullers, Save(t)
  PROVE  WaitInv'
<1>1. PICK p \in Peers : p = PeerOf(t)
  BY PeerOfType
<1>2. /\ SavedWait(t) # 0 => SavedFailures(t) > 0
      /\ SavedFailures(t) > 0 => error[t]
  <2>1. oldFailures[t] \in Nat /\ error[t] \in BOOLEAN
    BY DEF Types
  <2>2. oldWait[t] # 0 => oldFailures[t] > 0
    BY DEF WaitInv
  <2>3. CASE ~error[t]
    BY <2>3 DEF SavedWait, SavedFailures
  <2>4. CASE error[t] /\ t \in Peers
    <3>1. SavedFailures(t) = oldFailures[t] + 1
      BY <2>4 DEF SavedFailures
    <3>2. QED
      BY <2>1, <2>4, <3>1
  <2>5. CASE error[t] /\ t \notin Peers
    <3>1. SavedFailures(t) = oldFailures[t] + 0 /\ SavedWait(t) = oldWait[t]
      BY <2>5 DEF SavedFailures, SavedWait
    <3>2. QED
      BY <2>1, <2>2, <2>5, <3>1
  <2>6. QED
    BY <2>1, <2>3, <2>4, <2>5
<1>3. \A q \in Peers :
        /\ wait'[q] = IF q = p THEN SavedWait(t) ELSE wait[q]
        /\ failures'[q] = IF q = p THEN SavedFailures(t) ELSE failures[q]
        /\ broken'[q] = IF q = p THEN error[t] ELSE broken[q]
  BY <1>1 DEF Save, Types
<1>4. FailuresTogether'
  <2>1. ASSUME NEW q \in Peers
        PROVE  (wait'[q] # 0 => failures'[q] > 0) /\ (failures'[q] > 0 => broken'[q])
    <3>1. CASE q = p
      BY <1>2, <1>3, <3>1
    <3>2. CASE q # p
      BY <1>3, <3>2 DEF WaitInv, FailuresTogether
    <3>3. QED
      BY <3>1, <3>2
  <2>2. QED
    BY <2>1 DEF FailuresTogether
<1>5. ASSUME NEW u \in Pullers PROVE oldWait'[u] # 0 => oldFailures'[u] > 0
  BY DEF Save, Forget, WaitInv
<1>6. QED
  BY <1>4, <1>5 DEF WaitInv

LEMMA WaitBegin ==
  ASSUME Types, WaitInv, NEW t \in Pullers, NEW p \in Peers, Begin(t, p),
         UNCHANGED <<failures, broken, wait>>
  PROVE  WaitInv'
<1>1. \A u \in Pullers :
        /\ oldWait'[u] = IF u = t THEN wait[p] ELSE oldWait[u]
        /\ oldFailures'[u] = IF u = t THEN failures[p] ELSE oldFailures[u]
  BY DEF Begin, Types
<1>2. wait[p] # 0 => failures[p] > 0
  BY DEF WaitInv, FailuresTogether
<1>3. \A u \in Pullers : oldWait'[u] # 0 => oldFailures'[u] > 0
  BY <1>1, <1>2 DEF WaitInv
<1>4. QED
  BY <1>3 DEF WaitInv, FailuresTogether

LEMMA WaitReset ==
  ASSUME Types, WaitInv, NEW c \in Commands, NEW S \in SUBSET Peers, SyncReset(c, S)
  PROVE  WaitInv'
BY DEF Types, WaitInv, FailuresTogether, SyncReset

LEMMA WaitSeed ==
  ASSUME Types, WaitInv, NEW c \in Commands, SeedCursor(c)
  PROVE  WaitInv'
<1>1. PICK p \in Peers : p = target[c]
  BY DEF Types
<1>2. \A q \in Peers :
        /\ wait'[q] = IF q = p THEN 0 ELSE wait[q]
        /\ failures'[q] = IF q = p THEN 0 ELSE failures[q]
        /\ broken'[q] = IF q = p THEN FALSE ELSE broken[q]
  BY <1>1 DEF SeedCursor, Types
<1>3. UNCHANGED <<oldFailures, oldWait>>
  BY DEF SeedCursor
<1>4. ASSUME NEW q \in Peers
      PROVE  (wait'[q] # 0 => failures'[q] > 0) /\ (failures'[q] > 0 => broken'[q])
  <2>1. CASE q = p
    <3>1. wait'[q] = 0 /\ failures'[q] = 0
      BY <1>2, <2>1
    <3>2. ~ (failures'[q] > 0)
      BY <3>1
    <3>3. QED
      BY <3>1, <3>2
  <2>2. CASE q # p
    BY <1>2, <2>2 DEF WaitInv, FailuresTogether
  <2>3. QED
    BY <2>1, <2>2
<1>5. QED
  BY <1>3, <1>4 DEF WaitInv, FailuresTogether

-----------------------------------------------------------------------------
(* Events lost *)

\* A step loses no event, or one that a failure of its own accounts for.
DropStep ==
  \/ dropped' = dropped /\ faults' \in {faults, faults + 1}
  \/ \E e, X : dropped' = dropped \cup ({e} \ X) /\ faults' = faults + 1

LEMMA DropsCounted ==
  ASSUME DropInv, DropStep
  PROVE  DropInv'
<1>1. CASE dropped' = dropped /\ faults' \in {faults, faults + 1}
  <2>1. Cardinality(dropped) \in Nat
    BY FS_CardinalityType DEF DropInv
  <2>2. QED
    BY <1>1, <2>1 DEF DropInv
<1>2. ASSUME NEW e, NEW X, dropped' = dropped \cup ({e} \ X), faults' = faults + 1
      PROVE  DropInv'
  <2>1. dropped' = dropped \/ dropped' = dropped \cup {e}
    BY <1>2
  <2>2. /\ IsFiniteSet(dropped \cup {e})
        /\ Cardinality(dropped \cup {e}) =
             IF e \in dropped THEN Cardinality(dropped) ELSE Cardinality(dropped) + 1
    BY FS_AddElement DEF DropInv
  <2>3. Cardinality(dropped) \in Nat
    BY FS_CardinalityType DEF DropInv
  <2>4. QED
    BY <1>2, <2>1, <2>2, <2>3 DEF DropInv
<1>3. QED
  BY <1>1, <1>2 DEF DropStep

LEMMA NextDrops == [Next]_vars => DropStep
<1>1. ASSUME NEW t \in Pullers, Ingest(t) PROVE DropStep
  BY <1>1 DEF Ingest, Store, Reject, Drop, DropStep
<1>2. ASSUME NEW t \in Pullers, Step(t) PROVE DropStep
  BY <1>1, <1>2 DEF Step, Fetch, FetchFails, Save, DropStep
<1>3. ASSUME NEW c \in Commands, Command(c) PROVE DropStep
  BY <1>3 DEF Command, SyncPull, SyncReset, PullNext, SyncBootstrap, Run, Import,
              BootstrapFails, SeedCursor, Align, Kill, DropStep
<1>4. ASSUME Surroundings \/ Supervisor \/ UNCHANGED vars PROVE DropStep
  BY <1>4 DEF Surroundings, Publish, Submit, Store, Toggle, Tick, Supervisor, StartCycle,
              Restart, Spawn, vars, DropStep
<1>5. QED
  BY <1>2, <1>3, <1>4 DEF Next

-----------------------------------------------------------------------------
(* Delays *)

\* What TypeOK says besides Types: delays are within their cap.
DelayTypes ==
  /\ wait \in [Peers -> 0 .. MaxDelay] /\ oldWait \in [Pullers -> 0 .. MaxDelay]
  /\ full \in [Pullers -> BOOLEAN] /\ due \subseteq Peers
  /\ faults \in Nat /\ commands \in Nat

\* The shift is at most 20: the provers know the powers of two one by one.
LEMMA PowersOfTwo == \A n \in 0 .. 20 : 2 ^ n \in Nat
<1>1. /\ 2 ^ 0 \in Nat /\ 2 ^ 1 \in Nat /\ 2 ^ 2 \in Nat
      /\ 2 ^ 3 \in Nat /\ 2 ^ 4 \in Nat /\ 2 ^ 5 \in Nat
      /\ 2 ^ 6 \in Nat /\ 2 ^ 7 \in Nat /\ 2 ^ 8 \in Nat
      /\ 2 ^ 9 \in Nat /\ 2 ^ 10 \in Nat /\ 2 ^ 11 \in Nat
      /\ 2 ^ 12 \in Nat /\ 2 ^ 13 \in Nat /\ 2 ^ 14 \in Nat
      /\ 2 ^ 15 \in Nat /\ 2 ^ 16 \in Nat /\ 2 ^ 17 \in Nat
      /\ 2 ^ 18 \in Nat /\ 2 ^ 19 \in Nat /\ 2 ^ 20 \in Nat
  OBVIOUS
<1>2. \A n \in 0 .. 20 :
        n \in {0, 1, 2, 3, 4, 5, 6, 7, 8, 9, 10, 11, 12, 13, 14, 15, 16, 17, 18, 19, 20}
  OBVIOUS
<1>3. QED
  BY <1>1, <1>2, Zenon

\* compute_backoff_delay_seconds never exceeds its cap, however many failures.
LEMMA BackoffIsCapped ==
  ASSUME NEW n \in Nat
  PROVE  Backoff(n) \in 0 .. MaxDelay
<1>1. Smaller(n, 20) \in 0 .. 20
  BY DEF Smaller
<1>2. PICK m \in Nat : m = 2 ^ Smaller(n, 20)
  BY <1>1, PowersOfTwo
<1>3. Interval * m \in Nat
  <2>1. \A i, j \in Nat : i * j \in Nat
    OBVIOUS
  <2>2. QED
    BY <2>1, ParametersType
<1>4. QED
  BY <1>2, <1>3, ParametersType DEF Backoff, Smaller

\* A pull that ends, and one that begins.
LEMMA DelaysForget ==
  ASSUME DelayTypes, NEW T, Forget(T)
  PROVE  oldWait' \in [Pullers -> 0 .. MaxDelay] /\ full' \in [Pullers -> BOOLEAN]
<1>1. oldWait' \in [Pullers -> 0 .. MaxDelay]
  BY ParametersType DEF DelayTypes, Forget
<1>2. full' \in [Pullers -> BOOLEAN]
  BY Zenon DEF DelayTypes, Forget
<1>3. QED
  BY <1>1, <1>2

LEMMA DelaysBegin ==
  ASSUME DelayTypes, NEW t \in Pullers, NEW p \in Peers, Begin(t, p)
  PROVE  oldWait' \in [Pullers -> 0 .. MaxDelay] /\ full' \in [Pullers -> BOOLEAN]
BY DEF DelayTypes, Begin

LEMMA DelaysTick ==
  ASSUME DelayTypes, Tick
  PROVE  DelayTypes'
<1>1. \A n \in 0 .. MaxDelay : Greater(n - 1, 0) \in 0 .. MaxDelay
  BY ParametersType DEF Greater
<1>2. wait' \in [Peers -> 0 .. MaxDelay] /\ oldWait' \in [Pullers -> 0 .. MaxDelay]
  BY <1>1 DEF DelayTypes, Tick
<1>3. QED
  BY <1>2 DEF DelayTypes, Tick

\* A row gets no delay but that of the backoff or the one read.
LEMMA DelaysSave ==
  ASSUME Types, DelayTypes, NEW t \in Pullers, Save(t)
  PROVE  DelayTypes'
<1>1. SavedWait(t) \in 0 .. MaxDelay
  <2>1. oldFailures[t] + 1 \in Nat /\ oldWait[t] \in 0 .. MaxDelay
    BY DEF Types, DelayTypes
  <2>2. Backoff(oldFailures[t] + 1) \in 0 .. MaxDelay
    BY <2>1, BackoffIsCapped
  <2>3. QED
    BY <2>1, <2>2, ParametersType DEF SavedWait, SavedFailures
<1>2. wait' \in [Peers -> 0 .. MaxDelay]
  BY <1>1, PeerOfType DEF Save, DelayTypes
<1>3. QED
  BY <1>2, DelaysForget DEF Save, DelayTypes

\* The steps that leave the delays and the local variables alone.
LEMMA DelaysSame ==
  ASSUME DelayTypes, UNCHANGED <<wait, oldWait, full>>, due' \subseteq Peers,
         faults' \in {faults, faults + 1}, commands' \in {commands, commands + 1}
  PROVE  DelayTypes'
BY DEF DelayTypes

LEMMA DelaysSupervisor ==
  ASSUME SyncInv, DelayTypes, Supervisor
  PROVE  DelayTypes'
<1>1. enabled \subseteq Peers /\ due \subseteq Peers
  BY DEF SyncInv, Types, DelayTypes
<1>2. CASE StartCycle
  BY <1>1, <1>2, DelaysSame DEF StartCycle
<1>3. CASE Restart
  BY <1>3, DelaysForget DEF Restart, DelayTypes
<1>4. ASSUME NEW p \in Peers, Spawn(p) PROVE DelayTypes'
  BY <1>1, <1>4, DelaysBegin DEF Spawn, DelayTypes
<1>5. QED
  BY <1>2, <1>3, <1>4 DEF Supervisor

LEMMA DelaysStep ==
  ASSUME SyncInv, DelayTypes, NEW t \in Pullers, Step(t)
  PROVE  DelayTypes'
<1>1. due \subseteq Peers
  BY DEF DelayTypes
<1>2. CASE Fetch(t)
  BY <1>2 DEF Fetch, DelayTypes
<1>3. CASE FetchFails(t)
  BY <1>1, <1>3, DelaysSame DEF FetchFails
<1>4. CASE Ingest(t)
  BY <1>1, <1>4, DelaysSame DEF Ingest
<1>5. CASE Save(t)
  BY <1>5, DelaysSave DEF SyncInv
<1>6. QED
  BY <1>2, <1>3, <1>4, <1>5 DEF Step

LEMMA DelaysCommand ==
  ASSUME SyncInv, DelayTypes, NEW c \in Commands, Command(c)
  PROVE  DelayTypes'
<1>1. due \subseteq Peers
  BY DEF DelayTypes
<1>2. ASSUME NEW S \in Selections, SyncPull(c, S) PROVE DelayTypes'
  BY <1>1, <1>2, DelaysSame DEF SyncPull, Run
<1>3. ASSUME NEW S \in Selections, SyncReset(c, S) PROVE DelayTypes'
  BY <1>3, ParametersType DEF SyncReset, Run, DelayTypes
<1>4. ASSUME NEW p \in Peers, PullNext(c, p) PROVE DelayTypes'
  BY <1>4, DelaysBegin DEF PullNext, DelayTypes
<1>5. ASSUME NEW p \in Peers, SyncBootstrap(c, p) PROVE DelayTypes'
  BY <1>1, <1>5, DelaysSame DEF SyncBootstrap, Run
<1>6. CASE Import(c)
  BY <1>1, <1>6, DelaysSame DEF Import
<1>7. CASE BootstrapFails(c)
  BY <1>1, <1>7, DelaysSame DEF BootstrapFails
<1>8. CASE SeedCursor(c)
  <2>1. wait' = [wait EXCEPT ![target[c]] = 0]
        /\ UNCHANGED <<oldWait, full, due, faults, commands>>
    BY <1>8 DEF SeedCursor
  <2>2. 0 \in 0 .. MaxDelay /\ target[c] \in Peers /\ wait \in [Peers -> 0 .. MaxDelay]
    BY ParametersType DEF SyncInv, Types, DelayTypes
  <2>3. wait' \in [Peers -> 0 .. MaxDelay]
    BY <2>1, <2>2
  <2>4. QED
    BY <2>1, <2>3 DEF DelayTypes
<1>9. CASE Align(c)
  BY <1>9, DelaysForget DEF Align, DelayTypes
<1>10. CASE Kill(c)
  BY <1>10, DelaysForget DEF Kill, DelayTypes
<1>11. QED
  BY <1>2, <1>3, <1>4, <1>5, <1>6, <1>7, <1>8, <1>9, <1>10 DEF Command

-----------------------------------------------------------------------------
(* The theorems *)

LEMMA SyncInit == Init => SyncInv
<1>1. SUFFICES ASSUME Init PROVE SyncInv
  OBVIOUS
<1>2. Types
  BY <1>1, TypesInit
<1>3. CursorInv
  <2>1. ASSUME NEW p \in Peers PROVE Through(p, cursor[p])
    <3>1. cursor[p] = 0 /\ Len(remote[p]) \in Nat
      BY <1>1, <1>2 DEF Init, Types
    <3>2. QED
      BY <3>1 DEF Through
  <2>2. ASSUME NEW t \in Pullers PROVE Knows(t)
    <3>1. pc[t] = "idle"
      BY <1>1 DEF Init
    <3>2. QED
      BY <3>1 DEF Knows
  <2>3. QED
    BY <2>1, <2>2 DEF CursorInv
<1>4. FloorInv
  BY <1>1 DEF Init, FloorInv
<1>5. WaitInv
  BY <1>1 DEF Init, WaitInv, FailuresTogether
<1>6. DropInv
  BY <1>1, FS_EmptySet DEF Init, DropInv
<1>7. QED
  BY <1>2, <1>3, <1>4, <1>5, <1>6 DEF SyncInv

LEMMA SyncStep ==
  ASSUME SyncInv, [Next]_vars
  PROVE  SyncInv'
<1> DropInv'
  BY NextDrops, DropsCounted DEF SyncInv
<1> USE DEF SyncInv
<1>1. ASSUME NEW p \in Peers, NEW e \in Events, Publish(p, e) PROVE SyncInv'
  BY <1>1, TypesPublish, CursorPublish, FloorSame, WaitSame DEF Publish
<1>2. ASSUME NEW e \in Events, Submit(e) PROVE SyncInv'
  BY <1>2, TypesSubmit, CursorSubmit, FloorStore, WaitSame DEF Submit
<1>3. ASSUME NEW p \in Peers, Toggle(p) PROVE SyncInv'
  BY <1>3, TypesToggle, CursorSame, FloorSame, WaitSame DEF Toggle
<1>4. ASSUME Tick PROVE SyncInv'
  BY <1>4, TypesTick, CursorSame, FloorSame, WaitTick DEF Tick
<1>5. ASSUME NEW t \in Pullers, Fetch(t) PROVE SyncInv'
  BY <1>5, TypesFetch, CursorFetch, FloorSame, WaitSame DEF Fetch
<1>6. ASSUME NEW t \in Pullers, FetchFails(t) PROVE SyncInv'
  BY <1>6, TypesFetchFails, CursorFetchFails, FloorSame, WaitSame DEF FetchFails
<1>7. ASSUME NEW t \in Pullers, Ingest(t) PROVE SyncInv'
  BY <1>7, TypesIngest, CursorIngest, FloorIngest, WaitSame DEF Ingest
<1>8. ASSUME NEW t \in Pullers, Save(t) PROVE SyncInv'
  BY <1>8, TypesSave, CursorSave, FloorSame, WaitSave DEF Save
<1>9. ASSUME StartCycle PROVE SyncInv'
  BY <1>9, TypesStartCycle, CursorSame, FloorSame, WaitSame DEF StartCycle
<1>10. ASSUME Restart PROVE SyncInv'
  BY <1>10, TypesRestart, CursorRestart, FloorSame, WaitForget DEF Restart
<1>11. ASSUME NEW p \in Peers, Spawn(p) PROVE SyncInv'
  <2>1. WaitInv'
    BY <1>11, WaitBegin, WaitSame DEF Spawn
  <2>2. QED
    BY <1>11, <2>1, TypesSpawn, CursorSpawn, FloorSame DEF Spawn
<1>12. ASSUME NEW c \in Commands, NEW S \in SUBSET Peers, SyncPull(c, S) PROVE SyncInv'
  BY <1>12, TypesSyncPull, CursorSame, FloorSame, WaitSame DEF SyncPull
<1>13. ASSUME NEW c \in Commands, NEW S \in SUBSET Peers, SyncReset(c, S) PROVE SyncInv'
  BY <1>13, TypesSyncReset, CursorReset, FloorSame, WaitReset DEF SyncReset
<1>14. ASSUME NEW c \in Commands, NEW p \in Peers, PullNext(c, p) PROVE SyncInv'
  BY <1>14, TypesPullNext, CursorPullNext, FloorSame, WaitBegin DEF PullNext
<1>15. ASSUME NEW c \in Commands, NEW p \in Peers, SyncBootstrap(c, p) PROVE SyncInv'
  BY <1>15, TypesSyncBootstrap, CursorBootstrap, FloorSame, WaitSame DEF SyncBootstrap
<1>16. ASSUME NEW c \in Commands, Import(c) PROVE SyncInv'
  BY <1>16, TypesImport, CursorImport, FloorSame, WaitSame DEF Import
<1>17. ASSUME NEW c \in Commands, BootstrapFails(c) PROVE SyncInv'
  BY <1>17, TypesBootstrapFails, CursorBootstrapFails, FloorSame, WaitSame DEF BootstrapFails
<1>18. ASSUME NEW c \in Commands, SeedCursor(c) PROVE SyncInv'
  BY <1>18, TypesSeedCursor, CursorSeed, FloorSame, WaitSeed DEF SeedCursor
<1>19. ASSUME NEW c \in Commands, Align(c) PROVE SyncInv'
  <2>1. pc[c] = "align" => snap[c] \in Snapshot
    BY DEF CursorInv, Knows
  <2>2. QED
    BY <1>19, <2>1, TypesAlign, CursorAlign, FloorAlign, WaitForget DEF Align
<1>20. ASSUME NEW c \in Commands, Kill(c) PROVE SyncInv'
  BY <1>20, TypesKill, CursorKill, FloorSame, WaitForget DEF Kill
<1>21. ASSUME UNCHANGED vars PROVE SyncInv'
  <2>1. Types'
    BY <1>21 DEF vars, Types
  <2>2. QED
    BY <1>21, <2>1, CursorSame, FloorSame, WaitSame DEF vars
<1>22. CASE Surroundings
  BY <1>1, <1>2, <1>3, <1>4, <1>22 DEF Surroundings
<1>23. CASE Supervisor
  BY <1>9, <1>10, <1>11, <1>23 DEF Supervisor
<1>24. ASSUME NEW t \in Pullers, Step(t) PROVE SyncInv'
  BY <1>5, <1>6, <1>7, <1>8, <1>24 DEF Step
<1>25. ASSUME NEW c \in Commands, Command(c) PROVE SyncInv'
  <2>1. Selections \subseteq SUBSET Peers
    BY DEF Selections, Types
  <2>2. QED
    BY <1>12, <1>13, <1>14, <1>15, <1>16, <1>17, <1>18, <1>19, <1>20, <1>25, <2>1 DEF Command
<1>26. QED
  BY <1>21, <1>22, <1>23, <1>24, <1>25 DEF Next

\* The inductive invariant of rows, feeds and pulls, for every instance of the constants.
THEOREM SyncInvariant == Spec => []SyncInv
<1>1. QED
  BY SyncInit, SyncStep, PTL DEF Spec

\* The rows, feeds and pulls are well typed: no failures, however many, make a delay
\* exceed its cap.
THEOREM RowsKeepTheirTypes == Spec => []TypeOK
<1>1. Init => DelayTypes
  BY ParametersType DEF Init, DelayTypes
<1>2. SyncInv /\ DelayTypes /\ [Next]_vars => DelayTypes'
  <2>1. SUFFICES ASSUME SyncInv, DelayTypes, [Next]_vars PROVE DelayTypes'
    OBVIOUS
  <2>2. due \subseteq Peers
    BY <2>1 DEF DelayTypes
  <2>3. CASE Surroundings
    BY <2>1, <2>2, <2>3, DelaysSame, DelaysTick
    DEF Surroundings, Publish, Submit, Toggle
  <2>4. CASE UNCHANGED vars
    BY <2>1, <2>2, <2>4, DelaysSame DEF vars
  <2>5. QED
    BY <2>1, <2>3, <2>4, DelaysSupervisor, DelaysStep, DelaysCommand DEF Next
<1>3. SyncInv /\ DelayTypes => TypeOK
  BY DEF SyncInv, Types, DelayTypes, TypeOK
<1>4. QED
  BY <1>1, <1>2, <1>3, SyncInvariant, PTL DEF Spec

\* No cursor passes an event that the node neither stored, recorded as rejected nor
\* has in a snapshot, but for one per failure of the database, when peers take their
\* snapshots as of times past every creation time: whatever pulls, bootstraps, resets
\* and crashes interleave.
THEOREM NothingIsSkipped == ASSUME TimelySnapshots PROVE Spec => []NothingSkipped
<1>1. SyncInv => NothingSkipped
  BY DEF SyncInv, CursorInv, DropInv, Through, Met, NothingSkipped
<1>2. QED
  BY <1>1, SyncInvariant, PTL

\* The failure fields of a row belong together, although whole rows overwrite each other.
THEOREM FailuresStayTogether == Spec => []FailuresTogether
<1>1. SyncInv => FailuresTogether
  BY DEF SyncInv, WaitInv
<1>2. QED
  BY <1>1, SyncInvariant, PTL

\* What is stored after a bootstrap is in the delta of its snapshot.
THEOREM DeltaIsReplayed == Spec => []DeltaFollowsSnapshot
<1>1. SyncInv => DeltaFollowsSnapshot
  <2>1. SUFFICES ASSUME SyncInv, NEW x \in aligned, IsLatest(x[1]), ~HasBackfill(x[1])
        PROVE  x[1].covers \cup (Held \ x[2]) \subseteq Replayed(x[1])
    BY DEF DeltaFollowsSnapshot
  <2>2. x[1].seq \in Nat /\ x[1].asOf \in Nat
    BY <2>1 DEF SyncInv, Types, Snapshot
  <2>3. ASSUME NEW e \in Held \ x[2] PROVE seqOf[e] > x[1].seq /\ Created[e] > x[1].asOf
    <3>1. x[1].seq < seqOf[e] /\ seqOf[e] \in Nat /\ Created[e] \in Nat
      BY <2>1, EventsType DEF SyncInv, FloorInv, Held, Types
    <3>2. QED
      BY <2>1, <2>2, <3>1 DEF HasBackfill
  <2>4. QED
    BY <2>1, <2>3 DEF Replayed
<1>2. QED
  BY <1>1, SyncInvariant, PTL

=============================================================================
