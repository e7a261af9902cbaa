--------------------------- MODULE SnapshotReplay ---------------------------
(***************************************************************************)
(* How a node answers "the state as of a time" (replay_execution in        *)
(* crates/node/src/lib.rs): from the latest snapshot and the events after  *)
(* it when it can, and from the genesis otherwise; and how it takes the    *)
(* snapshots.  Each query of storage.rs opens its own connection, so that  *)
(* events arrive between the queries of one request.                       *)
(*                                                                         *)
(* The replay engine is reduced to what makes a run differ from another:   *)
(* the events a run has seen, those it has applied, and the disputes it    *)
(* has refunded when it ended.  An event that settles a dispute is applied *)
(* when the dispute is open; every other event is applied.                 *)
(***************************************************************************)
EXTENDS Integers, Sequences

CONSTANTS
  Events,         \* events of the kinds the engine applies
  Replayed,       \* those of the kinds in REPLAY_KINDS
  Created,        \* creation time of an event
  EventId,        \* identifier of an event
  Disputes,       \* the events that open a dispute
  Settles,        \* the dispute an event settles, None for the others
  DisputeTimeout, \* policy.dispute_timeout_seconds
  Skew,           \* how far creation times run ahead of the node's clock
  PastSnapshots,  \* whether snapshots are taken as of times of the past
  SnapshotsAlone, \* whether no event arrives while a snapshot is taken
  Threads,        \* threads that serve requests
  None,           \* no dispute
  MaxTime,        \* bound
  MaxSnapshots    \* bound

ASSUME EventsType ==
  /\ Created \in [Events -> Nat]
  /\ EventId \in [Events -> Nat]
  /\ Disputes \subseteq Events /\ Replayed \subseteq Events
  /\ None \notin Events
  /\ Settles \in [Events -> Disputes \cup {None}]
  /\ \A d \in Disputes : Settles[d] = None
ASSUME BoundsType ==
  /\ DisputeTimeout \in Nat /\ Skew \in Nat
  /\ PastSnapshots \in BOOLEAN /\ SnapshotsAlone \in BOOLEAN
  /\ MaxTime \in Nat /\ MaxSnapshots \in Nat

VARIABLES
  now,      \* the node's clock
  feed,     \* table event_order: an event's seq is its place
  snaps,    \* table snapshots, in the order of their insertion
  \* The request each thread serves:
  pc, kind, \* its next query; whether it is to be kept as a snapshot
  asOf,     \* effective_as_of
  began,    \* length of the feed when it began
  base,     \* the snapshot it resumes, 0 for the genesis
  run,      \* the run it has computed
  read      \* length of the feed when it read the events

request == <<pc, kind, asOf, began, base, run, read>>
vars == <<now, feed, snaps, request>>

-----------------------------------------------------------------------------
(* The replay engine *)

Run == [seen : SUBSET Events, applied : SUBSET Events, refunded : SUBSET Disputes]

Genesis == [seen |-> {}, applied |-> {}, refunded |-> {}]

\* The order in which replay_lines processes its lines.
Before(d, e) ==
  \/ Created[d] < Created[e]
  \/ Created[d] = Created[e] /\ EventId[d] < EventId[e]

\* The events of lines a run applies when it resumes from r.
Applied(r, lines) ==
  {e \in lines :
     LET d == Settles[e]
     IN  d # None =>
           /\ d \in r.applied \cup lines
           /\ d \in lines => Before(d, e)
           /\ d \notin r.refunded}

\* The disputes a run refunds at its end: those open and overdue at time a.
Overdue(applied, a) ==
  {d \in applied \cap Disputes :
     /\ Created[d] + DisputeTimeout <= a
     /\ \A e \in applied : Settles[e] # d}

\* replay_jsonl_resume: the lines, then the end of the run as of a.  What the run refunds stays in its checkpoint.
Resume(r, lines, a) ==
  LET applied == r.applied \cup Applied(r, lines)
  IN  [seen |-> r.seen \cup lines, applied |-> applied,
       refunded |-> r.refunded \cup Overdue(applied, a)]

-----------------------------------------------------------------------------
(* The queries of storage.rs *)

\* list_replay_event_lines.
LinesAsOf(n, a) ==
  {feed[i] : i \in {j \in 1 .. n : feed[j] \in Replayed /\ Created[feed[j]] <= a}}

\* Mutant of DeltaLines: the event right after the snapshot is left out.
DeltaLinesAfterNext(s, a) ==
  {feed[i] : i \in {j \in 1 .. Len(feed) :
                      /\ j > s.seq + 1 /\ feed[j] \in Replayed
                      /\ Created[feed[j]] <= a
                      /\ Created[feed[j]] > s.asOf}}

DeltaLines(s, a) ==
  {feed[i] : i \in {j \in 1 .. Len(feed) :
                      /\ j > s.seq /\ feed[j] \in Replayed
                      /\ Created[feed[j]] <= a
                      /\ Created[feed[j]] > s.asOf}}

\* Mutant of HasBackfill: late arrivals are not looked for.
NoBackfill(s) == FALSE

\* has_replay_backfill_since_seq.
HasBackfill(s) ==
  \E j \in 1 .. Len(feed) :
    j > s.seq /\ feed[j] \in Replayed /\ Created[feed[j]] <= s.asOf

\* latest_replay_event_seq_at_or_before.
LatestSeq(a) ==
  LET S == {0} \cup {j \in 1 .. Len(feed) : feed[j] \in Replayed /\ Created[feed[j]] <= a}
  IN  CHOOSE m \in S : \A j \in S : j <= m

\* find_latest_snapshot_at_or_before: greatest as_of, latest insertion; 0 if none.
IsLatest(i, a) ==
  /\ snaps[i].asOf <= a
  /\ \A j \in 1 .. Len(snaps) : snaps[j].asOf <= a =>
       \/ snaps[j].asOf < snaps[i].asOf
       \/ snaps[j].asOf = snaps[i].asOf /\ j <= i

\* Mutant of LatestSnapshot: the newest snapshot, whatever its as_of.
NewestSnapshot(a) == Len(snaps)

LatestSnapshot(a) ==
  IF \A i \in 1 .. Len(snaps) : snaps[i].asOf > a THEN 0
  ELSE CHOOSE i \in 1 .. Len(snaps) : IsLatest(i, a)

-----------------------------------------------------------------------------
Snapshot == [asOf : Nat, seq : Nat, run : Run]

TypeOK ==
  /\ now \in Nat
  /\ feed \in Seq(Events)
  /\ snaps \in Seq(Snapshot)
  /\ pc \in [Threads -> {"idle", "find", "check", "delta", "genesis", "done"}]
  /\ kind \in [Threads -> {"replay", "snapshot"}]
  /\ asOf \in [Threads -> Nat]
  /\ began \in [Threads -> Nat] /\ read \in [Threads -> Nat]
  /\ base \in [Threads -> Nat]
  /\ run \in [Threads -> Run]

Init ==
  /\ now = 0 /\ feed = <<>> /\ snaps = <<>>
  /\ pc = [t \in Threads |-> "idle"]
  /\ kind = [t \in Threads |-> "replay"]
  /\ asOf = [t \in Threads |-> 0]
  /\ began = [t \in Threads |-> 0] /\ read = [t \in Threads |-> 0]
  /\ base = [t \in Threads |-> 0]
  /\ run = [t \in Threads |-> Genesis]

-----------------------------------------------------------------------------
Tick ==
  /\ now < MaxTime
  /\ now' = now + 1
  /\ UNCHANGED <<feed, snaps, request>>

\* A node ingests an event, from its author or from a peer, late or not.
Arrive(e) ==
  /\ \A i \in 1 .. Len(feed) : feed[i] # e
  /\ Created[e] <= now + Skew
  /\ SnapshotsAlone => \A t \in Threads : pc[t] = "idle" \/ kind[t] = "replay"
  /\ feed' = Append(feed, e)
  /\ UNCHANGED <<now, snaps, request>>

Go(t, here, next) ==
  /\ pc[t] = here
  /\ pc' = [pc EXCEPT ![t] = next]

Begin(t, k, a) ==
  /\ k = "snapshot" => Len(snaps) < MaxSnapshots /\ (a >= now \/ PastSnapshots)
  /\ Go(t, "idle", "find")
  /\ kind' = [kind EXCEPT ![t] = k]
  /\ asOf' = [asOf EXCEPT ![t] = a]
  /\ began' = [began EXCEPT ![t] = Len(feed)]
  /\ UNCHANGED <<now, feed, snaps, base, run, read>>

FindSnapshot(t) ==
  /\ Go(t, "find", IF LatestSnapshot(asOf[t]) = 0 THEN "genesis" ELSE "check")
  /\ base' = [base EXCEPT ![t] = LatestSnapshot(asOf[t])]
  /\ UNCHANGED <<now, feed, snaps, kind, asOf, began, run, read>>

CheckBackfill(t) ==
  /\ Go(t, "check", IF HasBackfill(snaps[base[t]]) THEN "genesis" ELSE "delta")
  /\ UNCHANGED <<now, feed, snaps, kind, asOf, began, base, run, read>>

ReplayDelta(t) ==
  LET s == snaps[base[t]]
  IN
  /\ Go(t, "delta", "done")
  /\ run' = [run EXCEPT ![t] = Resume(s.run, DeltaLines(s, asOf[t]), asOf[t])]
  /\ read' = [read EXCEPT ![t] = Len(feed)]
  /\ UNCHANGED <<now, feed, snaps, kind, asOf, began, base>>

ReplayGenesis(t) ==
  /\ Go(t, "genesis", "done")
  /\ run' = [run EXCEPT ![t] = Resume(Genesis, LinesAsOf(Len(feed), asOf[t]), asOf[t])]
  /\ read' = [read EXCEPT ![t] = Len(feed)]
  /\ UNCHANGED <<now, feed, snaps, kind, asOf, began, base>>

\* The thread is free for another request.
Finish(t) ==
  /\ Go(t, "done", "idle")
  /\ kind' = [kind EXCEPT ![t] = "replay"]
  /\ asOf' = [asOf EXCEPT ![t] = 0]
  /\ began' = [began EXCEPT ![t] = 0]
  /\ base' = [base EXCEPT ![t] = 0]
  /\ run' = [run EXCEPT ![t] = Genesis]
  /\ read' = [read EXCEPT ![t] = 0]

Reply(t) ==
  /\ kind[t] = "replay"
  /\ Finish(t)
  /\ UNCHANGED <<now, feed, snaps>>

\* create_snapshot, once the run has been computed: the last sequence number is
\* queried and the row inserted.
TakeSnapshot(t) ==
  /\ kind[t] = "snapshot"
  /\ Finish(t)
  /\ snaps' = Append(snaps, [asOf |-> asOf[t], seq |-> LatestSeq(asOf[t]), run |-> run[t]])
  /\ UNCHANGED <<now, feed>>

Next ==
  \/ Tick
  \/ \E e \in Events : Arrive(e)
  \/ \E t \in Threads :
       \/ \E k \in {"replay", "snapshot"}, a \in 0 .. MaxTime : Begin(t, k, a)
       \/ FindSnapshot(t) \/ CheckBackfill(t)
       \/ ReplayDelta(t) \/ ReplayGenesis(t)
       \/ Reply(t) \/ TakeSnapshot(t)

Spec == Init /\ [][Next]_vars

-----------------------------------------------------------------------------
(* Properties *)

\* The run from the genesis over the first n events, as of a.
GenesisRun(n, a) == Resume(Genesis, LinesAsOf(n, a), a)

\* K-04: what a request answers is the replay from the genesis, whichever snapshot
\* it resumed.  A request during which an event arrived is not held to it.
ReplayEquivalence ==
  \A t \in Threads :
    pc[t] = "done" /\ read[t] = began[t] => run[t] = GenesisRun(began[t], asOf[t])

\* An event of a replayed kind that was stored before a request began, and was created
\* by its as_of, has been processed by its answer, even when others arrive meanwhile.
NothingStoredIsMissed ==
  \A t \in Threads : pc[t] = "done" => LinesAsOf(began[t], asOf[t]) \subseteq run[t].seen

\* docs/foundation/market-operating-model.md, "Cancel open milestone": the cancels of
\* buyer and provider refund the escrow.  Whatever the engine would apply and the node
\* had stored before a request began is in its answer.
AppliedKindsAreReplayed ==
  \A t \in Threads, j \in 1 .. Len(feed) :
    pc[t] = "done" /\ j <= began[t] /\ Created[feed[j]] <= asOf[t] => feed[j] \in run[t].seen

\* Clocks agree, snapshots are taken undisturbed and of no past time, and disputes
\* are settled before they time out.
Timely ==
  /\ Skew = 0
  /\ ~PastSnapshots
  /\ SnapshotsAlone
  /\ \A e \in Events : Settles[e] # None =>
       Created[e] < Created[Settles[e]] + DisputeTimeout

(* Why both hold when Timely does. *)

FeedIsPast == \A j \in 1 .. Len(feed) : Created[feed[j]] <= now

\* A snapshot is the run from the genesis over a prefix of the feed that its as_of
\* covers.
SnapshotsArePrefixes ==
  \A k \in 1 .. Len(snaps) :
    LET s == snaps[k]
    IN  /\ s.seq <= Len(feed)
        /\ \A j \in 1 .. s.seq : Created[feed[j]] <= s.asOf
        /\ s.run = GenesisRun(s.seq, s.asOf)

\* What a thread knows of the request it serves.
RequestOK(t) ==
  /\ began[t] <= Len(feed)
  /\ kind[t] = "snapshot" =>
       /\ began[t] = Len(feed)
       /\ \A j \in 1 .. Len(feed) : Created[feed[j]] <= asOf[t]
  /\ pc[t] \in {"check", "delta"} =>
       base[t] \in 1 .. Len(snaps) /\ snaps[base[t]].asOf <= asOf[t]
  /\ pc[t] = "delta" =>
       \A j \in 1 .. began[t] :
         j > snaps[base[t]].seq /\ feed[j] \in Replayed =>
           Created[feed[j]] > snaps[base[t]].asOf
  /\ pc[t] = "done" =>
       /\ began[t] <= read[t] /\ read[t] <= Len(feed)
       /\ read[t] = began[t] => run[t] = GenesisRun(began[t], asOf[t])
       /\ LinesAsOf(began[t], asOf[t]) \subseteq run[t].seen

\* The inductive invariant.
ReplayInv ==
  /\ TypeOK
  /\ FeedIsPast
  /\ SnapshotsArePrefixes
  /\ \A t \in Threads : pc[t] # "idle" => RequestOK(t)
=============================================================================
