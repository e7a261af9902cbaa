------------------------ MODULE SnapshotReplayProofs ------------------------
(***************************************************************************)
(* Proofs about SnapshotReplay, for every log, policy and set of threads:  *)
(* when Timely holds, what a node answers from its snapshots is the replay *)
(* from the genesis.                                                       *)
(***************************************************************************)
EXTENDS SnapshotReplay, WellFoundedInduction, TLAPS

USE DEF Genesis

-----------------------------------------------------------------------------
(* The latest snapshot *)

\* A set of natural numbers has a least element.
LEMMA LeastNatural ==
  ASSUME NEW T \in SUBSET Nat, T # {}
  PROVE  \E x \in T : \A y \in T : x <= y
<1>1. \E x \in T : \A y \in T : ~ (<<y, x>> \in OpToRel(<, Nat))
  BY NatLessThanWellFounded, WFMin
<1>2. PICK x \in T : \A y \in T : ~ (<<y, x>> \in OpToRel(<, Nat))
  BY <1>1
<1>3. ASSUME NEW y \in T PROVE x <= y
  <2>1. x \in Nat /\ y \in Nat
    OBVIOUS
  <2>2. ~ (<<y, x>> \in {p \in Nat \X Nat : p[1] < p[2]})
    BY <1>2 DEF OpToRel
  <2>3. ~ (y < x)
    BY <2>1, <2>2
  <2>4. QED
    BY <2>1, <2>3
<1>4. QED
  BY <1>3

\* A snapshot taken no later than a is found when there is one.
LEMMA LatestSnapshotFound ==
  ASSUME snaps \in Seq(Snapshot), NEW a \in Nat, LatestSnapshot(a) # 0
  PROVE  LatestSnapshot(a) \in 1 .. Len(snaps) /\ snaps[LatestSnapshot(a)].asOf <= a
<1> DEFINE Good == {i \in 1 .. Len(snaps) : snaps[i].asOf <= a}
           Ages == {a - snaps[i].asOf : i \in Good}
<1>0. /\ Len(snaps) \in Nat
      /\ \A i \in 1 .. Len(snaps) : snaps[i].asOf \in Nat
  <2>1. \A i \in 1 .. Len(snaps) : snaps[i] \in Snapshot
    OBVIOUS
  <2>2. QED
    BY <2>1 DEF Snapshot
<1>1. Good # {}
  BY <1>0 DEF LatestSnapshot
<1>2. Ages \in SUBSET Nat /\ Ages # {}
  <2>1. ASSUME NEW i \in Good PROVE a - snaps[i].asOf \in Nat
    BY <1>0, <2>1
  <2>2. QED
    BY <1>1, <2>1
<1>3. PICK g \in Good : \A i \in Good : a - snaps[g].asOf <= a - snaps[i].asOf
  <2>1. \E x \in Ages : \A y \in Ages : x <= y
    BY ONLY <1>2, LeastNatural
  <2>2. QED
    BY <2>1
<1> DEFINE Same == {i \in Good : snaps[i].asOf = snaps[g].asOf}
           Places == {Len(snaps) - i : i \in Same}
<1>4. Places \in SUBSET Nat /\ Places # {}
  <2>1. ASSUME NEW i \in Same PROVE Len(snaps) - i \in Nat
    BY <1>0, <2>1
  <2>2. QED
    BY <1>3, <2>1
<1>5. PICK m \in Same : \A i \in Same : Len(snaps) - m <= Len(snaps) - i
  <2>1. \E x \in Places : \A y \in Places : x <= y
    BY ONLY <1>4, LeastNatural
  <2>2. QED
    BY <2>1
<1>6. m \in 1 .. Len(snaps) /\ IsLatest(m, a)
  <2>1. ASSUME NEW j \in 1 .. Len(snaps), snaps[j].asOf <= a
        PROVE  \/ snaps[j].asOf < snaps[m].asOf
               \/ snaps[j].asOf = snaps[m].asOf /\ j <= m
    <3>1. j \in Good
      BY <2>1
    <3>2. snaps[j].asOf <= snaps[g].asOf
      BY <1>0, <1>3, <3>1
    <3>3. CASE snaps[j].asOf = snaps[g].asOf
      BY <1>0, <1>5, <3>1, <3>3
    <3>4. CASE snaps[j].asOf < snaps[g].asOf
      BY <3>4
    <3>5. QED
      BY <1>0, <3>2, <3>3, <3>4
  <2>2. QED
    BY <2>1 DEF IsLatest
<1>7. LatestSnapshot(a) = CHOOSE i \in 1 .. Len(snaps) : IsLatest(i, a)
  BY DEF LatestSnapshot
<1>8. LatestSnapshot(a) \in 1 .. Len(snaps) /\ IsLatest(LatestSnapshot(a), a)
  BY <1>6, <1>7
<1>9. QED
  BY <1>8 DEF IsLatest

-----------------------------------------------------------------------------
(* The replay engine *)

\* A run resumed over lines has processed them, and is a run.
LEMMA ResumeType ==
  ASSUME NEW r \in Run, NEW D \in SUBSET Events, NEW a \in Nat
  PROVE  Resume(r, D, a) \in Run /\ Resume(r, D, a).seen = r.seen \cup D
BY EventsType DEF Resume, Run, Applied, Overdue

\* A run resumed after a snapshot is the run from the genesis over all the lines,
\* when what is resumed is later than the snapshot and disputes are settled in time.
LEMMA ResumedRunIsReplay ==
  ASSUME Timely,
         NEW S \in SUBSET Events, NEW D \in SUBSET Events,
         NEW a \in Nat, NEW b \in Nat, a <= b,
         \A e \in S : Created[e] <= a,
         \A e \in D : Created[e] > a
  PROVE  Resume(Resume(Genesis, S, a), D, b) = Resume(Genesis, S \cup D, b)
<1> DEFINE r1 == Resume(Genesis, S, a)
           all == Applied(Genesis, S \cup D)
<1>0. /\ Created \in [Events -> Nat] /\ EventId \in [Events -> Nat]
      /\ Disputes \subseteq Events /\ None \notin Events
      /\ Settles \in [Events -> Disputes \cup {None}]
      /\ \A d \in Disputes : Settles[d] = None
      /\ DisputeTimeout \in Nat
      /\ \A e \in Events : Settles[e] # None =>
           Created[e] < Created[Settles[e]] + DisputeTimeout
  BY EventsType, BoundsType DEF Timely
<1>1. /\ r1.seen = S
      /\ r1.applied = Applied(Genesis, S)
      /\ r1.refunded = Overdue(Applied(Genesis, S), a)
  BY DEF Resume
<1>2. ASSUME NEW d \in Disputes
      PROVE  d \in Applied(Genesis, S) <=> d \in S
  BY <1>0 DEF Applied
<1>3. ASSUME NEW e \in S
      PROVE  e \in Applied(Genesis, S) <=> e \in all
  <2>1. ASSUME Settles[e] # None, Settles[e] \in D, Before(Settles[e], e)
        PROVE  FALSE
    BY <1>0, <2>1 DEF Before
  <2>2. QED
    BY <1>0, <2>1 DEF Applied
<1>4. ASSUME NEW e \in D
      PROVE  e \in Applied(r1, D) <=> e \in all
  <2>1. CASE Settles[e] = None
    BY <2>1 DEF Applied
  <2>2. CASE Settles[e] # None
    <3> DEFINE d == Settles[e]
    <3>1. d \in Disputes /\ d \in Events
      BY <1>0, <2>2
    <3>2. d \in S => Before(d, e)
      BY <1>0, <3>1 DEF Before
    <3>3. d \notin r1.refunded
      <4>1. d \in r1.refunded => Created[d] + DisputeTimeout <= a
        BY <1>1 DEF Overdue
      <4>2. QED
        BY <1>0, <2>2, <3>1, <4>1
    <3>4. d \in r1.applied <=> d \in S
      BY <1>1, <1>2, <3>1
    <3>5. d \in S => d \notin D
      BY <1>0, <3>1
    <3>6. e \in Applied(r1, D) <=>
            /\ d \in r1.applied \cup D
            /\ d \in D => Before(d, e)
      BY <2>2, <3>3 DEF Applied
    <3>7. e \in all <=> d \in S \cup D /\ Before(d, e)
      BY <2>2 DEF Applied
    <3>8. QED
      BY <3>2, <3>4, <3>5, <3>6, <3>7
  <2>3. QED
    BY <2>1, <2>2
<1>5. r1.applied \cup Applied(r1, D) = all
  <2>1. Applied(Genesis, S) \subseteq S /\ Applied(r1, D) \subseteq D
        /\ all \subseteq S \cup D
    BY DEF Applied
  <2>2. QED
    BY <1>1, <1>3, <1>4, <2>1
<1>6. r1.refunded \subseteq Overdue(all, b)
  <2>1. SUFFICES ASSUME NEW d \in r1.refunded PROVE d \in Overdue(all, b)
    OBVIOUS
  <2>2. /\ d \in Applied(Genesis, S) \cap Disputes
        /\ Created[d] + DisputeTimeout <= a
        /\ \A e \in Applied(Genesis, S) : Settles[e] # d
    BY <1>1, <2>1 DEF Overdue
  <2>3. d \in all \cap Disputes
    BY <1>1, <1>5, <2>2
  <2>4. Created[d] + DisputeTimeout <= b
    BY <1>0, <2>2
  <2>5. ASSUME NEW e \in all, Settles[e] = d PROVE FALSE
    <3>1. e \in S \cup D
      BY <2>5 DEF Applied
    <3>2. CASE e \in S
      BY <1>3, <2>2, <2>5, <3>2
    <3>3. CASE e \in D
      <4>1. d # None /\ e \in Events /\ d \in Events
        BY <1>0, <2>2, <3>3
      <4>2. Created[e] < Created[d] + DisputeTimeout
        BY <1>0, <2>5, <4>1
      <4>3. QED
        BY <1>0, <2>2, <3>3, <4>1, <4>2
    <3>4. QED
      BY <3>1, <3>2, <3>3
  <2>6. QED
    BY <2>3, <2>4, <2>5 DEF Overdue
<1>7. Resume(r1, D, b) = [seen |-> S \cup D, applied |-> all,
                          refunded |-> r1.refunded \cup Overdue(all, b)]
  BY <1>1, <1>5 DEF Resume
<1>8. Resume(Genesis, S \cup D, b) = [seen |-> S \cup D, applied |-> all,
                                      refunded |-> Overdue(all, b)]
  BY DEF Resume
<1>9. QED
  BY <1>6, <1>7, <1>8

-----------------------------------------------------------------------------
(* The queries *)

\* What a prefix of the feed holds does not change when the feed grows.
LEMMA PrefixIsKept ==
  ASSUME feed \in Seq(Events), NEW e \in Events, feed' = Append(feed, e),
         NEW n \in 0 .. Len(feed), NEW a \in Nat
  PROVE  LinesAsOf(n, a)' = LinesAsOf(n, a) /\ GenesisRun(n, a)' = GenesisRun(n, a)
<1>1. \A j \in 1 .. n : feed'[j] = feed[j]
  OBVIOUS
<1>2. LinesAsOf(n, a)' = LinesAsOf(n, a)
  BY <1>1 DEF LinesAsOf
<1>3. QED
  BY <1>2 DEF GenesisRun, Resume, Applied, Overdue

\* The lines of a query are events.
LEMMA LinesAreEvents ==
  ASSUME feed \in Seq(Events), NEW n \in 0 .. Len(feed), NEW a \in Nat
  PROVE  LinesAsOf(n, a) \in SUBSET Events /\ GenesisRun(n, a) \in Run
         /\ GenesisRun(n, a).seen = LinesAsOf(n, a)
<1>1. LinesAsOf(n, a) \in SUBSET Events
  BY DEF LinesAsOf
<1>2. Genesis \in Run /\ Genesis.seen = {}
  BY DEF Run
<1>3. QED
  BY <1>1, <1>2, ResumeType DEF GenesisRun

\* No event that is replayed comes after the last sequence number when a covers the
\* feed, so that the feed up to there holds the same lines.
LEMMA LatestSeqIsLast ==
  ASSUME feed \in Seq(Events), NEW a \in Nat,
         \A j \in 1 .. Len(feed) : Created[feed[j]] <= a
  PROVE  /\ LatestSeq(a) \in 0 .. Len(feed)
         /\ LinesAsOf(LatestSeq(a), a) = LinesAsOf(Len(feed), a)
<1> DEFINE S == {0} \cup {j \in 1 .. Len(feed) : feed[j] \in Replayed /\ Created[feed[j]] <= a}
           T == {n \in Nat : n <= Len(feed) /\ Len(feed) - n \in S}
<1>0. Len(feed) \in Nat /\ S \subseteq 0 .. Len(feed)
  OBVIOUS
<1>1. PICK n \in S : \A j \in S : j <= n
  <2>1. Len(feed) \in T
    BY <1>0
  <2>2. PICK x \in T : \A y \in T : x <= y
    BY <2>1, LeastNatural
  <2>3. ASSUME NEW j \in S PROVE j <= Len(feed) - x
    <3>1. Len(feed) - j \in T
      BY <1>0
    <3>2. QED
      BY <1>0, <2>2, <3>1
  <2>4. QED
    BY <2>2, <2>3
<1>2. LatestSeq(a) = CHOOSE m \in S : \A j \in S : j <= m
  BY DEF LatestSeq
<1>3. LatestSeq(a) \in S /\ \A j \in S : j <= LatestSeq(a)
  BY <1>1, <1>2
<1>4. LatestSeq(a) \in 0 .. Len(feed)
  BY <1>0, <1>3
<1>5. \A j \in 1 .. Len(feed) : feed[j] \in Replayed => j <= LatestSeq(a)
  BY <1>3
<1>6. QED
  BY <1>4, <1>5 DEF LinesAsOf

-----------------------------------------------------------------------------
(* The invariant *)

\* The two properties follow from the invariant.
LEMMA InvImplies ==
  ReplayInv => ReplayEquivalence /\ NothingStoredIsMissed
BY DEF ReplayInv, RequestOK, ReplayEquivalence, NothingStoredIsMissed

LEMMA InvInit == Init => ReplayInv
BY DEF Init, ReplayInv, TypeOK, FeedIsPast, SnapshotsArePrefixes, Run

\* What a prefix of the feed holds is the same when the feed is.
LEMMA SameFeed ==
  ASSUME feed' = feed, NEW n, NEW a
  PROVE  LinesAsOf(n, a)' = LinesAsOf(n, a) /\ GenesisRun(n, a)' = GenesisRun(n, a)
<1>1. LinesAsOf(n, a)' = LinesAsOf(n, a)
  BY DEF LinesAsOf
<1>2. QED
  BY <1>1 DEF GenesisRun, Resume, Applied, Overdue

\* The snapshots keep their places when others are added.
SnapsKept ==
  /\ Len(snaps') \in Nat /\ Len(snaps) <= Len(snaps')
  /\ \A k \in 1 .. Len(snaps) : snaps'[k] = snaps[k]

RequestKept(s) ==
  /\ pc'[s] = pc[s] /\ kind'[s] = kind[s] /\ asOf'[s] = asOf[s]
  /\ began'[s] = began[s] /\ base'[s] = base[s] /\ run'[s] = run[s]
  /\ read'[s] = read[s]

\* A step that leaves the feed and a request alone preserves what its thread knows.
LEMMA RequestStaysOK ==
  ASSUME ReplayInv, NEW s \in Threads, feed' = feed, SnapsKept, RequestKept(s),
         pc[s] # "idle"
  PROVE  RequestOK(s)'
<1>1. RequestOK(s) /\ TypeOK
  BY DEF ReplayInv
<1>2. PICK n, a : n = began[s] /\ a = asOf[s]
  OBVIOUS
<1>3. began'[s] = n /\ asOf'[s] = a
  BY <1>2 DEF RequestKept
<1>4. LinesAsOf(n, a)' = LinesAsOf(n, a) /\ GenesisRun(n, a)' = GenesisRun(n, a)
  BY SameFeed
<1>5. pc[s] \in {"check", "delta"} => snaps'[base[s]] = snaps[base[s]]
                                      /\ base[s] \in 1 .. Len(snaps')
  BY <1>1 DEF RequestOK, SnapsKept, TypeOK
<1>6. LinesAsOf(began[s], asOf[s])' = LinesAsOf(began[s], asOf[s])
      /\ GenesisRun(began[s], asOf[s])' = GenesisRun(began[s], asOf[s])
  BY <1>2, <1>3, <1>4
<1>7. QED
  BY <1>1, <1>5, <1>6 DEF RequestOK, RequestKept

\* A step that leaves the feed and the snapshots alone keeps the snapshots right.
LEMMA SnapshotsStayOK ==
  ASSUME SnapshotsArePrefixes, feed' = feed, snaps' = snaps
  PROVE  SnapshotsArePrefixes'
<1>1. SUFFICES ASSUME NEW k \in 1 .. Len(snaps)
      PROVE  /\ snaps[k].seq <= Len(feed)
             /\ \A j \in 1 .. snaps[k].seq : Created[feed[j]] <= snaps[k].asOf
             /\ snaps[k].run = GenesisRun(snaps[k].seq, snaps[k].asOf)'
  BY DEF SnapshotsArePrefixes
<1>2. PICK n, a : n = snaps[k].seq /\ a = snaps[k].asOf
  OBVIOUS
<1>3. GenesisRun(n, a)' = GenesisRun(n, a)
  BY SameFeed
<1>4. QED
  BY <1>2, <1>3 DEF SnapshotsArePrefixes

\* A step of thread t that only changes the request of t preserves the invariant
\* when its new request is right.
LEMMA ThreadStep ==
  ASSUME ReplayInv, NEW t \in Threads,
         UNCHANGED <<now, feed, snaps>>,
         \A s \in Threads : s # t => RequestKept(s),
         TypeOK', pc'[t] # "idle" => RequestOK(t)'
  PROVE  ReplayInv'
<1>1. FeedIsPast'
  BY DEF ReplayInv, FeedIsPast
<1>2. SnapshotsArePrefixes'
  BY SnapshotsStayOK DEF ReplayInv
<1>3. ASSUME NEW s \in Threads, pc'[s] # "idle" PROVE RequestOK(s)'
  <2>1. CASE s = t
    BY <1>3, <2>1
  <2>2. CASE s # t
    <3>1. RequestKept(s) /\ pc[s] # "idle"
      BY <1>3, <2>2 DEF RequestKept
    <3>2. SnapsKept
      BY DEF SnapsKept, ReplayInv, TypeOK
    <3>3. QED
      BY <3>1, <3>2, RequestStaysOK
  <2>3. QED
    BY <2>1, <2>2
<1>4. QED
  BY <1>1, <1>2, <1>3 DEF ReplayInv

LEMMA TickStep == ReplayInv /\ Tick => ReplayInv'
<1> SUFFICES ASSUME ReplayInv, Tick PROVE ReplayInv'
  OBVIOUS
<1>1. feed' = feed /\ snaps' = snaps /\ \A s \in Threads : RequestKept(s)
  BY DEF Tick, request, RequestKept
<1>2. TypeOK'
  BY DEF ReplayInv, TypeOK, Tick, request
<1>3. FeedIsPast'
  <2>1. \A j \in 1 .. Len(feed) : Created[feed[j]] \in Nat
    BY EventsType DEF ReplayInv, TypeOK
  <2>2. now \in Nat /\ now' = now + 1
    BY DEF ReplayInv, TypeOK, Tick
  <2>3. QED
    BY <1>1, <2>1, <2>2 DEF ReplayInv, FeedIsPast
<1>4. SnapshotsArePrefixes'
  BY <1>1, SnapshotsStayOK DEF ReplayInv
<1>5. ASSUME NEW s \in Threads, pc'[s] # "idle" PROVE RequestOK(s)'
  <2>1. SnapsKept
    BY <1>1 DEF SnapsKept, ReplayInv, TypeOK
  <2>2. RequestKept(s) /\ pc[s] # "idle"
    BY <1>1, <1>5 DEF RequestKept
  <2>3. QED
    BY <1>1, <2>1, <2>2, RequestStaysOK
<1>6. QED
  BY <1>2, <1>3, <1>4, <1>5 DEF ReplayInv

\* No event arrives while a snapshot is taken, and none from the future.
LEMMA ArriveStep ==
  ASSUME Timely, ReplayInv, NEW e \in Events, Arrive(e)
  PROVE  ReplayInv'
<1>1. /\ feed \in Seq(Events) /\ feed' = Append(feed, e) /\ snaps' = snaps /\ now' = now
      /\ \A s \in Threads : RequestKept(s)
  BY DEF ReplayInv, TypeOK, Arrive, request, RequestKept
<1>2. /\ feed' \in Seq(Events) /\ Len(feed') = Len(feed) + 1 /\ Len(feed) \in Nat
      /\ \A j \in 1 .. Len(feed) : feed'[j] = feed[j]
      /\ feed'[Len(feed) + 1] = e
  BY <1>1
<1>3. TypeOK'
  BY <1>1, <1>2 DEF ReplayInv, TypeOK, Arrive, request
<1>4. FeedIsPast'
  <2>1. Created[e] <= now
    BY EventsType DEF ReplayInv, TypeOK, Arrive, Timely
  <2>2. ASSUME NEW j \in 1 .. Len(feed') PROVE Created[feed'[j]] <= now'
    <3>1. CASE j \in 1 .. Len(feed)
      BY <1>1, <1>2, <3>1 DEF ReplayInv, FeedIsPast
    <3>2. CASE j = Len(feed) + 1
      BY <1>1, <1>2, <2>1, <3>2
    <3>3. QED
      BY <1>2, <2>2, <3>1, <3>2
  <2>3. QED
    BY <2>2 DEF FeedIsPast
<1>5. SnapshotsArePrefixes'
  <2>1. SUFFICES ASSUME NEW k \in 1 .. Len(snaps)
        PROVE  /\ snaps[k].seq <= Len(feed')
               /\ \A j \in 1 .. snaps[k].seq : Created[feed'[j]] <= snaps[k].asOf
               /\ snaps[k].run = GenesisRun(snaps[k].seq, snaps[k].asOf)'
    BY <1>1 DEF SnapshotsArePrefixes
  <2>2. snaps[k] \in Snapshot
    BY DEF ReplayInv, TypeOK
  <2>3. PICK n \in 0 .. Len(feed), a \in Nat : n = snaps[k].seq /\ a = snaps[k].asOf
    BY <2>2, <1>2 DEF Snapshot, ReplayInv, SnapshotsArePrefixes
  <2>4. GenesisRun(n, a)' = GenesisRun(n, a)
    BY <1>1, PrefixIsKept
  <2>5. GenesisRun(snaps[k].seq, snaps[k].asOf)' = GenesisRun(snaps[k].seq, snaps[k].asOf)
    BY <1>1, <2>3, <2>4
  <2>6. QED
    BY <1>2, <2>3, <2>5 DEF ReplayInv, SnapshotsArePrefixes
<1>6. ASSUME NEW s \in Threads, pc'[s] # "idle" PROVE RequestOK(s)'
  <2>1. pc[s] # "idle" /\ RequestKept(s) /\ RequestOK(s)
    BY <1>1, <1>6 DEF RequestKept, ReplayInv
  <2>2. kind[s] # "snapshot"
    BY <2>1 DEF Arrive, Timely
  <2>3. PICK n \in 0 .. Len(feed), a \in Nat : n = began[s] /\ a = asOf[s]
    BY <1>2, <2>1 DEF ReplayInv, TypeOK, RequestOK
  <2>4. LinesAsOf(n, a)' = LinesAsOf(n, a) /\ GenesisRun(n, a)' = GenesisRun(n, a)
    BY <1>1, PrefixIsKept
  <2>5. LinesAsOf(began[s], asOf[s])' = LinesAsOf(began[s], asOf[s])
        /\ GenesisRun(began[s], asOf[s])' = GenesisRun(began[s], asOf[s])
    BY <2>1, <2>3, <2>4 DEF RequestKept
  <2>6. read[s] \in Nat
    BY DEF ReplayInv, TypeOK
  <2>7. QED
    BY <1>1, <1>2, <2>1, <2>2, <2>3, <2>5, <2>6 DEF RequestOK, RequestKept
<1>7. QED
  BY <1>3, <1>4, <1>5, <1>6 DEF ReplayInv

\* A request knows nothing yet but the feed, and a snapshot covers all of it.
LEMMA BeginStep ==
  ASSUME Timely, ReplayInv, NEW t \in Threads, NEW k \in {"replay", "snapshot"},
         NEW a \in 0 .. MaxTime, Begin(t, k, a)
  PROVE  ReplayInv'
<1>1. a \in Nat /\ Len(feed) \in Nat
  BY BoundsType DEF ReplayInv, TypeOK
<1>2. TypeOK'
  BY <1>1 DEF ReplayInv, TypeOK, Begin, Go
<1>3. RequestOK(t)'
  <2>1. /\ pc'[t] = "find" /\ kind'[t] = k /\ asOf'[t] = a /\ began'[t] = Len(feed)
        /\ feed' = feed
    BY DEF ReplayInv, TypeOK, Begin, Go
  <2>2. k = "snapshot" => now <= a
    BY DEF Begin, Timely, ReplayInv, TypeOK
  <2>3. k = "snapshot" => \A j \in 1 .. Len(feed) : Created[feed[j]] <= a
    <3>1. \A j \in 1 .. Len(feed) : Created[feed[j]] \in Nat
      BY EventsType DEF ReplayInv, TypeOK
    <3>2. now \in Nat
      BY DEF ReplayInv, TypeOK
    <3>3. QED
      BY <1>1, <2>2, <3>1, <3>2 DEF ReplayInv, FeedIsPast
  <2>4. QED
    BY <1>1, <2>1, <2>3 DEF RequestOK
<1>4. UNCHANGED <<now, feed, snaps>> /\ \A s \in Threads : s # t => RequestKept(s)
  BY DEF ReplayInv, TypeOK, Begin, Go, RequestKept
<1>5. QED
  BY <1>2, <1>3, <1>4, ThreadStep

LEMMA FindStep ==
  ASSUME ReplayInv, NEW t \in Threads, FindSnapshot(t)
  PROVE  ReplayInv'
<1>1. /\ snaps \in Seq(Snapshot) /\ asOf[t] \in Nat /\ Len(snaps) \in Nat
      /\ RequestOK(t)
  BY DEF ReplayInv, TypeOK, FindSnapshot, Go
<1>2. LatestSnapshot(asOf[t]) # 0 =>
        /\ LatestSnapshot(asOf[t]) \in 1 .. Len(snaps)
        /\ snaps[LatestSnapshot(asOf[t])].asOf <= asOf[t]
  BY <1>1, LatestSnapshotFound
<1>3. LatestSnapshot(asOf[t]) \in Nat
  BY <1>1, <1>2
<1>4. TypeOK'
  BY <1>3 DEF ReplayInv, TypeOK, FindSnapshot, Go
<1>5. RequestOK(t)'
  <2>1. /\ pc'[t] = IF LatestSnapshot(asOf[t]) = 0 THEN "genesis" ELSE "check"
        /\ base'[t] = LatestSnapshot(asOf[t])
        /\ feed' = feed /\ snaps' = snaps /\ kind' = kind /\ asOf' = asOf
        /\ began' = began
    BY DEF ReplayInv, TypeOK, FindSnapshot, Go
  <2>2. QED
    BY <1>1, <1>2, <2>1 DEF RequestOK
<1>6. UNCHANGED <<now, feed, snaps>> /\ \A s \in Threads : s # t => RequestKept(s)
  BY DEF ReplayInv, TypeOK, FindSnapshot, Go, RequestKept
<1>7. QED
  BY <1>4, <1>5, <1>6, ThreadStep

\* The snapshot is resumed only when all that arrived after it is later than it.
LEMMA CheckStep ==
  ASSUME ReplayInv, NEW t \in Threads, CheckBackfill(t)
  PROVE  ReplayInv'
<1>1. TypeOK'
  BY DEF ReplayInv, TypeOK, CheckBackfill, Go
<1>2. RequestOK(t)'
  <2>1. /\ pc[t] = "check" /\ RequestOK(t)
        /\ pc'[t] = IF HasBackfill(snaps[base[t]]) THEN "genesis" ELSE "delta"
        /\ feed' = feed /\ snaps' = snaps /\ kind' = kind /\ asOf' = asOf
        /\ began' = began /\ base' = base
    BY DEF ReplayInv, TypeOK, CheckBackfill, Go
  <2>2. /\ began[t] \in Nat /\ Len(feed) \in Nat /\ began[t] <= Len(feed)
        /\ base[t] \in 1 .. Len(snaps)
    BY <2>1 DEF ReplayInv, TypeOK, RequestOK
  <2>3. snaps[base[t]].asOf \in Nat
    <3>1. snaps[base[t]] \in Snapshot
      BY <2>2 DEF ReplayInv, TypeOK
    <3>2. QED
      BY <3>1 DEF Snapshot
  <2>4. \A j \in 1 .. Len(feed) : Created[feed[j]] \in Nat
    BY EventsType DEF ReplayInv, TypeOK
  <2>5. ASSUME ~ HasBackfill(snaps[base[t]]), NEW j \in 1 .. began[t],
               j > snaps[base[t]].seq, feed[j] \in Replayed
        PROVE  Created[feed[j]] > snaps[base[t]].asOf
    BY <2>2, <2>3, <2>4, <2>5 DEF HasBackfill
  <2>6. QED
    BY <2>1, <2>2, <2>5 DEF RequestOK
<1>3. UNCHANGED <<now, feed, snaps>> /\ \A s \in Threads : s # t => RequestKept(s)
  BY DEF ReplayInv, TypeOK, CheckBackfill, Go, RequestKept
<1>4. QED
  BY <1>1, <1>2, <1>3, ThreadStep

\* The resumed run has processed what was stored before the request began, and is
\* the replay from the genesis when nothing arrived meanwhile.
LEMMA DeltaStep ==
  ASSUME Timely, ReplayInv, NEW t \in Threads, ReplayDelta(t)
  PROVE  ReplayInv'
<1> DEFINE s == snaps[base[t]]
           S == LinesAsOf(s.seq, s.asOf)
           D == DeltaLines(s, asOf[t])
<1>1. /\ pc[t] = "delta" /\ RequestOK(t)
      /\ feed' = feed /\ snaps' = snaps /\ kind' = kind /\ asOf' = asOf
      /\ began' = began /\ pc'[t] = "done" /\ read'[t] = Len(feed)
      /\ run'[t] = Resume(s.run, D, asOf[t])
  BY DEF ReplayInv, TypeOK, ReplayDelta, Go
<1>2. /\ feed \in Seq(Events) /\ Len(feed) \in Nat /\ asOf[t] \in Nat
      /\ began[t] \in 0 .. Len(feed) /\ base[t] \in 1 .. Len(snaps)
      /\ s \in Snapshot
      /\ \A j \in 1 .. Len(feed) : feed[j] \in Events /\ Created[feed[j]] \in Nat
  <2>1. base[t] \in 1 .. Len(snaps)
    BY <1>1 DEF RequestOK
  <2>2. s \in Snapshot
    BY <2>1 DEF ReplayInv, TypeOK
  <2>3. QED
    BY <1>1, <2>1, <2>2, EventsType DEF ReplayInv, TypeOK, RequestOK
<1>3. /\ s.asOf \in Nat /\ s.asOf <= asOf[t]
      /\ s.seq \in 0 .. Len(feed)
      /\ \A j \in 1 .. s.seq : Created[feed[j]] <= s.asOf
      /\ s.run = Resume(Genesis, S, s.asOf)
      /\ \A j \in 1 .. began[t] : j > s.seq /\ feed[j] \in Replayed => Created[feed[j]] > s.asOf
  <2>1. s.asOf \in Nat /\ s.seq \in Nat
    BY <1>2 DEF Snapshot
  <2>2. /\ s.asOf <= asOf[t]
        /\ \A j \in 1 .. began[t] : j > s.seq /\ feed[j] \in Replayed => Created[feed[j]] > s.asOf
    BY <1>1 DEF RequestOK
  <2>3. /\ s.seq <= Len(feed)
        /\ \A j \in 1 .. s.seq : Created[feed[j]] <= s.asOf
        /\ s.run = GenesisRun(s.seq, s.asOf)
    BY <1>2 DEF ReplayInv, SnapshotsArePrefixes
  <2>4. QED
    BY <1>2, <2>1, <2>2, <2>3 DEF GenesisRun
<1>4. /\ S \in SUBSET Events /\ D \in SUBSET Events
      /\ s.run \in Run /\ s.run.seen = S
  <2>1. D \in SUBSET Events
    BY <1>2 DEF DeltaLines
  <2>2. QED
    BY <1>2, <1>3, <2>1, LinesAreEvents DEF GenesisRun
<1>5. /\ \A e \in S : Created[e] <= s.asOf
      /\ \A e \in D : Created[e] > s.asOf
  BY <1>2, <1>3 DEF LinesAsOf, DeltaLines
<1>6. LinesAsOf(began[t], asOf[t]) \subseteq S \cup D
  <2>1. ASSUME NEW j \in 1 .. began[t], feed[j] \in Replayed, Created[feed[j]] <= asOf[t]
        PROVE  feed[j] \in S \cup D
    <3>1. CASE j <= s.seq
      BY <1>2, <1>3, <2>1, <3>1 DEF LinesAsOf
    <3>2. CASE j > s.seq
      BY <1>2, <1>3, <2>1, <3>2 DEF DeltaLines
    <3>3. QED
      BY <1>2, <1>3, <3>1, <3>2
  <2>2. QED
    BY <2>1 DEF LinesAsOf
<1>7. S \cup D \subseteq LinesAsOf(Len(feed), asOf[t])
  <2>1. S \subseteq LinesAsOf(Len(feed), asOf[t])
    BY <1>2, <1>3 DEF LinesAsOf
  <2>2. D \subseteq LinesAsOf(Len(feed), asOf[t])
    BY DEF LinesAsOf, DeltaLines
  <2>3. QED
    BY <2>1, <2>2
<1>8. run'[t] \in Run /\ run'[t].seen = S \cup D
  <2> HIDE DEF s, S, D
  <2>1. /\ Resume(s.run, D, asOf[t]) \in Run
        /\ Resume(s.run, D, asOf[t]).seen = s.run.seen \cup D
    BY <1>2, <1>4, ResumeType
  <2>2. QED
    BY <1>1, <1>4, <2>1
<1>9. ASSUME began[t] = Len(feed)
      PROVE  run'[t] = GenesisRun(began[t], asOf[t])
  <2>1. S \cup D = LinesAsOf(began[t], asOf[t])
    BY <1>6, <1>7, <1>9
  <2>2. Resume(Resume(Genesis, S, s.asOf), D, asOf[t])
          = Resume(Genesis, S \cup D, asOf[t])
    BY <1>2, <1>3, <1>4, <1>5, ResumedRunIsReplay
  <2>3. QED
    BY <1>1, <1>3, <2>1, <2>2 DEF GenesisRun
<1>10. TypeOK'
  BY <1>1, <1>2, <1>8 DEF ReplayInv, TypeOK, ReplayDelta, Go
<1>11. RequestOK(t)'
  <2>1. PICK n, a : n = began[t] /\ a = asOf[t]
    OBVIOUS
  <2>2. LinesAsOf(n, a)' = LinesAsOf(n, a) /\ GenesisRun(n, a)' = GenesisRun(n, a)
    BY <1>1, SameFeed
  <2>3. LinesAsOf(began[t], asOf[t])' = LinesAsOf(began[t], asOf[t])
        /\ GenesisRun(began[t], asOf[t])' = GenesisRun(began[t], asOf[t])
    BY <1>1, <2>1, <2>2
  <2>4. QED
    BY <1>1, <1>2, <1>6, <1>8, <1>9, <2>3 DEF RequestOK
<1>12. UNCHANGED <<now, feed, snaps>> /\ \A r \in Threads : r # t => RequestKept(r)
  BY DEF ReplayInv, TypeOK, ReplayDelta, Go, RequestKept
<1>13. QED
  BY <1>10, <1>11, <1>12, ThreadStep

LEMMA GenesisStep ==
  ASSUME ReplayInv, NEW t \in Threads, ReplayGenesis(t)
  PROVE  ReplayInv'
<1>1. /\ pc[t] = "genesis" /\ RequestOK(t)
      /\ feed' = feed /\ snaps' = snaps /\ kind' = kind /\ asOf' = asOf
      /\ began' = began /\ pc'[t] = "done" /\ read'[t] = Len(feed)
      /\ run'[t] = GenesisRun(Len(feed), asOf[t])
  BY DEF ReplayInv, TypeOK, ReplayGenesis, Go, GenesisRun
<1>2. /\ feed \in Seq(Events) /\ Len(feed) \in Nat /\ asOf[t] \in Nat
      /\ began[t] \in 0 .. Len(feed)
  BY <1>1 DEF ReplayInv, TypeOK, RequestOK
<1>3. run'[t] \in Run /\ run'[t].seen = LinesAsOf(Len(feed), asOf[t])
  BY <1>1, <1>2, LinesAreEvents
<1>4. LinesAsOf(began[t], asOf[t]) \subseteq LinesAsOf(Len(feed), asOf[t])
  BY <1>2 DEF LinesAsOf
<1>5. TypeOK'
  BY <1>1, <1>2, <1>3 DEF ReplayInv, TypeOK, ReplayGenesis, Go
<1>6. RequestOK(t)'
  <2>1. PICK n, a : n = began[t] /\ a = asOf[t]
    OBVIOUS
  <2>2. LinesAsOf(n, a)' = LinesAsOf(n, a) /\ GenesisRun(n, a)' = GenesisRun(n, a)
    BY <1>1, SameFeed
  <2>3. LinesAsOf(began[t], asOf[t])' = LinesAsOf(began[t], asOf[t])
        /\ GenesisRun(began[t], asOf[t])' = GenesisRun(began[t], asOf[t])
    BY <1>1, <2>1, <2>2
  <2>4. QED
    BY <1>1, <1>2, <1>3, <1>4, <2>3 DEF RequestOK
<1>7. UNCHANGED <<now, feed, snaps>> /\ \A r \in Threads : r # t => RequestKept(r)
  BY DEF ReplayInv, TypeOK, ReplayGenesis, Go, RequestKept
<1>8. QED
  BY <1>5, <1>6, <1>7, ThreadStep

LEMMA ReplyStep ==
  ASSUME ReplayInv, NEW t \in Threads, Reply(t)
  PROVE  ReplayInv'
<1>1. TypeOK'
  BY DEF ReplayInv, TypeOK, Reply, Finish, Go, Run
<1>2. pc'[t] = "idle"
  BY DEF ReplayInv, TypeOK, Reply, Finish, Go
<1>3. UNCHANGED <<now, feed, snaps>> /\ \A r \in Threads : r # t => RequestKept(r)
  BY DEF ReplayInv, TypeOK, Reply, Finish, Go, RequestKept
<1>4. QED
  BY <1>1, <1>2, <1>3, ThreadStep

\* What is kept as a snapshot is the run over the whole feed.
LEMMA TakeStep ==
  ASSUME ReplayInv, NEW t \in Threads, TakeSnapshot(t)
  PROVE  ReplayInv'
<1> DEFINE s == [asOf |-> asOf[t], seq |-> LatestSeq(asOf[t]), run |-> run[t]]
<1>1. /\ pc[t] = "done" /\ kind[t] = "snapshot" /\ RequestOK(t) /\ pc'[t] = "idle"
      /\ now' = now /\ feed' = feed /\ snaps' = Append(snaps, s)
      /\ \A r \in Threads : r # t => RequestKept(r)
  BY DEF ReplayInv, TypeOK, TakeSnapshot, Finish, Go, RequestKept
<1>2. /\ feed \in Seq(Events) /\ Len(feed) \in Nat /\ asOf[t] \in Nat
      /\ snaps \in Seq(Snapshot) /\ read[t] \in Nat /\ run[t] \in Run
  BY DEF ReplayInv, TypeOK
<1>3. /\ began[t] = Len(feed)
      /\ \A j \in 1 .. Len(feed) : Created[feed[j]] <= asOf[t]
      /\ run[t] = GenesisRun(Len(feed), asOf[t])
  BY <1>1, <1>2 DEF RequestOK
<1>4. /\ LatestSeq(asOf[t]) \in 0 .. Len(feed)
      /\ run[t] = GenesisRun(LatestSeq(asOf[t]), asOf[t])
  BY <1>2, <1>3, LatestSeqIsLast DEF GenesisRun
<1>5. s \in Snapshot
  BY <1>2, <1>4 DEF Snapshot
<1>6. /\ snaps' \in Seq(Snapshot) /\ Len(snaps) \in Nat /\ Len(snaps') = Len(snaps) + 1
      /\ \A k \in 1 .. Len(snaps) : snaps'[k] = snaps[k]
      /\ snaps'[Len(snaps) + 1] = s
  BY <1>1, <1>2, <1>5
<1>7. TypeOK'
  <2>1. /\ now' \in Nat /\ feed' \in Seq(Events) /\ snaps' \in Seq(Snapshot)
    BY <1>1, <1>6 DEF ReplayInv, TypeOK
  <2>2. QED
    BY <2>1 DEF ReplayInv, TypeOK, TakeSnapshot, Finish, Go, Run
<1>8. FeedIsPast'
  BY <1>1 DEF ReplayInv, FeedIsPast
<1>9. SnapshotsArePrefixes'
  <2>1. SUFFICES ASSUME NEW k \in 1 .. Len(snaps')
        PROVE  /\ snaps'[k].seq <= Len(feed)
               /\ \A j \in 1 .. snaps'[k].seq : Created[feed[j]] <= snaps'[k].asOf
               /\ snaps'[k].run = GenesisRun(snaps[k].seq, snaps[k].asOf)'
    BY <1>1 DEF SnapshotsArePrefixes
  <2>2. PICK n, a : n = snaps'[k].seq /\ a = snaps'[k].asOf
    OBVIOUS
  <2>3. GenesisRun(n, a)' = GenesisRun(n, a)
    BY <1>1, SameFeed
  <2>4. GenesisRun(snaps[k].seq, snaps[k].asOf)' = GenesisRun(n, a)
    BY <2>2, <2>3
  <2>5. CASE k \in 1 .. Len(snaps)
    <3>1. snaps'[k] = snaps[k]
      BY <1>6, <2>5
    <3>2. /\ snaps[k].seq <= Len(feed)
          /\ \A j \in 1 .. snaps[k].seq : Created[feed[j]] <= snaps[k].asOf
          /\ snaps[k].run = GenesisRun(snaps[k].seq, snaps[k].asOf)
      BY <2>5 DEF ReplayInv, SnapshotsArePrefixes
    <3>3. QED
      BY <2>2, <2>4, <3>1, <3>2
  <2>6. CASE k = Len(snaps) + 1
    <3>1. snaps'[k] = s
      BY <1>6, <2>6
    <3>2. s.seq = LatestSeq(asOf[t]) /\ s.asOf = asOf[t] /\ s.run = run[t]
      OBVIOUS
    <3>3. QED
      BY <1>2, <1>3, <1>4, <2>2, <2>4, <3>1, <3>2
  <2>7. QED
    BY <1>6, <2>5, <2>6
<1>10. ASSUME NEW r \in Threads, pc'[r] # "idle" PROVE RequestOK(r)'
  <2>1. r # t
    BY <1>1, <1>10
  <2>2. RequestKept(r) /\ pc[r] # "idle"
    BY <1>1, <1>10, <2>1 DEF RequestKept
  <2>3. SnapsKept
    BY <1>6 DEF SnapsKept
  <2>4. QED
    BY <1>1, <2>2, <2>3, RequestStaysOK
<1>11. QED
  BY <1>7, <1>8, <1>9, <1>10 DEF ReplayInv

LEMMA InvStep == Timely /\ ReplayInv /\ [Next]_vars => ReplayInv'
<1> SUFFICES ASSUME Timely, ReplayInv, [Next]_vars PROVE ReplayInv'
  OBVIOUS
<1>1. CASE Tick
  BY <1>1, TickStep
<1>2. ASSUME NEW e \in Events, Arrive(e) PROVE ReplayInv'
  BY <1>2, ArriveStep
<1>3. ASSUME NEW t \in Threads,
             \/ \E k \in {"replay", "snapshot"}, a \in 0 .. MaxTime : Begin(t, k, a)
             \/ FindSnapshot(t) \/ CheckBackfill(t)
             \/ ReplayDelta(t) \/ ReplayGenesis(t)
             \/ Reply(t) \/ TakeSnapshot(t)
      PROVE  ReplayInv'
  BY <1>3, BeginStep, FindStep, CheckStep, DeltaStep, GenesisStep, ReplyStep, TakeStep
<1>4. CASE UNCHANGED vars
  <2>1. /\ now' = now /\ feed' = feed /\ snaps' = snaps
        /\ \A s \in Threads : RequestKept(s)
    BY <1>4 DEF vars, request, RequestKept
  <2>2. TypeOK' /\ FeedIsPast'
    BY <1>4 DEF ReplayInv, TypeOK, FeedIsPast, vars, request
  <2>3. SnapshotsArePrefixes'
    BY <2>1, SnapshotsStayOK DEF ReplayInv
  <2>4. SnapsKept
    BY <2>1 DEF SnapsKept, ReplayInv, TypeOK
  <2>5. ASSUME NEW s \in Threads, pc'[s] # "idle" PROVE RequestOK(s)'
    <3>1. RequestKept(s) /\ pc[s] # "idle"
      BY <2>1, <2>5 DEF RequestKept
    <3>2. QED
      BY <2>1, <2>4, <3>1, RequestStaysOK
  <2>6. QED
    BY <2>2, <2>3, <2>5 DEF ReplayInv
<1>5. QED
  BY <1>1, <1>2, <1>3, <1>4 DEF Next

-----------------------------------------------------------------------------
(* The theorems *)

\* The invariant, type correctness included, when Timely holds.
THEOREM InvariantHolds == Timely => (Spec => []ReplayInv)
<1> SUFFICES ASSUME Timely PROVE Spec => []ReplayInv
  OBVIOUS
<1>1. ReplayInv /\ [Next]_vars => ReplayInv'
  BY InvStep
<1>2. QED
  BY <1>1, InvInit, PTL DEF Spec

\* K-04 of docs/specs/kernel-boundary-spec.md: what replay_execution answers from a
\* snapshot and the events after it is the replay from the genesis.
THEOREM SnapshotsAnswerAsReplay == Timely => (Spec => []ReplayEquivalence)
<1>1. ReplayInv => ReplayEquivalence
  BY InvImplies
<1>2. QED
  BY <1>1, InvariantHolds, PTL

\* What was stored before a request began and created by its as_of is in its answer,
\* whatever arrives while the node serves it.
THEOREM AnswersMissNothing == Timely => (Spec => []NothingStoredIsMissed)
<1>1. ReplayInv => NothingStoredIsMissed
  BY InvImplies
<1>2. QED
  BY <1>1, InvariantHolds, PTL
=============================================================================
