---------------------------- MODULE PagesProofs ----------------------------
(***************************************************************************)
(* Proofs about OpsEvidence and DealBuilder, for every number of requests, *)
(* cleanups, days and runs, every retention, and every set of forms, links *)
(* and ids: the evidence of an operator survives its cleanups, and what    *)
(* the builder sends and ticks off is what was checked and accepted.       *)
(***************************************************************************)
EXTENDS OpsEvidence, DealBuilder, FiniteSetTheorems, TLAPS

-----------------------------------------------------------------------------
(* The evidence of an operator: the invariant *)

Lines == [n : Nat, action : Actions, status : {"none", "passed", "failed"}, at : Nat]
RunDirs == [name : Nat, at : Nat, status : {"passed", "failed"}]
RequestsOf == [phase : {"idle", "running", "closed"}, action : Actions \cup {"none"}, start : Nat,
               at : Nat, status : {"none", "passed", "failed"}, name : Nat]
CleanupsOf(S) == [phase : {"idle", "archive", "truncate", "rewrite"}, read : SUBSET S, asOf : Nat]

OpsType ==
  /\ day \in Nat /\ clicks \in Nat
  /\ recorded \subseteq Lines /\ IsFiniteSet(recorded) /\ auditLog \subseteq recorded
  /\ request \in [Requests -> RequestsOf] /\ cleaner \in [Cleaners -> CleanupsOf(recorded)]
  /\ made \subseteq RunDirs /\ IsFiniteSet(made) /\ runs \subseteq made

\* A request that is under way has an action.
RequestsAct == \A q \in Requests : request[q].phase # "idle" => request[q].action \in Actions

\* The numbers of lines are their places: no two lines have the same.
LinesAreOrdered ==
  /\ \A r \in recorded : r.n <= Cardinality(recorded)
  /\ \A r, s \in recorded : r.n = s.n => r = s

\* A cleanup rewrites the log only after it has archived what it leaves out, by the
\* ages of a day that is not in the future.
CleanupsArchive ==
  \A c \in Cleaners :
    /\ cleaner[c].asOf <= day
    /\ cleaner[c].phase \in {"truncate", "rewrite"} =>
         Pruned(cleaner[c].read, cleaner[c].asOf) \subseteq archived

LinesAreSomewhere == recorded \subseteq auditLog \cup archived \cup lost \cup Rewriting

\* A failed line is retained while it is young enough, whoever cleans up.
Young(r) == r.status = "failed" /\ day - r.at <= RetainFailed
YoungFailuresStay == \A r \in recorded : Young(r) => r \in auditLog \cup lost \cup Rewriting

\* Enough completed runs are newer than one that may be removed.
Outranked(name) == Cardinality({s \in made : s.name > name}) >= KeepRecent
OnlyOutrankedAreListed == \A name \in plan \cup clipboard : Outranked(name)

OpsInv ==
  /\ OpsType /\ RequestsAct /\ LinesAreOrdered /\ CleanupsArchive
  /\ LinesAreSomewhere /\ YoungFailuresStay
  /\ OnlyOutrankedAreListed /\ NewestRunsStay

-----------------------------------------------------------------------------
(* Lemmas on cleanups and ranks *)

LEMMA RewritingIs ==
  \A r : r \in Rewriting <=>
           \E c \in Cleaners : cleaner[c].phase = "rewrite" /\ r \in cleaner[c].read
BY DEF Rewriting

\* A failed line that is young today was kept by every cleanup of an earlier day.
LEMMA YoungIsKept ==
  ASSUME day \in Nat, NEW asOf \in Nat, asOf <= day, NEW r, r.at \in Nat, Young(r),
         NEW read, r \in read
  PROVE  r \in Kept(read, asOf)
<1>1. RetainFailed \in Nat
  BY RetentionType
<1>2. asOf - r.at <= RetainFailed
  BY <1>1 DEF Young
<1>. QED BY <1>2 DEF Young, Kept, Keeps

\* More runs outrank no fewer.
LEMMA RanksGrow ==
  ASSUME NEW S, NEW T, S \subseteq T, IsFiniteSet(T), NEW name
  PROVE  LET above(U) == {s \in U : s.name > name}
         IN  /\ Cardinality(above(S)) \in Nat /\ Cardinality(above(T)) \in Nat
             /\ Cardinality(above(S)) <= Cardinality(above(T))
<1>. DEFINE A == {s \in S : s.name > name}
            B == {s \in T : s.name > name}
<1>1. A \subseteq B /\ B \subseteq T
  OBVIOUS
<1>2. IsFiniteSet(B)
  BY <1>1, FS_Subset
<1>3. IsFiniteSet(A)
  BY <1>1, <1>2, FS_Subset
<1>4. Cardinality(A) \in Nat /\ Cardinality(B) \in Nat
  BY <1>2, <1>3, FS_CardinalityType
<1>5. Cardinality(A) <= Cardinality(B)
  BY <1>1, <1>2, FS_Subset
<1>. QED BY <1>4, <1>5

-----------------------------------------------------------------------------
(* Steps that leave a part of the evidence alone *)

LEMMA AuditUntouched ==
  ASSUME OpsInv, UNCHANGED <<day, auditLog, archived, recorded, lost, cleaner>>
  PROVE  /\ LinesAreOrdered' /\ CleanupsArchive' /\ LinesAreSomewhere' /\ YoungFailuresStay'
BY DEF OpsInv, LinesAreOrdered, CleanupsArchive, LinesAreSomewhere, YoungFailuresStay, Young,
       Rewriting, Pruned, Kept, Keeps, Newer

LEMMA RunsUntouched ==
  ASSUME OpsInv, UNCHANGED <<runs, made, plan, clipboard>>
  PROVE  /\ OnlyOutrankedAreListed' /\ NewestRunsStay'
         /\ made' \subseteq RunDirs /\ IsFiniteSet(made') /\ runs' \subseteq made'
BY DEF OpsInv, OpsType, OnlyOutrankedAreListed, Outranked, NewestRunsStay, Newest

-----------------------------------------------------------------------------
(* The steps of requests *)

LEMMA OpsInitHolds == OpsInit => OpsInv
<1>. SUFFICES ASSUME OpsInit PROVE OpsInv
  OBVIOUS
<1>1. IsFiniteSet({})
  BY FS_EmptySet
<1>2. NoRequest \in RequestsOf /\ NoCleanup \in CleanupsOf({}) /\ NoCleanup.asOf = 0
      /\ NoCleanup.phase = "idle" /\ NoRequest.phase = "idle"
  BY DEF NoRequest, RequestsOf, NoCleanup, CleanupsOf
<1>3. OpsType
  BY <1>1, <1>2 DEF OpsInit, OpsType
<1>4. RequestsAct /\ LinesAreOrdered /\ CleanupsArchive
  BY <1>2 DEF OpsInit, RequestsAct, LinesAreOrdered, CleanupsArchive
<1>5. LinesAreSomewhere /\ YoungFailuresStay /\ OnlyOutrankedAreListed /\ NewestRunsStay
  BY DEF OpsInit, LinesAreSomewhere, YoungFailuresStay, OnlyOutrankedAreListed,
         NewestRunsStay, Newest
<1>. QED BY <1>3, <1>4, <1>5 DEF OpsInv

\* What a request holds after one of its own steps.
LEMMA RequestFollows ==
  ASSUME OpsInv, NEW q \in Requests, NEW next \in RequestsOf,
         next.phase # "idle" => next.action \in Actions,
         request' = [request EXCEPT ![q] = next]
  PROVE  request' \in [Requests -> RequestsOf] /\ RequestsAct'
BY DEF OpsInv, OpsType, RequestsAct

LEMMA ClosedFollows ==
  ASSUME OpsInv, NEW q \in Requests, NEW s \in {"passed", "failed"},
         request[q].phase = "running", Closed(q, s)
  PROVE  request' \in [Requests -> RequestsOf] /\ RequestsAct'
<1>. DEFINE next == [request[q] EXCEPT !.phase = "closed", !.at = day, !.status = s]
<1>1. request[q] \in RequestsOf /\ request[q].action \in Actions
  BY DEF OpsInv, OpsType, RequestsAct
<1>2. next \in RequestsOf /\ next.action \in Actions
  BY <1>1 DEF RequestsOf, OpsInv, OpsType
<1>3. request' = [request EXCEPT ![q] = next]
  BY DEF Closed
<1>. HIDE DEF next
<1>. QED BY <1>2, <1>3, RequestFollows

LEMMA RequestStep ==
  ASSUME OpsInv, NEW q \in Requests,
         \/ \E a \in Actions : RunWorkflowCommand(q, a)
         \/ ScriptFails(q) \/ NoAudit(q)
  PROVE  OpsInv'
<1>1. /\ UNCHANGED <<day, auditLog, archived, recorded, lost, cleaner, runs, made, annotated,
                     plan, clipboard, cleanups>>
      /\ clicks' \in Nat
  <2>1. clicks \in Nat
    BY DEF OpsInv, OpsType
  <2>2. clicks' = clicks \/ clicks' = clicks + 1
    BY DEF RunWorkflowCommand, ScriptFails, NoAudit
  <2>3. UNCHANGED <<day, auditLog, archived, recorded, lost, cleaner, runs, made, annotated,
                    plan, clipboard, cleanups>>
    BY DEF RunWorkflowCommand, ScriptFails, NoAudit
  <2>. QED BY <2>1, <2>2, <2>3
<1>2. request' \in [Requests -> RequestsOf] /\ RequestsAct'
  <2>1. CASE \E a \in Actions : RunWorkflowCommand(q, a)
    <3>. PICK a \in Actions : RunWorkflowCommand(q, a)
      BY <2>1
    <3>. DEFINE next == [NoRequest EXCEPT !.phase = "running", !.action = a, !.start = day,
                                          !.name = clicks + 1]
    <3>1. next \in RequestsOf /\ next.action \in Actions
      <4>1. NoRequest \in RequestsOf
        BY DEF NoRequest, RequestsOf
      <4>2. day \in Nat /\ clicks + 1 \in Nat
        BY DEF OpsInv, OpsType
      <4>. QED BY <4>1, <4>2 DEF RequestsOf
    <3>2. request' = [request EXCEPT ![q] = next]
      BY DEF RunWorkflowCommand
    <3>. HIDE DEF next
    <3>. QED BY <3>1, <3>2, RequestFollows
  <2>2. CASE ScriptFails(q)
    BY <2>2, ClosedFollows DEF ScriptFails
  <2>3. CASE NoAudit(q)
    <3>1. NoRequest \in RequestsOf /\ NoRequest.phase = "idle"
      BY DEF NoRequest, RequestsOf
    <3>. QED BY <2>3, <3>1, RequestFollows DEF NoAudit
  <2>. QED BY <2>1, <2>2, <2>3
<1>3. OpsType'
  BY <1>1, <1>2 DEF OpsInv, OpsType
<1>. QED BY <1>1, <1>2, <1>3, AuditUntouched, RunsUntouched DEF OpsInv

\* The plan lists runs that enough others outrank.
LEMMA PlanStep ==
  ASSUME OpsInv, NEW q \in Requests, WritePlan(q)
  PROVE  OpsInv'
<1>1. UNCHANGED <<day, auditLog, archived, recorded, lost, cleaner, runs, made, annotated,
                  clipboard, clicks, cleanups>>
  BY DEF WritePlan
<1>2. request' \in [Requests -> RequestsOf] /\ RequestsAct'
  BY ClosedFollows DEF WritePlan
<1>3. OpsType'
  BY <1>1, <1>2 DEF OpsInv, OpsType
<1>4. OnlyOutrankedAreListed' /\ NewestRunsStay'
  <2>1. ASSUME NEW r \in Candidates PROVE Outranked(r.name)
    <3>1. r \in runs /\ ~(Cardinality({s \in runs : s.name > r.name}) < KeepRecent)
      BY DEF Candidates, Newest
    <3>2. /\ Cardinality({s \in runs : s.name > r.name}) \in Nat
          /\ Cardinality({s \in made : s.name > r.name}) \in Nat
          /\ Cardinality({s \in runs : s.name > r.name})
               <= Cardinality({s \in made : s.name > r.name})
      BY RanksGrow DEF OpsInv, OpsType
    <3>3. KeepRecent \in Nat
      BY RetentionType
    <3>. QED BY <3>1, <3>2, <3>3 DEF Outranked
  <2>2. plan' = {r.name : r \in Candidates}
    BY DEF WritePlan
  <2>3. \A name \in plan' \cup clipboard' : Outranked(name)
    BY <1>1, <2>1, <2>2 DEF OpsInv, OnlyOutrankedAreListed
  <2>. QED BY <1>1, <2>3
       DEF OpsInv, OnlyOutrankedAreListed, Outranked, NewestRunsStay, Newest
<1>. QED BY <1>1, <1>2, <1>3, <1>4, AuditUntouched DEF OpsInv

\* A completed run outranks the older ones further.
LEMMA RunStep ==
  ASSUME OpsInv, NEW q \in Requests, NEW s \in {"passed", "failed"}, WriteRun(q, s)
  PROVE  OpsInv'
<1>. DEFINE r == [name |-> request[q].name, at |-> request[q].start, status |-> s]
<1>1. /\ UNCHANGED <<day, auditLog, archived, recorded, lost, cleaner, annotated, plan,
                     clipboard, clicks, cleanups>>
      /\ runs' = runs \cup {r} /\ made' = made \cup {r}
  BY DEF WriteRun
<1>2. request' \in [Requests -> RequestsOf] /\ RequestsAct'
  BY ClosedFollows DEF WriteRun
<1>3. r \in RunDirs
  BY DEF OpsInv, OpsType, RequestsOf, RunDirs
<1>. HIDE DEF r
<1>4. IsFiniteSet(made')
  BY <1>1, FS_AddElement DEF OpsInv, OpsType
<1>5. OpsType'
  BY <1>1, <1>2, <1>3, <1>4 DEF OpsInv, OpsType
<1>. DEFINE Above(name) == {x \in made : x.name > name}
            AboveNow(name) == {x \in made' : x.name > name}
<1>6. \A name : /\ Cardinality(Above(name)) \in Nat /\ Cardinality(AboveNow(name)) \in Nat
                /\ Cardinality(Above(name)) <= Cardinality(AboveNow(name))
  <2>. TAKE name
  <2>1. made \subseteq made'
    BY <1>1
  <2>. QED BY <1>4, <2>1, RanksGrow
<1>7. KeepRecent \in Nat
  BY RetentionType
<1>8. OnlyOutrankedAreListed'
  <2>1. \A name \in plan \cup clipboard : Cardinality(Above(name)) >= KeepRecent
    BY DEF OpsInv, OnlyOutrankedAreListed, Outranked
  <2>2. \A name \in plan \cup clipboard : Cardinality(AboveNow(name)) >= KeepRecent
    <3>. HIDE DEF Above, AboveNow
    <3>. QED BY <1>6, <1>7, <2>1
  <2>. QED BY <1>1, <2>2 DEF OnlyOutrankedAreListed, Outranked
<1>9. NewestRunsStay'
  <2>. SUFFICES ASSUME NEW x \in made', Cardinality(AboveNow(x.name)) < KeepRecent
                PROVE  x \in runs'
    BY DEF NewestRunsStay, Newest
  <2>1. CASE x \in made
    <3>1. Cardinality(Above(x.name)) < KeepRecent
      <4>. HIDE DEF Above, AboveNow
      <4>. QED BY <1>6, <1>7
    <3>2. x \in Newest(made)
      BY <2>1, <3>1 DEF Newest
    <3>. QED BY <1>1, <3>2 DEF OpsInv, NewestRunsStay
  <2>. QED BY <1>1, <2>1
<1>. QED BY <1>1, <1>2, <1>5, <1>8, <1>9, AuditUntouched DEF OpsInv

\* A line is appended under the next number.
LEMMA AppendStep ==
  ASSUME OpsInv, NEW q \in Requests, AppendAudit(q)
  PROVE  OpsInv'
<1>. DEFINE r == Appended(q)
<1>1. /\ UNCHANGED <<day, archived, lost, cleaner, runs, made, annotated, plan, clipboard,
                     clicks, cleanups>>
      /\ auditLog' = auditLog \cup {r} /\ recorded' = recorded \cup {r}
  BY DEF AppendAudit
<1>2. request' \in [Requests -> RequestsOf] /\ RequestsAct'
  <2>1. NoRequest \in RequestsOf /\ NoRequest.phase = "idle"
    BY DEF NoRequest, RequestsOf
  <2>. QED BY <2>1, RequestFollows DEF AppendAudit
<1>3. Cardinality(recorded) \in Nat /\ IsFiniteSet(recorded)
  BY FS_CardinalityType DEF OpsInv, OpsType
<1>4. r \in Lines /\ r.n = Cardinality(recorded) + 1
  <2>1. request[q] \in RequestsOf /\ request[q].action \in Actions
    BY DEF OpsInv, OpsType, RequestsAct, AppendAudit
  <2>. QED BY <1>3, <2>1 DEF Appended, Lines, RequestsOf
<1>. HIDE DEF r
<1>5. /\ \A s \in recorded : s \in Lines /\ s.n <= Cardinality(recorded) /\ s.n \in Nat
      /\ \A x, y \in recorded : x.n = y.n => x = y
  BY DEF OpsInv, OpsType, LinesAreOrdered, Lines
<1>6. r \notin recorded
  BY <1>3, <1>4, <1>5
<1>7. IsFiniteSet(recorded') /\ Cardinality(recorded') = Cardinality(recorded) + 1
  BY <1>1, <1>3, <1>6, FS_AddElement
<1>8. LinesAreOrdered'
  BY <1>1, <1>3, <1>4, <1>5, <1>7 DEF LinesAreOrdered
<1>9. cleaner' \in [Cleaners -> CleanupsOf(recorded')]
  BY <1>1 DEF OpsInv, OpsType, CleanupsOf
<1>10. OpsType'
  BY <1>1, <1>2, <1>4, <1>7, <1>9 DEF OpsInv, OpsType
<1>11. CleanupsArchive'
  BY <1>1 DEF OpsInv, CleanupsArchive, Pruned, Kept, Keeps, Newer
<1>12. LinesAreSomewhere' /\ YoungFailuresStay'
  BY <1>1 DEF OpsInv, LinesAreSomewhere, YoungFailuresStay, Young, Rewriting
<1>. QED BY <1>1, <1>2, <1>8, <1>10, <1>11, <1>12, RunsUntouched DEF OpsInv

-----------------------------------------------------------------------------
(* The steps of a cleanup *)

\* The parts of the invariant that no step of a cleanup touches.
LEMMA CleanupLeaves ==
  ASSUME OpsInv,
         UNCHANGED <<day, recorded, request, runs, made, annotated, plan, clipboard, clicks>>,
         auditLog' \subseteq recorded, cleaner' \in [Cleaners -> CleanupsOf(recorded)],
         CleanupsArchive', LinesAreSomewhere', YoungFailuresStay'
  PROVE  OpsInv'
<1>1. OpsType' /\ RequestsAct' /\ LinesAreOrdered'
  BY DEF OpsInv, OpsType, RequestsAct, LinesAreOrdered
<1>. QED BY <1>1, RunsUntouched DEF OpsInv

LEMMA ReadStep ==
  ASSUME OpsInv, NEW c \in Cleaners, ReadLog(c)
  PROVE  OpsInv'
<1>. DEFINE next == [phase |-> "archive", read |-> auditLog, asOf |-> day]
<1>1. /\ cleaner' = [cleaner EXCEPT ![c] = next] /\ cleaner[c].phase = "idle"
      /\ UNCHANGED <<day, auditLog, archived, recorded, lost, request, runs, made, annotated,
                     plan, clipboard, clicks>>
  BY DEF ReadLog
<1>2. next \in CleanupsOf(recorded) /\ next.phase = "archive" /\ next.asOf = day
  BY DEF OpsInv, OpsType, CleanupsOf
<1>. HIDE DEF next
<1>3. cleaner' \in [Cleaners -> CleanupsOf(recorded)] /\ cleaner'[c] = next
      /\ \A d \in Cleaners : d # c => cleaner'[d] = cleaner[d]
  BY <1>1, <1>2 DEF OpsInv, OpsType
<1>4. day <= day
  BY DEF OpsInv, OpsType
<1>5. CleanupsArchive'
  BY <1>1, <1>2, <1>3, <1>4 DEF OpsInv, CleanupsArchive, Pruned, Kept, Keeps, Newer
<1>6. Rewriting' = Rewriting
  BY <1>1, <1>2, <1>3 DEF Rewriting
<1>7. LinesAreSomewhere' /\ YoungFailuresStay'
  BY <1>1, <1>6 DEF OpsInv, LinesAreSomewhere, YoungFailuresStay, Young
<1>8. auditLog' \subseteq recorded
  BY <1>1 DEF OpsInv, OpsType
<1>. QED BY <1>1, <1>3, <1>5, <1>7, <1>8, CleanupLeaves

LEMMA ArchiveStep ==
  ASSUME OpsInv, NEW c \in Cleaners, WriteArchive(c)
  PROVE  OpsInv'
<1>. DEFINE next == [cleaner[c] EXCEPT !.phase = "truncate"]
<1>0. cleaner[c] \in CleanupsOf(recorded)
  BY DEF OpsInv, OpsType
<1>1. /\ cleaner' = [cleaner EXCEPT ![c] = next] /\ cleaner[c].phase = "archive"
      /\ archived' = archived \cup Pruned(cleaner[c].read, cleaner[c].asOf)
      /\ UNCHANGED <<day, auditLog, recorded, lost, request, runs, made, annotated, plan,
                     clipboard, clicks>>
  BY <1>0 DEF WriteArchive, CleanupsOf
<1>2. next \in CleanupsOf(recorded) /\ next.phase = "truncate"
      /\ next.read = cleaner[c].read /\ next.asOf = cleaner[c].asOf
  BY <1>0 DEF CleanupsOf
<1>. HIDE DEF next
<1>3. cleaner' \in [Cleaners -> CleanupsOf(recorded)] /\ cleaner'[c] = next
      /\ \A d \in Cleaners : d # c => cleaner'[d] = cleaner[d]
  BY <1>1, <1>2 DEF OpsInv, OpsType
<1>5. CleanupsArchive'
  BY <1>1, <1>2, <1>3 DEF OpsInv, CleanupsArchive, Pruned, Kept, Keeps, Newer
<1>6. Rewriting' = Rewriting
  BY <1>1, <1>2, <1>3 DEF Rewriting
<1>7. LinesAreSomewhere' /\ YoungFailuresStay'
  BY <1>1, <1>6 DEF OpsInv, LinesAreSomewhere, YoungFailuresStay, Young
<1>8. auditLog' \subseteq recorded
  BY <1>1 DEF OpsInv, OpsType
<1>. QED BY <1>1, <1>3, <1>5, <1>7, <1>8, CleanupLeaves

LEMMA TruncateStep ==
  ASSUME OpsInv, NEW c \in Cleaners, TruncateLog(c)
  PROVE  OpsInv'
<1>. DEFINE next == [cleaner[c] EXCEPT !.phase = "rewrite"]
<1>0. cleaner[c] \in CleanupsOf(recorded)
  BY DEF OpsInv, OpsType
<1>1. /\ cleaner' = [cleaner EXCEPT ![c] = next] /\ cleaner[c].phase = "truncate"
      /\ auditLog' = {} /\ lost' = lost \cup (auditLog \ cleaner[c].read)
      /\ UNCHANGED <<day, archived, recorded, request, runs, made, annotated, plan,
                     clipboard, clicks>>
  BY <1>0 DEF TruncateLog, Unread, CleanupsOf
<1>2. next \in CleanupsOf(recorded) /\ next.phase = "rewrite"
      /\ next.read = cleaner[c].read /\ next.asOf = cleaner[c].asOf
  BY <1>0 DEF CleanupsOf
<1>. HIDE DEF next
<1>3. cleaner' \in [Cleaners -> CleanupsOf(recorded)] /\ cleaner'[c] = next
      /\ \A d \in Cleaners : d # c => cleaner'[d] = cleaner[d]
  BY <1>1, <1>2 DEF OpsInv, OpsType
<1>5. CleanupsArchive'
  BY <1>1, <1>2, <1>3 DEF OpsInv, CleanupsArchive, Pruned, Kept, Keeps, Newer
<1>6. Rewriting \cup cleaner[c].read \subseteq Rewriting'
  <2>1. \A r : r \in Rewriting' <=>
           \E d \in Cleaners : cleaner'[d].phase = "rewrite" /\ r \in cleaner'[d].read
    BY DEF Rewriting
  <2>. QED BY <1>1, <1>2, <1>3, <2>1, RewritingIs
<1>7. LinesAreSomewhere' /\ YoungFailuresStay'
  BY <1>1, <1>6 DEF OpsInv, LinesAreSomewhere, YoungFailuresStay, Young
<1>. QED BY <1>1, <1>3, <1>5, <1>7, CleanupLeaves

LEMMA RewriteStep ==
  ASSUME OpsInv, NEW c \in Cleaners, RewriteLog(c)
  PROVE  OpsInv'
<1>. DEFINE read == cleaner[c].read
            asOf == cleaner[c].asOf
<1>0. read \subseteq recorded /\ asOf \in Nat /\ asOf <= day /\ day \in Nat
      /\ cleaner[c].phase = "rewrite" /\ Pruned(read, asOf) \subseteq archived
  BY DEF OpsInv, OpsType, CleanupsOf, CleanupsArchive, RewriteLog
<1>1. /\ cleaner' = [cleaner EXCEPT ![c] = NoCleanup]
      /\ auditLog' = Kept(read, asOf) /\ lost' = lost \cup (auditLog \ read)
      /\ UNCHANGED <<day, archived, recorded, request, runs, made, annotated, plan,
                     clipboard, clicks>>
  BY DEF RewriteLog, Unread
<1>2. NoCleanup \in CleanupsOf(recorded) /\ NoCleanup.phase = "idle" /\ NoCleanup.asOf = 0
  BY DEF CleanupsOf, NoCleanup
<1>3. cleaner' \in [Cleaners -> CleanupsOf(recorded)] /\ cleaner'[c] = NoCleanup
      /\ \A d \in Cleaners : d # c => cleaner'[d] = cleaner[d]
  BY <1>1, <1>2 DEF OpsInv, OpsType
<1>5. CleanupsArchive'
  BY <1>0, <1>1, <1>2, <1>3 DEF OpsInv, CleanupsArchive, Pruned, Kept, Keeps, Newer
<1>6. Rewriting \subseteq Rewriting' \cup read
  <2>1. \A r : r \in Rewriting' <=>
           \E d \in Cleaners : cleaner'[d].phase = "rewrite" /\ r \in cleaner'[d].read
    BY DEF Rewriting
  <2>. QED BY <1>3, <2>1, RewritingIs
<1>7. LinesAreSomewhere'
  <2>1. read \subseteq Kept(read, asOf) \cup archived
    BY <1>0 DEF Pruned
  <2>. HIDE DEF read
  <2>. QED BY <1>1, <1>6, <2>1 DEF OpsInv, LinesAreSomewhere
<1>8. YoungFailuresStay'
  <2>. SUFFICES ASSUME NEW r \in recorded, Young(r)
                PROVE  r \in auditLog' \cup lost' \cup Rewriting'
    BY <1>1 DEF YoungFailuresStay, Young
  <2>1. r.at \in Nat
    BY DEF OpsInv, OpsType, Lines
  <2>2. r \in read => r \in Kept(read, asOf)
    BY <1>0, <2>1, YoungIsKept
  <2>3. r \in auditLog \cup lost \cup Rewriting
    BY DEF OpsInv, YoungFailuresStay
  <2>. HIDE DEF read
  <2>. QED BY <1>1, <1>6, <2>2, <2>3
<1>9. auditLog' \subseteq recorded
  BY <1>0, <1>1 DEF Kept
<1>. QED BY <1>1, <1>3, <1>5, <1>7, <1>8, <1>9, CleanupLeaves

LEMMA StopStep ==
  ASSUME OpsInv, NEW c \in Cleaners, CleanupStops(c)
  PROVE  OpsInv'
<1>. DEFINE read == cleaner[c].read
<1>1. /\ cleaner' = [cleaner EXCEPT ![c] = NoCleanup]
      /\ lost' = IF cleaner[c].phase = "rewrite" THEN lost \cup read ELSE lost
      /\ UNCHANGED <<day, auditLog, archived, recorded, request, runs, made, annotated, plan,
                     clipboard, clicks>>
  BY DEF CleanupStops
<1>2. NoCleanup \in CleanupsOf(recorded) /\ NoCleanup.phase = "idle" /\ NoCleanup.asOf = 0
  BY DEF CleanupsOf, NoCleanup
<1>3. cleaner' \in [Cleaners -> CleanupsOf(recorded)] /\ cleaner'[c] = NoCleanup
      /\ \A d \in Cleaners : d # c => cleaner'[d] = cleaner[d]
  BY <1>1, <1>2 DEF OpsInv, OpsType
<1>4. 0 <= day
  BY DEF OpsInv, OpsType
<1>5. CleanupsArchive'
  BY <1>1, <1>2, <1>3, <1>4 DEF OpsInv, CleanupsArchive, Pruned, Kept, Keeps, Newer
<1>6. Rewriting \subseteq Rewriting' \cup lost' /\ lost \subseteq lost'
  <2>1. \A r : r \in Rewriting' <=>
           \E d \in Cleaners : cleaner'[d].phase = "rewrite" /\ r \in cleaner'[d].read
    BY DEF Rewriting
  <2>. QED BY <1>1, <1>3, <2>1, RewritingIs
<1>7. LinesAreSomewhere' /\ YoungFailuresStay'
  BY <1>1, <1>6 DEF OpsInv, LinesAreSomewhere, YoungFailuresStay, Young
<1>8. auditLog' \subseteq recorded
  BY <1>1 DEF OpsInv, OpsType
<1>. QED BY <1>1, <1>3, <1>5, <1>7, <1>8, CleanupLeaves

-----------------------------------------------------------------------------
(* The steps of time and of the operator *)

LEMMA DayStep ==
  ASSUME OpsInv, NextDay
  PROVE  OpsInv'
<1>1. /\ day' = day + 1 /\ day \in Nat
      /\ UNCHANGED <<auditLog, archived, recorded, lost, request, cleaner, runs, made,
                     annotated, plan, clipboard, clicks, cleanups>>
  BY DEF NextDay, OpsInv, OpsType
<1>2. OpsType' /\ RequestsAct' /\ LinesAreOrdered'
  BY <1>1 DEF OpsInv, OpsType, RequestsAct, LinesAreOrdered
<1>3. CleanupsArchive'
  <2>1. \A c \in Cleaners : cleaner[c].asOf \in Nat /\ cleaner[c].asOf <= day
    BY DEF OpsInv, OpsType, CleanupsOf, CleanupsArchive
  <2>2. \A c \in Cleaners : cleaner[c].asOf <= day + 1
    BY <1>1, <2>1
  <2>. QED BY <1>1, <2>2 DEF OpsInv, CleanupsArchive, Pruned, Kept, Keeps, Newer
<1>4. LinesAreSomewhere'
  BY <1>1 DEF OpsInv, LinesAreSomewhere, Rewriting
<1>5. YoungFailuresStay'
  <2>. SUFFICES ASSUME NEW r \in recorded, r.status = "failed", day' - r.at <= RetainFailed
                PROVE  r \in auditLog \cup lost \cup Rewriting
    BY <1>1 DEF YoungFailuresStay, Young, Rewriting
  <2>1. r.at \in Nat /\ RetainFailed \in Nat
    BY RetentionType DEF OpsInv, OpsType, Lines
  <2>2. day - r.at <= RetainFailed
    BY <1>1, <2>1
  <2>. QED BY <2>2 DEF OpsInv, YoungFailuresStay, Young
<1>. QED BY <1>1, <1>2, <1>3, <1>4, <1>5, RunsUntouched DEF OpsInv

LEMMA OperatorStep ==
  ASSUME OpsInv, CopyCommand \/ \E r \in runs : Annotate(r) \/ RemoveItem(r)
  PROVE  OpsInv'
<1>1. /\ UNCHANGED <<day, auditLog, archived, recorded, lost, request, cleaner, made, plan,
                     clicks, cleanups>>
      /\ runs' \subseteq runs
  BY DEF CopyCommand, Annotate, RemoveItem
<1>2. OpsType' /\ RequestsAct'
  BY <1>1 DEF OpsInv, OpsType, RequestsAct
<1>3. OnlyOutrankedAreListed'
  <2>1. clipboard' = clipboard \/ clipboard' = plan
    BY DEF CopyCommand, Annotate, RemoveItem
  <2>. QED BY <1>1, <2>1 DEF OpsInv, OnlyOutrankedAreListed, Outranked
<1>4. NewestRunsStay'
  <2>1. CASE UNCHANGED runs
    BY <1>1, <2>1 DEF OpsInv, NewestRunsStay, Newest
  <2>2. ASSUME NEW r \in runs, RemoveItem(r) PROVE NewestRunsStay'
    <3>1. Outranked(r.name)
      BY <2>2 DEF OpsInv, OnlyOutrankedAreListed, RemoveItem
    <3>2. Cardinality({s \in made : s.name > r.name}) \in Nat /\ KeepRecent \in Nat
      BY RanksGrow, RetentionType DEF OpsInv, OpsType
    <3>3. r \notin Newest(made)
      BY <3>1, <3>2 DEF Outranked, Newest
    <3>4. runs' = runs \ {r}
      BY <2>2 DEF RemoveItem
    <3>5. Newest(made)' = Newest(made)
      BY <1>1 DEF Newest
    <3>. QED BY <3>3, <3>4, <3>5 DEF OpsInv, NewestRunsStay
  <2>. QED BY <2>1, <2>2 DEF CopyCommand, Annotate
<1>. QED BY <1>1, <1>2, <1>3, <1>4, AuditUntouched DEF OpsInv

\* The evidence keeps to its invariant, for any requests, cleanups, days and runs.
THEOREM EvidenceKeepsItsInvariant == OpsSpec => []OpsInv
<1>1. OpsInv /\ UNCHANGED opsVars => OpsInv'
  <2>. SUFFICES ASSUME OpsInv, UNCHANGED opsVars PROVE OpsInv'
    OBVIOUS
  <2>1. OpsType' /\ RequestsAct'
    BY DEF opsVars, OpsInv, OpsType, RequestsAct
  <2>. QED BY <2>1, AuditUntouched, RunsUntouched DEF opsVars, OpsInv
<1>2. OpsInv /\ OpsNext => OpsInv'
  BY DayStep, RequestStep, PlanStep, RunStep, AppendStep, ReadStep, ArchiveStep, TruncateStep,
     RewriteStep, StopStep, OperatorStep
  DEF OpsNext
<1>. QED BY <1>1, <1>2, OpsInitHolds, PTL DEF OpsSpec

\* Lines are in the log or archived or were overwritten, and a console that was started
\* where the log is shows that an action's last run has failed as long as that is retained.
THEOREM AuditSurvivesCleanups == OpsSpec => []AuditIsKept
<1>1. OpsInv => AuditIsKept
  <2>. SUFFICES ASSUME OpsInv, atRoot, NEW r \in recorded \ (lost \cup Rewriting), Young(r),
                       \A s \in recorded : s.action = r.action => s.n <= r.n
                PROVE  r.action \in Alerted
    BY DEF OpsInv, LinesAreSomewhere, AuditIsKept, Young
  <2>1. r \in auditLog /\ auditLog \subseteq recorded /\ r.action \in Actions
    BY DEF OpsInv, OpsType, YoungFailuresStay, Lines
  <2>. QED BY <2>1 DEF Alerted, LinesOf, Young
<1>. QED BY <1>1, EvidenceKeepsItsInvariant, PTL

\* Neither an old plan nor an old copied command removes one of the newest runs, in
\* whatever order runs are completed.
THEOREM NewestRunsAreKept == OpsSpec => []NewestRunsStay
<1>1. OpsInv => NewestRunsStay
  BY DEF OpsInv
<1>. QED BY <1>1, EvidenceKeepsItsInvariant, PTL

-----------------------------------------------------------------------------
(* The deal builder: the invariant *)

IsASeq(s) == s \in Seq({s[i] : i \in DOMAIN s})

\* The fields of a submission under way, whatever they hold.
SubmissionsOver(S) == [eid : S, mode : S, id : S, ms : S, ref : S, at : S, attached : S,
                       panel : S, flow : S]
IsSubmission(f) == \E S : f \in SubmissionsOver(S)

\* The ids of the events of the clicks made so far.
Clicked(n) == n \in Len(Stored) + 1 .. Len(Stored) + Len(shown)

\* An event that has what the form had at its click.
Faithful(e) ==
  /\ e.oid = Checked(e).id /\ e.ref = Checked(e).ref
  /\ e.kind \in {"escrowSpend", "delivery", "accept"} => e.ms = Checked(e).ms
  /\ e.kind \notin {"offer", "order"} => e.ms # Empty

BuilderType ==
  /\ IsASeq(nodeLog) /\ IsASeq(session) /\ IsASeq(shown)
  /\ draft # Empty => IsASeq(draft.session)

\* Submissions are faithful from the click on, although some milestones are read later.
FlightsFaithful ==
  \A f \in inFlight :
    /\ IsSubmission(f) /\ Clicked(f.eid) /\ Faithful(Sent(f))
    /\ f.at = "accepted" => Sent(f) \in Range(nodeLog)

\* The node's events are those of others, or of faithful submissions.
LogFaithful ==
  \A e \in Range(nodeLog) : e.eid \in 1 .. Len(Stored) \/ (Clicked(e.eid) /\ Faithful(e))

BuilderInv == BuilderType /\ FlightsFaithful /\ LogFaithful /\ ChecklistAccepted

-----------------------------------------------------------------------------
(* Lemmas on sequences, submissions and drafts *)

LEMMA Appending ==
  ASSUME NEW s, IsASeq(s), NEW x
  PROVE  /\ IsASeq(Append(s, x)) /\ Len(s) \in Nat /\ Len(Append(s, x)) = Len(s) + 1
         /\ \A i \in 1 .. Len(s) : Append(s, x)[i] = s[i]
         /\ Append(s, x)[Len(s) + 1] = x
         /\ Range(Append(s, x)) = Range(s) \cup {x}
<1>. DEFINE S == {s[i] : i \in DOMAIN s} \cup {x}
            r == Append(s, x)
<1>1. s \in Seq(S) /\ x \in S
  BY DEF IsASeq
<1>2. /\ r \in Seq(S) /\ Len(r) = Len(s) + 1 /\ Len(s) \in Nat
      /\ DOMAIN r = 1 .. Len(s) + 1 /\ DOMAIN s = 1 .. Len(s)
      /\ \A i \in 1 .. Len(s) : r[i] = s[i]
      /\ r[Len(s) + 1] = x
  BY ONLY <1>1
<1>3. r \in Seq({r[i] : i \in DOMAIN r})
  BY ONLY <1>2
<1>4. 1 .. Len(s) + 1 = (1 .. Len(s)) \cup {Len(s) + 1}
  BY <1>2
<1>5. Range(r) = Range(s) \cup {x}
  <2>. HIDE DEF r, S
  <2>. QED BY <1>2, <1>4 DEF Range
<1>. QED BY <1>2, <1>3, <1>5 DEF IsASeq

LEMMA EmptySequence == IsASeq(<<>>) /\ Range(<<>>) = {} /\ Len(<<>>) = 0
BY DEF IsASeq, Range

LEMMA SentFields ==
  ASSUME NEW f
  PROVE  /\ Sent(f).eid = f.eid /\ Sent(f).kind = f.mode /\ Sent(f).oid = f.id
         /\ Sent(f).ms = f.ms /\ Sent(f).ref = f.ref
BY DEF Sent

\* The event of a submission depends on five of its fields.
LEMMA SameSent ==
  ASSUME NEW f, NEW g, f.eid = g.eid, f.mode = g.mode, f.id = g.id, f.ms = g.ms, f.ref = g.ref
  PROVE  Sent(f) = Sent(g)
BY DEF Sent

\* A milestone that is read late may change; the submission stays faithful.
LEMMA LateIsFaithful ==
  ASSUME NEW f, NEW g, Faithful(Sent(f)),
         g.eid = f.eid, g.mode = f.mode, g.id = f.id, g.ref = f.ref,
         g.ms = f.ms \/ (g.ms # Empty /\ f.mode \in {"dispute", "settle", "cancel", "amend"})
  PROVE  Faithful(Sent(g))
<1>1. Checked(Sent(g)) = Checked(Sent(f))
  BY SentFields DEF Checked
<1>. QED BY <1>1, SentFields DEF Faithful

\* A submission keeps its fields when some of them get other values.
LEMMA MoreValues ==
  ASSUME NEW f, IsSubmission(f), NEW V
  PROVE  \E S : V \subseteq S /\ f \in SubmissionsOver(S)
<1>1. PICK S : f \in SubmissionsOver(S)
  BY DEF IsSubmission
<1>2. f \in SubmissionsOver(S \cup V)
  BY <1>1 DEF SubmissionsOver
<1>. QED BY <1>2

LEMMA LateMilestoneIs ==
  ASSUME NEW f PROVE LateMilestone(f) = f.ms \/ LateMilestone(f) # Empty
BY DEF LateMilestone

LEMMA PersistKeepsSession == Persist => draft' = draft \/ draft'.session = session'
BY DEF Persist

\* Whatever the user does, the checklist stays what it was, becomes empty, or is the
\* one of the draft; and the draft stays, or gets the checklist.
ChecklistFollows ==
  /\ \/ session' \in {session, <<>>}
     \/ draft # Empty /\ session' = draft.session
  /\ draft' = draft \/ draft'.session = session'

LEMMA ChecklistStays ==
  ASSUME BuilderInv, ChecklistFollows, UNCHANGED nodeLog
  PROVE  /\ ChecklistAccepted' /\ IsASeq(session') /\ IsASeq(nodeLog')
         /\ draft' # Empty => IsASeq(draft'.session)
<1>1. IsASeq(session') /\ Range(session') \subseteq Range(nodeLog)
  BY EmptySequence DEF BuilderInv, BuilderType, ChecklistAccepted, ChecklistFollows
<1>2. draft # Empty => IsASeq(draft.session) /\ Range(draft.session) \subseteq Range(nodeLog)
  BY DEF BuilderInv, BuilderType, ChecklistAccepted
<1>. QED BY <1>1, <1>2 DEF ChecklistFollows, ChecklistAccepted, BuilderInv, BuilderType

LEMMA LogStays ==
  ASSUME BuilderInv, UNCHANGED <<nodeLog, shown>>
  PROVE  LogFaithful' /\ IsASeq(shown')
BY DEF BuilderInv, BuilderType, LogFaithful, Clicked, Faithful, Checked

\* The same submissions, fewer of them, or with another milestone and another page.
FlightsFollow ==
  \A g \in inFlight' :
    /\ IsSubmission(g)
    /\ \E f \in inFlight :
         /\ g.eid = f.eid /\ g.mode = f.mode /\ g.id = f.id /\ g.ref = f.ref
         /\ \/ g.ms = f.ms
            \/ /\ g.ms # Empty /\ f.mode \in {"dispute", "settle", "cancel", "amend"}
               /\ g.at # "accepted"
         /\ g.at = "accepted" => f.at = "accepted"

LEMMA FlightsStay ==
  ASSUME BuilderInv, FlightsFollow, UNCHANGED <<nodeLog, shown>>
  PROVE  FlightsFaithful'
<1>. SUFFICES ASSUME NEW g \in inFlight'
              PROVE  /\ IsSubmission(g) /\ Clicked(g.eid) /\ Faithful(Sent(g))
                     /\ g.at = "accepted" => Sent(g) \in Range(nodeLog)
  BY DEF FlightsFaithful, Clicked, Faithful, Checked
<1>1. PICK f \in inFlight :
        /\ g.eid = f.eid /\ g.mode = f.mode /\ g.id = f.id /\ g.ref = f.ref
        /\ \/ g.ms = f.ms
           \/ /\ g.ms # Empty /\ f.mode \in {"dispute", "settle", "cancel", "amend"}
              /\ g.at # "accepted"
        /\ g.at = "accepted" => f.at = "accepted"
  BY DEF FlightsFollow
<1>2. /\ Clicked(f.eid) /\ Faithful(Sent(f))
      /\ f.at = "accepted" => Sent(f) \in Range(nodeLog)
  BY DEF BuilderInv, FlightsFaithful
<1>3. Faithful(Sent(g))
  BY <1>1, <1>2, LateIsFaithful
<1>4. g.at = "accepted" => Sent(g) \in Range(nodeLog)
  BY <1>1, <1>2, SameSent
<1>. QED BY <1>1, <1>2, <1>3, <1>4 DEF FlightsFollow

LEMMA FewerFollow ==
  ASSUME BuilderInv, inFlight' \subseteq inFlight
  PROVE  FlightsFollow
BY DEF BuilderInv, FlightsFaithful, FlightsFollow

\* When its builder goes, a submission keeps what it will send.
LEMMA DetachedFollow ==
  ASSUME BuilderInv, NEW panelStays \in BOOLEAN, inFlight' = Detached(panelStays)
  PROVE  FlightsFollow
<1>. DEFINE D(f) == [f EXCEPT
              !.ms = IF f.at = "deriving" /\ f.mode \in {"dispute", "settle", "cancel", "amend"}
                       THEN LateMilestone(f) ELSE f.ms,
              !.attached = FALSE,
              !.panel = f.panel /\ panelStays]
<1>1. inFlight' = {D(f) : f \in inFlight}
  BY DEF Detached
<1>2. ASSUME NEW f \in inFlight
      PROVE  /\ IsSubmission(D(f))
             /\ D(f).eid = f.eid /\ D(f).mode = f.mode /\ D(f).id = f.id /\ D(f).ref = f.ref
             /\ D(f).at = f.at
             /\ D(f).ms = IF /\ f.at = "deriving"
                             /\ f.mode \in {"dispute", "settle", "cancel", "amend"}
                            THEN LateMilestone(f) ELSE f.ms
  <2>1. IsSubmission(f)
    BY DEF BuilderInv, FlightsFaithful
  <2>2. PICK S : {LateMilestone(f), FALSE, f.panel /\ panelStays} \subseteq S
                 /\ f \in SubmissionsOver(S)
    BY <2>1, MoreValues
  <2>3. D(f) \in SubmissionsOver(S)
    BY <2>2 DEF SubmissionsOver
  <2>. QED BY <2>2, <2>3 DEF IsSubmission, SubmissionsOver
<1>. HIDE DEF D
<1>3. ASSUME NEW f \in inFlight
      PROVE  \/ D(f).ms = f.ms
             \/ /\ D(f).ms # Empty /\ f.mode \in {"dispute", "settle", "cancel", "amend"}
                /\ D(f).at # "accepted"
  BY <1>2, LateMilestoneIs
<1>. QED BY <1>1, <1>2, <1>3 DEF FlightsFollow

\* A step that neither clicks nor reaches the node.
LEMMA LocalStep ==
  ASSUME BuilderInv, ChecklistFollows, FlightsFollow, UNCHANGED <<nodeLog, shown>>
  PROVE  BuilderInv'
BY ChecklistStays, LogStays, FlightsStay DEF BuilderInv, BuilderType

-----------------------------------------------------------------------------
(* The steps of the builder *)

LEMMA BuilderInitHolds == BuilderInit => BuilderInv
<1>. SUFFICES ASSUME BuilderInit PROVE BuilderInv
  OBVIOUS
<1>1. IsASeq(Stored) /\ \A e \in Range(Stored) : e.eid \in 1 .. Len(Stored)
  BY StoredType DEF IsASeq, Range
<1>2. BuilderType
  BY <1>1, EmptySequence DEF BuilderInit, BuilderType
<1>3. FlightsFaithful /\ LogFaithful /\ ChecklistAccepted
  BY <1>1, EmptySequence DEF BuilderInit, FlightsFaithful, LogFaithful, ChecklistAccepted
<1>. QED BY <1>2, <1>3 DEF BuilderInv

\* The operations of the user but the click.
LEMMA UserKeeps ==
  ASSUME BuilderInv,
         \/ \E l \in Links : Open(l) \/ FollowLink(l)
         \/ SwitchView \/ Leave \/ Kill
         \/ UserStep /\ session' \in {session, <<>>}
  PROVE  BuilderInv'
<1>1. ASSUME NEW l \in Links, Open(l) PROVE BuilderInv'
  <2>1. ChecklistFollows
    BY <1>1, PersistKeepsSession DEF Open, Mount, ChecklistFollows
  <2>. QED BY <1>1, <2>1, FewerFollow, LocalStep DEF Open
<1>2. ASSUME NEW l \in Links, FollowLink(l) PROVE BuilderInv'
  <2>1. ChecklistFollows
    BY <1>2, PersistKeepsSession DEF FollowLink, ChecklistFollows
  <2>. QED BY <1>2, <2>1, FewerFollow, LocalStep DEF FollowLink
<1>3. CASE SwitchView
  <2>1. ChecklistFollows
    BY <1>3, PersistKeepsSession DEF SwitchView, Mount, ChecklistFollows
  <2>. QED BY <1>3, <2>1, DetachedFollow, LocalStep DEF SwitchView
<1>4. CASE Leave
  <2>1. ChecklistFollows
    BY <1>4 DEF Leave, Unmount, ChecklistFollows
  <2>. QED BY <1>4, <2>1, DetachedFollow, LocalStep DEF Leave, Unmount
<1>5. CASE Kill
  <2>1. ChecklistFollows
    BY <1>5 DEF Kill, Unmount, ChecklistFollows
  <2>. QED BY <1>5, <2>1, FewerFollow, LocalStep DEF Kill, Unmount
<1>6. CASE UserStep /\ session' \in {session, <<>>}
  <2>1. ChecklistFollows
    BY <1>6, PersistKeepsSession DEF UserStep, ChecklistFollows
  <2>. QED BY <1>6, <2>1, FewerFollow, LocalStep DEF UserStep
<1>. QED BY <1>1, <1>2, <1>3, <1>4, <1>5, <1>6

\* The click notes the form it was made on.
LEMMA SubmitKeeps ==
  ASSUME BuilderInv, Submit
  PROVE  BuilderInv'
<1>0. PICK n, m, g, new :
        /\ n = Len(Stored) + Len(shown) + 1 /\ m = Mode /\ g = form[Mode]
        /\ new = [eid |-> n, mode |-> m, id |-> g.id, ms |-> g.ms, ref |-> g.ref,
                  at |-> "deriving", attached |-> TRUE, panel |-> view = "guided",
                  flow |-> flow]
  OBVIOUS
<1>1. /\ inFlight' = inFlight \cup {new} /\ shown' = Append(shown, g)
      /\ UNCHANGED <<session, draft, nodeLog>>
      /\ m \notin {"offer", "order"} => g.ms # Empty
  BY <1>0 DEF Submit, Requirements
<1>2. /\ IsASeq(shown') /\ Len(shown) \in Nat /\ Len(shown') = Len(shown) + 1
      /\ \A i \in 1 .. Len(shown) : shown'[i] = shown[i]
      /\ shown'[Len(shown) + 1] = g
  BY <1>1, Appending DEF BuilderInv, BuilderType
<1>3. Len(Stored) \in Nat
  BY StoredType
<1>4. /\ new.eid = n /\ new.at # "accepted"
      /\ Sent(new).eid = n /\ Sent(new).kind = m /\ Sent(new).oid = g.id
      /\ Sent(new).ms = g.ms /\ Sent(new).ref = g.ref
  BY <1>0 DEF Sent
<1>5. IsSubmission(new)
  <2>. DEFINE S == {n, m, g.id, g.ms, g.ref, "deriving", TRUE, view = "guided", flow}
  <2>1. new \in SubmissionsOver(S)
    BY <1>0 DEF SubmissionsOver
  <2>. QED BY <2>1 DEF IsSubmission
<1>6. n - Len(Stored) = Len(shown) + 1
  BY <1>0, <1>2, <1>3
<1>7. Clicked(n)'
  BY <1>0, <1>2, <1>3 DEF Clicked
<1>8. Checked(Sent(new))' = g
  BY <1>2, <1>4, <1>6 DEF Checked
<1>9. Faithful(Sent(new))'
  BY <1>1, <1>4, <1>8 DEF Faithful
<1>10. ASSUME NEW e, Clicked(e.eid)
      PROVE  Clicked(e.eid)' /\ (Faithful(e) => Faithful(e)')
  <2>1. e.eid - Len(Stored) \in 1 .. Len(shown)
    BY <1>2, <1>3, <1>10 DEF Clicked
  <2>2. Checked(e)' = Checked(e)
    BY <1>2, <2>1 DEF Checked
  <2>3. Clicked(e.eid)'
    BY <1>2, <1>3, <1>10 DEF Clicked
  <2>. QED BY <2>2, <2>3 DEF Faithful
<1>11. FlightsFaithful'
  <2>. SUFFICES ASSUME NEW f \in inFlight'
                PROVE  /\ IsSubmission(f) /\ Clicked(f.eid)' /\ Faithful(Sent(f))'
                       /\ f.at = "accepted" => Sent(f) \in Range(nodeLog)
    BY <1>1 DEF FlightsFaithful
  <2>1. CASE f = new
    BY <1>4, <1>5, <1>7, <1>9, <2>1
  <2>2. CASE f \in inFlight
    <3>1. /\ IsSubmission(f) /\ Clicked(f.eid) /\ Faithful(Sent(f))
          /\ f.at = "accepted" => Sent(f) \in Range(nodeLog)
      BY <2>2 DEF BuilderInv, FlightsFaithful
    <3>2. Sent(f).eid = f.eid
      BY SentFields
    <3>. QED BY <1>10, <3>1, <3>2
  <2>. QED BY <1>1, <2>1, <2>2
<1>12. LogFaithful'
  BY <1>1, <1>10 DEF BuilderInv, LogFaithful
<1>13. BuilderType' /\ ChecklistAccepted'
  BY <1>1, <1>2 DEF BuilderInv, BuilderType, ChecklistAccepted
<1>. QED BY <1>11, <1>12, <1>13 DEF BuilderInv

\* Some milestones are read when the key is there.
LEMMA SignKeeps ==
  ASSUME BuilderInv, NEW f \in inFlight, Sign(f)
  PROVE  BuilderInv'
<1>. DEFINE g == [f EXCEPT !.at = "sent", !.ms = Envelope(f).ms, !.id = Envelope(f).oid,
                           !.ref = Envelope(f).ref]
<1>1. /\ inFlight' = (inFlight \ {f}) \cup {g}
      /\ UNCHANGED <<session, draft, nodeLog, shown>>
  BY DEF Sign
<1>2. /\ Envelope(f).oid = f.id /\ Envelope(f).ref = f.ref
      /\ Envelope(f).ms = IF f.mode \in {"dispute", "settle", "cancel", "amend"}
                            THEN LateMilestone(f) ELSE f.ms
  BY DEF Envelope
<1>3. /\ IsSubmission(g) /\ g.eid = f.eid /\ g.mode = f.mode /\ g.id = f.id /\ g.ref = f.ref
      /\ g.ms = Envelope(f).ms /\ g.at = "sent"
  <2>1. IsSubmission(f)
    BY DEF BuilderInv, FlightsFaithful
  <2>2. PICK S : {"sent", Envelope(f).ms, Envelope(f).oid, Envelope(f).ref} \subseteq S
                 /\ f \in SubmissionsOver(S)
    BY <2>1, MoreValues
  <2>3. g \in SubmissionsOver(S)
    BY <2>2 DEF SubmissionsOver
  <2>. QED BY <1>2, <2>2, <2>3 DEF IsSubmission, SubmissionsOver
<1>. HIDE DEF g
<1>4. \/ g.ms = f.ms
      \/ g.ms # Empty /\ f.mode \in {"dispute", "settle", "cancel", "amend"}
  BY <1>2, <1>3, LateMilestoneIs
<1>5. FlightsFollow
  BY <1>1, <1>3, <1>4 DEF FlightsFollow, BuilderInv, FlightsFaithful
<1>. QED BY <1>1, <1>5, LocalStep DEF ChecklistFollows

LEMMA IngestKeeps ==
  ASSUME BuilderInv, NEW f \in inFlight, NEW ok \in BOOLEAN, NodeIngests(f, ok)
  PROVE  BuilderInv'
<1>. DEFINE g == [f EXCEPT !.at = IF ok THEN "accepted" ELSE "rejected"]
<1>1. /\ inFlight' = (inFlight \ {f}) \cup {g}
      /\ nodeLog' = IF ok THEN Append(nodeLog, Sent(f)) ELSE nodeLog
      /\ UNCHANGED <<session, draft, shown>>
  BY DEF NodeIngests
<1>2. /\ IsSubmission(f) /\ Clicked(f.eid) /\ Faithful(Sent(f))
      /\ Sent(f).eid = f.eid
  BY SentFields DEF BuilderInv, FlightsFaithful
<1>3. /\ IsSubmission(g) /\ Sent(g) = Sent(f) /\ g.eid = f.eid
      /\ g.at = "accepted" => ok
  <2>1. PICK S : {"accepted", "rejected"} \subseteq S /\ f \in SubmissionsOver(S)
    BY <1>2, MoreValues
  <2>2. g \in SubmissionsOver(S)
    BY <2>1 DEF SubmissionsOver
  <2>3. /\ g.eid = f.eid /\ g.mode = f.mode /\ g.id = f.id /\ g.ms = f.ms /\ g.ref = f.ref
        /\ g.at = IF ok THEN "accepted" ELSE "rejected"
    BY <2>1 DEF SubmissionsOver
  <2>. HIDE DEF g
  <2>. QED BY <2>2, <2>3, SameSent DEF IsSubmission
<1>. HIDE DEF g
<1>4. /\ IsASeq(nodeLog') /\ Range(nodeLog) \subseteq Range(nodeLog')
      /\ ok => Sent(f) \in Range(nodeLog')
      /\ \A e \in Range(nodeLog') : e \in Range(nodeLog) \/ e = Sent(f)
  BY <1>1, Appending DEF BuilderInv, BuilderType
<1>5. FlightsFaithful'
  BY <1>1, <1>2, <1>3, <1>4 DEF BuilderInv, FlightsFaithful, Clicked, Faithful, Checked
<1>6. LogFaithful'
  BY <1>1, <1>2, <1>4 DEF BuilderInv, LogFaithful, Clicked, Faithful, Checked
<1>7. BuilderType' /\ ChecklistAccepted'
  BY <1>1, <1>4 DEF BuilderInv, BuilderType, ChecklistAccepted
<1>. QED BY <1>5, <1>6, <1>7 DEF BuilderInv

\* An accepted event is ticked off, and the draft saved with it.
LEMMA AnswerKeeps ==
  ASSUME BuilderInv, NEW f \in inFlight, Answer(f)
  PROVE  BuilderInv'
<1>1. /\ inFlight' = inFlight \ {f} /\ UNCHANGED <<nodeLog, shown>>
      /\ session' = IF Recorded(f) THEN Append(session, Sent(f)) ELSE session
      /\ draft' = draft \/ draft'.session = session'
  BY PersistKeepsSession DEF Answer
<1>2. Recorded(f) => Sent(f) \in Range(nodeLog)
  BY DEF Recorded, BuilderInv, FlightsFaithful
<1>3. IsASeq(session') /\ Range(session') \subseteq Range(nodeLog)
  BY <1>1, <1>2, Appending DEF BuilderInv, BuilderType, ChecklistAccepted
<1>4. BuilderType' /\ ChecklistAccepted'
  BY <1>1, <1>3 DEF BuilderInv, BuilderType, ChecklistAccepted
<1>5. FlightsFaithful' /\ LogFaithful'
  BY <1>1, FewerFollow, FlightsStay, LogStays
<1>. QED BY <1>4, <1>5 DEF BuilderInv

LEMMA SettleKeeps ==
  ASSUME BuilderInv,
         \/ \E f \in inFlight : SubmitFails(f)
         \/ \E a \in asks : HydrateReference(a) \/ HydrationFails(a)
  PROVE  BuilderInv'
<1>1. /\ inFlight' \subseteq inFlight /\ UNCHANGED <<nodeLog, shown, session>>
      /\ draft' = draft \/ draft'.session = session'
  BY PersistKeepsSession DEF SubmitFails, HydrateReference, HydrationFails
<1>. QED BY <1>1, FewerFollow, LocalStep DEF ChecklistFollows

\* The builder keeps to its invariant, for any forms, links, ids and clicks.
THEOREM BuilderKeepsItsInvariant == BuilderSpec => []BuilderInv
<1>1. BuilderInv /\ UNCHANGED builderVars => BuilderInv'
  <2>. SUFFICES ASSUME BuilderInv, UNCHANGED builderVars PROVE BuilderInv'
    OBVIOUS
  <2>1. ChecklistFollows /\ inFlight' \subseteq inFlight /\ UNCHANGED <<nodeLog, shown>>
    BY DEF builderVars, ChecklistFollows
  <2>. QED BY <2>1, FewerFollow, LocalStep
<1>2. BuilderInv /\ UserOps => BuilderInv'
  <2>. SUFFICES ASSUME BuilderInv, UserOps PROVE BuilderInv'
    OBVIOUS
  <2>1. ASSUME \/ \E g : Edit(g)
               \/ \E f \in Flows : PickFlow(f)
               \/ \E m \in Modes : PickStep(m) \/ PickMode(m)
               \/ \E b \in BOOLEAN : StepForward(b) \/ Reset(b)
               \/ UseLastSigned \/ UsePreviousAccepted
               \/ ClearChecklist
               \/ \E o \in DealIds : LoadStarter(o) \/ LoadFixture(o)
        PROVE  UserStep /\ session' \in {session, <<>>}
    BY <2>1 DEF Edit, PickFlow, PickStep, PickMode, StepForward, Reset, UseLastSigned,
                UsePreviousAccepted, Autofill, ClearChecklist, LoadStarter, LoadFixture
  <2>2. \/ \E l \in Links : Open(l) \/ FollowLink(l)
        \/ SwitchView \/ Leave \/ Kill
        \/ \E g : Edit(g)
        \/ \E f \in Flows : PickFlow(f)
        \/ \E m \in Modes : PickStep(m) \/ PickMode(m)
        \/ \E b \in BOOLEAN : StepForward(b) \/ Reset(b)
        \/ UseLastSigned \/ UsePreviousAccepted
        \/ ClearChecklist
        \/ \E o \in DealIds : LoadStarter(o) \/ LoadFixture(o)
        \/ Submit
    BY DEF UserOps
  <2>. QED BY <2>1, <2>2, UserKeeps, SubmitKeeps
<1>3. BuilderInv /\ (Settling \/ Hydrating) => BuilderInv'
  BY SignKeeps, IngestKeeps, AnswerKeeps, SettleKeeps DEF Settling, Hydrating
<1>. QED BY <1>1, <1>2, <1>3, BuilderInitHolds, PTL DEF BuilderSpec, BuilderNext

\* What is sent was on the form at the click, whatever happens to the form afterwards.
THEOREM SubmissionsAreFaithful == BuilderSpec => []SentAsChecked
<1>1. BuilderInv => SentAsChecked
  <2>. SUFFICES ASSUME BuilderInv,
                       NEW e \in {Sent(f) : f \in {g \in inFlight : g.at # "deriving"}}
                                   \cup Range(nodeLog),
                       e.eid > Len(Stored)
                PROVE  Faithful(e)
    BY DEF SentAsChecked, Faithful
  <2>1. Len(Stored) \in Nat
    BY StoredType
  <2>2. e.eid \notin 1 .. Len(Stored)
    BY <2>1
  <2>. QED BY <2>2 DEF BuilderInv, FlightsFaithful, LogFaithful
<1>. QED BY <1>1, BuilderKeepsItsInvariant, PTL

\* The checklist and its draft hold what the node has accepted, across mounts.
THEOREM ChecklistIsAccepted == BuilderSpec => []ChecklistAccepted
<1>1. BuilderInv => ChecklistAccepted
  BY DEF BuilderInv
<1>. QED BY <1>1, BuilderKeepsItsInvariant, PTL
=============================================================================
