---------------------------- MODULE OpsEvidence ----------------------------
(***************************************************************************)
(* The evidence an operator keeps under target/tmp: the audit log of the   *)
(* operator console's exports (apps/web/app/api/operations/exports/route.ts*)
(* and operator-console-page.tsx), its cleanup by a command of the shell   *)
(* (scripts/v1-export-audit-log-plan.mjs --apply), the runs of the lane    *)
(* fixtures (v1-lane-fixture-check.mjs) and the plan that lists which of   *)
(* them may be removed (v1-artifact-prune-plan.mjs), with the command the  *)
(* operator copies from it.  Requests, cleanups and the operator share     *)
(* files and nothing else; the reading of a directory is one step, since   *)
(* what it reads may be stale at once in any case.                         *)
(*                                                                         *)
(* The route and the scripts write under the root of the repository; the   *)
(* console reads under the directory its server was started in, and so     *)
(* finds nothing when that is apps/web.                                    *)
(***************************************************************************)
EXTENDS Naturals, FiniteSets

CONSTANTS
  Requests,        \* requests of the exports route that may be under way together
  Cleaners,        \* shells in which the cleanup is applied
  MinKeep, RetainRecent, RetainFailed,   \* DEFAULT_MIN_KEEP_LINES, DEFAULT_RETAIN_*_DAYS
  KeepRecent, PruneRetention,            \* KEEP_RECENT_RUNS, PRUNE_RETENTION_HOURS
  MaxDay, MaxClicks, MaxCleanups         \* bounds

ASSUME RetentionType ==
  {MinKeep, RetainRecent, RetainFailed, KeepRecent, PruneRetention} \subseteq Nat

VARIABLES
  atRoot,     \* the server of the console was started in the root of the repository
  day,        \* the time
  auditLog,   \* operations-export-execution-log.jsonl: lines [n, action, status, at]; they
              \* stand in the order of n, also when what is kept of them is written anew
  archived,   \* the lines of its archives
  recorded,   \* every line that was ever appended to it
  lost,       \* lines a cleanup has overwritten without having read or rewritten them
  request,    \* request[q]: the request, its action and when it was started
  cleaner,    \* cleaner[c]: how far a cleanup is, and the lines it has read
  runs,       \* the run directories [name, at, status]
  made,       \* all run directories that were ever completed
  annotated,  \* names of runs with a pin marker, a note or tags
  plan,       \* names in the latest operations-artifact-prune-plan.json
  clipboard,  \* the run directories of the command the operator has copied
  clicks, cleanups   \* how often an export and a cleanup were started

opsVars == <<atRoot, day, auditLog, archived, recorded, lost, request, cleaner, runs, made,
             annotated, plan, clipboard, clicks, cleanups>>

Actions == {"refresh_artifact_prune_plan", "run_lane_fixture_checks"}

NoRequest == [phase |-> "idle", action |-> "none", start |-> 0, at |-> 0, status |-> "none", name |-> 0]
NoCleanup == [phase |-> "idle", read |-> {}, asOf |-> 0]

---------------------------------------------------------------------------
\* The lines that were appended after r: newestRank of them.
Newer(r, read) == {s \in read : s.n > r.n}

\* Mutant of Keeps: failed lines are kept no longer than others.
KeepsAnyStatus(r, read, asOf) ==
  Cardinality(Newer(r, read)) < MinKeep \/ asOf - r.at <= RetainRecent

\* classifyEntry on a line of the log that was read.
Keeps(r, read, asOf) ==
  \/ Cardinality(Newer(r, read)) < MinKeep
  \/ asOf - r.at <= RetainRecent
  \/ r.status = "failed" /\ asOf - r.at <= RetainFailed

Kept(read, asOf) == {r \in read : Keeps(r, read, asOf)}
Pruned(read, asOf) == read \ Kept(read, asOf)

\* The rollup of the console: its alert names the actions whose latest line failed.
LinesOf(a) == {r \in auditLog : atRoot /\ r.action = a}
Alerted ==
  {a \in Actions : \E r \in LinesOf(a) :
                     r.status = "failed" /\ \A s \in LinesOf(a) : s.n <= r.n}

\* keepSet: the newest runs by name.
Newest(S) == {r \in S : Cardinality({s \in S : s.name > r.name}) < KeepRecent}

\* Mutant of Candidates: the newest runs are not excepted.
CandidatesOfAnyRank ==
  {r \in runs : day - r.at > PruneRetention /\ r.name \notin annotated /\ r.status = "passed"}

\* exclusionReason: the runs that the prune plan lists.
Candidates ==
  {r \in runs \ Newest(runs) :
     day - r.at > PruneRetention /\ r.name \notin annotated /\ r.status = "passed"}

---------------------------------------------------------------------------
OpsInit ==
  /\ atRoot \in BOOLEAN /\ day = 0
  /\ auditLog = {} /\ archived = {} /\ recorded = {} /\ lost = {}
  /\ request = [q \in Requests |-> NoRequest] /\ cleaner = [c \in Cleaners |-> NoCleanup]
  /\ runs = {} /\ made = {} /\ annotated = {} /\ plan = {} /\ clipboard = {}
  /\ clicks = 0 /\ cleanups = 0

NextDay ==
  /\ day < MaxDay /\ day' = day + 1
  /\ UNCHANGED <<auditLog, archived, recorded, lost, request, cleaner, runs, made, annotated,
                 plan, clipboard, clicks, cleanups>>

\* "Run now" of the console: the route spawns the script of the action.
RunWorkflowCommand(q, a) ==
  /\ request[q].phase = "idle" /\ clicks < MaxClicks
  /\ clicks' = clicks + 1
  /\ request' = [request EXCEPT ![q] =
       [NoRequest EXCEPT !.phase = "running", !.action = a, !.start = day, !.name = clicks + 1]]
  /\ UNCHANGED <<day, auditLog, archived, recorded, lost, cleaner, runs, made, annotated, plan,
                 clipboard, cleanups>>

\* The script ends, and with it the child process.
Closed(q, s) ==
  request' = [request EXCEPT ![q] = [@ EXCEPT !.phase = "closed", !.at = day, !.status = s]]

\* The script that plans what may be removed.
WritePlan(q) ==
  /\ request[q].phase = "running" /\ request[q].action = "refresh_artifact_prune_plan"
  /\ plan' = {r.name : r \in Candidates}
  /\ Closed(q, "passed")
  /\ UNCHANGED <<day, auditLog, archived, recorded, lost, cleaner, runs, made, annotated,
                 clipboard, clicks, cleanups>>

\* The checks of the lane fixtures write their run, named by when they were started.
WriteRun(q, s) ==
  /\ request[q].phase = "running" /\ request[q].action = "run_lane_fixture_checks"
  /\ LET r == [name |-> request[q].name, at |-> request[q].start, status |-> s]
     IN  runs' = runs \cup {r} /\ made' = made \cup {r}
  /\ Closed(q, s)
  /\ UNCHANGED <<day, auditLog, archived, recorded, lost, cleaner, annotated, plan, clipboard,
                 clicks, cleanups>>

\* The script throws, or is killed after four minutes.
ScriptFails(q) ==
  /\ request[q].phase = "running"
  /\ Closed(q, "failed")
  /\ UNCHANGED <<day, auditLog, archived, recorded, lost, cleaner, runs, made, annotated, plan,
                 clipboard, clicks, cleanups>>

\* appendExportExecutionAudit.
Appended(q) ==
  [n |-> Cardinality(recorded) + 1, action |-> request[q].action,
   status |-> request[q].status, at |-> request[q].at]

AppendAudit(q) ==
  /\ request[q].phase = "closed"
  /\ auditLog' = auditLog \cup {Appended(q)}
  /\ recorded' = recorded \cup {Appended(q)}
  /\ request' = [request EXCEPT ![q] = NoRequest]
  /\ UNCHANGED <<day, archived, lost, cleaner, runs, made, annotated, plan, clipboard, clicks,
                 cleanups>>

\* The line cannot be written, the process cannot be spawned, or the server stops.
NoAudit(q) ==
  /\ request[q].phase # "idle"
  /\ request' = [request EXCEPT ![q] = NoRequest]
  /\ UNCHANGED <<day, auditLog, archived, recorded, lost, cleaner, runs, made, annotated, plan,
                 clipboard, clicks, cleanups>>

---------------------------------------------------------------------------
\* The cleanup reads the log; without candidates it changes nothing.
ReadLog(c) ==
  /\ cleaner[c].phase = "idle" /\ cleanups < MaxCleanups
  /\ Pruned(auditLog, day) # {}
  /\ cleanups' = cleanups + 1
  /\ cleaner' = [cleaner EXCEPT ![c] = [phase |-> "archive", read |-> auditLog, asOf |-> day]]
  /\ UNCHANGED <<day, auditLog, archived, recorded, lost, request, runs, made, annotated, plan,
                 clipboard, clicks>>

WriteArchive(c) ==
  /\ cleaner[c].phase = "archive"
  /\ archived' = archived \cup Pruned(cleaner[c].read, cleaner[c].asOf)
  /\ cleaner' = [cleaner EXCEPT ![c].phase = "truncate"]
  /\ UNCHANGED <<day, auditLog, recorded, lost, request, runs, made, annotated, plan, clipboard,
                 clicks, cleanups>>

\* Writing the log anew empties it first.
Unread(c) == auditLog \ cleaner[c].read

TruncateLog(c) ==
  /\ cleaner[c].phase = "truncate"
  /\ auditLog' = {} /\ lost' = lost \cup Unread(c)
  /\ cleaner' = [cleaner EXCEPT ![c].phase = "rewrite"]
  /\ UNCHANGED <<day, archived, recorded, request, runs, made, annotated, plan, clipboard, clicks,
                 cleanups>>

RewriteLog(c) ==
  /\ cleaner[c].phase = "rewrite"
  /\ auditLog' = Kept(cleaner[c].read, cleaner[c].asOf) /\ lost' = lost \cup Unread(c)
  /\ cleaner' = [cleaner EXCEPT ![c] = NoCleanup]
  /\ UNCHANGED <<day, archived, recorded, request, runs, made, annotated, plan, clipboard, clicks,
                 cleanups>>

\* The cleanup is interrupted.
CleanupStops(c) ==
  /\ cleaner[c].phase # "idle"
  /\ lost' = IF cleaner[c].phase = "rewrite" THEN lost \cup cleaner[c].read ELSE lost
  /\ cleaner' = [cleaner EXCEPT ![c] = NoCleanup]
  /\ UNCHANGED <<day, auditLog, archived, recorded, request, runs, made, annotated, plan,
                 clipboard, clicks, cleanups>>

---------------------------------------------------------------------------
\* The console shows commands that pin, note, tag or unpin the latest run of a lane.
Annotate(r) ==
  /\ atRoot
  /\ r = CHOOSE s \in runs : \A t \in runs : t.name <= s.name
  /\ annotated' \in {annotated \cup {r.name}, annotated \ {r.name}}
  /\ annotated' # annotated
  /\ UNCHANGED <<day, auditLog, archived, recorded, lost, request, cleaner, runs, made, plan,
                 clipboard, clicks, cleanups>>

\* It shows the command of the latest plan, however old that is, ...
CopyCommand ==
  /\ atRoot /\ plan # {} /\ clipboard' = plan
  /\ UNCHANGED <<day, auditLog, archived, recorded, lost, request, cleaner, runs, made, annotated,
                 plan, clicks, cleanups>>

\* ... and the operator's shell removes one directory after another.
RemoveItem(r) ==
  /\ r.name \in clipboard
  /\ runs' = runs \ {r}
  /\ UNCHANGED <<day, auditLog, archived, recorded, lost, request, cleaner, made, annotated, plan,
                 clipboard, clicks, cleanups>>

OpsNext ==
  /\ UNCHANGED atRoot
  /\ \/ NextDay
     \/ \E q \in Requests : \/ \E a \in Actions : RunWorkflowCommand(q, a)
                            \/ \E s \in {"passed", "failed"} : WriteRun(q, s)
                            \/ WritePlan(q)
                            \/ ScriptFails(q)
                            \/ AppendAudit(q)
                            \/ NoAudit(q)
     \/ \E c \in Cleaners : \/ ReadLog(c) \/ WriteArchive(c) \/ TruncateLog(c)
                            \/ RewriteLog(c) \/ CleanupStops(c)
     \/ \E r \in runs : Annotate(r) \/ RemoveItem(r)
     \/ CopyCommand

OpsSpec == OpsInit /\ [][OpsNext]_opsVars

---------------------------------------------------------------------------
\* Lines a cleanup has taken out of the log and is about to write back.
Rewriting == UNION {cleaner[c].read : c \in {d \in Cleaners : cleaner[d].phase = "rewrite"}}

\* Exports and cleanups interleave and stop anywhere.  Every line is in the log or in
\* an archive, but those an overlapping cleanup overwrote; and while its retention
\* lasts, no cleanup hides that an action's last run has failed from a console that
\* was started where the log is.
AuditIsKept ==
  /\ recorded \subseteq auditLog \cup archived \cup lost \cup Rewriting
  /\ atRoot =>
       \A r \in recorded \ (lost \cup Rewriting) :
         /\ r.status = "failed" /\ day - r.at <= RetainFailed
         /\ \A s \in recorded : s.action = r.action => s.n <= r.n
         => r.action \in Alerted

\* Plans and copied commands may be old, and runs may be completed in another order
\* than they were started: the newest runs are never removed.
NewestRunsStay == Newest(made) \subseteq runs
=============================================================================
