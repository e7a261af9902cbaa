---------------------------- MODULE EventIngest ----------------------------
(***************************************************************************)
(* How a node takes in a signed event (LocalNode::ingest_event in          *)
(* crates/node/src/lib.rs): a line is appended to events.log, an entry to  *)
(* events.chain.jsonl when the hash chain is enabled, and a row to the     *)
(* tables events and event_order of node.db, one after the other under a   *)
(* mutex that belongs to the process.  Requests are served by concurrent   *)
(* threads; a second process on the same data directory is the CLI (node   *)
(* ingest, node sync pull) beside node serve.  A process may crash between *)
(* any two writes, and is validated when it starts again.                  *)
(*                                                                         *)
(* A file is the sequence of what was written to it: writeln! on an        *)
(* unbuffered file writes the text and the end of line separately, so that *)
(* a text may be left without its end of line.  Hashes are free of         *)
(* collisions: a chain hash is the sequence of the lines it covers.  The   *)
(* feed is the table event_order, whose rows are numbered by their place.  *)
(***************************************************************************)
EXTENDS Integers, Sequences, FiniteSets

CONSTANTS
  Processes,    \* processes that have the data directory open
  Threads,      \* threads that serve requests
  ProcessOf,    \* the process of a thread
  Events,       \* events that pass static validation
  Malformed,    \* envelopes that fail it
  ChainEnabled, \* event_log_hash_chain_enabled
  None,         \* no thread, no event
  EOL,          \* an end of line
  MaxCrashes,   \* bound
  MaxFailures   \* bound: reads and writes that fail

ASSUME ProcessOfType == ProcessOf \in [Threads -> Processes]
ASSUME Distinct ==
  /\ None \notin Threads /\ None \notin Events /\ None \notin Malformed
  /\ EOL \notin Events
  /\ Events \cap Malformed = {}
ASSUME ConfigType ==
  ChainEnabled \in BOOLEAN /\ MaxCrashes \in Nat /\ MaxFailures \in Nat

VARIABLES
  log,      \* events.log
  chain,    \* events.chain.jsonl
  stored,   \* event ids of the table events
  feed,     \* table event_order
  invalid,  \* envelopes with a row in invalid_events
  up,       \* whether a process is running
  lock,     \* holder of a process's ingest_lock
  pc,       \* what a thread does next
  ev,       \* the envelope a thread ingests
  entry,    \* the chain entry a thread has prepared
  reply,    \* the last IngestResult of a thread
  crashes, failures

disk == <<log, chain, stored, feed, invalid>>
faults == <<crashes, failures>>
vars == <<disk, up, lock, pc, ev, entry, reply, faults>>

-----------------------------------------------------------------------------
Ingesting == {"log", "logEnd", "chain", "chainText", "chainEnd", "store", "order"}
Replies == {"none", "accepted", "present", "rejected"}

Entry == [seq : Nat, event : Events, covers : Seq(Events)]
NoEntry == [seq |-> 0, event |-> None, covers |-> <<>>]
ASSUME EntriesAreTexts == EOL \notin Entry

\* One text per line, and one line per text.
WellFormed(file) == \A i \in 2 .. Len(file) : file[i] # EOL => file[i - 1] = EOL

\* The places of the texts of a file, and the number of the text at place i.
Texts(file) == {i \in 1 .. Len(file) : file[i] # EOL}
Number(file, i) == Cardinality({j \in Texts(file) : j <= i})

\* The non-empty lines of a file.
Lines(file) == {i \in 1 .. Len(file) : file[i] # EOL /\ (i > 1 => file[i - 1] = EOL)}

Logged == {log[i] : i \in 1 .. Len(log)} \ {EOL}
Fed == {feed[i] : i \in 1 .. Len(feed)}

TypeOK ==
  /\ log \in Seq(Events \cup {EOL})
  /\ chain \in Seq(Entry \cup {EOL})
  /\ stored \subseteq Events
  /\ feed \in Seq(Events)
  /\ invalid \subseteq Events \cup Malformed
  /\ up \in [Processes -> BOOLEAN]
  /\ lock \in [Processes -> Threads \cup {None}]
  /\ pc \in [Threads -> {"idle", "waiting"} \cup Ingesting]
  /\ ev \in [Threads -> Events \cup Malformed \cup {None}]
  /\ entry \in [Threads -> Entry \cup {NoEntry}]
  /\ reply \in [Threads -> Replies]
  /\ crashes \in Nat /\ failures \in Nat

Init ==
  /\ log = <<>> /\ chain = <<>>
  /\ stored = {} /\ feed = <<>> /\ invalid = {}
  /\ up = [p \in Processes |-> TRUE]
  /\ lock = [p \in Processes |-> None]
  /\ pc = [t \in Threads |-> "idle"]
  /\ ev = [t \in Threads |-> None]
  /\ entry = [t \in Threads |-> NoEntry]
  /\ reply = [t \in Threads |-> "none"]
  /\ crashes = 0 /\ failures = 0

-----------------------------------------------------------------------------
At(t, here, next) ==
  /\ pc[t] = here
  /\ pc' = [pc EXCEPT ![t] = next]

\* Mutant of Return: the lock is kept when the event is rejected.
ReturnLocked(t, result) ==
  /\ pc' = [pc EXCEPT ![t] = "idle"]
  /\ reply' = [reply EXCEPT ![t] = result]
  /\ lock' = [p \in Processes |-> IF lock[p] = t /\ result # "rejected"
                                   THEN None ELSE lock[p]]
  /\ entry' = [entry EXCEPT ![t] = NoEntry]

\* The thread returns, which releases the lock if it holds it.
Return(t, result) ==
  /\ pc' = [pc EXCEPT ![t] = "idle"]
  /\ reply' = [reply EXCEPT ![t] = result]
  /\ lock' = [p \in Processes |-> IF lock[p] = t THEN None ELSE lock[p]]
  /\ entry' = [entry EXCEPT ![t] = NoEntry]

\* A request arrives.  An envelope that fails static validation is recorded as
\* invalid and refused before the lock is taken.
Submit(t, e) ==
  /\ up[ProcessOf[t]]
  /\ pc[t] = "idle"
  /\ ev' = [ev EXCEPT ![t] = e]
  /\ IF e \in Malformed
       THEN /\ invalid' = invalid \cup {e}
            /\ reply' = [reply EXCEPT ![t] = "rejected"]
            /\ UNCHANGED pc
       ELSE /\ pc' = [pc EXCEPT ![t] = "waiting"]
            /\ reply' = [reply EXCEPT ![t] = "none"]
            /\ UNCHANGED invalid
  /\ UNCHANGED <<log, chain, stored, feed, up, lock, entry, faults>>

\* Mutant of LockFree: the lock is not taken.
LockIgnored(t) == TRUE

LockFree(t) == lock[ProcessOf[t]] = None

\* Under the lock: an event that is stored already is not ingested again.
FindPresent(t) ==
  /\ pc[t] = "waiting"
  /\ LockFree(t)
  /\ ev[t] \in stored
  /\ Return(t, "present")
  /\ UNCHANGED <<disk, up, ev, faults>>

\* Mutant of FindAbsent: the database is written without the log.
FindAbsentStoreFirst(t) ==
  /\ LockFree(t)
  /\ ev[t] \notin stored
  /\ At(t, "waiting", "store")
  /\ lock' = [lock EXCEPT ![ProcessOf[t]] = t]
  /\ UNCHANGED <<disk, up, ev, entry, reply, faults>>

\* Mutant of FindAbsent: whether the event is stored is not asked.
FindAbsentUnchecked(t) ==
  /\ LockFree(t)
  /\ At(t, "waiting", "log")
  /\ lock' = [lock EXCEPT ![ProcessOf[t]] = t]
  /\ UNCHANGED <<disk, up, ev, entry, reply, faults>>

FindAbsent(t) ==
  /\ LockFree(t)
  /\ ev[t] \notin stored
  /\ At(t, "waiting", "log")
  /\ lock' = [lock EXCEPT ![ProcessOf[t]] = t]
  /\ UNCHANGED <<disk, up, ev, entry, reply, faults>>

WriteLogText(t) ==
  /\ At(t, "log", "logEnd")
  /\ log' = Append(log, ev[t])
  /\ UNCHANGED <<chain, stored, feed, invalid, up, lock, ev, entry, reply, faults>>

WriteLogEnd(t) ==
  /\ At(t, "logEnd", IF ChainEnabled THEN "chain" ELSE "store")
  /\ log' = Append(log, EOL)
  /\ UNCHANGED <<chain, stored, feed, invalid, up, lock, ev, entry, reply, faults>>

LastText(file) ==
  {i \in 1 .. Len(file) : file[i] # EOL /\ \A j \in i + 1 .. Len(file) : file[j] = EOL}

\* The chain hash of the last entry, or that of the genesis when there is no
\* entry or the file cannot be parsed.
ChainHead ==
  IF LastText(chain) = {} \/ ~WellFormed(chain) THEN <<>>
  ELSE chain[CHOOSE i \in LastText(chain) : TRUE].covers

EntryOf(t, seq, head) ==
  [seq |-> seq, event |-> ev[t], covers |-> Append(head, ev[t])]

\* Mutant of NextEntry: the entry is numbered from zero.
NextEntryFromZero(t) == EntryOf(t, Cardinality(Lines(log)) - 1, ChainHead)

NextEntry(t) == EntryOf(t, Cardinality(Lines(log)), ChainHead)

PrepareEntry(t) ==
  /\ At(t, "chain", "chainText")
  /\ entry' = [entry EXCEPT ![t] = NextEntry(t)]
  /\ UNCHANGED <<disk, up, lock, ev, reply, faults>>

WriteChainText(t) ==
  /\ At(t, "chainText", "chainEnd")
  /\ chain' = Append(chain, entry[t])
  /\ UNCHANGED <<log, stored, feed, invalid, up, lock, ev, entry, reply, faults>>

WriteChainEnd(t) ==
  /\ At(t, "chainEnd", "store")
  /\ chain' = Append(chain, EOL)
  /\ UNCHANGED <<log, stored, feed, invalid, up, lock, ev, entry, reply, faults>>

StoreRow(t) ==
  /\ ev[t] \notin stored
  /\ At(t, "store", "order")
  /\ stored' = stored \cup {ev[t]}
  /\ UNCHANGED <<log, chain, feed, invalid, up, lock, ev, entry, reply, faults>>

OrderRow(t) ==
  /\ pc[t] = "order"
  /\ feed' = Append(feed, ev[t])
  /\ Return(t, "accepted")
  /\ UNCHANGED <<log, chain, stored, invalid, up, ev, faults>>

\* The primary key of the table events refuses a second row.
RefuseRow(t) ==
  /\ pc[t] = "store"
  /\ ev[t] \in stored
  /\ invalid' = invalid \cup {ev[t]}
  /\ Return(t, "rejected")
  /\ UNCHANGED <<log, chain, stored, feed, up, ev, faults>>

-----------------------------------------------------------------------------
Failing ==
  /\ failures < MaxFailures
  /\ failures' = failures + 1
  /\ UNCHANGED crashes

\* The query of event_exists fails: no invalid_events row is written.
FailCheck(t) ==
  /\ pc[t] = "waiting"
  /\ LockFree(t)
  /\ Failing
  /\ Return(t, "rejected")
  /\ UNCHANGED <<disk, up, ev>>

\* A write fails: the request is rejected, and its invalid_events row, whose
\* own failure is ignored, may be written or not.
FailWrite(t) ==
  /\ pc[t] \in Ingesting \ {"chain"}
  /\ Failing
  /\ invalid' \in {invalid, invalid \cup {ev[t]}}
  /\ Return(t, "rejected")
  /\ UNCHANGED <<log, chain, stored, feed, up, ev>>

\* The log or the chain cannot be read: the entry starts from 0 or the genesis.
FailRead(t) ==
  /\ At(t, "chain", "chainText")
  /\ Failing
  /\ \/ entry' = [entry EXCEPT ![t] = EntryOf(t, 0, ChainHead)]
     \/ entry' = [entry EXCEPT ![t] = EntryOf(t, Cardinality(Lines(log)), <<>>)]
  /\ UNCHANGED <<disk, up, lock, ev, reply>>

Crash(p) ==
  /\ up[p]
  /\ crashes < MaxCrashes
  /\ crashes' = crashes + 1
  /\ up' = [up EXCEPT ![p] = FALSE]
  /\ lock' = [lock EXCEPT ![p] = None]
  /\ pc' = [t \in Threads |-> IF ProcessOf[t] = p THEN "idle" ELSE pc[t]]
  /\ entry' = [t \in Threads |-> IF ProcessOf[t] = p THEN NoEntry ELSE entry[t]]
  /\ reply' = [t \in Threads |-> IF ProcessOf[t] = p THEN "none" ELSE reply[t]]
  /\ ev' = [t \in Threads |-> IF ProcessOf[t] = p THEN None ELSE ev[t]]
  /\ UNCHANGED <<disk, failures>>

\* The entry has the number k, the hash of the line k, and that of the lines up to it.
EntryVerifies(e, k) ==
  /\ e.seq = k /\ Len(e.covers) = k
  /\ \A n \in Texts(log) :
       /\ Number(log, n) = k => e.event = log[n]
       /\ Number(log, n) <= k => e.covers[Number(log, n)] = log[n]

\* verify_chain_against_log: as many entries as lines, numbered from 1, each the
\* hash of its line and of all the lines before it.
ChainVerifies ==
  /\ WellFormed(chain)
  /\ Cardinality(Texts(log)) = Cardinality(Texts(chain))
  /\ \A i \in Texts(chain) : EntryVerifies(chain[i], Number(chain, i))

\* validate_events_log_for_startup: every line is one JSON value.
CanStart ==
  /\ WellFormed(log)
  /\ ChainEnabled => ChainVerifies

Start(p) ==
  /\ ~up[p]
  /\ CanStart
  /\ up' = [up EXCEPT ![p] = TRUE]
  /\ UNCHANGED <<disk, lock, pc, ev, entry, reply, faults>>

-----------------------------------------------------------------------------
Step(t) ==
  \/ FindPresent(t) \/ FindAbsent(t)
  \/ WriteLogText(t) \/ WriteLogEnd(t)
  \/ PrepareEntry(t) \/ WriteChainText(t) \/ WriteChainEnd(t)
  \/ StoreRow(t) \/ OrderRow(t) \/ RefuseRow(t)

Fault(t) == FailCheck(t) \/ FailWrite(t) \/ FailRead(t)

Next ==
  \/ \E t \in Threads :
       \/ \E e \in Events \cup Malformed : Submit(t, e)
       \/ Step(t)
       \/ Fault(t)
  \/ \E p \in Processes : Crash(p) \/ Start(p)

Spec == Init /\ [][Next]_vars

-----------------------------------------------------------------------------
(* Properties *)

\* A thread is between the check and the last write exactly when it holds the
\* lock of its process, which it always gives back.
LockIsHeld ==
  /\ \A t \in Threads : pc[t] \in Ingesting <=> lock[ProcessOf[t]] = t
  /\ \A p \in Processes : lock[p] # None => ProcessOf[lock[p]] = p /\ up[p]

\* The event log is the durable history: what the database holds, and so what a
\* request was told is accepted or present, is in the log, whatever crashes or
\* fails, and what the feed serves is in the table it joins.
StoredIsLogged ==
  /\ stored \subseteq Logged
  /\ Fed \subseteq stored
  /\ \A t \in Threads : reply[t] \in {"accepted", "present"} => ev[t] \in stored

\* No event is fed twice, however many processes ingest it at once.
FedOnce == \A i, j \in 1 .. Len(feed) : i # j => feed[i] # feed[j]

\* The feed has the order of the log: of two events, the one fed later has a line
\* after every line of the other.
FeedFollowsLog ==
  \A i, j \in 1 .. Len(feed) : i < j =>
    \E n \in 1 .. Len(log) :
      /\ log[n] = feed[j]
      /\ \A m \in n .. Len(log) : log[m] # feed[i]

\* What a thread relies on while it ingests an event.
EventInProgress ==
  \A t \in Threads :
    /\ pc[t] # "idle" => up[ProcessOf[t]] /\ ev[t] \in Events
    /\ pc[t] \in Ingesting \ {"log"} => ev[t] \in Logged
    /\ pc[t] \in {"chainText", "chainEnd"} => entry[t] \in Entry
    /\ pc[t] = "order" =>
         /\ ev[t] \in stored \ Fed
         /\ \A s \in Threads \ {t} : pc[s] = "order" => ev[s] # ev[t]

\* The inductive invariant, whatever the number of processes.
IngestInv ==
  /\ TypeOK
  /\ LockIsHeld
  /\ StoredIsLogged
  /\ FedOnce
  /\ EventInProgress

\* One process serves all requests.
SingleServer == \A s, t \in Threads : ProcessOf[s] = ProcessOf[t]

\* The event t ingests has a line with no line of a stored event after it.
LastLogged(t) ==
  \E n \in 1 .. Len(log) :
    /\ log[n] = ev[t]
    /\ \A m \in n .. Len(log) : log[m] \notin stored \ {ev[t]}

\* What is inductive besides when one process has the data directory: its lock
\* keeps the event being ingested out of the tables and last in the log.
SingleServerInv ==
  /\ FeedFollowsLog
  /\ \A t \in Threads :
       /\ pc[t] \in Ingesting \ {"order"} => ev[t] \notin stored
       /\ pc[t] \in Ingesting \ {"log"} => LastLogged(t)

\* Every line beyond those of the stored events was left by a crash, by a failure,
\* or by the thread that is ingesting.
LinesAreAccounted ==
  Cardinality(Texts(log)) <= Cardinality(stored) + crashes + failures
                               + Cardinality({t \in Threads : pc[t] \in Ingesting})

\* Ingestion is idempotent: no event gets two places in the feed, however many
\* processes ingest it at once (the check of event_exists, and the primary key of
\* the table events), and repeated submissions to one process add no line to its log.
IngestedOnce == FedOnce /\ (SingleServer => LinesAreAccounted)

\* While nothing crashes or fails, the chain verifies against the log whenever no
\* event is being ingested.
ChainFollowsLog ==
  /\ ChainEnabled
  /\ crashes = 0 /\ failures = 0
  /\ \A t \in Threads : pc[t] \notin Ingesting
  => ChainVerifies

\* A valid event is rejected only because a read or a write failed: never because
\* another request ingests the same event at the same time (K-08).
RejectedOnlyByFailure ==
  [][\A t \in Threads :
       pc[t] # "idle" /\ pc'[t] = "idle" /\ reply'[t] = "rejected"
         => failures' > failures]_vars

\* Every request is answered or dies with its process.
RequestsAreAnswered ==
  \A t \in Threads : pc[t] = "waiting" ~> pc[t] = "idle"

\* docs/specs/security-resilience-spec.md, RES-01: a node restart recovers from
\* JSONL and SQLite without manual repair. For the database: an event the node
\* reports as present is in its feed, and so in what it replays and serves.
PresentIsServed ==
  \A t \in Threads : reply[t] = "present" => ev[t] \in Fed
=============================================================================
