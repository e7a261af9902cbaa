------------------------- MODULE EventIngestProofs -------------------------
(***************************************************************************)
(* Proofs about EventIngest, for any number of processes, threads, events, *)
(* crashes and failures.                                                   *)
(***************************************************************************)
EXTENDS EventIngest, FiniteSetTheorems, TLAPS

\* What a sequence holds after an element has been appended.
LEMMA AppendHolds ==
  ASSUME NEW S, NEW s \in Seq(S), NEW x \in S
  PROVE  /\ Append(s, x) \in Seq(S)
         /\ Len(Append(s, x)) = Len(s) + 1
         /\ \A i \in 1 .. Len(s) : Append(s, x)[i] = s[i]
         /\ Append(s, x)[Len(s) + 1] = x
         /\ {Append(s, x)[i] : i \in 1 .. Len(Append(s, x))}
              = {s[i] : i \in 1 .. Len(s)} \cup {x}
<1>1. /\ Append(s, x) \in Seq(S)
      /\ Len(Append(s, x)) = Len(s) + 1
      /\ \A i \in 1 .. Len(s) : Append(s, x)[i] = s[i]
      /\ Append(s, x)[Len(s) + 1] = x
  OBVIOUS
<1>2. {Append(s, x)[i] : i \in 1 .. Len(Append(s, x))}
        \subseteq {s[i] : i \in 1 .. Len(s)} \cup {x}
  <2>1. SUFFICES ASSUME NEW i \in 1 .. Len(Append(s, x))
                 PROVE  Append(s, x)[i] \in {s[j] : j \in 1 .. Len(s)} \cup {x}
    OBVIOUS
  <2>2. CASE i \in 1 .. Len(s)
    BY <1>1, <2>2
  <2>3. CASE i = Len(s) + 1
    BY <1>1, <2>3
  <2>4. QED
    BY <1>1, <2>1, <2>2, <2>3
<1>3. {s[i] : i \in 1 .. Len(s)} \cup {x}
        \subseteq {Append(s, x)[i] : i \in 1 .. Len(Append(s, x))}
  <2>1. ASSUME NEW i \in 1 .. Len(s)
        PROVE  s[i] \in {Append(s, x)[j] : j \in 1 .. Len(Append(s, x))}
    BY <1>1
  <2>2. x \in {Append(s, x)[j] : j \in 1 .. Len(Append(s, x))}
    BY <1>1
  <2>3. QED
    BY <2>1, <2>2
<1>4. QED
  BY <1>1, <1>2, <1>3

\* A line appended to the log is logged, and nothing logged is forgotten.
LEMMA LogGrows ==
  ASSUME log \in Seq(Events \cup {EOL}), NEW x \in Events \cup {EOL},
         log' = Append(log, x)
  PROVE  /\ Logged \subseteq Logged'
         /\ x # EOL => x \in Logged'
BY AppendHolds DEF Logged

\* What a thread reads from the two files, whatever they look like.
LEMMA FilesReadable ==
  ASSUME TypeOK
  PROVE  Cardinality(Lines(log)) \in Nat /\ ChainHead \in Seq(Events)
<1>1. Cardinality(Lines(log)) \in Nat
  <2>1. IsFiniteSet(1 .. Len(log))
    BY FS_Interval DEF TypeOK
  <2>2. Lines(log) \subseteq 1 .. Len(log)
    BY DEF Lines
  <2>3. QED
    BY <2>1, <2>2, FS_Subset, FS_CardinalityType
<1>2. ChainHead \in Seq(Events)
  <2>1. CASE LastText(chain) = {} \/ ~WellFormed(chain)
    BY <2>1 DEF ChainHead
  <2>2. CASE ~(LastText(chain) = {} \/ ~WellFormed(chain))
    <3>1. PICK i \in LastText(chain) : ChainHead = chain[i].covers
      BY <2>2 DEF ChainHead
    <3>2. chain[i] \in Entry
      BY <3>1 DEF LastText, TypeOK
    <3>3. QED
      BY <3>1, <3>2 DEF Entry
  <2>3. QED
    BY <2>1, <2>2
<1>3. QED
  BY <1>1, <1>2

LEMMA EntryOfType ==
  ASSUME NEW t, ev[t] \in Events, NEW seq \in Nat, NEW head \in Seq(Events)
  PROVE  EntryOf(t, seq, head) \in Entry
<1>1. Append(head, ev[t]) \in Seq(Events)
  OBVIOUS
<1>2. QED
  BY <1>1 DEF EntryOf, Entry

-----------------------------------------------------------------------------
(* The invariant of any number of processes *)

LEMMA TypeStep ==
  ASSUME TypeOK, LockIsHeld, EventInProgress, [Next]_vars
  PROVE  TypeOK'
<1> USE DEF TypeOK, Entry, NoEntry, Ingesting, Replies
<1>1. CASE UNCHANGED vars
  BY <1>1 DEF vars, disk, faults
<1>2. ASSUME NEW t \in Threads, NEW e \in Events \cup Malformed, Submit(t, e)
      PROVE  TypeOK'
  <2>1. CASE e \in Malformed
    BY <1>2, <2>1 DEF Submit, faults
  <2>2. CASE e \notin Malformed
    BY <1>2, <2>2 DEF Submit, faults
  <2>3. QED
    BY <2>1, <2>2
<1>3. ASSUME NEW t \in Threads, Step(t)
      PROVE  TypeOK'
  <2>1. CASE FindPresent(t)
    BY <2>1, ProcessOfType DEF FindPresent, Return, disk, faults
  <2>2. CASE FindAbsent(t)
    BY <2>2, ProcessOfType DEF FindAbsent, At, disk, faults
  <2>3. CASE WriteLogText(t)
    <3>1. ev[t] \in Events
      BY <2>3 DEF WriteLogText, At, EventInProgress
    <3>2. QED
      BY <2>3, <3>1 DEF WriteLogText, At, faults
  <2>4. CASE WriteLogEnd(t)
    BY <2>4 DEF WriteLogEnd, At, faults
  <2>5. CASE PrepareEntry(t)
    <3>1. NextEntry(t) \in Entry
      BY <2>5, FilesReadable, EntryOfType DEF NextEntry, PrepareEntry, At, EventInProgress
    <3>2. QED
      BY <2>5, <3>1 DEF PrepareEntry, At, disk, faults
  <2>6. CASE WriteChainText(t)
    <3>1. entry[t] \in Entry
      BY <2>6 DEF WriteChainText, At, EventInProgress
    <3>2. QED
      BY <2>6, <3>1 DEF WriteChainText, At, faults
  <2>7. CASE WriteChainEnd(t)
    BY <2>7 DEF WriteChainEnd, At, faults
  <2>8. CASE StoreRow(t)
    <3>1. ev[t] \in Events
      BY <2>8 DEF StoreRow, At, EventInProgress
    <3>2. QED
      BY <2>8, <3>1 DEF StoreRow, At, faults
  <2>9. CASE OrderRow(t)
    <3>1. ev[t] \in Events
      BY <2>9 DEF OrderRow, EventInProgress
    <3>2. QED
      BY <2>9, <3>1 DEF OrderRow, Return, faults
  <2>10. CASE RefuseRow(t)
    BY <2>10 DEF RefuseRow, Return, EventInProgress, faults
  <2>11. QED
    BY <1>3, <2>1, <2>2, <2>3, <2>4, <2>5, <2>6, <2>7, <2>8, <2>9, <2>10 DEF Step
<1>4. ASSUME NEW t \in Threads, Fault(t)
      PROVE  TypeOK'
  <2>1. CASE FailCheck(t)
    BY <2>1 DEF FailCheck, Failing, Return, disk
  <2>2. CASE FailWrite(t)
    BY <2>2 DEF FailWrite, Failing, Return, EventInProgress
  <2>3. CASE FailRead(t)
    <3>1. ev[t] \in Events
      BY <2>3 DEF FailRead, At, EventInProgress
    <3>2. /\ EntryOf(t, 0, ChainHead) \in Entry
          /\ EntryOf(t, Cardinality(Lines(log)), <<>>) \in Entry
      <4>1. Cardinality(Lines(log)) \in Nat /\ ChainHead \in Seq(Events)
        BY FilesReadable
      <4>2. 0 \in Nat /\ <<>> \in Seq(Events)
        OBVIOUS
      <4>3. QED
        BY ONLY <3>1, <4>1, <4>2, EntryOfType
    <3>3. PICK x \in Entry : entry' = [entry EXCEPT ![t] = x]
      BY ONLY <2>3, <3>2 DEF FailRead
    <3>4. entry' \in [Threads -> Entry \cup {NoEntry}]
      BY <3>3
    <3>5. QED
      BY <2>3, <3>4 DEF FailRead, Failing, At, disk
  <2>4. QED
    BY <1>4, <2>1, <2>2, <2>3 DEF Fault
<1>5. ASSUME NEW p \in Processes, Crash(p)
      PROVE  TypeOK'
  BY <1>5 DEF Crash, disk
<1>6. ASSUME NEW p \in Processes, Start(p)
      PROVE  TypeOK'
  BY <1>6 DEF Start, disk, faults
<1>7. QED
  BY <1>1, <1>2, <1>3, <1>4, <1>5, <1>6 DEF Next

\* Only FindAbsent takes the lock, and a thread that returns gives it back.
LEMMA LockStep ==
  ASSUME TypeOK, LockIsHeld, EventInProgress, [Next]_vars
  PROVE  LockIsHeld'
<1> USE ProcessOfType, Distinct DEF LockIsHeld, Ingesting
<1>1. CASE UNCHANGED vars
  BY <1>1 DEF vars, disk, faults
<1>2. ASSUME NEW t \in Threads, NEW result, Return(t, result), UNCHANGED up
      PROVE  LockIsHeld'
  BY <1>2 DEF Return, TypeOK
<1>3. ASSUME NEW t \in Threads, pc[t] \in Ingesting, NEW next \in Ingesting,
             pc' = [pc EXCEPT ![t] = next], UNCHANGED <<lock, up>>
      PROVE  LockIsHeld'
  BY <1>3 DEF TypeOK
<1>4. ASSUME NEW t \in Threads, NEW e \in Events \cup Malformed, Submit(t, e)
      PROVE  LockIsHeld'
  BY <1>4 DEF Submit, TypeOK, faults
<1>5. ASSUME NEW t \in Threads, Step(t)
      PROVE  LockIsHeld'
  <2>1. CASE FindPresent(t)
    BY <2>1, <1>2 DEF FindPresent
  <2>2. CASE FindAbsent(t)
    BY <2>2 DEF FindAbsent, LockFree, At, TypeOK, EventInProgress
  <2>3. CASE WriteLogText(t)
    BY <2>3, <1>3 DEF WriteLogText, At
  <2>4. CASE WriteLogEnd(t)
    BY <2>4, <1>3 DEF WriteLogEnd, At
  <2>5. CASE PrepareEntry(t)
    BY <2>5, <1>3 DEF PrepareEntry, At
  <2>6. CASE WriteChainText(t)
    BY <2>6, <1>3 DEF WriteChainText, At
  <2>7. CASE WriteChainEnd(t)
    BY <2>7, <1>3 DEF WriteChainEnd, At
  <2>8. CASE StoreRow(t)
    BY <2>8, <1>3 DEF StoreRow, At
  <2>9. CASE OrderRow(t)
    BY <2>9, <1>2 DEF OrderRow
  <2>10. CASE RefuseRow(t)
    BY <2>10, <1>2 DEF RefuseRow
  <2>11. QED
    BY <1>5, <2>1, <2>2, <2>3, <2>4, <2>5, <2>6, <2>7, <2>8, <2>9, <2>10 DEF Step
<1>6. ASSUME NEW t \in Threads, Fault(t)
      PROVE  LockIsHeld'
  <2>1. CASE FailCheck(t)
    BY <2>1, <1>2 DEF FailCheck
  <2>2. CASE FailWrite(t)
    BY <2>2, <1>2 DEF FailWrite
  <2>3. CASE FailRead(t)
    BY <2>3, <1>3 DEF FailRead, At
  <2>4. QED
    BY <1>6, <2>1, <2>2, <2>3 DEF Fault
<1>7. ASSUME NEW p \in Processes, Crash(p)
      PROVE  LockIsHeld'
  BY <1>7 DEF Crash, TypeOK
<1>8. ASSUME NEW p \in Processes, Start(p)
      PROVE  LockIsHeld'
  BY <1>8 DEF Start, TypeOK
<1>9. QED
  BY <1>1, <1>4, <1>5, <1>6, <1>7, <1>8 DEF Next

\* Nothing logged or stored is lost.
LEMMA DiskGrows ==
  ASSUME TypeOK, EventInProgress, [Next]_vars
  PROVE  Logged \subseteq Logged' /\ stored \subseteq stored' /\ Fed \subseteq Fed'
<1>1. CASE log' = log /\ stored' = stored /\ feed' = feed
  BY <1>1 DEF Logged, Fed
<1>2. CASE \E t \in Threads : WriteLogText(t)
  <2>1. PICK t \in Threads : WriteLogText(t)
    BY <1>2
  <2>2. ev[t] \in Events \cup {EOL}
    BY <2>1 DEF WriteLogText, At, EventInProgress, Ingesting
  <2>3. QED
    BY <2>1, <2>2, LogGrows DEF WriteLogText, TypeOK, Fed
<1>3. CASE \E t \in Threads : WriteLogEnd(t)
  BY <1>3, LogGrows DEF WriteLogEnd, TypeOK, Fed
<1>4. CASE \E t \in Threads : StoreRow(t)
  BY <1>4 DEF StoreRow, Logged, Fed
<1>5. CASE \E t \in Threads : OrderRow(t)
  <2>1. PICK t \in Threads : OrderRow(t)
    BY <1>5
  <2>2. ev[t] \in Events
    BY <2>1 DEF OrderRow, EventInProgress, Ingesting
  <2>3. Fed' = Fed \cup {ev[t]}
    BY <2>1, <2>2, AppendHolds DEF OrderRow, TypeOK, Fed
  <2>4. QED
    BY <2>1, <2>3 DEF OrderRow, Logged
<1>6. QED
  <2>1. ASSUME NEW t \in Threads, Step(t)
        PROVE  \/ log' = log /\ stored' = stored /\ feed' = feed
               \/ WriteLogText(t) \/ WriteLogEnd(t) \/ StoreRow(t) \/ OrderRow(t)
    BY <2>1 DEF Step, FindPresent, FindAbsent, PrepareEntry, WriteChainText,
                WriteChainEnd, RefuseRow, disk
  <2>2. ASSUME NEW t \in Threads, Fault(t)
        PROVE  log' = log /\ stored' = stored /\ feed' = feed
    BY <2>2 DEF Fault, FailCheck, FailWrite, FailRead, disk
  <2>3. ASSUME NEW t \in Threads, NEW e \in Events \cup Malformed, Submit(t, e)
        PROVE  log' = log /\ stored' = stored /\ feed' = feed
    BY <2>3 DEF Submit
  <2>4. ASSUME NEW p \in Processes, Crash(p) \/ Start(p)
        PROVE  log' = log /\ stored' = stored /\ feed' = feed
    BY <2>4 DEF Crash, Start, disk
  <2>5. CASE UNCHANGED vars
    BY <2>5, <1>1 DEF vars, disk
  <2>6. QED
    BY <1>1, <1>2, <1>3, <1>4, <1>5, <2>1, <2>2, <2>3, <2>4, <2>5 DEF Next

\* A thread comes to a stage only from the one before it.
LEMMA ProgressStep ==
  ASSUME TypeOK, LockIsHeld, StoredIsLogged, EventInProgress, [Next]_vars
  PROVE  EventInProgress'
<1> USE DEF EventInProgress, Ingesting
<1>0. Logged \subseteq Logged' /\ stored \subseteq stored'
  BY DiskGrows
<1>1. CASE UNCHANGED vars
  BY <1>1 DEF vars, disk, faults, Logged, Fed
<1>2. ASSUME NEW t \in Threads, NEW result, Return(t, result),
             UNCHANGED <<log, stored, feed, up, ev>>
      PROVE  EventInProgress'
  BY <1>2 DEF Return, TypeOK, Logged, Fed
<1>3. ASSUME NEW t \in Threads, NEW e \in Events \cup Malformed, Submit(t, e)
      PROVE  EventInProgress'
  <2>1. CASE e \in Malformed
    BY <1>3, <2>1 DEF Submit, TypeOK, Logged, Fed, faults
  <2>2. CASE e \notin Malformed
    BY <1>3, <2>2 DEF Submit, TypeOK, Logged, Fed, faults
  <2>3. QED
    BY <2>1, <2>2
<1>4. ASSUME NEW t \in Threads, Step(t)
      PROVE  EventInProgress'
  <2>1. CASE FindPresent(t)
    BY <2>1, <1>2 DEF FindPresent, disk
  <2>2. CASE FindAbsent(t)
    BY <2>2 DEF FindAbsent, At, TypeOK, Logged, Fed, disk
  <2>3. CASE WriteLogText(t)
    <3>1. ev[t] \in Events \cup {EOL} /\ ev[t] # EOL
      BY <2>3, Distinct DEF WriteLogText, At
    <3>2. ev[t] \in Logged'
      BY <2>3, <3>1, LogGrows DEF WriteLogText, TypeOK
    <3>3. QED
      BY <2>3, <3>2, <1>0 DEF WriteLogText, At, TypeOK, Fed
  <2>4. CASE WriteLogEnd(t)
    BY <2>4, <1>0 DEF WriteLogEnd, At, TypeOK, Fed
  <2>5. CASE PrepareEntry(t)
    <3>1. NextEntry(t) \in Entry
      BY <2>5, FilesReadable, EntryOfType DEF NextEntry, PrepareEntry, At
    <3>2. QED
      BY <2>5, <3>1 DEF PrepareEntry, At, TypeOK, Logged, Fed, disk
  <2>6. CASE WriteChainText(t)
    <3>1. /\ pc[t] = "chainText" /\ pc' = [pc EXCEPT ![t] = "chainEnd"]
          /\ UNCHANGED <<up, ev, entry, stored>>
          /\ Logged' = Logged /\ Fed' = Fed
      BY <2>6 DEF WriteChainText, At, Logged, Fed
    <3>2. QED
      BY <3>1 DEF TypeOK
  <2>7. CASE WriteChainEnd(t)
    BY <2>7 DEF WriteChainEnd, At, TypeOK, Logged, Fed
  <2>8. CASE StoreRow(t)
    <3>1. ev[t] \notin Fed
      BY <2>8 DEF StoreRow, StoredIsLogged
    <3>2. QED
      BY <2>8, <3>1 DEF StoreRow, At, TypeOK, Logged, Fed
  <2>9. CASE OrderRow(t)
    <3>1. Fed' = Fed \cup {ev[t]}
      BY <2>9, AppendHolds DEF OrderRow, TypeOK, Fed
    <3>2. QED
      BY <2>9, <3>1 DEF OrderRow, Return, TypeOK, Logged
  <2>10. CASE RefuseRow(t)
    BY <2>10, <1>2 DEF RefuseRow
  <2>11. QED
    BY <1>4, <2>1, <2>2, <2>3, <2>4, <2>5, <2>6, <2>7, <2>8, <2>9, <2>10 DEF Step
<1>5. ASSUME NEW t \in Threads, Fault(t)
      PROVE  EventInProgress'
  <2>1. CASE FailCheck(t)
    BY <2>1, <1>2 DEF FailCheck, disk
  <2>2. CASE FailWrite(t)
    BY <2>2, <1>2 DEF FailWrite
  <2>3. CASE FailRead(t)
    <3>1. ev[t] \in Events
      BY <2>3 DEF FailRead, At
    <3>2. Cardinality(Lines(log)) \in Nat /\ ChainHead \in Seq(Events)
      BY FilesReadable
    <3>3. /\ EntryOf(t, 0, ChainHead) \in Entry
          /\ EntryOf(t, Cardinality(Lines(log)), <<>>) \in Entry
      <4>1. 0 \in Nat /\ <<>> \in Seq(Events)
        OBVIOUS
      <4>2. QED
        BY ONLY <3>1, <3>2, <4>1, EntryOfType
    <3>4. QED
      BY <2>3, <3>3 DEF FailRead, At, TypeOK, Logged, Fed, disk
  <2>4. QED
    BY <1>5, <2>1, <2>2, <2>3 DEF Fault
<1>6. ASSUME NEW p \in Processes, Crash(p)
      PROVE  EventInProgress'
  BY <1>6 DEF Crash, TypeOK, Logged, Fed, disk
<1>7. ASSUME NEW p \in Processes, Start(p)
      PROVE  EventInProgress'
  BY <1>7 DEF Start, TypeOK, Logged, Fed, disk, faults
<1>8. QED
  BY <1>1, <1>3, <1>4, <1>5, <1>6, <1>7 DEF Next

\* A row is written after the line, and a reply is given after the row.
LEMMA StoredStep ==
  ASSUME TypeOK, StoredIsLogged, EventInProgress, [Next]_vars
  PROVE  StoredIsLogged'
<1> USE DEF StoredIsLogged
<1>0. Logged \subseteq Logged' /\ stored \subseteq stored' /\ Fed \subseteq Fed'
  BY DiskGrows
<1>1. CASE UNCHANGED vars
  BY <1>1 DEF vars, disk, faults, Logged, Fed
<1>2. ASSUME NEW t \in Threads, NEW result, Return(t, result),
             UNCHANGED <<stored, feed, ev>>,
             result \in {"accepted", "present"} => ev[t] \in stored
      PROVE  StoredIsLogged'
  BY <1>0, <1>2 DEF Return, TypeOK, Fed
<1>3. ASSUME UNCHANGED <<stored, feed, ev, reply>>
      PROVE  StoredIsLogged'
  BY <1>0, <1>3 DEF Fed
<1>4. ASSUME NEW t \in Threads, NEW e \in Events \cup Malformed, Submit(t, e)
      PROVE  StoredIsLogged'
  <2>1. \A s \in Threads : reply'[s] \in {"accepted", "present"} =>
          s # t /\ reply[s] = reply'[s] /\ ev'[s] = ev[s]
    <3>1. CASE e \in Malformed
      BY <1>4, <3>1 DEF Submit, TypeOK
    <3>2. CASE e \notin Malformed
      BY <1>4, <3>2 DEF Submit, TypeOK
    <3>3. QED
      BY <3>1, <3>2
  <2>2. QED
    BY <1>0, <1>4, <2>1 DEF Submit, Fed
<1>5. ASSUME NEW t \in Threads, Step(t)
      PROVE  StoredIsLogged'
  <2>1. CASE FindPresent(t)
    BY <2>1, <1>2 DEF FindPresent, disk
  <2>2. CASE FindAbsent(t) \/ PrepareEntry(t)
    BY <2>2, <1>3 DEF FindAbsent, PrepareEntry, disk
  <2>3. CASE WriteLogText(t) \/ WriteLogEnd(t)
    BY <2>3, <1>3 DEF WriteLogText, WriteLogEnd
  <2>4. CASE WriteChainText(t) \/ WriteChainEnd(t)
    BY <2>4, <1>3 DEF WriteChainText, WriteChainEnd
  <2>5. CASE StoreRow(t)
    <3>1. ev[t] \in Logged
      BY <2>5 DEF StoreRow, At, EventInProgress, Ingesting
    <3>2. QED
      BY <1>0, <2>5, <3>1 DEF StoreRow, Fed
  <2>6. CASE OrderRow(t)
    <3>1. ev[t] \in Events /\ ev[t] \in stored
      BY <2>6 DEF OrderRow, EventInProgress
    <3>2. Fed' = Fed \cup {ev[t]}
      BY <2>6, <3>1, AppendHolds DEF OrderRow, TypeOK, Fed
    <3>3. QED
      BY <1>0, <2>6, <3>1, <3>2 DEF OrderRow, Return, TypeOK
  <2>7. CASE RefuseRow(t)
    BY <2>7, <1>2 DEF RefuseRow
  <2>8. QED
    BY <1>5, <2>1, <2>2, <2>3, <2>4, <2>5, <2>6, <2>7 DEF Step
<1>6. ASSUME NEW t \in Threads, Fault(t)
      PROVE  StoredIsLogged'
  BY <1>6, <1>2, <1>3 DEF Fault, FailCheck, FailWrite, FailRead, disk
<1>7. ASSUME NEW p \in Processes, Crash(p)
      PROVE  StoredIsLogged'
  BY <1>0, <1>7 DEF Crash, TypeOK, Fed, disk
<1>8. ASSUME NEW p \in Processes, Start(p)
      PROVE  StoredIsLogged'
  BY <1>8, <1>3 DEF Start, disk
<1>9. QED
  BY <1>1, <1>4, <1>5, <1>6, <1>7, <1>8 DEF Next

\* Only OrderRow feeds an event, and it feeds one that has not been fed.
LEMMA FedStep ==
  ASSUME TypeOK, FedOnce, EventInProgress, [Next]_vars
  PROVE  FedOnce'
<1>1. CASE feed' = feed
  BY <1>1 DEF FedOnce
<1>2. ASSUME NEW t \in Threads, OrderRow(t)
      PROVE  FedOnce'
  <2>1. ev[t] \in Events /\ ev[t] \notin Fed
    BY <1>2 DEF OrderRow, EventInProgress
  <2>2. /\ Len(feed') = Len(feed) + 1
        /\ \A i \in 1 .. Len(feed) : feed'[i] = feed[i]
        /\ feed'[Len(feed) + 1] = ev[t]
    BY <1>2, <2>1, AppendHolds DEF OrderRow, TypeOK
  <2>3. Len(feed) \in Nat
    BY DEF TypeOK
  <2>4. SUFFICES ASSUME NEW i \in 1 .. Len(feed) + 1, NEW j \in 1 .. Len(feed) + 1, i # j
                 PROVE  feed'[i] # feed'[j]
    BY <2>2 DEF FedOnce
  <2>5. CASE i \in 1 .. Len(feed) /\ j \in 1 .. Len(feed)
    BY <2>2, <2>4, <2>5 DEF FedOnce
  <2>6. CASE i = Len(feed) + 1 \/ j = Len(feed) + 1
    <3>1. \A k \in 1 .. Len(feed) : feed[k] # ev[t]
      BY <2>1 DEF Fed
    <3>2. QED
      BY <2>2, <2>3, <2>4, <2>6, <3>1
  <2>7. QED
    BY <2>3, <2>5, <2>6
<1>3. QED
  <2>1. ASSUME NEW t \in Threads, Step(t)
        PROVE  feed' = feed \/ OrderRow(t)
    BY <2>1 DEF Step, FindPresent, FindAbsent, WriteLogText, WriteLogEnd, PrepareEntry,
                WriteChainText, WriteChainEnd, StoreRow, RefuseRow, disk
  <2>2. ASSUME NEW t \in Threads, Fault(t)
        PROVE  feed' = feed
    BY <2>2 DEF Fault, FailCheck, FailWrite, FailRead, disk
  <2>3. ASSUME NEW t \in Threads, NEW e \in Events \cup Malformed, Submit(t, e)
        PROVE  feed' = feed
    BY <2>3 DEF Submit
  <2>4. ASSUME NEW p \in Processes, Crash(p) \/ Start(p)
        PROVE  feed' = feed
    BY <2>4 DEF Crash, Start, disk
  <2>5. QED
    BY <1>1, <1>2, <2>1, <2>2, <2>3, <2>4 DEF Next, vars, disk

LEMMA InvInit == Init => IngestInv
<1> SUFFICES ASSUME Init PROVE IngestInv
  OBVIOUS
<1>1. TypeOK
  BY DEF Init, TypeOK, Replies, Ingesting
<1>2. LockIsHeld /\ EventInProgress
  BY ProcessOfType, Distinct DEF Init, LockIsHeld, EventInProgress, Ingesting
<1>3. StoredIsLogged /\ FedOnce
  BY DEF Init, StoredIsLogged, FedOnce, Fed, Logged
<1>4. QED
  BY <1>1, <1>2, <1>3 DEF IngestInv

LEMMA InvStep == IngestInv /\ [Next]_vars => IngestInv'
BY TypeStep, LockStep, ProgressStep, StoredStep, FedStep DEF IngestInv

\* The inductive invariant of ingestion, for any number of processes.
THEOREM InvariantHolds == Spec => []IngestInv
<1>1. QED
  BY InvInit, InvStep, PTL DEF Spec

\* What the database holds, feeds or reports is in the event log, whatever crashes
\* or fails.
THEOREM LogIsComplete == Spec => []StoredIsLogged
<1>1. IngestInv => StoredIsLogged
  BY DEF IngestInv
<1>2. QED
  BY <1>1, InvariantHolds, PTL

\* No event is fed twice, however many processes ingest it.
THEOREM EventsAreFedOnce == Spec => []FedOnce
<1>1. IngestInv => FedOnce
  BY DEF IngestInv
<1>2. QED
  BY <1>1, InvariantHolds, PTL

-----------------------------------------------------------------------------
(* One process *)

LEMMA OneIngests ==
  ASSUME SingleServer, LockIsHeld, NEW s \in Threads, NEW t \in Threads,
         pc[s] \in Ingesting, pc[t] \in Ingesting
  PROVE  s = t
BY DEF SingleServer, LockIsHeld

\* A text that is not fed leaves the order of the feed as it is.
LEMMA LogKeepsOrder ==
  ASSUME TypeOK, FeedFollowsLog, feed' = feed,
         NEW x \in Events \cup {EOL}, log' = Append(log, x), x \notin Fed
  PROVE  FeedFollowsLog'
<1>1. /\ Len(log') = Len(log) + 1 /\ log'[Len(log) + 1] = x
      /\ \A m \in 1 .. Len(log) : log'[m] = log[m]
      /\ Len(log) \in Nat
  BY AppendHolds DEF TypeOK
<1>2. SUFFICES ASSUME NEW i \in 1 .. Len(feed), NEW j \in 1 .. Len(feed), i < j
               PROVE  \E n \in 1 .. Len(log') :
                        /\ log'[n] = feed[j]
                        /\ \A m \in n .. Len(log') : log'[m] # feed[i]
  BY DEF FeedFollowsLog
<1>3. PICK n \in 1 .. Len(log) :
        log[n] = feed[j] /\ \A m \in n .. Len(log) : log[m] # feed[i]
  BY <1>2 DEF FeedFollowsLog
<1>4. x # feed[i]
  BY DEF Fed
<1>5. ASSUME NEW m \in n .. Len(log')
      PROVE  log'[m] # feed[i]
  <2>1. CASE m \in n .. Len(log)
    BY <1>1, <1>3, <2>1
  <2>2. CASE m = Len(log) + 1
    BY <1>1, <1>4, <2>2
  <2>3. QED
    BY <1>1, <1>3, <2>1, <2>2
<1>6. QED
  BY <1>1, <1>3, <1>5

\* The event that is fed comes last.
LEMMA OrderKeepsOrder ==
  ASSUME TypeOK, StoredIsLogged, EventInProgress, FeedFollowsLog, log' = log,
         NEW t \in Threads, pc[t] = "order", LastLogged(t),
         feed' = Append(feed, ev[t])
  PROVE  FeedFollowsLog'
<1>1. ev[t] \in Events /\ ev[t] \notin Fed
  BY DEF EventInProgress
<1>2. /\ Len(feed') = Len(feed) + 1 /\ feed'[Len(feed) + 1] = ev[t]
      /\ \A i \in 1 .. Len(feed) : feed'[i] = feed[i]
      /\ Len(feed) \in Nat
  BY <1>1, AppendHolds DEF TypeOK
<1>3. SUFFICES ASSUME NEW i \in 1 .. Len(feed'), NEW j \in 1 .. Len(feed'), i < j
               PROVE  \E n \in 1 .. Len(log') :
                        /\ log'[n] = feed'[j]
                        /\ \A m \in n .. Len(log') : log'[m] # feed'[i]
  BY DEF FeedFollowsLog
<1>4. CASE j \in 1 .. Len(feed)
  <2>1. i \in 1 .. Len(feed)
    BY <1>2, <1>3, <1>4
  <2>2. feed'[i] = feed[i] /\ feed'[j] = feed[j]
    BY <1>2, <1>4, <2>1
  <2>3. QED
    BY <1>3, <1>4, <2>1, <2>2 DEF FeedFollowsLog
<1>5. CASE j = Len(feed) + 1
  <2>1. i \in 1 .. Len(feed)
    BY <1>2, <1>3, <1>5
  <2>2. feed'[i] \in Fed /\ feed'[i] = feed[i]
    BY <1>2, <2>1 DEF Fed
  <2>3. feed'[i] \in stored \ {ev[t]}
    BY <1>1, <2>2 DEF StoredIsLogged
  <2>4. PICK n \in 1 .. Len(log) :
          log[n] = ev[t] /\ \A m \in n .. Len(log) : log[m] \notin stored \ {ev[t]}
    BY DEF LastLogged
  <2>5. QED
    BY <1>2, <1>5, <2>3, <2>4
<1>6. QED
  BY <1>2, <1>4, <1>5

\* A step that writes neither the log nor a table and starts no ingestion.
LEMMA QuietStep ==
  ASSUME SingleServerInv, UNCHANGED <<log, stored, feed>>,
         \A t \in Threads : pc'[t] \in Ingesting =>
           /\ ev'[t] = ev[t] /\ pc[t] \in Ingesting
           /\ pc[t] \in {"log", "order"} => pc'[t] = pc[t]
  PROVE  SingleServerInv'
<1>1. FeedFollowsLog'
  BY DEF SingleServerInv, FeedFollowsLog
<1>2. ASSUME NEW t \in Threads
      PROVE  /\ pc'[t] \in Ingesting \ {"order"} => ev'[t] \notin stored'
             /\ pc'[t] \in Ingesting \ {"log"} => LastLogged(t)'
  <2>1. CASE pc'[t] \in Ingesting
    <3>1. /\ pc'[t] # "order" => ev[t] \notin stored
          /\ pc'[t] # "log" => LastLogged(t)
      BY <2>1 DEF SingleServerInv, Ingesting
    <3>2. QED
      BY <2>1, <3>1 DEF LastLogged
  <2>2. CASE pc'[t] \notin Ingesting
    BY <2>2
  <2>3. QED
    BY <2>1, <2>2
<1>3. QED
  BY <1>1, <1>2 DEF SingleServerInv

\* While t ingests, no other thread does: what is said of all is said of t.
LEMMA OnlyIngester ==
  ASSUME SingleServer, LockIsHeld, NEW t \in Threads, pc[t] \in Ingesting,
         NEW next, pc' = [pc EXCEPT ![t] = next], TypeOK, UNCHANGED ev,
         FeedFollowsLog',
         next \in Ingesting \ {"order"} => ev[t] \notin stored',
         next \in Ingesting \ {"log"} => LastLogged(t)'
  PROVE  SingleServerInv'
<1>1. ASSUME NEW s \in Threads
      PROVE  /\ pc'[s] \in Ingesting \ {"order"} => ev'[s] \notin stored'
             /\ pc'[s] \in Ingesting \ {"log"} => LastLogged(s)'
  <2>1. CASE s = t
    BY <2>1 DEF TypeOK
  <2>2. CASE s # t
    BY <2>2, OneIngests DEF TypeOK
  <2>3. QED
    BY <2>1, <2>2
<1>2. QED
  BY <1>1 DEF SingleServerInv

LEMMA SingleServerStep ==
  ASSUME SingleServer, IngestInv, SingleServerInv, [Next]_vars
  PROVE  SingleServerInv'
<1>0. TypeOK /\ LockIsHeld /\ StoredIsLogged /\ EventInProgress
  BY DEF IngestInv
<1>1. CASE UNCHANGED vars
  BY <1>1, QuietStep DEF vars, disk
<1>2. ASSUME NEW t \in Threads, NEW e \in Events \cup Malformed, Submit(t, e)
      PROVE  SingleServerInv'
  <2>1. \A s \in Threads : pc'[s] \in Ingesting => ev'[s] = ev[s] /\ pc'[s] = pc[s]
    <3>1. CASE e \in Malformed
      BY <1>0, <1>2, <3>1 DEF Submit, TypeOK, Ingesting
    <3>2. CASE e \notin Malformed
      BY <1>0, <1>2, <3>2 DEF Submit, TypeOK, Ingesting
    <3>3. QED
      BY <3>1, <3>2
  <2>2. UNCHANGED <<log, stored, feed>>
    BY <1>2 DEF Submit
  <2>3. QED
    BY <2>1, <2>2, QuietStep
<1>3. ASSUME NEW t \in Threads, NEW result, Return(t, result),
             UNCHANGED <<log, stored, feed, ev>>
      PROVE  SingleServerInv'
  <2>1. \A s \in Threads : pc'[s] \in Ingesting => pc'[s] = pc[s]
    BY <1>0, <1>3 DEF Return, TypeOK, Ingesting
  <2>2. QED
    BY <1>3, <2>1, QuietStep
<1>4. ASSUME NEW t \in Threads, NEW here \in Ingesting \ {"log", "order"},
             NEW next \in Ingesting \ {"log", "order"}, At(t, here, next),
             UNCHANGED <<log, stored, feed, ev>>
      PROVE  SingleServerInv'
  <2>1. \A s \in Threads : pc'[s] \in Ingesting =>
          /\ pc[s] \in Ingesting
          /\ pc[s] \in {"log", "order"} => pc'[s] = pc[s]
    BY <1>0, <1>4 DEF At, TypeOK
  <2>2. QED
    BY <1>4, <2>1, QuietStep
<1>5. ASSUME NEW t \in Threads, Step(t)
      PROVE  SingleServerInv'
  <2>1. CASE FindPresent(t)
    BY <2>1, <1>3 DEF FindPresent, disk
  <2>2. CASE FindAbsent(t)
    <3>1. FeedFollowsLog'
      BY <2>2 DEF FindAbsent, disk, SingleServerInv, FeedFollowsLog
    <3>2. ASSUME NEW s \in Threads PROVE pc[s] \notin Ingesting
      <4>1. lock[ProcessOf[s]] = None
        BY <2>2 DEF FindAbsent, LockFree, SingleServer
      <4>2. None # s
        BY Distinct
      <4>3. QED
        BY <1>0, <4>1, <4>2 DEF LockIsHeld
    <3>3. ev[t] \notin stored /\ stored' = stored /\ ev' = ev
      BY <2>2 DEF FindAbsent, disk
    <3>4. \A s \in Threads : pc'[s] \in Ingesting => s = t /\ pc'[s] = "log"
      BY <1>0, <2>2, <3>2 DEF FindAbsent, At, TypeOK
    <3>5. QED
      BY <3>1, <3>3, <3>4 DEF SingleServerInv
  <2>3. CASE WriteLogText(t)
    <3>1. /\ pc[t] \in Ingesting /\ ev[t] \in Events /\ ev[t] \notin stored
          /\ pc' = [pc EXCEPT ![t] = "logEnd"]
          /\ log' = Append(log, ev[t]) /\ UNCHANGED <<stored, feed, ev>>
      BY <1>0, <2>3 DEF WriteLogText, At, EventInProgress, SingleServerInv, Ingesting
    <3>2. FeedFollowsLog'
      <4>1. ev[t] \notin Fed
        BY <1>0, <3>1 DEF StoredIsLogged
      <4>2. QED
        BY <1>0, <3>1, <4>1, LogKeepsOrder DEF SingleServerInv
    <3>3. LastLogged(t)'
      <4>1. Len(log') = Len(log) + 1 /\ log'[Len(log) + 1] = ev[t] /\ Len(log) \in Nat
        BY <1>0, <3>1, AppendHolds DEF TypeOK
      <4>2. QED
        BY <3>1, <4>1 DEF LastLogged
    <3>4. QED
      BY <1>0, <3>1, <3>2, <3>3, OnlyIngester
  <2>4. CASE WriteLogEnd(t)
    <3>1. /\ pc[t] \in Ingesting /\ ev[t] \notin stored /\ LastLogged(t)
          /\ log' = Append(log, EOL) /\ UNCHANGED <<stored, feed, ev>>
      BY <2>4 DEF WriteLogEnd, At, SingleServerInv, Ingesting
    <3>2. PICK next \in Ingesting : pc' = [pc EXCEPT ![t] = next]
      BY <2>4 DEF WriteLogEnd, At, Ingesting
    <3>3. FeedFollowsLog'
      <4>1. EOL \notin Fed
        BY <1>0, Distinct DEF StoredIsLogged, TypeOK
      <4>2. QED
        BY <1>0, <3>1, <4>1, LogKeepsOrder DEF SingleServerInv
    <3>4. LastLogged(t)'
      <4>1. /\ Len(log') = Len(log) + 1 /\ log'[Len(log) + 1] = EOL
            /\ \A m \in 1 .. Len(log) : log'[m] = log[m]
            /\ Len(log) \in Nat
        BY <1>0, <3>1, AppendHolds DEF TypeOK
      <4>2. PICK n \in 1 .. Len(log) :
              log[n] = ev[t] /\ \A m \in n .. Len(log) : log[m] \notin stored \ {ev[t]}
        BY <3>1 DEF LastLogged
      <4>3. EOL \notin stored
        BY <1>0, Distinct DEF TypeOK
      <4>4. ASSUME NEW m \in n .. Len(log')
            PROVE  log'[m] \notin stored \ {ev[t]}
        BY <4>1, <4>2, <4>3
      <4>5. QED
        BY <3>1, <4>1, <4>2, <4>4 DEF LastLogged
    <3>5. QED
      BY <1>0, <3>1, <3>2, <3>3, <3>4, OnlyIngester
  <2>5. CASE PrepareEntry(t)
    BY <2>5, <1>4 DEF PrepareEntry, disk, Ingesting
  <2>6. CASE WriteChainText(t)
    BY <2>6, <1>4 DEF WriteChainText, Ingesting
  <2>7. CASE WriteChainEnd(t)
    BY <2>7, <1>4 DEF WriteChainEnd, Ingesting
  <2>8. CASE StoreRow(t)
    <3>1. /\ pc[t] \in Ingesting /\ LastLogged(t) /\ pc' = [pc EXCEPT ![t] = "order"]
          /\ stored' = stored \cup {ev[t]} /\ UNCHANGED <<log, feed, ev>>
      BY <2>8 DEF StoreRow, At, SingleServerInv, Ingesting
    <3>2. FeedFollowsLog' /\ LastLogged(t)'
      BY <3>1 DEF SingleServerInv, FeedFollowsLog, LastLogged
    <3>3. QED
      BY <1>0, <3>1, <3>2, OnlyIngester
  <2>9. CASE OrderRow(t)
    <3>1. /\ pc[t] = "order" /\ pc[t] \in Ingesting /\ LastLogged(t)
          /\ pc' = [pc EXCEPT ![t] = "idle"]
          /\ feed' = Append(feed, ev[t]) /\ UNCHANGED <<log, ev>>
      BY <2>9 DEF OrderRow, Return, SingleServerInv, Ingesting
    <3>2. FeedFollowsLog'
      BY <1>0, <3>1, OrderKeepsOrder DEF SingleServerInv
    <3>3. "idle" \notin Ingesting
      BY DEF Ingesting
    <3>4. QED
      BY <1>0, <3>1, <3>2, <3>3, OnlyIngester
  <2>10. CASE RefuseRow(t)
    BY <2>10, <1>3 DEF RefuseRow
  <2>11. QED
    BY <1>5, <2>1, <2>2, <2>3, <2>4, <2>5, <2>6, <2>7, <2>8, <2>9, <2>10 DEF Step
<1>6. ASSUME NEW t \in Threads, Fault(t)
      PROVE  SingleServerInv'
  <2>1. CASE FailCheck(t)
    BY <2>1, <1>3 DEF FailCheck, disk
  <2>2. CASE FailWrite(t)
    BY <2>2, <1>3 DEF FailWrite
  <2>3. CASE FailRead(t)
    BY <2>3, <1>4 DEF FailRead, disk, Ingesting
  <2>4. QED
    BY <1>6, <2>1, <2>2, <2>3 DEF Fault
<1>7. ASSUME NEW p \in Processes, Crash(p) \/ Start(p)
      PROVE  SingleServerInv'
  <2>1. \A s \in Threads : pc'[s] \in Ingesting => ev'[s] = ev[s] /\ pc'[s] = pc[s]
    <3>1. CASE Crash(p)
      BY <1>0, <3>1 DEF Crash, TypeOK, Ingesting
    <3>2. CASE Start(p)
      BY <3>2 DEF Start
    <3>3. QED
      BY <1>7, <3>1, <3>2
  <2>2. UNCHANGED <<log, stored, feed>>
    BY <1>7 DEF Crash, Start, disk
  <2>3. QED
    BY <2>1, <2>2, QuietStep
<1>8. QED
  BY <1>1, <1>2, <1>5, <1>6, <1>7 DEF Next

\* When one process serves all requests, its lock keeps the event being ingested
\* out of the tables and last in the log.
THEOREM SingleServerInvariantHolds == SingleServer => (Spec => []SingleServerInv)
<1> SUFFICES ASSUME SingleServer PROVE Spec => []SingleServerInv
  OBVIOUS
<1>1. Init => IngestInv /\ SingleServerInv
  <2>1. Init => SingleServerInv
    BY DEF Init, SingleServerInv, FeedFollowsLog, Ingesting
  <2>2. QED
    BY <2>1, InvInit
<1>2. IngestInv /\ SingleServerInv /\ [Next]_vars => (IngestInv /\ SingleServerInv)'
  BY InvStep, SingleServerStep
<1>3. QED
  BY <1>1, <1>2, PTL DEF Spec

\* The feed of a single process has the order of its log.
THEOREM FeedHasLogOrder == SingleServer => (Spec => []FeedFollowsLog)
<1>1. SingleServerInv => FeedFollowsLog
  BY DEF SingleServerInv
<1>2. QED
  BY <1>1, SingleServerInvariantHolds, PTL

\* A single process rejects a valid event only when a read or a write failed.
THEOREM RejectionsAreFailures == SingleServer => (Spec => RejectedOnlyByFailure)
<1> SUFFICES ASSUME SingleServer PROVE Spec => RejectedOnlyByFailure
  OBVIOUS
<1>1. ASSUME IngestInv, SingleServerInv, Next, NEW t \in Threads,
             pc[t] # "idle", pc'[t] = "idle", reply'[t] = "rejected"
      PROVE  failures' > failures
  <2>1. TypeOK
    BY <1>1 DEF IngestInv
  <2>2. ASSUME NEW s \in Threads, NEW e \in Events \cup Malformed, Submit(s, e)
        PROVE  FALSE
    <3>1. s # t
      BY <1>1, <2>2 DEF Submit
    <3>2. CASE e \in Malformed
      BY <1>1, <2>2, <3>2 DEF Submit
    <3>3. CASE e \notin Malformed
      BY <1>1, <2>1, <2>2, <3>1, <3>3 DEF Submit, TypeOK
    <3>4. QED
      BY <3>2, <3>3
  <2>3. ASSUME NEW s \in Threads, NEW result, Return(s, result)
        PROVE  s = t /\ result = "rejected"
    BY <1>1, <2>1, <2>3 DEF Return, TypeOK
  <2>4. ASSUME NEW s \in Threads, NEW here, NEW next \in Ingesting, At(s, here, next)
        PROVE  FALSE
    BY <1>1, <2>1, <2>4 DEF At, TypeOK, Ingesting
  <2>5. ASSUME NEW s \in Threads, Step(s)
        PROVE  FALSE
    <3>1. CASE FindPresent(s) \/ OrderRow(s)
      BY <2>3, <3>1 DEF FindPresent, OrderRow
    <3>2. CASE FindAbsent(s) \/ WriteLogText(s) \/ WriteLogEnd(s) \/ PrepareEntry(s)
      BY <2>4, <3>2 DEF FindAbsent, WriteLogText, WriteLogEnd, PrepareEntry, Ingesting
    <3>3. CASE WriteChainText(s) \/ WriteChainEnd(s) \/ StoreRow(s)
      BY <2>4, <3>3 DEF WriteChainText, WriteChainEnd, StoreRow, Ingesting
    <3>4. CASE RefuseRow(s)
      BY <1>1, <3>4 DEF RefuseRow, SingleServerInv, Ingesting
    <3>5. QED
      BY <2>5, <3>1, <3>2, <3>3, <3>4 DEF Step
  <2>6. ASSUME NEW s \in Threads, Fault(s)
        PROVE  failures' > failures
    BY <2>1, <2>6 DEF Fault, FailCheck, FailWrite, FailRead, Failing, TypeOK
  <2>7. ASSUME NEW p \in Processes, Crash(p) \/ Start(p)
        PROVE  FALSE
    <3>1. CASE Crash(p)
      BY <1>1, <2>1, <3>1 DEF Crash, TypeOK
    <3>2. CASE Start(p)
      BY <1>1, <3>2 DEF Start
    <3>3. QED
      BY <2>7, <3>1, <3>2
  <2>8. QED
    BY <1>1, <2>2, <2>5, <2>6, <2>7 DEF Next
<1>2. IngestInv /\ SingleServerInv /\ [Next]_vars =>
        [\A t \in Threads : pc[t] # "idle" /\ pc'[t] = "idle" /\ reply'[t] = "rejected"
            => failures' > failures]_vars
  BY <1>1
<1>3. QED
  BY <1>2, InvariantHolds, SingleServerInvariantHolds, PTL DEF Spec, RejectedOnlyByFailure
-----------------------------------------------------------------------------
(* The chain and the lines of the log *)

\* Whether a line can be written: the last one has its end.
Ended(file) == file # <<>> => file[Len(file)] = EOL

\* A file where no text lost its end.
Alternates(file) ==
  \A i \in 1 .. Len(file) : file[i] = EOL <=> i > 1 /\ file[i - 1] # EOL

\* The line is written and its entry is not.
Unchained == {"logEnd", "chain", "chainText"}

\* While nothing crashed or failed, the chain has an entry of every line but that of
\* the thread that is about to write it.
ChainFollows ==
  /\ Alternates(log) /\ (Ended(log) <=> \A t \in Threads : pc[t] # "logEnd")
  /\ Alternates(chain) /\ (Ended(chain) <=> \A t \in Threads : pc[t] # "chainEnd")
  /\ Cardinality(Texts(log)) = Cardinality(Texts(chain))
                                 + IF \E t \in Threads : pc[t] \in Unchained THEN 1 ELSE 0
  /\ \A i \in Texts(chain) : EntryVerifies(chain[i], Number(chain, i))
  /\ \A t \in Threads : pc[t] \in Unchained =>
       \A n \in Texts(log) : Number(log, n) = Cardinality(Texts(log)) => log[n] = ev[t]
  /\ \A t \in Threads : pc[t] = "chainText" =>
       EntryVerifies(entry[t], Cardinality(Texts(log)))

ChainInv == ChainEnabled /\ crashes = 0 /\ failures = 0 => ChainFollows

\* A line is paid for by a stored event, a crash, a failure or the thread that has
\* yet to store its event.
LinesInv ==
  /\ IsFiniteSet(stored)
  /\ Cardinality(Texts(log)) <=
       Cardinality(stored) + crashes + failures
         + IF \E t \in Threads : pc[t] \in Ingesting \ {"log", "order"} THEN 1 ELSE 0

\* Texts are finitely many, and numbered from 1 to their number.
LEMMA TextsNumbered ==
  ASSUME NEW S, NEW s \in Seq(S)
  PROVE  /\ IsFiniteSet(Texts(s)) /\ Cardinality(Texts(s)) \in Nat
         /\ \A i \in Texts(s) : Number(s, i) \in 1 .. Cardinality(Texts(s))
<1>1. IsFiniteSet(Texts(s))
  <2>1. IsFiniteSet(1 .. Len(s)) /\ Texts(s) \subseteq 1 .. Len(s)
    BY FS_Interval DEF Texts
  <2>. QED BY <2>1, FS_Subset
<1>2. ASSUME NEW i \in Texts(s) PROVE Number(s, i) \in 1 .. Cardinality(Texts(s))
  <2>1. PICK T : T = {j \in Texts(s) : j <= i}
    OBVIOUS
  <2>2. T \subseteq Texts(s) /\ {i} \subseteq T
    BY <1>2, <2>1 DEF Texts
  <2>3. /\ IsFiniteSet(T) /\ Cardinality(T) <= Cardinality(Texts(s))
        /\ Cardinality({i}) <= Cardinality(T)
    BY <1>1, <2>2, FS_Subset
  <2>4. Cardinality({i}) = 1
    BY FS_Singleton
  <2>. QED BY <1>1, <2>1, <2>3, <2>4, FS_CardinalityType DEF Number
<1>. QED BY <1>1, <1>2, FS_CardinalityType

\* What is appended changes the number of no text before it, and a text gets the next.
LEMMA TextsGrow ==
  ASSUME NEW S, NEW s \in Seq(S), NEW x \in S
  PROVE  /\ \A i \in Texts(s) : Number(Append(s, x), i) = Number(s, i)
         /\ x = EOL => Texts(Append(s, x)) = Texts(s)
         /\ x # EOL => /\ Texts(Append(s, x)) = Texts(s) \cup {Len(s) + 1}
                       /\ Number(Append(s, x), Len(s) + 1) = Cardinality(Texts(s)) + 1
                       /\ Cardinality(Texts(Append(s, x))) = Cardinality(Texts(s)) + 1
<1>1. PICK r : r = Append(s, x)
  OBVIOUS
<1>2. /\ Len(s) \in Nat /\ Len(r) = Len(s) + 1 /\ r[Len(s) + 1] = x
      /\ \A i \in 1 .. Len(s) : r[i] = s[i]
  BY <1>1, AppendHolds
<1>3. x = EOL => Texts(r) = Texts(s)
  BY <1>2 DEF Texts
<1>4. x # EOL => Texts(r) = Texts(s) \cup {Len(s) + 1}
  BY <1>2 DEF Texts
<1>5. ASSUME NEW i \in Texts(s) PROVE Number(r, i) = Number(s, i)
  <2>1. i \in 1 .. Len(s)
    BY <1>5 DEF Texts
  <2>2. {j \in Texts(r) : j <= i} = {j \in Texts(s) : j <= i}
    BY <1>2, <1>3, <1>4, <2>1
  <2>. QED BY <2>2 DEF Number
<1>6. ASSUME x # EOL
      PROVE  /\ Number(r, Len(s) + 1) = Cardinality(Texts(s)) + 1
             /\ Cardinality(Texts(r)) = Cardinality(Texts(s)) + 1
  <2>1. Len(s) + 1 \notin Texts(s) /\ \A j \in Texts(s) : j <= Len(s) + 1
    BY <1>2 DEF Texts
  <2>2. {j \in Texts(r) : j <= Len(s) + 1} = Texts(r)
    BY <1>2, <1>4, <1>6, <2>1
  <2>3. Cardinality(Texts(r)) = Cardinality(Texts(s)) + 1
    BY <1>4, <1>6, <2>1, TextsNumbered, FS_AddElement
  <2>. QED BY <2>2, <2>3 DEF Number
<1>. QED BY <1>1, <1>3, <1>4, <1>5, <1>6

\* A text begins a line that is ended, and an end of line follows a text.
LEMMA AlternatesGrow ==
  ASSUME NEW S, NEW s \in Seq(S), NEW x \in S, Alternates(s), Ended(s) <=> x # EOL
  PROVE  Alternates(Append(s, x)) /\ (Ended(Append(s, x)) <=> x = EOL)
<1>1. PICK r : r = Append(s, x)
  OBVIOUS
<1>2. /\ Len(s) \in Nat /\ Len(r) = Len(s) + 1 /\ r[Len(s) + 1] = x /\ r # <<>>
      /\ \A i \in 1 .. Len(s) : r[i] = s[i]
      /\ s = <<>> <=> Len(s) = 0
  BY <1>1, AppendHolds
<1>3. Ended(r) <=> x = EOL
  BY <1>2 DEF Ended
<1>4. ASSUME NEW i \in 1 .. Len(r)
      PROVE  r[i] = EOL <=> i > 1 /\ r[i - 1] # EOL
  <2>1. CASE i \in 1 .. Len(s)
    BY <1>2, <2>1 DEF Alternates
  <2>2. CASE i = Len(s) + 1
    BY <1>2, <2>2 DEF Ended
  <2>. QED BY <1>2, <2>1, <2>2
<1>. QED BY <1>1, <1>3, <1>4 DEF Alternates

\* The lines and the last text of a file whose texts have their ends.
LEMMA AlternatingLines ==
  ASSUME NEW S, NEW s \in Seq(S), Alternates(s)
  PROVE  /\ WellFormed(s) /\ Lines(s) = Texts(s)
         /\ Ended(s) => \/ LastText(s) = {} /\ Texts(s) = {}
                        \/ \E n \in Texts(s) : /\ LastText(s) = {n}
                                               /\ Number(s, n) = Cardinality(Texts(s))
<1>1. WellFormed(s) /\ Lines(s) = Texts(s)
  BY DEF Alternates, WellFormed, Lines, Texts
<1>2. CASE s = <<>>
  BY <1>1, <1>2 DEF LastText, Texts
<1>3. ASSUME s # <<>>, Ended(s)
      PROVE  \E n \in Texts(s) : /\ LastText(s) = {n}
                                 /\ Number(s, n) = Cardinality(Texts(s))
  <2>1. Len(s) \in Nat /\ Len(s) > 0
    BY <1>3
  <2>2. /\ s[Len(s)] = EOL /\ Len(s) > 1 /\ s[Len(s) - 1] # EOL
    BY <1>3, <2>1 DEF Ended, Alternates
  <2>3. PICK n \in Nat : n = Len(s) - 1
    BY <2>1, <2>2
  <2>4. n \in Texts(s) /\ \A j \in Texts(s) : j <= n
    BY <2>1, <2>2, <2>3 DEF Texts
  <2>5. LastText(s) = {n}
    BY <2>1, <2>2, <2>3, <2>4 DEF LastText, Texts
  <2>6. {j \in Texts(s) : j <= n} = Texts(s)
    BY <2>4
  <2>. QED BY <2>4, <2>5, <2>6 DEF Number
<1>. QED BY <1>1, <1>2, <1>3

-----------------------------------------------------------------------------
(* The chain follows the log *)

\* An entry still verifies when the log grows.
LEMMA EntryStaysVerified ==
  ASSUME log \in Seq(Events \cup {EOL}), NEW x \in Events \cup {EOL},
         log' = Append(log, x), NEW e, NEW k \in Nat,
         k <= Cardinality(Texts(log)), EntryVerifies(e, k)
  PROVE  EntryVerifies(e, k)'
<1>1. /\ \A n \in Texts(log) : Number(log', n) = Number(log, n)
      /\ Cardinality(Texts(log)) \in Nat
      /\ Len(log) \in Nat
  BY TextsGrow, TextsNumbered
<1>2. ASSUME NEW n \in Texts(log')
      PROVE  \/ n \in Texts(log) /\ log'[n] = log[n]
             \/ Number(log', n) = Cardinality(Texts(log)) + 1
  <2>1. \/ Texts(log') = Texts(log)
        \/ /\ Texts(log') = Texts(log) \cup {Len(log) + 1}
           /\ Number(log', Len(log) + 1) = Cardinality(Texts(log)) + 1
    BY TextsGrow
  <2>2. n \in Texts(log) => log'[n] = log[n]
    BY AppendHolds DEF Texts
  <2>. QED BY <2>1, <2>2
<1>3. ASSUME NEW n \in Texts(log')
      PROVE  /\ Number(log', n) = k => e.event = log'[n]
             /\ Number(log', n) <= k => e.covers[Number(log', n)] = log'[n]
  <2>1. CASE n \in Texts(log) /\ log'[n] = log[n]
    BY <1>1, <2>1 DEF EntryVerifies
  <2>2. CASE Number(log', n) = Cardinality(Texts(log)) + 1
    BY <1>1, <2>2
  <2>. QED BY <1>2, <2>1, <2>2
<1>. QED BY <1>3 DEF EntryVerifies

\* A step outside the writing of a line and its entry.
LEMMA ChainQuiet ==
  ASSUME ChainFollows, UNCHANGED <<log, chain>>,
         \A t \in Threads : \/ pc'[t] = pc[t] /\ ev'[t] = ev[t] /\ entry'[t] = entry[t]
                            \/ /\ pc[t] \notin Unchained \cup {"chainEnd"}
                               /\ pc'[t] \notin Unchained \cup {"chainEnd"}
  PROVE  ChainFollows'
<1>1. \A t \in Threads : /\ pc'[t] = "logEnd" <=> pc[t] = "logEnd"
                         /\ pc'[t] = "chainEnd" <=> pc[t] = "chainEnd"
                         /\ pc'[t] \in Unchained <=> pc[t] \in Unchained
                         /\ pc'[t] = "chainText" <=> pc[t] = "chainText"
                         /\ pc[t] \in Unchained => ev'[t] = ev[t] /\ entry'[t] = entry[t]
  BY DEF Unchained
<1>2. \A t \in Threads : pc[t] = "chainText" => pc[t] \in Unchained
  BY DEF Unchained
<1>. QED BY <1>1, <1>2 DEF ChainFollows, EntryVerifies

\* The thread that ingests is the only one at any stage of it.
LEMMA OnlyWriter ==
  ASSUME SingleServer, TypeOK, LockIsHeld, NEW t \in Threads, pc[t] \in Ingesting,
         NEW next, pc' = [pc EXCEPT ![t] = next], NEW Stages \in SUBSET Ingesting
  PROVE  /\ (\E s \in Threads : pc[s] \in Stages) <=> pc[t] \in Stages
         /\ (\E s \in Threads : pc'[s] \in Stages) <=> next \in Stages
         /\ \A s \in Threads : pc'[s] \in Stages => s = t
         /\ pc'[t] = next
<1>1. \A s \in Threads : s # t => pc[s] \notin Ingesting /\ pc'[s] = pc[s]
  BY OneIngests DEF TypeOK
<1>2. pc'[t] = next
  BY DEF TypeOK
<1>. QED BY <1>1, <1>2

LEMMA LogTextChained ==
  ASSUME SingleServer, IngestInv, ChainFollows, NEW t \in Threads, WriteLogText(t)
  PROVE  ChainFollows'
<1>1. TypeOK /\ LockIsHeld
  BY DEF IngestInv
<1>2. /\ pc[t] = "log" /\ pc[t] \in Ingesting /\ pc' = [pc EXCEPT ![t] = "logEnd"]
      /\ log' = Append(log, ev[t]) /\ ev[t] \in Events /\ ev[t] # EOL
      /\ UNCHANGED <<chain, ev, entry>>
  BY Distinct DEF WriteLogText, At, IngestInv, EventInProgress, Ingesting
<1>3. \A s \in Threads : pc[s] # "logEnd" /\ pc[s] # "chainEnd" /\ pc[s] \notin Unchained
  BY <1>1, <1>2, OneIngests DEF Unchained, Ingesting
<1>4. /\ pc'[t] = "logEnd"
      /\ \A s \in Threads : s # t => pc'[s] = pc[s]
  BY <1>1, <1>2 DEF TypeOK
<1>5. Alternates(log)' /\ (Ended(log)' <=> \A s \in Threads : pc'[s] # "logEnd")
  <2>1. Alternates(log) /\ Ended(log)
    BY <1>3 DEF ChainFollows
  <2>2. Alternates(log') /\ ~Ended(log')
    BY <1>1, <1>2, <2>1, AlternatesGrow DEF TypeOK
  <2>. QED BY <1>4, <2>2
<1>6. Alternates(chain)' /\ (Ended(chain)' <=> \A s \in Threads : pc'[s] # "chainEnd")
  BY <1>2, <1>3, <1>4 DEF ChainFollows
<1>7. Cardinality(Texts(log)) = Cardinality(Texts(chain)) /\ Cardinality(Texts(log)) \in Nat
  BY <1>1, <1>3, TextsNumbered DEF ChainFollows, TypeOK
<1>8. /\ Texts(log') = Texts(log) \cup {Len(log) + 1}
      /\ Number(log', Len(log) + 1) = Cardinality(Texts(log)) + 1
      /\ Cardinality(Texts(log')) = Cardinality(Texts(log)) + 1
      /\ \A n \in Texts(log) : Number(log', n) = Number(log, n)
  BY <1>1, <1>2, TextsGrow DEF TypeOK
<1>9. (\E s \in Threads : pc'[s] \in Unchained) /\ \A s \in Threads : pc'[s] \in Unchained => s = t
  BY <1>3, <1>4 DEF Unchained
<1>10. ASSUME NEW i \in Texts(chain') PROVE EntryVerifies(chain[i], Number(chain, i))'
  <2>1. i \in Texts(chain) /\ EntryVerifies(chain[i], Number(chain, i))
    BY <1>2 DEF ChainFollows
  <2>2. Number(chain, i) \in 1 .. Cardinality(Texts(chain))
    BY <1>1, <2>1, TextsNumbered DEF TypeOK
  <2>3. PICK e, k : e = chain[i] /\ k = Number(chain, i)
    OBVIOUS
  <2>4. EntryVerifies(e, k)'
    BY <1>1, <1>2, <1>7, <2>1, <2>2, <2>3, EntryStaysVerified DEF TypeOK
  <2>5. e = chain[i]' /\ k = Number(chain, i)'
    BY <1>2, <2>3
  <2>. QED BY <2>4, <2>5
<1>11. ASSUME NEW n \in Texts(log'), Number(log', n) = Cardinality(Texts(log'))
       PROVE  log'[n] = ev'[t]
  <2>1. n \notin Texts(log)
    <3>. SUFFICES ASSUME n \in Texts(log) PROVE FALSE
      OBVIOUS
    <3>1. Number(log, n) \in 1 .. Cardinality(Texts(log))
      BY <1>1, TextsNumbered DEF TypeOK
    <3>. QED BY <1>7, <1>8, <1>11, <3>1
  <2>2. n = Len(log) + 1
    BY <1>8, <2>1
  <2>. QED BY <1>1, <1>2, <2>2, AppendHolds DEF TypeOK
<1>12. \A s \in Threads : pc'[s] # "chainText"
  BY <1>3, <1>4 DEF Unchained
<1>13. Cardinality(Texts(log')) = Cardinality(Texts(chain'))
         + IF \E s \in Threads : pc'[s] \in Unchained THEN 1 ELSE 0
  BY <1>2, <1>7, <1>8, <1>9
<1>. QED BY <1>5, <1>6, <1>9, <1>10, <1>11, <1>12, <1>13 DEF ChainFollows

LEMMA LogEndChained ==
  ASSUME SingleServer, IngestInv, ChainFollows, ChainEnabled,
         NEW t \in Threads, WriteLogEnd(t)
  PROVE  ChainFollows'
<1>1. TypeOK /\ LockIsHeld
  BY DEF IngestInv
<1>2. /\ pc[t] = "logEnd" /\ pc[t] \in Ingesting /\ pc' = [pc EXCEPT ![t] = "chain"]
      /\ log' = Append(log, EOL) /\ UNCHANGED <<chain, ev, entry>>
  BY DEF WriteLogEnd, At, Ingesting
<1>3. \A s \in Threads : s # t => pc[s] \notin Ingesting /\ pc'[s] = pc[s]
  BY <1>1, <1>2, OneIngests DEF TypeOK
<1>4. pc'[t] = "chain"
  BY <1>1, <1>2 DEF TypeOK
<1>5. Alternates(log)' /\ (Ended(log)' <=> \A s \in Threads : pc'[s] # "logEnd")
  <2>1. Alternates(log) /\ ~Ended(log)
    BY <1>2 DEF ChainFollows
  <2>2. Alternates(log') /\ Ended(log')
    BY <1>1, <1>2, <2>1, AlternatesGrow DEF TypeOK
  <2>3. \A s \in Threads : pc'[s] # "logEnd"
    BY <1>3, <1>4 DEF Ingesting
  <2>. QED BY <2>2, <2>3
<1>6. Alternates(chain)' /\ (Ended(chain)' <=> \A s \in Threads : pc'[s] # "chainEnd")
  <2>1. \A s \in Threads : pc'[s] # "chainEnd" /\ pc[s] # "chainEnd"
    BY <1>2, <1>3, <1>4 DEF Ingesting
  <2>. QED BY <1>2, <2>1 DEF ChainFollows
<1>7. /\ Texts(log') = Texts(log)
      /\ \A n \in Texts(log) : Number(log', n) = Number(log, n) /\ log'[n] = log[n]
  <2>1. \A n \in Texts(log) : log'[n] = log[n]
    BY <1>1, <1>2, AppendHolds DEF TypeOK, Texts
  <2>2. log \in Seq(Events \cup {EOL}) /\ EOL \in Events \cup {EOL}
    BY <1>1 DEF TypeOK
  <2>3. /\ Texts(Append(log, EOL)) = Texts(log)
        /\ \A n \in Texts(log) : Number(Append(log, EOL), n) = Number(log, n)
    BY ONLY <2>2, TextsGrow
  <2>. QED BY ONLY <1>2, <2>1, <2>3
<1>8. ASSUME NEW e, NEW k, EntryVerifies(e, k) PROVE EntryVerifies(e, k)'
  BY <1>7, <1>8 DEF EntryVerifies
<1>9. ASSUME NEW i \in Texts(chain') PROVE EntryVerifies(chain[i], Number(chain, i))'
  <2>1. PICK e, k : e = chain[i] /\ k = Number(chain, i)
    OBVIOUS
  <2>2. EntryVerifies(e, k)'
    BY <1>2, <1>8, <2>1 DEF ChainFollows
  <2>3. e = chain[i]' /\ k = Number(chain, i)'
    BY <1>2, <2>1
  <2>. QED BY <2>2, <2>3
<1>10. (\E s \in Threads : pc[s] \in Unchained) /\ \E s \in Threads : pc'[s] \in Unchained
  BY <1>2, <1>4 DEF Unchained
<1>11. \A s \in Threads : pc'[s] \in Unchained => s = t /\ pc[s] \in Unchained
  BY <1>2, <1>3 DEF Unchained, Ingesting
<1>12. \A s \in Threads : pc'[s] # "chainText"
  BY <1>3, <1>4 DEF Ingesting
<1>13. \A s \in Threads : pc'[s] \in Unchained =>
         \A n \in Texts(log') : Number(log', n) = Cardinality(Texts(log')) => log'[n] = ev'[s]
  <2>1. \A s \in Threads : pc[s] \in Unchained =>
          \A n \in Texts(log) : Number(log, n) = Cardinality(Texts(log)) => log[n] = ev[s]
    BY DEF ChainFollows
  <2>2. ASSUME NEW s \in Threads, pc'[s] \in Unchained, NEW n \in Texts(log'),
               Number(log', n) = Cardinality(Texts(log'))
        PROVE  log'[n] = ev'[s]
    <3>1. pc[s] \in Unchained /\ ev'[s] = ev[s]
      BY <1>2, <1>11, <2>2
    <3>2. /\ n \in Texts(log) /\ log'[n] = log[n]
          /\ Number(log, n) = Cardinality(Texts(log))
      BY <1>7, <2>2
    <3>. QED BY ONLY <2>1, <3>1, <3>2
  <2>. QED BY <2>2
<1>14. Cardinality(Texts(log')) = Cardinality(Texts(chain'))
         + IF \E s \in Threads : pc'[s] \in Unchained THEN 1 ELSE 0
  BY <1>2, <1>7, <1>10 DEF ChainFollows
<1>. QED BY <1>5, <1>6, <1>9, <1>12, <1>13, <1>14 DEF ChainFollows

LEMMA PrepareChained ==
  ASSUME SingleServer, IngestInv, ChainFollows, NEW t \in Threads, PrepareEntry(t)
  PROVE  ChainFollows'
<1>1. TypeOK /\ LockIsHeld
  BY DEF IngestInv
<1>2. /\ pc[t] = "chain" /\ pc[t] \in Ingesting /\ pc' = [pc EXCEPT ![t] = "chainText"]
      /\ ev[t] \in Events /\ entry'[t] = NextEntry(t) /\ UNCHANGED <<log, chain, ev>>
  BY <1>1 DEF PrepareEntry, At, IngestInv, EventInProgress, Ingesting, TypeOK, disk
<1>3. \A s \in Threads : s # t => pc[s] \notin Ingesting /\ pc'[s] = pc[s]
  BY <1>1, <1>2, OneIngests DEF TypeOK
<1>4. pc'[t] = "chainText"
  BY <1>1, <1>2 DEF TypeOK
<1>5. /\ \A s \in Threads : /\ pc'[s] = "logEnd" <=> pc[s] = "logEnd"
                            /\ pc'[s] = "chainEnd" <=> pc[s] = "chainEnd"
                            /\ pc'[s] \in Unchained <=> pc[s] \in Unchained
                            /\ pc'[s] = "chainText" => s = t
      /\ pc[t] \in Unchained
  BY <1>2, <1>3, <1>4 DEF Unchained, Ingesting
<1>6. PICK k \in Nat : k = Cardinality(Texts(log))
  BY <1>1, TextsNumbered DEF TypeOK
<1>7. \A s \in Threads : pc[s] # "chainEnd" /\ pc[s] # "logEnd"
  BY <1>2, <1>3 DEF Ingesting
<1>8. Alternates(log) /\ Alternates(chain) /\ Ended(chain) /\ Cardinality(Texts(chain)) + 1 = k
  <2>1. \E s \in Threads : pc[s] \in Unchained
    BY <1>5
  <2>2. Cardinality(Texts(chain)) \in Nat
    BY <1>1, TextsNumbered DEF TypeOK
  <2>. QED BY <1>6, <1>7, <2>1, <2>2 DEF ChainFollows
<1>9. Cardinality(Lines(log)) = k
  BY <1>1, <1>6, <1>8, AlternatingLines DEF TypeOK
<1>10. PICK head \in Seq(Events) : head = ChainHead
  BY <1>1, FilesReadable
<1>11. /\ Len(head) = k - 1
       /\ \A n \in Texts(log) : Number(log, n) <= k - 1 => head[Number(log, n)] = log[n]
  <2>1. WellFormed(chain)
    BY <1>1, <1>8, AlternatingLines DEF TypeOK
  <2>2. CASE LastText(chain) = {} /\ Texts(chain) = {}
    <3>1. head = <<>> /\ k = 1
      BY <1>8, <1>10, <2>2, FS_EmptySet DEF ChainHead
    <3>2. \A n \in Texts(log) : Number(log, n) \in 1 .. k
      BY <1>1, <1>6, TextsNumbered DEF TypeOK
    <3>. QED BY <3>1, <3>2
  <2>3. ASSUME NEW i \in Texts(chain), LastText(chain) = {i},
               Number(chain, i) = Cardinality(Texts(chain))
        PROVE  /\ Len(head) = k - 1
               /\ \A n \in Texts(log) : Number(log, n) <= k - 1 => head[Number(log, n)] = log[n]
    <3>1. head = chain[i].covers
      BY <1>10, <2>1, <2>3 DEF ChainHead
    <3>2. EntryVerifies(chain[i], k - 1)
      <4>1. Cardinality(Texts(chain)) \in Nat
        BY <1>1, TextsNumbered DEF TypeOK
      <4>2. Number(chain, i) = k - 1
        BY <1>8, <2>3, <4>1
      <4>3. EntryVerifies(chain[i], Number(chain, i))
        BY DEF ChainFollows
      <4>. QED BY <4>2, <4>3
    <3>. QED BY <3>1, <3>2 DEF EntryVerifies
  <2>. QED BY <1>1, <1>8, <2>2, <2>3, AlternatingLines DEF TypeOK
<1>12. \A n \in Texts(log) : Number(log, n) = k => log[n] = ev[t]
  BY <1>5, <1>6 DEF ChainFollows
<1>13. PICK e : e = EntryOf(t, k, head)
  OBVIOUS
<1>14. entry'[t] = e
  BY <1>2, <1>9, <1>10, <1>13 DEF NextEntry
<1>15. EntryVerifies(e, k)
  <2>1. PICK c \in Seq(Events) : c = Append(head, ev[t])
    BY <1>2, <1>10, AppendHolds
  <2>2. Len(c) = k /\ c[k] = ev[t] /\ \A m \in 1 .. k - 1 : c[m] = head[m]
    <3>1. /\ Len(c) = Len(head) + 1 /\ c[Len(head) + 1] = ev[t]
          /\ \A m \in 1 .. Len(head) : c[m] = head[m]
      BY ONLY <1>2, <1>10, <2>1, AppendHolds
    <3>2. Len(head) + 1 = k
      BY ONLY <1>6, <1>11
    <3>3. Len(head) = k - 1
      BY <1>11
    <3>. QED BY ONLY <3>1, <3>2, <3>3
  <2>3. e.seq = k /\ e.event = ev[t] /\ e.covers = c
    BY <1>13, <2>1 DEF EntryOf
  <2>4. \A n \in Texts(log) : Number(log, n) \in 1 .. k
    BY <1>1, <1>6, TextsNumbered DEF TypeOK
  <2>5. ASSUME NEW n \in Texts(log) PROVE c[Number(log, n)] = log[n]
    <3>1. CASE Number(log, n) = k
      BY <1>12, <2>2, <3>1
    <3>2. CASE Number(log, n) \in 1 .. k - 1
      BY <1>11, <2>2, <3>2
    <3>. QED BY <2>4, <3>1, <3>2
  <2>. QED BY <1>12, <2>2, <2>3, <2>5 DEF EntryVerifies
<1>16. EntryVerifies(e, k)'
  BY <1>2, <1>15 DEF EntryVerifies
<1>17. \A s \in Threads : pc'[s] = "chainText" =>
         EntryVerifies(entry[s], Cardinality(Texts(log)))'
  <2>1. k = Cardinality(Texts(log))'
    BY <1>2, <1>6
  <2>. QED BY <1>5, <1>14, <1>16, <2>1
<1>18. \A i \in Texts(chain') : EntryVerifies(chain[i], Number(chain, i))'
  BY <1>2 DEF ChainFollows, EntryVerifies
<1>. QED BY <1>2, <1>5, <1>17, <1>18 DEF ChainFollows

LEMMA ChainTextChained ==
  ASSUME SingleServer, IngestInv, ChainFollows, NEW t \in Threads, WriteChainText(t)
  PROVE  ChainFollows'
<1>1. TypeOK /\ LockIsHeld
  BY DEF IngestInv
<1>2. PICK e : e = entry[t]
  OBVIOUS
<1>3. /\ pc[t] = "chainText" /\ pc[t] \in Ingesting /\ pc' = [pc EXCEPT ![t] = "chainEnd"]
      /\ chain' = Append(chain, e) /\ e \in Entry /\ e # EOL /\ UNCHANGED <<log, ev>>
  BY <1>2, EntriesAreTexts
     DEF WriteChainText, At, IngestInv, EventInProgress, Ingesting
<1>4. /\ \A s \in Threads : s # t => pc[s] \notin Ingesting /\ pc'[s] = pc[s]
      /\ pc'[t] = "chainEnd"
  BY <1>1, <1>3, OneIngests DEF TypeOK
<1>5. \A s \in Threads : /\ pc[s] # "logEnd" /\ pc'[s] # "logEnd" /\ pc[s] # "chainEnd"
                         /\ pc'[s] \notin Unchained
                         /\ pc'[s] # "chainText"
  BY <1>3, <1>4 DEF Ingesting, Unchained
<1>6. PICK k \in Nat : k = Cardinality(Texts(log))
  BY <1>1, TextsNumbered DEF TypeOK
<1>7. /\ Alternates(log) /\ Ended(log) /\ Alternates(chain) /\ Ended(chain)
      /\ EntryVerifies(e, k)
      /\ k = Cardinality(Texts(chain)) + 1
  <2>1. \E s \in Threads : pc[s] \in Unchained
    BY <1>3 DEF Unchained
  <2>. QED BY <1>2, <1>3, <1>5, <1>6, <2>1 DEF ChainFollows
<1>8. Alternates(chain') /\ ~Ended(chain')
  BY <1>1, <1>3, <1>7, AlternatesGrow DEF TypeOK
<1>9. /\ Texts(chain') = Texts(chain) \cup {Len(chain) + 1}
      /\ Number(chain', Len(chain) + 1) = k
      /\ Cardinality(Texts(chain')) = k
      /\ \A i \in Texts(chain) : Number(chain', i) = Number(chain, i)
  <2>1. chain \in Seq(Entry \cup {EOL}) /\ e \in Entry \cup {EOL}
    BY <1>1, <1>3 DEF TypeOK
  <2>. QED BY ONLY <1>3, <1>7, <2>1, TextsGrow
<1>10. /\ \A i \in Texts(chain) : chain'[i] = chain[i]
       /\ chain'[Len(chain) + 1] = e
  BY <1>1, <1>3, AppendHolds DEF TypeOK, Texts
<1>11. ASSUME NEW i \in Texts(chain')
       PROVE  EntryVerifies(chain[i], Number(chain, i))'
  <2>1. EntryVerifies(chain'[i], Number(chain', i))
    <3>1. CASE i \in Texts(chain)
      BY <1>9, <1>10, <3>1 DEF ChainFollows
    <3>2. CASE i = Len(chain) + 1
      BY <1>7, <1>9, <1>10, <3>2
    <3>. QED BY <1>9, <3>1, <3>2
  <2>. QED BY <1>3, <2>1 DEF EntryVerifies
<1>12. Cardinality(Texts(log')) = Cardinality(Texts(chain'))
         + IF \E s \in Threads : pc'[s] \in Unchained THEN 1 ELSE 0
  BY <1>3, <1>5, <1>6, <1>9
<1>13. Alternates(log)' /\ Ended(log)'
  BY <1>3, <1>7
<1>. QED BY <1>4, <1>5, <1>8, <1>11, <1>12, <1>13 DEF ChainFollows

LEMMA ChainEndChained ==
  ASSUME SingleServer, IngestInv, ChainFollows, NEW t \in Threads, WriteChainEnd(t)
  PROVE  ChainFollows'
<1>1. TypeOK /\ LockIsHeld
  BY DEF IngestInv
<1>2. /\ pc[t] = "chainEnd" /\ pc[t] \in Ingesting /\ pc' = [pc EXCEPT ![t] = "store"]
      /\ chain' = Append(chain, EOL) /\ UNCHANGED <<log, ev>>
  BY DEF WriteChainEnd, At, Ingesting
<1>3. /\ \A s \in Threads : s # t => pc[s] \notin Ingesting /\ pc'[s] = pc[s]
      /\ pc'[t] = "store"
  BY <1>1, <1>2, OneIngests DEF TypeOK
<1>4. \A s \in Threads : /\ pc[s] # "logEnd" /\ pc'[s] # "logEnd" /\ pc'[s] # "chainEnd"
                         /\ pc[s] \notin Unchained /\ pc'[s] \notin Unchained
                         /\ pc'[s] # "chainText"
  BY <1>2, <1>3 DEF Ingesting, Unchained
<1>5. Alternates(log) /\ Ended(log) /\ Alternates(chain) /\ ~Ended(chain)
  BY <1>2, <1>4 DEF ChainFollows
<1>6. Alternates(chain') /\ Ended(chain')
  BY <1>1, <1>2, <1>5, AlternatesGrow DEF TypeOK
<1>7. /\ Texts(chain') = Texts(chain)
      /\ \A i \in Texts(chain) : Number(chain', i) = Number(chain, i)
  <2>1. chain \in Seq(Entry \cup {EOL}) /\ EOL \in Entry \cup {EOL}
    BY <1>1 DEF TypeOK
  <2>. QED BY ONLY <1>2, <2>1, TextsGrow
<1>8. \A i \in Texts(chain) : chain'[i] = chain[i]
  BY <1>1, <1>2, AppendHolds DEF TypeOK, Texts
<1>9. ASSUME NEW i \in Texts(chain')
      PROVE  EntryVerifies(chain[i], Number(chain, i))'
  <2>1. EntryVerifies(chain'[i], Number(chain', i))
    BY <1>7, <1>8 DEF ChainFollows
  <2>. QED BY <1>2, <2>1 DEF EntryVerifies
<1>10. Cardinality(Texts(log')) = Cardinality(Texts(chain'))
         + IF \E s \in Threads : pc'[s] \in Unchained THEN 1 ELSE 0
  BY <1>2, <1>4, <1>7 DEF ChainFollows
<1>11. Alternates(log)' /\ Ended(log)'
  BY <1>2, <1>5
<1>. QED BY <1>4, <1>6, <1>9, <1>10, <1>11 DEF ChainFollows

LEMMA ChainStep ==
  ASSUME SingleServer, IngestInv, ChainInv, [Next]_vars
  PROVE  ChainInv'
<1>1. TypeOK
  BY DEF IngestInv
<1>. SUFFICES ASSUME ChainEnabled, crashes' = 0, failures' = 0
              PROVE  ChainFollows'
  BY DEF ChainInv
<1>2. ASSUME UNCHANGED faults PROVE ChainFollows
  BY <1>2 DEF faults, ChainInv
<1>3. CASE UNCHANGED vars
  BY <1>2, <1>3, ChainQuiet DEF vars, disk
<1>4. ASSUME NEW t \in Threads, NEW e \in Events \cup Malformed, Submit(t, e)
      PROVE  ChainFollows'
  <2>1. \A s \in Threads : \/ pc'[s] = pc[s] /\ ev'[s] = ev[s] /\ entry'[s] = entry[s]
                           \/ pc[s] = "idle" /\ pc'[s] \in {"idle", "waiting"}
    BY <1>1, <1>4 DEF Submit, TypeOK
  <2>2. {"idle", "waiting"} \cap (Unchained \cup {"chainEnd"}) = {}
    BY DEF Unchained
  <2>. QED BY <1>2, <1>4, <2>1, <2>2, ChainQuiet DEF Submit
<1>5. ASSUME NEW t \in Threads, NEW result, Return(t, result),
             pc[t] \in {"waiting", "store", "order"},
             UNCHANGED <<log, chain, ev, faults>>
      PROVE  ChainFollows'
  <2>1. /\ pc' = [pc EXCEPT ![t] = "idle"] /\ entry' = [entry EXCEPT ![t] = NoEntry]
        /\ UNCHANGED <<log, chain, ev>>
    BY <1>5 DEF Return
  <2>2. \A s \in Threads : \/ pc'[s] = pc[s] /\ ev'[s] = ev[s] /\ entry'[s] = entry[s]
                           \/ pc[s] \in {"waiting", "store", "order"} /\ pc'[s] = "idle"
    BY <1>1, <1>5, <2>1 DEF TypeOK
  <2>3. {"waiting", "store", "order", "idle"} \cap (Unchained \cup {"chainEnd"}) = {}
    BY DEF Unchained
  <2>. QED BY <1>2, <1>5, <2>1, <2>2, <2>3, ChainQuiet
<1>6. ASSUME NEW t \in Threads, NEW here \in {"waiting", "store"},
             NEW next \in {"log", "order"}, At(t, here, next),
             UNCHANGED <<log, chain, ev, entry, faults>>
      PROVE  ChainFollows'
  <2>1. \A s \in Threads : \/ pc'[s] = pc[s] /\ ev'[s] = ev[s] /\ entry'[s] = entry[s]
                           \/ pc[s] = here /\ pc'[s] = next
    BY <1>1, <1>6 DEF At, TypeOK
  <2>2. {"waiting", "store", "log", "order"} \cap (Unchained \cup {"chainEnd"}) = {}
    BY DEF Unchained
  <2>. QED BY <1>2, <1>6, <2>1, <2>2, ChainQuiet
<1>7. ASSUME NEW t \in Threads, Step(t)
      PROVE  ChainFollows'
  <2>1. CASE FindPresent(t)
    BY <2>1, <1>5 DEF FindPresent, disk
  <2>2. CASE FindAbsent(t)
    BY <2>2, <1>6 DEF FindAbsent, disk
  <2>3. CASE WriteLogText(t)
    BY <2>3, <1>2, LogTextChained DEF WriteLogText
  <2>4. CASE WriteLogEnd(t)
    BY <2>4, <1>2, LogEndChained DEF WriteLogEnd
  <2>5. CASE PrepareEntry(t)
    BY <2>5, <1>2, PrepareChained DEF PrepareEntry
  <2>6. CASE WriteChainText(t)
    BY <2>6, <1>2, ChainTextChained DEF WriteChainText
  <2>7. CASE WriteChainEnd(t)
    BY <2>7, <1>2, ChainEndChained DEF WriteChainEnd
  <2>8. CASE StoreRow(t)
    BY <2>8, <1>6 DEF StoreRow
  <2>9. CASE OrderRow(t)
    BY <2>9, <1>5 DEF OrderRow
  <2>10. CASE RefuseRow(t)
    BY <2>10, <1>5 DEF RefuseRow
  <2>11. QED
    BY <1>7, <2>1, <2>2, <2>3, <2>4, <2>5, <2>6, <2>7, <2>8, <2>9, <2>10 DEF Step
<1>8. ASSUME NEW t \in Threads, Fault(t)
      PROVE  FALSE
  BY <1>1, <1>8 DEF Fault, FailCheck, FailWrite, FailRead, Failing, TypeOK
<1>9. ASSUME NEW p \in Processes, Crash(p)
      PROVE  FALSE
  BY <1>1, <1>9 DEF Crash, TypeOK
<1>10. ASSUME NEW p \in Processes, Start(p)
       PROVE  ChainFollows'
  BY <1>2, <1>10, ChainQuiet DEF Start, disk
<1>. QED BY <1>3, <1>4, <1>7, <1>8, <1>9, <1>10 DEF Next

\* While nothing crashes or fails, the chain of a single process verifies against its
\* log whenever no event is being ingested: a node that is stopped then starts again.
THEOREM ChainVerifiesAtRest == SingleServer => (Spec => []ChainFollowsLog)
<1> SUFFICES ASSUME SingleServer PROVE Spec => []ChainFollowsLog
  OBVIOUS
<1>1. Init => ChainInv
  <2>1. SUFFICES ASSUME Init PROVE ChainFollows
    BY DEF ChainInv
  <2>2. Texts(log) = {} /\ Texts(chain) = {} /\ Cardinality({}) = 0
    BY <2>1, FS_EmptySet DEF Init, Texts
  <2>3. \A t \in Threads : pc[t] = "idle"
    BY <2>1 DEF Init
  <2>4. Alternates(log) /\ Ended(log) /\ Alternates(chain) /\ Ended(chain)
    BY <2>1 DEF Init, Alternates, Ended
  <2>. QED BY <2>2, <2>3, <2>4 DEF ChainFollows, Unchained
<1>2. IngestInv /\ ChainInv /\ [Next]_vars => ChainInv'
  BY ChainStep
<1>3. IngestInv /\ ChainInv => ChainFollowsLog
  <2>1. SUFFICES ASSUME IngestInv, ChainFollows, \A t \in Threads : pc[t] \notin Ingesting
                 PROVE  ChainVerifies
    BY DEF ChainInv, ChainFollowsLog
  <2>2. WellFormed(chain)
    BY <2>1, AlternatingLines DEF ChainFollows, IngestInv, TypeOK
  <2>3. Cardinality(Texts(log)) = Cardinality(Texts(chain))
    <3>1. \A t \in Threads : pc[t] \notin Unchained
      BY <2>1 DEF Unchained, Ingesting
    <3>2. Cardinality(Texts(chain)) \in Nat
      BY <2>1, TextsNumbered DEF IngestInv, TypeOK
    <3>. QED BY <2>1, <3>1, <3>2 DEF ChainFollows
  <2>. QED BY <2>1, <2>2, <2>3 DEF ChainVerifies, ChainFollows
<1>. QED BY <1>1, <1>2, <1>3, InvariantHolds, PTL DEF Spec

-----------------------------------------------------------------------------
(* The lines of the log *)

\* The line is written and its event is not stored.
Written == Ingesting \ {"log", "order"}

\* A step that writes no line and stores no event, and leaves no line behind unless
\* it is a crash or a failure.
LEMMA LinesQuiet ==
  ASSUME TypeOK, LinesInv, UNCHANGED <<log, stored>>, crashes' \in Nat, failures' \in Nat,
         crashes' + failures' >= crashes + failures,
         \A t \in Threads : pc[t] \in Written =>
           \/ pc'[t] \in Written
           \/ crashes' + failures' > crashes + failures
  PROVE  LinesInv'
<1>1. PICK k \in Nat, c \in Nat : k = Cardinality(Texts(log)) /\ c = Cardinality(stored)
  BY TextsNumbered, FS_CardinalityType DEF TypeOK, LinesInv
<1>2. k = Cardinality(Texts(log))' /\ c = Cardinality(stored)' /\ IsFiniteSet(stored)'
  BY <1>1 DEF LinesInv
<1>3. PICK before \in 0 .. 1, after \in 0 .. 1 :
        /\ before = IF \E t \in Threads : pc[t] \in Written THEN 1 ELSE 0
        /\ after = IF \E t \in Threads : pc'[t] \in Written THEN 1 ELSE 0
  OBVIOUS
<1>4. PICK x \in Nat, y \in Nat : x = crashes' /\ y = failures'
  OBVIOUS
<1>5. before <= after \/ x + y > crashes + failures
  BY <1>3, <1>4
<1>6. k <= c + crashes + failures + before
  BY <1>1, <1>3 DEF LinesInv, Written
<1>7. crashes \in Nat /\ failures \in Nat /\ x + y >= crashes + failures
  BY <1>4 DEF TypeOK
<1>8. k <= c + x + y + after
  <2>1. PICK z \in Nat : z = crashes + failures
    BY <1>7
  <2>2. /\ k \in Nat /\ c \in Nat /\ x \in Nat /\ y \in Nat
        /\ before \in 0 .. 1 /\ after \in 0 .. 1
    BY <1>1, <1>3, <1>4
  <2>3. /\ k <= c + z + before /\ x + y >= z
        /\ before <= after \/ x + y > z
    BY ONLY <1>5, <1>6, <1>7, <2>1, <2>2
  <2>. QED BY ONLY <2>1, <2>2, <2>3
<1>. QED BY <1>2, <1>3, <1>4, <1>8 DEF LinesInv, Written

LEMMA LinesStep ==
  ASSUME SingleServer, IngestInv, SingleServerInv, LinesInv, [Next]_vars
  PROVE  LinesInv'
<1>1. TypeOK /\ LockIsHeld
  BY DEF IngestInv
<1>2. crashes \in Nat /\ failures \in Nat
  BY <1>1 DEF TypeOK
<1>3. CASE UNCHANGED vars
  BY <1>1, <1>2, <1>3, LinesQuiet DEF vars, disk, faults
<1>4. ASSUME NEW t \in Threads, NEW e \in Events \cup Malformed, Submit(t, e)
      PROVE  LinesInv'
  <2>1. \A s \in Threads : pc[s] \in Written => pc'[s] = pc[s]
    BY <1>1, <1>4 DEF Submit, TypeOK, Written, Ingesting
  <2>. QED BY <1>1, <1>2, <1>4, <2>1, LinesQuiet DEF Submit, faults
<1>5. ASSUME NEW t \in Threads, NEW next, pc' = [pc EXCEPT ![t] = next],
             pc[t] \in Written => next \in Written, UNCHANGED <<log, stored, faults>>
      PROVE  LinesInv'
  <2>1. \A s \in Threads : pc[s] \in Written => pc'[s] \in Written
    BY <1>1, <1>5 DEF TypeOK
  <2>. QED BY <1>1, <1>2, <1>5, <2>1, LinesQuiet DEF faults
<1>6. PICK k \in Nat, c \in Nat : k = Cardinality(Texts(log)) /\ c = Cardinality(stored)
  BY <1>1, TextsNumbered, FS_CardinalityType DEF TypeOK, LinesInv
<1>7. /\ IsFiniteSet(stored)
      /\ k <= c + crashes + failures + IF \E t \in Threads : pc[t] \in Written THEN 1 ELSE 0
  BY <1>6 DEF LinesInv, Written
<1>8. ASSUME NEW t \in Threads, Step(t)
      PROVE  LinesInv'
  <2>1. CASE FindPresent(t)
    BY <2>1, <1>5 DEF FindPresent, Return, disk, Written, Ingesting
  <2>2. CASE FindAbsent(t)
    BY <2>2, <1>5 DEF FindAbsent, At, disk, Written, Ingesting
  <2>3. CASE WriteLogText(t)
    <3>1. /\ pc[t] = "log" /\ pc[t] \in Ingesting /\ pc' = [pc EXCEPT ![t] = "logEnd"]
          /\ log' = Append(log, ev[t]) /\ ev[t] \in Events /\ ev[t] # EOL
          /\ UNCHANGED <<stored, faults>>
      BY <2>3, Distinct DEF WriteLogText, At, IngestInv, EventInProgress, Ingesting
    <3>2. \A s \in Threads : pc[s] \notin Written
      BY <1>1, <3>1, OneIngests DEF Written, Ingesting
    <3>3. \E s \in Threads : pc'[s] \in Written
      BY <1>1, <3>1 DEF TypeOK, Written, Ingesting
    <3>4. Cardinality(Texts(log))' = k + 1
      <4>1. log \in Seq(Events \cup {EOL}) /\ ev[t] \in Events \cup {EOL}
        BY <1>1, <3>1 DEF TypeOK
      <4>2. Cardinality(Texts(Append(log, ev[t]))) = k + 1
        BY ONLY <1>6, <3>1, <4>1, TextsGrow
      <4>. QED BY <3>1, <4>2
    <3>5. k + 1 <= c + crashes' + failures' + 1
      BY <1>2, <1>6, <1>7, <3>1, <3>2 DEF faults
    <3>6. c = Cardinality(stored)' /\ IsFiniteSet(stored)'
      BY <1>6, <1>7, <3>1
    <3>. QED BY <3>3, <3>4, <3>5, <3>6 DEF LinesInv, Written
  <2>4. CASE WriteLogEnd(t)
    <3>1. pc[t] = "logEnd" /\ log' = Append(log, EOL) /\ UNCHANGED <<stored, faults>>
      BY <2>4 DEF WriteLogEnd, At
    <3>2. \A s \in Threads : pc[s] \in Written => pc'[s] \in Written
      BY <1>1, <2>4 DEF WriteLogEnd, At, TypeOK, Written, Ingesting
    <3>3. Cardinality(Texts(log))' = k
      <4>1. log \in Seq(Events \cup {EOL}) /\ EOL \in Events \cup {EOL}
        BY <1>1 DEF TypeOK
      <4>2. Texts(Append(log, EOL)) = Texts(log)
        BY ONLY <4>1, TextsGrow
      <4>. QED BY <1>6, <3>1, <4>2
    <3>4. c = Cardinality(stored)' /\ IsFiniteSet(stored)' /\ UNCHANGED <<crashes, failures>>
      BY <1>6, <1>7, <3>1 DEF faults
    <3>5. k <= c + crashes' + failures'
                 + IF \E s \in Threads : pc'[s] \in Written THEN 1 ELSE 0
      BY <1>2, <1>6, <1>7, <3>2, <3>4
    <3>. QED BY <3>3, <3>4, <3>5 DEF LinesInv, Written
  <2>5. CASE PrepareEntry(t)
    BY <2>5, <1>5 DEF PrepareEntry, At, disk, Written, Ingesting
  <2>6. CASE WriteChainText(t)
    BY <2>6, <1>5 DEF WriteChainText, At, Written, Ingesting
  <2>7. CASE WriteChainEnd(t)
    BY <2>7, <1>5 DEF WriteChainEnd, At, Written, Ingesting
  <2>8. CASE StoreRow(t)
    <3>1. /\ ev[t] \notin stored /\ stored' = stored \cup {ev[t]}
          /\ UNCHANGED <<log, crashes, failures>>
      BY <2>8 DEF StoreRow, faults
    <3>2. IsFiniteSet(stored)' /\ Cardinality(stored)' = c + 1
      BY <1>6, <1>7, <3>1, FS_AddElement
    <3>3. k <= c + 1 + crashes' + failures'
                 + IF \E s \in Threads : pc'[s] \in Written THEN 1 ELSE 0
      BY <1>2, <1>6, <1>7, <3>1
    <3>4. k = Cardinality(Texts(log))'
      BY <1>6, <3>1
    <3>. QED BY <3>2, <3>3, <3>4 DEF LinesInv, Written
  <2>9. CASE OrderRow(t)
    BY <2>9, <1>5 DEF OrderRow, Return, Written
  <2>10. CASE RefuseRow(t)
    BY <2>10 DEF RefuseRow, SingleServerInv, Ingesting
  <2>11. QED
    BY <1>8, <2>1, <2>2, <2>3, <2>4, <2>5, <2>6, <2>7, <2>8, <2>9, <2>10 DEF Step
<1>9. ASSUME NEW t \in Threads, Fault(t)
      PROVE  LinesInv'
  <2>1. UNCHANGED <<log, stored, crashes>> /\ failures' = failures + 1
    BY <1>9 DEF Fault, FailCheck, FailWrite, FailRead, Failing, disk
  <2>. QED BY <1>1, <1>2, <2>1, LinesQuiet
<1>10. ASSUME NEW p \in Processes, Crash(p)
       PROVE  LinesInv'
  <2>1. UNCHANGED <<log, stored, failures>> /\ crashes' = crashes + 1
    BY <1>10 DEF Crash, disk
  <2>. QED BY <1>1, <1>2, <2>1, LinesQuiet
<1>11. ASSUME NEW p \in Processes, Start(p)
       PROVE  LinesInv'
  <2>1. UNCHANGED <<log, stored, crashes, failures, pc>>
    BY <1>11 DEF Start, disk, faults
  <2>. QED BY <1>1, <1>2, <2>1, LinesQuiet
<1>. QED BY <1>3, <1>4, <1>8, <1>9, <1>10, <1>11 DEF Next

\* Ingestion is idempotent: no event is fed twice, and the log of a single process has
\* no line beyond those of the stored events but what crashes, failures and the event
\* being ingested account for.
THEOREM IngestionIsIdempotent == Spec => []IngestedOnce
<1>1. ASSUME SingleServer PROVE Spec => []LinesAreAccounted
  <2>1. Init => LinesInv
    <3>1. SUFFICES ASSUME Init PROVE LinesInv
      OBVIOUS
    <3>2. Texts(log) = {} /\ stored = {} /\ crashes = 0 /\ failures = 0
      BY <3>1 DEF Init, Texts
    <3>. QED BY <3>2, FS_EmptySet DEF LinesInv
  <2>2. IngestInv /\ SingleServerInv /\ LinesInv /\ [Next]_vars => LinesInv'
    BY <1>1, LinesStep
  <2>3. IngestInv /\ LinesInv => LinesAreAccounted
    <3>. SUFFICES ASSUME IngestInv, LinesInv PROVE LinesAreAccounted
      OBVIOUS
    <3>1. PICK ingesting : ingesting = {t \in Threads : pc[t] \in Ingesting}
      OBVIOUS
    <3>2. CASE ingesting = {}
      <4>1. \A t \in Threads : pc[t] \notin Ingesting \ {"log", "order"}
        BY <3>1, <3>2
      <4>. QED BY <3>1, <3>2, <4>1, FS_EmptySet DEF LinesInv, LinesAreAccounted
    <3>3. CASE ingesting # {}
      <4>1. PICK t \in Threads : ingesting = {t}
        <5>1. PICK t \in Threads : t \in ingesting
          BY <3>1, <3>3
        <5>2. \A s \in ingesting : s = t
          BY <1>1, <3>1, <5>1, OneIngests DEF IngestInv
        <5>. QED BY <5>1, <5>2
      <4>2. Cardinality(ingesting) = 1
        BY <4>1, FS_Singleton
      <4>3. /\ Cardinality(Texts(log)) \in Nat /\ Cardinality(stored) \in Nat
            /\ crashes \in Nat /\ failures \in Nat
        BY TextsNumbered, FS_CardinalityType DEF IngestInv, TypeOK, LinesInv
      <4>. QED BY <3>1, <4>2, <4>3 DEF LinesInv, LinesAreAccounted
    <3>. QED BY <3>2, <3>3
  <2>. QED BY <1>1, <2>1, <2>2, <2>3, InvariantHolds, SingleServerInvariantHolds, PTL DEF Spec
<1>2. CASE SingleServer
  <2>1. FedOnce /\ LinesAreAccounted => IngestedOnce
    BY DEF IngestedOnce
  <2>. QED BY <1>1, <1>2, <2>1, EventsAreFedOnce, PTL
<1>3. CASE ~SingleServer
  <2>1. FedOnce => IngestedOnce
    BY <1>3 DEF IngestedOnce
  <2>. QED BY <2>1, EventsAreFedOnce, PTL
<1>. QED BY <1>2, <1>3
=============================================================================
