--------------------------- MODULE MCEventIngest ---------------------------
(***************************************************************************)
(* Instances of EventIngest for TLC: every thread in one process, or every *)
(* thread in a process of its own on the same data directory, each with    *)
(* its own lock.  A behavior is one of either.                             *)
(***************************************************************************)
EXTENDS EventIngest

VARIABLES
  shared,  \* whether the behavior is one of several processes
  sLog, sChain, sStored, sFeed, sInvalid, sUp, sLock, sPc, sEv, sEntry, sReply,
  sCrashes, sFailures

sharedVars == <<sLog, sChain, sStored, sFeed, sInvalid, sUp, sLock, sPc, sEv, sEntry, sReply,
                sCrashes, sFailures>>
mcVars == <<shared, vars, sharedVars>>

OneServer == [t \in Threads |-> CHOOSE p \in Processes : TRUE]

\* Several processes have one event to ingest, and no reads or writes fail.
OneEvent == {CHOOSE e \in Events : TRUE}
Shared ==
  INSTANCE EventIngest WITH
    Processes <- Threads, ProcessOf <- [t \in Threads |-> t],
    Events <- OneEvent, Malformed <- {}, MaxFailures <- 0,
    log <- sLog, chain <- sChain, stored <- sStored, feed <- sFeed, invalid <- sInvalid,
    up <- sUp, lock <- sLock, pc <- sPc, ev <- sEv, entry <- sEntry, reply <- sReply,
    crashes <- sCrashes, failures <- sFailures

MCInit == Init /\ Shared!Init /\ shared \in BOOLEAN

MCNext ==
  \/ ~shared /\ Next /\ UNCHANGED <<shared, sharedVars>>
  \/ shared /\ Shared!Next /\ UNCHANGED <<shared, vars>>

MCSpec == MCInit /\ [][MCNext]_mcVars

\* A thread that can go on does.
MCFairSpec ==
  /\ MCSpec
  /\ \A t \in Threads : WF_mcVars(Step(t) /\ UNCHANGED <<shared, sharedVars>>)
  /\ \A t \in Threads : WF_mcVars(Shared!Step(t) /\ UNCHANGED <<shared, vars>>)

\* A request is answered or dies with its process, in one process or in several, and
\* several processes that do not exclude each other feed an event once.
RequestsEnd ==
  /\ RequestsAreAnswered /\ Shared!RequestsAreAnswered
  /\ []Shared!IngestedOnce
=============================================================================
