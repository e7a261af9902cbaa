-------------------------- MODULE MCSnapshotReplay --------------------------
(***************************************************************************)
(* Instances of SnapshotReplay for TLC.                                    *)
(***************************************************************************)
EXTENDS SnapshotReplay, TLC

CONSTANTS
  dispute, settle, note, cancel,
  SettledAt   \* when the dispute, of time 1, is settled

Log == {dispute, settle, note, cancel}

\* ServiceCancel and OrderAmend are not in REPLAY_KINDS.
ReplayKinds == {dispute, settle, note}
LogCreated == (dispute :> 1) @@ (settle :> SettledAt) @@ (note :> 2) @@ (cancel :> 2)
LogIds == (dispute :> 1) @@ (settle :> 2) @@ (note :> 3) @@ (cancel :> 4)
LogSettles == (dispute :> None) @@ (settle :> dispute) @@ (note :> None) @@ (cancel :> None)
=============================================================================
