---------------------------- MODULE MCPeerSync ----------------------------
(* Instances of PeerSync for TLC. *)
EXTENDS PeerSync

CONSTANTS p1, p2, e1, e2, e3

\* The events come through p1; p2 only takes a place among the pulls, and may fail.
TwoPeers == [p \in Peers |-> IF p = p1 THEN {e1, e2} ELSE {}]

\* e2 was created before e1 and e3 after it.
CreatedAt == [e \in Events |-> IF e = e1 THEN 1 ELSE IF e = e2 THEN 0 ELSE 2]

=============================================================================
