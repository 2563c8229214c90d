----------------------------- MODULE MCPeerTable -----------------------------
(***************************************************************************)
(* Instances of PeerTable for TLC: two peers and three connections, two of *)
(* them to the same peer.                                                  *)
(***************************************************************************)
EXTENDS PeerTable, TLC

CONSTANTS p1, p2, c1, c2, c3, b1, b2

TwoToOne == [c \in Conns |-> IF c = c3 THEN p2 ELSE p1]
=============================================================================
