----------------------------- MODULE MCPeerPool -----------------------------
(* Pieces of 3 units, the last of 2, in blocks of 2: pieces of two blocks    *)
(* with a short last block, and a last piece of one block.                   *)
EXTENDS PeerPool

CONSTANTS s1, s2, s3, p1, p2, p3

TwoSessions   == {s1, s2}
ThreeSessions == {s1, s2, s3}
TwoPeers      == {p1, p2}
ThreePeers    == {p1, p2, p3}
TwoIds        == (s1 :> p1) @@ (s2 :> p2)
ThreeIds      == TwoIds @@ (s3 :> p3)
HasAll        == [s \in Sessions |-> Pieces]
HasBeyond     == [s \in Sessions |-> IF s = s2 THEN Indices ELSE Pieces]
NoPayloads    == {}

\* Unrequested blocks: a right one, and a wrong one of double size.
StrayPayloads == {[len |-> 1, ok |-> TRUE], [len |-> 2, ok |-> FALSE]}
=============================================================================
