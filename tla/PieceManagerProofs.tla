------------------------- MODULE PieceManagerProofs -------------------------
(***************************************************************************)
(* Every method of the tracker preserves TrackerInv, for any number and    *)
(* size of pieces, any peers and any blocks.  The lemmas speak of a method *)
(* as an operator from trackers to trackers, so that PeerPoolProofs can    *)
(* cite them for steps that make several calls.                            *)
(***************************************************************************)
EXTENDS PieceManager, TLAPS

\* A verified piece has all its bytes counted.  Without this Verified is not
\* inductive: a late block could overwrite bytes of a verified piece and
\* add_block would not verify it again.
Counted(m) == \A i \in Pieces : m.state[i] = "COMPLETE" => m.received[i] >= LengthOf(i)

TrackerInv(m) ==
  /\ m \in TrackerType
  /\ Synced(m)
  /\ Verified(m)
  /\ Counted(m)

TrackerOK == TrackerInv(pm)

-----------------------------------------------------------------------------
(* Construction and blocks *)

\* The length of a piece, the last one included, is between 1 and PieceLength:
\* every offset that fits a piece is an offset of the model.
LEMMA LengthOfRange ==
  ASSUME NEW i \in Pieces
  PROVE  LengthOf(i) \in 1 .. PieceLength
<1>1. TotalLength % PieceLength \in 0 .. PieceLength - 1
  BY SizeAssumption
<1> QED
  BY <1>1, SizeAssumption DEF LengthOf, Pieces

\* The hash of a piece depends on that piece's blocks only.
LEMMA HashLocal ==
  ASSUME NEW m, NEW n, NEW i, m.blocks[i] = n.blocks[i]
  PROVE  HashMatches(m, i) <=> HashMatches(n, i)
  BY DEF HashMatches, Covers

\* The tracker that __init__ builds.
LEMMA NewTrackerInv == TrackerInv(NewTracker)
<1>1. NewTracker \in TrackerType
  BY CallAssumption DEF NewTracker, TrackerType, EmptyBlocks, PieceState
<1>2. Synced(NewTracker) /\ Verified(NewTracker) /\ Counted(NewTracker)
  BY DEF NewTracker, Synced, Verified, Counted
<1> QED
  BY <1>1, <1>2 DEF TrackerInv

-----------------------------------------------------------------------------
(* Availability *)

\* A new availability record of one peer changes nothing else.
LEMMA AvailabilityInv ==
  ASSUME NEW m, TrackerInv(m), NEW p \in Peers, NEW A \in SUBSET Indices
  PROVE  TrackerInv([m EXCEPT !.peerPieces[p] = A])
<1> DEFINE n == [m EXCEPT !.peerPieces[p] = A]
<1>1. n \in TrackerType
  BY DEF TrackerInv, TrackerType
<1>2. /\ n.state = m.state /\ n.blocks = m.blocks
      /\ n.received = m.received /\ n.pending = m.pending
  BY DEF TrackerInv, TrackerType
<1>3. Synced(n) /\ Counted(n)
  BY <1>2 DEF TrackerInv, Synced, Counted
<1>4. Verified(n)
  BY <1>2, HashLocal DEF TrackerInv, Verified
<1> QED
  BY <1>1, <1>3, <1>4 DEF TrackerInv

\* on_peer_bitfield keeps TrackerInv.
LEMMA OnPeerBitfieldInv ==
  ASSUME NEW m, TrackerInv(m), NEW p \in Peers, NEW bits \in SUBSET Indices
  PROVE  TrackerInv(OnPeerBitfield(m, p, bits))
<1>1. bits \cap Pieces \in SUBSET Indices
  OBVIOUS
<1> QED
  BY <1>1, AvailabilityInv DEF OnPeerBitfield

\* on_peer_have keeps TrackerInv.
LEMMA OnPeerHaveInv ==
  ASSUME NEW m, TrackerInv(m), NEW p \in Peers, NEW i \in Indices
  PROVE  TrackerInv(OnPeerHave(m, p, i))
<1>1. m.peerPieces[p] \cup {i} \in SUBSET Indices
  BY DEF TrackerInv, TrackerType
<1>2. OnPeerHave(m, p, i) = [m EXCEPT !.peerPieces[p] = m.peerPieces[p] \cup {i}]
  BY DEF OnPeerHave
<1> QED
  BY <1>1, <1>2, AvailabilityInv

\* remove_peer keeps TrackerInv.
LEMMA RemovePeerInv ==
  ASSUME NEW m, TrackerInv(m), NEW p \in Peers
  PROVE  TrackerInv(RemovePeer(m, p))
<1>1. {} \in SUBSET Indices
  OBVIOUS
<1> QED
  BY <1>1, AvailabilityInv DEF RemovePeer

-----------------------------------------------------------------------------
(* Selection and release *)

\* select_piece keeps TrackerInv: the piece enters _pending and PENDING at once.
LEMMA SelectPieceInv ==
  ASSUME NEW m, TrackerInv(m), NEW i \in Pieces
  PROVE  TrackerInv(SelectPiece(m, i))
<1> DEFINE n == SelectPiece(m, i)
<1>1. n \in TrackerType
  BY DEF TrackerInv, TrackerType, SelectPiece, PieceState
<1>2. /\ n.blocks = m.blocks /\ n.received = m.received
      /\ n.pending = m.pending \cup {i}
      /\ n.state = [m.state EXCEPT ![i] = "PENDING"]
  BY DEF TrackerInv, TrackerType, SelectPiece
<1>3. m.state \in [Pieces -> PieceState]
  BY DEF TrackerInv, TrackerType
<1>4. Synced(n) /\ Counted(n)
  BY <1>2, <1>3 DEF TrackerInv, Synced, Counted
<1>5. Verified(n)
  BY <1>2, <1>3, HashLocal DEF TrackerInv, Verified
<1> QED
  BY <1>1, <1>4, <1>5 DEF TrackerInv

\* mark_piece_failed, for any set of pieces, keeps TrackerInv.
LEMMA MarkPiecesFailedInv ==
  ASSUME NEW m, TrackerInv(m), NEW R \in SUBSET Pieces
  PROVE  TrackerInv(MarkPiecesFailed(m, R))
<1> DEFINE n == MarkPiecesFailed(m, R)
<1>1. n \in TrackerType
  BY DEF TrackerInv, TrackerType, MarkPiecesFailed, EmptyBlocks, PieceState
<1>2. /\ n.blocks = [i \in Pieces |-> IF i \in R THEN EmptyBlocks ELSE m.blocks[i]]
      /\ n.received = [i \in Pieces |-> IF i \in R THEN 0 ELSE m.received[i]]
      /\ n.state = [i \in Pieces |-> IF i \in R THEN "NEEDED" ELSE m.state[i]]
      /\ n.pending = m.pending \ R
  BY DEF TrackerInv, TrackerType, MarkPiecesFailed
<1>3. Synced(n) /\ Counted(n)
  BY <1>2 DEF TrackerInv, Synced, Counted
<1>4. Verified(n)
  BY <1>2, HashLocal DEF TrackerInv, Verified
<1> QED
  BY <1>1, <1>3, <1>4 DEF TrackerInv

-----------------------------------------------------------------------------
(* Receiving blocks *)

\* The offset of a block that fits is an offset of the model.
LEMMA FitsOffset ==
  ASSUME NEW i \in Pieces, NEW o, NEW d, BlockFits(i, o, d)
  PROVE  o \in Offsets
<1>1. LengthOf(i) \in 1 .. PieceLength
  BY LengthOfRange
<1> QED
  BY <1>1, SizeAssumption DEF BlockFits, Offsets

\* Piece.add_block changes the blocks and the count of one piece, and the count
\* does not shrink.
LEMMA StoreBlockFrame ==
  ASSUME NEW m \in TrackerType, NEW i \in Pieces, NEW o \in Offsets, NEW d \in BlockData
  PROVE  LET n == StoreBlock(m, i, o, d) IN
         /\ n \in TrackerType
         /\ n.state = m.state /\ n.pending = m.pending /\ n.peerPieces = m.peerPieces
         /\ n.received[i] >= m.received[i]
         /\ \A j \in Pieces \ {i} : n.blocks[j] = m.blocks[j] /\ n.received[j] = m.received[j]
<1> DEFINE n == StoreBlock(m, i, o, d)
           k == IF m.blocks[i][o] = NoBlock THEN d.len ELSE 0
<1>1. k \in Nat /\ m.received[i] \in Nat /\ m.received[i] + k \in Nat
  BY DEF TrackerType, BlockData
<1>2. n = [m EXCEPT !.received  = [m.received EXCEPT ![i] = m.received[i] + k],
                    !.blocks = [m.blocks EXCEPT ![i] = [m.blocks[i] EXCEPT ![o] = d]]]
  BY DEF StoreBlock
<1> HIDE DEF n, k
<1>3. n \in TrackerType
  BY <1>1, <1>2 DEF TrackerType
<1>4. n.state = m.state /\ n.pending = m.pending /\ n.peerPieces = m.peerPieces
  BY <1>2 DEF TrackerType
<1>5. /\ n.received = [m.received EXCEPT ![i] = m.received[i] + k]
      /\ n.blocks = [m.blocks EXCEPT ![i] = [m.blocks[i] EXCEPT ![o] = d]]
  BY <1>2 DEF TrackerType
<1>6. n.received[i] >= m.received[i]
  BY <1>1, <1>5 DEF TrackerType
<1>7. \A j \in Pieces \ {i} : n.blocks[j] = m.blocks[j] /\ n.received[j] = m.received[j]
  BY <1>5 DEF TrackerType
<1> QED
  BY <1>3, <1>4, <1>6, <1>7 DEF n

\* What add_block does after storing the block when every byte is counted:
\* verify and leave _pending.
LEMMA VerifyFrame ==
  ASSUME NEW m \in TrackerType, NEW i \in Pieces, IsCompleteRaw(m, i)
  PROVE  LET n == [Verify(m, i) EXCEPT !.pending = @ \ {i}] IN
         /\ n \in TrackerType
         /\ n.pending = m.pending \ {i}
         /\ \A j \in Pieces \ {i} : /\ n.blocks[j] = m.blocks[j]
                                    /\ n.received[j] = m.received[j]
                                    /\ n.state[j] = m.state[j]
         /\ \/ /\ HashMatches(m, i) /\ n.state[i] = "COMPLETE"
               /\ n.blocks[i] = m.blocks[i] /\ n.received[i] = m.received[i]
            \/ /\ ~HashMatches(m, i) /\ n.state[i] = "NEEDED"
               /\ n.blocks[i] = EmptyBlocks /\ n.received[i] = 0
<1> DEFINE n == [Verify(m, i) EXCEPT !.pending = @ \ {i}]
<1>1. CASE HashMatches(m, i)
  <2>1. n = [m EXCEPT !.state = [m.state EXCEPT ![i] = "COMPLETE"],
                      !.pending = m.pending \ {i}]
    BY <1>1 DEF Verify, TrackerType
  <2> HIDE DEF n
  <2>2. n \in TrackerType
    BY <2>1 DEF TrackerType, PieceState
  <2>3. /\ n.state = [m.state EXCEPT ![i] = "COMPLETE"] /\ n.pending = m.pending \ {i}
        /\ n.blocks = m.blocks /\ n.received = m.received
    BY <2>1 DEF TrackerType
  <2>4. n.state[i] = "COMPLETE" /\ \A j \in Pieces \ {i} : n.state[j] = m.state[j]
    BY <2>3 DEF TrackerType
  <2> QED
    BY <1>1, <2>2, <2>3, <2>4 DEF n
<1>2. CASE ~HashMatches(m, i)
  <2>1. n = [m EXCEPT !.blocks = [m.blocks EXCEPT ![i] = EmptyBlocks],
                      !.received = [m.received EXCEPT ![i] = 0],
                      !.state = [m.state EXCEPT ![i] = "NEEDED"],
                      !.pending = m.pending \ {i}]
    BY <1>2 DEF Verify, Reset, TrackerType
  <2> HIDE DEF n
  <2>2. n \in TrackerType
    BY <2>1 DEF TrackerType, PieceState, EmptyBlocks
  <2>3. /\ n.state = [m.state EXCEPT ![i] = "NEEDED"] /\ n.pending = m.pending \ {i}
        /\ n.blocks = [m.blocks EXCEPT ![i] = EmptyBlocks]
        /\ n.received = [m.received EXCEPT ![i] = 0]
    BY <2>1 DEF TrackerType
  <2>4. /\ n.state[i] = "NEEDED" /\ n.blocks[i] = EmptyBlocks /\ n.received[i] = 0
        /\ \A j \in Pieces \ {i} : /\ n.blocks[j] = m.blocks[j]
                                   /\ n.received[j] = m.received[j]
                                   /\ n.state[j] = m.state[j]
    BY <2>3 DEF TrackerType
  <2> QED
    BY <1>2, <2>2, <2>3, <2>4 DEF n
<1> QED
  BY <1>1, <1>2

\* add_block keeps TrackerInv, whatever block arrives and whatever state the
\* piece is in.
LEMMA AddBlockInv ==
  ASSUME NEW m, TrackerInv(m),
         NEW i \in Pieces, NEW o \in Offsets, NEW d \in BlockData
  PROVE  TrackerInv(AddBlock(m, i, o, d))
<1> DEFINE t == StoreBlock(m, i, o, d)
           n == AddBlock(m, i, o, d)
<1>1. /\ t \in TrackerType
      /\ t.state = m.state /\ t.pending = m.pending
      /\ t.received[i] >= m.received[i]
      /\ \A j \in Pieces \ {i} : t.blocks[j] = m.blocks[j] /\ t.received[j] = m.received[j]
  BY StoreBlockFrame DEF TrackerInv
<1>2. m.received[i] \in Nat /\ t.received[i] \in Nat /\ LengthOf(i) \in Nat
  BY <1>1, LengthOfRange, SizeAssumption DEF TrackerInv, TrackerType
<1>3. CASE ~IsCompleteRaw(t, i)
  <2>1. n = t
    BY <1>3 DEF AddBlock
  <2>2. m.state[i] # "COMPLETE"
    BY <1>1, <1>2, <1>3 DEF TrackerInv, Counted, IsCompleteRaw
  <2>3. Synced(t) /\ Counted(t)
    BY <1>1, <2>2 DEF TrackerInv, Synced, Counted
  <2>4. Verified(t)
    BY <1>1, <2>2, HashLocal DEF TrackerInv, Verified
  <2> QED
    BY <1>1, <2>1, <2>3, <2>4 DEF TrackerInv
<1>4. CASE IsCompleteRaw(t, i)
  <2>1. n = [Verify(t, i) EXCEPT !.pending = @ \ {i}]
    BY <1>4 DEF AddBlock
  <2> HIDE DEF n, t
  <2>2. /\ n \in TrackerType
        /\ n.pending = t.pending \ {i}
        /\ \A j \in Pieces \ {i} : /\ n.blocks[j] = t.blocks[j]
                                   /\ n.received[j] = t.received[j]
                                   /\ n.state[j] = t.state[j]
        /\ \/ /\ HashMatches(t, i) /\ n.state[i] = "COMPLETE"
              /\ n.blocks[i] = t.blocks[i] /\ n.received[i] = t.received[i]
           \/ ~HashMatches(t, i) /\ n.state[i] = "NEEDED"
    BY <1>1, <1>4, <2>1, VerifyFrame
  <2>3. Synced(n)
    BY <1>1, <2>2 DEF TrackerInv, Synced
  <2>4. Counted(n)
    BY <1>1, <1>4, <2>2 DEF TrackerInv, Counted, IsCompleteRaw
  <2>5. ASSUME NEW j \in Pieces, n.state[j] = "COMPLETE"
        PROVE  HashMatches(n, j)
    <3>1. CASE j = i
      BY <2>2, <2>5, <3>1, HashLocal
    <3>2. CASE j # i
      <4>1. m.state[j] = "COMPLETE" /\ n.blocks[j] = m.blocks[j]
        BY <1>1, <2>2, <2>5, <3>2
      <4> QED
        BY <4>1, HashLocal DEF TrackerInv, Verified
    <3> QED
      BY <3>1, <3>2
  <2> QED
    BY <2>2, <2>3, <2>4, <2>5 DEF TrackerInv, Verified, n
<1> QED
  BY <1>3, <1>4

\* add_block makes no piece PENDING, and it reports success exactly for a piece
\* it leaves COMPLETE.
LEMMA AddBlockStates ==
  ASSUME NEW m, TrackerInv(m),
         NEW i \in Pieces, NEW o \in Offsets, NEW d \in BlockData
  PROVE  LET n == AddBlock(m, i, o, d) IN
         /\ \A j \in Pieces : n.state[j] = "PENDING" => m.state[j] = "PENDING"
         /\ AddBlockResult(m, i, o, d) => n.state[i] = "COMPLETE"
<1> DEFINE t == StoreBlock(m, i, o, d)
           n == AddBlock(m, i, o, d)
<1>1. t \in TrackerType /\ t.state = m.state
  BY StoreBlockFrame DEF TrackerInv
<1>2. CASE ~IsCompleteRaw(t, i)
  BY <1>1, <1>2 DEF AddBlock, AddBlockResult
<1>3. CASE IsCompleteRaw(t, i)
  <2>1. n = [Verify(t, i) EXCEPT !.pending = @ \ {i}]
    BY <1>3 DEF AddBlock
  <2>2. AddBlockResult(m, i, o, d) => HashMatches(t, i)
    BY DEF AddBlockResult
  <2> HIDE DEF n, t
  <2>3. /\ \A j \in Pieces \ {i} : n.state[j] = t.state[j]
        /\ \/ HashMatches(t, i) /\ n.state[i] = "COMPLETE"
           \/ ~HashMatches(t, i) /\ n.state[i] = "NEEDED"
    BY <1>1, <1>3, <2>1, VerifyFrame
  <2> QED
    BY <1>1, <2>2, <2>3 DEF n
<1> QED
  BY <1>2, <1>3

-----------------------------------------------------------------------------
(* The specification *)

\* Initially, and after any call, the tracker satisfies TrackerInv.
LEMMA TrackerInvInductive ==
  /\ PMInit => TrackerOK
  /\ TrackerOK /\ [PMNext]_pm => TrackerOK'
<1>1. PMInit => TrackerInv(pm)
  BY NewTrackerInv DEF PMInit
<1>2. ASSUME TrackerInv(pm), PMNext
      PROVE  TrackerInv(pm')
  <2>1. CASE \E p \in Peers : CallBitfield(p)
    BY <1>2, <2>1, OnPeerBitfieldInv DEF CallBitfield
  <2>2. CASE \E p \in Peers : CallHave(p)
    BY <1>2, <2>2, OnPeerHaveInv DEF CallHave
  <2>3. CASE \E p \in Peers : CallRemove(p)
    BY <1>2, <2>3, RemovePeerInv DEF CallRemove
  <2>4. CASE \E p \in Peers : CallSelect(p)
    <3>1. PICK p \in Peers : /\ ~SelectRaises(pm, p)
                             /\ \E i \in Rarest(pm, p) : pm' = SelectPiece(pm, i)
      BY <2>4 DEF CallSelect
    <3>2. PICK i \in Rarest(pm, p) : pm' = SelectPiece(pm, i)
      BY <3>1
    <3>3. i \in Pieces
      BY <3>1 DEF Rarest, Candidates, SelectRaises
    <3> QED
      BY <1>2, <3>2, <3>3, SelectPieceInv
  <2>5. CASE \E i \in Pieces : CallAddBlock(i)
    <3>1. PICK i \in Pieces, o \in Offsets, d \in Payloads : pm' = AddBlock(pm, i, o, d)
      BY <2>5 DEF CallAddBlock
    <3>2. d \in BlockData
      BY CallAssumption
    <3> QED
      BY <1>2, <3>1, <3>2, AddBlockInv
  <2>6. CASE \E i \in Pieces : CallMarkFailed(i)
    BY <1>2, <2>6, MarkPiecesFailedInv DEF CallMarkFailed
  <2> QED
    BY <1>2, <2>1, <2>2, <2>3, <2>4, <2>5, <2>6 DEF PMNext
<1> QED
  BY <1>1, <1>2 DEF TrackerOK

\* Under any sequence of calls the tracker has its type, _pending and the
\* PENDING states agree, and a COMPLETE piece holds bytes that match its hash.
THEOREM TrackerCorrect ==
  PMSpec => [](PMTypeOK /\ PendingMatchesState /\ CompleteIsVerified)
<1>1. TrackerOK => PMTypeOK /\ PendingMatchesState /\ CompleteIsVerified
  BY DEF TrackerOK, TrackerInv, PMTypeOK, PendingMatchesState, CompleteIsVerified
<1> QED
  BY <1>1, TrackerInvInductive, PTL DEF PMSpec

=============================================================================
