---------------------------- MODULE PieceManager ----------------------------
(***************************************************************************)
(* The piece tracker of client/modules/pieceManager.py: classes Piece and  *)
(* PieceManager.                                                           *)
(*                                                                         *)
(* The whole tracker is one record, pm.  Every method is an operator from  *)
(* a tracker to a tracker, so that a coroutine that calls several of them  *)
(* before its next await can be written as one step.  PMSpec lets any      *)
(* caller make any call in any order; PeerPool composes the same operators *)
(* in the order the download loop calls them.                              *)
(*                                                                         *)
(* Abstractions.  Byte counts keep their arithmetic but are counted in     *)
(* units of the model, with BLOCK_SIZE a constant.  The bytes of a block   *)
(* are reduced to their number and to whether they are the torrent's bytes *)
(* at that offset.  A peer without an availability record and a peer with  *)
(* an empty one are the same: every reader uses .get(peer_id, set()).      *)
(***************************************************************************)
EXTENDS Integers, FiniteSets

CONSTANTS
  NumPieces,    \* len(piece_hashes)
  PieceLength,  \* piece_length
  TotalLength,  \* total_length
  BLOCK_SIZE,   \* size of a block request
  Peers,        \* the peer ids that occur
  NoBlock       \* marks an offset with nothing stored

ASSUME SizeAssumption ==
  /\ NumPieces \in Nat \ {0}
  /\ PieceLength \in Nat \ {0}
  /\ TotalLength \in Nat
  /\ BLOCK_SIZE \in Nat \ {0}

Pieces  == 0 .. NumPieces - 1
Offsets == 0 .. PieceLength - 1

\* The bytes of a received block: how many, and whether they are the right ones.
BlockData == [len : Nat, ok : BOOLEAN]

ASSUME NoBlockAssumption == NoBlock \notin BlockData

PieceState == {"NEEDED", "PENDING", "COMPLETE"}

VARIABLE pm

-----------------------------------------------------------------------------
(* Construction *)

\* The length of piece i: the last piece takes the remainder.
LengthOf(i) ==
  IF i < NumPieces - 1 \/ TotalLength % PieceLength = 0
    THEN PieceLength
    ELSE TotalLength % PieceLength

EmptyBlocks == [o \in Offsets |-> NoBlock]

NewTracker ==
  [ state      |-> [i \in Pieces |-> "NEEDED"],
    blocks     |-> [i \in Pieces |-> EmptyBlocks],
    received   |-> [i \in Pieces |-> 0],
    pending    |-> {},
    peerPieces |-> [p \in Peers |-> {}] ]

-----------------------------------------------------------------------------
(* Blocks of one piece: class Piece *)

\* The checks of Piece.add_block; when one fails it raises and stores nothing.
BlockFits(i, o, d) ==
  /\ o \in 0 .. LengthOf(i) - 1
  /\ o + d.len <= LengthOf(i)

\* Piece.add_block: the length is counted the first time an offset is filled.
StoreBlock(m, i, o, d) ==
  [m EXCEPT !.received[i]  = @ + (IF m.blocks[i][o] = NoBlock THEN d.len ELSE 0),
            !.blocks[i][o] = d]

IsCompleteRaw(m, i) == m.received[i] >= LengthOf(i)

\* Mutant: only whole blocks are counted, the short last one is forgotten.
WholeBlockOffsets(i) == {o \in 0 .. LengthOf(i) - BLOCK_SIZE : o % BLOCK_SIZE = 0}

\* The offsets at which the client requests blocks, and the size it asks for.
BlockOffsets(i) == {o \in 0 .. LengthOf(i) - 1 : o % BLOCK_SIZE = 0}
SizeAt(i, o)    == IF LengthOf(i) - o < BLOCK_SIZE THEN LengthOf(i) - o ELSE BLOCK_SIZE

MissingBlocks(m, i) == {o \in BlockOffsets(i) : m.blocks[i][o] = NoBlock}

Covers(m, i, o, b) ==
  /\ m.blocks[i][o] # NoBlock
  /\ o <= b
  /\ b < o + m.blocks[i][o].len

\* The concatenation of the stored blocks has the expected SHA-1.  SHA-1 is
\* taken to be collision free and the content to be one where shifted bytes
\* differ: then the concatenation is right exactly when every byte of the
\* piece comes from one stored block and that block's bytes are right.
HashMatches(m, i) ==
  \A b \in 0 .. LengthOf(i) - 1 :
    \E o \in Offsets :
      /\ Covers(m, i, o, b)
      /\ m.blocks[i][o].ok
      /\ \A q \in Offsets : Covers(m, i, q, b) => q = o

\* Piece._reset.
Reset(m, i) ==
  [m EXCEPT !.blocks[i]   = EmptyBlocks,
            !.received[i] = 0,
            !.state[i]    = "NEEDED"]

\* Mutant: a mismatch leaves the piece FAILED.
VerifyWithoutReset(m, i) ==
  IF IsCompleteRaw(m, i)
    THEN [m EXCEPT !.state[i] = IF HashMatches(m, i) THEN "COMPLETE" ELSE "FAILED"]
    ELSE m

\* Piece.verify: FAILED lasts only until the _reset of the same call.
Verify(m, i) ==
  IF ~IsCompleteRaw(m, i)   THEN m
  ELSE IF HashMatches(m, i) THEN [m EXCEPT !.state[i] = "COMPLETE"]
  ELSE Reset(m, i)

-----------------------------------------------------------------------------
(* Class PieceManager *)

\* on_peer_bitfield: bits is the set of positions set in the bitfield, counted
\* from the high bit of the first byte; spare bits past the last piece are cut.
OnPeerBitfield(m, p, bits) == [m EXCEPT !.peerPieces[p] = bits \cap Pieces]

\* on_peer_have records the index as it came.
OnPeerHave(m, p, i) == [m EXCEPT !.peerPieces[p] = @ \cup {i}]

RemovePeer(m, p) == [m EXCEPT !.peerPieces[p] = {}]

\* select_piece looks up the state of every piece the peer is said to have.
SelectRaises(m, p) == ~(m.peerPieces[p] \subseteq Pieces)

\* Mutants: a verified piece, or a piece in progress, can be chosen again.
CandidatesAnyState(m, p) == {i \in m.peerPieces[p] : i \notin m.pending}
CandidatesShared(m, p)   == {i \in m.peerPieces[p] : m.state[i] # "COMPLETE"}

Candidates(m, p) ==
  {i \in m.peerPieces[p] : m.state[i] = "NEEDED" /\ i \notin m.pending}

Rarity(m, i) == Cardinality({p \in Peers : i \in m.peerPieces[p]})

\* The possible results of select_piece; min leaves the choice among equally
\* rare pieces to the iteration order of a set.
Rarest(m, p) ==
  {i \in Candidates(m, p) : \A j \in Candidates(m, p) : Rarity(m, i) <= Rarity(m, j)}

SelectPiece(m, i) == [m EXCEPT !.state[i] = "PENDING", !.pending = @ \cup {i}]

\* Mutants: _pending is cleared only on success; a verified piece is not
\* verified again when a late block overwrites part of it.
AddBlockKeepsPending(m, i, o, d) ==
  LET stored == StoreBlock(m, i, o, d)
  IN  IF IsCompleteRaw(stored, i)
        THEN [Verify(stored, i) EXCEPT !.pending = IF HashMatches(stored, i) THEN @ \ {i} ELSE @]
        ELSE stored
AddBlockVerifiesOnce(m, i, o, d) ==
  LET stored == StoreBlock(m, i, o, d)
  IN  IF IsCompleteRaw(stored, i) /\ m.state[i] # "COMPLETE"
        THEN [Verify(stored, i) EXCEPT !.pending = @ \ {i}]
        ELSE stored

\* add_block, and the Boolean it returns.
AddBlock(m, i, o, d) ==
  LET stored == StoreBlock(m, i, o, d)
  IN  IF IsCompleteRaw(stored, i)
        THEN [Verify(stored, i) EXCEPT !.pending = @ \ {i}]
        ELSE stored

AddBlockResult(m, i, o, d) ==
  LET stored == StoreBlock(m, i, o, d)
  IN  IsCompleteRaw(stored, i) /\ HashMatches(stored, i)

\* mark_piece_failed, for every piece of R.
MarkPiecesFailed(m, R) ==
  [m EXCEPT !.blocks   = [i \in Pieces |-> IF i \in R THEN EmptyBlocks ELSE @[i]],
            !.received = [i \in Pieces |-> IF i \in R THEN 0 ELSE @[i]],
            !.state    = [i \in Pieces |-> IF i \in R THEN "NEEDED" ELSE @[i]],
            !.pending  = @ \ R]

IsDone(m) == \A i \in Pieces : m.state[i] = "COMPLETE"

-----------------------------------------------------------------------------
(* Any caller, any order of calls.  Indices are the piece indices that occur *)
(* in Have messages and bitfields, Payloads the blocks that occur.           *)

CONSTANTS Indices, Payloads

ASSUME CallAssumption ==
  /\ Pieces \subseteq Indices
  /\ Indices \subseteq Nat
  /\ Payloads \subseteq BlockData

PMInit == pm = NewTracker

CallBitfield(p) == \E bits \in SUBSET Indices : pm' = OnPeerBitfield(pm, p, bits)
CallHave(p)     == \E i \in Indices : pm' = OnPeerHave(pm, p, i)
CallRemove(p)   == pm' = RemovePeer(pm, p)

CallSelect(p) ==
  /\ ~SelectRaises(pm, p)
  /\ \E i \in Rarest(pm, p) : pm' = SelectPiece(pm, i)

CallAddBlock(i) ==
  \E o \in Offsets, d \in Payloads :
    /\ BlockFits(i, o, d)
    /\ pm' = AddBlock(pm, i, o, d)

CallMarkFailed(i) == pm' = MarkPiecesFailed(pm, {i})

PMNext ==
  \/ \E p \in Peers : CallBitfield(p)
  \/ \E p \in Peers : CallHave(p)
  \/ \E p \in Peers : CallRemove(p)
  \/ \E p \in Peers : CallSelect(p)
  \/ \E i \in Pieces : CallAddBlock(i)
  \/ \E i \in Pieces : CallMarkFailed(i)

PMSpec == PMInit /\ [][PMNext]_pm

-----------------------------------------------------------------------------
(* Properties *)

TrackerType ==
  [ state      : [Pieces -> PieceState],
    blocks     : [Pieces -> [Offsets -> BlockData \cup {NoBlock}]],
    received   : [Pieces -> Nat],
    pending    : SUBSET Pieces,
    peerPieces : [Peers -> SUBSET Indices] ]

\* The tracker has the shape the Python attributes are declared with.
PMTypeOK == pm \in TrackerType

\* The _pending set and the PENDING states are two copies of one fact, updated
\* at five places of the code: they never disagree.  Were a piece to stay in
\* _pending after its state left PENDING, select_piece would skip it for good.
Synced(m) == m.pending = {i \in Pieces : m.state[i] = "PENDING"}
PendingMatchesState == Synced(pm)

\* A piece in state COMPLETE holds bytes that match its hash, whatever blocks
\* arrive after it was verified: get_piece_data never returns other bytes.
\* A late block overwrites stored bytes, so this rests on add_block verifying
\* a complete piece again.
Verified(m) == \A i \in Pieces : m.state[i] = "COMPLETE" => HashMatches(m, i)
CompleteIsVerified == Verified(pm)
=============================================================================
