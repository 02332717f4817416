CONSTANTS
  s1 = s1
  s2 = s2
  s3 = s3
  p1 = p1
  p2 = p2
  p3 = p3
  Sessions <- TwoSessions
  Peers <- TwoPeers
  PeerId <- TwoIds
  Has <- HasBeyond
  Payloads <- StrayPayloads
  NumPieces = 2
  PieceLength = 2
  TotalLength = 3
  BLOCK_SIZE = 1
  NoBlock = NoBlock
  Indices = {0, 1, 2}
  PIPELINE_DEPTH = 2
  INIT_MESSAGES = 2
  MaxConnects = 1
  MaxActive = 2
  Corrupt = {}
  Stray = {s2}
  Steady = {}
SPECIFICATION Spec
INVARIANTS NoOrphan CompleteIsVerified
CHECK_DEADLOCK FALSE
