CONSTANTS
  s1 = s1
  s2 = s2
  s3 = s3
  p1 = p1
  p2 = p2
  p3 = p3
  Sessions <- TwoSessions
  Peers <- TwoPeers
  PeerId <- TwoIds
  Has <- HasAll
  Payloads <- NoPayloads
  NumPieces = 2
  PieceLength = 3
  TotalLength = 5
  BLOCK_SIZE = 2
  NoBlock = NoBlock
  Indices = {0, 1}
  PIPELINE_DEPTH = 2
  INIT_MESSAGES = 2
  MaxConnects = 2
  MaxActive = 1
  Corrupt = {}
  Stray = {}
  Steady = {s1}
SPECIFICATION FairSpec
PROPERTY EventuallyDone
CHECK_DEADLOCK FALSE
