CONSTANTS
  s1 = s1
  s2 = s2
  PieceLength = 2
  TotalLength = 5
  Layouts <- SpanningLayout
  Threads = 2
  Faulty = {}
  Sessions = {s1, s2}
  MaxPieces = 0
  MayInterrupt = FALSE
SPECIFICATION DownloadSpec
INVARIANTS CompleteIsOnDisk
