CONSTANTS
  s1 = s1
  s2 = s2
  PieceLength = 2
  TotalLength = 5
  Layouts <- SpanningLayout
  Threads = 2
  Faulty = {3}
  Sessions = {s1, s2}
  MaxPieces = 2
  MayInterrupt = TRUE
SPECIFICATION FairDownloadSpec
INVARIANTS DownloadTypeOK CountedOnDisk CompleteUnlessCut
PROPERTIES Finishes
