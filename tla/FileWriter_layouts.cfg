CONSTANTS
  PieceLength = 3
  TotalLength = 5
  Layouts <- AllLayouts
  Threads = 2
  Faulty = {2}
SPECIFICATION FairWriterSpec
INVARIANTS WriterTypeOK DiskRight ReturnedIsOnDisk ReadBack
PROPERTIES Drains
