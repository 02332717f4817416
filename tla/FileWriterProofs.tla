-------------------------- MODULE FileWriterProofs --------------------------
(***************************************************************************)
(* DiskRight for every layout, piece length and number of threads, under   *)
(* any calls, cancellations, failing writes and close.                     *)
(*                                                                         *)
(* A write goes where the handle stands.  That this is the chunk's place   *)
(* needs that between the seek and the write of a job nobody else moves    *)
(* the handle: one job at most has sought on a file, and the handle stands *)
(* where this job left it.                                                 *)
(***************************************************************************)
EXTENDS FileWriter, ListLemmas

JobState == {"none", "queued", "run", "sought", "done", "failed", "cancelled"}

OneSeeker ==
  \A p, q \in Pieces, f \in Files : job[<<p, f>>] = "sought" /\ job[<<q, f>>] = "sought" => p = q

SoughtAtOffset ==
  \A p \in Pieces, f \in Files : job[<<p, f>>] = "sought" => pos[f] = FileOffset(p, f)

JobsOverlap ==
  \A p \in Pieces, f \in Files : job[<<p, f>>] # "none" => Overlaps(p, f)

WriterInv == WriterTypeOK /\ OneSeeker /\ SoughtAtOffset /\ JobsOverlap /\ DiskRight

-----------------------------------------------------------------------------
(* Arithmetic of the layout *)

\* What Min and Max of two integers are, as the code's min and max.
LEMMA MinMaxTwo ==
  ASSUME NEW a \in Int, NEW b \in Int
  PROVE  /\ Min({a, b}) \in Int /\ Min({a, b}) <= a /\ Min({a, b}) <= b
         /\ Max({a, b}) \in Int /\ Max({a, b}) >= a /\ Max({a, b}) >= b
         /\ Min({a, b}) \in {a, b} /\ Max({a, b}) \in {a, b}
<1>1. \E x \in {a, b} : \A y \in {a, b} : x <= y
  <2>1. CASE a <= b  BY <2>1
  <2>2. CASE b <= a  BY <2>2
  <2> QED  BY <2>1, <2>2
<1>2. \E x \in {a, b} : \A y \in {a, b} : x >= y
  <2>1. CASE a <= b  BY <2>1
  <2>2. CASE b <= a  BY <2>2
  <2> QED  BY <2>1, <2>2
<1>3. Min({a, b}) \in {a, b} /\ \A y \in {a, b} : Min({a, b}) <= y
  BY <1>1 DEF Min
<1>4. Max({a, b}) \in {a, b} /\ \A y \in {a, b} : Max({a, b}) >= y
  BY <1>2 DEF Max
<1> QED  BY <1>3, <1>4

\* The overlap of a piece and a file lies within the file and the torrent, so
\* the chunk's cells are cells of the file and its bytes those that belong
\* there.
LEMMA ChunkPlaced ==
  ASSUME NEW p \in Pieces, NEW f \in Files, Overlaps(p, f), WriterTypeOK
  PROVE  /\ FileOffset(p, f) \in Nat
         /\ DataLen(p, f) \in Nat
         /\ FileOffset(p, f) + DataLen(p, f) <= files[f]
         /\ start[f] + FileOffset(p, f) + DataLen(p, f) <= TotalLength
         /\ start[f] \in Nat
         /\ \A k \in Int : ChunkByte(p, f, k) = start[f] + FileOffset(p, f) + k
<1>1. /\ PieceLength \in Nat /\ TotalLength \in Nat /\ p \in Int
      /\ start[f] \in Int /\ start[f] >= 0
      /\ files[f] \in Int
  BY WriterAssumption DEF WriterTypeOK, Files, Pieces
<1> DEFINE ps == PieceStart(p)
           pe == PieceEnd(p)
<1>2. ps \in Int
  BY <1>1 DEF PieceStart
<1>3. PieceSize(p) \in Int /\ PieceSize(p) <= TotalLength - ps
  <2>1. PieceLength \in Int /\ TotalLength - ps \in Int
    BY <1>1, <1>2
  <2> QED  BY <2>1, MinMaxTwo DEF PieceSize
<1>4. pe \in Int /\ pe <= TotalLength
  <2> HIDE DEF ps
  <2>1. pe = ps + PieceSize(p)
    BY DEF PieceEnd, ps
  <2> QED  BY <1>1, <1>2, <1>3, <2>1
<1>5. GlobalEnd(f) \in Int /\ GlobalEnd(f) = start[f] + files[f]
  BY <1>1 DEF GlobalEnd
<1>6. OverlapStart(p, f) \in Int /\ OverlapStart(p, f) >= start[f]
  BY <1>1, <1>2, MinMaxTwo DEF OverlapStart
<1>7. /\ OverlapEnd(p, f) \in Int
      /\ OverlapEnd(p, f) <= pe /\ OverlapEnd(p, f) <= GlobalEnd(f)
  BY <1>4, <1>5, MinMaxTwo DEF OverlapEnd
<1>8. OverlapStart(p, f) < OverlapEnd(p, f)
  BY DEF Overlaps
<1> HIDE DEF ps, pe
<1>9. /\ FileOffset(p, f) = OverlapStart(p, f) - start[f]
      /\ DataLen(p, f) = OverlapEnd(p, f) - OverlapStart(p, f)
      /\ \A k \in Int : ChunkByte(p, f, k) = ps + (OverlapStart(p, f) - ps) + k
  BY DEF FileOffset, DataLen, ChunkByte, DataStart, ps
<1> QED  BY <1>1, <1>2, <1>4, <1>5, <1>6, <1>7, <1>8, <1>9

-----------------------------------------------------------------------------
(* The invariant *)

\* The writer that __init__ builds: nothing written, no job given out.
LEMMA WriterInitInv == WriterInit => WriterInv
<1> SUFFICES ASSUME WriterInit PROVE WriterInv
  OBVIOUS
<1>1. WriterTypeOK
  BY WriterAssumption DEF WriterInit, WriterTypeOK, Spans, Files
<1>2. \A p \in Pieces, f \in Files : job[<<p, f>>] = "none"
  BY DEF WriterInit
<1>3. DiskRight
  BY DEF WriterInit, DiskRight
<1> QED  BY <1>1, <1>2, <1>3 DEF WriterInv, OneSeeker, SoughtAtOffset, JobsOverlap

\* A step that moves no handle and lets no job seek keeps the invariant, if
\* the jobs it gives out overlap.
LEMMA QuietStep ==
  ASSUME WriterInv, UNCHANGED <<files, start, disk, pos>>,
         open' \subseteq Files,
         closer' \in {"no", "asked", "run", "over"},
         job' \in [Pieces \X Files -> JobState],
         \A p \in Pieces, f \in Files :
           /\ job'[<<p, f>>] = "sought" => job[<<p, f>>] = "sought"
           /\ job'[<<p, f>>] # "none" => Overlaps(p, f)
  PROVE  WriterInv'
<1>1. WriterTypeOK'
  BY DEF WriterInv, WriterTypeOK, JobState, Files
<1>2. OneSeeker'
  BY DEF WriterInv, OneSeeker, Files
<1>3. SoughtAtOffset'
  BY DEF WriterInv, SoughtAtOffset, Files, FileOffset, OverlapStart
<1>4. JobsOverlap'
  BY DEF JobsOverlap, Files, Overlaps, OverlapStart, OverlapEnd, GlobalEnd
<1>5. DiskRight'
  BY DEF WriterInv, DiskRight, Files
<1> QED  BY <1>1, <1>2, <1>3, <1>4, <1>5 DEF WriterInv

\* One job's state changes, to one that is not "sought".
LEMMA QuietJob ==
  ASSUME WriterInv, NEW p \in Pieces, NEW f \in Files, Overlaps(p, f),
         NEW st \in JobState \ {"sought"},
         job' = [job EXCEPT ![<<p, f>>] = st],
         UNCHANGED <<files, start, disk, pos, open, closer>>
  PROVE  WriterInv'
<1>1. job' \in [Pieces \X Files -> JobState]
  BY DEF WriterInv, WriterTypeOK, JobState
<1>2. ASSUME NEW q \in Pieces, NEW g \in Files
      PROVE  /\ job'[<<q, g>>] = "sought" => job[<<q, g>>] = "sought"
             /\ job'[<<q, g>>] # "none" => Overlaps(q, g)
  <2>1. CASE <<q, g>> = <<p, f>>
    BY <2>1 DEF WriterInv, WriterTypeOK
  <2>2. CASE <<q, g>> # <<p, f>>
    BY <2>2 DEF WriterInv, WriterTypeOK, JobsOverlap
  <2> QED  BY <2>1, <2>2
<1> QED  BY <1>1, <1>2, QuietStep DEF WriterInv, WriterTypeOK

\* seek, under the lock: the handle now stands at this job's offset, and no
\* other job relies on it.
LEMMA SeekInv ==
  ASSUME WriterInv, NEW p \in Pieces, NEW f \in Files, Seek(p, f)
  PROVE  WriterInv'
<1>1. Overlaps(p, f)
  BY DEF WriterInv, JobsOverlap, Seek
<1>2. FileOffset(p, f) \in 0 .. TotalLength
  <2>1. /\ FileOffset(p, f) \in Nat /\ DataLen(p, f) \in Nat /\ start[f] \in Nat
        /\ start[f] + FileOffset(p, f) + DataLen(p, f) <= TotalLength
    BY <1>1, ChunkPlaced DEF WriterInv
  <2> QED  BY <2>1, WriterAssumption
<1>3. WriterTypeOK'
  BY <1>2 DEF WriterInv, WriterTypeOK, Seek, Files
<1>4. \A q \in Pieces, g \in Files :
        job'[<<q, g>>] = IF <<q, g>> = <<p, f>> THEN "sought" ELSE job[<<q, g>>]
  BY DEF WriterInv, WriterTypeOK, Seek
<1>5. \A q \in Pieces : job[<<q, f>>] # "sought"
  BY DEF Seek, LockFree
<1>6. OneSeeker'
  <2> SUFFICES ASSUME NEW q \in Pieces, NEW r \in Pieces, NEW g \in Files,
                      job'[<<q, g>>] = "sought", job'[<<r, g>>] = "sought"
               PROVE  q = r
    BY DEF OneSeeker, Files, Seek
  <2>1. CASE g = f
    BY <2>1, <1>4, <1>5
  <2>2. CASE g # f
    BY <2>2, <1>4 DEF WriterInv, OneSeeker
  <2> QED  BY <2>1, <2>2
<1>7. SoughtAtOffset'
  <2> SUFFICES ASSUME NEW q \in Pieces, NEW g \in Files, job'[<<q, g>>] = "sought"
               PROVE  pos'[g] = FileOffset(q, g)
    BY DEF SoughtAtOffset, Files, Seek, FileOffset, OverlapStart
  <2>1. CASE g = f
    <3>1. q = p
      BY <2>1, <1>4, <1>5
    <3> QED  BY <2>1, <3>1 DEF Seek, WriterInv, WriterTypeOK
  <2>2. CASE g # f
    BY <2>2, <1>4 DEF WriterInv, WriterTypeOK, SoughtAtOffset, Seek
  <2> QED  BY <2>1, <2>2
<1>8. JobsOverlap'
  <2> SUFFICES ASSUME NEW q \in Pieces, NEW g \in Files, job'[<<q, g>>] # "none"
               PROVE  Overlaps(q, g)
    BY DEF JobsOverlap, Files, Seek, Overlaps, OverlapStart, OverlapEnd, GlobalEnd
  <2> QED  BY <1>1, <1>4 DEF WriterInv, JobsOverlap
<1>9. DiskRight'
  BY DEF WriterInv, DiskRight, Seek, Files
<1> QED  BY <1>3, <1>6, <1>7, <1>8, <1>9 DEF WriterInv

\* write, whole or in part: the handle stands at this job's offset, so the
\* bytes land where they belong; the job gives the lock back.
LEMMA StoreInv ==
  ASSUME WriterInv, NEW p \in Pieces, NEW f \in Files, job[<<p, f>>] = "sought",
         NEW n \in 0 .. DataLen(p, f), Store(p, f, n),
         NEW st \in {"done", "failed"},
         job' = [job EXCEPT ![<<p, f>>] = st],
         UNCHANGED <<files, start, open, closer>>
  PROVE  WriterInv'
<1>1. Overlaps(p, f) /\ pos[f] = FileOffset(p, f)
  BY DEF WriterInv, JobsOverlap, SoughtAtOffset
<1>2. /\ pos[f] \in Nat /\ start[f] \in Nat /\ n \in Nat /\ files[f] \in Nat
      /\ pos[f] + n <= files[f]
      /\ start[f] + pos[f] + n <= TotalLength
  <2> DEFINE o == FileOffset(p, f)
             d == DataLen(p, f)
             b == start[f]
             l == files[f]
  <2>1. l \in Nat
    BY WriterAssumption DEF WriterInv, WriterTypeOK, Files
  <2>2. o \in Nat /\ d \in Nat /\ b \in Nat /\ o + d <= l /\ b + o + d <= TotalLength
    BY <1>1, ChunkPlaced DEF WriterInv
  <2>3. n \in 0 .. d /\ pos[f] = o /\ TotalLength \in Nat
    BY <1>1, WriterAssumption
  <2> HIDE DEF o, d, b, l
  <2>4. /\ o \in Nat /\ b \in Nat /\ n \in Nat /\ l \in Nat
        /\ o + n <= l /\ b + o + n <= TotalLength
    BY <2>1, <2>2, <2>3
  <2> QED  BY <2>3, <2>4 DEF b, l
<1>2a. \A k \in Int : ChunkByte(p, f, k) = start[f] + pos[f] + k
  BY <1>1, ChunkPlaced DEF WriterInv
<1>3. \A g \in Files, i \in Cells :
        disk'[g][i] = IF g = f /\ i \in pos[f] .. pos[f] + n - 1
                        THEN ChunkByte(p, f, i - pos[f]) ELSE disk[g][i]
  BY DEF Store, WriterInv, WriterTypeOK
<1>4. \A i \in Cells : i \in pos[f] .. pos[f] + n - 1 =>
        /\ i < files[f]
        /\ ChunkByte(p, f, i - pos[f]) = start[f] + i
        /\ start[f] + i \in Cells
  <2> SUFFICES ASSUME NEW i \in Cells, i \in pos[f] .. pos[f] + n - 1
               PROVE  /\ i < files[f]
                      /\ ChunkByte(p, f, i - pos[f]) = start[f] + i
                      /\ start[f] + i \in Cells
    OBVIOUS
  <2> DEFINE o == pos[f]
             b == start[f]
             l == files[f]
  <2>0. /\ o \in Nat /\ b \in Nat /\ l \in Nat /\ o + n <= l /\ b + o + n <= TotalLength
        /\ n \in Nat /\ TotalLength \in Nat /\ i \in o .. o + n - 1
    BY <1>2, WriterAssumption
  <2> HIDE DEF o, b, l
  <2>a. i \in Int /\ i - o \in Int /\ i < l /\ b + i \in 0 .. TotalLength - 1
    BY <2>0
  <2>1. i \in Int /\ i - pos[f] \in Int /\ i < files[f] /\ start[f] + i \in 0 .. TotalLength - 1
    BY <2>a DEF o, b, l
  <2>2. ChunkByte(p, f, i - pos[f]) = start[f] + pos[f] + (i - pos[f])
    BY <1>2a, <2>1
  <2>3. start[f] + pos[f] + (i - pos[f]) = start[f] + i
    BY <1>2, <2>1
  <2> QED  BY <2>1, <2>2, <2>3 DEF Cells
<1>5. WriterTypeOK'
  <2>1. disk' \in [Files -> [Cells -> Cells \cup {Hole}]]
    <3> DEFINE new == [i \in Cells |-> IF i \in pos[f] .. pos[f] + n - 1
                                         THEN ChunkByte(p, f, i - pos[f]) ELSE disk[f][i]]
    <3>1. disk' = [disk EXCEPT ![f] = new]
      BY DEF Store, WriterInv, WriterTypeOK
    <3>2. new \in [Cells -> Cells \cup {Hole}]
      BY <1>4 DEF WriterInv, WriterTypeOK
    <3> HIDE DEF new
    <3> QED  BY <3>1, <3>2 DEF WriterInv, WriterTypeOK
  <2>2. pos' \in [Files -> 0 .. TotalLength]
    <3>1. pos[f] + n \in 0 .. TotalLength
      BY <1>2, WriterAssumption
    <3> QED  BY <3>1 DEF Store, WriterInv, WriterTypeOK
  <2> QED  BY <2>1, <2>2 DEF WriterInv, WriterTypeOK, Files
<1>6. \A q \in Pieces, g \in Files :
        job'[<<q, g>>] = IF <<q, g>> = <<p, f>> THEN st ELSE job[<<q, g>>]
  BY DEF WriterInv, WriterTypeOK
<1>7. OneSeeker'
  <2> SUFFICES ASSUME NEW q \in Pieces, NEW r \in Pieces, NEW g \in Files,
                      job'[<<q, g>>] = "sought", job'[<<r, g>>] = "sought"
               PROVE  q = r
    BY DEF OneSeeker, Files
  <2> QED  BY <1>6 DEF WriterInv, OneSeeker
<1>8. SoughtAtOffset'
  <2> SUFFICES ASSUME NEW q \in Pieces, NEW g \in Files, job'[<<q, g>>] = "sought"
               PROVE  pos'[g] = FileOffset(q, g)
    BY DEF SoughtAtOffset, Files, FileOffset, OverlapStart
  <2>1. job[<<q, g>>] = "sought" /\ <<q, g>> # <<p, f>>
    BY <1>6
  <2>2. g # f
    BY <2>1 DEF WriterInv, OneSeeker
  <2> QED  BY <2>1, <2>2 DEF WriterInv, WriterTypeOK, SoughtAtOffset, Store
<1>9. JobsOverlap'
  <2> SUFFICES ASSUME NEW q \in Pieces, NEW g \in Files, job'[<<q, g>>] # "none"
               PROVE  Overlaps(q, g)
    BY DEF JobsOverlap, Files, Overlaps, OverlapStart, OverlapEnd, GlobalEnd
  <2> QED  BY <1>1, <1>6 DEF WriterInv, JobsOverlap
<1>10. DiskRight'
  <2> SUFFICES ASSUME NEW g \in Files, NEW i \in Cells, disk'[g][i] # Hole
               PROVE  i < files[g] /\ disk'[g][i] = start[g] + i
    BY DEF DiskRight, Files
  <2>1. CASE g = f /\ i \in pos[f] .. pos[f] + n - 1
    BY <2>1, <1>3, <1>4
  <2>2. CASE ~(g = f /\ i \in pos[f] .. pos[f] + n - 1)
    BY <2>2, <1>3 DEF WriterInv, DiskRight
  <2> QED  BY <2>1, <2>2
<1> QED  BY <1>5, <1>7, <1>8, <1>9, <1>10 DEF WriterInv

\* Each step of a thread.
LEMMA ThreadInv ==
  ASSUME WriterInv, NEW p \in Pieces, NEW f \in Files, Thread(p, f)
  PROVE  WriterInv'
<1>1. job[<<p, f>>] # "none" => Overlaps(p, f)
  BY DEF WriterInv, JobsOverlap
<1>2. CASE StartJob(p, f)
  BY <1>1, <1>2, QuietJob DEF StartJob, JobState
<1>3. CASE Seek(p, f)
  BY <1>3, SeekInv
<1>4. CASE SeekFails(p, f)
  BY <1>1, <1>4, QuietJob DEF SeekFails, JobState
<1>5. CASE WriteChunk(p, f)
  <2>1. DataLen(p, f) \in 0 .. DataLen(p, f)
    BY <1>1, <1>5, ChunkPlaced DEF WriteChunk, WriterInv
  <2> QED  BY <1>5, <2>1, StoreInv DEF WriteChunk
<1>6. CASE WriteFails(p, f)
  <2>1. CASE UNCHANGED <<disk, pos>>
    BY <1>1, <1>6, <2>1, QuietJob DEF WriteFails, JobState
  <2>2. CASE \E n \in 0 .. DataLen(p, f) : Store(p, f, n)
    BY <1>6, <2>2, StoreInv DEF WriteFails
  <2> QED  BY <1>6, <2>1, <2>2 DEF WriteFails
<1> QED  BY <1>2, <1>3, <1>4, <1>5, <1>6 DEF Thread

\* The steps of the threads and of close, whoever composes them.
LEMMA WriterStepInv ==
  ASSUME WriterInv, WriterStep
  PROVE  WriterInv'
<1>1. ASSUME NEW p \in Pieces, NEW f \in Files, Thread(p, f)  PROVE WriterInv'
  BY <1>1, ThreadInv
<1> DEFINE Quiet == /\ UNCHANGED <<files, start, disk, pos, job>>
                    /\ open' \subseteq Files /\ closer' \in {"no", "asked", "run", "over"}
<1>2. ASSUME Quiet  PROVE WriterInv'
  BY <1>2, QuietStep DEF WriterInv, WriterTypeOK, JobsOverlap, JobState
<1>3. ASSUME NEW f \in Files, CloseHandle(f)  PROVE Quiet
  BY <1>3 DEF CloseHandle, WriterInv, WriterTypeOK
<1>4. ASSUME CloseStarts  PROVE Quiet
  BY <1>4 DEF CloseStarts, WriterInv, WriterTypeOK
<1>5. ASSUME CloseReturns  PROVE Quiet
  BY <1>5 DEF CloseReturns, WriterInv, WriterTypeOK
<1> HIDE DEF Quiet
<1> QED  BY <1>1, <1>2, <1>3, <1>4, <1>5 DEF WriterStep

\* The calls: write_piece gives out the overlapping jobs, cancellation takes
\* back those no thread has, close only says so.
LEMMA CallInv ==
  ASSUME WriterInv,
         \/ \E p \in Pieces : WritePiece(p)
         \/ \E P : job' = Cancelled(P) /\ UNCHANGED <<files, start, disk, pos, open, closer>>
         \/ Close
  PROVE  WriterInv'
<1>1. CASE \E p \in Pieces : WritePiece(p)
  <2>1. PICK p \in Pieces : WritePiece(p)
    BY <1>1
  <2>2. job' \in [Pieces \X Files -> JobState]
    BY <2>1 DEF WritePiece, WriterInv, WriterTypeOK, JobState
  <2>3. ASSUME NEW q \in Pieces, NEW f \in Files
        PROVE  job'[<<q, f>>] = IF q = p /\ Overlaps(p, f) THEN "queued" ELSE job[<<q, f>>]
    BY <2>1 DEF WritePiece
  <2>4. \A q \in Pieces, f \in Files :
          /\ job'[<<q, f>>] = "sought" => job[<<q, f>>] = "sought"
          /\ job'[<<q, f>>] # "none" => Overlaps(q, f)
    BY <2>3 DEF WriterInv, JobsOverlap
  <2>5. /\ UNCHANGED <<files, start, disk, pos, open, closer>>
        /\ open \subseteq Files /\ closer \in {"no", "asked", "run", "over"}
    BY <2>1 DEF WritePiece, WriterInv, WriterTypeOK
  <2> QED  BY <2>2, <2>4, <2>5, QuietStep
<1>2. CASE \E P : job' = Cancelled(P) /\ UNCHANGED <<files, start, disk, pos, open, closer>>
  <2>1. PICK P : job' = Cancelled(P) /\ UNCHANGED <<files, start, disk, pos, open, closer>>
    BY <1>2
  <2>2. job' \in [Pieces \X Files -> JobState]
    BY <2>1 DEF Cancelled, WriterInv, WriterTypeOK, JobState
  <2>3. ASSUME NEW q \in Pieces, NEW f \in Files
        PROVE  job'[<<q, f>>] = IF q \in P /\ job[<<q, f>>] = "queued" THEN "cancelled" ELSE job[<<q, f>>]
    BY <2>1 DEF Cancelled
  <2> QED  BY <2>1, <2>2, <2>3, QuietStep DEF WriterInv, WriterTypeOK, JobsOverlap
<1>3. CASE Close
  BY <1>3, QuietStep DEF Close, WriterInv, WriterTypeOK, JobsOverlap, JobState
<1> QED  BY <1>1, <1>2, <1>3

\* One step of any caller or thread keeps the invariant.
LEMMA WriterNextInv == WriterInv /\ [WriterNext]_writerVars => WriterInv'
<1> SUFFICES ASSUME WriterInv, [WriterNext]_writerVars  PROVE WriterInv'
  OBVIOUS
<1>1. CASE UNCHANGED writerVars
  BY <1>1, QuietStep DEF writerVars, WriterInv, WriterTypeOK, JobsOverlap, JobState
<1>2. CASE WriterStep
  BY <1>2, WriterStepInv
<1>3. CASE Close \/ \E p \in Pieces : WritePiece(p)
  BY <1>3, CallInv
<1>4. CASE \E p \in Pieces : CancelWrite(p)
  <2>1. PICK p \in Pieces : CancelWrite(p)
    BY <1>4
  <2>2. \E P : job' = Cancelled(P) /\ UNCHANGED <<files, start, disk, pos, open, closer>>
    BY <2>1 DEF CancelWrite
  <2> QED  BY <2>2, CallInv
<1> QED  BY <1>1, <1>2, <1>3, <1>4 DEF WriterNext, WriterIdle

\* For every layout, piece length, number of threads and set of failing files:
\* what FileWriter has put on disk lies within its file and is the byte that
\* belongs there, in every state.
THEOREM WriterCorrect == WriterSpec => [](WriterTypeOK /\ DiskRight)
<1>1. WriterSpec => []WriterInv
  BY WriterInitInv, WriterNextInv, PTL DEF WriterSpec
<1>2. WriterInv => WriterTypeOK /\ DiskRight
  BY DEF WriterInv
<1> QED  BY <1>1, <1>2, PTL


-----------------------------------------------------------------------------
(* The files laid end to end *)

\* The first n bytes of a file.
LEMMA RowCard ==
  ASSUME NEW f, NEW n \in Nat
  PROVE  IsFiniteSet({f} \X (0 .. n - 1)) /\ Cardinality({f} \X (0 .. n - 1)) = n
<1>1. IsFiniteSet({f}) /\ Cardinality({f}) = 1
  BY FS_Singleton
<1>2. IsFiniteSet(0 .. n - 1) /\ Cardinality(0 .. n - 1) = n
  <2>1. 0 \in Int /\ n - 1 \in Int
    OBVIOUS
  <2>2. /\ IsFiniteSet(0 .. n - 1)
        /\ Cardinality(0 .. n - 1) = IF 0 > n - 1 THEN 0 ELSE n - 1 - 0 + 1
    BY <2>1, FS_Interval
  <2> QED
    BY <2>2
<1>3. /\ IsFiniteSet({f} \X (0 .. n - 1))
      /\ Cardinality({f} \X (0 .. n - 1)) = Cardinality({f}) * Cardinality(0 .. n - 1)
  BY <1>1, <1>2, FS_Product
<1> QED
  BY <1>1, <1>2, <1>3

\* Adding the first n bytes of one more file.
LEMMA RowAdded ==
  ASSUME NEW S, IsFiniteSet(S), NEW f, NEW n \in Nat, \A x \in S : x[1] # f
  PROVE  /\ IsFiniteSet(S \cup ({f} \X (0 .. n - 1)))
         /\ Cardinality(S \cup ({f} \X (0 .. n - 1))) = Cardinality(S) + n
<1> DEFINE R == {f} \X (0 .. n - 1)
<1>1. IsFiniteSet(R) /\ Cardinality(R) = n
  BY RowCard
<1>2. S \cap R = {}
  OBVIOUS
<1> HIDE DEF R
<1>3. /\ IsFiniteSet(S \cup R)
      /\ Cardinality(S \cup R) = Cardinality(S) + Cardinality(R) - Cardinality(S \cap R)
  BY <1>1, FS_Union
<1>4. Cardinality(S \cap R) = 0 /\ Cardinality(S) \in Nat
  BY <1>2, FS_EmptySet, FS_CardinalityType
<1>5. IsFiniteSet(S \cup R) /\ Cardinality(S \cup R) = Cardinality(S) + n
  BY <1>1, <1>3, <1>4
<1> QED
  BY <1>5 DEF R

\* The bytes of the files before f.
Pre(l, f) == {x \in Bytes(l) : x[1] < f}

\* One file more.
LEMMA PreNext ==
  ASSUME NEW l \in Seq(Nat), NEW f \in DOMAIN l
  PROVE  /\ \A n \in 0 .. l[f] :
              {x \in Bytes(l) : x[1] < f \/ (x[1] = f /\ x[2] < n)} = Pre(l, f) \cup ({f} \X (0 .. n - 1))
         /\ f + 1 \in DOMAIN l => Pre(l, f + 1) = Pre(l, f) \cup ({f} \X (0 .. l[f] - 1))
         /\ f = Len(l) => Bytes(l) = Pre(l, f) \cup ({f} \X (0 .. l[f] - 1))
         /\ \A x \in Pre(l, f) : x[1] # f
<1>1. DOMAIN l = 1 .. Len(l) /\ Len(l) \in Nat /\ \A g \in DOMAIN l : l[g] \in Nat
  OBVIOUS
<1>2. \A x : x \in Bytes(l) <=>
        \E g \in DOMAIN l : \E i \in 0 .. l[g] - 1 : x = <<g, i>>
  BY DEF Bytes
<1>3. \A x \in Bytes(l) : /\ x[1] \in 1 .. Len(l) /\ x[2] \in 0 .. l[x[1]] - 1
                          /\ x = <<x[1], x[2]>>
  BY <1>1, <1>2
<1>4. \A n \in 0 .. l[f] : \A x : x \in {f} \X (0 .. n - 1) <=>
        x = <<f, x[2]>> /\ x[2] \in 0 .. n - 1
  OBVIOUS
<1>5. ASSUME NEW n \in 0 .. l[f], NEW x, x \in {f} \X (0 .. n - 1)
      PROVE  x \in Bytes(l) /\ x[1] = f /\ x[2] < n
  <2>1. PICK i \in 0 .. n - 1 : x = <<f, i>>
    BY <1>5
  <2>2. i \in 0 .. l[f] - 1
    BY <1>1
  <2> QED
    BY <1>2, <2>1, <2>2
<1>6. ASSUME NEW n \in 0 .. l[f], NEW x \in Bytes(l), x[1] = f, x[2] < n
      PROVE  x \in {f} \X (0 .. n - 1)
  <2>1. x[2] \in 0 .. n - 1 /\ x = <<f, x[2]>>
    BY <1>1, <1>3, <1>6
  <2> QED
    BY <2>1
<1>7. ASSUME NEW n \in 0 .. l[f]
      PROVE  {x \in Bytes(l) : x[1] < f \/ (x[1] = f /\ x[2] < n)} = Pre(l, f) \cup ({f} \X (0 .. n - 1))
  BY <1>5, <1>6 DEF Pre
<1>8. l[f] \in 0 .. l[f]
  BY <1>1
<1>9. ASSUME NEW x \in Bytes(l), x[1] = f PROVE x[2] < l[f]
  BY <1>1, <1>3, <1>9
<1>10. {x \in Bytes(l) : x[1] < f \/ x[1] = f} = Pre(l, f) \cup ({f} \X (0 .. l[f] - 1))
  <2>1. {x \in Bytes(l) : x[1] < f \/ (x[1] = f /\ x[2] < l[f])} = Pre(l, f) \cup ({f} \X (0 .. l[f] - 1))
    BY <1>7, <1>8, Zenon
  <2>2. {x \in Bytes(l) : x[1] < f \/ x[1] = f} = {x \in Bytes(l) : x[1] < f \/ (x[1] = f /\ x[2] < l[f])}
    BY <1>9, Zenon
  <2> QED
    BY <2>1, <2>2, Zenon
<1>11. ASSUME NEW x \in Bytes(l)
       PROVE  (x[1] < f + 1 <=> x[1] < f \/ x[1] = f) /\ (f = Len(l) => x[1] < f \/ x[1] = f)
  <2>1. x[1] \in 1 .. Len(l)
    BY <1>3
  <2>2. f \in Nat /\ Len(l) \in Nat
    BY <1>1
  <2> QED
    BY <2>1, <2>2
<1>12. Pre(l, f + 1) = {x \in Bytes(l) : x[1] < f \/ x[1] = f}
  BY <1>11 DEF Pre
<1>13. f = Len(l) => Bytes(l) = {x \in Bytes(l) : x[1] < f \/ x[1] = f}
  BY <1>11
<1>14. \A x \in Pre(l, f) : x[1] # f
  BY <1>1, <1>3 DEF Pre
<1> QED
  BY <1>7, <1>10, <1>12, <1>13, <1>14

\* The running offset of __init__ counts the bytes before a file.
LEMMA SpansCount ==
  ASSUME NEW l \in Layouts, NEW s \in Spans(l), NEW f \in DOMAIN l
  PROVE  IsFiniteSet(Pre(l, f)) /\ Cardinality(Pre(l, f)) = s[f]
<1>1. /\ l \in Seq(Nat) /\ DOMAIN l = 1 .. Len(l) /\ Len(l) \in Nat
      /\ \A g \in DOMAIN l : l[g] \in Nat
  BY WriterAssumption
<1>2. \A g \in DOMAIN l : s[g] = IF g = 1 THEN 0 ELSE s[g - 1] + l[g - 1]
  BY DEF Spans
<1> DEFINE Good(g) == IsFiniteSet(Pre(l, g)) /\ Cardinality(Pre(l, g)) = s[g]
           Bad == {g \in DOMAIN l : ~Good(g)}
<1>3. SUFFICES ASSUME Bad # {} PROVE FALSE
  OBVIOUS
<1>4. PICK m \in Bad : \A g \in Bad : m <= g
  <2>1. Bad \in SUBSET Nat
    BY <1>1
  <2> HIDE DEF Bad
  <2> QED
    BY <1>3, <2>1, MinElement
<1>5. m # 1
  <2>1. Pre(l, 1) = {}
    <3>1. ASSUME NEW x \in Bytes(l) PROVE ~(x[1] < 1)
      <4>1. PICK g \in DOMAIN l : x \in {g} \X (0 .. l[g] - 1)
        BY DEF Bytes
      <4> QED
        BY <1>1, <4>1
    <3> QED
      BY <3>1 DEF Pre
  <2>2. 1 \in DOMAIN l => Good(1)
    BY <1>2, <2>1, FS_EmptySet
  <2> QED
    BY <2>2
<1>6. m - 1 \in DOMAIN l /\ (m - 1) + 1 = m /\ m \in DOMAIN l
  BY <1>1, <1>5
<1>7. Good(m - 1)
  <2>1. m - 1 \notin Bad
    BY <1>1, <1>4, <1>6
  <2> QED
    BY <1>6, <2>1
<1> DEFINE k == m - 1
<1>8. k \in DOMAIN l /\ k + 1 \in DOMAIN l /\ k + 1 = m /\ l[k] \in Nat /\ Good(k)
  BY <1>1, <1>6, <1>7
<1>9. s[m] = s[k] + l[k]
  BY <1>2, <1>5, <1>6
<1> HIDE DEF k
<1>10. /\ Pre(l, k + 1) = Pre(l, k) \cup ({k} \X (0 .. l[k] - 1))
       /\ \A x \in Pre(l, k) : x[1] # k
  BY <1>1, <1>8, PreNext
<1>11. /\ IsFiniteSet(Pre(l, k) \cup ({k} \X (0 .. l[k] - 1)))
       /\ Cardinality(Pre(l, k) \cup ({k} \X (0 .. l[k] - 1))) = Cardinality(Pre(l, k)) + l[k]
  BY <1>8, <1>10, RowAdded
<1>12. Good(m)
  BY <1>8, <1>9, <1>10, <1>11
<1> QED
  BY <1>12

Laid == files \in Layouts /\ start \in Spans(files)

\* A cell's byte is the offset of its file and its place there.
LEMMA ByteAtIs ==
  ASSUME Laid, NEW f \in Files, NEW i \in 0 .. files[f]
  PROVE  ByteAt(f, i) = start[f] + i
<1>1. files \in Seq(Nat) /\ files[f] \in Nat /\ i \in Nat /\ f \in DOMAIN files
  BY WriterAssumption DEF Laid, Files
<1>2. IsFiniteSet(Pre(files, f)) /\ Cardinality(Pre(files, f)) = start[f]
  BY <1>1, SpansCount DEF Laid
<1>3. /\ {x \in Bytes(files) : x[1] < f \/ (x[1] = f /\ x[2] < i)} = Pre(files, f) \cup ({f} \X (0 .. i - 1))
      /\ \A x \in Pre(files, f) : x[1] # f
  BY <1>1, PreNext
<1>4. Cardinality(Pre(files, f) \cup ({f} \X (0 .. i - 1))) = Cardinality(Pre(files, f)) + i
  BY <1>1, <1>2, <1>3, RowAdded
<1> QED
  BY <1>2, <1>3, <1>4 DEF ByteAt

\* The files leave no gap: every byte of the torrent is in one of them.
LEMMA ByteInFile ==
  ASSUME Laid, NEW b \in Cells
  PROVE  \E f \in Files : start[f] <= b /\ b < start[f] + files[f]
<1>1. /\ files \in Seq(Nat) /\ DOMAIN files = 1 .. Len(files) /\ Len(files) \in Nat
      /\ \A g \in DOMAIN files : files[g] \in Nat
      /\ Cardinality(Bytes(files)) = TotalLength /\ TotalLength \in Nat
  BY WriterAssumption DEF Laid
<1>2. /\ \A g \in DOMAIN files : start[g] = IF g = 1 THEN 0 ELSE start[g - 1] + files[g - 1]
      /\ \A g \in DOMAIN files : start[g] \in Nat
  BY <1>1 DEF Laid, Spans
<1>3. b \in Nat /\ b < TotalLength
  BY <1>1 DEF Cells
<1>4. Len(files) # 0
  <2> SUFFICES ASSUME Len(files) = 0 PROVE FALSE
    OBVIOUS
  <2>1. Bytes(files) = {}
    BY <1>1 DEF Bytes
  <2> QED
    BY <1>1, <1>3, <2>1, FS_EmptySet
<1> DEFINE n == Len(files)
           Beyond == {g \in DOMAIN files : b < start[g] + files[g]}
<1>5. n \in Beyond
  <2>1. n \in DOMAIN files
    BY <1>1, <1>4
  <2>2. IsFiniteSet(Pre(files, n)) /\ Cardinality(Pre(files, n)) = start[n]
    BY <2>1, SpansCount DEF Laid
  <2>3. /\ Bytes(files) = Pre(files, n) \cup ({n} \X (0 .. files[n] - 1))
        /\ \A x \in Pre(files, n) : x[1] # n
    BY <1>1, <2>1, PreNext
  <2>4. Cardinality(Pre(files, n) \cup ({n} \X (0 .. files[n] - 1))) = start[n] + files[n]
    <3>1. files[n] \in Nat
      BY <1>1, <2>1
    <3> DEFINE S == Pre(files, n)
               k == files[n]
    <3>2. IsFiniteSet(S) /\ k \in Nat /\ \A x \in S : x[1] # n
      BY <2>2, <2>3, <3>1
    <3> HIDE DEF n, S, k
    <3>3. Cardinality(S \cup ({n} \X (0 .. k - 1))) = Cardinality(S) + k
      BY <3>2, RowAdded
    <3> QED
      BY <2>2, <3>3 DEF S, k
  <2> QED
    BY <1>1, <1>3, <2>1, <2>3, <2>4
<1>6. PICK f \in Beyond : \A g \in Beyond : f <= g
  <2>1. Beyond \in SUBSET Nat
    BY <1>1
  <2> HIDE DEF Beyond, n
  <2> QED
    BY <1>5, <2>1, MinElement
<1>7. start[f] <= b
  <2>1. CASE f = 1
    BY <1>2, <1>3, <2>1
  <2>2. CASE f # 1
    <3>1. f - 1 \in DOMAIN files /\ ~(f <= f - 1)
      BY <1>1, <2>2
    <3>2. ~(b < start[f - 1] + files[f - 1])
      BY <1>6, <3>1
    <3>3. start[f - 1] \in Nat /\ files[f - 1] \in Nat
      BY <1>1, <1>2, <3>1
    <3> QED
      BY <1>2, <1>3, <2>2, <3>2, <3>3
  <2> QED
    BY <2>1, <2>2
<1> QED
  BY <1>7 DEF Files

-----------------------------------------------------------------------------
(* A write that returns *)

\* The cells of a job hold their bytes.
Stored(p, f) ==
  \A i \in FileOffset(p, f) .. FileOffset(p, f) + DataLen(p, f) - 1 : disk[f][i] = start[f] + i

\* What was written stays, a job once given out is never forgotten, and one
\* that is done has stored its chunk.
Keeps ==
  /\ files' = files /\ start' = start
  /\ \A f \in Files, i \in Cells : disk[f][i] # Hole => disk'[f][i] = disk[f][i]
  /\ \A p \in Pieces, f \in Files :
       /\ job[<<p, f>>] # "none" => job'[<<p, f>>] # "none"
       /\ job'[<<p, f>>] = "done" => job[<<p, f>>] = "done" \/ Stored(p, f)'

DoneStored == Laid /\ \A p \in Pieces, f \in Files : job[<<p, f>>] = "done" => Stored(p, f)

\* What a caller and the threads may do to the writer in one step.
WriterCall ==
  \/ WriterStep
  \/ \E p \in Pieces : WritePiece(p)
  \/ \E P : job' = Cancelled(P) /\ UNCHANGED <<files, start, disk, pos, open, closer>>
  \/ Close
  \/ UNCHANGED writerVars

\* A write only adds to the disk: what is there is what it would write.
LEMMA StoreKeeps ==
  ASSUME WriterInv, WriterInv', NEW p \in Pieces, NEW f \in Files, job[<<p, f>>] = "sought",
         NEW n \in 0 .. DataLen(p, f), Store(p, f, n), NEW st \in {"done", "failed"},
         st = "done" => n = DataLen(p, f),
         job' = [job EXCEPT ![<<p, f>>] = st], UNCHANGED <<files, start>>
  PROVE  Keeps
<1>1. Overlaps(p, f) /\ pos[f] = FileOffset(p, f)
  BY DEF WriterInv, JobsOverlap, SoughtAtOffset
<1>2. /\ FileOffset(p, f) \in Nat /\ DataLen(p, f) \in Nat /\ start[f] \in Nat
      /\ start[f] + FileOffset(p, f) + DataLen(p, f) <= TotalLength
      /\ \A k \in Int : ChunkByte(p, f, k) = start[f] + FileOffset(p, f) + k
  BY <1>1, ChunkPlaced DEF WriterInv
<1>3. \A g \in Files, i \in Cells :
        disk'[g][i] = IF g = f /\ i \in pos[f] .. pos[f] + n - 1
                        THEN ChunkByte(p, f, i - pos[f]) ELSE disk[g][i]
  BY DEF Store, WriterInv, WriterTypeOK
<1> DEFINE o == FileOffset(p, f)
           d == DataLen(p, f)
           b == start[f]
<1>4. /\ o \in Nat /\ d \in Nat /\ b \in Nat /\ b + o + d <= TotalLength /\ pos[f] = o
      /\ \A k \in Int : ChunkByte(p, f, k) = b + o + k
      /\ TotalLength \in Nat /\ n \in 0 .. d
  BY <1>1, <1>2, WriterAssumption
<1> HIDE DEF o, d, b
<1>5. ASSUME NEW i \in o .. o + n - 1 PROVE i \in Cells /\ ChunkByte(p, f, i - o) = b + i
  <2>1. i \in 0 .. TotalLength - 1 /\ i - o \in Int /\ b + o + (i - o) = b + i
    BY <1>4
  <2> QED
    BY <1>4, <2>1 DEF Cells
<1>6. ASSUME NEW i \in o .. o + n - 1 PROVE disk'[f][i] = b + i
  <2>1. disk'[f][i] = ChunkByte(p, f, i - pos[f])
    BY <1>3, <1>4, <1>5
  <2> QED
    BY <1>4, <1>5, <2>1
<1>7. ASSUME NEW g \in Files, NEW i \in Cells, disk[g][i] # Hole PROVE disk'[g][i] = disk[g][i]
  <2>1. CASE g = f /\ i \in o .. o + n - 1
    <3>1. disk[f][i] = b + i
      BY <1>7, <2>1 DEF WriterInv, DiskRight, b
    <3> QED
      BY <1>6, <2>1, <3>1
  <2>2. CASE ~(g = f /\ i \in o .. o + n - 1)
    BY <1>3, <1>4, <2>2
  <2> QED
    BY <2>1, <2>2
<1>8. \A q \in Pieces, g \in Files :
        job'[<<q, g>>] = IF <<q, g>> = <<p, f>> THEN st ELSE job[<<q, g>>]
  BY DEF WriterInv, WriterTypeOK
<1>9. st = "done" => Stored(p, f)'
  <2> SUFFICES ASSUME st = "done" PROVE Stored(p, f)'
    OBVIOUS
  <2>1. n = d
    BY DEF d
  <2>2. FileOffset(p, f)' = o /\ DataLen(p, f)' = d /\ start'[f] = b
    BY DEF FileOffset, DataLen, OverlapStart, OverlapEnd, GlobalEnd, o, d, b
  <2>3. \A i \in o .. o + d - 1 : disk'[f][i] = b + i
    BY <1>6, <2>1
  <2> QED
    BY <2>2, <2>3 DEF Stored
<1>10. ASSUME NEW q \in Pieces, NEW g \in Files
       PROVE  /\ job[<<q, g>>] # "none" => job'[<<q, g>>] # "none"
              /\ job'[<<q, g>>] = "done" => job[<<q, g>>] = "done" \/ Stored(q, g)'
  <2>1. CASE <<q, g>> = <<p, f>>
    BY <1>8, <1>9, <2>1
  <2>2. CASE <<q, g>> # <<p, f>>
    BY <1>8, <2>2
  <2> QED
    BY <2>1, <2>2
<1> QED
  BY <1>7, <1>10 DEF Keeps

\* Each of these keeps the invariant of the writer.
LEMMA WriterCallInv == WriterInv /\ WriterCall => WriterInv'
<1> SUFFICES ASSUME WriterInv, WriterCall  PROVE WriterInv'
  OBVIOUS
<1>1. CASE WriterStep
  BY <1>1, WriterStepInv
<1>2. CASE UNCHANGED writerVars
  BY <1>2, WriterNextInv
<1> QED  BY <1>1, <1>2, CallInv DEF WriterCall

\* One step of any caller is such a step.
LEMMA NextIsCall == [WriterNext]_writerVars => WriterCall
  BY DEF WriterNext, WriterIdle, CancelWrite, WriterCall

\* None of them loses what was written.
LEMMA CallKeeps ==
  ASSUME WriterInv, WriterCall
  PROVE  Keeps
<1>1. WriterInv'
  BY WriterCallInv
<1>2. ASSUME UNCHANGED <<files, start, disk>>,
             \A p \in Pieces, f \in Files :
               /\ job[<<p, f>>] # "none" => job'[<<p, f>>] # "none"
               /\ job'[<<p, f>>] = "done" => job[<<p, f>>] = "done"
      PROVE  Keeps
  BY <1>2 DEF Keeps
<1>3. ASSUME NEW p \in Pieces, NEW f \in Files, NEW st \in {"run", "sought", "failed"},
             job' = [job EXCEPT ![<<p, f>>] = st], UNCHANGED <<files, start, disk>>
      PROVE  Keeps
  <2>1. \A q \in Pieces, g \in Files :
          job'[<<q, g>>] = IF <<q, g>> = <<p, f>> THEN st ELSE job[<<q, g>>]
    BY <1>3 DEF WriterInv, WriterTypeOK
  <2> QED
    BY <1>2, <1>3, <2>1
<1>4. ASSUME NEW p \in Pieces, NEW f \in Files, Thread(p, f) PROVE Keeps
  <2>1. CASE StartJob(p, f)
    BY <1>3, <2>1 DEF StartJob
  <2>2. CASE Seek(p, f)
    BY <1>3, <2>2 DEF Seek
  <2>3. CASE SeekFails(p, f)
    BY <1>3, <2>3 DEF SeekFails
  <2>4. CASE WriteChunk(p, f)
    <3>1. Overlaps(p, f)
      BY <2>4 DEF WriteChunk, WriterInv, JobsOverlap
    <3>2. DataLen(p, f) \in 0 .. DataLen(p, f)
      BY <3>1, ChunkPlaced DEF WriterInv
    <3> QED
      BY <1>1, <2>4, <3>2, StoreKeeps DEF WriteChunk
  <2>5. CASE WriteFails(p, f)
    <3>1. CASE UNCHANGED <<disk, pos>>
      BY <1>3, <2>5, <3>1 DEF WriteFails
    <3>2. CASE \E n \in 0 .. DataLen(p, f) : Store(p, f, n)
      BY <1>1, <2>5, <3>2, StoreKeeps DEF WriteFails
    <3> QED
      BY <2>5, <3>1, <3>2 DEF WriteFails
  <2> QED
    BY <1>4, <2>1, <2>2, <2>3, <2>4, <2>5 DEF Thread
<1>5. CASE WriterStep
  <2>1. CASE CloseStarts \/ CloseReturns \/ \E f \in Files : CloseHandle(f)
    BY <1>2, <2>1 DEF CloseStarts, CloseReturns, CloseHandle
  <2> QED
    BY <1>4, <1>5, <2>1 DEF WriterStep
<1>6. ASSUME NEW p \in Pieces, WritePiece(p) PROVE Keeps
  <2>1. \A q \in Pieces, f \in Files :
          job'[<<q, f>>] = IF q = p /\ Overlaps(p, f) THEN "queued" ELSE job[<<q, f>>]
    BY <1>6 DEF WritePiece
  <2> QED
    BY <1>2, <1>6, <2>1 DEF WritePiece
<1>7. ASSUME NEW P, job' = Cancelled(P), UNCHANGED <<files, start, disk, pos, open, closer>> PROVE Keeps
  <2>1. \A q \in Pieces, f \in Files :
          job'[<<q, f>>] = IF q \in P /\ job[<<q, f>>] = "queued" THEN "cancelled" ELSE job[<<q, f>>]
    BY <1>7 DEF Cancelled
  <2> QED
    BY <1>2, <1>7, <2>1
<1>8. CASE Close \/ UNCHANGED writerVars
  BY <1>2, <1>8 DEF Close, writerVars
<1> QED
  BY <1>5, <1>6, <1>7, <1>8 DEF WriterCall

\* A done job's chunk stays stored.
LEMMA DoneStoredNext ==
  ASSUME WriterInv, DoneStored, Keeps
  PROVE  DoneStored'
<1>1. Laid' /\ Files' = Files
  BY DEF Keeps, DoneStored, Laid, Files
<1>2. ASSUME NEW p \in Pieces, NEW f \in Files, job[<<p, f>>] = "done" PROVE Stored(p, f)'
  <2> DEFINE o == FileOffset(p, f)
             d == DataLen(p, f)
             b == start[f]
  <2>1. Stored(p, f) /\ Overlaps(p, f)
    BY <1>2 DEF DoneStored, WriterInv, JobsOverlap
  <2>2. o \in Nat /\ d \in Nat /\ b \in Nat /\ b + o + d <= TotalLength /\ TotalLength \in Nat
    BY <2>1, ChunkPlaced, WriterAssumption DEF WriterInv
  <2>3. FileOffset(p, f)' = o /\ DataLen(p, f)' = d /\ start'[f] = b
    BY DEF Keeps, FileOffset, DataLen, OverlapStart, OverlapEnd, GlobalEnd
  <2>4. \A i \in o .. o + d - 1 : disk[f][i] = b + i
    BY <2>1 DEF Stored
  <2> HIDE DEF o, d, b
  <2>5. ASSUME NEW i \in o .. o + d - 1 PROVE disk'[f][i] = b + i
    <3>1. i \in Cells /\ b + i # Hole
      BY <2>2 DEF Cells, Hole
    <3> QED
      BY <2>4, <3>1 DEF Keeps
  <2> QED
    BY <2>3, <2>5 DEF Stored
<1>3. \A p \in Pieces, f \in Files : job'[<<p, f>>] = "done" => Stored(p, f)'
  BY <1>2 DEF Keeps
<1> QED
  BY <1>1, <1>3 DEF DoneStored

\* gather returns only when the jobs of all files the piece touches are done,
\* and the files leave no gap: every byte of the piece is on disk.
LEMMA WrittenOnDisk ==
  ASSUME WriterInv, DoneStored, NEW p \in Pieces, Written(p)
  PROVE  OnDisk(p)
<1>1. /\ p \in Nat /\ PieceLength \in Nat /\ TotalLength \in Nat
      /\ PieceStart(p) \in Nat /\ PieceSize(p) \in Int /\ PieceEnd(p) \in Int /\ PieceEnd(p) <= TotalLength
  <2>1. p \in Nat /\ PieceLength \in Nat /\ TotalLength \in Nat
    BY WriterAssumption DEF Pieces
  <2>2. PieceStart(p) \in Nat
    BY <2>1 DEF PieceStart
  <2>3. PieceSize(p) \in Int /\ PieceSize(p) <= TotalLength - PieceStart(p)
    <3>1. PieceLength \in Int /\ TotalLength - PieceStart(p) \in Int
      BY <2>1, <2>2
    <3> QED
      BY <3>1, MinMaxTwo DEF PieceSize
  <2>4. PieceEnd(p) = PieceStart(p) + PieceSize(p)
    BY DEF PieceEnd
  <2> QED
    BY <2>1, <2>2, <2>3, <2>4
<1>2. ASSUME NEW b \in PieceBytes(p)
      PROVE  \E f \in Files : \E i \in 0 .. files[f] - 1 : ByteAt(f, i) = b /\ disk[f][i] = b
  <2>1. b \in Int /\ PieceStart(p) <= b /\ b < PieceEnd(p) /\ b \in Cells
    BY <1>1 DEF PieceBytes, Cells
  <2>2. PICK f \in Files : start[f] <= b /\ b < start[f] + files[f]
    BY <2>1, ByteInFile DEF DoneStored
  <2>3. start[f] \in Int /\ start[f] >= 0 /\ files[f] \in Nat
    BY WriterAssumption DEF WriterInv, WriterTypeOK, Files
  <2>4. /\ OverlapStart(p, f) \in Int /\ OverlapStart(p, f) <= b
        /\ OverlapEnd(p, f) \in Int /\ b < OverlapEnd(p, f)
    <3>1. OverlapStart(p, f) \in {PieceStart(p), start[f]}
      <4>1. PieceStart(p) \in Int
        BY <1>1
      <4> QED
        BY <2>3, <4>1, MinMaxTwo DEF OverlapStart
    <3>2. GlobalEnd(f) \in Int /\ b < GlobalEnd(f)
      BY <2>2, <2>3 DEF GlobalEnd
    <3>3. OverlapEnd(p, f) \in {PieceEnd(p), GlobalEnd(f)}
      BY <1>1, <3>2, MinMaxTwo DEF OverlapEnd
    <3> QED
      BY <1>1, <2>1, <2>2, <2>3, <3>1, <3>2, <3>3
  <2>5. Stored(p, f)
    <3>1. Overlaps(p, f)
      BY <2>1, <2>4 DEF Overlaps
    <3>2. <<p, f>> \in Jobs(p)
      BY DEF Jobs
    <3>3. job[<<p, f>>] = "done"
      BY <3>1, <3>2 DEF Written
    <3> QED
      BY <3>3 DEF DoneStored
  <2> DEFINE i == b - start[f]
  <2>6. i \in 0 .. files[f] - 1 /\ i \in 0 .. files[f] /\ start[f] + i = b
    BY <2>1, <2>2, <2>3
  <2>7. i \in FileOffset(p, f) .. FileOffset(p, f) + DataLen(p, f) - 1
    BY <2>1, <2>3, <2>4 DEF FileOffset, DataLen
  <2> HIDE DEF i
  <2>8. disk[f][i] = b
    BY <2>5, <2>6, <2>7 DEF Stored
  <2>9. ByteAt(f, i) = b
    BY <2>6, ByteAtIs DEF DoneStored
  <2> QED
    BY <2>6, <2>8, <2>9
<1> QED
  BY <1>2 DEF OnDisk

LEMMA WriterInitStored == WriterInit => DoneStored
<1> SUFFICES ASSUME WriterInit  PROVE DoneStored
  OBVIOUS
<1>1. \A p \in Pieces, f \in Files : job[<<p, f>>] = "none"
  BY DEF WriterInit
<1> QED
  BY <1>1 DEF WriterInit, DoneStored, Laid

\* The writer's invariants together.
LEMMA WriterAlways == WriterSpec => [](WriterInv /\ DoneStored)
<1>1. WriterInit => WriterInv /\ DoneStored
  BY WriterInitInv, WriterInitStored
<1>2. WriterInv /\ DoneStored /\ [WriterNext]_writerVars => (WriterInv /\ DoneStored)'
  BY NextIsCall, WriterCallInv, CallKeeps, DoneStoredNext
<1> QED
  BY <1>1, <1>2, PTL DEF WriterSpec

\* For every layout, also with empty files, and every interleaving of threads,
\* cancellations, faults and close: a write_piece that returns without raising
\* has put every byte of its piece on disk.
THEOREM WriteReturns == WriterSpec => []ReturnedIsOnDisk
<1>1. WriterInv /\ DoneStored => ReturnedIsOnDisk
  BY WrittenOnDisk DEF ReturnedIsOnDisk
<1> QED
  BY <1>1, WriterAlways, PTL

\* However the threads, the faults and close come together, no handle stands
\* beyond the end of the torrent and no cell holds a byte it never had.
COROLLARY WriterTyped == WriterSpec => []WriterTypeOK
BY WriterCorrect, PTL

-----------------------------------------------------------------------------
(* The bytes of the pieces *)

\* Multiplication by the piece length keeps the order.
LEMMA TimesOrder ==
  ASSUME NEW a \in Nat, NEW b \in Nat, NEW m \in Nat, a < b
  PROVE  a * m + m <= b * m /\ a * m \in Nat /\ b * m \in Nat
<1>1. PICK k \in Nat : b = a + 1 + k
  <2>1. b - a - 1 \in Nat /\ b = a + 1 + (b - a - 1)
    OBVIOUS
  <2> QED
    BY <2>1
<1>2. b * m = a * m + m + k * m /\ k * m \in Nat /\ a * m \in Nat
  BY <1>1
<1> QED
  BY <1>2

\* Every piece starts within the torrent.
LEMMA PieceWithin ==
  ASSUME NEW p \in Pieces
  PROVE  /\ p \in Nat /\ PieceStart(p) \in Nat /\ PieceStart(p) < TotalLength
         /\ PieceSize(p) \in Nat \ {0} /\ PieceSize(p) <= PieceLength
         /\ PieceEnd(p) = PieceStart(p) + PieceSize(p) /\ PieceEnd(p) <= TotalLength
<1> DEFINE l == PieceLength
           t == TotalLength
           n == NumPieces
<1>1. l \in Nat \ {0} /\ t \in Nat
  BY WriterAssumption
<1>2. n \in Nat /\ n * l <= t + l - 1
  <2>1. n = (t + l - 1) \div l
    BY DEF NumPieces
  <2> HIDE DEF n, l, t
  <2> QED
    BY <1>1, <2>1, SMTT(30)
<1>3. p \in Nat /\ p < n
  BY <1>2 DEF Pieces
<1>4. p * l + l <= n * l /\ p * l \in Nat /\ n * l \in Nat
  <2> HIDE DEF n, l
  <2> QED
    BY <1>1, <1>2, <1>3, TimesOrder
<1>5. PieceStart(p) = p * l
  BY DEF PieceStart
<1> HIDE DEF n, l, t
<1>6. PieceStart(p) \in Nat /\ PieceStart(p) < t
  BY <1>1, <1>2, <1>4, <1>5
<1> DEFINE z == PieceSize(p)
<1>7. z \in {l, t - PieceStart(p)} /\ z <= l /\ z <= t - PieceStart(p) /\ z \in Int
  <2>1. l \in Int /\ t - PieceStart(p) \in Int
    BY <1>1, <1>6
  <2>2. z = Min({l, t - PieceStart(p)})
    BY DEF PieceSize, l, t
  <2> HIDE DEF z
  <2> QED
    BY <2>1, <2>2, MinMaxTwo
<1>8. PieceEnd(p) = PieceStart(p) + z
  BY DEF PieceEnd
<1> HIDE DEF z
<1>9. z \in Nat \ {0} /\ PieceEnd(p) <= t
  BY <1>1, <1>6, <1>7, <1>8
<1> QED
  BY <1>3, <1>6, <1>7, <1>8, <1>9 DEF z, t, l

\* Two pieces have no byte in common.
LEMMA PiecesApart ==
  ASSUME NEW p \in Pieces, NEW q \in Pieces, p # q
  PROVE  PieceBytes(p) \cap PieceBytes(q) = {}
<1>1. ASSUME NEW a \in Pieces, NEW b \in Pieces, a < b PROVE PieceBytes(a) \cap PieceBytes(b) = {}
  <2>1. /\ a \in Nat /\ PieceStart(a) \in Nat /\ PieceSize(a) \in Nat /\ PieceSize(a) <= PieceLength
        /\ PieceEnd(a) = PieceStart(a) + PieceSize(a)
        /\ b \in Nat /\ PieceStart(b) \in Nat /\ PieceEnd(b) \in Int /\ PieceLength \in Nat
    <3>1. PieceSize(b) \in Nat
      BY PieceWithin
    <3> QED
      BY <3>1, PieceWithin, WriterAssumption
  <2>2. PieceStart(a) + PieceLength <= PieceStart(b)
    BY <1>1, <2>1, TimesOrder DEF PieceStart
  <2>3. PieceEnd(a) <= PieceStart(b) /\ PieceEnd(a) \in Nat
    BY <2>1, <2>2
  <2> QED
    BY <2>1, <2>3 DEF PieceBytes
<1>2. p \in Nat /\ q \in Nat
  BY PieceWithin
<1>3. p < q \/ q < p
  BY <1>2
<1> QED
  BY <1>1, <1>3

\* One more piece adds its size to the number of bytes.
LEMMA BytesAdded ==
  ASSUME NEW C \in SUBSET Pieces, NEW p \in Pieces \ C
  PROVE  Cardinality(UNION {PieceBytes(q) : q \in C \cup {p}}) =
           Cardinality(UNION {PieceBytes(q) : q \in C}) + PieceSize(p)
<1> DEFINE U == UNION {PieceBytes(q) : q \in C}
           B == PieceBytes(p)
<1>1. UNION {PieceBytes(q) : q \in C \cup {p}} = U \cup B
  OBVIOUS
<1>2. U \cap B = {}
  <2>1. \A q \in C : PieceBytes(q) \cap B = {}
    BY PiecesApart
  <2> QED
    BY <2>1
<1>3. IsFiniteSet(U)
  <2>1. ASSUME NEW q \in C PROVE PieceBytes(q) \subseteq 0 .. TotalLength - 1
    <3>1. /\ PieceStart(q) \in Nat /\ PieceEnd(q) <= TotalLength
          /\ PieceEnd(q) = PieceStart(q) + PieceSize(q) /\ PieceSize(q) \in Nat /\ TotalLength \in Nat
      BY PieceWithin, WriterAssumption
    <3> QED
      BY <3>1 DEF PieceBytes
  <2>2. U \in SUBSET (0 .. TotalLength - 1)
    BY <2>1
  <2>3. IsFiniteSet(0 .. TotalLength - 1)
    <3>1. 0 \in Int /\ TotalLength - 1 \in Int
      BY WriterAssumption
    <3> QED
      BY <3>1, FS_Interval
  <2> HIDE DEF U
  <2> QED
    BY <2>2, <2>3, FS_Subset
<1>4. IsFiniteSet(B) /\ Cardinality(B) = PieceSize(p)
  <2>1. /\ PieceStart(p) \in Nat /\ PieceSize(p) \in Nat \ {0}
        /\ PieceEnd(p) = PieceStart(p) + PieceSize(p)
    BY PieceWithin
  <2> DEFINE a == PieceStart(p)
             e == PieceEnd(p) - 1
             z == PieceSize(p)
  <2>2. a \in Int /\ e \in Int /\ ~(a > e) /\ e - a + 1 = z
    BY <2>1
  <2>3. B = a .. e
    BY DEF PieceBytes
  <2> HIDE DEF a, e, z, B
  <2>4. IsFiniteSet(a .. e) /\ Cardinality(a .. e) = e - a + 1
    BY <2>2, FS_Interval
  <2> QED
    BY <2>2, <2>3, <2>4 DEF z
<1> HIDE DEF U, B
<1>5. Cardinality(U \cup B) = Cardinality(U) + Cardinality(B) - Cardinality(U \cap B)
  BY <1>3, <1>4, FS_Union
<1>6. Cardinality(U \cap B) = 0 /\ Cardinality(U) \in Nat /\ Cardinality(B) \in Nat
  BY <1>2, <1>3, <1>4, FS_EmptySet, FS_CardinalityType
<1>7. Cardinality(U \cup B) = Cardinality(U) + PieceSize(p)
  BY <1>4, <1>5, <1>6
<1> QED
  BY <1>1, <1>7 DEF U

\* What is on disk stays there.
LEMMA OnDiskStays ==
  ASSUME WriterInv, DoneStored, Keeps, NEW p \in Pieces, OnDisk(p)
  PROVE  OnDisk(p)'
<1>1. files' = files /\ Files' = Files
  BY DEF Keeps, Files
<1>2. ASSUME NEW b \in PieceBytes(p)
      PROVE  \E f \in Files : \E i \in 0 .. files[f] - 1 : ByteAt(f, i) = b /\ disk'[f][i] = b
  <2>0. PICK f \in Files : \E i \in 0 .. files[f] - 1 : ByteAt(f, i) = b /\ disk[f][i] = b
    BY DEF OnDisk
  <2>1. PICK i \in 0 .. files[f] - 1 : ByteAt(f, i) = b /\ disk[f][i] = b
    BY <2>0
  <2>2. b \in Nat /\ b < TotalLength /\ TotalLength \in Nat
    <3>1. /\ PieceStart(p) \in Nat /\ PieceEnd(p) <= TotalLength
          /\ PieceEnd(p) = PieceStart(p) + PieceSize(p) /\ PieceSize(p) \in Nat /\ TotalLength \in Nat
      BY PieceWithin, WriterAssumption
    <3> QED
      BY <3>1 DEF PieceBytes
  <2>3. files[f] \in Nat /\ start[f] \in Nat
    BY WriterAssumption DEF WriterInv, WriterTypeOK, Files
  <2>4. i \in 0 .. files[f]
    BY <2>3
  <2>5. start[f] + i = b
    BY <2>1, <2>4, ByteAtIs DEF DoneStored
  <2>6. i \in Cells /\ b # Hole
    BY <2>2, <2>3, <2>4, <2>5 DEF Cells, Hole
  <2>7. disk'[f][i] = b
    BY <2>1, <2>6 DEF Keeps
  <2> QED
    BY <2>1, <2>7
<1>3. \A f, i : ByteAt(f, i)' = ByteAt(f, i)
  BY <1>1 DEF ByteAt
<1> QED
  BY <1>1, <1>2, <1>3 DEF OnDisk

\* There are finitely many pieces.
LEMMA PiecesFinite == IsFiniteSet(Pieces) /\ NumPieces \in Nat /\ Cardinality(Pieces) = NumPieces
<1> DEFINE l == PieceLength
           t == TotalLength
           n == NumPieces
<1>1. l \in Nat \ {0} /\ t \in Nat
  BY WriterAssumption
<1>2. n \in Nat
  <2>1. n = (t + l - 1) \div l
    BY DEF NumPieces
  <2> HIDE DEF n, l, t
  <2> QED
    BY <1>1, <2>1, SMTT(30)
<1>3. Pieces = 0 .. n - 1
  BY DEF Pieces
<1> HIDE DEF n
<1>4. 0 \in Int /\ n - 1 \in Int /\ (n = 0 <=> 0 > n - 1)
  BY <1>2
<1>5. IsFiniteSet(0 .. n - 1) /\ Cardinality(0 .. n - 1) = IF 0 > n - 1 THEN 0 ELSE n - 1 - 0 + 1
  BY <1>4, FS_Interval
<1>6. Cardinality(0 .. n - 1) = n
  BY <1>2, <1>4, <1>5
<1> QED
  BY <1>2, <1>3, <1>5, <1>6 DEF n

-----------------------------------------------------------------------------
(* What is read back *)

\* The files end where the torrent does.
LEMMA LastEnd ==
  ASSUME Laid, Len(files) # 0
  PROVE  start[Len(files)] + files[Len(files)] = TotalLength
<1> DEFINE n == Len(files)
           k == files[n]
           S == Pre(files, n)
<1>1. /\ files \in Seq(Nat) /\ n \in Nat /\ n \in DOMAIN files /\ k \in Nat
      /\ Cardinality(Bytes(files)) = TotalLength
  BY WriterAssumption DEF Laid
<1>2. IsFiniteSet(S) /\ Cardinality(S) = start[n]
  BY <1>1, SpansCount DEF Laid
<1>3. Bytes(files) = S \cup ({n} \X (0 .. k - 1)) /\ \A x \in S : x[1] # n
  BY <1>1, PreNext
<1> HIDE DEF n, k, S
<1>4. Cardinality(S \cup ({n} \X (0 .. k - 1))) = Cardinality(S) + k
  BY <1>1, <1>2, <1>3, RowAdded
<1> QED
  BY <1>1, <1>2, <1>3, <1>4 DEF n, k

\* How many bytes of a piece from a to z come before place x.
Clamp(a, z, x) == IF x <= a THEN 0 ELSE IF x <= z THEN x - a ELSE z - a

\* A piece and a file in the terms of the code.
LEMMA PieceFile ==
  ASSUME WriterInv, NEW p \in Pieces, NEW f \in Files
  PROVE  /\ start[f] \in Nat /\ files[f] \in Nat
         /\ OverlapStart(p, f) \in Int /\ OverlapEnd(p, f) \in Int
         /\ OverlapStart(p, f) >= PieceStart(p) /\ OverlapStart(p, f) >= start[f]
         /\ OverlapStart(p, f) \in {PieceStart(p), start[f]}
         /\ OverlapEnd(p, f) <= PieceEnd(p) /\ OverlapEnd(p, f) <= start[f] + files[f]
         /\ OverlapEnd(p, f) \in {PieceEnd(p), start[f] + files[f]}
<1>1. start[f] \in Nat /\ files[f] \in Nat
  BY WriterAssumption DEF WriterInv, WriterTypeOK, Files
<1>2. PieceStart(p) \in Int /\ PieceEnd(p) \in Int
  BY PieceWithin
<1> DEFINE a == PieceStart(p)
           z == PieceEnd(p)
           s == start[f]
           e == start[f] + files[f]
<1>3. a \in Int /\ z \in Int /\ s \in Int /\ e \in Int
  BY <1>1, <1>2
<1>4. OverlapStart(p, f) = Max({a, s}) /\ OverlapEnd(p, f) = Min({z, e})
  BY DEF OverlapStart, OverlapEnd, GlobalEnd
<1> HIDE DEF a, z, s, e
<1>5. /\ Max({a, s}) \in Int /\ Max({a, s}) >= a /\ Max({a, s}) >= s /\ Max({a, s}) \in {a, s}
      /\ Min({z, e}) \in Int /\ Min({z, e}) <= z /\ Min({z, e}) <= e /\ Min({z, e}) \in {z, e}
  BY <1>3, MinMaxTwo
<1> QED
  BY <1>1, <1>4, <1>5 DEF a, z, s, e

\* The chunk of one file.
ChunkOf(p, f) == IF Overlaps(p, f) THEN ReadChunk(f, FileOffset(p, f), DataLen(p, f)) ELSE << >>

LEMMA ChunkRead ==
  ASSUME WriterInv, NEW p \in Pieces, NEW f \in Files
  PROVE  /\ ChunkOf(p, f) \in Seq(Cells \cup {Hole})
         /\ Len(ChunkOf(p, f)) = IF Overlaps(p, f) THEN DataLen(p, f) ELSE 0
         /\ Overlaps(p, f) => \A k \in 1 .. DataLen(p, f) : ChunkOf(p, f)[k] = disk[f][FileOffset(p, f) + k - 1]
<1>1. CASE ~Overlaps(p, f)
  BY <1>1 DEF ChunkOf
<1>2. CASE Overlaps(p, f)
  <2> DEFINE o == FileOffset(p, f)
             n == DataLen(p, f)
             c == [k \in 1 .. n |-> disk[f][o + k - 1]]
             B == Cells \cup {Hole}
  <2>1. /\ o \in Nat /\ n \in Nat /\ start[f] \in Nat
        /\ start[f] + o + n <= TotalLength /\ TotalLength \in Nat
    BY <1>2, ChunkPlaced, WriterAssumption DEF WriterInv
  <2>2. disk[f] \in [Cells -> B]
    BY DEF WriterInv, WriterTypeOK
  <2>3. ChunkOf(p, f) = c
    BY <1>2 DEF ChunkOf, ReadChunk
  <2> HIDE DEF o, n, B
  <2>4. \A k \in 1 .. n : o + k - 1 \in Cells
    BY <2>1 DEF Cells
  <2>5. c \in [1 .. n -> B]
    BY <2>2, <2>4
  <2>6. \A k \in 1 .. n : c[k] = disk[f][o + k - 1]
    OBVIOUS
  <2> HIDE DEF c
  <2>7. c \in Seq(B) /\ Len(c) = n
    BY <2>1, <2>5, IsASeq
  <2> QED
    BY <1>2, <2>3, <2>6, <2>7 DEF o, n, B
<1> QED
  BY <1>1, <1>2

\* The chunks joined: each begins as far in as the piece reaches before its file.
LEMMA ChunksJoined ==
  ASSUME WriterInv, DoneStored, NEW p \in Pieces
  PROVE  /\ ReadPiece(p) \in Seq(Cells \cup {Hole}) /\ Len(ReadPiece(p)) = PieceSize(p)
         /\ \A f \in Files : \A k \in 1 .. Len(ChunkOf(p, f)) :
              ReadPiece(p)[Clamp(PieceStart(p), PieceEnd(p), start[f]) + k] = ChunkOf(p, f)[k]
<1> DEFINE N == Len(files)
           B == Cells \cup {Hole}
           ss == [f \in Files |-> ChunkOf(p, f)]
           a == PieceStart(p)
           z == PieceEnd(p)
           flat == ReadPiece(p)
           C(x) == Clamp(a, z, x)
<1>1. /\ files \in Seq(Nat) /\ N \in Nat /\ Files = 1 .. N
      /\ \A f \in 1 .. N : start[f] = IF f = 1 THEN 0 ELSE start[f - 1] + files[f - 1]
  <2>1. files \in Seq(Nat)
    BY WriterAssumption DEF WriterInv, WriterTypeOK
  <2>2. N \in Nat /\ DOMAIN files = 1 .. N
    BY <2>1, LenProperties
  <2>3. \A f \in DOMAIN files : start[f] = IF f = 1 THEN 0 ELSE start[f - 1] + files[f - 1]
    BY DEF DoneStored, Laid, Spans
  <2> QED
    BY <2>1, <2>2, <2>3 DEF Files
<1>2. a \in Nat /\ z \in Nat /\ a < z /\ z - a = PieceSize(p) /\ z <= TotalLength /\ TotalLength \in Nat /\ TotalLength > 0
  BY PieceWithin, WriterAssumption
<1>3. flat = FlattenSeq(ss)
  BY DEF ReadPiece, ChunkOf
<1>4. ss \in Seq(Seq(B)) /\ Len(ss) = N /\ \A f \in 1 .. N : ss[f] = ChunkOf(p, f)
  <2>1. ss \in [1 .. N -> Seq(B)]
    BY <1>1, ChunkRead
  <2>2. \A f \in 1 .. N : ss[f] = ChunkOf(p, f)
    BY <1>1
  <2> HIDE DEF ss, N, B
  <2> QED
    BY <1>1, <2>1, <2>2, IsASeq
<1> HIDE DEF ss, flat, N, B
<1>5. flat \in Seq(B)
  BY <1>3, <1>4, FlattenPlaces
<1> DEFINE Placed(n, w) ==
             \E off \in [1 .. n + 1 -> Nat] :
               /\ off[1] = 0
               /\ \A f \in 1 .. n : off[f + 1] = off[f] + Len(ss[f])
               /\ off[n + 1] = Len(w)
               /\ \A f \in 1 .. n : \A k \in 1 .. Len(ss[f]) : w[off[f] + k] = ss[f][k]
<1>6. Placed(N, flat)
  <2>1. Placed(Len(ss), FlattenSeq(ss))
    BY <1>4, FlattenPlaces, Zenon
  <2> HIDE DEF Placed
  <2> QED
    BY <1>3, <1>4, <2>1
<1>7. PICK off \in [1 .. N + 1 -> Nat] :
        /\ off[1] = 0
        /\ \A f \in 1 .. N : off[f + 1] = off[f] + Len(ss[f])
        /\ off[N + 1] = Len(flat)
        /\ \A f \in 1 .. N : \A k \in 1 .. Len(ss[f]) : flat[off[f] + k] = ss[f][k]
  BY <1>6, Zenon
<1> HIDE DEF Placed
<1>8. N # 0
  <2> SUFFICES ASSUME N = 0 PROVE FALSE
    OBVIOUS
  <2>1. Bytes(files) = {}
    BY <1>1 DEF Bytes, Files
  <2>2. Cardinality(Bytes(files)) = TotalLength
    BY WriterAssumption DEF WriterInv, WriterTypeOK
  <2> QED
    BY <1>2, <2>1, <2>2, FS_EmptySet
<1>9. ASSUME NEW f \in 1 .. N
      PROVE  C(start[f]) \in Nat /\ C(start[f] + files[f]) = C(start[f]) + Len(ss[f])
  <2>1. f \in Files
    BY <1>1
  <2> DEFINE lo == OverlapStart(p, f)
             hi == OverlapEnd(p, f)
             s == start[f]
             l == files[f]
  <2>2. /\ s \in Nat /\ l \in Nat /\ lo \in Int /\ hi \in Int
        /\ lo >= a /\ lo >= s /\ lo \in {a, s} /\ hi <= z /\ hi <= s + l /\ hi \in {z, s + l}
    BY <2>1, PieceFile
  <2>3. Len(ss[f]) = IF lo < hi THEN hi - lo ELSE 0
    BY <1>4, <2>1, ChunkRead DEF Overlaps, DataLen
  <2> HIDE DEF lo, hi, s, l, a, z
  <2>4. /\ C(s) \in Nat
        /\ lo < hi => C(s + l) = C(s) + (hi - lo)
        /\ ~(lo < hi) => C(s + l) = C(s) + 0
    <3>1. a \in Nat /\ z \in Nat /\ a < z
      BY <1>2
    <3> QED
      BY <2>2, <3>1 DEF Clamp
  <2> HIDE DEF C
  <2>5. C(s) \in Nat /\ C(s + l) = C(s) + Len(ss[f])
    BY <2>3, <2>4
  <2> QED
    BY <2>5 DEF s, l
<1> DEFINE G == {f \in 1 .. N : off[f] = C(start[f])}
<1>10. 1 .. N \subseteq G
  <2>1. 1 \in G
    <3>1. 1 \in 1 .. N /\ start[1] = 0
      BY <1>1, <1>8
    <3>2. C(0) = 0
      BY <1>2 DEF Clamp
    <3> QED
      BY <1>7, <3>1, <3>2
  <2>2. ASSUME NEW f \in 1 .. N - 1, f \in G PROVE f + 1 \in G
    <3>1. f \in 1 .. N /\ f + 1 \in 1 .. N /\ f + 1 # 1 /\ (f + 1) - 1 = f
      BY <1>1
    <3>2. start[f + 1] = start[f] + files[f]
      BY <1>1, <3>1
    <3> HIDE DEF C
    <3>3. off[f + 1] = C(start[f + 1])
      BY <1>7, <1>9, <2>2, <3>1, <3>2
    <3> QED
      BY <3>1, <3>3
  <2> HIDE DEF G
  <2>3. 1 \in Nat
    OBVIOUS
  <2> QED
    BY <1>1, <2>1, <2>2, <2>3, CountUp
<1>11. Len(flat) = PieceSize(p)
  <2>1. N \in 1 .. N
    BY <1>1, <1>8
  <2>2. start[N] + files[N] = TotalLength
    BY <1>8, LastEnd DEF N, DoneStored
  <2>3. C(TotalLength) = z - a
    <3> HIDE DEF a, z
    <3> QED
      BY <1>2 DEF Clamp
  <2> HIDE DEF C
  <2>4. off[N] = C(start[N])
    BY <1>10, <2>1
  <2>5. off[N + 1] = C(TotalLength)
    BY <1>7, <1>9, <2>1, <2>2, <2>4
  <2> QED
    BY <1>2, <1>7, <2>3, <2>5, Zenon
<1>12. ASSUME NEW f \in Files, NEW k \in 1 .. Len(ChunkOf(p, f))
       PROVE  flat[C(start[f]) + k] = ChunkOf(p, f)[k]
  <2> HIDE DEF C
  <2>1. f \in 1 .. N /\ ss[f] = ChunkOf(p, f)
    BY <1>1, <1>4
  <2>2. off[f] = C(start[f])
    BY <1>10, <2>1
  <2>3. flat[off[f] + k] = ss[f][k]
    BY <1>7, <2>1
  <2> QED
    BY <2>1, <2>2, <2>3
<1> QED
  BY <1>5, <1>11, <1>12 DEF B, flat

\* For every layout: what read_piece joins is the piece, once it is on disk.
THEOREM ReadsBack == WriterSpec => []ReadBack
<1>1. WriterInv /\ DoneStored => ReadBack
  <2> SUFFICES ASSUME WriterInv, DoneStored, NEW p \in Pieces, OnDisk(p)
               PROVE  ReadPiece(p) = [k \in 1 .. PieceSize(p) |-> PieceStart(p) + k - 1]
    BY DEF ReadBack
  <2> DEFINE a == PieceStart(p)
             z == PieceEnd(p)
             n == PieceSize(p)
             flat == ReadPiece(p)
  <2>1. a \in Nat /\ n \in Nat /\ z = a + n /\ z \in Nat /\ a < z
    BY PieceWithin
  <2>2. /\ flat \in Seq(Cells \cup {Hole}) /\ Len(flat) = n
        /\ \A f \in Files : \A k \in 1 .. Len(ChunkOf(p, f)) :
             flat[Clamp(a, z, start[f]) + k] = ChunkOf(p, f)[k]
    BY ChunksJoined
  <2> HIDE DEF flat
  <2>3. ASSUME NEW j \in 1 .. n PROVE flat[j] = a + j - 1
    <3> DEFINE b == a + j - 1
    <3>1. b \in PieceBytes(p) /\ b \in Nat /\ a <= b /\ b < z /\ b = a + j - 1
      BY <2>1 DEF PieceBytes
    <3> HIDE DEF b
    <3>2. PICK f \in Files : \E i \in 0 .. files[f] - 1 : ByteAt(f, i) = b /\ disk[f][i] = b
      BY <3>1 DEF OnDisk
    <3>3. PICK i \in 0 .. files[f] - 1 : ByteAt(f, i) = b /\ disk[f][i] = b
      BY <3>2
    <3> DEFINE lo == OverlapStart(p, f)
               hi == OverlapEnd(p, f)
               s == start[f]
               l == files[f]
    <3>4. /\ s \in Nat /\ l \in Nat /\ lo \in Int /\ hi \in Int
          /\ lo >= a /\ lo >= s /\ lo \in {a, s} /\ hi <= z /\ hi <= s + l /\ hi \in {z, s + l}
      BY PieceFile
    <3>5. i \in Nat /\ i < l /\ s + i = b
      <4>1. i \in 0 .. files[f]
        BY <3>4
      <4>2. ByteAt(f, i) = start[f] + i
        BY <4>1, ByteAtIs DEF DoneStored
      <4> QED
        BY <3>3, <3>4, <4>2
    <3>6. FileOffset(p, f) = lo - s /\ DataLen(p, f) = hi - lo /\ (Overlaps(p, f) <=> lo < hi)
      BY DEF FileOffset, DataLen, Overlaps
    <3> HIDE DEF lo, hi, s, l, a, z
    <3>7. lo <= b /\ b < hi
      BY <2>1, <3>1, <3>4, <3>5
    <3> DEFINE k == b - lo + 1
    <3>8. k \in 1 .. hi - lo /\ (lo - s) + k - 1 = i /\ lo < hi
      BY <3>1, <3>4, <3>5, <3>7
    <3>9. Clamp(a, z, s) + k = j
      BY <2>1, <3>1, <3>4, <3>5, <3>7 DEF Clamp
    <3> HIDE DEF k
    <3>10. k \in 1 .. Len(ChunkOf(p, f)) /\ ChunkOf(p, f)[k] = disk[f][i]
      <4>1. Overlaps(p, f) /\ k \in 1 .. DataLen(p, f) /\ FileOffset(p, f) + k - 1 = i
        BY <3>6, <3>8
      <4>2. Len(ChunkOf(p, f)) = DataLen(p, f) /\ ChunkOf(p, f)[k] = disk[f][FileOffset(p, f) + k - 1]
        BY <4>1, ChunkRead
      <4> QED
        BY <4>1, <4>2
    <3>11. flat[Clamp(a, z, s) + k] = disk[f][i]
      BY <2>2, <3>10 DEF s
    <3> QED
      BY <3>1, <3>3, <3>9, <3>11
  <2>4. flat = [k \in 1 .. n |-> flat[k]]
    <3> HIDE DEF n
    <3> QED
      BY <2>2
  <2> HIDE DEF a, n
  <2>5. flat = [k \in 1 .. n |-> a + k - 1]
    BY <2>3, <2>4
  <2> QED
    BY <2>5 DEF flat, a, n
<1> QED
  BY <1>1, WriterAlways, PTL

=============================================================================
