----------------------------- MODULE FileWriter -----------------------------
(***************************************************************************)
(* client/modules/fileWriter.py: pieces are cut along the file boundaries  *)
(* and their chunks written by threads, each under the lock of its file.   *)
(*                                                                         *)
(* A file is its number in the torrent; a byte of the content is its       *)
(* number in the torrent.  A cell of a file holds the byte last written    *)
(* there, or Hole.  A job is one _write_chunk, named by piece and file:    *)
(*                                                                         *)
(*   none       not asked for                                              *)
(*   queued     given to to_thread, no thread has it                       *)
(*   run        its thread waits for the lock of the file                  *)
(*   sought     its thread has the lock and the handle's position is set   *)
(*   done, failed, cancelled                                               *)
(*                                                                         *)
(* The lock of a file is held by the job that has sought there.            *)
(***************************************************************************)
EXTENDS Integers, FiniteSetsExt, SequencesExt

CONSTANTS
  PieceLength,
  TotalLength,
  Layouts,   \* the sequences of file lengths to consider
  Threads,   \* threads of the default executor
  Faulty     \* files on which a write may fail

\* The bytes of the files of a torrent: a file and a place in it.
Bytes(l) == UNION {{f} \X (0 .. l[f] - 1) : f \in DOMAIN l}

\* total_length is the sum of the lengths.
ASSUME WriterAssumption ==
  /\ PieceLength \in Nat \ {0}
  /\ TotalLength \in Nat
  /\ Threads \in Nat \ {0}
  /\ \A l \in Layouts : l \in Seq(Nat) /\ Cardinality(Bytes(l)) = TotalLength

VARIABLES
  files,   \* the lengths of the files; chosen once
  start,   \* spans: the global_start of each file
  disk,    \* the cells of each file
  pos,     \* the position of each handle
  open,    \* the files whose handle is open
  job,     \* the state of each job
  closer   \* close: no, asked, run (its thread closes the handles), over

writerVars == <<files, start, disk, pos, open, job, closer>>

Files     == DOMAIN files
NumPieces == (TotalLength + PieceLength - 1) \div PieceLength
Pieces    == 0 .. NumPieces - 1
Cells     == 0 .. TotalLength - 1
Hole      == -1

-----------------------------------------------------------------------------
(* Layout *)

\* The running offset of the loop in __init__.
Spans(l) ==
  {s \in [DOMAIN l -> 0 .. TotalLength] :
     \A f \in DOMAIN l : s[f] = IF f = 1 THEN 0 ELSE s[f - 1] + l[f - 1]}

GlobalEnd(f) == start[f] + files[f]

PieceStart(p) == p * PieceLength
PieceSize(p)  == Min({PieceLength, TotalLength - PieceStart(p)})
PieceEnd(p)   == PieceStart(p) + PieceSize(p)

OverlapStart(p, f) == Max({PieceStart(p), start[f]})
OverlapEnd(p, f)   == Min({PieceEnd(p), GlobalEnd(f)})
Overlaps(p, f)     == OverlapStart(p, f) < OverlapEnd(p, f)

\* Mutant: the position in the torrent instead of that in the file.
GlobalOffset(p, f) == OverlapStart(p, f)

DataStart(p, f)  == OverlapStart(p, f) - PieceStart(p)
DataLen(p, f)    == OverlapEnd(p, f) - OverlapStart(p, f)
FileOffset(p, f) == OverlapStart(p, f) - start[f]

\* Byte k of the chunk: byte DataStart + k of the data of piece p.
ChunkByte(p, f, k) == PieceStart(p) + DataStart(p, f) + k

-----------------------------------------------------------------------------
(* write_piece, its threads, and close *)

WriterInit ==
  /\ files \in Layouts
  /\ start \in Spans(files)
  /\ disk = [f \in Files |-> [i \in Cells |-> Hole]]
  /\ pos = [f \in Files |-> 0]
  /\ open = Files
  /\ job = [j \in Pieces \X Files |-> "none"]
  /\ closer = "no"

Jobs(p)   == {j \in Pieces \X Files : j[1] = p}
Running   == {j \in Pieces \X Files : job[j] \in {"run", "sought"}}
NoneQueued == \A j \in Pieces \X Files : job[j] # "queued"

\* A piece is handed over once; a closed writer raises instead.
WritePiece(p) ==
  /\ closer = "no"
  /\ \A j \in Jobs(p) : job[j] = "none"
  /\ job' = [j \in Pieces \X Files |-> IF j[1] = p /\ Overlaps(p, j[2]) THEN "queued" ELSE job[j]]
  /\ UNCHANGED <<files, start, disk, pos, open, closer>>

\* Mutant: the call is done as soon as one chunk is written.
WrittenOne(p) == \E j \in Jobs(p) : job[j] = "done"

\* gather returns, or raises the first exception while the other jobs go on.
Written(p) == \A j \in Jobs(p) : job[j] = IF Overlaps(p, j[2]) THEN "done" ELSE "none"
Raised(p)  == \E j \in Jobs(p) : job[j] = "failed"

\* The job states after gather is cancelled: a job that no thread has is never
\* run, the others go on.
Cancelled(P) ==
  [j \in Pieces \X Files |-> IF j[1] \in P /\ job[j] = "queued" THEN "cancelled" ELSE job[j]]

StartJob(p, f) ==
  /\ job[<<p, f>>] = "queued" /\ Cardinality(Running) < Threads
  /\ job' = [job EXCEPT ![<<p, f>>] = "run"]
  /\ UNCHANGED <<files, start, disk, pos, open, closer>>

\* Mutant: nobody is kept out.
NoLock(f) == TRUE

LockFree(f) == \A p \in Pieces : job[<<p, f>>] # "sought"

Seek(p, f) ==
  /\ job[<<p, f>>] = "run" /\ LockFree(f) /\ f \in open
  /\ job' = [job EXCEPT ![<<p, f>>] = "sought"]
  /\ pos' = [pos EXCEPT ![f] = FileOffset(p, f)]
  /\ UNCHANGED <<files, start, disk, open, closer>>

\* seek on a closed handle raises.
SeekFails(p, f) ==
  /\ job[<<p, f>>] = "run" /\ LockFree(f) /\ f \notin open
  /\ job' = [job EXCEPT ![<<p, f>>] = "failed"]
  /\ UNCHANGED <<files, start, disk, pos, open, closer>>

\* The handle stores the first n bytes of the chunk where it stands.
Store(p, f, n) ==
  /\ disk' = [disk EXCEPT ![f] = [i \in Cells |->
                IF i \in pos[f] .. pos[f] + n - 1 THEN ChunkByte(p, f, i - pos[f]) ELSE @[i]]]
  /\ pos' = [pos EXCEPT ![f] = @ + n]

\* write and flush; close flushes too.
WriteChunk(p, f) ==
  /\ job[<<p, f>>] = "sought" /\ f \in open
  /\ Store(p, f, DataLen(p, f))
  /\ job' = [job EXCEPT ![<<p, f>>] = "done"]
  /\ UNCHANGED <<files, start, open, closer>>

\* Mutant: the exception leaves the lock taken.
WriteFailsLocked(p, f) ==
  /\ job[<<p, f>>] = "sought" /\ f \notin open \ Faulty
  /\ UNCHANGED writerVars

\* write raises: the handle is closed, or the device fails after some bytes.
WriteFails(p, f) ==
  /\ job[<<p, f>>] = "sought"
  /\ \/ f \notin open /\ UNCHANGED <<disk, pos>>
     \/ f \in open \cap Faulty /\ \E n \in 0 .. DataLen(p, f) : Store(p, f, n)
  /\ job' = [job EXCEPT ![<<p, f>>] = "failed"]
  /\ UNCHANGED <<files, start, open, closer>>

Close ==
  /\ closer = "no"
  /\ closer' = "asked"
  /\ UNCHANGED <<files, start, disk, pos, open, job>>

\* The executor is first come first served, and nothing comes after close.
CloseStarts ==
  /\ closer = "asked" /\ NoneQueued /\ Cardinality(Running) < Threads
  /\ closer' = "run"
  /\ UNCHANGED <<files, start, disk, pos, open, job>>

\* _do_close takes no lock: a handle may be closed under a job.
CloseHandle(f) ==
  /\ closer = "run" /\ f \in open /\ \A g \in open : f <= g
  /\ open' = open \ {f}
  /\ UNCHANGED <<files, start, disk, pos, job, closer>>

CloseReturns ==
  /\ closer = "run" /\ open = {}
  /\ closer' = "over"
  /\ UNCHANGED <<files, start, disk, pos, open, job>>

Thread(p, f) ==
  \/ StartJob(p, f) \/ Seek(p, f) \/ SeekFails(p, f)
  \/ WriteChunk(p, f) \/ WriteFails(p, f)

\* The steps of the threads, whoever called the writer.
WriterStep ==
  \/ \E p \in Pieces, f \in Files : Thread(p, f)
  \/ \E f \in Files : CloseHandle(f)
  \/ CloseStarts \/ CloseReturns

\* Any caller: pieces in any order, cancelled or not, and close at any time.
CancelWrite(p) ==
  /\ \E j \in Jobs(p) : job[j] = "queued"
  /\ job' = Cancelled({p})
  /\ UNCHANGED <<files, start, disk, pos, open, closer>>

WriterIdle == closer = "over" /\ Running = {} /\ NoneQueued /\ UNCHANGED writerVars

WriterNext ==
  \/ WriterStep \/ Close \/ WriterIdle
  \/ \E p \in Pieces : WritePiece(p) \/ CancelWrite(p)

WriterSpec == WriterInit /\ [][WriterNext]_writerVars

\* The operating system runs every thread and the executor empties its queue.
WriterFairness ==
  /\ WF_writerVars(WriterStep)
  /\ \A p \in 0 .. NumPieces - 1, f \in UNION {DOMAIN l : l \in Layouts} :
       WF_writerVars(f \in Files /\ Thread(p, f))

FairWriterSpec == WriterSpec /\ WriterFairness

-----------------------------------------------------------------------------
(* read_piece *)

\* Mutant: the handle is not moved.
ReadChunkNoSeek(f, offset, n) == [k \in 1 .. n |-> disk[f][k - 1]]

ReadChunk(f, offset, n) ==
  [k \in 1 .. n |-> disk[f][offset + k - 1]]

\* The chunks in the order of the files, which is that of the data; missing
\* bytes read as zeroes, here as holes.
ReadPiece(p) ==
  FlattenSeq([f \in Files |-> IF Overlaps(p, f) THEN ReadChunk(f, FileOffset(p, f), DataLen(p, f))
                                                ELSE << >>])

-----------------------------------------------------------------------------
(* Properties *)

\* Types; the handle of a file never stands beyond the end of the torrent.
WriterTypeOK ==
  /\ files \in Layouts
  /\ start \in [Files -> 0 .. TotalLength]
  /\ disk \in [Files -> [Cells -> Cells \cup {Hole}]]
  /\ pos \in [Files -> 0 .. TotalLength]
  /\ open \subseteq Files
  /\ job \in [Pieces \X Files -> {"none", "queued", "run", "sought", "done", "failed", "cancelled"}]
  /\ closer \in {"no", "asked", "run", "over"}

\* Threads share one position per file, and close and faults may come between:
\* whatever is on disk lies within its file and is the byte that belongs there.
DiskRight ==
  \A f \in Files, i \in Cells :
    disk[f][i] # Hole => i < files[f] /\ disk[f][i] = start[f] + i

\* The byte at cell i of file f: as many come before it when the files are
\* laid end to end.
ByteAt(f, i) == Cardinality({x \in Bytes(files) : x[1] < f \/ (x[1] = f /\ x[2] < i)})

PieceBytes(p) == PieceStart(p) .. PieceEnd(p) - 1

OnDisk(p) ==
  \A b \in PieceBytes(p) :
    \E f \in Files : \E i \in 0 .. files[f] - 1 : ByteAt(f, i) = b /\ disk[f][i] = b

\* A write that returns without raising has stored every byte of the piece,
\* across empty files and however many files it spans.
ReturnedIsOnDisk == \A p \in Pieces : Written(p) => OnDisk(p)

\* What read_piece joins from the files is the piece that was written.
ReadBack ==
  \A p \in Pieces : OnDisk(p) => ReadPiece(p) = [k \in 1 .. PieceSize(p) |-> PieceStart(p) + k - 1]

Pending(p, f) == f \in Files /\ job[<<p, f>>] \in {"queued", "run", "sought"}

\* Every chunk given to a thread ends and every close returns, after failed
\* writes and writes on closed handles too.
Drains ==
  /\ closer = "asked" ~> closer = "over"
  /\ \A p \in 0 .. NumPieces - 1, f \in UNION {DOMAIN l : l \in Layouts} :
       Pending(p, f) ~> ~Pending(p, f)

=============================================================================
