--------------------------- MODULE DownloadProofs ---------------------------
(***************************************************************************)
(* The writer stays correct under the pool and main: every step of         *)
(* Download is, for the writer, one of its own steps, a call, or nothing.  *)
(***************************************************************************)
EXTENDS Download, FileWriterProofs

\* The callback, the cancellations and the teardown touch the writer only so.
LEMMA StepIsWriterCall == [DownloadNext]_vars => WriterCall
<1> SUFFICES ASSUME [DownloadNext]_vars  PROVE WriterCall
  OBVIOUS
<1>1. CASE UNCHANGED vars
  BY <1>1 DEF vars, writerVars, WriterCall
<1>2. CASE Threading
  BY <1>2 DEF Threading, WriterCall
<1>3. CASE MainWakes \/ Interrupt
  BY <1>3 DEF MainWakes, Interrupt, MainStops, writerVars, WriterCall
<1>4. CASE ShutdownReturns
  BY <1>4 DEF ShutdownReturns, WriterCall
<1>5. CASE MainEnds \/ Ended
  BY <1>5 DEF MainEnds, Ended, vars, writerVars, WriterCall
<1>6. ASSUME NEW s \in Sessions, TaskCancelled(s)  PROVE WriterCall
  <2>1. CASE sess[s].pc = "write"
    BY <1>6, <2>1 DEF TaskCancelled, WriterCall
  <2>2. CASE sess[s].pc # "write"
    BY <1>6, <2>2 DEF TaskCancelled, WriterCall, writerVars
  <2> QED  BY <2>1, <2>2
<1>7. ASSUME NEW s \in Sessions, NEW p \in Pieces, Verify(s, p)  PROVE WriterCall
  BY <1>7 DEF Verify, WriterCall
<1>8. ASSUME NEW s \in Sessions,
             \/ SessionJoins(s) \/ SessionLeaves(s) \/ SeesDone(s) \/ Count(s) \/ WriteRaises(s)
      PROVE  WriterCall
  BY <1>8 DEF SessionJoins, SessionLeaves, SeesDone, Count, WriteRaises, WriterCall
<1> QED  BY <1>1, <1>2, <1>3, <1>4, <1>5, <1>6, <1>7, <1>8 DEF DownloadNext

\* Whatever the peers, the pool, the disk and Ctrl-C do, and however many
\* tasks and threads there are, every byte on disk is where it belongs.
THEOREM DownloadDiskRight == DownloadSpec => [](WriterTypeOK /\ DiskRight)
<1>1. DownloadInit => WriterInv
  BY WriterInitInv DEF DownloadInit
<1>2. WriterInv /\ [DownloadNext]_vars => WriterInv'
  BY StepIsWriterCall, WriterCallInv
<1>3. WriterInv => WriterTypeOK /\ DiskRight
  BY DEF WriterInv
<1> QED  BY <1>1, <1>2, <1>3, PTL DEF DownloadSpec

-----------------------------------------------------------------------------
(* What the tasks, the counters and main keep *)

\* A task that waits for a write has a piece of its own, verified and not yet
\* counted; what shutdown cancelled has not ended.
TasksOK ==
  /\ sess \in [Sessions -> {Away, InLoop} \cup [pc : {"write"}, piece : verified \ counted]]
  /\ \A s, t \in Sessions : sess[s].pc = "write" /\ sess[s] = sess[t] => s = t
  /\ cancelled \subseteq {s \in Sessions : sess[s] # Away}

\* A verified piece has been given to the writer.
PiecesOK ==
  /\ verified \subseteq Pieces /\ counted \subseteq verified
  /\ \A p \in verified, f \in Files : Overlaps(p, f) => job[<<p, f>>] # "none"

\* The events are set for a reason, and main goes on for one.
EventsOK ==
  /\ main \in {"wait", "shut", "close", "over"}
  /\ doneEvent \in BOOLEAN /\ poolDone \in BOOLEAN /\ interrupted \in BOOLEAN
  /\ doneEvent => PmDone(verified) \/ LimitReached(Cardinality(counted))
  /\ poolDone => PmDone(verified)
  /\ main # "wait" => doneEvent \/ poolDone \/ interrupted

DownInv == WriterInv /\ DoneStored /\ TasksOK /\ PiecesOK /\ EventsOK /\ CountedOnDisk

\* The writer's side of a step.
LEMMA WriterSide ==
  ASSUME DownInv, [DownloadNext]_vars
  PROVE  WriterInv' /\ DoneStored' /\ Keeps
<1>1. WriterCall
  BY StepIsWriterCall
<1>2. WriterInv' /\ Keeps
  BY <1>1, WriterCallInv, CallKeeps DEF DownInv
<1> QED
  BY <1>2, DoneStoredNext DEF DownInv

\* The layout of the files is fixed.
LEMMA LayoutFixed ==
  ASSUME Keeps
  PROVE  /\ Files' = Files
         /\ \A p, f : Overlaps(p, f)' = Overlaps(p, f)
  BY DEF Keeps, Files, Overlaps, OverlapStart, OverlapEnd, GlobalEnd

\* A task ends, or goes on in its loop.
LEMMA TaskMoves ==
  ASSUME TasksOK, NEW s \in Sessions, NEW x \in {Away, InLoop},
         sess' = [sess EXCEPT ![s] = x], verified' = verified,
         counted' = counted \/ (sess[s].pc = "write" /\ counted' = counted \cup {sess[s].piece}),
         cancelled' \subseteq cancelled \ {s}
  PROVE  TasksOK'
<1>1. Away.pc = "gone" /\ InLoop.pc = "loop" /\ x.pc # "write"
  BY DEF Away, InLoop
<1>2. sess' \in [Sessions -> {Away, InLoop} \cup [pc : {"write"}, piece : verified' \ counted']]
  <2>1. ASSUME NEW t \in Sessions
        PROVE  sess'[t] \in {Away, InLoop} \cup [pc : {"write"}, piece : verified' \ counted']
    <3>1. CASE t = s
      BY <3>1 DEF TasksOK
    <3>2. CASE t # s /\ sess[t] \in {Away, InLoop}
      BY <3>2 DEF TasksOK
    <3>3. CASE t # s /\ sess[t] \notin {Away, InLoop}
      <4>1. sess'[t] = sess[t]
        BY <3>3 DEF TasksOK
      <4>2. sess[t] \in [pc : {"write"}, piece : verified \ counted]
        BY <3>3 DEF TasksOK
      <4>3. CASE counted' = counted
        BY <4>1, <4>2, <4>3
      <4>4. CASE sess[s].pc = "write" /\ counted' = counted \cup {sess[s].piece}
        <5>1. sess[s] \in [pc : {"write"}, piece : verified \ counted]
          BY <1>1, <4>4 DEF TasksOK
        <5>2. sess[s] # sess[t]
          BY <3>3, <4>4 DEF TasksOK
        <5>3. sess[s].piece # sess[t].piece
          BY <4>2, <5>1, <5>2
        <5> QED
          BY <4>1, <4>2, <4>4, <5>3
      <4> QED
        BY <4>3, <4>4
    <3> QED
      BY <3>1, <3>2, <3>3
  <2> QED
    BY <2>1 DEF TasksOK
<1>3. \A t, u \in Sessions : sess'[t].pc = "write" /\ sess'[t] = sess'[u] => t = u
  <2> SUFFICES ASSUME NEW t \in Sessions, NEW u \in Sessions, sess'[t].pc = "write", sess'[t] = sess'[u]
               PROVE  t = u
    OBVIOUS
  <2>1. t # s /\ u # s
    BY <1>1 DEF TasksOK
  <2> QED
    BY <2>1 DEF TasksOK
<1>4. cancelled' \subseteq {t \in Sessions : sess'[t] # Away}
  BY DEF TasksOK
<1> QED
  BY <1>2, <1>3, <1>4 DEF TasksOK

\* A piece is given to the writer and its task waits.
LEMMA TaskWaits ==
  ASSUME TasksOK, NEW s \in Sessions, NEW p, p \notin verified, counted \subseteq verified,
         sess' = [sess EXCEPT ![s] = [pc |-> "write", piece |-> p]], verified' = verified \cup {p},
         counted' = counted, cancelled' = cancelled
  PROVE  TasksOK'
<1> DEFINE w == [pc |-> "write", piece |-> p]
<1>1. Away.pc = "gone" /\ InLoop.pc = "loop" /\ w.pc = "write" /\ w.piece = p
  BY DEF Away, InLoop
<1>2. w \in [pc : {"write"}, piece : verified' \ counted']
  OBVIOUS
<1>3. \A t \in Sessions : sess[t] # w
  <2> SUFFICES ASSUME NEW t \in Sessions, sess[t] = w  PROVE FALSE
    OBVIOUS
  <2>1. sess[t] \in [pc : {"write"}, piece : verified \ counted]
    BY <1>1 DEF TasksOK
  <2> QED
    BY <2>1
<1> HIDE DEF w
<1>4. sess' \in [Sessions -> {Away, InLoop} \cup [pc : {"write"}, piece : verified' \ counted']]
  <2>1. [pc : {"write"}, piece : verified \ counted] \subseteq [pc : {"write"}, piece : verified' \ counted']
    OBVIOUS
  <2>2. sess' = [sess EXCEPT ![s] = w]
    BY DEF w
  <2> QED
    BY <1>2, <2>1, <2>2 DEF TasksOK
<1>5. \A t, u \in Sessions : sess'[t].pc = "write" /\ sess'[t] = sess'[u] => t = u
  <2>1. sess' = [sess EXCEPT ![s] = w]
    BY DEF w
  <2> QED
    BY <1>3, <2>1 DEF TasksOK
<1>6. cancelled' \subseteq {t \in Sessions : sess'[t] # Away}
  <2>1. sess' = [sess EXCEPT ![s] = w]
    BY DEF w
  <2>2. w # Away
    BY <1>1
  <2> QED
    BY <2>1, <2>2 DEF TasksOK
<1> QED
  BY <1>4, <1>5, <1>6 DEF TasksOK

\* No step of the writer takes a piece back.
LEMMA PiecesStay ==
  ASSUME PiecesOK, Keeps, verified' = verified, counted' \subseteq verified
  PROVE  PiecesOK'
  BY LayoutFixed DEF PiecesOK, Keeps, Pieces, NumPieces

\* What was counted stays on disk.
LEMMA CountedStays ==
  ASSUME DownInv, Keeps
  PROVE  \A p \in counted : OnDisk(p)'
  BY OnDiskStays DEF DownInv, PiecesOK, CountedOnDisk

LEMMA CountStays ==
  ASSUME DownInv, Keeps, counted' = counted, downloaded' = downloaded
  PROVE  CountedOnDisk'
<1>1. \A p \in counted' : OnDisk(p)'
  BY CountedStays
<1>2. \A p : PieceBytes(p)' = PieceBytes(p)
  BY DEF PieceBytes, PieceStart, PieceEnd, PieceSize
<1> QED
  BY <1>1, <1>2 DEF CountedOnDisk, DownInv

-----------------------------------------------------------------------------
(* One step per action *)

LEMMA DownInitInv == DownloadInit => DownInv
<1> SUFFICES ASSUME DownloadInit  PROVE DownInv
  OBVIOUS
<1>1. WriterInv /\ DoneStored
  BY WriterInitInv, WriterInitStored DEF DownloadInit
<1>2. TasksOK /\ PiecesOK /\ EventsOK
  BY DEF DownloadInit, TasksOK, PiecesOK, EventsOK, Away
<1>3. CountedOnDisk
  <2>1. UNION {PieceBytes(p) : p \in {}} = {}
    OBVIOUS
  <2> QED
    BY <2>1, FS_EmptySet DEF DownloadInit, CountedOnDisk
<1> QED
  BY <1>1, <1>2, <1>3 DEF DownInv

\* A step in which the callback does not count and no piece is verified.
LEMMA PlainStep ==
  ASSUME DownInv, Keeps, UNCHANGED <<verified, counted, downloaded>>
  PROVE  PiecesOK' /\ CountedOnDisk'
  BY PiecesStay, CountStays DEF DownInv, PiecesOK

LEMMA SessionStep ==
  ASSUME DownInv, Keeps, NEW s \in Sessions,
         SessionJoins(s) \/ SessionLeaves(s) \/ SeesDone(s) \/ WriteRaises(s)
  PROVE  TasksOK' /\ PiecesOK' /\ EventsOK' /\ CountedOnDisk'
<1>1. UNCHANGED <<verified, counted, downloaded, doneEvent, cancelled, main, interrupted>>
  BY DEF SessionJoins, SessionLeaves, SeesDone, WriteRaises
<1>2. PiecesOK' /\ CountedOnDisk'
  BY <1>1, PlainStep
<1>3. s \notin cancelled
  BY DEF SessionJoins, SessionLeaves, SeesDone, WriteRaises, DownInv, TasksOK
<1>4. PICK x \in {Away, InLoop} : sess' = [sess EXCEPT ![s] = x]
  BY DEF SessionJoins, SessionLeaves, SeesDone, WriteRaises, Continue
<1>5. TasksOK'
  <2>1. cancelled' \subseteq cancelled \ {s} /\ verified' = verified /\ counted' = counted /\ TasksOK
    BY <1>1, <1>3 DEF DownInv
  <2> QED
    BY <1>4, <2>1, TaskMoves, Zenon
<1>6. poolDone' \in BOOLEAN /\ (poolDone => poolDone') /\ (poolDone' => poolDone \/ PmDone(verified))
  <2>1. poolDone' = poolDone \/ poolDone' = (poolDone \/ PmDone(verified))
    BY Zenon DEF SessionJoins, SessionLeaves, SeesDone, WriteRaises, Continue
  <2>2. poolDone \in BOOLEAN
    BY DEF DownInv, EventsOK
  <2>3. CASE poolDone' = poolDone
    BY <2>2, <2>3
  <2>4. CASE poolDone' = (poolDone \/ PmDone(verified))
    <3>1. poolDone' \in BOOLEAN
      BY <2>4
    <3> QED
      BY <2>2, <2>4, <3>1, Zenon
  <2> QED
    BY <2>1, <2>3, <2>4
<1>7. EventsOK'
  BY <1>1, <1>6 DEF DownInv, EventsOK, PmDone, LimitReached, Pieces, NumPieces
<1> QED
  BY <1>2, <1>5, <1>7

LEMMA VerifyStep ==
  ASSUME DownInv, Keeps, WriterInv', NEW s \in Sessions, NEW p \in Pieces, Verify(s, p)
  PROVE  TasksOK' /\ PiecesOK' /\ EventsOK' /\ CountedOnDisk'
<1>1. /\ p \notin verified /\ verified' = verified \cup {p}
      /\ UNCHANGED <<counted, downloaded, doneEvent, poolDone, cancelled, main, interrupted>>
      /\ sess' = [sess EXCEPT ![s] = [pc |-> "write", piece |-> p]]
  BY DEF Verify
<1>2. TasksOK'
  BY <1>1, TaskWaits DEF DownInv, PiecesOK
<1>3. PiecesOK'
  <2>1. ASSUME NEW q \in verified', NEW f \in Files, Overlaps(q, f)  PROVE job'[<<q, f>>] # "none"
    <3>1. CASE q \in verified
      BY <2>1, <3>1 DEF DownInv, PiecesOK, Keeps
    <3>2. CASE q = p
      BY <2>1, <3>2 DEF Verify, WritePiece
    <3> QED
      BY <1>1, <3>1, <3>2
  <2>2. verified' \subseteq Pieces /\ counted' \subseteq verified'
    BY <1>1 DEF DownInv, PiecesOK
  <2> QED
    BY <2>1, <2>2, LayoutFixed DEF PiecesOK, Pieces, NumPieces
<1>4. CountedOnDisk'
  BY <1>1, CountStays
<1>5. ~PmDone(verified)
  BY <1>1 DEF PmDone
<1>6. EventsOK'
  BY <1>1, <1>5 DEF DownInv, EventsOK, LimitReached
<1> QED
  BY <1>2, <1>3, <1>4, <1>6

LEMMA CountStep ==
  ASSUME DownInv, Keeps, NEW s \in Sessions, Count(s)
  PROVE  TasksOK' /\ PiecesOK' /\ EventsOK' /\ CountedOnDisk'
<1>0. PICK p : p = sess[s].piece
  OBVIOUS
<1>1. /\ sess[s].pc = "write" /\ s \notin cancelled /\ Written(p)
      /\ counted' = counted \cup {p} /\ downloaded' = downloaded + PieceSize(p)
      /\ doneEvent' = (doneEvent \/ LimitReached(Cardinality(counted')) \/ PmDone(verified))
      /\ poolDone' = (poolDone \/ PmDone(verified))
      /\ UNCHANGED <<verified, cancelled, main, interrupted>>
  BY <1>0 DEF Count, Continue
<1>2. p \in verified \ counted /\ p \in Pieces
  <2>1. Away.pc = "gone" /\ InLoop.pc = "loop"
    BY DEF Away, InLoop
  <2>2. sess[s] \in [pc : {"write"}, piece : verified \ counted]
    BY <1>1, <2>1 DEF DownInv, TasksOK
  <2> QED
    BY <1>0, <2>2 DEF DownInv, PiecesOK
<1>3. PICK x \in {Away, InLoop} : sess' = [sess EXCEPT ![s] = x]
  BY DEF Count, Continue
<1>4. TasksOK'
  <2>1. /\ cancelled' \subseteq cancelled \ {s} /\ verified' = verified /\ TasksOK
        /\ sess[s].pc = "write" /\ counted' = counted \cup {sess[s].piece}
    BY <1>0, <1>1 DEF DownInv
  <2> QED
    BY <1>3, <2>1, TaskMoves, Zenon
<1>5. PiecesOK'
  BY <1>1, <1>2, PiecesStay DEF DownInv, PiecesOK
<1>6. CountedOnDisk'
  <2>1. OnDisk(p)'
    BY <1>1, <1>2, WrittenOnDisk, OnDiskStays DEF DownInv
  <2>2. \A q \in counted' : OnDisk(q)'
    BY <1>1, <2>1, CountedStays
  <2>3. counted \in SUBSET Pieces /\ p \in Pieces \ counted
    BY <1>2 DEF DownInv, PiecesOK
  <2>4. downloaded' = Cardinality(UNION {PieceBytes(q) : q \in counted'})
    BY <1>1, <2>3, BytesAdded DEF DownInv, CountedOnDisk
  <2>5. \A q : PieceBytes(q)' = PieceBytes(q)
    BY DEF PieceBytes, PieceStart, PieceEnd, PieceSize
  <2> QED
    BY <2>2, <2>4, <2>5 DEF CountedOnDisk
<1>7. LimitReached(Cardinality(counted)) => LimitReached(Cardinality(counted'))
  <2>1. IsFiniteSet(counted)
    BY PiecesFinite, FS_Subset DEF DownInv, PiecesOK
  <2>2. Cardinality(counted') = Cardinality(counted) + 1 /\ Cardinality(counted) \in Nat
    BY <1>1, <1>2, <2>1, FS_AddElement, FS_CardinalityType
  <2> QED
    BY <2>2, DownloadAssumption DEF LimitReached
<1>8. EventsOK'
  BY <1>1, <1>7 DEF DownInv, EventsOK, PmDone, LimitReached, Pieces, NumPieces
<1> QED
  BY <1>4, <1>5, <1>6, <1>8

LEMMA TaskCancelledStep ==
  ASSUME DownInv, Keeps, NEW s \in Sessions, TaskCancelled(s)
  PROVE  TasksOK' /\ PiecesOK' /\ EventsOK' /\ CountedOnDisk'
<1>1. /\ UNCHANGED <<verified, counted, downloaded, doneEvent, poolDone, main, interrupted>>
      /\ sess' = [sess EXCEPT ![s] = Away] /\ cancelled' = cancelled \ {s}
  BY DEF TaskCancelled
<1>2. TasksOK'
  BY <1>1, TaskMoves DEF DownInv
<1>3. EventsOK'
  BY <1>1 DEF DownInv, EventsOK, PmDone, LimitReached, Pieces, NumPieces
<1> QED
  BY <1>1, <1>2, <1>3, PlainStep

LEMMA MainStep ==
  ASSUME DownInv, Keeps,
         \/ MainWakes \/ Interrupt \/ ShutdownReturns \/ MainEnds
         \/ Threading \/ Ended \/ UNCHANGED vars
  PROVE  TasksOK' /\ PiecesOK' /\ EventsOK' /\ CountedOnDisk'
<1>1. UNCHANGED <<sess, verified, counted, downloaded, doneEvent, poolDone>>
  BY DEF MainWakes, Interrupt, MainStops, ShutdownReturns, MainEnds, Threading, Ended, vars, downloadVars
<1>2. cancelled' = cancelled \/ cancelled' = {s \in Sessions : sess[s] # Away}
  BY DEF MainWakes, Interrupt, MainStops, ShutdownReturns, MainEnds, Threading, Ended, vars, downloadVars
<1>3. TasksOK'
  BY <1>1, <1>2 DEF DownInv, TasksOK
<1>4. EventsOK'
  <2>1. /\ main' \in {"wait", "shut", "close", "over"} /\ interrupted' \in BOOLEAN
        /\ main' # "wait" => main # "wait" \/ doneEvent \/ poolDone \/ interrupted'
        /\ interrupted => interrupted'
    BY DEF MainWakes, Interrupt, MainStops, ShutdownReturns, MainEnds, Threading, Ended, vars,
           downloadVars, DownInv, EventsOK
  <2> QED
    BY <1>1, <2>1 DEF DownInv, EventsOK, PmDone, LimitReached, Pieces, NumPieces
<1> QED
  BY <1>1, <1>3, <1>4, PlainStep

LEMMA DownNextInv == DownInv /\ [DownloadNext]_vars => DownInv'
<1> SUFFICES ASSUME DownInv, [DownloadNext]_vars  PROVE DownInv'
  OBVIOUS
<1>1. WriterInv' /\ DoneStored' /\ Keeps
  BY WriterSide
<1>2. TasksOK' /\ PiecesOK' /\ EventsOK' /\ CountedOnDisk'
  BY <1>1, SessionStep, VerifyStep, CountStep, TaskCancelledStep, MainStep DEF DownloadNext
<1> QED
  BY <1>1, <1>2 DEF DownInv

LEMMA DownAlways == DownloadSpec => []DownInv
  BY DownInitInv, DownNextInv, PTL DEF DownloadSpec

\* Types, for any number of tasks, pieces and threads: only verified pieces
\* are counted, and what shutdown has cancelled has not ended.
THEOREM DownloadTyped == DownloadSpec => []DownloadTypeOK
<1>1. DownInv => DownloadTypeOK
  <2> SUFFICES ASSUME DownInv  PROVE DownloadTypeOK
    OBVIOUS
  <2>1. sess \in [Sessions -> [pc : {"gone", "loop", "write"}, piece : Pieces \cup {NoPiece}]]
    <3>1. Away \in [pc : {"gone", "loop", "write"}, piece : Pieces \cup {NoPiece}]
      BY DEF Away
    <3>2. InLoop \in [pc : {"gone", "loop", "write"}, piece : Pieces \cup {NoPiece}]
      BY DEF InLoop
    <3>3. [pc : {"write"}, piece : verified \ counted]
            \subseteq [pc : {"gone", "loop", "write"}, piece : Pieces \cup {NoPiece}]
      BY DEF DownInv, PiecesOK
    <3> QED
      BY <3>1, <3>2, <3>3 DEF DownInv, TasksOK
  <2> QED
    BY <2>1 DEF DownInv, WriterInv, TasksOK, PiecesOK, EventsOK, DownloadTypeOK
<1> QED
  BY <1>1, DownAlways, PTL

\* The progress line and the summary count a piece, and its bytes, only when it
\* is on disk, and it stays there: through failing writes, cancelled tasks and
\* a close in the middle, for any number of tasks, threads and files.
THEOREM ReportedIsOnDisk == DownloadSpec => []CountedOnDisk
<1>1. DownInv => CountedOnDisk
  BY DEF DownInv
<1> QED
  BY <1>1, DownAlways, PTL

\* "Download Complete" without an interruption means that what was asked for
\* is on disk, when the limit was reached before every piece was verified and
\* when no write was cut off, failed or is still under way.
THEOREM CompleteIsRight == DownloadSpec => []CompleteUnlessCut
<1>1. DownInv => CompleteUnlessCut
  <2> SUFFICES ASSUME DownInv, verified # Pieces \/ NothingCut, main = "over", ~interrupted
               PROVE  Cardinality({p \in Pieces : OnDisk(p)}) >= Target
    BY DEF CompleteUnlessCut, CompleteIsOnDisk
  <2> DEFINE D == {p \in Pieces : OnDisk(p)}
  <2>1. doneEvent \/ poolDone
    BY DEF DownInv, EventsOK
  <2>2. IsFiniteSet(D) /\ Cardinality(D) \in Nat
    BY PiecesFinite, FS_Subset, FS_CardinalityType
  <2>3. Target \in Int /\ Target <= NumPieces /\ (MaxPieces # 0 => Target <= MaxPieces)
    BY PiecesFinite, MinMaxTwo, DownloadAssumption DEF Target
  <2>4. CASE verified # Pieces
    <3>1. MaxPieces # 0 /\ Cardinality(counted) >= MaxPieces
      BY <2>1, <2>4 DEF DownInv, EventsOK, PmDone, LimitReached
    <3>2. counted \subseteq D
      BY DEF DownInv, CountedOnDisk, PiecesOK
    <3>3. Cardinality(counted) <= Cardinality(D) /\ Cardinality(counted) \in Nat
      BY <2>2, <3>2, FS_Subset, FS_CardinalityType
    <3> QED
      BY <2>2, <2>3, <3>1, <3>3, DownloadAssumption
  <2>5. CASE verified = Pieces /\ NothingCut
    <3>1. ASSUME NEW p \in Pieces  PROVE OnDisk(p)
      <4>1. Written(p)
        <5> SUFFICES ASSUME NEW f \in Files
                     PROVE  job[<<p, f>>] = IF Overlaps(p, f) THEN "done" ELSE "none"
          BY DEF Written, Jobs
        <5> QED
          BY <2>5 DEF NothingCut, DownInv, PiecesOK, WriterInv, JobsOverlap
      <4> QED
        BY <4>1, WrittenOnDisk DEF DownInv
    <3>2. D = Pieces
      BY <3>1
    <3> QED
      BY <2>3, <3>2, PiecesFinite
  <2> QED
    BY <2>4, <2>5
<1> QED
  BY <1>1, DownAlways, PTL

=============================================================================
