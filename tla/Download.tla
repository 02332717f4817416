------------------------------ MODULE Download ------------------------------
(***************************************************************************)
(* run_downloader of client/main.py: verified pieces are given to the      *)
(* FileWriter by the callback of the pool, the callback counts them, and   *)
(* main waits for its done_event or the pool's, shuts the pool down and    *)
(* closes the writer.                                                      *)
(*                                                                         *)
(* A peer task is reduced to what main sees of it (PeerPool has the rest): *)
(*   gone   no task                                                        *)
(*   loop   in the download loop                                           *)
(*   write  waits for the callback on its piece                            *)
(* main: wait, shut (pool.shutdown waits for the tasks), close (waits for  *)
(* writer.close), over (has printed "Download Complete").                  *)
(***************************************************************************)
EXTENDS FileWriter

CONSTANTS
  Sessions,     \* slots for peer tasks
  MaxPieces,    \* --max-pieces, 0 for none
  MayInterrupt  \* whether main may be cancelled while it waits

ASSUME DownloadAssumption ==
  /\ MaxPieces \in Nat
  /\ MayInterrupt \in BOOLEAN

VARIABLES
  sess,         \* where each peer task is, and its piece
  verified,     \* pieces that are COMPLETE in the PieceManager
  counted,      \* pieces the callback has counted
  downloaded,   \* downloaded_bytes
  doneEvent,    \* done_event of main
  poolDone,     \* _done_event of the pool
  cancelled,    \* tasks that shutdown has cancelled, not yet delivered
  main,
  interrupted

downloadVars == <<sess, verified, counted, downloaded, doneEvent, poolDone,
                  cancelled, main, interrupted>>
vars == <<writerVars, downloadVars>>

NoPiece == -1
Away    == [pc |-> "gone", piece |-> NoPiece]
InLoop  == [pc |-> "loop", piece |-> NoPiece]

PmDone(v) == v = Pieces

Target == IF MaxPieces = 0 THEN NumPieces ELSE Min({NumPieces, MaxPieces})

DownloadInit ==
  /\ WriterInit
  /\ sess = [s \in Sessions |-> Away]
  /\ verified = {} /\ counted = {} /\ downloaded = 0
  /\ doneEvent = FALSE /\ poolDone = FALSE
  /\ cancelled = {}
  /\ main = "wait" /\ interrupted = FALSE

-----------------------------------------------------------------------------
(* Peer tasks *)

\* Mutant: the loop ends without telling the pool.
ContinueSilent(s) ==
  /\ sess' = [sess EXCEPT ![s] = IF PmDone(verified) THEN Away ELSE InLoop]
  /\ UNCHANGED poolDone

\* while not is_done ...; then the pool's event is set and the task ends.
Continue(s) ==
  /\ sess' = [sess EXCEPT ![s] = IF PmDone(verified) THEN Away ELSE InLoop]
  /\ poolDone' = (poolDone \/ PmDone(verified))

\* A connection is made, from the first list or after a re-announcement.
SessionJoins(s) ==
  /\ sess[s] = Away /\ main = "wait"
  /\ Continue(s)
  /\ UNCHANGED <<writerVars, verified, counted, downloaded, doneEvent, cancelled, main, interrupted>>

\* The peer is lost, chokes or stalls.
SessionLeaves(s) ==
  /\ sess[s].pc = "loop" /\ s \notin cancelled
  /\ sess' = [sess EXCEPT ![s] = Away]
  /\ UNCHANGED <<writerVars, verified, counted, downloaded, doneEvent, poolDone, cancelled, main, interrupted>>

\* The last block of a piece arrives and the hash matches: the callback is
\* invoked, which first calls write_piece.
Verify(s, p) ==
  /\ sess[s].pc = "loop" /\ s \notin cancelled
  /\ p \notin verified
  /\ verified' = verified \cup {p}
  /\ sess' = [sess EXCEPT ![s] = [pc |-> "write", piece |-> p]]
  /\ WritePiece(p)
  /\ UNCHANGED <<counted, downloaded, doneEvent, poolDone, cancelled, main, interrupted>>

\* Mutant: a cancelled task goes on.
SeesDoneCancelled(s) ==
  /\ sess[s].pc = "loop" /\ PmDone(verified)
  /\ Continue(s)
  /\ UNCHANGED <<writerVars, verified, counted, downloaded, doneEvent, cancelled, main, interrupted>>

\* An idle task wakes up when another has verified the last piece.
SeesDone(s) ==
  /\ sess[s].pc = "loop" /\ s \notin cancelled
  /\ PmDone(verified)
  /\ Continue(s)
  /\ UNCHANGED <<writerVars, verified, counted, downloaded, doneEvent, cancelled, main, interrupted>>

\* Mutant: the event is set one piece early.
LimitEarly(n) == MaxPieces # 0 /\ n + 1 >= MaxPieces

LimitReached(n) == MaxPieces # 0 /\ n >= MaxPieces

\* write_piece returns, the callback counts, and the loop goes on.
Count(s) ==
  LET p == sess[s].piece
  IN  /\ sess[s].pc = "write" /\ s \notin cancelled
      /\ Written(p)
      /\ counted' = counted \cup {p}
      /\ downloaded' = downloaded + PieceSize(p)
      /\ doneEvent' = (doneEvent \/ LimitReached(Cardinality(counted')) \/ PmDone(verified))
      /\ Continue(s)
      /\ UNCHANGED <<writerVars, verified, cancelled, main, interrupted>>

\* write_piece raises: _on_piece_done logs it and the loop goes on.
WriteRaises(s) ==
  /\ sess[s].pc = "write" /\ s \notin cancelled
  /\ Raised(sess[s].piece)
  /\ Continue(s)
  /\ UNCHANGED <<writerVars, verified, counted, downloaded, doneEvent, cancelled, main, interrupted>>

-----------------------------------------------------------------------------
(* main *)

MainStops ==
  /\ main' = "shut"
  /\ cancelled' = {s \in Sessions : sess[s] # Away}
  /\ UNCHANGED <<writerVars, sess, verified, counted, downloaded, doneEvent, poolDone>>

\* Either event is set; asyncio.wait returns and shutdown cancels the tasks.
MainWakes ==
  /\ main = "wait" /\ (doneEvent \/ poolDone)
  /\ MainStops
  /\ UNCHANGED interrupted

\* Ctrl-C cancels main, which passes over it and goes the same way.
Interrupt ==
  /\ MayInterrupt /\ main = "wait"
  /\ MainStops
  /\ interrupted' = TRUE

\* CancelledError reaches a task, and the gather of the writes it waits for.
TaskCancelled(s) ==
  /\ s \in cancelled
  /\ cancelled' = cancelled \ {s}
  /\ sess' = [sess EXCEPT ![s] = Away]
  /\ job' = IF sess[s].pc = "write" THEN Cancelled({sess[s].piece}) ELSE job
  /\ UNCHANGED <<files, start, disk, pos, open, closer>>
  /\ UNCHANGED <<verified, counted, downloaded, doneEvent, poolDone, main, interrupted>>

\* The tasks have ended; main closes the writer.
ShutdownReturns ==
  /\ main = "shut" /\ \A s \in Sessions : sess[s] = Away
  /\ main' = "close"
  /\ Close
  /\ UNCHANGED <<sess, verified, counted, downloaded, doneEvent, poolDone, cancelled, interrupted>>

MainEnds ==
  /\ main = "close" /\ closer = "over"
  /\ main' = "over"
  /\ UNCHANGED <<writerVars, sess, verified, counted, downloaded, doneEvent, poolDone, cancelled, interrupted>>

\* The threads go on while and after main stops.
Threading == WriterStep /\ UNCHANGED downloadVars

Ended == main = "over" /\ Running = {} /\ NoneQueued /\ UNCHANGED vars

DownloadNext ==
  \/ \E s \in Sessions :
       \/ SessionJoins(s) \/ SessionLeaves(s) \/ SeesDone(s)
       \/ Count(s) \/ WriteRaises(s) \/ TaskCancelled(s)
       \/ \E p \in Pieces : Verify(s, p)
  \/ Threading \/ MainWakes \/ Interrupt \/ ShutdownReturns \/ MainEnds \/ Ended

DownloadSpec == DownloadInit /\ [][DownloadNext]_vars

\* The event loop runs what is ready, an idle task wakes after five seconds at
\* the latest, and the threads run.  Peers owe nothing: no fairness for Verify.
FairDownloadSpec ==
  /\ DownloadSpec
  /\ \A s \in Sessions :
       WF_vars(SeesDone(s)) /\ WF_vars(Count(s) \/ WriteRaises(s)) /\ WF_vars(TaskCancelled(s))
  /\ WF_vars(Threading)
  /\ WF_vars(MainWakes) /\ WF_vars(ShutdownReturns) /\ WF_vars(MainEnds)

-----------------------------------------------------------------------------
(* Properties *)

\* Types; only verified pieces are counted, and a cancelled task has not ended.
DownloadTypeOK ==
  /\ WriterTypeOK
  /\ sess \in [Sessions -> [pc : {"gone", "loop", "write"}, piece : Pieces \cup {NoPiece}]]
  /\ verified \subseteq Pieces /\ counted \subseteq verified
  /\ cancelled \subseteq {s \in Sessions : sess[s] # Away}
  /\ main \in {"wait", "shut", "close", "over"}
  /\ {doneEvent, poolDone, interrupted} \subseteq BOOLEAN

\* What the progress line and the summary report is on disk, to the byte,
\* through failed writes, cancellation and close.
CountedOnDisk ==
  /\ \A p \in counted : OnDisk(p)
  /\ downloaded = Cardinality(UNION {PieceBytes(p) : p \in counted})

\* When main reports a download complete that nobody interrupted, all that was
\* asked for is on disk.
CompleteIsOnDisk ==
  main = "over" /\ ~interrupted => Cardinality({p \in Pieces : OnDisk(p)}) >= Target

NothingCut == \A j \in Pieces \X Files : job[j] \in {"none", "done"}

\* The same where the code does see to it: when --max-pieces was reached before
\* every piece was verified, although other writes are cut off; and otherwise
\* when no write has failed, was cut off or is still under way.
CompleteUnlessCut == verified # Pieces \/ NothingCut => CompleteIsOnDisk

\* Once every piece is verified the program ends, also when the last write
\* fails and when other tasks are in the middle of theirs.
Finishes == PmDone(verified) ~> main = "over"

=============================================================================
