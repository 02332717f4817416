------------------------------ MODULE Startup -------------------------------
(***************************************************************************)
(* client/main.py, run_downloader: the torrent file is parsed, the tracker *)
(* is asked for peers, and reannounce_loop asks again until the download   *)
(* ends or is interrupted.  What the pool does with the peers, and how the *)
(* download ends, is in PoolMembership and Download.                       *)
(*                                                                         *)
(*   main  load     nothing is done yet                                    *)
(*         first    waits for the first announce                           *)
(*         adding   waits for add_peers                                    *)
(*         wait     waits for done_event; reannounce_loop runs             *)
(*         stopped  reannounce_task is cancelled, asyncio.run cleans up    *)
(*         exited   the process has ended; failed: by an exception         *)
(*   loop  none, sleep, announce, adding or ended: reannounce_loop         *)
(***************************************************************************)
EXTENDS Tracker

CONSTANTS
  Files,       \* contents of torrent files
  MAX_ROUNDS   \* bound: how often reannounce_loop asks

ASSUME FilesAssumption  == Files \subseteq Seq(Nat)
ASSUME RoundsAssumption == MAX_ROUNDS \in Nat

VARIABLES
  raw,       \* the bytes of the torrent file
  torrent,   \* what they are parsed to
  main, loop,
  rounds,    \* announces of reannounce_loop
  added,     \* calls of add_peers
  done       \* done_event

vars == <<raw, torrent, main, loop, rounds, added, done, ann>>

Init ==
  /\ raw \in Files
  /\ torrent = ParseError
  /\ main = "load" /\ loop = "none"
  /\ rounds = 0 /\ added = 0
  /\ done = FALSE
  /\ ann = Idle

BeginAnnounce(t) == Begin(BuildUrlList(t.announce, t.announceList))

\* An exception of the parser leaves run_downloader.
Load ==
  /\ main = "load"
  /\ torrent' = FromBytes(raw)
  /\ \/ ~IsTorrent(torrent') /\ main' = "failed" /\ UNCHANGED ann
     \/ IsTorrent(torrent') /\ main' = "first" /\ ann' = BeginAnnounce(torrent')
  /\ UNCHANGED <<raw, loop, rounds, added, done>>

\* announce runs in the task that has called it, or its thread runs on.
Announcing == AnnounceStep /\ UNCHANGED <<raw, torrent, main, loop, rounds, added, done>>

\* TrackerError: the writer is closed and run_downloader returns.
FirstFails ==
  /\ main = "first" /\ ann.pc = "none" /\ ann.answer = NoAnswer
  /\ main' = "exited"
  /\ UNCHANGED <<raw, torrent, loop, rounds, added, done, ann>>

\* add_peers is called even with an empty list.
FirstAnswered ==
  /\ main = "first" /\ ann.pc = "none" /\ ann.answer # NoAnswer
  /\ added' = added + 1
  /\ main' = "adding"
  /\ ann' = Idle
  /\ UNCHANGED <<raw, torrent, loop, rounds, done>>

\* The condition of reannounce_loop.
NextRound == loop' = IF done THEN "ended" ELSE "sleep"

\* add_peers returns; sessions run meanwhile, and the loop ends at once if they
\* are through.
FirstAdded ==
  /\ main = "adding"
  /\ main' = "wait" /\ NextRound
  /\ UNCHANGED <<raw, torrent, rounds, added, done, ann>>

-----------------------------------------------------------------------------
(* reannounce_loop *)

\* The sleep is over.
Wake ==
  /\ loop = "sleep" /\ main = "wait"
  /\ \/ /\ done /\ loop' = "ended"
        /\ UNCHANGED <<rounds, ann>>
     \/ /\ ~done /\ rounds < MAX_ROUNDS
        /\ loop' = "announce" /\ rounds' = rounds + 1
        /\ ann' = BeginAnnounce(torrent)
  /\ UNCHANGED <<raw, torrent, main, added, done>>

\* An exception is ignored, an empty list too.
Answered ==
  /\ loop = "announce" /\ ann.pc = "none"
  /\ IF ann.answer # NoAnswer /\ ann.answer.peers > 0
       THEN added' = added + 1 /\ loop' = "adding"
       ELSE NextRound /\ UNCHANGED added
  /\ ann' = Idle
  /\ UNCHANGED <<raw, torrent, main, rounds, done>>

\* add_peers returns.
MoreAdded ==
  /\ loop = "adding" /\ NextRound
  /\ UNCHANGED <<raw, torrent, main, rounds, added, done, ann>>

-----------------------------------------------------------------------------
(* The end *)

\* done_event.set(), in the callback of a peer task.
SetDone ==
  /\ main \in {"adding", "wait"} /\ ~done
  /\ done' = TRUE
  /\ UNCHANGED <<raw, torrent, main, loop, rounds, added, ann>>

InThread == ann.pc \in {"connect", "announce"}

\* Mutant: the request goes on.
RequestGoesOn == ann

\* The announce that is cancelled.  A request over HTTP is given up.  A thread
\* cannot be cancelled: it ends its exchange, and nobody asks for its result.
CancelledAnnounce == IF InThread THEN [ann EXCEPT !.urls = << >>] ELSE Idle

\* Mutant: the loop goes on, as if "except Exception" caught the cancellation.
StopSwallowed ==
  /\ main \in {"first", "adding", "wait"}
  /\ main' = "stopped"
  /\ loop' = IF main = "wait" THEN loop ELSE "none"
  /\ ann' = IF loop = "announce" THEN ann ELSE CancelledAnnounce
  /\ UNCHANGED <<raw, torrent, rounds, added, done>>

\* main wakes up because done_event or the pool's event is set, or Ctrl-C
\* cancels it where it waits.
Stop ==
  /\ main \in {"first", "adding", "wait"}
  /\ main' = "stopped"
  /\ loop' = IF main = "wait" THEN "ended" ELSE "none"
  /\ ann' = CancelledAnnounce
  /\ UNCHANGED <<raw, torrent, rounds, added, done>>

\* asyncio.run waits for the threads of to_thread.
Exit ==
  /\ main = "stopped" /\ ann.pc = "none"
  /\ main' = "exited"
  /\ UNCHANGED <<raw, torrent, loop, rounds, added, done, ann>>

Terminated == main \in {"exited", "failed"} /\ UNCHANGED vars

Next ==
  \/ Load \/ Announcing \/ FirstFails \/ FirstAnswered \/ FirstAdded
  \/ Wake \/ Answered \/ MoreAdded \/ SetDone \/ Stop \/ Exit \/ Terminated

\* The event loop runs what is ready, and every wait of an announce has a
\* timeout; that anything answers is not assumed.
Fairness ==
  /\ WF_vars(Unanswered /\ UNCHANGED <<raw, torrent, main, loop, rounds, added, done>>)
  /\ WF_vars(FirstFails \/ FirstAnswered)
  /\ WF_vars(Answered)
  /\ WF_vars(Exit)

Spec == Init /\ [][Next]_vars /\ Fairness

-----------------------------------------------------------------------------
(* Properties *)

\* The program is where its variables say: an announce is under way only for
\* main or for reannounce_loop, or in a thread that was left behind.
StartupTypeOK ==
  /\ main \in {"load", "first", "adding", "wait", "stopped", "exited", "failed"}
  /\ loop \in {"none", "sleep", "announce", "adding", "ended"}
  /\ rounds \in 0 .. MAX_ROUNDS /\ added \in 0 .. rounds + 1
  /\ done \in BOOLEAN
  /\ ann.pc # "none" => \/ main = "first" \/ loop = "announce"
                        \/ main = "stopped" /\ (InThread \/ ann.urls = << >>)
  /\ main \in {"load", "failed"} <=> ~IsTorrent(torrent)

\* int() takes "4 " for a length: a key may be written with a blank.
BlankInLength(w) == \E k \in 2 .. Len(w) : w[k - 1] = Blank /\ w[k] = Colon

\* _compute_info_hash finds "the bencoded 'info' value [...] by locating the byte
\* offset of the 'info' key": the bytes that are hashed are those of the value
\* that is parsed as info, when the file has "4:info" in one place only and no
\* length has a blank, which find would not see.
InfoHashRight ==
  IsTorrent(torrent) /\ Cardinality(InfoKeysAt(raw)) = 1 /\ ~BlankInLength(raw) =>
    DecodeData(torrent.infoBytes) = DecodeData(raw).dict[<<KeyInfo>>]

\* A torrent that is accepted has pieces, of a length that PieceManager can
\* divide by, and files, none of a negative length, from which FileWriter can
\* make its spans.
TorrentUsable ==
  IsTorrent(torrent) =>
    /\ torrent.pieceLength > 0 /\ torrent.numPieces > 0
    /\ torrent.files # << >>
    /\ \A k \in DOMAIN torrent.files : torrent.files[k] >= 0

\* announce fails only after every HTTP and UDP URL of the torrent was tried,
\* and tries none twice.
FailsAfterAll ==
  (main = "first" \/ loop = "announce") /\ ann.pc = "none" /\ ann.answer = NoAnswer =>
    /\ ToSet(ann.tried) = {u \in {torrent.announce} \cup UNION {ToSet(t) : t \in ToSet(torrent.announceList)} : Usable(u)}
    /\ IsInjective(ann.tried)

\* The answer announce returns is that of the URL it tried last, and over UDP
\* it answers the announce request: late, repeated and reordered datagrams of
\* the connection are never taken for it.
AnswerIsOwn ==
  ann.answer # NoAnswer =>
    ann.answer.to = IF Head(Last(ann.tried)) = Udp THEN "announce" ELSE "http"

\* No peer reaches the pool, and no other tracker is asked, once main has
\* stopped, although a thread may still receive answers.
NothingAfterStop ==
  [][(main \in {"stopped", "exited"}) => added' = added /\ ann'.tried = ann.tried]_vars

\* Every announce comes to an end, and the process after it was stopped.
AnnounceEnds ==
  /\ (main = "first" \/ loop = "announce") ~> (main # "first" /\ loop # "announce")
  /\ main = "stopped" ~> main = "exited"
=============================================================================
