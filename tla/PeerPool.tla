------------------------------ MODULE PeerPool ------------------------------
(***************************************************************************)
(* The per-peer download coroutines of client/modules/peerPool.py          *)
(* (_run_peer, _peer_loop, _download_loop, _on_piece_done, _disconnect)    *)
(* over the shared tracker of PieceManager.                                *)
(*                                                                         *)
(* Coroutines of one event loop interleave only where they await.  A step  *)
(* of this module is therefore the code from one await to the next: it     *)
(* resumes a session where sess[s].pc says it waits, runs the code that    *)
(* follows, and leaves it at its next await.                               *)
(*                                                                         *)
(*   gone     no task runs for this peer                                   *)
(*   init     _peer_loop waits for a message, not yet unchoked             *)
(*   send     _download_loop waits in send_message of the request at       *)
(*   recv     _download_loop waits for a message, requests outstanding     *)
(*   idle     _download_loop waits for a message, nothing outstanding      *)
(*   write    _download_loop waits for the piece-complete callback         *)
(*   closing  the coroutine has ended and _disconnect waits for the lock   *)
(*                                                                         *)
(* The operators that take a tracker m and a session x are the code of the *)
(* loop run with these values; they end in the await they reach.           *)
(***************************************************************************)
EXTENDS PieceManager, SequencesExt

CONSTANTS
  Sessions,        \* one slot per address that the pool connects to
  PeerId,          \* the peer id each address answers the handshake with
  PIPELINE_DEPTH,  \* outstanding requests per session
  INIT_MESSAGES,   \* messages awaited before an unchoke (25 in the code)
  MaxConnects,     \* bound on the connections made to one address
  Has,             \* the indices each peer may announce
  Corrupt,         \* peers whose copy of the content is damaged
  Stray,           \* peers that send blocks nobody asked for
  MaxActive,       \* bound: no stray block while a session lists more pieces
  Steady           \* peers that announce all they have, unchoke and stay

ASSUME PoolAssumption ==
  /\ PeerId \in [Sessions -> Peers]
  /\ PIPELINE_DEPTH \in Nat \ {0}
  /\ INIT_MESSAGES \in Nat \ {0}
  /\ MaxConnects \in Nat
  /\ MaxActive \in Nat
  /\ Has \in [Sessions -> SUBSET Indices]

VARIABLES
  sess,       \* the PeerSession of each slot and where its coroutine waits
  doneEvent,  \* _done_event
  connects,   \* connections made so far, bounded by MaxConnects
  handed      \* how often the callback was invoked for a piece: 0, 1, 2 = more

vars == <<pm, sess, doneEvent, connects, handed>>

Block == Pieces \X Offsets
NoArg == <<0, 0>>

\* PeerSession.__init__, with the await the coroutine is at and its argument.
NewSession(label) ==
  [pc |-> label, at |-> NoArg, inFlight |-> {}, active |-> << >>, heard |-> 0]

Goto(s, m, x, label, arg) ==
  /\ pm' = m
  /\ sess' = [sess EXCEPT ![s] = [x EXCEPT !.pc = label, !.at = arg]]

\* The coroutine returns or raises: _run_peer enters _disconnect.
Leave(s, m, x) ==
  /\ Goto(s, m, x, "closing", NoArg)
  /\ UNCHANGED <<doneEvent, connects, handed>>

\* The loop ends because everything is downloaded.
LoopDone(s, m, x) ==
  /\ Goto(s, m, x, "closing", NoArg)
  /\ doneEvent' = TRUE
  /\ UNCHANGED <<connects, handed>>

-----------------------------------------------------------------------------
(* _download_loop *)

\* Mutant: only what is in flight is skipped, stored blocks are asked for again.
UnrequestedOrStored(m, x, i) == {o \in BlockOffsets(i) : <<i, o>> \notin x.inFlight}

\* Blocks of piece i neither stored nor in flight on this session.
Unrequested(m, x, i) == {o \in MissingBlocks(m, i) : <<i, o>> \notin x.inFlight}

\* Mutant: the pipeline takes one request more.
PipelineOverfull(x) == Cardinality(x.inFlight) > PIPELINE_DEPTH

PipelineFull(x) == Cardinality(x.inFlight) >= PIPELINE_DEPTH

Request(s, m, x, i) ==
  /\ Goto(s, m, x, "send", <<i, Min(Unrequested(m, x, i))>>)
  /\ UNCHANGED <<doneEvent, connects, handed>>

\* The test after the inner while, up to the wait for a message.
AwaitMessage(s, m, x) ==
  IF x.inFlight = {} /\ IsDone(m)
    THEN LoopDone(s, m, x)
    ELSE /\ Goto(s, m, x, IF x.inFlight = {} THEN "idle" ELSE "recv", NoArg)
         /\ UNCHANGED <<doneEvent, connects, handed>>

\* No block is left in the active pieces: take a new piece, if there is one.
RequestFromNewPiece(s, m, x) ==
  LET p == PeerId[s] IN
  \/ SelectRaises(m, p) /\ Leave(s, m, x)
  \/ ~SelectRaises(m, p) /\ Candidates(m, p) = {} /\ AwaitMessage(s, m, x)
  \/ /\ ~SelectRaises(m, p)
     /\ \E i \in Rarest(m, p) :
          LET m1 == SelectPiece(m, i)
              x1 == [x EXCEPT !.active = Append(@, i)]
          IN  IF Unrequested(m1, x1, i) = {} THEN AwaitMessage(s, m1, x1)
                                             ELSE Request(s, m1, x1, i)

\* The inner while, from its test to the next await.
FillPipeline(s, m, x) ==
  LET open == {k \in DOMAIN x.active : Unrequested(m, x, x.active[k]) # {}} IN
  \/ /\ PipelineFull(x)
     /\ AwaitMessage(s, m, x)
  \/ /\ ~PipelineFull(x) /\ open # {}
     /\ Request(s, m, x, x.active[Min(open)])
  \/ /\ ~PipelineFull(x) /\ open = {}
     /\ RequestFromNewPiece(s, m, x)

\* The outer while, from its test to the next await.
DownloadLoop(s, m, x) ==
  \/ IsDone(m) /\ LoopDone(s, m, x)
  \/ ~IsDone(m) /\ FillPipeline(s, m, x)

\* The send of a request returns: the block is now in flight.
Sent(s) ==
  /\ sess[s].pc = "send"
  /\ FillPipeline(s, pm, [sess[s] EXCEPT !.inFlight = @ \cup {sess[s].at}])

\* A Piece message.  add_block raises on an index or an extent outside the
\* torrent; the block has left _in_flight by then.
ReceivePiece(s, i, o, d) ==
  LET x  == [sess[s] EXCEPT !.inFlight = @ \ {<<i, o>>}]
      m1 == AddBlock(pm, i, o, d)
      x1 == [x EXCEPT !.active = RemoveFirst(@, i)]
  IN
  /\ sess[s].pc = "recv"
  /\ \/ /\ ~(i \in Pieces /\ BlockFits(i, o, d))
        /\ Leave(s, pm, x)
     \/ /\ i \in Pieces /\ BlockFits(i, o, d)
        /\ AddBlockResult(pm, i, o, d)
        /\ Goto(s, m1, x1, "write", <<i, 0>>)
        /\ handed' = [handed EXCEPT ![i] = IF @ = 2 THEN 2 ELSE @ + 1]
        /\ UNCHANGED <<doneEvent, connects>>
     \/ /\ i \in Pieces /\ BlockFits(i, o, d)
        /\ ~AddBlockResult(pm, i, o, d)
        /\ DownloadLoop(s, m1, IF m1.state[i] = "NEEDED" THEN x1 ELSE x)

\* The callback returns, or raises and _on_piece_done logs the exception.
WriteDone(s) ==
  /\ sess[s].pc = "write"
  /\ DownloadLoop(s, pm, sess[s])

\* Mutant: a piece without a request in flight is forgotten.
ReleasableInFlight(m, x) == {i \in {b[1] : b \in x.inFlight} : m.state[i] # "COMPLETE"}

\* The pieces _disconnect and a choke give back.
Releasable(m, x) ==
  {i \in ToSet(x.active) \cup {b[1] : b \in x.inFlight} : m.state[i] # "COMPLETE"}

\* A choke ends the session; with requests outstanding it gives the pieces
\* back first, otherwise _disconnect does.
ReceiveChoke(s) ==
  \/ /\ sess[s].pc = "recv"
     /\ Leave(s, MarkPiecesFailed(pm, Releasable(pm, sess[s])),
              [sess[s] EXCEPT !.inFlight = {}, !.active = << >>])
  \/ /\ sess[s].pc = "idle"
     /\ Leave(s, pm, sess[s])

ReceiveHave(s, i) ==
  /\ sess[s].pc \in {"recv", "idle"}
  /\ DownloadLoop(s, OnPeerHave(pm, PeerId[s], i), sess[s])

\* A bitfield counts only while nothing is outstanding.
ReceiveBitfield(s, bits) ==
  /\ sess[s].pc = "idle"
  /\ DownloadLoop(s, OnPeerBitfield(pm, PeerId[s], bits), sess[s])

\* Any message the branch ignores, or the five seconds of the idle branch: the
\* loop only looks at the tracker again.
Wake(s) ==
  /\ sess[s].pc \in {"recv", "idle"}
  /\ DownloadLoop(s, pm, sess[s])

-----------------------------------------------------------------------------
(* _run_peer, _peer_loop, _disconnect *)

\* add_peers has connected and starts the task of a fresh session.
Connect(s) ==
  /\ sess[s].pc = "gone"
  /\ connects[s] < MaxConnects
  /\ sess' = [sess EXCEPT ![s] = NewSession("init")]
  /\ connects' = [connects EXCEPT ![s] = @ + 1]
  /\ UNCHANGED <<pm, doneEvent, handed>>

ReceiveUnchoke(s) ==
  /\ sess[s].pc = "init"
  /\ DownloadLoop(s, pm, [sess[s] EXCEPT !.heard = 0])

\* Another message of the first INIT_MESSAGES, which makes the tracker m.
ReceiveInitial(s, m) ==
  LET x == [sess[s] EXCEPT !.heard = @ + 1] IN
  /\ sess[s].pc = "init"
  /\ IF x.heard < INIT_MESSAGES
       THEN Goto(s, m, x, "init", NoArg) /\ UNCHANGED <<doneEvent, connects, handed>>
       ELSE Leave(s, m, x)

\* The peer hangs up, resets, breaks the framing, or a timeout ends the wait.
PeerLost(s) ==
  /\ sess[s].pc \in {"init", "send", "recv", "idle"}
  /\ Leave(s, pm, sess[s])

\* _disconnect, once it holds the lock.
Disconnect(s) ==
  /\ sess[s].pc = "closing"
  /\ pm' = MarkPiecesFailed(pm, Releasable(pm, sess[s]))
  /\ sess' = [sess EXCEPT ![s] = NewSession("gone")]
  /\ UNCHANGED <<doneEvent, connects, handed>>

-----------------------------------------------------------------------------
(* The peers.  A peer answers outstanding requests with blocks of the size  *)
(* asked for, in any order.                                                 *)

Answer(s) ==
  \E b \in sess[s].inFlight, good \in BOOLEAN :
    /\ s \notin Corrupt => good
    /\ ReceivePiece(s, b[1], b[2], [len |-> SizeAt(b[1], b[2]), ok |-> good])

\* A block nobody asked for.  A piece it resets can be listed in _active_pieces
\* a second time, without limit in the code; MaxActive stops that.
StrayBlock(s) ==
  /\ s \in Stray
  /\ \A t \in Sessions : Len(sess[t].active) <= MaxActive
  /\ \E i \in Indices, o \in Offsets, d \in Payloads : ReceivePiece(s, i, o, d)

Deliver(s) == Answer(s) \/ StrayBlock(s)

\* What peer s may tell about its pieces; a steady peer tells everything first.
Announce(s) ==
  \/ \E bits \in SUBSET Has[s] :
       /\ s \in Steady => bits = Has[s] /\ sess[s].heard = 0
       /\ ReceiveInitial(s, OnPeerBitfield(pm, PeerId[s], bits))
  \/ /\ s \notin Steady
     /\ \/ \E i \in Has[s] : ReceiveInitial(s, OnPeerHave(pm, PeerId[s], i))
        \/ ReceiveInitial(s, pm)

Unchoke(s) ==
  /\ s \in Steady => sess[s].heard > 0
  /\ ReceiveUnchoke(s)

\* Announcements later in the life of the connection.
Update(s) ==
  \/ \E i \in Has[s] : ReceiveHave(s, i)
  \/ \E bits \in SUBSET Has[s] : ReceiveBitfield(s, bits) /\ s \notin Steady

Choke(s) == s \notin Steady /\ ReceiveChoke(s)
Lose(s)  == s \notin Steady /\ PeerLost(s)

Init ==
  /\ PMInit
  /\ sess = [s \in Sessions |-> NewSession("gone")]
  /\ doneEvent = FALSE
  /\ connects = [s \in Sessions |-> 0]
  /\ handed = [i \in Pieces |-> 0]

Next ==
  \E s \in Sessions :
    \/ Connect(s)
    \/ Announce(s)
    \/ Unchoke(s)
    \/ Sent(s)
    \/ Deliver(s)
    \/ WriteDone(s)
    \/ Choke(s)
    \/ Update(s)
    \/ Wake(s)
    \/ Lose(s)
    \/ Disconnect(s)

Spec == Init /\ [][Next]_vars

-----------------------------------------------------------------------------
(* Fairness: the event loop resumes a coroutine whose await is over, the    *)
(* lock is granted, a write ends, the five-second timer of the idle branch  *)
(* fires, and a wait for the network ends in an answer or in a timeout.     *)
(* For a steady peer, which does not time out, that is the answer; the      *)
(* re-announcements connect it.                                             *)

IdleTimeout(s)  == sess[s].pc = "idle" /\ Wake(s)
InitResolves(s) == sess[s].pc = "init" /\ (Unchoke(s) \/ Lose(s))
SendResolves(s) == sess[s].pc = "send" /\ (Sent(s) \/ Lose(s))
RecvResolves(s) == sess[s].pc = "recv" /\ (Deliver(s) \/ Lose(s))

Fairness ==
  \A s \in Sessions :
    /\ WF_vars(Disconnect(s)) /\ WF_vars(WriteDone(s)) /\ WF_vars(IdleTimeout(s))
    /\ WF_vars(InitResolves(s)) /\ WF_vars(SendResolves(s)) /\ WF_vars(RecvResolves(s))
    /\ s \in Steady => WF_vars(Announce(s)) /\ WF_vars(Connect(s))

FairSpec == Spec /\ Fairness

-----------------------------------------------------------------------------
(* Properties *)

Label == {"gone", "init", "send", "recv", "idle", "write", "closing"}

SessionType ==
  [ pc       : Label,
    at       : Block,
    inFlight : SUBSET Block,
    active   : Seq(Pieces),
    heard    : 0 .. INIT_MESSAGES ]

\* The shape of the tracker, the sessions and the pool's own state.
PoolTypeOK ==
  /\ pm \in TrackerType
  /\ sess \in [Sessions -> SessionType]
  /\ doneEvent \in BOOLEAN
  /\ connects \in [Sessions -> 0 .. MaxConnects]
  /\ handed \in [Pieces -> 0 .. 2]

HoldersOf(i) == {s \in Sessions : i \in ToSet(sess[s].active)}

\* A piece in progress always has a session that will finish it or give it
\* back in _disconnect.  An orphan would be skipped by every select_piece and
\* the download would never end.  Holds whatever the peers send.
NoOrphan == \A i \in Pieces : pm.state[i] = "PENDING" => HoldersOf(i) # {}

\* With peers that send what they are asked for: what a session has outstanding
\* is a missing block of a piece it holds itself, so an arriving block is never
\* a duplicate and _disconnect never resets a piece another session works on.
InFlightOwned ==
  \A s \in Sessions : \A b \in sess[s].inFlight :
    /\ s \in HoldersOf(b[1])
    /\ pm.state[b[1]] = "PENDING"
    /\ b[2] \in MissingBlocks(pm, b[1])

\* A session waits idle only when it holds nothing: no piece is stuck with a
\* session that has nothing left to request for it and nothing to wait for.
IdleHoldsNothing == \A s \in Sessions : sess[s].pc = "idle" => sess[s].active = << >>

\* The callback that writes to disk is invoked exactly once for every piece
\* that is verified, however often the piece changed hands before.
HandedOnce ==
  \A i \in Pieces : handed[i] = (IF pm.state[i] = "COMPLETE" THEN 1 ELSE 0)

\* The pool never has more requests outstanding on a session than the pipeline
\* is deep, the one being sent included.
PipelineBounded ==
  \A s \in Sessions :
    Cardinality(sess[s].inFlight) + (IF sess[s].pc = "send" THEN 1 ELSE 0) <= PIPELINE_DEPTH

\* Who has a piece: a session, nobody yet, or nobody any more.
OwnerOf ==
  [i \in Pieces |-> CASE pm.state[i] = "COMPLETE" -> "done"
                     [] pm.state[i] = "NEEDED"   -> "free"
                     [] pm.state[i] = "PENDING"  -> CHOOSE s \in Sessions : s \in HoldersOf(i)]

\* Tracker and pool implement Ownership: exclusive download of a piece, release
\* by the holder only, verified pieces final, completion signalled only then.
Own == INSTANCE Ownership WITH
         Items   <- Pieces,  Holders <- Sessions,  Free      <- "free",
         Done    <- "done",  owner   <- OwnerOf,   signalled <- doneEvent
ImplementsOwnership == Own!Spec

\* The download ends: with a steady honest peer that has every piece,
\* wait_until_done returns.
EventuallyDone == <>doneEvent

=============================================================================
