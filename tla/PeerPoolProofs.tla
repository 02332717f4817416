--------------------------- MODULE PeerPoolProofs ---------------------------
(***************************************************************************)
(* The pool's type, the tracker invariants and NoOrphan, for every number  *)
(* of sessions, every pipeline depth and every kind of peer; and what the  *)
(* pool guarantees when no peer sends blocks it was not asked for: the     *)
(* requests of a session are missing blocks of pieces only it has, a       *)
(* verified piece is handed over once, and tracker and pool implement      *)
(* Ownership.                                                              *)
(***************************************************************************)
EXTENDS PeerPool, PieceManagerProofs, ListLemmas

-----------------------------------------------------------------------------
(* The inductive invariant *)

\* A session that still waits to be unchoked has messages left to hear.
HeardBelow == \A s \in Sessions : sess[s].pc = "init" => sess[s].heard < INIT_MESSAGES

\* A peer without a task lists no piece.
GoneEmpty == \A s \in Sessions : sess[s].pc = "gone" => sess[s].active = << >>

PoolInv == TrackerOK /\ PoolTypeOK /\ HeardBelow /\ GoneEmpty /\ NoOrphan

\* The code of session s may run on with tracker m and session x: m is
\* consistent, and what is PENDING in m is listed by x or by another session.
Ready(s, m, x) ==
  /\ TrackerInv(m)
  /\ x \in SessionType
  /\ \A i \in Pieces : m.state[i] = "PENDING" =>
       \/ i \in ToSet(x.active)
       \/ \E t \in Sessions \ {s} : i \in ToSet(sess[t].active)

\* A session is ready to run on from where it waits.
LEMMA ReadyNow ==
  ASSUME PoolInv, NEW s \in Sessions
  PROVE  Ready(s, pm, sess[s])
<1>1. TrackerInv(pm) /\ sess[s] \in SessionType
  BY DEF PoolInv, TrackerOK, PoolTypeOK
<1>2. \A i \in Pieces : pm.state[i] = "PENDING" =>
        \E t \in Sessions : i \in ToSet(sess[t].active)
  BY DEF PoolInv, NoOrphan, HoldersOf
<1> QED
  BY <1>1, <1>2 DEF Ready

\* Waiting at an await with a ready tracker and session keeps the invariant.
LEMMA GotoInv ==
  ASSUME PoolInv, NEW s \in Sessions, NEW m, NEW x, Ready(s, m, x),
         NEW label \in Label \ {"gone"}, NEW arg \in Block,
         label = "init" => x.heard < INIT_MESSAGES,
         Goto(s, m, x, label, arg),
         doneEvent' \in BOOLEAN, connects' \in [Sessions -> 0 .. MaxConnects],
         handed' \in [Pieces -> 0 .. 2]
  PROVE  PoolInv'
<1> DEFINE y == [x EXCEPT !.pc = label, !.at = arg]
<1>1. /\ y \in SessionType /\ y.active = x.active
      /\ y.heard = x.heard /\ y.pc = label
  BY DEF Ready, SessionType
<1>2. /\ pm' = m /\ TrackerInv(m)
      /\ sess' = [sess EXCEPT ![s] = y] /\ sess \in [Sessions -> SessionType]
  BY DEF Goto, Ready, PoolInv, PoolTypeOK
<1> HIDE DEF y
<1>3. /\ sess' \in [Sessions -> SessionType] /\ sess'[s] = y
      /\ \A t \in Sessions \ {s} : sess'[t] = sess[t]
  BY <1>1, <1>2
<1>4. TrackerOK'
  BY <1>2 DEF TrackerOK
<1>5. PoolTypeOK'
  BY <1>2, <1>3 DEF PoolTypeOK, TrackerInv
<1>6. HeardBelow' /\ GoneEmpty'
  BY <1>1, <1>3 DEF PoolInv, HeardBelow, GoneEmpty
<1>7. NoOrphan'
  <2> SUFFICES ASSUME NEW i \in Pieces, m.state[i] = "PENDING"
               PROVE  \E t \in Sessions : i \in ToSet(sess'[t].active)
    BY <1>2 DEF NoOrphan, HoldersOf
  <2>1. CASE i \in ToSet(x.active)
    BY <1>1, <1>3, <2>1
  <2>2. CASE \E t \in Sessions \ {s} : i \in ToSet(sess[t].active)
    BY <1>3, <2>2
  <2> QED
    BY <2>1, <2>2 DEF Ready
<1> QED
  BY <1>4, <1>5, <1>6, <1>7 DEF PoolInv

-----------------------------------------------------------------------------
(* The download loop *)

\* The argument of an await without one.
LEMMA NoArgBlock == NoArg \in Block /\ \A i \in Pieces : <<i, 0>> \in Block
  BY SizeAssumption DEF NoArg, Block, Pieces, Offsets

\* What the loop may request are offsets of the piece.
LEMMA UnrequestedOffsets ==
  ASSUME NEW m, NEW x, NEW i \in Pieces
  PROVE  Unrequested(m, x, i) \subseteq Offsets
<1>1. LengthOf(i) \in 1 .. PieceLength
  BY LengthOfRange
<1> QED
  BY <1>1, SizeAssumption DEF Unrequested, MissingBlocks, BlockOffsets, Offsets

\* Leaving the coroutine, also because everything is downloaded.
LEMMA LeaveInv ==
  ASSUME PoolInv, NEW s \in Sessions, NEW m, NEW x, Ready(s, m, x),
         Leave(s, m, x) \/ LoopDone(s, m, x)
  PROVE  PoolInv'
<1>1. /\ Goto(s, m, x, "closing", NoArg) /\ "closing" \in Label \ {"gone"}
      /\ doneEvent' \in BOOLEAN /\ connects' \in [Sessions -> 0 .. MaxConnects]
      /\ handed' \in [Pieces -> 0 .. 2]
  BY DEF Leave, LoopDone, Label, PoolInv, PoolTypeOK
<1> QED
  BY <1>1, GotoInv, NoArgBlock

\* Sending a request.
LEMMA RequestInv ==
  ASSUME PoolInv, NEW s \in Sessions, NEW m, NEW x, Ready(s, m, x),
         NEW i \in Pieces, Unrequested(m, x, i) # {}, Request(s, m, x, i)
  PROVE  PoolInv'
<1> DEFINE o == Min(Unrequested(m, x, i))
<1>1. o \in Offsets
  <2>1. Unrequested(m, x, i) \in SUBSET Nat
    BY UnrequestedOffsets DEF Offsets
  <2> QED
    BY <2>1, MinElement, UnrequestedOffsets
<1>2. <<i, o>> \in Block /\ "send" \in Label \ {"gone"}
  BY <1>1 DEF Block, Label
<1>3. /\ Goto(s, m, x, "send", <<i, o>>)
      /\ doneEvent' \in BOOLEAN /\ connects' \in [Sessions -> 0 .. MaxConnects]
      /\ handed' \in [Pieces -> 0 .. 2]
  BY DEF Request, PoolInv, PoolTypeOK
<1> HIDE DEF o
<1> QED
  BY <1>2, <1>3, GotoInv

\* Waiting for a message.
LEMMA AwaitMessageInv ==
  ASSUME PoolInv, NEW s \in Sessions, NEW m, NEW x, Ready(s, m, x), AwaitMessage(s, m, x)
  PROVE  PoolInv'
<1>1. CASE x.inFlight = {} /\ IsDone(m)
  BY <1>1, LeaveInv DEF AwaitMessage
<1>2. CASE ~(x.inFlight = {} /\ IsDone(m))
  <2>1. PICK label \in {"idle", "recv"} : Goto(s, m, x, label, NoArg)
    BY <1>2 DEF AwaitMessage
  <2>2. /\ doneEvent' \in BOOLEAN /\ connects' \in [Sessions -> 0 .. MaxConnects]
        /\ handed' \in [Pieces -> 0 .. 2]
    BY <1>2 DEF AwaitMessage, PoolInv, PoolTypeOK
  <2>3. label \in Label \ {"gone"} /\ label # "init"
    BY DEF Label
  <2> QED
    BY <2>1, <2>2, <2>3, GotoInv, NoArgBlock
<1> QED
  BY <1>1, <1>2

\* Taking a new piece: it becomes PENDING and is listed in the same step.
LEMMA SelectReady ==
  ASSUME NEW s \in Sessions, NEW m, NEW x, Ready(s, m, x), NEW i \in Pieces
  PROVE  Ready(s, SelectPiece(m, i), [x EXCEPT !.active = Append(@, i)])
<1> DEFINE n == SelectPiece(m, i)
           y == [x EXCEPT !.active = Append(@, i)]
<1>1. x \in SessionType /\ m \in TrackerType
  BY DEF Ready, TrackerInv
<1>2. x.active \in Seq(Pieces)
  BY <1>1 DEF SessionType
<1>3. Append(x.active, i) \in Seq(Pieces) /\ ToSet(Append(x.active, i)) = ToSet(x.active) \cup {i}
  BY <1>2, AppendSet
<1>4. y \in SessionType /\ y.active = Append(x.active, i)
  BY <1>1, <1>3 DEF SessionType
<1>5. TrackerInv(n)
  BY SelectPieceInv DEF Ready
<1>6. \A j \in Pieces : j # i => n.state[j] = m.state[j]
  BY <1>1 DEF SelectPiece, TrackerType
<1> HIDE DEF n, y
<1>7. Ready(s, n, y)
  BY <1>3, <1>4, <1>5, <1>6 DEF Ready
<1> QED
  BY <1>7 DEF n, y

\* Step 2 of the inner while keeps the invariant.
LEMMA RequestFromNewPieceInv ==
  ASSUME PoolInv, NEW s \in Sessions, NEW m, NEW x, Ready(s, m, x),
         RequestFromNewPiece(s, m, x)
  PROVE  PoolInv'
<1> DEFINE p == PeerId[s]
<1>1. CASE Leave(s, m, x)
  BY <1>1, LeaveInv
<1>2. CASE AwaitMessage(s, m, x)
  BY <1>2, AwaitMessageInv
<1>3. ASSUME ~SelectRaises(m, p), NEW i \in Rarest(m, p),
             LET m1 == SelectPiece(m, i)
                 x1 == [x EXCEPT !.active = Append(@, i)]
             IN  IF Unrequested(m1, x1, i) = {} THEN AwaitMessage(s, m1, x1)
                                                ELSE Request(s, m1, x1, i)
      PROVE  PoolInv'
  <2> DEFINE m1 == SelectPiece(m, i)
             x1 == [x EXCEPT !.active = Append(@, i)]
  <2>1. i \in Pieces
    BY <1>3 DEF Rarest, Candidates, SelectRaises
  <2>2. Ready(s, m1, x1)
    BY <2>1, SelectReady
  <2>3. \/ AwaitMessage(s, m1, x1)
        \/ Unrequested(m1, x1, i) # {} /\ Request(s, m1, x1, i)
    BY <1>3
  <2> HIDE DEF m1, x1
  <2> QED
    BY <2>1, <2>2, <2>3, AwaitMessageInv, RequestInv
<1> QED
  BY <1>1, <1>2, <1>3 DEF RequestFromNewPiece

\* The inner while keeps the invariant.
LEMMA FillPipelineInv ==
  ASSUME PoolInv, NEW s \in Sessions, NEW m, NEW x, Ready(s, m, x), FillPipeline(s, m, x)
  PROVE  PoolInv'
<1> DEFINE open == {k \in DOMAIN x.active : Unrequested(m, x, x.active[k]) # {}}
<1>1. CASE AwaitMessage(s, m, x)
  BY <1>1, AwaitMessageInv
<1>2. CASE open # {} /\ Request(s, m, x, x.active[Min(open)])
  <2>1. x.active \in Seq(Pieces)
    BY DEF Ready, SessionType
  <2>2. open \in SUBSET Nat
    BY <2>1
  <2>3. Min(open) \in open
    <3> HIDE DEF open
    <3> QED
      BY <1>2, <2>2, MinElement
  <2>4. Unrequested(m, x, x.active[Min(open)]) # {} /\ Min(open) \in DOMAIN x.active
    BY <2>3
  <2> HIDE DEF open
  <2>5. x.active[Min(open)] \in Pieces
    BY <2>1, <2>4
  <2> QED
    BY <1>2, <2>4, <2>5, RequestInv
<1>3. CASE RequestFromNewPiece(s, m, x)
  BY <1>3, RequestFromNewPieceInv
<1> QED
  BY <1>1, <1>2, <1>3 DEF FillPipeline

\* The outer while keeps the invariant.
LEMMA DownloadLoopInv ==
  ASSUME PoolInv, NEW s \in Sessions, NEW m, NEW x, Ready(s, m, x), DownloadLoop(s, m, x)
  PROVE  PoolInv'
  BY LeaveInv, FillPipelineInv DEF DownloadLoop

-----------------------------------------------------------------------------
(* The handlers *)

\* A session stays ready when only its requests or its message count change.
LEMMA ReadyFlight ==
  ASSUME NEW s \in Sessions, NEW m, NEW x, Ready(s, m, x),
         NEW F \in SUBSET Block, NEW h \in 0 .. INIT_MESSAGES
  PROVE  /\ Ready(s, m, [x EXCEPT !.inFlight = F])
         /\ Ready(s, m, [x EXCEPT !.heard = h])
<1>1. x \in SessionType
  BY DEF Ready
<1>2. /\ [x EXCEPT !.inFlight = F] \in SessionType /\ [x EXCEPT !.inFlight = F].active = x.active
      /\ [x EXCEPT !.heard = h] \in SessionType /\ [x EXCEPT !.heard = h].active = x.active
  BY <1>1 DEF SessionType
<1> QED
  BY <1>2 DEF Ready

\* A session stays ready under a tracker that has no more PENDING pieces.
LEMMA ReadyTracker ==
  ASSUME NEW s \in Sessions, NEW m, NEW x, Ready(s, m, x), NEW n, TrackerInv(n),
         \A j \in Pieces : n.state[j] = "PENDING" => m.state[j] = "PENDING"
  PROVE  Ready(s, n, x)
  BY DEF Ready

\* Availability messages change no state of a piece.
LEMMA AvailabilityReady ==
  ASSUME NEW s \in Sessions, NEW m, NEW x, Ready(s, m, x), NEW p \in Peers,
         NEW i \in Indices, NEW bits \in SUBSET Indices
  PROVE  Ready(s, OnPeerHave(m, p, i), x) /\ Ready(s, OnPeerBitfield(m, p, bits), x)
<1>1. TrackerInv(m)
  BY DEF Ready
<1>2. TrackerInv(OnPeerHave(m, p, i)) /\ TrackerInv(OnPeerBitfield(m, p, bits))
  BY <1>1, OnPeerHaveInv, OnPeerBitfieldInv
<1>3. OnPeerHave(m, p, i).state = m.state /\ OnPeerBitfield(m, p, bits).state = m.state
  BY <1>1 DEF OnPeerHave, OnPeerBitfield, TrackerInv, TrackerType
<1> QED
  BY <1>2, <1>3, ReadyTracker

\* Dropping from the list a piece that is not PENDING orphans nothing.
LEMMA RemoveReady ==
  ASSUME NEW s \in Sessions, NEW m, NEW x, Ready(s, m, x), NEW i \in Pieces,
         m.state[i] # "PENDING"
  PROVE  Ready(s, m, [x EXCEPT !.active = RemoveFirst(@, i)])
<1> DEFINE q == RemoveFirst(x.active, i)
           y == [x EXCEPT !.active = q]
<1>1. x \in SessionType /\ x.active \in Seq(Pieces)
  BY DEF Ready, SessionType
<1>2. q \in Seq(Pieces) /\ ToSet(x.active) \ {i} \subseteq ToSet(q)
  BY <1>1, RemoveFirstSet
<1> HIDE DEF q
<1>3. y \in SessionType /\ y.active = q
  BY <1>1, <1>2 DEF SessionType
<1> HIDE DEF y
<1>4. Ready(s, m, y)
  BY <1>2, <1>3 DEF Ready
<1> QED
  BY <1>4 DEF y, q

\* A Piece message keeps the invariant, whatever it carries.
LEMMA ReceivePieceInv ==
  ASSUME PoolInv, NEW s \in Sessions, NEW i, NEW o, NEW d,
         i \in Pieces /\ BlockFits(i, o, d) => d \in BlockData,
         ReceivePiece(s, i, o, d)
  PROVE  PoolInv'
<1> DEFINE x  == [sess[s] EXCEPT !.inFlight = @ \ {<<i, o>>}]
           m1 == AddBlock(pm, i, o, d)
           x1 == [x EXCEPT !.active = RemoveFirst(@, i)]
<1>1. Ready(s, pm, sess[s]) /\ sess[s].inFlight \ {<<i, o>>} \in SUBSET Block
  BY ReadyNow DEF PoolInv, PoolTypeOK, SessionType
<1>2. Ready(s, pm, x)
  <2>1. 0 \in 0 .. INIT_MESSAGES
    BY PoolAssumption
  <2> QED
    BY <1>1, <2>1, ReadyFlight
<1>3. CASE Leave(s, pm, x)
  BY <1>2, <1>3, LeaveInv
<1>4. CASE i \in Pieces /\ BlockFits(i, o, d)
  <2>1. o \in Offsets /\ d \in BlockData
    BY <1>4, FitsOffset
  <2>2. TrackerInv(pm)
    BY DEF PoolInv, TrackerOK
  <2>3. /\ TrackerInv(m1)
        /\ \A j \in Pieces : m1.state[j] = "PENDING" => pm.state[j] = "PENDING"
        /\ AddBlockResult(pm, i, o, d) => m1.state[i] = "COMPLETE"
    BY <1>4, <2>1, <2>2, AddBlockInv, AddBlockStates
  <2> HIDE DEF x, m1
  <2>4. Ready(s, m1, x)
    BY <1>2, <2>3, ReadyTracker
  <2>5. m1.state[i] # "PENDING" => Ready(s, m1, x1)
    BY <1>4, <2>4, RemoveReady
  <2>6. CASE /\ AddBlockResult(pm, i, o, d)
             /\ Goto(s, m1, x1, "write", <<i, 0>>)
             /\ handed' = [handed EXCEPT ![i] = IF @ = 2 THEN 2 ELSE @ + 1]
             /\ UNCHANGED <<doneEvent, connects>>
    <3>1. Ready(s, m1, x1)
      BY <2>3, <2>5, <2>6
    <3>2. handed' \in [Pieces -> 0 .. 2]
      BY <1>4, <2>6 DEF PoolInv, PoolTypeOK
    <3>3. doneEvent' \in BOOLEAN /\ connects' \in [Sessions -> 0 .. MaxConnects]
      BY <2>6 DEF PoolInv, PoolTypeOK
    <3>4. <<i, 0>> \in Block /\ "write" \in Label \ {"gone"}
      BY <1>4, NoArgBlock DEF Label
    <3> HIDE DEF x1
    <3> QED
      BY <2>6, <3>1, <3>2, <3>3, <3>4, GotoInv
  <2>7. CASE DownloadLoop(s, m1, IF m1.state[i] = "NEEDED" THEN x1 ELSE x)
    <3>1. Ready(s, m1, IF m1.state[i] = "NEEDED" THEN x1 ELSE x)
      BY <2>4, <2>5
    <3> HIDE DEF x1
    <3> QED
      BY <2>7, <3>1, DownloadLoopInv
  <2> QED
    BY <1>3, <1>4, <2>6, <2>7 DEF ReceivePiece, x, m1
<1> QED
  BY <1>3, <1>4 DEF ReceivePiece

\* An answer or an unrequested block keeps the invariant.
LEMMA DeliverInv ==
  ASSUME PoolInv, NEW s \in Sessions, Deliver(s)
  PROVE  PoolInv'
<1>1. CASE StrayBlock(s)
  BY <1>1, CallAssumption, ReceivePieceInv DEF StrayBlock
<1>2. CASE Answer(s)
  <2>1. PICK b \in sess[s].inFlight, good \in BOOLEAN :
          ReceivePiece(s, b[1], b[2], [len |-> SizeAt(b[1], b[2]), ok |-> good])
    BY <1>2 DEF Answer
  <2> DEFINE d == [len |-> SizeAt(b[1], b[2]), ok |-> good]
  <2>2. ASSUME b[1] \in Pieces, BlockFits(b[1], b[2], d) PROVE d \in BlockData
    <3>1. LengthOf(b[1]) \in 1 .. PieceLength
      BY <2>2, LengthOfRange
    <3>2. SizeAt(b[1], b[2]) \in Nat
      BY <2>2, <3>1, SizeAssumption DEF BlockFits, SizeAt
    <3> QED
      BY <3>2 DEF BlockData
  <2> HIDE DEF d
  <2> QED
    BY <2>1, <2>2, ReceivePieceInv DEF d
<1> QED
  BY <1>1, <1>2 DEF Deliver

\* Giving back what a session lists leaves the rest with the other sessions.
LEMMA ReleaseStates ==
  ASSUME NEW s \in Sessions, NEW m, NEW x, Ready(s, m, x)
  PROVE  LET n == MarkPiecesFailed(m, Releasable(m, x)) IN
         /\ TrackerInv(n)
         /\ \A i \in Pieces : n.state[i] = "PENDING" =>
              \E t \in Sessions \ {s} : i \in ToSet(sess[t].active)
<1> DEFINE R == Releasable(m, x)
           n == MarkPiecesFailed(m, R)
<1>1. x.active \in Seq(Pieces) /\ x.inFlight \in SUBSET Block /\ m \in TrackerType
  BY DEF Ready, SessionType, TrackerInv
<1>2. ToSet(x.active) \subseteq Pieces /\ {b[1] : b \in x.inFlight} \subseteq Pieces
  BY <1>1 DEF ToSet, Block
<1>3. R \in SUBSET Pieces
  BY <1>2 DEF Releasable
<1>4. \A i \in ToSet(x.active) : m.state[i] = "PENDING" => i \in R
  BY DEF Releasable
<1> HIDE DEF R
<1>5. TrackerInv(n)
  BY <1>3, MarkPiecesFailedInv DEF Ready
<1>6. \A i \in Pieces : n.state[i] = IF i \in R THEN "NEEDED" ELSE m.state[i]
  BY <1>1 DEF MarkPiecesFailed, TrackerType
<1> HIDE DEF n
<1>7. \A i \in Pieces : n.state[i] = "PENDING" =>
        \E t \in Sessions \ {s} : i \in ToSet(sess[t].active)
  BY <1>4, <1>6 DEF Ready
<1> QED
  BY <1>5, <1>7 DEF n, R

\* A choke keeps the invariant.
LEMMA ChokeInv ==
  ASSUME PoolInv, NEW s \in Sessions, ReceiveChoke(s)
  PROVE  PoolInv'
<1>1. Ready(s, pm, sess[s])
  BY ReadyNow
<1>2. CASE Leave(s, pm, sess[s])
  BY <1>1, <1>2, LeaveInv
<1>3. CASE Leave(s, MarkPiecesFailed(pm, Releasable(pm, sess[s])),
                 [sess[s] EXCEPT !.inFlight = {}, !.active = << >>])
  <2> DEFINE n == MarkPiecesFailed(pm, Releasable(pm, sess[s]))
             y == [sess[s] EXCEPT !.inFlight = {}, !.active = << >>]
  <2>1. y \in SessionType
    <3>1. << >> \in Seq(Pieces) /\ {} \in SUBSET Block /\ sess[s] \in SessionType
      BY <1>1 DEF Ready
    <3> QED
      BY <3>1 DEF SessionType
  <2>2. /\ TrackerInv(n)
        /\ \A i \in Pieces : n.state[i] = "PENDING" =>
             \E t \in Sessions \ {s} : i \in ToSet(sess[t].active)
    BY <1>1, ReleaseStates
  <2> HIDE DEF n, y
  <2>3. Ready(s, n, y)
    BY <2>1, <2>2 DEF Ready
  <2> QED
    BY <1>3, <2>3, LeaveInv DEF n, y
<1> QED
  BY <1>2, <1>3 DEF ReceiveChoke

\* Starting and ending a session replaces its record by a fresh one.
LEMMA FreshInv ==
  ASSUME PoolInv, NEW s \in Sessions, NEW label \in {"init", "gone"},
         sess' = [sess EXCEPT ![s] = NewSession(label)],
         TrackerInv(pm'),
         \A i \in Pieces : pm'.state[i] = "PENDING" =>
           \E t \in Sessions \ {s} : i \in ToSet(sess[t].active),
         doneEvent' \in BOOLEAN, connects' \in [Sessions -> 0 .. MaxConnects],
         handed' \in [Pieces -> 0 .. 2]
  PROVE  PoolInv'
<1> DEFINE y == NewSession(label)
<1>1. /\ y \in SessionType /\ y.pc = label /\ y.active = << >>
      /\ y.heard = 0
  BY PoolAssumption, NoArgBlock DEF NewSession, SessionType, Label
<1>2. sess \in [Sessions -> SessionType]
  BY DEF PoolInv, PoolTypeOK
<1> HIDE DEF y
<1>3. /\ sess' \in [Sessions -> SessionType] /\ sess'[s] = y
      /\ \A t \in Sessions \ {s} : sess'[t] = sess[t]
  BY <1>1, <1>2 DEF y
<1>4. TrackerOK' /\ PoolTypeOK'
  BY <1>3 DEF TrackerOK, PoolTypeOK, TrackerInv
<1>5. HeardBelow' /\ GoneEmpty'
  BY <1>1, <1>3, PoolAssumption DEF PoolInv, HeardBelow, GoneEmpty
<1>6. NoOrphan'
  BY <1>3 DEF NoOrphan, HoldersOf
<1> QED
  BY <1>4, <1>5, <1>6 DEF PoolInv

\* A new connection keeps the invariant: the slot listed nothing before.
LEMMA ConnectInv ==
  ASSUME PoolInv, NEW s \in Sessions, Connect(s)
  PROVE  PoolInv'
<1>1. TrackerInv(pm') /\ pm' = pm
  BY DEF Connect, PoolInv, TrackerOK
<1>2. ToSet(sess[s].active) = {}
  BY DEF Connect, PoolInv, GoneEmpty, ToSet
<1>3. \A i \in Pieces : pm'.state[i] = "PENDING" =>
        \E t \in Sessions \ {s} : i \in ToSet(sess[t].active)
  BY <1>1, <1>2, ReadyNow DEF Ready
<1>4. connects' \in [Sessions -> 0 .. MaxConnects]
  BY PoolAssumption DEF Connect, PoolInv, PoolTypeOK
<1>5. doneEvent' \in BOOLEAN /\ handed' \in [Pieces -> 0 .. 2]
  BY DEF Connect, PoolInv, PoolTypeOK
<1> QED
  BY <1>1, <1>3, <1>4, <1>5, FreshInv DEF Connect

\* _disconnect keeps the invariant.
LEMMA DisconnectInv ==
  ASSUME PoolInv, NEW s \in Sessions, Disconnect(s)
  PROVE  PoolInv'
<1>1. Ready(s, pm, sess[s])
  BY ReadyNow
<1>2. pm' = MarkPiecesFailed(pm, Releasable(pm, sess[s]))
  BY DEF Disconnect
<1>3. /\ TrackerInv(pm')
      /\ \A i \in Pieces : pm'.state[i] = "PENDING" =>
           \E t \in Sessions \ {s} : i \in ToSet(sess[t].active)
  BY <1>1, <1>2, ReleaseStates
<1>4. /\ doneEvent' \in BOOLEAN /\ connects' \in [Sessions -> 0 .. MaxConnects]
      /\ handed' \in [Pieces -> 0 .. 2]
  BY DEF Disconnect, PoolInv, PoolTypeOK
<1> QED
  BY <1>3, <1>4, FreshInv DEF Disconnect

\* A message before the unchoke keeps the invariant.
LEMMA ReceiveInitialInv ==
  ASSUME PoolInv, NEW s \in Sessions, NEW m, Ready(s, m, sess[s]), ReceiveInitial(s, m)
  PROVE  PoolInv'
<1> DEFINE x == [sess[s] EXCEPT !.heard = @ + 1]
<1>1. sess[s] \in SessionType /\ sess[s].heard < INIT_MESSAGES
  BY DEF PoolInv, PoolTypeOK, HeardBelow, ReceiveInitial
<1>2. sess[s].heard + 1 \in 0 .. INIT_MESSAGES
  BY <1>1, PoolAssumption DEF SessionType
<1>3. Ready(s, m, x)
  BY <1>2, ReadyFlight
<1> HIDE DEF x
<1>4. CASE Leave(s, m, x)
  BY <1>3, <1>4, LeaveInv
<1>5. CASE /\ x.heard < INIT_MESSAGES
           /\ Goto(s, m, x, "init", NoArg) /\ UNCHANGED <<doneEvent, connects, handed>>
  <2>1. /\ doneEvent' \in BOOLEAN /\ connects' \in [Sessions -> 0 .. MaxConnects]
        /\ handed' \in [Pieces -> 0 .. 2]
    BY <1>5 DEF PoolInv, PoolTypeOK
  <2>2. "init" \in Label \ {"gone"}
    BY DEF Label
  <2> QED
    BY <1>3, <1>5, <2>1, <2>2, GotoInv, NoArgBlock
<1> QED
  BY <1>4, <1>5 DEF ReceiveInitial, x

-----------------------------------------------------------------------------
(* The specification *)

\* The pool starts in the invariant.
LEMMA PoolInvInit == Init => PoolInv
<1> SUFFICES ASSUME Init PROVE PoolInv
  OBVIOUS
<1> USE DEF Init, PMInit
<1>1. TrackerOK
  BY NewTrackerInv DEF TrackerOK
<1>2. NewSession("gone") \in SessionType /\ NewSession("gone").pc = "gone"
      /\ NewSession("gone").active = << >>
  BY PoolAssumption, NoArgBlock DEF NewSession, SessionType, Label
<1>3. PoolTypeOK
  <2>1. pm \in TrackerType
    BY <1>1 DEF TrackerOK, TrackerInv
  <2>2. sess \in [Sessions -> SessionType]
    BY <1>2
  <2>3. doneEvent \in BOOLEAN
    OBVIOUS
  <2>4. 0 \in 0 .. MaxConnects /\ 0 \in 0 .. 2
    BY PoolAssumption
  <2>5. connects \in [Sessions -> 0 .. MaxConnects] /\ handed \in [Pieces -> 0 .. 2]
    BY <2>4
  <2> QED
    BY <2>1, <2>2, <2>3, <2>5 DEF PoolTypeOK
<1>4. HeardBelow /\ GoneEmpty
  BY <1>2 DEF HeardBelow, GoneEmpty
<1>5. NoOrphan
  BY DEF NoOrphan, NewTracker
<1> QED
  BY <1>1, <1>3, <1>4, <1>5 DEF PoolInv

\* Every step of the pool keeps the invariant.
LEMMA PoolInvNext == PoolInv /\ [Next]_vars => PoolInv'
<1>1. ASSUME PoolInv, UNCHANGED vars PROVE PoolInv'
  BY <1>1 DEF vars, PoolInv, TrackerOK, PoolTypeOK, HeardBelow, GoneEmpty, NoOrphan, HoldersOf
<1>2. ASSUME PoolInv, Next PROVE PoolInv'
  <2>1. PICK s \in Sessions :
          \/ Connect(s) \/ Announce(s) \/ Unchoke(s) \/ Sent(s) \/ Deliver(s) \/ WriteDone(s)
          \/ Choke(s) \/ Update(s) \/ Wake(s) \/ Lose(s) \/ Disconnect(s)
    BY <1>2 DEF Next
  <2>2. Ready(s, pm, sess[s]) /\ PeerId[s] \in Peers /\ Has[s] \in SUBSET Indices
    BY <1>2, ReadyNow, PoolAssumption
  <2>3. CASE Announce(s)
    <3>1. CASE \E bits \in SUBSET Has[s] :
                 ReceiveInitial(s, OnPeerBitfield(pm, PeerId[s], bits))
      <4>1. PICK bits \in SUBSET Has[s] :
              ReceiveInitial(s, OnPeerBitfield(pm, PeerId[s], bits))
        BY <3>1
      <4>2. 0 \in Indices /\ bits \in SUBSET Indices
        BY <2>2, CallAssumption, SizeAssumption DEF Pieces
      <4>3. Ready(s, OnPeerBitfield(pm, PeerId[s], bits), sess[s])
        BY <2>2, <4>2, AvailabilityReady
      <4> QED
        BY <1>2, <4>1, <4>3, ReceiveInitialInv
    <3>2. CASE \E i \in Has[s] : ReceiveInitial(s, OnPeerHave(pm, PeerId[s], i))
      <4>1. PICK i \in Has[s] : ReceiveInitial(s, OnPeerHave(pm, PeerId[s], i))
        BY <3>2
      <4>2. i \in Indices /\ {} \in SUBSET Indices
        BY <2>2
      <4>3. Ready(s, OnPeerHave(pm, PeerId[s], i), sess[s])
        BY <2>2, <4>2, AvailabilityReady
      <4> QED
        BY <1>2, <4>1, <4>3, ReceiveInitialInv
    <3>3. CASE ReceiveInitial(s, pm)
      BY <1>2, <2>2, <3>3, ReceiveInitialInv
    <3> QED
      BY <2>3, <3>1, <3>2, <3>3 DEF Announce
  <2>4. CASE Unchoke(s)
    <3>1. 0 \in 0 .. INIT_MESSAGES /\ {} \in SUBSET Block
      BY PoolAssumption
    <3>2. Ready(s, pm, [sess[s] EXCEPT !.heard = 0])
      BY <2>2, <3>1, ReadyFlight
    <3> QED
      BY <1>2, <2>4, <3>2, DownloadLoopInv DEF Unchoke, ReceiveUnchoke
  <2>5. CASE Sent(s)
    <3>1. sess[s].inFlight \cup {sess[s].at} \in SUBSET Block /\ 0 \in 0 .. INIT_MESSAGES
      BY <2>2, PoolAssumption DEF Ready, SessionType
    <3>2. Ready(s, pm, [sess[s] EXCEPT !.inFlight = @ \cup {sess[s].at}])
      BY <2>2, <3>1, ReadyFlight
    <3> QED
      BY <1>2, <2>5, <3>2, FillPipelineInv DEF Sent
  <2>6. CASE Update(s)
    <3>1. CASE \E i \in Has[s] : ReceiveHave(s, i)
      <4>1. PICK i \in Has[s] : DownloadLoop(s, OnPeerHave(pm, PeerId[s], i), sess[s])
        BY <3>1 DEF ReceiveHave
      <4>2. i \in Indices /\ {} \in SUBSET Indices
        BY <2>2
      <4>3. Ready(s, OnPeerHave(pm, PeerId[s], i), sess[s])
        BY <2>2, <4>2, AvailabilityReady
      <4> QED
        BY <1>2, <4>1, <4>3, DownloadLoopInv
    <3>2. CASE \E bits \in SUBSET Has[s] : ReceiveBitfield(s, bits)
      <4>1. PICK bits \in SUBSET Has[s] :
              DownloadLoop(s, OnPeerBitfield(pm, PeerId[s], bits), sess[s])
        BY <3>2 DEF ReceiveBitfield
      <4>2. 0 \in Indices /\ bits \in SUBSET Indices
        BY <2>2, CallAssumption, SizeAssumption DEF Pieces
      <4>3. Ready(s, OnPeerBitfield(pm, PeerId[s], bits), sess[s])
        BY <2>2, <4>2, AvailabilityReady
      <4> QED
        BY <1>2, <4>1, <4>3, DownloadLoopInv
    <3> QED
      BY <2>6, <3>1, <3>2 DEF Update
  <2>7. CASE WriteDone(s) \/ Wake(s)
    BY <1>2, <2>2, <2>7, DownloadLoopInv DEF WriteDone, Wake
  <2>8. CASE Lose(s)
    BY <1>2, <2>2, <2>8, LeaveInv DEF Lose, PeerLost
  <2>9. CASE Choke(s)
    BY <1>2, <2>9, ChokeInv DEF Choke
  <2> QED
    BY <1>2, <2>1, <2>3, <2>4, <2>5, <2>6, <2>7, <2>8, <2>9,
       ConnectInv, DeliverInv, DisconnectInv
<1> QED
  BY <1>1, <1>2

\* Whatever the peers announce, send, withhold or break off, and however the
\* coroutines interleave: the tracker stays consistent, COMPLETE means
\* verified, and no piece in progress is left without a session.
THEOREM PoolCorrect ==
  Spec => [](PoolTypeOK /\ PendingMatchesState /\ CompleteIsVerified /\ NoOrphan)
<1>1. PoolInv => PoolTypeOK /\ PendingMatchesState /\ CompleteIsVerified /\ NoOrphan
  BY DEF PoolInv, TrackerOK, TrackerInv, PendingMatchesState, CompleteIsVerified
<1> QED
  BY <1>1, PoolInvInit, PoolInvNext, PTL DEF Spec

\* Under any interleaving of the coroutines _pending is the set of the pieces
\* whose state is PENDING, so select_piece never skips a piece for good.
COROLLARY PoolSynced == Spec => []PendingMatchesState
BY PoolCorrect, PTL

\* Whatever the peers send, every session and the shared tracker keep their
\* types: no piece number from the wire gets into active, and no more than
\* INIT_MESSAGES messages are awaited before an unchoke.
COROLLARY PoolTyped == Spec => []PoolTypeOK
BY PoolCorrect, PTL

-----------------------------------------------------------------------------
(* The depth of the pipeline *)

\* No more requests than the pipeline takes, the one being sent included.
Depth(x) ==
  /\ IsFiniteSet(x.inFlight)
  /\ Cardinality(x.inFlight) <= PIPELINE_DEPTH
  /\ x.pc = "send" => Cardinality(x.inFlight) < PIPELINE_DEPTH
AllDepth == \A s \in Sessions : Depth(sess[s])

\* Waiting at an await; a request is sent only while the pipeline has room.
LEMMA GotoDepth ==
  ASSUME PoolInv, AllDepth, NEW s \in Sessions, NEW m, NEW x, x \in SessionType,
         IsFiniteSet(x.inFlight), Cardinality(x.inFlight) <= PIPELINE_DEPTH,
         NEW label, NEW arg, Goto(s, m, x, label, arg),
         label = "send" => ~PipelineFull(x)
  PROVE  AllDepth'
<1> DEFINE y == [x EXCEPT !.pc = label, !.at = arg]
<1>1. y.inFlight = x.inFlight /\ y.pc = label
  BY DEF SessionType
<1>2. sess' = [sess EXCEPT ![s] = y] /\ sess \in [Sessions -> SessionType]
  BY DEF Goto, PoolInv, PoolTypeOK
<1> HIDE DEF y
<1>3. sess'[s] = y /\ \A t \in Sessions \ {s} : sess'[t] = sess[t]
  BY <1>2
<1>4. Cardinality(x.inFlight) \in Nat /\ PIPELINE_DEPTH \in Nat
  BY FS_CardinalityType, PoolAssumption
<1>5. Depth(y)
  BY <1>1, <1>4 DEF Depth, PipelineFull
<1> QED
  BY <1>3, <1>5 DEF AllDepth

\* The inner while sends only after it has tested the depth.
LEMMA FillPipelineDepth ==
  ASSUME PoolInv, AllDepth, NEW s \in Sessions, NEW m, NEW x, x \in SessionType,
         IsFiniteSet(x.inFlight), Cardinality(x.inFlight) <= PIPELINE_DEPTH,
         FillPipeline(s, m, x)
  PROVE  AllDepth'
<1>1. ASSUME NEW n, NEW y, y \in SessionType, y.inFlight = x.inFlight,
             \/ Leave(s, n, y) \/ AwaitMessage(s, n, y)
             \/ ~PipelineFull(x) /\ \E i : Request(s, n, y, i)
      PROVE  AllDepth'
  <2>1. CASE ~PipelineFull(x) /\ \E i : Request(s, n, y, i)
    <3>1. ~PipelineFull(y)
      BY <1>1, <2>1 DEF PipelineFull
    <3> QED
      BY <1>1, <2>1, <3>1, GotoDepth DEF Request
  <2>2. CASE Leave(s, n, y) \/ LoopDone(s, n, y)
    BY <1>1, <2>2, GotoDepth DEF Leave, LoopDone
  <2>3. CASE AwaitMessage(s, n, y) /\ ~LoopDone(s, n, y)
    <3>1. PICK label \in {"idle", "recv"} : Goto(s, n, y, label, NoArg)
      BY <2>3 DEF AwaitMessage
    <3> QED
      BY <1>1, <3>1, GotoDepth
  <2> QED
    BY <1>1, <2>1, <2>2, <2>3
<1>2. ASSUME ~PipelineFull(x), RequestFromNewPiece(s, m, x) PROVE AllDepth'
  <2>1. CASE Leave(s, m, x) \/ AwaitMessage(s, m, x)
    BY <1>1, <2>1
  <2>2. ASSUME ~SelectRaises(m, PeerId[s]), NEW i \in Rarest(m, PeerId[s]),
               LET m1 == SelectPiece(m, i)
                   x1 == [x EXCEPT !.active = Append(@, i)]
               IN  IF Unrequested(m1, x1, i) = {} THEN AwaitMessage(s, m1, x1)
                                                  ELSE Request(s, m1, x1, i)
        PROVE  AllDepth'
    <3> DEFINE m1 == SelectPiece(m, i)
               x1 == [x EXCEPT !.active = Append(@, i)]
    <3>1. i \in Pieces /\ x.active \in Seq(Pieces)
      BY <2>2 DEF Rarest, Candidates, SelectRaises, SessionType
    <3>2. Append(x.active, i) \in Seq(Pieces)
      BY <3>1, AppendSet
    <3>3. x1 \in SessionType /\ x1.inFlight = x.inFlight
      BY <3>2 DEF SessionType
    <3>4. AwaitMessage(s, m1, x1) \/ Request(s, m1, x1, i)
      BY <2>2
    <3> HIDE DEF m1, x1
    <3> QED
      BY <1>1, <1>2, <3>3, <3>4
  <2> QED
    BY <1>2, <2>1, <2>2 DEF RequestFromNewPiece
<1>3. AwaitMessage(s, m, x) \/ (~PipelineFull(x) /\ \E i : Request(s, m, x, i))
        \/ (~PipelineFull(x) /\ RequestFromNewPiece(s, m, x))
  BY DEF FillPipeline
<1> QED
  BY <1>1, <1>2, <1>3

\* So does the outer while, and leaving sends nothing.
LEMMA LoopDepth ==
  ASSUME PoolInv, AllDepth, NEW s \in Sessions, NEW m, NEW x, x \in SessionType,
         IsFiniteSet(x.inFlight), Cardinality(x.inFlight) <= PIPELINE_DEPTH,
         DownloadLoop(s, m, x) \/ FillPipeline(s, m, x) \/ Leave(s, m, x)
  PROVE  AllDepth'
<1>1. CASE Leave(s, m, x) \/ LoopDone(s, m, x)
  BY <1>1, GotoDepth DEF Leave, LoopDone
<1> QED
  BY <1>1, FillPipelineDepth DEF DownloadLoop

\* A session with fewer requests outstanding.
LEMMA FewerDepth ==
  ASSUME NEW s \in Sessions, AllDepth, NEW F \in SUBSET sess[s].inFlight
  PROVE  IsFiniteSet(F) /\ Cardinality(F) <= PIPELINE_DEPTH
<1>1. IsFiniteSet(sess[s].inFlight) /\ Cardinality(sess[s].inFlight) <= PIPELINE_DEPTH
  BY DEF AllDepth, Depth
<1>2. IsFiniteSet(F) /\ Cardinality(F) <= Cardinality(sess[s].inFlight)
  BY <1>1, FS_Subset
<1>3. /\ Cardinality(F) \in Nat /\ Cardinality(sess[s].inFlight) \in Nat
      /\ PIPELINE_DEPTH \in Nat
  BY <1>1, <1>2, FS_CardinalityType, PoolAssumption
<1> QED
  BY <1>1, <1>2, <1>3

\* Every step of the pool respects the depth.
LEMMA DepthNext == PoolInv /\ AllDepth /\ [Next]_vars => AllDepth'
<1>1. ASSUME AllDepth, UNCHANGED vars PROVE AllDepth'
  BY <1>1 DEF vars, AllDepth
<1>2. ASSUME PoolInv, AllDepth, Next PROVE AllDepth'
  <2>1. PICK s \in Sessions :
          \/ Connect(s) \/ Announce(s) \/ Unchoke(s) \/ Sent(s) \/ Deliver(s) \/ WriteDone(s)
          \/ Choke(s) \/ Update(s) \/ Wake(s) \/ Lose(s) \/ Disconnect(s)
    BY <1>2 DEF Next
  <2> DEFINE x == sess[s]
  <2>2. /\ x \in SessionType /\ sess \in [Sessions -> SessionType]
        /\ IsFiniteSet(x.inFlight) /\ Cardinality(x.inFlight) <= PIPELINE_DEPTH
    BY <1>2 DEF PoolInv, PoolTypeOK, AllDepth, Depth
  <2>3. ASSUME NEW m, \/ DownloadLoop(s, m, x) \/ Leave(s, m, x) PROVE AllDepth'
    BY <1>2, <2>2, <2>3, LoopDepth
  <2>4. ASSUME NEW label \in {"gone", "init"}, sess' = [sess EXCEPT ![s] = NewSession(label)]
        PROVE  AllDepth'
    <3>1. NewSession(label).inFlight = {} /\ NewSession(label).pc = label
      BY DEF NewSession
    <3>2. sess'[s] = NewSession(label) /\ \A t \in Sessions \ {s} : sess'[t] = sess[t]
      BY <2>2, <2>4
    <3>3. IsFiniteSet({}) /\ Cardinality({}) = 0 /\ PIPELINE_DEPTH \in Nat \ {0}
      BY FS_EmptySet, PoolAssumption
    <3>4. Depth(NewSession(label))
      BY <3>1, <3>3 DEF Depth
    <3> QED
      BY <1>2, <3>2, <3>4 DEF AllDepth
  <2>5. CASE Announce(s)
    <3>1. PICK m : ReceiveInitial(s, m)
      BY <2>5 DEF Announce
    <3> DEFINE y == [x EXCEPT !.heard = @ + 1]
    <3>2. sess[s].heard + 1 \in 0 .. INIT_MESSAGES
      BY <1>2, <2>2, <3>1, PoolAssumption DEF PoolInv, HeardBelow, ReceiveInitial, SessionType
    <3>3. y \in SessionType /\ y.inFlight = x.inFlight
      BY <2>2, <3>2 DEF SessionType
    <3>4. PICK label \in {"init", "closing"} : Goto(s, m, y, label, NoArg)
      BY <3>1 DEF ReceiveInitial, Leave
    <3> HIDE DEF y, x
    <3> QED
      BY <1>2, <2>2, <3>3, <3>4, GotoDepth
  <2>6. CASE Unchoke(s)
    <3> DEFINE y == [x EXCEPT !.heard = 0]
    <3>0. 0 \in 0 .. INIT_MESSAGES
      BY PoolAssumption
    <3>1. y \in SessionType /\ y.inFlight = x.inFlight
      BY <2>2, <3>0 DEF SessionType
    <3>2. DownloadLoop(s, pm, y)
      BY <2>6 DEF Unchoke, ReceiveUnchoke
    <3> HIDE DEF y, x
    <3> QED
      BY <1>2, <2>2, <3>1, <3>2, LoopDepth
  <2>7. CASE Sent(s)
    <3> DEFINE y == [x EXCEPT !.inFlight = @ \cup {x.at}]
    <3>1. /\ y \in SessionType /\ y.inFlight = x.inFlight \cup {x.at}
          /\ FillPipeline(s, pm, y)
      BY <2>2, <2>7 DEF SessionType, Sent
    <3>2. Cardinality(x.inFlight) < PIPELINE_DEPTH
      BY <1>2, <2>7 DEF AllDepth, Depth, Sent
    <3> HIDE DEF y, x
    <3>3. /\ IsFiniteSet(y.inFlight)
          /\ \/ Cardinality(y.inFlight) = Cardinality(x.inFlight)
             \/ Cardinality(y.inFlight) = Cardinality(x.inFlight) + 1
      BY <2>2, <3>1, FS_AddElement
    <3>4. Cardinality(x.inFlight) \in Nat /\ PIPELINE_DEPTH \in Nat
      BY <2>2, FS_CardinalityType, PoolAssumption
    <3>5. Cardinality(y.inFlight) <= PIPELINE_DEPTH
      BY <3>2, <3>3, <3>4
    <3> QED
      BY <1>2, <3>1, <3>3, <3>5, LoopDepth
  <2>8. CASE Deliver(s)
    <3>1. PICK i, o, d : ReceivePiece(s, i, o, d)
      BY <2>8 DEF Deliver, Answer, StrayBlock
    <3> DEFINE y  == [x EXCEPT !.inFlight = @ \ {<<i, o>>}]
               m1 == AddBlock(pm, i, o, d)
               y1 == [y EXCEPT !.active = RemoveFirst(@, i)]
    <3>2. y \in SessionType /\ y.inFlight \in SUBSET x.inFlight /\ y.active = x.active
      BY <2>2 DEF SessionType
    <3>3. IsFiniteSet(y.inFlight) /\ Cardinality(y.inFlight) <= PIPELINE_DEPTH
      BY <1>2, <3>2, FewerDepth
    <3>4. y1 \in SessionType /\ y1.inFlight = y.inFlight
      <4>1. x.active \in Seq(Pieces)
        BY <2>2 DEF SessionType
      <4>2. RemoveFirst(x.active, i) \in Seq(Pieces)
        BY <4>1, RemoveFirstSet
      <4> QED
        BY <3>2, <4>2 DEF SessionType
    <3>5. \/ Leave(s, pm, y) \/ DownloadLoop(s, m1, y) \/ DownloadLoop(s, m1, y1)
          \/ Goto(s, m1, y1, "write", <<i, 0>>)
      BY <3>1 DEF ReceivePiece
    <3> HIDE DEF y, y1, m1, x
    <3>6. CASE Goto(s, m1, y1, "write", <<i, 0>>)
      BY <1>2, <3>3, <3>4, <3>6, GotoDepth
    <3>7. CASE Leave(s, pm, y) \/ DownloadLoop(s, m1, y)
      BY <1>2, <3>2, <3>3, <3>7, LoopDepth
    <3>8. CASE DownloadLoop(s, m1, y1)
      BY <1>2, <3>3, <3>4, <3>8, LoopDepth
    <3> QED
      BY <3>5, <3>6, <3>7, <3>8
  <2>9. CASE WriteDone(s) \/ Wake(s) \/ Lose(s)
    BY <2>3, <2>9 DEF WriteDone, Wake, Lose, PeerLost
  <2>10. CASE Update(s)
    BY <2>3, <2>10 DEF Update, ReceiveHave, ReceiveBitfield
  <2>11. CASE Connect(s) \/ Disconnect(s)
    BY <2>4, <2>11 DEF Connect, Disconnect
  <2>12. CASE Choke(s)
    <3> DEFINE n == MarkPiecesFailed(pm, Releasable(pm, x))
               y == [x EXCEPT !.inFlight = {}, !.active = << >>]
    <3>1. Leave(s, pm, x) \/ Leave(s, n, y)
      BY <2>12 DEF Choke, ReceiveChoke
    <3>2. y \in SessionType /\ y.inFlight = {}
      <4>1. << >> \in Seq(Pieces) /\ {} \in SUBSET Block
        OBVIOUS
      <4> QED
        BY <2>2, <4>1 DEF SessionType
    <3>3. IsFiniteSet(y.inFlight) /\ Cardinality(y.inFlight) <= PIPELINE_DEPTH
      BY <1>2, <3>2, FewerDepth
    <3> HIDE DEF n, y, x
    <3> QED
      BY <1>2, <2>3, <3>1, <3>2, <3>3, LoopDepth
  <2> QED
    BY <2>1, <2>5, <2>6, <2>7, <2>8, <2>9, <2>10, <2>11, <2>12
<1> QED
  BY <1>1, <1>2

\* Whatever the peers do, also when they send blocks nobody asked for, a
\* session never has more requests outstanding than PIPELINE_DEPTH, the one
\* whose send it awaits included.
THEOREM PipelineRespected == Spec => []PipelineBounded
<1>1. Init => AllDepth
  <2> SUFFICES ASSUME Init, NEW s \in Sessions PROVE Depth(sess[s])
    BY DEF AllDepth
  <2>1. sess[s].inFlight = {} /\ sess[s].pc = "gone"
    BY DEF Init, NewSession
  <2>2. IsFiniteSet({}) /\ Cardinality({}) = 0 /\ PIPELINE_DEPTH \in Nat
    BY FS_EmptySet, PoolAssumption
  <2> QED
    BY <2>1, <2>2 DEF Depth
<1>2. AllDepth => PipelineBounded
  <2> SUFFICES ASSUME AllDepth, NEW s \in Sessions
               PROVE  Cardinality(sess[s].inFlight) + (IF sess[s].pc = "send" THEN 1 ELSE 0)
                        <= PIPELINE_DEPTH
    BY DEF PipelineBounded
  <2>1. Depth(sess[s])
    BY DEF AllDepth
  <2>2. Cardinality(sess[s].inFlight) \in Nat /\ PIPELINE_DEPTH \in Nat
    BY <2>1, FS_CardinalityType, PoolAssumption DEF Depth
  <2> QED
    BY <2>1, <2>2 DEF Depth
<1> QED
  BY <1>1, <1>2, PoolInvInit, PoolInvNext, DepthNext, PTL DEF Spec

-----------------------------------------------------------------------------
(* The inductive invariant for peers that send only what they were asked     *)
(* for.  Blocks may be damaged, and peers may announce, choke, stall and      *)
(* vanish as they like.                                                      *)

\* The bytes of piece i that the stored blocks stand for.
Covered(m, i) ==
  UNION {o .. o + SizeAt(i, o) - 1 : o \in {q \in BlockOffsets(i) : m.blocks[i][q] # NoBlock}}

\* Only requested blocks are stored, each counted with its size, and a piece
\* in progress always lacks one: what has none missing was verified at once.
WholePiece(m, i) ==
  /\ \A o \in Offsets : m.blocks[i][o] # NoBlock => o \in BlockOffsets(i)
  /\ m.received[i] = Cardinality(Covered(m, i))
  /\ m.state[i] = "NEEDED"  => m.blocks[i] = EmptyBlocks
  /\ m.state[i] = "PENDING" => MissingBlocks(m, i) # {}
Whole(m) == \A i \in Pieces : WholePiece(m, i)

\* b can be asked for: a missing block of a piece the session lists.
Wanted(m, x, b) == b[1] \in ToSet(x.active) /\ b[2] \in MissingBlocks(m, b[1])

\* A session lists pieces in progress, each once, and its outstanding requests
\* are wanted and no more than the pipeline takes.
Holding(m, x) ==
  /\ \A i \in ToSet(x.active) : m.state[i] = "PENDING"
  /\ IsInjective(x.active)
  /\ \A b \in x.inFlight : Wanted(m, x, b)
  /\ IsFiniteSet(x.inFlight)
  /\ Cardinality(x.inFlight) <= PIPELINE_DEPTH

\* What the place where a session waits says of it.
Placed(m, x) ==
  /\ x.pc = "idle" => x.active = << >>
  /\ x.pc = "init" => x.active = << >> /\ x.inFlight = {}
  /\ x.pc = "send" => /\ Wanted(m, x, x.at) /\ x.at \notin x.inFlight
                      /\ Cardinality(x.inFlight) < PIPELINE_DEPTH

\* No two sessions list the same piece.
Apart == \A s, t \in Sessions : s # t => ToSet(sess[s].active) \cap ToSet(sess[t].active) = {}

HandedWith(m, h) == \A i \in Pieces : h[i] = (IF m.state[i] = "COMPLETE" THEN 1 ELSE 0)

ConfInv ==
  /\ PoolInv
  /\ Whole(pm)
  /\ \A s \in Sessions : Holding(pm, sess[s]) /\ Placed(pm, sess[s])
  /\ Apart
  /\ HandedWith(pm, handed)

-----------------------------------------------------------------------------
(* Blocks and bytes *)

\* Multiples of n lie n apart.
LEMMA MultiplesApart ==
  ASSUME NEW n \in Nat \ {0}, NEW a \in Nat, NEW b \in Nat,
         a % n = 0, b % n = 0, a < b
  PROVE  a + n <= b
<1> DEFINE p == a \div n
           q == b \div n
<1>1. p \in Int /\ q \in Int /\ a = n * p /\ b = n * q
  OBVIOUS
<1> HIDE DEF p, q
<1>2. p < q
  <2>1. ASSUME q <= p PROVE FALSE
    <3>1. n * q <= n * p
      BY <1>1, <2>1
    <3> QED
      BY <1>1, <3>1
  <2> QED
    BY <1>1, <2>1
<1>3. n * (p + 1) <= n * q
  BY <1>1, <1>2
<1> QED
  BY <1>1, <1>3

\* The multiple of n at or below b.
LEMMA MultipleBelow ==
  ASSUME NEW n \in Nat \ {0}, NEW b \in Nat
  PROVE  \E o \in Nat : o % n = 0 /\ o <= b /\ b < o + n
<1> DEFINE q == b \div n
<1>1. q \in Nat /\ b = n * q + (b % n) /\ b % n \in 0 .. n - 1
  OBVIOUS
<1> HIDE DEF q
<1>2. n * q \in Nat /\ (n * q) % n = 0
  BY <1>1
<1> QED
  BY <1>1, <1>2

\* What the stored blocks stand for are bytes of the piece.
LEMMA CoveredRange ==
  ASSUME NEW m, NEW i \in Pieces
  PROVE  /\ Covered(m, i) \subseteq 0 .. LengthOf(i) - 1
         /\ IsFiniteSet(Covered(m, i)) /\ Cardinality(Covered(m, i)) \in Nat
<1>1. LengthOf(i) \in Nat /\ BLOCK_SIZE \in Nat
  BY LengthOfRange, SizeAssumption
<1>2. ASSUME NEW o \in BlockOffsets(i), NEW b \in o .. o + SizeAt(i, o) - 1
      PROVE  b \in 0 .. LengthOf(i) - 1
  BY <1>1 DEF BlockOffsets, SizeAt
<1>3. Covered(m, i) \subseteq 0 .. LengthOf(i) - 1
  BY <1>2 DEF Covered
<1>4. IsFiniteSet(0 .. LengthOf(i) - 1)
  BY <1>1, FS_Interval
<1> QED
  BY <1>3, <1>4, FS_Subset, FS_CardinalityType

\* With no block missing every byte is counted.
LEMMA CoveredAll ==
  ASSUME NEW m, NEW i \in Pieces, MissingBlocks(m, i) = {}
  PROVE  Cardinality(Covered(m, i)) = LengthOf(i)
<1>1. LengthOf(i) \in Nat \ {0} /\ BLOCK_SIZE \in Nat \ {0}
  BY LengthOfRange, SizeAssumption
<1>2. ASSUME NEW b \in 0 .. LengthOf(i) - 1 PROVE b \in Covered(m, i)
  <2>0. b \in Nat
    OBVIOUS
  <2>1. PICK o \in Nat : o % BLOCK_SIZE = 0 /\ o <= b /\ b < o + BLOCK_SIZE
    BY <1>1, <2>0, MultipleBelow
  <2>2. o \in BlockOffsets(i) /\ b \in o .. o + SizeAt(i, o) - 1
    BY <1>1, <2>1 DEF BlockOffsets, SizeAt
  <2>3. m.blocks[i][o] # NoBlock
    BY <2>2 DEF MissingBlocks
  <2> QED
    BY <2>2, <2>3 DEF Covered
<1>3. Covered(m, i) = 0 .. LengthOf(i) - 1
  BY <1>2, CoveredRange
<1>4. Cardinality(0 .. LengthOf(i) - 1) = LengthOf(i)
  BY <1>1, FS_Interval
<1> QED
  BY <1>3, <1>4

\* With every byte counted no block is missing.
LEMMA CoveredNone ==
  ASSUME NEW m, NEW i \in Pieces, Cardinality(Covered(m, i)) >= LengthOf(i)
  PROVE  MissingBlocks(m, i) = {}
<1>1. LengthOf(i) \in Nat \ {0} /\ BLOCK_SIZE \in Nat \ {0}
  BY LengthOfRange, SizeAssumption
<1>2. Covered(m, i) = 0 .. LengthOf(i) - 1
  <2>1. IsFiniteSet(0 .. LengthOf(i) - 1) /\ Cardinality(0 .. LengthOf(i) - 1) = LengthOf(i)
    BY <1>1, FS_Interval
  <2>2. Covered(m, i) \in SUBSET (0 .. LengthOf(i) - 1) /\ Cardinality(Covered(m, i)) \in Nat
    BY CoveredRange
  <2>3. Cardinality(Covered(m, i)) <= LengthOf(i)
    BY <2>1, <2>2, FS_Subset
  <2>4. Cardinality(Covered(m, i)) = LengthOf(i)
    BY <1>1, <2>2, <2>3
  <2> QED
    BY <2>1, <2>2, <2>4, FS_Subset
<1>3. ASSUME NEW o \in BlockOffsets(i) PROVE m.blocks[i][o] # NoBlock
  <2>1. o \in Covered(m, i) /\ o \in Nat /\ o % BLOCK_SIZE = 0
    BY <1>1, <1>2 DEF BlockOffsets
  <2>2. PICK q \in BlockOffsets(i) : m.blocks[i][q] # NoBlock /\ o \in q .. q + SizeAt(i, q) - 1
    BY <2>1 DEF Covered
  <2>3. q \in Nat /\ q % BLOCK_SIZE = 0 /\ q <= o /\ o < q + BLOCK_SIZE
    BY <1>1, <2>1, <2>2 DEF BlockOffsets, SizeAt
  <2>4. ~(q < o)
    <3>1. ASSUME q < o PROVE q + BLOCK_SIZE <= o
      BY <1>1, <2>1, <2>3, <3>1, MultiplesApart
    <3> QED
      BY <1>1, <2>1, <2>3, <3>1
  <2> QED
    BY <2>1, <2>2, <2>3, <2>4
<1> QED
  BY <1>3 DEF MissingBlocks

\* Storing a missing block adds its size.
LEMMA CoveredMore ==
  ASSUME NEW m, NEW n, NEW i \in Pieces, NEW o \in MissingBlocks(m, i),
         n.blocks[i][o] # NoBlock,
         \A q \in BlockOffsets(i) \ {o} : n.blocks[i][q] = m.blocks[i][q]
  PROVE  Cardinality(Covered(n, i)) = Cardinality(Covered(m, i)) + SizeAt(i, o)
<1> DEFINE I == o .. o + SizeAt(i, o) - 1
<1>1. LengthOf(i) \in Nat \ {0} /\ BLOCK_SIZE \in Nat \ {0}
  BY LengthOfRange, SizeAssumption
<1>2. /\ o \in BlockOffsets(i) /\ o \in Nat /\ o % BLOCK_SIZE = 0
      /\ m.blocks[i][o] = NoBlock /\ SizeAt(i, o) \in 1 .. BLOCK_SIZE
  BY <1>1 DEF MissingBlocks, BlockOffsets, SizeAt
<1>3. Covered(n, i) = Covered(m, i) \cup I
  BY <1>2 DEF Covered
<1>4. Covered(m, i) \cap I = {}
  <2> SUFFICES ASSUME NEW b \in Covered(m, i), b \in I PROVE FALSE
    OBVIOUS
  <2>1. PICK q \in BlockOffsets(i) : m.blocks[i][q] # NoBlock /\ b \in q .. q + SizeAt(i, q) - 1
    BY DEF Covered
  <2>2. q \in Nat /\ q % BLOCK_SIZE = 0 /\ q # o /\ SizeAt(i, q) <= BLOCK_SIZE /\ SizeAt(i, q) \in Int
    BY <1>1, <1>2, <2>1 DEF BlockOffsets, SizeAt
  <2>3. CASE q < o
    <3>1. q + BLOCK_SIZE <= o
      BY <1>1, <1>2, <2>2, <2>3, MultiplesApart
    <3> QED
      BY <1>1, <1>2, <2>1, <2>2, <3>1
  <2>4. CASE o < q
    <3>1. o + BLOCK_SIZE <= q
      BY <1>1, <1>2, <2>2, <2>4, MultiplesApart
    <3> QED
      BY <1>1, <1>2, <2>1, <2>2, <3>1
  <2> QED
    BY <1>2, <2>2, <2>3, <2>4
<1>5. IsFiniteSet(I) /\ Cardinality(I) = SizeAt(i, o)
  BY <1>1, <1>2, FS_Interval
<1> HIDE DEF I
<1>6. IsFiniteSet(Covered(m, i)) /\ Cardinality(Covered(m, i)) \in Nat
  BY CoveredRange
<1>7. Cardinality(Covered(m, i) \cup I)
        = Cardinality(Covered(m, i)) + Cardinality(I) - Cardinality(Covered(m, i) \cap I)
  BY <1>5, <1>6, FS_Union
<1>8. Cardinality({}) = 0
  BY FS_EmptySet
<1>9. Cardinality(Covered(m, i) \cap I) = 0
  BY <1>4, <1>8, Zenon
<1> QED
  BY <1>2, <1>3, <1>5, <1>6, <1>7, <1>9

\* What a piece has, and lacks, depends on its own blocks only.
LEMMA WholeLocal ==
  ASSUME NEW m, NEW n, NEW i \in Pieces, WholePiece(m, i),
         n.blocks[i] = m.blocks[i], n.received[i] = m.received[i], n.state[i] = m.state[i]
  PROVE  WholePiece(n, i)
  BY DEF WholePiece, Covered, MissingBlocks

\* A piece without blocks lacks its first one.
LEMMA EmptyWhole ==
  ASSUME NEW m, NEW i \in Pieces, m.blocks[i] = EmptyBlocks
  PROVE  /\ 0 \in MissingBlocks(m, i)
         /\ Cardinality(Covered(m, i)) = 0
         /\ m.received[i] = 0 => WholePiece(m, i)
<1>1. LengthOf(i) \in 1 .. PieceLength /\ PieceLength \in Nat /\ BLOCK_SIZE \in Nat \ {0}
  BY LengthOfRange, SizeAssumption
<1>2. \A o \in BlockOffsets(i) : o \in Offsets /\ m.blocks[i][o] = NoBlock
  BY <1>1 DEF BlockOffsets, Offsets, EmptyBlocks
<1>3. Covered(m, i) = {}
  BY <1>2 DEF Covered
<1>4. Cardinality(Covered(m, i)) = 0
  BY <1>3, FS_EmptySet, Zenon
<1>5. 0 \in BlockOffsets(i)
  BY <1>1 DEF BlockOffsets
<1>6. 0 \in MissingBlocks(m, i)
  BY <1>2, <1>5 DEF MissingBlocks
<1>7. \A o \in Offsets : m.blocks[i][o] = NoBlock
  BY DEF EmptyBlocks
<1> QED
  BY <1>4, <1>6, <1>7 DEF WholePiece

\* What add_block does with a block that was missing from a piece in progress:
\* one block fewer is missing, or the piece is verified, or it starts anew.
LEMMA AddWanted ==
  ASSUME NEW m, TrackerInv(m), Whole(m), NEW i \in Pieces, m.state[i] = "PENDING",
         NEW o \in MissingBlocks(m, i), NEW good \in BOOLEAN
  PROVE  LET d == [len |-> SizeAt(i, o), ok |-> good]
             n == AddBlock(m, i, o, d)
         IN  /\ TrackerInv(n) /\ Whole(n)
             /\ \A j \in Pieces \ {i} : n.state[j] = m.state[j] /\ n.blocks[j] = m.blocks[j]
             /\ \/ /\ ~AddBlockResult(m, i, o, d) /\ n.state[i] = "PENDING"
                   /\ MissingBlocks(n, i) = MissingBlocks(m, i) \ {o}
                \/ /\ AddBlockResult(m, i, o, d) /\ n.state[i] = "COMPLETE"
                   /\ MissingBlocks(m, i) = {o}
                \/ /\ ~AddBlockResult(m, i, o, d) /\ n.state[i] = "NEEDED"
                   /\ MissingBlocks(m, i) = {o}
<1> DEFINE d == [len |-> SizeAt(i, o), ok |-> good]
           t == StoreBlock(m, i, o, d)
           n == AddBlock(m, i, o, d)
<1>1. LengthOf(i) \in 1 .. PieceLength /\ PieceLength \in Nat /\ BLOCK_SIZE \in Nat \ {0}
  BY LengthOfRange, SizeAssumption
<1>2. /\ o \in BlockOffsets(i) /\ o \in Offsets /\ m.blocks[i][o] = NoBlock
      /\ SizeAt(i, o) \in Nat
  BY <1>1 DEF MissingBlocks, BlockOffsets, Offsets, SizeAt
<1>3. d \in BlockData /\ d # NoBlock
  BY <1>2, NoBlockAssumption DEF BlockData
<1>4. m \in TrackerType
  BY DEF TrackerInv
<1>5. /\ t \in TrackerType
      /\ t.state = m.state
      /\ \A j \in Pieces \ {i} : t.blocks[j] = m.blocks[j] /\ t.received[j] = m.received[j]
  BY <1>2, <1>3, <1>4, StoreBlockFrame
<1>6. /\ t.blocks[i] = [m.blocks[i] EXCEPT ![o] = d]
      /\ t.received[i] = m.received[i] + SizeAt(i, o)
  BY <1>2, <1>4 DEF StoreBlock, TrackerType
<1>7. TrackerInv(n)
  BY <1>2, <1>3, AddBlockInv
<1> HIDE DEF t
<1>8. /\ t.blocks[i][o] = d
      /\ \A q \in Offsets \ {o} : t.blocks[i][q] = m.blocks[i][q]
  BY <1>2, <1>4, <1>6 DEF TrackerType
<1>9. BlockOffsets(i) \subseteq Offsets
  BY <1>1 DEF BlockOffsets, Offsets
<1> HIDE DEF d
<1>10. t.received[i] = Cardinality(Covered(t, i))
  <2>1. \A q \in BlockOffsets(i) \ {o} : t.blocks[i][q] = m.blocks[i][q]
    BY <1>8, <1>9
  <2>2. Cardinality(Covered(t, i)) = Cardinality(Covered(m, i)) + SizeAt(i, o)
    BY <1>3, <1>8, <2>1, CoveredMore
  <2>3. m.received[i] = Cardinality(Covered(m, i))
    BY DEF Whole, WholePiece
  <2> QED
    BY <1>6, <2>2, <2>3
<1>11. \A q \in Offsets : t.blocks[i][q] # NoBlock => q \in BlockOffsets(i)
  BY <1>2, <1>8 DEF Whole, WholePiece
<1>12. ASSUME MissingBlocks(t, i) = {} PROVE IsCompleteRaw(t, i)
  <2>1. t.received[i] = LengthOf(i)
    BY <1>10, <1>12, CoveredAll
  <2> QED
    BY <1>1, <2>1 DEF IsCompleteRaw
<1>13. \A j \in Pieces \ {i} : WholePiece(t, j)
  BY <1>5, WholeLocal DEF Whole
<1>14. MissingBlocks(t, i) = MissingBlocks(m, i) \ {o}
  BY <1>3, <1>8, <1>9 DEF MissingBlocks
<1>15. CASE ~IsCompleteRaw(t, i)
  <2>1. n = t /\ ~AddBlockResult(m, i, o, d)
    BY <1>15 DEF AddBlock, AddBlockResult, t
  <2>2. WholePiece(t, i)
    BY <1>5, <1>10, <1>11, <1>12, <1>15 DEF WholePiece
  <2>3. Whole(t)
    BY <1>13, <2>2 DEF Whole
  <2> HIDE DEF n
  <2> QED
    BY <1>5, <1>7, <1>14, <2>1, <2>3 DEF n, d
<1>16. CASE IsCompleteRaw(t, i)
  <2>1. /\ n = [Verify(t, i) EXCEPT !.pending = @ \ {i}]
        /\ AddBlockResult(m, i, o, d) <=> HashMatches(t, i)
    BY <1>16 DEF AddBlock, AddBlockResult, t
  <2> HIDE DEF n
  <2>2. /\ \A j \in Pieces \ {i} : /\ n.blocks[j] = t.blocks[j]
                                   /\ n.received[j] = t.received[j]
                                   /\ n.state[j] = t.state[j]
        /\ \/ /\ HashMatches(t, i) /\ n.state[i] = "COMPLETE"
              /\ n.blocks[i] = t.blocks[i] /\ n.received[i] = t.received[i]
           \/ /\ ~HashMatches(t, i) /\ n.state[i] = "NEEDED"
              /\ n.blocks[i] = EmptyBlocks /\ n.received[i] = 0
    BY <1>5, <1>16, <2>1, VerifyFrame
  <2>3. \A j \in Pieces \ {i} : WholePiece(n, j)
    BY <1>13, <2>2, WholeLocal
  <2>6. MissingBlocks(m, i) = {o}
    <3>1. MissingBlocks(t, i) = {}
      BY <1>10, <1>16, CoveredNone DEF IsCompleteRaw
    <3> QED
      BY <1>14, <3>1
  <2>4. CASE HashMatches(t, i)
    <3>1. /\ n.state[i] = "COMPLETE"
          /\ n.blocks[i] = t.blocks[i] /\ n.received[i] = t.received[i]
      BY <2>2, <2>4
    <3>2. Covered(n, i) = Covered(t, i)
      BY <3>1 DEF Covered
    <3>3. WholePiece(n, i)
      BY <1>10, <1>11, <3>1, <3>2 DEF WholePiece
    <3>4. Whole(n)
      BY <2>3, <3>3 DEF Whole
    <3> QED
      BY <1>5, <1>7, <2>1, <2>2, <2>4, <2>6, <3>1, <3>4 DEF n, d
  <2>5. CASE ~HashMatches(t, i)
    <3>1. Whole(n)
      BY <2>2, <2>3, <2>5, EmptyWhole DEF Whole
    <3> QED
      BY <1>5, <1>7, <2>1, <2>2, <2>5, <2>6, <3>1 DEF n, d
  <2> QED
    BY <2>4, <2>5
<1> QED
  BY <1>15, <1>16

-----------------------------------------------------------------------------
(* One session runs while the others wait *)

\* The code of session s may run on with tracker m and session x: x holds what
\* it lists in m, nobody else lists it, and m is as the others left it.
Fit(s, m, x) ==
  /\ Ready(s, m, x)
  /\ Whole(m)
  /\ Holding(m, x)
  /\ \A t \in Sessions \ {s} :
       /\ ToSet(x.active) \cap ToSet(sess[t].active) = {}
       /\ \A i \in ToSet(sess[t].active) : m.state[i] = pm.state[i] /\ m.blocks[i] = pm.blocks[i]

\* What the step of s, which runs on with m and x, does to pieces: it keeps
\* the pieces it has, and may signal completion, or it takes one more.
Kept(s, m, x) ==
  /\ pm'.state = m.state /\ ToSet(sess'[s].active) = ToSet(x.active)
  /\ doneEvent' = doneEvent \/ (IsDone(m) /\ doneEvent' = TRUE)
Took(s, m, x) ==
  \E i \in Pieces :
    /\ m.state[i] = "NEEDED" /\ pm'.state[i] = "PENDING"
    /\ \A j \in Pieces \ {i} : pm'.state[j] = m.state[j]
    /\ ToSet(sess'[s].active) = ToSet(x.active) \cup {i}
    /\ doneEvent' = doneEvent
Effect(s, m, x) ==
  /\ ConfInv'
  /\ \A t \in Sessions \ {s} : sess'[t] = sess[t]
  /\ Kept(s, m, x) \/ Took(s, m, x)

\* A session that waits fits the tracker.
LEMMA FitNow ==
  ASSUME ConfInv, NEW s \in Sessions
  PROVE  Fit(s, pm, sess[s])
<1>1. Ready(s, pm, sess[s])
  BY ReadyNow DEF ConfInv
<1> QED
  BY <1>1 DEF ConfInv, Fit, Apart

\* What a session has outstanding stays wanted while its pieces are untouched.
LEMMA OthersKeep ==
  ASSUME NEW m, NEW n, NEW y, Holding(m, y), Placed(m, y),
         \A i \in ToSet(y.active) : n.state[i] = m.state[i] /\ n.blocks[i] = m.blocks[i]
  PROVE  Holding(n, y) /\ Placed(n, y)
<1>1. \A b : Wanted(m, y, b) => Wanted(n, y, b)
  BY DEF Wanted, MissingBlocks
<1> QED
  BY <1>1 DEF Holding, Placed

\* Waiting at an await keeps the invariant if the place fits the session.
LEMMA GotoConf ==
  ASSUME ConfInv, NEW s \in Sessions, NEW m, NEW x, Fit(s, m, x),
         NEW label, NEW arg, Goto(s, m, x, label, arg),
         label = "idle" => x.active = << >>,
         label = "init" => x.active = << >> /\ x.inFlight = {},
         label = "send" => /\ Wanted(m, x, arg) /\ arg \notin x.inFlight
                           /\ Cardinality(x.inFlight) < PIPELINE_DEPTH,
         PoolInv', HandedWith(m, handed')
  PROVE  /\ ConfInv'
         /\ pm' = m /\ sess'[s].active = x.active
         /\ \A t \in Sessions \ {s} : sess'[t] = sess[t]
<1> DEFINE y == [x EXCEPT !.pc = label, !.at = arg]
<1>1. /\ y.active = x.active /\ y.inFlight = x.inFlight
      /\ y.pc = label /\ y.at = arg
  BY DEF Fit, Ready, SessionType
<1>2. pm' = m /\ sess' = [sess EXCEPT ![s] = y] /\ sess \in [Sessions -> SessionType]
  BY DEF Goto, ConfInv, PoolInv, PoolTypeOK
<1> HIDE DEF y
<1>3. sess'[s] = y /\ \A t \in Sessions \ {s} : sess'[t] = sess[t]
  BY <1>2
<1>4. \A b : Wanted(m, x, b) <=> Wanted(m, y, b)
  BY <1>1 DEF Wanted
<1>5. Holding(m, y) /\ Placed(m, y)
  BY <1>1, <1>4 DEF Fit, Holding, Placed
<1>6. ASSUME NEW t \in Sessions PROVE Holding(m, sess'[t]) /\ Placed(m, sess'[t])
  <2>1. CASE t = s
    BY <1>3, <1>5, <2>1
  <2>2. CASE t # s
    <3>1. Holding(pm, sess[t]) /\ Placed(pm, sess[t])
      BY DEF ConfInv
    <3>2. \A i \in ToSet(sess[t].active) : m.state[i] = pm.state[i] /\ m.blocks[i] = pm.blocks[i]
      BY <2>2 DEF Fit
    <3> QED
      BY <1>3, <2>2, <3>1, <3>2, OthersKeep
  <2> QED
    BY <2>1, <2>2
<1>7. Apart'
  BY <1>1, <1>3 DEF Apart, ConfInv, Fit
<1>8. ConfInv'
  BY <1>2, <1>6, <1>7 DEF ConfInv, Fit
<1> QED
  BY <1>1, <1>2, <1>3, <1>8

\* Leaving the coroutine, also because everything is downloaded.
LEMMA LeaveConf ==
  ASSUME ConfInv, NEW s \in Sessions, NEW m, NEW x, Fit(s, m, x), HandedWith(m, handed),
         Leave(s, m, x) \/ (IsDone(m) /\ LoopDone(s, m, x))
  PROVE  Effect(s, m, x)
<1>1. PoolInv'
  BY LeaveInv DEF ConfInv, Fit
<1>2. /\ Goto(s, m, x, "closing", NoArg) /\ handed' = handed
      /\ doneEvent' = doneEvent \/ (IsDone(m) /\ doneEvent' = TRUE)
  BY DEF Leave, LoopDone
<1>3. /\ ConfInv' /\ pm' = m /\ sess'[s].active = x.active
      /\ \A t \in Sessions \ {s} : sess'[t] = sess[t]
  BY <1>1, <1>2, GotoConf
<1> QED
  BY <1>2, <1>3 DEF Effect, Kept

\* Waiting for a message, idle only without pieces.
LEMMA AwaitMessageConf ==
  ASSUME ConfInv, NEW s \in Sessions, NEW m, NEW x, Fit(s, m, x), HandedWith(m, handed),
         x.inFlight = {} => x.active = << >>, AwaitMessage(s, m, x)
  PROVE  Effect(s, m, x)
<1>1. CASE x.inFlight = {} /\ IsDone(m)
  BY <1>1, LeaveConf DEF AwaitMessage
<1>2. CASE ~(x.inFlight = {} /\ IsDone(m))
  <2>1. PICK label \in {"idle", "recv"} :
          Goto(s, m, x, label, NoArg) /\ (label = "idle" => x.active = << >>)
    BY <1>2 DEF AwaitMessage
  <2>2. doneEvent' = doneEvent /\ handed' = handed
    BY <1>2 DEF AwaitMessage
  <2>3. PoolInv'
    BY AwaitMessageInv DEF ConfInv, Fit
  <2>4. /\ ConfInv' /\ pm' = m /\ sess'[s].active = x.active
        /\ \A t \in Sessions \ {s} : sess'[t] = sess[t]
    BY <2>1, <2>2, <2>3, GotoConf
  <2> QED
    BY <2>2, <2>4 DEF Effect, Kept
<1> QED
  BY <1>1, <1>2

\* Sending a request for a missing block of a listed piece.
LEMMA RequestConf ==
  ASSUME ConfInv, NEW s \in Sessions, NEW m, NEW x, Fit(s, m, x), HandedWith(m, handed),
         NEW i \in ToSet(x.active), Unrequested(m, x, i) # {}, ~PipelineFull(x),
         Request(s, m, x, i)
  PROVE  /\ ConfInv'
         /\ pm' = m /\ sess'[s].active = x.active /\ doneEvent' = doneEvent
         /\ \A t \in Sessions \ {s} : sess'[t] = sess[t]
<1> DEFINE o == Min(Unrequested(m, x, i))
<1>1. i \in Pieces
  <2>1. x.active \in Seq(Pieces)
    BY DEF Fit, Ready, SessionType
  <2> QED
    BY <2>1 DEF ToSet
<1>2. o \in Unrequested(m, x, i)
  <2>1. Unrequested(m, x, i) \in SUBSET Nat
    BY <1>1, UnrequestedOffsets DEF Offsets
  <2> QED
    BY <2>1, MinElement
<1>3. o \in MissingBlocks(m, i) /\ <<i, o>> \notin x.inFlight
  BY <1>2 DEF Unrequested
<1>4. Goto(s, m, x, "send", <<i, o>>) /\ doneEvent' = doneEvent /\ handed' = handed
  BY DEF Request
<1>5. PoolInv'
  BY <1>1, RequestInv DEF ConfInv, Fit
<1> HIDE DEF o
<1>6. Wanted(m, x, <<i, o>>)
  BY <1>3 DEF Wanted
<1>7. Cardinality(x.inFlight) < PIPELINE_DEPTH
  <2>1. Cardinality(x.inFlight) \in Nat /\ PIPELINE_DEPTH \in Nat
    BY FS_CardinalityType, PoolAssumption DEF Fit, Holding
  <2> QED
    BY <2>1 DEF PipelineFull
<1> QED
  BY <1>3, <1>4, <1>5, <1>6, <1>7, GotoConf

\* The session x once it lists piece i as well.
Listing(x, i) == [x EXCEPT !.active = Append(@, i)]

\* Taking a new piece: nobody has it, and all its blocks are missing.
LEMMA SelectFit ==
  ASSUME ConfInv, NEW s \in Sessions, NEW m, NEW x, Fit(s, m, x),
         NEW i \in Pieces, m.state[i] = "NEEDED",
         NEW m1, m1 = SelectPiece(m, i),
         NEW x1, x1 = Listing(x, i)
  PROVE  /\ Fit(s, m1, x1)
         /\ m1.state[i] = "PENDING" /\ \A j \in Pieces \ {i} : m1.state[j] = m.state[j]
         /\ ToSet(x1.active) = ToSet(x.active) \cup {i}
         /\ x1.inFlight = x.inFlight
         /\ Unrequested(m1, x1, i) # {}
<1>1. m \in TrackerType /\ x \in SessionType /\ x.active \in Seq(Pieces)
  BY DEF Fit, Ready, TrackerInv, SessionType
<1>2. Ready(s, m1, x1)
  BY SelectReady DEF Fit, Listing
<1>3. /\ m1.state = [m.state EXCEPT ![i] = "PENDING"]
      /\ m1.blocks = m.blocks /\ m1.received = m.received
  BY <1>1 DEF SelectPiece, TrackerType
<1>4. x1.active = Append(x.active, i) /\ x1.inFlight = x.inFlight
  BY <1>1 DEF SessionType, Listing
<1>5. m1.state[i] = "PENDING" /\ \A j \in Pieces \ {i} : m1.state[j] = m.state[j]
  BY <1>1, <1>3 DEF TrackerType
<1>6. ToSet(x1.active) = ToSet(x.active) \cup {i} /\ ToSet(x.active) \subseteq Pieces
  <2>1. ToSet(x.active) \subseteq Pieces
    BY <1>1 DEF ToSet
  <2> QED
    BY <1>1, <1>4, <2>1, AppendSet
<1>7. \A j \in ToSet(x.active) : j # i /\ m1.state[j] = "PENDING"
  BY <1>5, <1>6 DEF Fit, Holding
<1>8. ASSUME NEW t \in Sessions \ {s}, NEW j \in ToSet(sess[t].active)
      PROVE  j # i /\ m1.state[j] = pm.state[j] /\ m1.blocks[j] = pm.blocks[j]
  <2>1. pm.state[j] = "PENDING" /\ m.state[j] = pm.state[j] /\ m.blocks[j] = pm.blocks[j]
    BY DEF ConfInv, Holding, Fit
  <2>2. j \in Pieces
    <3>1. sess[t].active \in Seq(Pieces)
      BY DEF ConfInv, PoolInv, PoolTypeOK, SessionType
    <3> QED
      BY <3>1 DEF ToSet
  <2> QED
    BY <1>3, <1>5, <2>1, <2>2
<1>9. WholePiece(m, i) /\ m.blocks[i] = EmptyBlocks
  BY DEF Fit, Whole, WholePiece
<1>10. 0 \in MissingBlocks(m1, i) /\ WholePiece(m1, i)
  <2>1. m1.blocks[i] = EmptyBlocks /\ m1.received[i] = m.received[i]
    BY <1>3, <1>9
  <2>2. m.received[i] = 0
    BY <1>9, EmptyWhole DEF WholePiece
  <2> QED
    BY <2>1, <2>2, EmptyWhole
<1>11. Whole(m1)
  <2>1. ASSUME NEW j \in Pieces \ {i} PROVE WholePiece(m1, j)
    <3>1. WholePiece(m, j)
      BY DEF Fit, Whole
    <3> QED
      BY <1>3, <1>5, <3>1, WholeLocal
  <2> QED
    BY <1>10, <2>1 DEF Whole
<1>12. IsInjective(x1.active)
  <2>1. IsInjective(x.active) /\ i \notin ToSet(x.active) /\ x1.active = Append(x.active, i)
    BY <1>4, <1>7 DEF Fit, Holding
  <2> QED
    BY <1>1, <2>1, AppendQueue
<1>13. Holding(m1, x1)
  <2>1. \A b \in x1.inFlight : Wanted(m1, x1, b)
    BY <1>3, <1>4, <1>6 DEF Fit, Holding, Wanted, MissingBlocks
  <2> QED
    BY <1>4, <1>5, <1>6, <1>7, <1>12, <2>1 DEF Fit, Holding
<1>14. Fit(s, m1, x1)
  BY <1>2, <1>6, <1>8, <1>11, <1>13 DEF Fit
<1>15. 0 \in Unrequested(m1, x1, i)
  <2>1. <<i, 0>> \notin x.inFlight
    BY <1>7 DEF Fit, Holding, Wanted
  <2> QED
    BY <1>4, <1>10, <2>1 DEF Unrequested
<1> QED
  BY <1>4, <1>5, <1>6, <1>14, <1>15

\* Step 2 of the inner while: the listed pieces have no block left to request.
LEMMA RequestFromNewPieceConf ==
  ASSUME ConfInv, NEW s \in Sessions, NEW m, NEW x, Fit(s, m, x), HandedWith(m, handed),
         \A i \in ToSet(x.active) : Unrequested(m, x, i) = {}, ~PipelineFull(x),
         RequestFromNewPiece(s, m, x)
  PROVE  Effect(s, m, x)
<1> DEFINE p == PeerId[s]
<1>1. CASE Leave(s, m, x)
  BY <1>1, LeaveConf
<1>2. CASE AwaitMessage(s, m, x)
  <2>1. ASSUME x.inFlight = {}, NEW i \in ToSet(x.active) PROVE FALSE
    <3>1. i \in Pieces /\ m.state[i] = "PENDING"
      BY DEF Fit, Ready, SessionType, Holding, ToSet
    <3>2. MissingBlocks(m, i) # {}
      BY <3>1 DEF Fit, Whole, WholePiece
    <3> QED
      BY <2>1, <3>2 DEF Unrequested
  <2>2. x.active \in Seq(Pieces)
    BY DEF Fit, Ready, SessionType
  <2>3. x.inFlight = {} => x.active = << >>
    <3>1. ASSUME x.active # << >> PROVE x.active[1] \in ToSet(x.active)
      BY <2>2, <3>1 DEF ToSet
    <3> QED
      BY <2>1, <3>1
  <2> QED
    BY <1>2, <2>3, AwaitMessageConf
<1>3. ASSUME ~SelectRaises(m, p), NEW i \in Rarest(m, p),
             LET m1 == SelectPiece(m, i)
                 x1 == [x EXCEPT !.active = Append(@, i)]
             IN  IF Unrequested(m1, x1, i) = {} THEN AwaitMessage(s, m1, x1)
                                                ELSE Request(s, m1, x1, i)
      PROVE  Effect(s, m, x)
  <2> DEFINE m1 == SelectPiece(m, i)
             x1 == [x EXCEPT !.active = Append(@, i)]
  <2>1. i \in Pieces /\ m.state[i] = "NEEDED"
    BY <1>3 DEF Rarest, Candidates, SelectRaises
  <2>a. m1 = SelectPiece(m, i) /\ x1 = Listing(x, i)
    BY DEF Listing
  <2>b. IF Unrequested(m1, x1, i) = {} THEN AwaitMessage(s, m1, x1) ELSE Request(s, m1, x1, i)
    BY <1>3
  <2> HIDE DEF m1, x1
  <2>2. /\ Fit(s, m1, x1)
        /\ m1.state[i] = "PENDING" /\ \A j \in Pieces \ {i} : m1.state[j] = m.state[j]
        /\ ToSet(x1.active) = ToSet(x.active) \cup {i}
        /\ x1.inFlight = x.inFlight
        /\ Unrequested(m1, x1, i) # {}
    BY <2>1, <2>a, SelectFit
  <2>3. Request(s, m1, x1, i)
    BY <2>b, <2>2
  <2>4. ~PipelineFull(x1)
    BY <2>2 DEF PipelineFull
  <2>5. HandedWith(m1, handed)
    <3>1. \A j \in Pieces : m1.state[j] = "COMPLETE" <=> m.state[j] = "COMPLETE"
      BY <2>1, <2>2
    <3> QED
      BY <3>1 DEF HandedWith
  <2>6. /\ ConfInv' /\ pm' = m1 /\ sess'[s].active = x1.active /\ doneEvent' = doneEvent
        /\ \A t \in Sessions \ {s} : sess'[t] = sess[t]
    BY <2>2, <2>3, <2>4, <2>5, RequestConf
  <2> QED
    BY <2>1, <2>2, <2>6 DEF Effect, Took
<1> QED
  BY <1>1, <1>2, <1>3 DEF RequestFromNewPiece

\* The inner while.
LEMMA FillPipelineConf ==
  ASSUME ConfInv, NEW s \in Sessions, NEW m, NEW x, Fit(s, m, x), HandedWith(m, handed),
         FillPipeline(s, m, x)
  PROVE  Effect(s, m, x)
<1> DEFINE open == {k \in DOMAIN x.active : Unrequested(m, x, x.active[k]) # {}}
<1>0. x.active \in Seq(Pieces)
  BY DEF Fit, Ready, SessionType
<1>1. CASE PipelineFull(x) /\ AwaitMessage(s, m, x)
  <2>1. x.inFlight # {}
    BY <1>1, FS_EmptySet, PoolAssumption DEF PipelineFull
  <2> QED
    BY <1>1, <2>1, AwaitMessageConf
<1>2. CASE ~PipelineFull(x) /\ open # {} /\ Request(s, m, x, x.active[Min(open)])
  <2>2. open \in SUBSET Nat
    BY <1>0
  <2>3. Min(open) \in open
    <3> HIDE DEF open
    <3> QED
      BY <1>2, <2>2, MinElement
  <2>4. Unrequested(m, x, x.active[Min(open)]) # {} /\ Min(open) \in DOMAIN x.active
    BY <2>3
  <2> HIDE DEF open
  <2>5. x.active[Min(open)] \in ToSet(x.active)
    BY <2>4, Zenon DEF ToSet
  <2>6. /\ ConfInv' /\ pm' = m /\ sess'[s].active = x.active /\ doneEvent' = doneEvent
        /\ \A t \in Sessions \ {s} : sess'[t] = sess[t]
    BY <1>2, <2>4, <2>5, RequestConf
  <2> QED
    BY <2>6 DEF Effect, Kept
<1>3. CASE ~PipelineFull(x) /\ open = {} /\ RequestFromNewPiece(s, m, x)
  <2>1. \A i \in ToSet(x.active) : Unrequested(m, x, i) = {}
    BY <1>3 DEF ToSet
  <2> QED
    BY <1>3, <2>1, RequestFromNewPieceConf
<1> QED
  BY <1>1, <1>2, <1>3 DEF FillPipeline

\* The outer while.
LEMMA DownloadLoopConf ==
  ASSUME ConfInv, NEW s \in Sessions, NEW m, NEW x, Fit(s, m, x), HandedWith(m, handed),
         DownloadLoop(s, m, x)
  PROVE  Effect(s, m, x)
  BY LeaveConf, FillPipelineConf DEF DownloadLoop

-----------------------------------------------------------------------------
(* The handlers *)

\* A session fits when the tracker changes only what is known of peers.
LEMMA FitAvailability ==
  ASSUME ConfInv, NEW s \in Sessions, NEW n, Ready(s, n, sess[s]),
         n.state = pm.state, n.blocks = pm.blocks, n.received = pm.received
  PROVE  Fit(s, n, sess[s]) /\ HandedWith(n, handed)
<1>1. Fit(s, pm, sess[s])
  BY FitNow
<1>2. Whole(n)
  BY <1>1, WholeLocal DEF Fit, Whole
<1>3. \A b : Wanted(pm, sess[s], b) => Wanted(n, sess[s], b)
  BY DEF Wanted, MissingBlocks
<1>4. Holding(n, sess[s])
  BY <1>1, <1>3 DEF Fit, Holding
<1> QED
  BY <1>1, <1>2, <1>4 DEF Fit, ConfInv, HandedWith

\* A session fits when its requests stay wanted and its pieces the same.
LEMMA FitRequests ==
  ASSUME NEW s \in Sessions, NEW m, NEW x, NEW y, Fit(s, m, x), y \in SessionType,
         y.active = x.active, \A b \in y.inFlight : Wanted(m, x, b),
         IsFiniteSet(y.inFlight), Cardinality(y.inFlight) <= PIPELINE_DEPTH
  PROVE  Fit(s, m, y)
<1>1. Ready(s, m, y)
  BY DEF Fit, Ready
<1>2. Holding(m, y)
  BY DEF Fit, Holding, Wanted
<1> QED
  BY <1>1, <1>2 DEF Fit

\* A request that was sent joins those in flight.
LEMMA SentFit ==
  ASSUME ConfInv, NEW s \in Sessions, sess[s].pc = "send",
         NEW y, y = [sess[s] EXCEPT !.inFlight = @ \cup {sess[s].at}]
  PROVE  Fit(s, pm, y) /\ y.active = sess[s].active
<1> DEFINE x == sess[s]
<1>1. x \in SessionType /\ Fit(s, pm, x)
  BY FitNow DEF Fit, Ready
<1>2. /\ y.active = x.active /\ y.inFlight = x.inFlight \cup {x.at}
      /\ y \in SessionType
  BY <1>1 DEF SessionType
<1>3. Wanted(pm, x, x.at) /\ x.at \notin x.inFlight /\ Cardinality(x.inFlight) < PIPELINE_DEPTH
  BY DEF ConfInv, Placed
<1>4. IsFiniteSet(x.inFlight) /\ \A b \in x.inFlight : Wanted(pm, x, b)
  BY <1>1 DEF Fit, Holding
<1> HIDE DEF x
<1>5. IsFiniteSet(y.inFlight) /\ Cardinality(y.inFlight) = Cardinality(x.inFlight) + 1
  BY <1>2, <1>3, <1>4, FS_AddElement
<1>6. Cardinality(x.inFlight) \in Nat /\ PIPELINE_DEPTH \in Nat
  BY <1>4, FS_CardinalityType, PoolAssumption
<1>7. Cardinality(y.inFlight) <= PIPELINE_DEPTH
  BY <1>3, <1>5, <1>6
<1>8. \A b \in y.inFlight : Wanted(pm, x, b)
  BY <1>2, <1>3, <1>4
<1>9. Fit(s, pm, y)
  BY <1>1, <1>2, <1>5, <1>7, <1>8, FitRequests
<1> QED
  BY <1>2, <1>9 DEF x

\* The session x once block b has left those in flight.
Without(x, b) == [x EXCEPT !.inFlight = @ \ {b}]

\* A block that arrives leaves those in flight.
LEMMA ArrivedFit ==
  ASSUME NEW s \in Sessions, NEW m, NEW x, Fit(s, m, x), NEW b, NEW y, y = Without(x, b)
  PROVE  /\ Fit(s, m, y)
         /\ y.active = x.active /\ y.inFlight = x.inFlight \ {b}
<1>1. x \in SessionType
  BY DEF Fit, Ready
<1>2. /\ y.active = x.active /\ y.inFlight = x.inFlight \ {b}
      /\ y \in SessionType
  BY <1>1 DEF SessionType, Without
<1>3. IsFiniteSet(x.inFlight) /\ Cardinality(x.inFlight) <= PIPELINE_DEPTH
  BY DEF Fit, Holding
<1>4. y.inFlight \in SUBSET x.inFlight
  BY <1>2
<1>5. IsFiniteSet(y.inFlight) /\ Cardinality(y.inFlight) <= Cardinality(x.inFlight)
  BY <1>3, <1>4, FS_Subset
<1>6. /\ Cardinality(x.inFlight) \in Nat /\ Cardinality(y.inFlight) \in Nat
      /\ PIPELINE_DEPTH \in Nat
  BY <1>3, <1>5, FS_CardinalityType, PoolAssumption
<1>7. Cardinality(y.inFlight) <= PIPELINE_DEPTH
  BY <1>3, <1>5, <1>6
<1>8. \A c \in y.inFlight : Wanted(m, x, c)
  BY <1>4 DEF Fit, Holding
<1> QED
  BY <1>2, <1>5, <1>7, <1>8, FitRequests

\* The session x once it no longer lists piece i.
Unlisting(x, i) == [x EXCEPT !.active = RemoveFirst(@, i)]

\* list.remove on a list without repetition.
LEMMA UnlistingFacts ==
  ASSUME NEW m, NEW x, x \in SessionType, Holding(m, x), NEW i, NEW y, y = Unlisting(x, i)
  PROVE  /\ y \in SessionType /\ y.inFlight = x.inFlight
         /\ IsInjective(y.active) /\ ToSet(y.active) = ToSet(x.active) \ {i}
<1>1. x.active \in Seq(Pieces) /\ IsInjective(x.active)
  BY DEF SessionType, Holding
<1>2. /\ RemoveFirst(x.active, i) \in Seq(Pieces)
      /\ ToSet(RemoveFirst(x.active, i)) \subseteq ToSet(x.active)
      /\ ToSet(x.active) \ {i} \subseteq ToSet(RemoveFirst(x.active, i))
      /\ IsInjective(RemoveFirst(x.active, i)) /\ i \notin ToSet(RemoveFirst(x.active, i))
  BY <1>1, RemoveFirstSet
<1>3. /\ y \in SessionType /\ y.inFlight = x.inFlight
      /\ y.active = RemoveFirst(x.active, i)
  BY <1>2 DEF SessionType, Unlisting
<1> QED
  BY <1>2, <1>3

\* A block that was asked for: the piece goes on, is verified, or starts anew;
\* in the last two cases nothing more of it is in flight.
LEMMA AnswerFit ==
  ASSUME ConfInv, NEW s \in Sessions, NEW b \in sess[s].inFlight, NEW good \in BOOLEAN,
         NEW i, i = b[1], NEW o, o = b[2], NEW d, d = [len |-> SizeAt(i, o), ok |-> good],
         NEW x, x = Without(sess[s], <<i, o>>),
         NEW m1, m1 = AddBlock(pm, i, o, d), NEW x1, x1 = Unlisting(x, i)
  PROVE  /\ i \in Pieces /\ pm.state[i] = "PENDING" /\ i \in ToSet(sess[s].active)
         /\ Fit(s, pm, x) /\ x.active = sess[s].active
         /\ ToSet(x1.active) = ToSet(x.active) \ {i}
         /\ \A j \in Pieces \ {i} : m1.state[j] = pm.state[j]
         /\ \/ ~AddBlockResult(pm, i, o, d) /\ m1.state[i] = "PENDING" /\ Fit(s, m1, x)
            \/ AddBlockResult(pm, i, o, d) /\ m1.state[i] = "COMPLETE" /\ Fit(s, m1, x1)
            \/ ~AddBlockResult(pm, i, o, d) /\ m1.state[i] = "NEEDED" /\ Fit(s, m1, x1)
<1>1. Fit(s, pm, sess[s]) /\ sess[s] \in SessionType
  BY FitNow DEF Fit, Ready
<1>2. b = <<i, o>> /\ i \in Pieces
  BY <1>1 DEF SessionType, Block
<1>3. i \in ToSet(sess[s].active) /\ o \in MissingBlocks(pm, i) /\ pm.state[i] = "PENDING"
  BY <1>1 DEF Fit, Holding, Wanted
<1>4. /\ Fit(s, pm, x)
      /\ x.active = sess[s].active /\ x.inFlight = sess[s].inFlight \ {<<i, o>>}
  BY <1>1, ArrivedFit
<1>5. TrackerInv(pm) /\ Whole(pm) /\ Holding(pm, x) /\ Ready(s, pm, x) /\ x \in SessionType
  BY <1>4 DEF Fit, Ready
<1>6. /\ TrackerInv(m1) /\ Whole(m1)
      /\ \A j \in Pieces \ {i} : m1.state[j] = pm.state[j] /\ m1.blocks[j] = pm.blocks[j]
      /\ \/ /\ ~AddBlockResult(pm, i, o, d) /\ m1.state[i] = "PENDING"
            /\ MissingBlocks(m1, i) = MissingBlocks(pm, i) \ {o}
         \/ /\ AddBlockResult(pm, i, o, d) /\ m1.state[i] = "COMPLETE"
            /\ MissingBlocks(pm, i) = {o}
         \/ /\ ~AddBlockResult(pm, i, o, d) /\ m1.state[i] = "NEEDED"
            /\ MissingBlocks(pm, i) = {o}
  BY <1>2, <1>3, <1>5, AddWanted
<1>7. /\ x1 \in SessionType /\ x1.inFlight = x.inFlight
      /\ IsInjective(x1.active) /\ ToSet(x1.active) = ToSet(x.active) \ {i}
  BY <1>5, UnlistingFacts
<1>8. ASSUME NEW t \in Sessions \ {s}, NEW j \in ToSet(sess[t].active)
      PROVE  j \notin ToSet(x.active) /\ m1.state[j] = pm.state[j] /\ m1.blocks[j] = pm.blocks[j]
  <2>1. j \notin ToSet(x.active)
    BY <1>4 DEF Fit
  <2>2. j \in Pieces
    <3>1. sess[t].active \in Seq(Pieces)
      BY DEF ConfInv, PoolInv, PoolTypeOK, SessionType
    <3> QED
      BY <3>1 DEF ToSet
  <2>3. j # i
    BY <1>3, <1>4, <2>1
  <2> QED
    BY <1>6, <2>1, <2>2, <2>3
<1>9. \A c \in x.inFlight : /\ c \in Block /\ c[1] \in ToSet(x.active)
                            /\ c[2] \in MissingBlocks(pm, c[1]) /\ c # <<i, o>>
  BY <1>4, <1>5 DEF Holding, Wanted, SessionType
<1>10. ASSUME NEW y, y \in SessionType, y.inFlight = x.inFlight, IsInjective(y.active),
              ToSet(y.active) \subseteq ToSet(x.active),
              \A j \in ToSet(y.active) : m1.state[j] = "PENDING",
              \A c \in x.inFlight : Wanted(m1, y, c),
              Ready(s, m1, y)
       PROVE  Fit(s, m1, y)
  <2>1. Holding(m1, y)
    BY <1>5, <1>10 DEF Holding
  <2> QED
    BY <1>6, <1>8, <1>10, <2>1 DEF Fit
<1>11. \A j \in ToSet(x.active) : j \in Pieces /\ pm.state[j] = "PENDING"
  <2>1. x.active \in Seq(Pieces)
    BY <1>5 DEF SessionType
  <2> QED
    BY <1>5, <2>1 DEF Holding, ToSet
<1>12. \A j \in Pieces : m1.state[j] = "PENDING" => pm.state[j] = "PENDING"
  BY <1>3, <1>6
<1>13. Ready(s, m1, x)
  BY <1>5, <1>6, <1>12, ReadyTracker
<1>14. CASE m1.state[i] = "PENDING"
  <2>1. MissingBlocks(m1, i) = MissingBlocks(pm, i) \ {o} /\ ~AddBlockResult(pm, i, o, d)
    BY <1>6, <1>14
  <2>2. ASSUME NEW c \in x.inFlight PROVE Wanted(m1, x, c)
    <3>1. /\ c \in Block /\ c[1] \in ToSet(x.active) /\ c[1] \in Pieces
          /\ c[2] \in MissingBlocks(pm, c[1]) /\ c # <<i, o>>
      BY <1>9, <1>11
    <3>2. c[1] = i => c[2] # o
      BY <3>1 DEF Block
    <3>3. CASE c[1] = i
      BY <2>1, <3>1, <3>2, <3>3 DEF Wanted
    <3>4. CASE c[1] # i
      BY <1>6, <3>1, <3>4 DEF Wanted, MissingBlocks
    <3> QED
      BY <3>3, <3>4
  <2>3. IsInjective(x.active) /\ \A j \in ToSet(x.active) : m1.state[j] = "PENDING"
    BY <1>5, <1>6, <1>11, <1>14 DEF Holding
  <2>4. Fit(s, m1, x)
    BY <1>5, <1>10, <1>13, <2>2, <2>3
  <2> QED
    BY <1>2, <1>3, <1>4, <1>6, <1>7, <1>14, <2>1, <2>4
<1>15. CASE m1.state[i] # "PENDING"
  <2>1. MissingBlocks(pm, i) = {o}
    BY <1>6, <1>15
  <2>2. ASSUME NEW c \in x.inFlight PROVE Wanted(m1, x1, c)
    <3>1. /\ c \in Block /\ c[1] \in ToSet(x.active) /\ c[1] \in Pieces
          /\ c[2] \in MissingBlocks(pm, c[1]) /\ c # <<i, o>>
      BY <1>9, <1>11
    <3>2. c[1] # i
      BY <2>1, <3>1 DEF Block
    <3> QED
      BY <1>6, <1>7, <3>1, <3>2 DEF Wanted, MissingBlocks
  <2>3. \A j \in ToSet(x1.active) : m1.state[j] = "PENDING"
    BY <1>6, <1>7, <1>11
  <2>4. Ready(s, m1, x1)
    BY <1>2, <1>13, <1>15, RemoveReady DEF Unlisting
  <2>5. Fit(s, m1, x1)
    BY <1>7, <1>10, <2>2, <2>3, <2>4
  <2> QED
    BY <1>2, <1>3, <1>4, <1>6, <1>7, <1>15, <2>5
<1> QED
  BY <1>14, <1>15

-----------------------------------------------------------------------------
(* What a step does to the pieces *)

\* Session s gives back the pieces R and takes the pieces T.
Moved(s, R, T) ==
  /\ R \subseteq ToSet(sess[s].active)
  /\ \A i \in T : i \in R \/ pm.state[i] = "NEEDED"
  /\ \A i \in Pieces : pm'.state[i] = IF i \in T THEN "PENDING"
                                      ELSE IF i \in R THEN "NEEDED" ELSE pm.state[i]
  /\ ToSet(sess'[s].active) = (ToSet(sess[s].active) \ R) \cup T
  /\ \A t \in Sessions \ {s} : sess'[t] = sess[t]

\* Session s verifies piece i and stops listing it.
Checked(s, i) ==
  /\ i \in ToSet(sess[s].active) /\ i \in Pieces
  /\ \A j \in Pieces : pm'.state[j] = IF j = i THEN "COMPLETE" ELSE pm.state[j]
  /\ ToSet(sess'[s].active) = ToSet(sess[s].active) \ {i}
  /\ \A t \in Sessions \ {s} : sess'[t] = sess[t]

\* All that a step of session s may do to the pieces and to the done event.
Outcome(s) ==
  \/ doneEvent' = doneEvent /\ \E R : Moved(s, R, {})
  \/ doneEvent' = doneEvent /\ \E i \in Pieces : Moved(s, {}, {i})
  \/ doneEvent' = doneEvent /\ \E i, j \in Pieces : Moved(s, {i}, {j})
  \/ doneEvent' = doneEvent /\ \E i : Checked(s, i)
  \/ doneEvent' = TRUE /\ IsDone(pm) /\ Moved(s, {}, {})

\* Before the loop runs on with m and x, session s has given back R.
Gave(s, m, x, R) ==
  /\ R \subseteq ToSet(sess[s].active)
  /\ ToSet(x.active) = ToSet(sess[s].active) \ R
  /\ \A i \in Pieces : m.state[i] = IF i \in R THEN "NEEDED" ELSE pm.state[i]

\* The loop runs on after at most one piece was given back.
LEMMA EffectOutcome ==
  ASSUME NEW s \in Sessions, NEW m, NEW x, Effect(s, m, x),
         NEW R, R = {} \/ \E i \in Pieces : R = {i}, Gave(s, m, x, R)
  PROVE  ConfInv' /\ Outcome(s)
<1>1. ConfInv' /\ \A t \in Sessions \ {s} : sess'[t] = sess[t]
  BY DEF Effect
<1>2. CASE Kept(s, m, x) /\ doneEvent' = doneEvent
  <2>1. Moved(s, R, {})
    BY <1>1, <1>2 DEF Kept, Gave, Moved
  <2> QED
    BY <1>1, <1>2, <2>1 DEF Outcome
<1>3. CASE Kept(s, m, x) /\ IsDone(m) /\ doneEvent' = TRUE
  <2>1. R = {}
    BY <1>3 DEF IsDone, Gave
  <2>2. IsDone(pm) /\ Moved(s, {}, {})
    BY <1>1, <1>3, <2>1 DEF Kept, Gave, Moved, IsDone
  <2> QED
    BY <1>1, <1>3, <2>2 DEF Outcome
<1>4. CASE Took(s, m, x)
  <2>1. PICK j \in Pieces : /\ m.state[j] = "NEEDED" /\ pm'.state[j] = "PENDING"
                            /\ \A k \in Pieces \ {j} : pm'.state[k] = m.state[k]
                            /\ ToSet(sess'[s].active) = ToSet(x.active) \cup {j}
                            /\ doneEvent' = doneEvent
    BY <1>4 DEF Took
  <2>2. Moved(s, R, {j})
    BY <1>1, <2>1 DEF Gave, Moved
  <2> QED
    BY <1>1, <2>1, <2>2 DEF Outcome
<1> QED
  BY <1>2, <1>3, <1>4 DEF Effect, Kept

\* The loop runs on with the pieces and their states as they were.
LEMMA LoopOutcome ==
  ASSUME ConfInv, NEW s \in Sessions, NEW m, NEW x, Fit(s, m, x), HandedWith(m, handed),
         m.state = pm.state, x.active = sess[s].active,
         DownloadLoop(s, m, x) \/ FillPipeline(s, m, x) \/ Leave(s, m, x)
  PROVE  ConfInv' /\ Outcome(s)
<1>1. Effect(s, m, x)
  BY DownloadLoopConf, FillPipelineConf, LeaveConf
<1>2. Gave(s, m, x, {})
  BY DEF Gave
<1> QED
  BY <1>1, <1>2, EffectOutcome

\* A Have or a bitfield.
LEMMA AvailabilityFit ==
  ASSUME ConfInv, NEW s \in Sessions, NEW i \in Indices, NEW bits \in SUBSET Indices,
         NEW n, n = OnPeerHave(pm, PeerId[s], i) \/ n = OnPeerBitfield(pm, PeerId[s], bits)
  PROVE  Fit(s, n, sess[s]) /\ HandedWith(n, handed) /\ n.state = pm.state
<1>1. Ready(s, pm, sess[s]) /\ PeerId[s] \in Peers /\ pm \in TrackerType
  BY ReadyNow, PoolAssumption DEF ConfInv, PoolInv, PoolTypeOK
<1>2. Ready(s, n, sess[s])
  BY <1>1, AvailabilityReady
<1>3. n.state = pm.state /\ n.blocks = pm.blocks /\ n.received = pm.received
  BY <1>1 DEF OnPeerHave, OnPeerBitfield, TrackerType
<1> QED
  BY <1>2, <1>3, FitAvailability

\* The session x after h messages.
Hearing(x, h) == [x EXCEPT !.heard = h]

\* Counting messages changes nothing else.
LEMMA HearingFit ==
  ASSUME NEW s \in Sessions, NEW m, NEW x, Fit(s, m, x), NEW h \in 0 .. INIT_MESSAGES,
         NEW y, y = Hearing(x, h)
  PROVE  Fit(s, m, y) /\ y.active = x.active /\ y.inFlight = x.inFlight
<1>1. x \in SessionType
  BY DEF Fit, Ready
<1>2. y \in SessionType /\ y.active = x.active /\ y.inFlight = x.inFlight
  BY <1>1 DEF SessionType, Hearing
<1> QED
  BY <1>2, FitRequests DEF Fit, Holding

\* A message before the unchoke.
LEMMA ReceiveInitialConf ==
  ASSUME ConfInv, NEW s \in Sessions, NEW m, Fit(s, m, sess[s]), HandedWith(m, handed),
         m.state = pm.state, ReceiveInitial(s, m)
  PROVE  ConfInv' /\ Outcome(s)
<1> DEFINE x == [sess[s] EXCEPT !.heard = @ + 1]
<1>1. sess[s] \in SessionType /\ sess[s].heard < INIT_MESSAGES /\ sess[s].pc = "init"
  BY DEF ConfInv, PoolInv, PoolTypeOK, HeardBelow, ReceiveInitial
<1>2. sess[s].heard + 1 \in 0 .. INIT_MESSAGES
  BY <1>1, PoolAssumption DEF SessionType
<1>3. x = Hearing(sess[s], sess[s].heard + 1)
  BY DEF Hearing
<1>4. Leave(s, m, x) \/ (Goto(s, m, x, "init", NoArg) /\ UNCHANGED <<doneEvent, connects, handed>>)
  BY DEF ReceiveInitial
<1> HIDE DEF x
<1>5. Fit(s, m, x) /\ x.active = sess[s].active /\ x.inFlight = sess[s].inFlight
  BY <1>2, <1>3, HearingFit
<1>6. CASE Leave(s, m, x)
  BY <1>5, <1>6, LoopOutcome
<1>7. CASE Goto(s, m, x, "init", NoArg) /\ UNCHANGED <<doneEvent, connects, handed>>
  <2>1. x.active = << >> /\ x.inFlight = {}
    BY <1>1, <1>5 DEF ConfInv, Placed
  <2>2. PoolInv'
    BY ReceiveInitialInv DEF ConfInv, Fit
  <2>3. /\ ConfInv' /\ pm' = m /\ sess'[s].active = x.active
        /\ \A t \in Sessions \ {s} : sess'[t] = sess[t]
    BY <1>5, <1>7, <2>1, <2>2, GotoConf
  <2>4. Moved(s, {}, {})
    BY <1>5, <2>3 DEF Moved
  <2> QED
    BY <1>7, <2>3, <2>4 DEF Outcome
<1> QED
  BY <1>4, <1>6, <1>7

\* A requested block arrives: its piece goes on, is verified and handed over
\* for the first time, or fails its hash and is given back.
LEMMA AnswerConf ==
  ASSUME ConfInv, NEW s \in Sessions, Answer(s)
  PROVE  ConfInv' /\ Outcome(s)
<1>1. PICK b \in sess[s].inFlight, good \in BOOLEAN :
        ReceivePiece(s, b[1], b[2], [len |-> SizeAt(b[1], b[2]), ok |-> good])
  BY DEF Answer
<1> DEFINE i  == b[1]
           o  == b[2]
           d  == [len |-> SizeAt(i, o), ok |-> good]
           x  == Without(sess[s], <<i, o>>)
           m1 == AddBlock(pm, i, o, d)
           x1 == Unlisting(x, i)
<1>2. \/ Leave(s, pm, x)
      \/ /\ i \in Pieces /\ AddBlockResult(pm, i, o, d)
         /\ Goto(s, m1, x1, "write", <<i, 0>>)
         /\ handed' = [handed EXCEPT ![i] = IF @ = 2 THEN 2 ELSE @ + 1]
         /\ UNCHANGED <<doneEvent, connects>>
      \/ /\ ~AddBlockResult(pm, i, o, d)
         /\ DownloadLoop(s, m1, IF m1.state[i] = "NEEDED" THEN x1 ELSE x)
  BY <1>1 DEF ReceivePiece, Without, Unlisting
<1>3. PoolInv'
  <2>1. Deliver(s)
    BY DEF Deliver
  <2> QED
    BY <2>1, DeliverInv DEF ConfInv
<1>0. /\ i = b[1] /\ o = b[2] /\ d = [len |-> SizeAt(i, o), ok |-> good]
      /\ x = Without(sess[s], <<i, o>>) /\ m1 = AddBlock(pm, i, o, d) /\ x1 = Unlisting(x, i)
  OBVIOUS
<1> HIDE DEF i, o, d, x, m1, x1
<1>4. /\ i \in Pieces /\ pm.state[i] = "PENDING" /\ i \in ToSet(sess[s].active)
      /\ Fit(s, pm, x) /\ x.active = sess[s].active
      /\ ToSet(x1.active) = ToSet(x.active) \ {i}
      /\ \A j \in Pieces \ {i} : m1.state[j] = pm.state[j]
      /\ \/ ~AddBlockResult(pm, i, o, d) /\ m1.state[i] = "PENDING" /\ Fit(s, m1, x)
         \/ AddBlockResult(pm, i, o, d) /\ m1.state[i] = "COMPLETE" /\ Fit(s, m1, x1)
         \/ ~AddBlockResult(pm, i, o, d) /\ m1.state[i] = "NEEDED" /\ Fit(s, m1, x1)
  BY <1>0, AnswerFit, SMTT(30)
<1>5. HandedWith(pm, handed) /\ handed \in [Pieces -> 0 .. 2]
  BY DEF ConfInv, PoolInv, PoolTypeOK
<1>6. CASE Leave(s, pm, x)
  BY <1>4, <1>5, <1>6, LoopOutcome
<1>7. CASE /\ AddBlockResult(pm, i, o, d)
           /\ Goto(s, m1, x1, "write", <<i, 0>>)
           /\ handed' = [handed EXCEPT ![i] = IF @ = 2 THEN 2 ELSE @ + 1]
           /\ UNCHANGED <<doneEvent, connects>>
  <2>1. m1.state[i] = "COMPLETE" /\ Fit(s, m1, x1)
    BY <1>4, <1>7
  <2>2. HandedWith(m1, handed')
    <3>1. handed[i] = 0
      BY <1>4, <1>5 DEF HandedWith
    <3>2. handed'[i] = 1 /\ \A j \in Pieces \ {i} : handed'[j] = handed[j]
      BY <1>4, <1>5, <1>7, <3>1
    <3> QED
      BY <1>4, <1>5, <2>1, <3>2 DEF HandedWith
  <2>3. /\ ConfInv' /\ pm' = m1 /\ sess'[s].active = x1.active
        /\ \A t \in Sessions \ {s} : sess'[t] = sess[t]
    BY <1>3, <1>7, <2>1, <2>2, GotoConf
  <2>4. Checked(s, i)
    BY <1>4, <2>1, <2>3 DEF Checked
  <2> QED
    BY <1>7, <2>3, <2>4 DEF Outcome
<1>8. CASE /\ ~AddBlockResult(pm, i, o, d)
           /\ DownloadLoop(s, m1, IF m1.state[i] = "NEEDED" THEN x1 ELSE x)
  <2>1. HandedWith(m1, handed)
    BY <1>4, <1>5, <1>8 DEF HandedWith
  <2>2. CASE m1.state[i] = "NEEDED"
    <3>1. Effect(s, m1, x1)
      BY <1>4, <1>8, <2>1, <2>2, DownloadLoopConf
    <3>2. Gave(s, m1, x1, {i})
      BY <1>4, <2>2 DEF Gave
    <3> QED
      BY <1>4, <3>1, <3>2, EffectOutcome
  <2>3. CASE m1.state[i] = "PENDING"
    <3>1. Effect(s, m1, x)
      BY <1>4, <1>8, <2>1, <2>3, DownloadLoopConf
    <3>2. Gave(s, m1, x, {})
      BY <1>4, <2>3 DEF Gave
    <3> QED
      BY <3>1, <3>2, EffectOutcome
  <2> QED
    BY <1>4, <1>8, <2>2, <2>3
<1> QED
  BY <1>2, <1>6, <1>7, <1>8

\* What a session gives back is what it lists, and nothing of another session.
LEMMA ReleaseFit ==
  ASSUME ConfInv, NEW s \in Sessions, NEW n, n = MarkPiecesFailed(pm, Releasable(pm, sess[s]))
  PROVE  /\ TrackerInv(n) /\ Whole(n) /\ HandedWith(n, handed)
         /\ \A i \in Pieces : n.state[i] = IF i \in ToSet(sess[s].active) THEN "NEEDED"
                                                                          ELSE pm.state[i]
         /\ \A t \in Sessions \ {s} : \A i \in ToSet(sess[t].active) :
              n.state[i] = pm.state[i] /\ n.blocks[i] = pm.blocks[i]
<1> DEFINE R == ToSet(sess[s].active)
<1>1. Fit(s, pm, sess[s]) /\ pm \in TrackerType /\ sess[s] \in SessionType
  BY FitNow DEF Fit, Ready, TrackerInv
<1>2. R \subseteq Pieces /\ \A i \in R : pm.state[i] = "PENDING"
  <2>1. sess[s].active \in Seq(Pieces)
    BY <1>1 DEF SessionType
  <2> QED
    BY <1>1, <2>1 DEF ToSet, Fit, Holding
<1>3. \A b \in sess[s].inFlight : b[1] \in R
  BY <1>1 DEF Fit, Holding, Wanted
<1> HIDE DEF R
<1>4. Releasable(pm, sess[s]) = R
  BY <1>2, <1>3 DEF Releasable, R
<1>5. /\ \A i \in R : n.state[i] = "NEEDED" /\ n.blocks[i] = EmptyBlocks /\ n.received[i] = 0
      /\ \A i \in Pieces \ R : /\ n.state[i] = pm.state[i] /\ n.blocks[i] = pm.blocks[i]
                               /\ n.received[i] = pm.received[i]
  BY <1>1, <1>2, <1>4 DEF MarkPiecesFailed, TrackerType
<1>6. TrackerInv(n)
  BY <1>2, <1>4, MarkPiecesFailedInv DEF ConfInv, PoolInv, TrackerOK
<1>7. Whole(n)
  <2>1. \A i \in R : WholePiece(n, i)
    BY <1>2, <1>5, EmptyWhole
  <2>2. \A i \in Pieces \ R : WholePiece(n, i)
    BY <1>5, WholeLocal DEF ConfInv, Whole
  <2> QED
    BY <2>1, <2>2 DEF Whole
<1>8. HandedWith(n, handed)
  BY <1>2, <1>5 DEF ConfInv, HandedWith
<1>9. ASSUME NEW t \in Sessions \ {s}, NEW i \in ToSet(sess[t].active)
      PROVE  i \in Pieces \ R
  <2>1. sess[t].active \in Seq(Pieces)
    BY DEF ConfInv, PoolInv, PoolTypeOK, SessionType
  <2>2. i \in Pieces
    BY <2>1 DEF ToSet
  <2> QED
    BY <1>1, <2>2 DEF Fit, R
<1> QED
  BY <1>2, <1>5, <1>6, <1>7, <1>8, <1>9 DEF R

\* The session x once it lists and awaits nothing.
Emptied(x) == [x EXCEPT !.inFlight = {}, !.active = << >>]

\* A choke: the session leaves, with requests outstanding after giving back.
LEMMA ChokeConf ==
  ASSUME ConfInv, NEW s \in Sessions, ReceiveChoke(s)
  PROVE  ConfInv' /\ Outcome(s)
<1>1. Fit(s, pm, sess[s]) /\ HandedWith(pm, handed)
  BY FitNow DEF ConfInv
<1>2. CASE Leave(s, pm, sess[s])
  BY <1>1, <1>2, LoopOutcome
<1>3. CASE Leave(s, MarkPiecesFailed(pm, Releasable(pm, sess[s])),
                 [sess[s] EXCEPT !.inFlight = {}, !.active = << >>])
  <2> DEFINE n == MarkPiecesFailed(pm, Releasable(pm, sess[s]))
             y == Emptied(sess[s])
             R == ToSet(sess[s].active)
  <2>1. Leave(s, n, y)
    BY <1>3 DEF Emptied
  <2>2. /\ y \in SessionType /\ y.inFlight = {} /\ y.active = << >>
    <3>1. << >> \in Seq(Pieces) /\ {} \in SUBSET Block /\ sess[s] \in SessionType
      BY <1>1 DEF Fit, Ready
    <3> QED
      BY <3>1 DEF SessionType, Emptied
  <2>3. /\ TrackerInv(n) /\ Whole(n) /\ HandedWith(n, handed)
        /\ \A i \in Pieces : n.state[i] = IF i \in R THEN "NEEDED" ELSE pm.state[i]
        /\ \A t \in Sessions \ {s} : \A i \in ToSet(sess[t].active) :
             n.state[i] = pm.state[i] /\ n.blocks[i] = pm.blocks[i]
    BY ReleaseFit
  <2>4. \A i \in Pieces : n.state[i] = "PENDING" =>
          \E t \in Sessions \ {s} : i \in ToSet(sess[t].active)
    BY <1>1, ReleaseStates DEF Fit
  <2> HIDE DEF n, y, R
  <2>5. ToSet(y.active) = {} /\ IsInjective(y.active)
    BY <2>2 DEF ToSet, IsInjective
  <2>6. Ready(s, n, y)
    BY <2>2, <2>3, <2>4 DEF Ready
  <2>7. Holding(n, y)
    <3>1. IsFiniteSet({}) /\ Cardinality({}) = 0
      BY FS_EmptySet
    <3> QED
      BY <2>2, <2>5, <3>1, PoolAssumption DEF Holding
  <2>8. Fit(s, n, y)
    BY <2>3, <2>5, <2>6, <2>7 DEF Fit
  <2>9. Effect(s, n, y) /\ doneEvent' = doneEvent /\ pm' = n
    BY <2>1, <2>3, <2>8, LeaveConf DEF Leave, Goto
  <2>10. ToSet(sess'[s].active) = {} /\ ConfInv' /\ \A t \in Sessions \ {s} : sess'[t] = sess[t]
    <3>1. PoolInv'
      BY ChokeInv DEF ConfInv
    <3>2. Goto(s, n, y, "closing", NoArg) /\ handed' = handed
      BY <2>1 DEF Leave
    <3>3. /\ ConfInv' /\ sess'[s].active = y.active
          /\ \A t \in Sessions \ {s} : sess'[t] = sess[t]
      BY <2>3, <2>8, <3>1, <3>2, GotoConf
    <3> QED
      BY <2>5, <3>3
  <2>11. Moved(s, R, {})
    BY <2>3, <2>9, <2>10 DEF Moved, R
  <2> QED
    BY <2>9, <2>10, <2>11 DEF Outcome
<1> QED
  BY <1>2, <1>3 DEF ReceiveChoke

\* A fresh record in place of the session keeps the invariant.
LEMMA FreshConf ==
  ASSUME ConfInv, NEW s \in Sessions, NEW label \in {"init", "gone"},
         sess' = [sess EXCEPT ![s] = NewSession(label)],
         PoolInv', Whole(pm'), HandedWith(pm', handed'),
         \A t \in Sessions \ {s} : \A i \in ToSet(sess[t].active) :
           pm'.state[i] = pm.state[i] /\ pm'.blocks[i] = pm.blocks[i]
  PROVE  /\ ConfInv' /\ ToSet(sess'[s].active) = {}
         /\ \A t \in Sessions \ {s} : sess'[t] = sess[t]
<1> DEFINE y == NewSession(label)
<1>1. y.inFlight = {} /\ y.active = << >> /\ y.pc = label
  BY DEF NewSession
<1>2. sess \in [Sessions -> SessionType]
  BY DEF ConfInv, PoolInv, PoolTypeOK
<1>3. sess'[s] = y /\ \A t \in Sessions \ {s} : sess'[t] = sess[t]
  BY <1>2
<1> HIDE DEF y
<1>4. ToSet(y.active) = {} /\ IsInjective(y.active)
  BY <1>1 DEF ToSet, IsInjective
<1>5. IsFiniteSet({}) /\ Cardinality({}) = 0
  BY FS_EmptySet
<1>6. Holding(pm', y) /\ Placed(pm', y)
  BY <1>1, <1>4, <1>5, PoolAssumption DEF Holding, Placed
<1>7. ASSUME NEW t \in Sessions PROVE Holding(pm', sess'[t]) /\ Placed(pm', sess'[t])
  <2>1. CASE t = s
    BY <1>3, <1>6, <2>1
  <2>2. CASE t # s
    <3>1. Holding(pm, sess[t]) /\ Placed(pm, sess[t])
      BY DEF ConfInv
    <3> QED
      BY <1>3, <2>2, <3>1, OthersKeep
  <2> QED
    BY <2>1, <2>2
<1>8. Apart'
  BY <1>3, <1>4 DEF Apart, ConfInv
<1> QED
  BY <1>3, <1>4, <1>7, <1>8 DEF ConfInv

\* A connection starts with nothing, in place of a session without pieces.
LEMMA ConnectConf ==
  ASSUME ConfInv, NEW s \in Sessions, Connect(s)
  PROVE  ConfInv' /\ Outcome(s)
<1>1. PoolInv' /\ pm' = pm /\ doneEvent' = doneEvent /\ handed' = handed
  BY ConnectInv DEF ConfInv, Connect
<1>2. ToSet(sess[s].active) = {}
  BY DEF ConfInv, Connect, PoolInv, GoneEmpty, ToSet
<1>3. /\ ConfInv' /\ ToSet(sess'[s].active) = {}
      /\ \A t \in Sessions \ {s} : sess'[t] = sess[t]
  BY <1>1, FreshConf DEF ConfInv, Connect
<1>4. Moved(s, {}, {})
  BY <1>1, <1>2, <1>3 DEF Moved
<1> QED
  BY <1>1, <1>3, <1>4 DEF Outcome

\* _disconnect gives back what the session lists.
LEMMA DisconnectConf ==
  ASSUME ConfInv, NEW s \in Sessions, Disconnect(s)
  PROVE  ConfInv' /\ Outcome(s)
<1> DEFINE R == ToSet(sess[s].active)
<1>1. PoolInv' /\ doneEvent' = doneEvent /\ handed' = handed
  BY DisconnectInv DEF ConfInv, Disconnect
<1>2. /\ Whole(pm') /\ HandedWith(pm', handed)
      /\ \A i \in Pieces : pm'.state[i] = IF i \in R THEN "NEEDED" ELSE pm.state[i]
      /\ \A t \in Sessions \ {s} : \A i \in ToSet(sess[t].active) :
           pm'.state[i] = pm.state[i] /\ pm'.blocks[i] = pm.blocks[i]
  BY ReleaseFit DEF Disconnect
<1>3. /\ ConfInv' /\ ToSet(sess'[s].active) = {}
      /\ \A t \in Sessions \ {s} : sess'[t] = sess[t]
  BY <1>1, <1>2, FreshConf DEF Disconnect
<1>4. Moved(s, R, {})
  BY <1>2, <1>3 DEF Moved
<1> QED
  BY <1>1, <1>3, <1>4 DEF Outcome

-----------------------------------------------------------------------------
(* The specification *)

\* The pool starts in the invariant.
LEMMA ConfInvInit == Init => ConfInv
<1> SUFFICES ASSUME Init PROVE ConfInv
  OBVIOUS
<1>1. PoolInv
  BY PoolInvInit
<1>2. /\ pm = NewTracker /\ handed = [i \in Pieces |-> 0]
      /\ sess = [s \in Sessions |-> NewSession("gone")]
  BY DEF Init, PMInit
<1>3. \A i \in Pieces : pm.blocks[i] = EmptyBlocks /\ pm.received[i] = 0 /\ pm.state[i] = "NEEDED"
  BY <1>2 DEF NewTracker
<1>4. Whole(pm)
  BY <1>3, EmptyWhole DEF Whole
<1>5. HandedWith(pm, handed)
  BY <1>2, <1>3 DEF HandedWith
<1> DEFINE y == NewSession("gone")
<1>6. y.inFlight = {} /\ y.active = << >> /\ y.pc = "gone"
  BY DEF NewSession
<1>7. \A s \in Sessions : sess[s] = y
  BY <1>2
<1> HIDE DEF y
<1>8. ToSet(y.active) = {} /\ IsInjective(y.active)
  BY <1>6 DEF ToSet, IsInjective
<1>9. IsFiniteSet({}) /\ Cardinality({}) = 0
  BY FS_EmptySet
<1>10. Holding(pm, y) /\ Placed(pm, y)
  BY <1>6, <1>8, <1>9, PoolAssumption DEF Holding, Placed
<1>11. Apart
  BY <1>7, <1>8 DEF Apart
<1> QED
  BY <1>1, <1>4, <1>5, <1>7, <1>10, <1>11 DEF ConfInv

\* Every step of some session keeps the invariant and moves pieces as allowed.
LEMMA ConfInvStep ==
  ASSUME Stray = {}, ConfInv, Next
  PROVE  ConfInv' /\ \E s \in Sessions : Outcome(s)
<1>1. PICK s \in Sessions :
        \/ Connect(s) \/ Announce(s) \/ Unchoke(s) \/ Sent(s) \/ Deliver(s) \/ WriteDone(s)
        \/ Choke(s) \/ Update(s) \/ Wake(s) \/ Lose(s) \/ Disconnect(s)
  BY DEF Next
<1>2. /\ Fit(s, pm, sess[s]) /\ HandedWith(pm, handed)
      /\ PeerId[s] \in Peers /\ Has[s] \in SUBSET Indices
  BY FitNow, PoolAssumption DEF ConfInv
<1>3. 0 \in Indices /\ {} \in SUBSET Indices
  BY CallAssumption, SizeAssumption DEF Pieces
<1>4. CASE Announce(s)
  <2>1. CASE \E bits \in SUBSET Has[s] : ReceiveInitial(s, OnPeerBitfield(pm, PeerId[s], bits))
    <3>1. PICK bits \in SUBSET Has[s] : ReceiveInitial(s, OnPeerBitfield(pm, PeerId[s], bits))
      BY <2>1
    <3> DEFINE n == OnPeerBitfield(pm, PeerId[s], bits)
    <3>2. Fit(s, n, sess[s]) /\ HandedWith(n, handed) /\ n.state = pm.state
      BY <1>2, <1>3, AvailabilityFit
    <3> QED
      BY <3>1, <3>2, ReceiveInitialConf
  <2>2. CASE \E i \in Has[s] : ReceiveInitial(s, OnPeerHave(pm, PeerId[s], i))
    <3>1. PICK i \in Has[s] : ReceiveInitial(s, OnPeerHave(pm, PeerId[s], i))
      BY <2>2
    <3> DEFINE n == OnPeerHave(pm, PeerId[s], i)
    <3>2. Fit(s, n, sess[s]) /\ HandedWith(n, handed) /\ n.state = pm.state
      BY <1>2, <1>3, AvailabilityFit
    <3> QED
      BY <3>1, <3>2, ReceiveInitialConf
  <2>3. CASE ReceiveInitial(s, pm)
    BY <1>2, <2>3, ReceiveInitialConf
  <2> QED
    BY <1>4, <2>1, <2>2, <2>3 DEF Announce
<1>5. CASE Unchoke(s)
  <2> DEFINE y == Hearing(sess[s], 0)
  <2>1. 0 \in 0 .. INIT_MESSAGES
    BY PoolAssumption
  <2>2. Fit(s, pm, y) /\ y.active = sess[s].active
    BY <1>2, <2>1, HearingFit
  <2>3. DownloadLoop(s, pm, y)
    BY <1>5 DEF Unchoke, ReceiveUnchoke, Hearing
  <2> QED
    BY <1>2, <2>2, <2>3, LoopOutcome
<1>6. CASE Sent(s)
  <2> DEFINE y == [sess[s] EXCEPT !.inFlight = @ \cup {sess[s].at}]
  <2>1. Fit(s, pm, y) /\ y.active = sess[s].active
    BY <1>6, SentFit DEF Sent
  <2>2. FillPipeline(s, pm, y)
    BY <1>6 DEF Sent
  <2> QED
    BY <1>2, <2>1, <2>2, LoopOutcome
<1>7. CASE Update(s)
  <2>1. CASE \E i \in Has[s] : ReceiveHave(s, i)
    <3>1. PICK i \in Has[s] : DownloadLoop(s, OnPeerHave(pm, PeerId[s], i), sess[s])
      BY <2>1 DEF ReceiveHave
    <3> DEFINE n == OnPeerHave(pm, PeerId[s], i)
    <3>2. Fit(s, n, sess[s]) /\ HandedWith(n, handed) /\ n.state = pm.state
      BY <1>2, <1>3, AvailabilityFit
    <3> QED
      BY <3>1, <3>2, LoopOutcome
  <2>2. CASE \E bits \in SUBSET Has[s] : ReceiveBitfield(s, bits)
    <3>1. PICK bits \in SUBSET Has[s] :
            DownloadLoop(s, OnPeerBitfield(pm, PeerId[s], bits), sess[s])
      BY <2>2 DEF ReceiveBitfield
    <3> DEFINE n == OnPeerBitfield(pm, PeerId[s], bits)
    <3>2. Fit(s, n, sess[s]) /\ HandedWith(n, handed) /\ n.state = pm.state
      BY <1>2, <1>3, AvailabilityFit
    <3> QED
      BY <3>1, <3>2, LoopOutcome
  <2> QED
    BY <1>7, <2>1, <2>2 DEF Update
<1>8. CASE WriteDone(s) \/ Wake(s) \/ Lose(s)
  BY <1>2, <1>8, LoopOutcome DEF WriteDone, Wake, Lose, PeerLost
<1>9. CASE Choke(s)
  BY <1>9, ChokeConf DEF Choke
<1>10. CASE Deliver(s)
  <2>1. Answer(s)
    BY <1>10 DEF Deliver, StrayBlock
  <2> QED
    BY <2>1, AnswerConf
<1> QED
  BY <1>1, <1>4, <1>5, <1>6, <1>7, <1>8, <1>9, <1>10, ConnectConf, DisconnectConf

\* Every step of the pool keeps the invariant.
LEMMA ConfInvNext == Stray = {} => (ConfInv /\ [Next]_vars => ConfInv')
<1>1. ASSUME ConfInv, UNCHANGED vars PROVE ConfInv'
  <2>1. PoolInv'
    BY <1>1, PoolInvNext DEF ConfInv
  <2> QED
    BY <1>1, <2>1 DEF vars, ConfInv, Apart
<1> QED
  BY <1>1, ConfInvStep

\* The invariant holds in every state of the pool.
LEMMA ConfInvAlways ==
  ASSUME Stray = {}
  PROVE  Spec => []ConfInv
BY ConfInvInit, ConfInvNext, PTL DEF Spec

\* With peers that send what they are asked for, whatever else they do: a
\* request outstanding is a missing block of a piece in progress that this
\* session lists, so no block is stored twice and _disconnect resets no piece
\* another session works on.
THEOREM RequestsOwned ==
  ASSUME Stray = {}
  PROVE  Spec => []InFlightOwned
<1>1. ConfInv => InFlightOwned
  BY DEF ConfInv, Holding, Wanted, InFlightOwned, HoldersOf
<1> QED
  BY <1>1, ConfInvAlways, PTL

\* With such peers the callback that writes to disk runs exactly once for every
\* verified piece, however often the piece failed its hash or changed hands.
THEOREM HandedExactlyOnce ==
  ASSUME Stray = {}
  PROVE  Spec => []HandedOnce
<1>1. ConfInv => HandedOnce
  BY DEF ConfInv, HandedWith, HandedOnce
<1> QED
  BY <1>1, ConfInvAlways, PTL

\* With such peers a session in the five-second idle wait keeps no piece from
\* the other sessions.
THEOREM IdleKeepsNothing ==
  ASSUME Stray = {}
  PROVE  Spec => []IdleHoldsNothing
<1>1. ConfInv => IdleHoldsNothing
  BY DEF ConfInv, Placed, IdleHoldsNothing
<1> QED
  BY <1>1, ConfInvAlways, PTL

-----------------------------------------------------------------------------
(* The refinement of Ownership *)

\* What the mapping gives: the holder is the one session that lists the piece.
Owned ==
  /\ OwnerOf = [i \in Pieces |-> OwnerOf[i]]
  /\ \A i \in Pieces :
       /\ pm.state[i] = "COMPLETE" => OwnerOf[i] = "done"
       /\ pm.state[i] = "NEEDED" => OwnerOf[i] = "free"
       /\ pm.state[i] = "PENDING" => \E s \in Sessions : i \in ToSet(sess[s].active)
       /\ pm.state[i] \in PieceState
  /\ \A s \in Sessions : \A i \in ToSet(sess[s].active) :
       i \in Pieces /\ pm.state[i] = "PENDING" /\ OwnerOf[i] = s

\* The refinement mapping is well defined in every state of the invariant.
LEMMA OwnerIs == ConfInv => Owned
<1> SUFFICES ASSUME ConfInv PROVE Owned
  OBVIOUS
<1>1. ASSUME NEW s \in Sessions, NEW i \in ToSet(sess[s].active)
      PROVE  i \in Pieces /\ pm.state[i] = "PENDING" /\ HoldersOf(i) = {s}
  <2>1. sess[s].active \in Seq(Pieces)
    BY DEF ConfInv, PoolInv, PoolTypeOK, SessionType
  <2>2. i \in Pieces /\ pm.state[i] = "PENDING"
    BY <2>1 DEF ToSet, ConfInv, Holding
  <2>3. \A t \in Sessions : i \in ToSet(sess[t].active) => t = s
    BY DEF ConfInv, Apart
  <2> QED
    BY <2>2, <2>3 DEF HoldersOf
<1>2. \A i \in Pieces : /\ pm.state[i] = "COMPLETE" => OwnerOf[i] = "done"
                        /\ pm.state[i] = "NEEDED" => OwnerOf[i] = "free"
  BY DEF OwnerOf
<1>3. ASSUME NEW s \in Sessions, NEW i \in ToSet(sess[s].active)
      PROVE  OwnerOf[i] = s
  <2>1. OwnerOf[i] = CHOOSE t \in Sessions : t \in HoldersOf(i)
    BY <1>1 DEF OwnerOf
  <2>2. \E t \in Sessions : t \in HoldersOf(i)
    BY <1>1
  <2>3. (CHOOSE t \in Sessions : t \in HoldersOf(i)) \in HoldersOf(i)
    BY <2>2
  <2> QED
    BY <1>1, <2>1, <2>3
<1>4. \A i \in Pieces : /\ pm.state[i] = "PENDING" => \E s \in Sessions : i \in ToSet(sess[s].active)
                        /\ pm.state[i] \in PieceState
  BY DEF ConfInv, PoolInv, NoOrphan, HoldersOf, PoolTypeOK, TrackerType
<1>5. OwnerOf = [i \in Pieces |-> OwnerOf[i]]
  <2> DEFINE f(i) == CASE pm.state[i] = "COMPLETE" -> "done"
                       [] pm.state[i] = "NEEDED"   -> "free"
                       [] pm.state[i] = "PENDING"  -> CHOOSE s \in Sessions : s \in HoldersOf(i)
  <2>1. OwnerOf = [i \in Pieces |-> f(i)]
    BY DEF OwnerOf
  <2> HIDE DEF f
  <2> QED
    BY <2>1
<1> QED
  BY <1>1, <1>2, <1>3, <1>4, <1>5 DEF Owned

\* A piece keeps its owner when its state and its listing stay.
LEMMA SameOwner ==
  ASSUME Owned, Owned', NEW s \in Sessions, NEW i \in Pieces,
         pm'.state[i] = pm.state[i],
         i \in ToSet(sess[s].active) => i \in ToSet(sess'[s].active),
         \A t \in Sessions \ {s} : sess'[t] = sess[t]
  PROVE  OwnerOf'[i] = OwnerOf[i]
<1>1. CASE pm.state[i] # "PENDING"
  BY <1>1 DEF Owned, PieceState
<1>2. CASE pm.state[i] = "PENDING"
  <2>1. PICK t \in Sessions : i \in ToSet(sess[t].active)
    BY <1>2 DEF Owned
  <2>2. i \in ToSet(sess'[t].active)
    BY <2>1
  <2> QED
    BY <2>1, <2>2 DEF Owned
<1> QED
  BY <1>1, <1>2

\* Owners after a step that moves pieces.
LEMMA MovedOwners ==
  ASSUME Owned, Owned', NEW s \in Sessions, NEW R, NEW T \in SUBSET Pieces, Moved(s, R, T)
  PROVE  /\ \A i \in Pieces : OwnerOf'[i] = IF i \in T THEN s
                                            ELSE IF i \in R THEN "free" ELSE OwnerOf[i]
         /\ R \subseteq {i \in Pieces : OwnerOf[i] = s}
         /\ \A i \in T : i \in R \/ OwnerOf[i] = "free"
<1>1. ASSUME NEW i \in Pieces
      PROVE  OwnerOf'[i] = IF i \in T THEN s ELSE IF i \in R THEN "free" ELSE OwnerOf[i]
  <2>1. CASE i \in T
    BY <2>1 DEF Moved, Owned
  <2>2. CASE i \notin T /\ i \in R
    BY <2>2 DEF Moved, Owned
  <2>3. CASE i \notin T /\ i \notin R
    BY <2>3, SameOwner DEF Moved
  <2> QED
    BY <2>1, <2>2, <2>3
<1> QED
  BY <1>1 DEF Moved, Owned

\* Every step of a session is a step of Ownership or leaves it unchanged.
LEMMA OutcomeOwn ==
  ASSUME Owned, Owned', NEW s \in Sessions, Outcome(s)
  PROVE  Own!Next \/ (OwnerOf' = OwnerOf /\ doneEvent' = doneEvent)
<1>0. /\ OwnerOf = [i \in Pieces |-> OwnerOf[i]]
      /\ OwnerOf' = [i \in Pieces |-> OwnerOf'[i]]
  BY DEF Owned
<1>1. CASE doneEvent' = doneEvent /\ \E R : Moved(s, R, {})
  <2>1. PICK R : Moved(s, R, {})
    BY <1>1
  <2>2. /\ \A i \in Pieces : OwnerOf'[i] = IF i \in R THEN "free" ELSE OwnerOf[i]
        /\ R \subseteq {i \in Pieces : OwnerOf[i] = s}
    BY <2>1, MovedOwners
  <2>3. OwnerOf' = [i \in Pieces |-> IF i \in R THEN "free" ELSE OwnerOf[i]]
    BY <1>0, <2>2
  <2>4. Own!Release(s, R) /\ R \in SUBSET Pieces
    BY <1>1, <2>2, <2>3 DEF Own!Release, Own!Held
  <2> QED
    BY <2>4 DEF Own!Next
<1>2. CASE doneEvent' = doneEvent /\ \E i \in Pieces : Moved(s, {}, {i})
  <2>1. PICK i \in Pieces : Moved(s, {}, {i})
    BY <1>2
  <2>2. /\ \A j \in Pieces : OwnerOf'[j] = IF j = i THEN s ELSE OwnerOf[j]
        /\ OwnerOf[i] = "free"
    BY <2>1, MovedOwners
  <2>3. OwnerOf' = [OwnerOf EXCEPT ![i] = s]
    BY <1>0, <2>2
  <2>4. Own!Take(s, i)
    BY <1>2, <2>2, <2>3 DEF Own!Take
  <2> QED
    BY <2>4 DEF Own!Next
<1>3. CASE doneEvent' = doneEvent /\ \E i, j \in Pieces : Moved(s, {i}, {j})
  <2>1. PICK i \in Pieces, j \in Pieces : Moved(s, {i}, {j})
    BY <1>3
  <2>2. /\ \A k \in Pieces : OwnerOf'[k] = IF k = j THEN s ELSE IF k = i THEN "free" ELSE OwnerOf[k]
        /\ OwnerOf[i] = s
        /\ j = i \/ OwnerOf[j] = "free"
    BY <2>1, MovedOwners
  <2>3. CASE j = i
    BY <1>0, <1>3, <2>2, <2>3
  <2>4. CASE j # i
    <3>1. OwnerOf' = [OwnerOf EXCEPT ![i] = "free", ![j] = s]
      BY <1>0, <2>2, <2>4
    <3>2. Own!Exchange(s, i, j)
      BY <1>3, <2>2, <2>4, <3>1 DEF Own!Exchange
    <3> QED
      BY <3>2 DEF Own!Next
  <2> QED
    BY <2>3, <2>4
<1>4. CASE doneEvent' = doneEvent /\ \E i : Checked(s, i)
  <2>1. PICK i : Checked(s, i)
    BY <1>4
  <2>2. OwnerOf[i] = s /\ OwnerOf'[i] = "done" /\ i \in Pieces
    BY <2>1 DEF Checked, Owned
  <2>3. \A j \in Pieces \ {i} : OwnerOf'[j] = OwnerOf[j]
    BY <2>1, SameOwner DEF Checked
  <2>4. OwnerOf' = [OwnerOf EXCEPT ![i] = "done"]
    BY <1>0, <2>2, <2>3
  <2>5. Own!Finish(s, i)
    BY <1>4, <2>2, <2>4 DEF Own!Finish
  <2> QED
    BY <2>2, <2>5 DEF Own!Next
<1>5. CASE doneEvent' = TRUE /\ IsDone(pm) /\ Moved(s, {}, {})
  <2>1. \A i \in Pieces : OwnerOf'[i] = OwnerOf[i]
    BY <1>5, MovedOwners
  <2>2. OwnerOf' = OwnerOf /\ \A i \in Pieces : OwnerOf[i] = "done"
    BY <1>0, <1>5, <2>1 DEF Owned, IsDone
  <2>3. Own!Signal
    BY <1>5, <2>2 DEF Own!Signal
  <2> QED
    BY <2>3 DEF Own!Next
<1> QED
  BY <1>1, <1>2, <1>3, <1>4, <1>5 DEF Outcome

\* Tracker and pool together implement Ownership when peers send only what they
\* are asked for: one session at a time works on a piece, only its holder gives
\* it back, what is verified stays verified, and _done_event is set only then.
THEOREM PoolImplementsOwnership ==
  ASSUME Stray = {}
  PROVE  Spec => ImplementsOwnership
<1>1. Init => Own!Init
  <2> SUFFICES ASSUME Init PROVE Own!Init
    OBVIOUS
  <2>1. OwnerOf = [i \in Pieces |-> "free"]
    BY DEF Init, PMInit, NewTracker, OwnerOf
  <2> QED
    BY <2>1 DEF Init, Own!Init
<1>2. ConfInv /\ ConfInv' /\ [Next]_vars => [Own!Next]_<<OwnerOf, doneEvent>>
  <2> SUFFICES ASSUME ConfInv, ConfInv', [Next]_vars
               PROVE  [Own!Next]_<<OwnerOf, doneEvent>>
    OBVIOUS
  <2>1. CASE UNCHANGED vars
    BY <2>1 DEF vars, OwnerOf, HoldersOf
  <2>2. CASE Next
    <3>1. PICK s \in Sessions : Outcome(s)
      BY <2>2, ConfInvStep
    <3>2. Owned
      BY OwnerIs
    <3>3. ConfInv' => Owned'
      BY OwnerIs, PTL
    <3> QED
      BY <3>1, <3>2, <3>3, OutcomeOwn
  <2> QED
    BY <2>1, <2>2
<1> QED
  BY <1>1, <1>2, ConfInvAlways, PTL DEF Spec, ImplementsOwnership, Own!Spec

=============================================================================
