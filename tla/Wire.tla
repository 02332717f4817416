-------------------------------- MODULE Wire --------------------------------
(***************************************************************************)
(* One PeerConnection of client/modules/peerProtocol.py and the coroutine  *)
(* of peerPool.py that reads from it: connection, handshake, framing,      *)
(* decoding, and the timeouts under which receive_message is called.       *)
(*                                                                         *)
(*   connect    conn.connect waits for the TCP connection                  *)
(*   handshake  _do_handshake waits for the peer's 68 bytes                *)
(*   register   _connect_one waits for the lock, and its task to be run    *)
(*   send       the task sends Interested                                  *)
(*   header     receive_message waits for the four bytes of a length       *)
(*   body       receive_message waits for as many bytes as that length     *)
(*   over       the coroutine has ended                                    *)
(*                                                                         *)
(* mode is the call of receive_message that waits: "init" of _peer_loop,   *)
(* and of _download_loop "idle" with nothing in flight and "busy" with     *)
(* requests in flight.  PeerPool says which of the two the loop reaches;   *)
(* here it may be either.                                                  *)
(*                                                                         *)
(* The stream is made of the bytes the code puts on the wire, with their   *)
(* widths.  Time passes in ticks of five seconds.                          *)
(***************************************************************************)
EXTENDS Integers, SequencesExt

CONSTANTS
  Scripts,        \* the message sequences a peer may send
  INIT_MESSAGES,  \* messages awaited before an unchoke (25 in the code)
  Deadline,       \* ticks each mode gives receive_message
  READ_TIMEOUT,   \* ticks receive_message gives each of its two reads
  Prompt          \* assume that the idle timer never fires within a message

Modes == {"init", "idle", "busy"}

\* The caller's timer starts first and is no longer, so the timers inside
\* receive_message never fire and need no action of their own.
ASSUME DeadlineAssumption ==
  /\ Deadline \in [Modes -> Nat \ {0}]
  /\ \A m \in Modes : Deadline[m] <= READ_TIMEOUT

ASSUME WireAssumption ==
  /\ INIT_MESSAGES \in Nat \ {0}
  /\ Prompt \in BOOLEAN

-----------------------------------------------------------------------------
(* Messages.  args are the 32-bit fields, data the bytes after them.  A word *)
(* is kept below 2^31, the largest integer TLC knows.                       *)

Choke == 0
Unchoke == 1
Interested == 2
NotInterested == 3
Have == 4
Bitfield == 5
Request == 6
Piece == 7
Cancel == 8

Message(id, args, data) == [id |-> id, args |-> args, data |-> data]
KeepAlive == Message(-1, << >>, << >>)
Malformed == Message(-2, << >>, << >>)

\* struct.pack("!I") and struct.unpack("!I").
Pack(n) ==
  LET third  == n \div 256
      second == third \div 256
  IN  <<second \div 256, second % 256, third % 256, n % 256>>

Unpack(b) == ((b[1] * 256 + b[2]) * 256 + b[3]) * 256 + b[4]

Byte == 0 .. 255
Word == {n \in Nat : Pack(n)[1] < 128}

\* encode of the message classes, with _frame.
Encode(m) ==
  LET body == <<m.id>> \o FlattenSeq([k \in DOMAIN m.args |-> Pack(m.args[k])]) \o m.data
  IN  IF m = KeepAlive THEN Pack(0) ELSE Pack(Len(body)) \o body

Words(id) == CASE id = Have              -> 1
               [] id \in {Request, Cancel} -> 3
               [] id = Piece             -> 2
               [] OTHER                  -> 0

\* Any bytes after a length are such a message: fields that are complete, or
\* fewer bytes than the fields of that id take.  Left out are bytes that follow
\* the id of a message without fields, which decode_message ignores.
Sendable(m) ==
  \/ m = KeepAlive
  \/ /\ m \in [id : Byte, args : Seq(Word), data : Seq(Byte)]
     /\ Len(m.args) = Words(m.id) \/ 4 * Len(m.args) + Len(m.data) < 4 * Words(m.id)
     /\ m.id \in Choke .. NotInterested => m.data = << >>
     /\ 1 + 4 * Len(m.args) + Len(m.data) \in Word

ASSUME ScriptsAssumption ==
  \A s \in Scripts : s \in Seq(Range(s)) /\ \A k \in DOMAIN s : Sendable(s[k])

\* Mutant: the length of a Have is not tested.
LengthUntested(id, payload) ==
  /\ id \in Choke .. Cancel
  /\ id \in {Request, Cancel} => Len(payload) = 4 * Words(id)
  /\ id = Piece => Len(payload) >= 8

\* The tests of decode_message; where one fails it raises PeerError.
WellFormed(id, payload) ==
  /\ id \in Choke .. Cancel
  /\ id \in {Have, Request, Cancel} => Len(payload) = 4 * Words(id)
  /\ id = Piece => Len(payload) >= 8

\* decode_message: messages without fields ignore what follows the id.
Decode(id, payload) ==
  IF ~WellFormed(id, payload) THEN Malformed
  ELSE Message(id,
               [k \in 1 .. Words(id) |-> Unpack(SubSeq(payload, 4 * k - 3, 4 * k))],
               IF id \in {Bitfield, Piece} THEN SubSeq(payload, 4 * Words(id) + 1, Len(payload))
                                           ELSE << >>)

-----------------------------------------------------------------------------

VARIABLES
  answer,   \* the handshake this peer answers with
  script,   \* the messages this peer sends
  stream,   \* the bytes they are sent as
  arrived,  \* how many of those are in the buffer or were read
  eof,      \* whether the peer has closed its side
  pos,      \* how many bytes were read
  pc, mode,
  need,     \* the length that was read, while in "body"
  waited,   \* ticks since the caller's timer was set
  lasted,   \* ticks since that call of receive_message was made
  got,      \* the messages returned by receive_message
  flags,    \* am_interested, peer_choking, peer_interested
  sock      \* the TCP connection: none, open, closed

peerVars == <<answer, script, stream, eof>>
vars == <<answer, script, stream, arrived, eof, pos, pc, mode, need, waited, lasted, got, flags, sock>>

Buffered == arrived - pos

\* What can differ in the 68 bytes of an answer.
Answers == [pstrlen : {18, 19}, pstr : {"BitTorrent protocol", "other"}, infoHash : {"ours", "other"}]

Init ==
  /\ answer \in Answers
  /\ script \in Scripts
  /\ stream = FlattenSeq([k \in DOMAIN script |-> Encode(script[k])])
  /\ arrived = 0 /\ eof = FALSE /\ pos = 0
  /\ pc = "connect" /\ mode = "init" /\ need = 0
  /\ waited = 0 /\ lasted = 0
  /\ got = << >>
  /\ flags = [amInterested |-> FALSE, peerChoking |-> TRUE, peerInterested |-> FALSE]
  /\ sock = "none"

-----------------------------------------------------------------------------
(* The peer and the network *)

\* Any number of bytes reaches the buffer: segments need not match messages,
\* and the first ones may come together with the answer to the handshake.
Arrive ==
  /\ sock = "open" /\ ~eof
  /\ arrived' \in arrived + 1 .. Len(stream)
  /\ UNCHANGED <<peerVars, pos, pc, mode, need, waited, lasted, got, flags, sock>>

\* The peer closes, perhaps in the middle of a message.
HangUp ==
  /\ sock = "open" /\ ~eof
  /\ eof' = TRUE
  /\ UNCHANGED <<answer, script, stream, arrived, pos, pc, mode, need, waited, lasted, got, flags, sock>>

-----------------------------------------------------------------------------
(* From connect to the first message: _connect_one, then the peer's task *)

\* _connect_one ends.  Where it does not close the connection itself it drops
\* it, and the destructor of the StreamWriter closes it.
Drop ==
  /\ pc' = "over"
  /\ sock' = IF sock = "open" THEN "closed" ELSE sock
  /\ UNCHANGED <<peerVars, arrived, pos, mode, need, waited, lasted, got, flags>>

Connected ==
  /\ pc = "connect"
  /\ sock' = "open" /\ pc' = "handshake"
  /\ UNCHANGED <<peerVars, arrived, pos, mode, need, waited, lasted, got, flags>>

\* Refused, unreachable, no answer in time, or cancelled.
ConnectFails == pc = "connect" /\ Drop

\* parse_handshake.
Parses(a) == a.pstrlen = 19 /\ a.pstr = "BitTorrent protocol"

HandshakeDone ==
  /\ pc = "handshake" /\ Parses(answer) /\ answer.infoHash = "ours"
  /\ pc' = "register"
  /\ UNCHANGED <<peerVars, arrived, pos, mode, need, waited, lasted, got, flags, sock>>

\* A wrong answer; whatever the answer, it may also be late or cut off, or the
\* wait for it cancelled.
HandshakeFails == pc = "handshake" /\ Drop

\* The pool still has a place: the session is entered and its task started.
Enter ==
  /\ pc = "register"
  /\ pc' = "send"
  /\ UNCHANGED <<peerVars, arrived, pos, mode, need, waited, lasted, got, flags, sock>>

\* The pool is full by now, or _connect_one is cancelled.
Surplus == pc = "register" /\ Drop

\* Interested is sent; am_interested is set after that.
InterestedSent ==
  /\ pc = "send"
  /\ pc' = "header"
  /\ flags' = [flags EXCEPT !.amInterested = TRUE]
  /\ UNCHANGED <<peerVars, arrived, pos, mode, need, waited, lasted, got, sock>>

-----------------------------------------------------------------------------
(* The callers of receive_message *)

\* The coroutine ends and _disconnect closes the connection.
Leave == pc' = "over" /\ sock' = "closed" /\ UNCHANGED <<mode, waited, lasted>>

\* Calls receive_message under a timer of its own.
Call(m) == pc' = "header" /\ mode' = m /\ waited' = 0 /\ lasted' = 0 /\ UNCHANGED sock

\* The next call of the download loop.
Loop == Call("idle") \/ Call("busy")

\* Mutant: any number of messages is awaited before the unchoke.
HandleUnlimited(m) ==
  \/ mode = "init" /\ m.id = Unchoke /\ Loop
  \/ mode = "init" /\ m.id # Unchoke /\ Call("init")
  \/ mode # "init" /\ m.id = Choke /\ Leave
  \/ mode # "init" /\ m.id # Choke /\ Loop

\* What becomes of a message: before the unchoke, and in the download loop.
Handle(m) ==
  \/ mode = "init" /\ m.id = Unchoke /\ Loop
  \/ mode = "init" /\ m.id # Unchoke /\ Len(got) + 1 < INIT_MESSAGES /\ Call("init")
  \/ mode = "init" /\ m.id # Unchoke /\ Len(got) + 1 >= INIT_MESSAGES /\ Leave
  \/ mode # "init" /\ m.id = Choke /\ Leave
  \/ mode # "init" /\ m.id # Choke /\ Loop

\* receive_message returns m, having updated the connection's state.
Return(m) ==
  /\ got' = Append(got, m)
  /\ flags' = [flags EXCEPT
       !.peerChoking    = IF m.id \in {Choke, Unchoke} THEN m.id = Choke ELSE @,
       !.peerInterested = IF m.id \in {Interested, NotInterested} THEN m.id = Interested ELSE @]
  /\ Handle(m)

\* receive_message raises PeerError.
Raise == Leave /\ UNCHANGED <<got, flags>>

-----------------------------------------------------------------------------
(* receive_message *)

\* Mutant: the body gets a timer of its own instead of the rest of the caller's.
AwaitBodyAnew(length) ==
  /\ pc' = "body" /\ need' = length /\ waited' = 0
  /\ UNCHANGED <<mode, lasted, got, flags, sock>>

AwaitBody(length) ==
  /\ pc' = "body" /\ need' = length
  /\ UNCHANGED <<mode, waited, lasted, got, flags, sock>>

\* Four bytes are there: a keep-alive, or the length of what follows.
ReadHeader ==
  /\ pc = "header" /\ Buffered >= 4
  /\ pos' = pos + 4
  /\ LET length == Unpack(SubSeq(stream, pos + 1, pos + 4))
     IN  \/ length = 0 /\ Return(KeepAlive) /\ UNCHANGED need
         \/ length > 0 /\ AwaitBody(length)
  /\ UNCHANGED <<peerVars, arrived>>

\* Mutants: read instead of readexactly; one byte more is waited for.
BodySome   == Buffered > 0
BodyBeyond == Buffered > need

BodyHere == Buffered >= need

ReadBody ==
  /\ pc = "body" /\ BodyHere
  /\ pos' = pos + need /\ need' = 0
  /\ LET m == Decode(stream[pos + 1], SubSeq(stream, pos + 2, pos + need))
     IN  (m = Malformed /\ Raise) \/ (m # Malformed /\ Return(m))
  /\ UNCHANGED <<peerVars, arrived>>

\* IncompleteReadError: the peer has closed and the rest will not come.
ReadEof ==
  /\ eof
  /\ (pc = "header" /\ Buffered < 4) \/ (pc = "body" /\ Buffered < need)
  /\ Raise
  /\ UNCHANGED <<peerVars, arrived, pos, need>>

Reading == pc \in {"header", "body"}

\* The read does not have what it waits for.  Prompt leaves out the case that
\* an idle caller has read a header whose body is late.
Starved ==
  /\ (pc = "header" /\ Buffered < 4) \/ (pc = "body" /\ Buffered < need)
  /\ Prompt => ~(mode = "idle" /\ pc = "body")

\* Five seconds pass in which the read does not get what it waits for.
Tick ==
  /\ Starved /\ waited < Deadline[mode]
  /\ waited' = waited + 1 /\ lasted' = lasted + 1
  /\ UNCHANGED <<peerVars, arrived, pos, pc, mode, need, got, flags, sock>>

\* Mutant: a timeout before the unchoke only starts the next round.
TimeoutRetries ==
  /\ Starved /\ waited = Deadline[mode]
  /\ (mode = "init" /\ Call("init")) \/ (mode = "idle" /\ Loop) \/ (mode = "busy" /\ Leave)
  /\ need' = 0
  /\ UNCHANGED <<peerVars, arrived, pos, got, flags>>

\* The caller's timer cancels the read.  What the read had not taken stays in
\* the buffer; a header that was read is lost.  Only the idle branch goes on.
Timeout ==
  /\ Starved /\ waited = Deadline[mode]
  /\ (mode = "idle" /\ Loop) \/ (mode # "idle" /\ Leave)
  /\ need' = 0
  /\ UNCHANGED <<peerVars, arrived, pos, got, flags>>

\* All pieces are complete, a message cannot be sent, or the task is cancelled.
TaskEnds ==
  /\ pc = "send" \/ Reading
  /\ Leave
  /\ UNCHANGED <<peerVars, arrived, pos, need, got, flags>>

-----------------------------------------------------------------------------

Ended == pc = "over" /\ UNCHANGED vars

Next ==
  \/ Connected \/ ConnectFails \/ HandshakeDone \/ HandshakeFails
  \/ Enter \/ Surplus \/ InterestedSent
  \/ Arrive \/ HangUp
  \/ ReadHeader \/ ReadBody \/ ReadEof \/ Tick \/ Timeout \/ TaskEnds
  \/ Ended

Spec == Init /\ [][Next]_vars

\* TCP delivers what was sent unless the peer closes, the event loop resumes a
\* read that has its bytes, timers fire, and the pool's lock is granted.
FairSpec ==
  /\ Spec
  /\ WF_vars(Arrive) /\ WF_vars(Connected \/ ConnectFails)
  /\ WF_vars(HandshakeDone \/ HandshakeFails)
  /\ WF_vars(Enter \/ Surplus) /\ WF_vars(InterestedSent)
  /\ WF_vars(ReadHeader \/ ReadBody \/ ReadEof) /\ WF_vars(Tick \/ Timeout)

-----------------------------------------------------------------------------
(* Properties *)

\* Types; reads never pass the bytes that have arrived.
WireTypeOK ==
  /\ answer \in Answers /\ script \in Scripts
  /\ arrived \in 0 .. Len(stream) /\ pos \in 0 .. arrived
  /\ pc \in {"connect", "handshake", "register", "send", "header", "body", "over"}
  /\ mode \in Modes
  /\ need \in Nat /\ waited \in Nat /\ lasted \in Nat
  /\ flags \in [amInterested : BOOLEAN, peerChoking : BOOLEAN, peerInterested : BOOLEAN]
  /\ sock \in {"none", "open", "closed"} /\ eof \in BOOLEAN

\* receive_message returns "the next message from the stream": what it has
\* returned is what the peer has sent, in order, nothing skipped, nothing made
\* up, wherever the segments are cut and whichever timers have fired.
InStep == IsPrefix(got, script)

\* The download loop is entered exactly by an unchoke among the first
\* INIT_MESSAGES messages, whatever came before it; after the loop is entered
\* no choke is passed over.
UnchokeHeeded ==
  LET unchokes == {k \in DOMAIN got : got[k].id = Unchoke}
  IN  /\ mode # "init" <=> unchokes # {}
      /\ mode # "init" => Min(unchokes) <= INIT_MESSAGES
      /\ mode # "init" /\ Reading => ~flags.peerChoking

\* No call of receive_message outlasts the caller's timer, also when a header
\* came and its body does not: a peer with requests in flight is dropped after
\* STALL_TIMEOUT without a message.
CallBounded == lasted <= Deadline[mode]

\* "never unchoked us, dropping": a peer that does not unchoke is dropped,
\* although each of its messages starts the timer anew, and gives its place in
\* the pool back.
DroppedUnlessUnchoked == <>(pc = "over" \/ mode # "init")

\* A peer that stays connected is heard: every message it sent is returned
\* unless the session ends.
AllReturned == <>(pc = "over" \/ got = script)
=============================================================================
