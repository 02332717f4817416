----------------------------- MODULE WireProofs -----------------------------
(***************************************************************************)
(* The invariants of a connection, for any scripts, deadlines and limits:  *)
(* timers and flags first, then the bytes of the stream and the framing.   *)
(***************************************************************************)
EXTENDS Wire, ListLemmas

\* Where the coroutine is, and the socket.
Stage ==
  /\ pc \in {"connect", "handshake", "register", "send", "header", "body", "over"}
  /\ sock \in {"none", "open", "closed"}

\* The clock of a call never runs ahead of the caller's timer.
Clock ==
  /\ mode \in Modes
  /\ waited \in Nat /\ lasted = waited
  /\ waited <= Deadline[mode]

Flags == flags \in [amInterested : BOOLEAN, peerChoking : BOOLEAN, peerInterested : BOOLEAN]

WireInv == Flags /\ Stage /\ Clock

\* Every call of receive_message starts within its limit.
LEMMA CallClock ==
  ASSUME NEW m \in Modes, Call(m)
  PROVE  Clock'
BY DeadlineAssumption DEF Call, Clock

\* A loop that goes on, or a coroutine that ends, keeps the clock.
LEMMA HandleClock ==
  ASSUME Clock, NEW m, Handle(m)
  PROVE  Clock'
<1>1. CASE Loop
  BY <1>1, CallClock DEF Loop, Modes
<1>2. CASE Call("init")
  BY <1>2, CallClock DEF Modes
<1>3. CASE Leave
  BY <1>3 DEF Leave, Clock
<1> QED
  BY <1>1, <1>2, <1>3 DEF Handle

\* Where a message that was handled leaves the coroutine.
LEMMA HandleStage ==
  ASSUME NEW m, Handle(m)
  PROVE  \/ pc' = "header" /\ sock' = sock
         \/ pc' = "over" /\ sock' = "closed"
BY DEF Handle, Loop, Call, Leave

\* A message that is returned keeps the invariant.
LEMMA ReturnInv ==
  ASSUME WireInv, NEW m, Return(m)
  PROVE  WireInv'
<1>1. Clock'
  BY HandleClock DEF Return, WireInv
<1>2. Flags'
  BY DEF Return, WireInv, Flags
<1>3. \/ pc' = "header" /\ sock' = sock
      \/ pc' = "over" /\ sock' = "closed"
  BY HandleStage DEF Return, WireInv
<1>4. Stage'
  BY <1>3 DEF WireInv, Stage
<1> QED
  BY <1>1, <1>2, <1>4 DEF WireInv

\* So does the end of the coroutine.
LEMMA LeaveInv ==
  ASSUME WireInv, Leave, UNCHANGED flags
  PROVE  WireInv'
BY DEF WireInv, Flags, Stage, Clock, Leave

\* The invariant holds when the connection object is made.
LEMMA WireStart == Init => WireInv
BY DeadlineAssumption DEF Init, WireInv, Flags, Stage, Clock, Reading, Modes

\* Every step of the connection, its reader, its peer and the clock keeps it.
LEMMA WireStep ==
  ASSUME WireInv, [Next]_vars
  PROVE  WireInv'
<1> USE DEF peerVars
<1>1. CASE Connected
  BY <1>1 DEF Connected, WireInv, Flags, Stage, Clock
<1>2. CASE Drop
  BY <1>2 DEF Drop, WireInv, Flags, Stage, Clock
<1>3. CASE HandshakeDone \/ Enter
  BY <1>3 DEF HandshakeDone, Enter, WireInv, Flags, Stage, Clock
<1>4. CASE InterestedSent
  BY <1>4 DEF InterestedSent, WireInv, Flags, Stage, Clock
<1>5. CASE Arrive \/ HangUp
  BY <1>5 DEF Arrive, HangUp, WireInv, Flags, Stage, Clock
<1>6. CASE ReadHeader
  <2>2. CASE Return(KeepAlive)
    BY <2>2, ReturnInv
  <2>3. CASE \E length : AwaitBody(length)
    BY <2>3 DEF AwaitBody, WireInv, Flags, Stage, Clock
  <2> QED
    BY <1>6, <2>2, <2>3 DEF ReadHeader
<1>7. CASE ReadBody
  <2>2. CASE Raise
    BY <2>2, LeaveInv DEF Raise
  <2>3. CASE \E m : Return(m)
    BY <2>3, ReturnInv
  <2> QED
    BY <1>7, <2>2, <2>3 DEF ReadBody
<1>8. CASE ReadEof
  BY <1>8, LeaveInv DEF ReadEof, Raise
<1>9. CASE Tick
  <2>1. waited \in Nat /\ waited < Deadline[mode] /\ Deadline[mode] \in Nat
    BY <1>9, DeadlineAssumption DEF Tick, WireInv, Clock
  <2> QED
    BY <1>9, <2>1 DEF Tick, WireInv, Flags, Stage, Clock
<1>10. CASE Timeout
  <2>2. CASE Leave
    BY <1>10, <2>2, LeaveInv DEF Timeout
  <2>3. CASE Loop
    <3>1. Clock'
      BY <2>3, CallClock DEF Loop, Modes
    <3>2. pc' = "header" /\ UNCHANGED <<sock, flags>>
      BY <1>10, <2>3 DEF Timeout, Loop, Call
    <3> QED
      BY <3>1, <3>2 DEF WireInv, Flags, Stage
  <2> QED
    BY <1>10, <2>2, <2>3 DEF Timeout
<1>11. CASE TaskEnds
  BY <1>11, LeaveInv DEF TaskEnds
<1>12. CASE Ended \/ UNCHANGED vars
  BY <1>12 DEF Ended, vars, WireInv, Flags, Stage, Clock
<1> QED
  BY <1>1, <1>2, <1>3, <1>4, <1>5, <1>6, <1>7, <1>8, <1>9, <1>10, <1>11, <1>12
  DEF Next, ConnectFails, HandshakeFails, Surplus

\* The invariant holds throughout.
LEMMA WireAlways == Spec => []WireInv
<1>1. Init => WireInv
  BY WireStart
<1>2. WireInv /\ [Next]_vars => WireInv'
  BY WireStep
<1> QED
  BY <1>1, <1>2, PTL DEF Spec

\* No call of receive_message outlasts its caller's timer, whatever the three
\* timeouts of peerPool.py are and wherever the peer falls silent.
THEOREM WaitsBounded == Spec => []CallBounded
<1>1. WireInv => CallBounded
  BY DEF WireInv, Clock, CallBounded
<1> QED
  BY <1>1, WireAlways, PTL

-----------------------------------------------------------------------------
(* The unchoke *)

Unchokes == {k \in DOMAIN got : got[k].id = Unchoke}

\* Before the loop no unchoke has come, and a coroutine that still waits for
\* one may get another message; the loop was entered by an unchoke in time, and
\* goes on only unchoked.
Heeded ==
  /\ \E S : got \in Seq(S)
  /\ pc \in {"connect", "handshake", "register", "send"} => mode = "init"
  /\ mode = "init" => Unchokes = {}
  /\ mode = "init" /\ pc # "over" => Len(got) < INIT_MESSAGES
  /\ mode # "init" => \E k \in Unchokes : k <= INIT_MESSAGES
  /\ mode # "init" /\ Reading => ~flags.peerChoking

\* The messages before the one returned stay.
LEMMA GotAppended ==
  ASSUME NEW S, got \in Seq(S), NEW m, got' = Append(got, m)
  PROVE  /\ \E T : got' \in Seq(T)
         /\ Len(got) \in Nat /\ Len(got') = Len(got) + 1 /\ Unchokes \subseteq 1 .. Len(got)
         /\ Unchokes' = Unchokes \cup (IF m.id = Unchoke THEN {Len(got) + 1} ELSE {})
<1> DEFINE T == S \cup {m}
<1>1. got \in Seq(T) /\ m \in T
  BY SeqMonotonic
<1> HIDE DEF T
<1>2. /\ Append(got, m) \in Seq(T) /\ Len(Append(got, m)) = Len(got) + 1
      /\ DOMAIN Append(got, m) = 1 .. Len(got) + 1 /\ DOMAIN got = 1 .. Len(got)
      /\ \A i \in 1 .. Len(got) : Append(got, m)[i] = got[i]
      /\ Append(got, m)[Len(got) + 1] = m
      /\ Len(got) \in Nat
  BY <1>1
<1>3. Unchokes' = {k \in DOMAIN got' : got'[k].id = Unchoke}
  BY DEF Unchokes
<1> QED
  BY <1>2, <1>3 DEF Unchokes

\* A message that is returned, in each of the five ways to handle it.
LEMMA ReturnHeeded ==
  ASSUME WireInv, Heeded, Reading, NEW m, Return(m)
  PROVE  Heeded'
<1>1. PICK S : got \in Seq(S)
  BY DEF Heeded
<1>2. got' = Append(got, m) /\ Handle(m)
  BY DEF Return
<1>3. /\ \E T : got' \in Seq(T)
      /\ Len(got) \in Nat /\ Len(got') = Len(got) + 1 /\ Unchokes \subseteq 1 .. Len(got)
      /\ Unchokes' = Unchokes \cup (IF m.id = Unchoke THEN {Len(got) + 1} ELSE {})
  BY <1>1, <1>2, GotAppended
<1>4. INIT_MESSAGES \in Nat /\ Choke # Unchoke
  BY WireAssumption DEF Choke, Unchoke
<1>5. /\ m.id = Unchoke => ~flags'.peerChoking
      /\ m.id \notin {Choke, Unchoke} => (flags'.peerChoking <=> flags.peerChoking)
  BY <1>4 DEF Return, WireInv, Flags
<1>6. pc # "over" /\ pc' \in {"header", "over"}
  BY HandleStage DEF Reading, Return, WireInv
<1>7. CASE mode = "init" /\ m.id = Unchoke /\ Loop
  <2>1. mode' # "init" /\ Len(got) + 1 \in Unchokes' /\ Len(got) + 1 <= INIT_MESSAGES
    BY <1>3, <1>4, <1>6, <1>7 DEF Loop, Call, Heeded
  <2> QED
    BY <1>3, <1>5, <1>6, <1>7, <2>1 DEF Heeded
<1>8. CASE mode = "init" /\ m.id # Unchoke /\ Len(got) + 1 < INIT_MESSAGES /\ Call("init")
  BY <1>3, <1>6, <1>8 DEF Heeded, Call
<1>9. CASE mode = "init" /\ m.id # Unchoke /\ Leave
  BY <1>3, <1>6, <1>9 DEF Heeded, Leave
<1>10. CASE mode # "init" /\ m.id = Choke /\ Leave
  BY <1>3, <1>6, <1>10 DEF Heeded, Leave, Reading
<1>11. CASE mode # "init" /\ m.id # Choke /\ Loop
  <2>1. mode' # "init" /\ ~flags'.peerChoking
    BY <1>5, <1>11 DEF Heeded, Loop, Call
  <2> QED
    BY <1>3, <1>6, <1>11, <2>1 DEF Heeded
<1> QED
  BY <1>2, <1>7, <1>8, <1>9, <1>10, <1>11 DEF Handle

\* Steps that return no message: the mode stays, or one loop follows another.
LEMMA SilentHeeded ==
  ASSUME Heeded, got' = got, flags'.peerChoking <=> flags.peerChoking,
         \/ mode' = mode /\ (pc' = "over" \/ pc' = pc \/ (pc # "over" /\ mode = "init"))
         \/ mode' = mode /\ pc' \in {"header", "body"} /\ Reading
         \/ mode # "init" /\ mode' # "init" /\ Reading /\ pc' = "header"
  PROVE  Heeded'
<1>1. Unchokes' = Unchokes
  BY DEF Unchokes
<1> QED
  BY <1>1 DEF Heeded, Reading

\* Nothing was received at the start.
LEMMA HeededInit == Init => Heeded
<1> SUFFICES ASSUME Init PROVE Heeded
  OBVIOUS
<1>1. got = << >> /\ got \in Seq({}) /\ Len(got) = 0 /\ DOMAIN got = {}
  BY DEF Init
<1> QED
  BY <1>1, WireAssumption DEF Init, Heeded, Unchokes, Reading

\* Every step.
LEMMA HeededNext ==
  ASSUME WireInv, Heeded, [Next]_vars
  PROVE  Heeded'
<1> USE DEF peerVars
<1>1. CASE Drop \/ Connected \/ HandshakeDone \/ Enter \/ InterestedSent
  <2>1. Drop \/ (mode = "init" /\ pc # "over")
    BY <1>1 DEF Connected, HandshakeDone, Enter, InterestedSent, Heeded
  <2>2. flags'.peerChoking <=> flags.peerChoking
    BY <1>1 DEF Drop, Connected, HandshakeDone, Enter, InterestedSent, WireInv, Flags
  <2> QED
    BY <1>1, <2>1, <2>2, SilentHeeded DEF Drop, Connected, HandshakeDone, Enter, InterestedSent
<1>2. CASE Arrive \/ HangUp \/ Tick
  BY <1>2, SilentHeeded DEF Arrive, HangUp, Tick
<1>3. CASE ReadHeader
  <2>1. Reading
    BY <1>3 DEF ReadHeader, Reading
  <2>2. CASE Return(KeepAlive)
    BY <2>1, <2>2, ReturnHeeded
  <2>3. CASE \E length : AwaitBody(length)
    BY <2>1, <2>3, SilentHeeded DEF AwaitBody
  <2> QED
    BY <1>3, <2>2, <2>3 DEF ReadHeader
<1>4. CASE ReadBody
  <2>1. Reading
    BY <1>4 DEF ReadBody, Reading
  <2>2. CASE Raise
    BY <2>2, SilentHeeded DEF Raise, Leave
  <2>3. CASE \E m : Return(m)
    BY <2>1, <2>3, ReturnHeeded
  <2> QED
    BY <1>4, <2>2, <2>3 DEF ReadBody
<1>5. CASE ReadEof \/ TaskEnds
  BY <1>5, SilentHeeded DEF ReadEof, TaskEnds, Raise, Leave
<1>6. CASE Timeout
  <2>1. Reading
    BY <1>6 DEF Timeout, Starved, Reading
  <2>2. CASE Leave
    BY <1>6, <2>2, SilentHeeded DEF Timeout, Leave
  <2>3. CASE mode = "idle" /\ Loop
    BY <1>6, <2>1, <2>3, SilentHeeded DEF Timeout, Loop, Call
  <2> QED
    BY <1>6, <2>2, <2>3 DEF Timeout
<1>7. CASE Ended \/ UNCHANGED vars
  BY <1>7, SilentHeeded DEF Ended, vars
<1> QED
  BY <1>1, <1>2, <1>3, <1>4, <1>5, <1>6, <1>7
  DEF Next, ConnectFails, HandshakeFails, Surplus

\* For any peer and any number of initial messages: the loop is entered exactly
\* by an unchoke that came in time, and a choke always ends it.
THEOREM UnchokeRequired == Spec => []UnchokeHeeded
<1>1. Init => Heeded
  BY HeededInit
<1>2. WireInv /\ Heeded /\ [Next]_vars => Heeded'
  BY HeededNext
<1>3. Heeded => UnchokeHeeded
  <2> SUFFICES ASSUME Heeded PROVE UnchokeHeeded
    OBVIOUS
  <2>1. Unchokes \in SUBSET Nat
    <3>1. PICK S : got \in Seq(S)
      BY DEF Heeded
    <3>2. DOMAIN got = 1 .. Len(got) /\ Len(got) \in Nat
      BY <3>1
    <3> QED
      BY <3>2 DEF Unchokes
  <2>2. ASSUME mode # "init" PROVE Unchokes # {} /\ Min(Unchokes) <= INIT_MESSAGES
    <3>1. PICK k \in Unchokes : k <= INIT_MESSAGES
      BY <2>2 DEF Heeded
    <3>2. Min(Unchokes) \in Unchokes /\ Min(Unchokes) <= k
      BY <2>1, <3>1, MinElement
    <3>3. Min(Unchokes) \in Nat /\ k \in Nat /\ INIT_MESSAGES \in Nat
      BY <2>1, <3>2, WireAssumption
    <3> DEFINE least == Min(Unchokes)
    <3> HIDE DEF least
    <3>4. least <= INIT_MESSAGES
      BY <3>1, <3>2, <3>3 DEF least
    <3> QED
      BY <3>1, <3>4 DEF least
  <2> QED
    BY <2>2 DEF Heeded, UnchokeHeeded, Unchokes
<1> QED
  BY <1>1, <1>2, <1>3, WireAlways, PTL DEF Spec

-----------------------------------------------------------------------------
(* Encoding and decoding *)

\* A word that is packed is four bytes, and unpacks to itself.
LEMMA PackWord ==
  ASSUME NEW n \in Word
  PROVE  /\ Pack(n) \in Seq(Byte) /\ Len(Pack(n)) = 4
         /\ \A b : (\A i \in 1 .. 4 : b[i] = Pack(n)[i]) => Unpack(b) = n
<1> DEFINE a == n \div 256
           c == a \div 256
           d == c \div 256
<1>0. Pack(n) = <<d, c % 256, a % 256, n % 256>>
  BY DEF Pack
<1>1. n \in Nat /\ a \in Nat /\ c \in Nat /\ d \in Nat /\ d < 128
  <2>1. n \in Nat /\ Pack(n)[1] < 128
    BY DEF Word
  <2> QED
    BY <1>0, <2>1
<1>2. /\ n = 256 * a + (n % 256) /\ n % 256 \in Byte
      /\ a = 256 * c + (a % 256) /\ a % 256 \in Byte
      /\ c = 256 * d + (c % 256) /\ c % 256 \in Byte
      /\ d \in Byte
  <2>1. \A x \in Nat : x = 256 * (x \div 256) + (x % 256) /\ x % 256 \in Byte
    BY DEF Byte
  <2>2. d \in Byte
    <3> HIDE DEF d
    <3> QED
      BY <1>1 DEF Byte
  <2> QED
    BY <1>1, <2>1, <2>2
<1> HIDE DEF a, c, d
<1>4. Pack(n) \in Seq(Byte) /\ Len(Pack(n)) = 4
  BY <1>0, <1>2
<1>5. ASSUME NEW b, \A i \in 1 .. 4 : b[i] = Pack(n)[i]  PROVE Unpack(b) = n
  <2>1. b[1] = d /\ b[2] = c % 256 /\ b[3] = a % 256 /\ b[4] = n % 256
    BY <1>0, <1>5
  <2> QED
    BY <1>1, <1>2, <2>1 DEF Unpack
<1> QED
  BY <1>4, <1>5

\* The length of a keep-alive.
LEMMA ZeroWord == 0 \in Word
<1>1. 0 \div 256 = 0
  OBVIOUS
<1>2. Pack(0)[1] = ((0 \div 256) \div 256) \div 256
  BY DEF Pack
<1> QED
  BY <1>1, <1>2 DEF Word

\* Four bytes always unpack to a natural number.
LEMMA UnpackNat ==
  ASSUME NEW b, \A i \in 1 .. 4 : b[i] \in Byte
  PROVE  Unpack(b) \in Nat
<1>1. b[1] \in Nat /\ b[2] \in Nat /\ b[3] \in Nat /\ b[4] \in Nat
  BY DEF Byte
<1> QED
  BY <1>1 DEF Unpack

\* What follows the length of a message.
BodyLength(m) == 1 + 4 * Len(m.args) + Len(m.data)

\* Words packed one after another, each at its place.
LEMMA PackedWords ==
  ASSUME NEW args \in Seq(Word)
  PROVE  LET flat == FlattenSeq([k \in DOMAIN args |-> Pack(args[k])])
         IN  /\ flat \in Seq(Byte) /\ Len(flat) = 4 * Len(args)
             /\ \A k \in 1 .. Len(args) : \A i \in 1 .. 4 : flat[4 * (k - 1) + i] = Pack(args[k])[i]
<1> DEFINE ss == [k \in DOMAIN args |-> Pack(args[k])]
           N == Len(args)
           flat == FlattenSeq(ss)
<1>1. N \in Nat /\ DOMAIN args = 1 .. N /\ \A k \in 1 .. N : args[k] \in Word
  OBVIOUS
<1>2. \A k \in 1 .. N : ss[k] = Pack(args[k]) /\ ss[k] \in Seq(Byte) /\ Len(ss[k]) = 4
  BY <1>1, PackWord
<1>3. ss \in Seq(Seq(Byte)) /\ Len(ss) = N
  <2>1. ss \in [1 .. N -> Seq(Byte)]
    BY <1>1, <1>2
  <2> HIDE DEF ss, N
  <2> QED
    BY <1>1, <2>1, IsASeq
<1> HIDE DEF ss, N
<1>4. PICK off \in [1 .. N + 1 -> Nat] :
        /\ off[1] = 0
        /\ \A k \in 1 .. N : off[k + 1] = off[k] + Len(ss[k])
        /\ off[N + 1] = Len(flat)
        /\ \A k \in 1 .. N : \A i \in 1 .. Len(ss[k]) : flat[off[k] + i] = ss[k][i]
  <2>1. \E off \in [1 .. Len(ss) + 1 -> Nat] :
          /\ off[1] = 0
          /\ \A k \in 1 .. Len(ss) : off[k + 1] = off[k] + Len(ss[k])
          /\ off[Len(ss) + 1] = Len(flat)
          /\ \A k \in 1 .. Len(ss) : \A i \in 1 .. Len(ss[k]) : flat[off[k] + i] = ss[k][i]
    BY <1>3, FlattenPlaces, Zenon
  <2> QED
    BY <1>3, <2>1, Zenon
<1>5. flat \in Seq(Byte)
  BY <1>3, FlattenPlaces
<1> HIDE DEF flat
<1> DEFINE G == {k \in 1 .. N + 1 : off[k] = 4 * (k - 1)}
<1>6. 1 .. N + 1 \subseteq G
  <2>1. 1 \in G
    BY <1>1, <1>4
  <2>2. ASSUME NEW k \in 1 .. (N + 1) - 1, k \in G PROVE k + 1 \in G
    <3>1. k \in 1 .. N /\ k + 1 \in 1 .. N + 1
      BY <1>1
    <3>2. off[k + 1] = off[k] + 4 /\ off[k] = 4 * (k - 1)
      BY <1>2, <1>4, <2>2, <3>1
    <3> QED
      BY <3>1, <3>2
  <2>3. 1 \in Nat /\ N + 1 \in Nat
    BY <1>1
  <2> HIDE DEF G
  <2> QED
    BY <2>1, <2>2, <2>3, CountUp
<1>7. Len(flat) = 4 * N
  <2>1. N + 1 \in 1 .. N + 1
    BY <1>1
  <2>2. off[N + 1] = 4 * ((N + 1) - 1)
    BY <1>6, <2>1
  <2> QED
    BY <1>1, <1>4, <2>2
<1>8. ASSUME NEW k \in 1 .. N, NEW i \in 1 .. 4 PROVE flat[4 * (k - 1) + i] = Pack(args[k])[i]
  <2>1. k \in 1 .. N + 1
    BY <1>1
  <2>2. off[k] = 4 * (k - 1)
    BY <1>6, <2>1
  <2>3. flat[off[k] + i] = ss[k][i]
    BY <1>2, <1>4
  <2> QED
    BY <1>2, <2>2, <2>3
<1> QED
  BY <1>5, <1>7, <1>8 DEF flat, N, ss

\* The bytes of a message, place by place.
LEMMA EncodePlaces ==
  ASSUME NEW m, Sendable(m), m # KeepAlive
  PROVE  /\ Encode(m) \in Seq(Byte) /\ Len(Encode(m)) = 4 + BodyLength(m)
         /\ BodyLength(m) \in Word /\ BodyLength(m) > 0
         /\ \A i \in 1 .. 4 : Encode(m)[i] = Pack(BodyLength(m))[i]
         /\ Encode(m)[5] = m.id
         /\ \A k \in 1 .. Len(m.args) : \A i \in 1 .. 4 : Encode(m)[5 + 4 * (k - 1) + i] = Pack(m.args[k])[i]
         /\ \A i \in 1 .. Len(m.data) : Encode(m)[5 + 4 * Len(m.args) + i] = m.data[i]
<1> DEFINE flat == FlattenSeq([k \in DOMAIN m.args |-> Pack(m.args[k])])
           body == <<m.id>> \o flat \o m.data
           N == Len(m.args)
           D == Len(m.data)
           L == BodyLength(m)
<1>1. m.id \in Byte /\ m.args \in Seq(Word) /\ m.data \in Seq(Byte) /\ L \in Word
  BY DEF Sendable, BodyLength
<1>2. N \in Nat /\ D \in Nat /\ L = 1 + 4 * N + D
  BY <1>1 DEF BodyLength
<1>3. /\ flat \in Seq(Byte) /\ Len(flat) = 4 * N
      /\ \A k \in 1 .. N : \A i \in 1 .. 4 : flat[4 * (k - 1) + i] = Pack(m.args[k])[i]
  BY <1>1, PackedWords
<1>4. Pack(L) \in Seq(Byte) /\ Len(Pack(L)) = 4
  BY <1>1, PackWord
<1> HIDE DEF flat, N, D, L
<1>5. \A a, b \in Seq(Byte) :
        /\ a \o b \in Seq(Byte) /\ Len(a \o b) = Len(a) + Len(b)
        /\ \A i \in 1 .. Len(a) : (a \o b)[i] = a[i]
        /\ \A i \in 1 .. Len(b) : (a \o b)[Len(a) + i] = b[i]
  OBVIOUS
<1> DEFINE front == <<m.id>> \o flat
<1>6. <<m.id>> \in Seq(Byte) /\ Len(<<m.id>>) = 1 /\ <<m.id>>[1] = m.id
  BY <1>1
<1>7. /\ front \in Seq(Byte) /\ Len(front) = 1 + 4 * N
      /\ front[1] = m.id
      /\ \A i \in 1 .. 4 * N : front[1 + i] = flat[i]
  <2> DEFINE one == <<m.id>>
  <2>1. one \in Seq(Byte) /\ Len(one) = 1 /\ one[1] = m.id /\ 1 \in 1 .. 1
    BY <1>6
  <2> HIDE DEF one
  <2>2. /\ one \o flat \in Seq(Byte) /\ Len(one \o flat) = Len(one) + Len(flat)
        /\ \A i \in 1 .. Len(one) : (one \o flat)[i] = one[i]
        /\ \A i \in 1 .. Len(flat) : (one \o flat)[Len(one) + i] = flat[i]
    BY <1>3, <1>5, <2>1
  <2> QED
    BY <1>3, <2>1, <2>2, Zenon DEF one, front
<1> HIDE DEF front
<1>8. /\ body \in Seq(Byte) /\ Len(body) = L
      /\ body[1] = m.id
      /\ \A i \in 1 .. 4 * N : body[1 + i] = flat[i]
      /\ \A i \in 1 .. D : body[1 + 4 * N + i] = m.data[i]
  <2>1. body = front \o m.data
    BY DEF front
  <2>2. /\ front \o m.data \in Seq(Byte) /\ Len(front \o m.data) = Len(front) + D
        /\ \A i \in 1 .. Len(front) : (front \o m.data)[i] = front[i]
        /\ \A i \in 1 .. D : (front \o m.data)[Len(front) + i] = m.data[i]
    BY <1>1, <1>5, <1>7 DEF D
  <2>3. 1 \in 1 .. Len(front) /\ \A i \in 1 .. 4 * N : 1 + i \in 1 .. Len(front)
    BY <1>2, <1>7
  <2>4. Len(front) + D = L
    BY <1>2, <1>7
  <2> QED
    BY <1>7, <2>1, <2>2, <2>3, <2>4
<1> HIDE DEF body
<1>9. Encode(m) = Pack(L) \o body
  BY <1>8 DEF Encode, body, flat
<1>10. /\ Encode(m) \in Seq(Byte) /\ Len(Encode(m)) = 4 + L
       /\ \A i \in 1 .. 4 : Encode(m)[i] = Pack(L)[i]
       /\ \A i \in 1 .. L : Encode(m)[4 + i] = body[i]
  <2> DEFINE p == Pack(L)
  <2>1. p \in Seq(Byte) /\ Len(p) = 4
    BY <1>4
  <2> HIDE DEF p
  <2>2. /\ p \o body \in Seq(Byte) /\ Len(p \o body) = Len(p) + Len(body)
        /\ \A i \in 1 .. Len(p) : (p \o body)[i] = p[i]
        /\ \A i \in 1 .. Len(body) : (p \o body)[Len(p) + i] = body[i]
    BY <1>5, <1>8, <2>1
  <2> QED
    BY <1>8, <1>9, <2>1, <2>2, Zenon DEF p
<1>11. Encode(m)[5] = m.id
  <2>1. 1 \in 1 .. L /\ 4 + 1 = 5
    BY <1>2
  <2> QED
    BY <1>8, <1>10, <2>1
<1>12. ASSUME NEW k \in 1 .. N, NEW i \in 1 .. 4
       PROVE  Encode(m)[5 + 4 * (k - 1) + i] = Pack(m.args[k])[i]
  <2> DEFINE j == 4 * (k - 1) + i
  <2>1. j \in 1 .. 4 * N /\ 1 + j \in 1 .. L /\ 4 + (1 + j) = 5 + 4 * (k - 1) + i
    BY <1>2
  <2>2. flat[j] = Pack(m.args[k])[i]
    BY <1>3
  <2> HIDE DEF j
  <2> QED
    BY <1>8, <1>10, <2>1, <2>2
<1>13. ASSUME NEW i \in 1 .. D PROVE Encode(m)[5 + 4 * N + i] = m.data[i]
  <2> DEFINE j == 1 + 4 * N + i
  <2>1. j \in 1 .. L /\ 4 + j = 5 + 4 * N + i
    BY <1>2
  <2>2. body[j] = m.data[i]
    BY <1>8
  <2> HIDE DEF j
  <2> QED
    BY <1>10, <2>1, <2>2
<1>14. L > 0
  BY <1>2
<1> QED
  BY <1>1, <1>10, <1>11, <1>12, <1>13, <1>14 DEF L, N, D

\* Every message is bytes, at least four.
LEMMA EncodeBytes ==
  ASSUME NEW m, Sendable(m)
  PROVE  Encode(m) \in Seq(Byte) /\ Len(Encode(m)) \in Nat /\ Len(Encode(m)) >= 4
<1>1. CASE m = KeepAlive
  <2>1. Encode(m) = Pack(0) /\ 0 \in Word
    BY <1>1, ZeroWord DEF Encode
  <2>2. Pack(0) \in Seq(Byte) /\ Len(Pack(0)) = 4
    BY <2>1, PackWord
  <2>3. 4 \in Nat /\ 4 >= 4
    OBVIOUS
  <2> QED
    BY <2>1, <2>2, <2>3, Zenon
<1>2. CASE m # KeepAlive
  <2>1. Encode(m) \in Seq(Byte) /\ Len(Encode(m)) = 4 + BodyLength(m) /\ BodyLength(m) \in Word
    BY <1>2, EncodePlaces
  <2> HIDE DEF BodyLength
  <2> QED
    BY <2>1 DEF Word
<1> QED
  BY <1>1, <1>2

\* A cut of a list, place by place.
LEMMA CutPlaces ==
  ASSUME NEW S, NEW s \in Seq(S), NEW a \in Nat, NEW n \in Nat, a + n <= Len(s)
  PROVE  LET cut == SubSeq(s, a + 1, a + n)
         IN  /\ cut \in Seq(S) /\ Len(cut) = n
             /\ \A i \in 1 .. n : cut[i] = s[a + i]
<1>1. Len(s) \in Nat /\ \A i \in 1 .. Len(s) : s[i] \in S
  OBVIOUS
<1> DEFINE cut == SubSeq(s, a + 1, a + n)
<1>2. cut = [i \in 1 .. n |-> s[a + i]]
  <2>1. SubSeq(s, a + 1, a + n) = [i \in 1 .. ((a + n) - (a + 1)) + 1 |-> s[((a + 1) + i) - 1]]
    OBVIOUS
  <2>2. ((a + n) - (a + 1)) + 1 = n /\ \A i \in 1 .. n : ((a + 1) + i) - 1 = a + i
    OBVIOUS
  <2> QED
    BY <2>1, <2>2
<1>3. \A i \in 1 .. n : a + i \in 1 .. Len(s)
  BY <1>1
<1>4. cut \in [1 .. n -> S]
  BY <1>1, <1>2, <1>3
<1>5. cut \in Seq(S) /\ Len(cut) = n
  <2> HIDE DEF cut
  <2> QED
    BY <1>4, IsASeq
<1> QED
  BY <1>2, <1>5

\* The payload p holds the fields and the data of m.
Carries(p, m) ==
  /\ p \in Seq(Byte) /\ Len(p) = 4 * Len(m.args) + Len(m.data)
  /\ \A k \in 1 .. Len(m.args) : \A i \in 1 .. 4 : p[4 * (k - 1) + i] = Pack(m.args[k])[i]
  /\ \A i \in 1 .. Len(m.data) : p[4 * Len(m.args) + i] = m.data[i]

\* What decode_message makes of the bytes after the length of a message that was
\* encoded: that message, or none where the length does not fit the fields.
LEMMA DecodeEncoded ==
  ASSUME NEW m, Sendable(m), m # KeepAlive, NEW p, Carries(p, m)
  PROVE  Decode(m.id, p) \in {m, Malformed}
<1> DEFINE N == Len(m.args)
           D == Len(m.data)
           W == Words(m.id)
<1>1. /\ m \in [id : Byte, args : Seq(Word), data : Seq(Byte)]
      /\ N = W \/ 4 * N + D < 4 * W
      /\ m.id \in Choke .. NotInterested => m.data = << >>
  BY DEF Sendable
<1>2. /\ N \in Nat /\ D \in Nat /\ W \in {0, 1, 2, 3}
      /\ m.id \in Nat /\ m.args \in Seq(Word) /\ m.data \in Seq(Byte)
  <2>1. m.id \in Byte /\ m.args \in Seq(Word) /\ m.data \in Seq(Byte)
    BY <1>1
  <2>2. W \in {0, 1, 2, 3}
    BY DEF Words
  <2>3. N \in Nat /\ D \in Nat
    BY <2>1, LenProperties
  <2> HIDE DEF N, D, W
  <2>4. m.id \in Nat
    <3>1. Byte \subseteq Nat
      BY DEF Byte
    <3> QED
      BY <2>1, <3>1
  <2> QED
    BY <2>1, <2>2, <2>3, <2>4
<1> SUFFICES ASSUME WellFormed(m.id, p) PROVE Decode(m.id, p) = m
  BY DEF Decode
<1>3. /\ m.id \in 0 .. 8
      /\ m.id \in {Have, Request, Cancel} => Len(p) = 4 * W
      /\ m.id = Piece => Len(p) >= 8
  BY DEF WellFormed, Choke, Cancel
<1>4. /\ m.id \in {Have, Request, Cancel, Piece} \/ W = 0
      /\ m.id = Piece => W = 2
  BY DEF Words, Have, Request, Cancel, Piece
<1> HIDE DEF N, D, W
<1>5. p \in Seq(Byte) /\ Len(p) = 4 * N + D
  BY DEF N, D, Carries
<1>6. N = W
  BY <1>1, <1>2, <1>3, <1>4, <1>5
<1>7. ASSUME NEW k \in 1 .. W PROVE Unpack(SubSeq(p, 4 * k - 3, 4 * k)) = m.args[k]
  <2> DEFINE a == 4 * (k - 1)
             cut == SubSeq(p, a + 1, a + 4)
  <2>1. a \in Nat /\ a + 4 <= Len(p) /\ 4 * k - 3 = a + 1 /\ 4 * k = a + 4 /\ k \in 1 .. N
    <3>1. k \in Nat /\ k >= 1 /\ k <= N
      BY <1>2, <1>6
    <3> QED
      BY <1>2, <1>5, <3>1
  <2>2. \A i \in 1 .. 4 : p[a + i] = Pack(m.args[k])[i]
    BY <2>1 DEF N, Carries
  <2>3. m.args[k] \in Word
    BY <1>2, <2>1 DEF N
  <2> HIDE DEF a
  <2>4. \A i \in 1 .. 4 : cut[i] = p[a + i]
    BY <1>5, <2>1, CutPlaces
  <2> HIDE DEF cut
  <2>5. Unpack(cut) = m.args[k]
    BY <2>2, <2>3, <2>4, PackWord
  <2> QED
    BY <2>1, <2>5 DEF cut
<1>8. [k \in 1 .. W |-> Unpack(SubSeq(p, 4 * k - 3, 4 * k))] = m.args
  <2>1. m.args = [k \in 1 .. W |-> m.args[k]]
    BY <1>2, <1>6 DEF N
  <2> QED
    BY <1>7, <2>1
<1>9. CASE m.id \in {Bitfield, Piece}
  <2> DEFINE cut == SubSeq(p, 4 * W + 1, Len(p))
  <2>1. /\ cut \in Seq(Byte) /\ Len(cut) = D
        /\ \A i \in 1 .. D : cut[i] = p[4 * W + i]
    <3>1. 4 * W \in Nat /\ 4 * W + D = Len(p) /\ 4 * W + D <= Len(p)
      BY <1>2, <1>5, <1>6
    <3> DEFINE w == 4 * W
    <3> HIDE DEF w
    <3>2. w \in Nat /\ w + D = Len(p) /\ w + D <= Len(p)
      BY <3>1, Zenon DEF w
    <3>3. LET c == SubSeq(p, w + 1, w + D)
          IN  c \in Seq(Byte) /\ Len(c) = D /\ \A i \in 1 .. D : c[i] = p[w + i]
      <4>1. p \in Seq(Byte) /\ w \in Nat /\ D \in Nat /\ w + D <= Len(p)
        BY <1>2, <1>5, <3>2
      <4> QED
        BY <4>1, CutPlaces
    <3> QED
      BY <3>2, <3>3, Zenon DEF w
  <2>2. \A i \in 1 .. D : cut[i] = m.data[i]
    BY <1>6, <2>1 DEF N, D, Carries
  <2> HIDE DEF cut
  <2>3. cut = m.data
    BY <1>2, <2>1, <2>2, SeqEqual DEF D
  <2> QED
    BY <1>1, <1>8, <1>9, <2>3 DEF Decode, Message, W, cut
<1>10. CASE m.id \notin {Bitfield, Piece}
  <2>1. m.data = << >>
    <3>1. CASE m.id \in {Have, Request, Cancel}
      <4>1. D = 0
        BY <1>2, <1>3, <1>5, <1>6, <3>1
      <4> QED
        BY <1>2, <4>1, EmptySeq DEF D
    <3>2. CASE m.id \notin {Have, Request, Cancel}
      <4>1. m.id \in Choke .. NotInterested
        BY <1>3, <1>10, <3>2 DEF Choke, NotInterested, Have, Request, Cancel, Bitfield, Piece
      <4> QED
        BY <1>1, <4>1
    <3> QED
      BY <3>1, <3>2
  <2> QED
    BY <1>1, <1>8, <1>10, <2>1 DEF Decode, Message, W
<1> QED
  BY <1>9, <1>10

-----------------------------------------------------------------------------
(* Reading in step with the peer *)

\* The bytes of a connection, and how far they have come and been read.
Bytes ==
  /\ answer \in Answers /\ script \in Scripts /\ stream \in Seq(Byte)
  /\ arrived \in Nat /\ arrived <= Len(stream)
  /\ pos \in Nat /\ pos <= arrived
  /\ need \in Nat /\ eof \in BOOLEAN

\* Where the messages of the script begin in the stream.
FrameAt(off) ==
  /\ off \in [1 .. Len(script) + 1 -> Nat]
  /\ off[1] = 0
  /\ off[Len(script) + 1] = Len(stream)
  /\ \A k \in 1 .. Len(script) : off[k + 1] = off[k] + Len(Encode(script[k]))
  /\ \A k \in 1 .. Len(script) : \A i \in 1 .. Len(Encode(script[k])) :
       stream[off[k] + i] = Encode(script[k])[i]

\* The reader stands at the beginning of the message after those it returned,
\* or behind the length of that message and knows it.
InFrame(off) ==
  /\ Len(got) <= Len(script) /\ \A i \in 1 .. Len(got) : got[i] = script[i]
  /\ pc \in {"connect", "handshake", "register", "send"} => pos = 0 /\ Len(got) = 0
  /\ pc = "header" => pos = off[Len(got) + 1]
  /\ pc = "body" =>
       /\ Len(got) < Len(script) /\ script[Len(got) + 1] # KeepAlive
       /\ need = BodyLength(script[Len(got) + 1])
       /\ pos = off[Len(got) + 1] + 4

Framed == \E off : FrameAt(off) /\ InFrame(off)

\* A script is a list of messages that can be sent.
LEMMA ScriptList ==
  ASSUME script \in Scripts
  PROVE  /\ script \in Seq(Range(script)) /\ Len(script) \in Nat
         /\ \A k \in 1 .. Len(script) : Sendable(script[k])
<1>1. script \in Seq(Range(script)) /\ \A k \in DOMAIN script : Sendable(script[k])
  BY ScriptsAssumption
<1>2. DOMAIN script = 1 .. Len(script) /\ Len(script) \in Nat
  BY <1>1, LenProperties
<1> QED
  BY <1>1, <1>2

\* The stream of a new connection.
LEMMA StreamFramed ==
  ASSUME script \in Scripts, stream = FlattenSeq([k \in DOMAIN script |-> Encode(script[k])])
  PROVE  stream \in Seq(Byte) /\ \E off : FrameAt(off)
<1> DEFINE N == Len(script)
           ss == [k \in DOMAIN script |-> Encode(script[k])]
<1>1. N \in Nat /\ DOMAIN script = 1 .. N /\ \A k \in 1 .. N : Encode(script[k]) \in Seq(Byte)
  BY ScriptList, EncodeBytes, LenProperties
<1>2. \A k \in 1 .. N : ss[k] = Encode(script[k])
  BY <1>1
<1>3. ss \in Seq(Seq(Byte)) /\ Len(ss) = N
  <2>1. ss \in [1 .. N -> Seq(Byte)]
    BY <1>1
  <2> HIDE DEF ss, N
  <2> QED
    BY <1>1, <2>1, IsASeq
<1>4. stream = FlattenSeq(ss)
  OBVIOUS
<1> HIDE DEF ss
<1>5. stream \in Seq(Byte)
  BY <1>3, <1>4, FlattenPlaces
<1> DEFINE Placed(n, flat) ==
             \E off \in [1 .. n + 1 -> Nat] :
               /\ off[1] = 0
               /\ \A k \in 1 .. n : off[k + 1] = off[k] + Len(ss[k])
               /\ off[n + 1] = Len(flat)
               /\ \A k \in 1 .. n : \A i \in 1 .. Len(ss[k]) : flat[off[k] + i] = ss[k][i]
<1>6. Placed(N, stream)
  <2>1. Placed(Len(ss), FlattenSeq(ss))
    BY <1>3, FlattenPlaces, Zenon
  <2> HIDE DEF Placed, N
  <2> QED
    BY <1>3, <1>4, <2>1
<1>7. PICK off \in [1 .. N + 1 -> Nat] :
        /\ off[1] = 0
        /\ \A k \in 1 .. N : off[k + 1] = off[k] + Len(ss[k])
        /\ off[N + 1] = Len(stream)
        /\ \A k \in 1 .. N : \A i \in 1 .. Len(ss[k]) : stream[off[k] + i] = ss[k][i]
  BY <1>6, Zenon
<1>8. FrameAt(off)
  <2>1. \A k \in 1 .. N : off[k + 1] = off[k] + Len(Encode(script[k]))
    BY <1>2, <1>7
  <2>2. \A k \in 1 .. N : \A i \in 1 .. Len(Encode(script[k])) : stream[off[k] + i] = Encode(script[k])[i]
    BY <1>2, <1>7
  <2> QED
    BY <1>7, <2>1, <2>2 DEF FrameAt
<1> QED
  BY <1>5, <1>8

\* Where the next message lies.
LEMMA NextMessage ==
  ASSUME Bytes, NEW off, FrameAt(off), NEW k \in 1 .. Len(script)
  PROVE  /\ Sendable(script[k])
         /\ off[k] \in Nat /\ off[k + 1] = off[k] + Len(Encode(script[k]))
         /\ off[k + 1] <= Len(stream)
         /\ \A i \in 1 .. Len(Encode(script[k])) : stream[off[k] + i] = Encode(script[k])[i]
<1> DEFINE N == Len(script)
<1>1. N \in Nat /\ \A j \in 1 .. N : Sendable(script[j]) /\ Len(Encode(script[j])) \in Nat
  BY ScriptList, EncodeBytes DEF Bytes
<1>2. /\ off \in [1 .. N + 1 -> Nat] /\ off[N + 1] = Len(stream)
      /\ \A j \in 1 .. N : off[j + 1] = off[j] + Len(Encode(script[j]))
  BY DEF FrameAt
<1> HIDE DEF N
<1>3. off[k + 1] <= off[N + 1]
  <2> DEFINE G == {j \in k + 1 .. N + 1 : off[k + 1] <= off[j]}
  <2>0. k + 1 \in Nat /\ N + 1 \in Nat /\ k + 1 \in k + 1 .. N + 1 /\ N + 1 \in k + 1 .. N + 1
    BY <1>1 DEF N
  <2>1. k + 1 \in G
    <3>1. k + 1 \in 1 .. N + 1
      BY <1>1, <2>0
    <3>2. off[k + 1] \in Nat
      BY <1>2, <3>1
    <3> QED
      BY <2>0, <3>2
  <2>2. ASSUME NEW j \in k + 1 .. (N + 1) - 1, j \in G PROVE j + 1 \in G
    <3>1. j \in 1 .. N /\ j + 1 \in k + 1 .. N + 1 /\ j \in 1 .. N + 1 /\ k + 1 \in 1 .. N + 1
      BY <1>1, <2>0
    <3>2. off[j + 1] = off[j] + Len(Encode(script[j])) /\ Len(Encode(script[j])) \in Nat
      BY <1>1, <1>2, <3>1
    <3>3. off[j] \in Nat /\ off[k + 1] \in Nat /\ off[k + 1] <= off[j]
      BY <1>2, <2>2, <3>1
    <3> QED
      BY <3>1, <3>2, <3>3
  <2>3. k + 1 .. N + 1 \subseteq G
    <3> HIDE DEF G
    <3> QED
      BY <2>0, <2>1, <2>2, CountUp
  <2> QED
    BY <2>0, <2>3
<1>4. k \in 1 .. N + 1 /\ k \in 1 .. N
  BY <1>1 DEF N
<1> QED
  BY <1>1, <1>2, <1>3, <1>4 DEF FrameAt, N

\* A header that can be read is the length of the message after those returned.
LEMMA HeaderRead ==
  ASSUME Bytes, Len(got) \in Nat, NEW off, FrameAt(off), InFrame(off), pc = "header", Buffered >= 4
  PROVE  LET k == Len(got) + 1
             length == Unpack(SubSeq(stream, pos + 1, pos + 4))
         IN  /\ k \in 1 .. Len(script)
             /\ script[k] = KeepAlive => length = 0 /\ off[k + 1] = pos + 4
             /\ script[k] # KeepAlive => length = BodyLength(script[k]) /\ length > 0
<1> DEFINE k == Len(got) + 1
           cut == SubSeq(stream, pos + 1, pos + 4)
<1>1. pos = off[k] /\ pos \in Nat /\ pos + 4 <= Len(stream) /\ Len(stream) \in Nat
  <2>1. pos = off[k]
    BY DEF InFrame
  <2> QED
    BY <2>1 DEF Bytes, Buffered
<1>2. Len(script) \in Nat /\ Len(got) <= Len(script)
  BY ScriptList DEF Bytes, InFrame
<1>3. k \in 1 .. Len(script)
  <2>1. k # Len(script) + 1
    <3>1. off[Len(script) + 1] = Len(stream)
      BY DEF FrameAt
    <3> QED
      BY <1>1, <3>1
  <2> QED
    BY <1>2, <2>1
<1> DEFINE m == script[k]
<1>4. /\ Sendable(m) /\ off[k + 1] = pos + Len(Encode(m))
      /\ \A i \in 1 .. Len(Encode(m)) : stream[pos + i] = Encode(m)[i]
  BY <1>1, <1>3, NextMessage
<1>5. \A i \in 1 .. 4 : cut[i] = stream[pos + i]
  <2>1. stream \in Seq(Byte) /\ 4 \in Nat
    BY DEF Bytes
  <2>2. pos \in Nat /\ pos + 4 <= Len(stream)
    BY <1>1
  <2>3. LET c == SubSeq(stream, pos + 1, pos + 4)
        IN  c \in Seq(Byte) /\ Len(c) = 4 /\ \A i \in 1 .. 4 : c[i] = stream[pos + i]
    BY <2>1, <2>2, CutPlaces, Zenon
  <2> QED
    BY <2>3
<1>6. Len(Encode(m)) \in Nat /\ Len(Encode(m)) >= 4
  BY <1>4, EncodeBytes
<1> HIDE DEF k, m, cut
<1>7. \A i \in 1 .. 4 : cut[i] = Encode(m)[i]
  BY <1>4, <1>5, <1>6
<1>8. CASE m = KeepAlive
  <2>1. Encode(m) = Pack(0)
    BY <1>8 DEF Encode
  <2>2. Unpack(cut) = 0 /\ Len(Encode(m)) = 4
    BY <1>7, <2>1, PackWord, ZeroWord
  <2> QED
    BY <1>3, <1>4, <1>8, <2>2 DEF k, m, cut
<1>9. CASE m # KeepAlive
  <2>1. /\ BodyLength(m) \in Word /\ BodyLength(m) > 0
        /\ \A i \in 1 .. 4 : Encode(m)[i] = Pack(BodyLength(m))[i]
    BY <1>4, <1>9, EncodePlaces
  <2>2. Unpack(cut) = BodyLength(m)
    BY <1>7, <2>1, PackWord
  <2> QED
    BY <1>3, <1>9, <2>1, <2>2 DEF k, m, cut
<1> QED
  BY <1>8, <1>9

\* A body that can be read is that message, or one that does not decode.
LEMMA BodyRead ==
  ASSUME Bytes, Len(got) \in Nat, NEW off, FrameAt(off), InFrame(off), pc = "body"
  PROVE  LET k == Len(got) + 1
         IN  /\ k \in 1 .. Len(script)
             /\ Decode(stream[pos + 1], SubSeq(stream, pos + 2, pos + need)) \in {script[k], Malformed}
             /\ off[k + 1] = pos + need
<1> DEFINE k == Len(got) + 1
           m == script[k]
           N == Len(m.args)
           D == Len(m.data)
           n == 4 * N + D
<1>1. /\ Len(got) < Len(script) /\ m # KeepAlive /\ need = BodyLength(m)
      /\ pos = off[k] + 4
  BY DEF InFrame
<1>2. Len(script) \in Nat
  BY ScriptList DEF Bytes
<1>3. k \in 1 .. Len(script)
  BY <1>1, <1>2
<1>4. /\ Sendable(m) /\ off[k] \in Nat /\ off[k + 1] = off[k] + Len(Encode(m))
      /\ off[k + 1] <= Len(stream)
      /\ \A i \in 1 .. Len(Encode(m)) : stream[off[k] + i] = Encode(m)[i]
  BY <1>3, NextMessage
<1> HIDE DEF k, m
<1>5. /\ Len(Encode(m)) = 4 + BodyLength(m)
      /\ Encode(m)[5] = m.id
      /\ \A j \in 1 .. N : \A i \in 1 .. 4 : Encode(m)[5 + 4 * (j - 1) + i] = Pack(m.args[j])[i]
      /\ \A i \in 1 .. D : Encode(m)[5 + 4 * N + i] = m.data[i]
  BY <1>1, <1>4, EncodePlaces
<1>6. m.args \in Seq(Word) /\ m.data \in Seq(Byte)
  BY <1>1, <1>4 DEF Sendable
<1>7. N \in Nat /\ D \in Nat
  BY <1>6, LenProperties
<1> HIDE DEF N, D
<1>8. n \in Nat /\ BodyLength(m) = 1 + n /\ Len(Encode(m)) = 5 + n
  <2>1. BodyLength(m) = 1 + 4 * N + D
    BY DEF BodyLength, N, D
  <2>2. n \in Nat /\ 1 + 4 * N + D = 1 + n /\ 4 + (1 + n) = 5 + n
    BY <1>7
  <2> HIDE DEF n
  <2> QED
    BY <1>5, <2>1, <2>2
<1> DEFINE p == SubSeq(stream, (off[k] + 5) + 1, (off[k] + 5) + n)
<1>9. p \in Seq(Byte) /\ Len(p) = n /\ \A i \in 1 .. n : p[i] = stream[(off[k] + 5) + i]
  <2> DEFINE a == off[k] + 5
  <2>1. a \in Nat /\ a + n <= Len(stream)
    <3> HIDE DEF n
    <3> QED
      BY <1>4, <1>8
  <2>2. stream \in Seq(Byte)
    BY DEF Bytes
  <2> HIDE DEF a, n
  <2>3. LET c == SubSeq(stream, a + 1, a + n)
        IN  c \in Seq(Byte) /\ Len(c) = n /\ \A i \in 1 .. n : c[i] = stream[a + i]
    BY <1>8, <2>1, <2>2, CutPlaces
  <2> QED
    BY <2>3 DEF a
<1>10. \A i \in 1 .. n : p[i] = Encode(m)[5 + i]
  <2> SUFFICES ASSUME NEW i \in 1 .. n PROVE p[i] = Encode(m)[5 + i]
    OBVIOUS
  <2> HIDE DEF p, n
  <2>0. \A x \in Nat : 5 + i \in 1 .. 5 + n /\ x + (5 + i) = (x + 5) + i
    BY <1>8
  <2>1. 5 + i \in 1 .. Len(Encode(m)) /\ off[k] + (5 + i) = (off[k] + 5) + i
    BY <1>4, <1>8, <2>0
  <2> QED
    BY <1>4, <1>9, <2>1
<1>11. Carries(p, m)
  <2> HIDE DEF p
  <2>1. ASSUME NEW j \in 1 .. N, NEW i \in 1 .. 4 PROVE p[4 * (j - 1) + i] = Pack(m.args[j])[i]
    <3> DEFINE x == 4 * (j - 1) + i
    <3>1. x \in 1 .. n /\ 5 + x = 5 + 4 * (j - 1) + i
      BY <1>7
    <3>2. Encode(m)[5 + 4 * (j - 1) + i] = Pack(m.args[j])[i]
      BY <1>5
    <3> HIDE DEF x, n
    <3>3. p[x] = Pack(m.args[j])[i]
      BY <1>10, <3>1, <3>2
    <3> QED
      BY <3>3 DEF x
  <2>2. ASSUME NEW i \in 1 .. D PROVE p[4 * N + i] = m.data[i]
    <3> DEFINE x == 4 * N + i
    <3>1. x \in 1 .. n /\ 5 + x = 5 + 4 * N + i
      BY <1>7
    <3>2. Encode(m)[5 + 4 * N + i] = m.data[i]
      BY <1>5
    <3> HIDE DEF x, n
    <3>3. p[x] = m.data[i]
      BY <1>10, <3>1, <3>2
    <3> QED
      BY <3>3 DEF x
  <2> QED
    BY <1>9, <2>1, <2>2 DEF Carries, N, D
<1>12. stream[pos + 1] = m.id
  <2> HIDE DEF n
  <2>1. 5 \in 1 .. Len(Encode(m)) /\ pos + 1 = off[k] + 5
    BY <1>1, <1>4, <1>8
  <2> QED
    BY <1>4, <1>5, <2>1
<1>13. SubSeq(stream, pos + 2, pos + need) = p
  <2> HIDE DEF n
  <2>0. \A x \in Nat : (x + 4) + 2 = (x + 5) + 1 /\ (x + 4) + (1 + n) = (x + 5) + n
    BY <1>8
  <2>1. pos + 2 = (off[k] + 5) + 1 /\ pos + need = (off[k] + 5) + n
    BY <1>1, <1>4, <1>8, <2>0
  <2> QED
    BY <2>1
<1>14. Decode(m.id, p) \in {m, Malformed}
  <2> HIDE DEF p
  <2> QED
    BY <1>1, <1>4, <1>11, DecodeEncoded
<1>15. off[k + 1] = pos + need
  <2> HIDE DEF n
  <2>0. \A x \in Nat : x + (5 + n) = (x + 4) + (1 + n)
    BY <1>8
  <2> QED
    BY <1>1, <1>4, <1>8, <2>0
<1> HIDE DEF p, n
<1> QED
  BY <1>3, <1>12, <1>13, <1>14, <1>15 DEF k, m

\* A reader that is in step starts so, with nothing read.
LEMMA FramedInit ==
  ASSUME Init
  PROVE  Bytes /\ Framed
<1>1. /\ answer \in Answers /\ script \in Scripts /\ stream = FlattenSeq([k \in DOMAIN script |-> Encode(script[k])])
      /\ arrived = 0 /\ pos = 0 /\ need = 0 /\ eof = FALSE /\ pc = "connect" /\ got = << >>
  BY DEF Init
<1>2. stream \in Seq(Byte) /\ \E off : FrameAt(off)
  BY <1>1, StreamFramed
<1>3. Bytes
  <2>1. Len(stream) \in Nat
    BY <1>2, LenProperties
  <2>2. 0 \in Nat /\ 0 <= 0 /\ 0 <= Len(stream)
    BY <2>1
  <2> QED
    BY <1>1, <1>2, <2>2, Zenon DEF Bytes
<1>4. Len(script) \in Nat
  BY <1>1, ScriptList
<1>5. ASSUME NEW off PROVE InFrame(off)
  BY <1>1, <1>4 DEF InFrame
<1> QED
  BY <1>2, <1>3, <1>5 DEF Framed

\* What a step says of the bytes, without the rest of it.
LEMMA BytesNext ==
  ASSUME Bytes, [Next]_vars
  PROVE  Bytes'
<1> USE DEF peerVars
<1>1. CASE \/ Drop \/ Connected \/ HandshakeDone \/ Enter \/ InterestedSent
           \/ Tick \/ TaskEnds \/ ReadEof \/ HangUp
  BY <1>1 DEF Drop, Connected, HandshakeDone, Enter, InterestedSent, Tick, TaskEnds, ReadEof, HangUp, Bytes
<1>2. CASE Arrive
  BY <1>2, LenProperties DEF Arrive, Bytes
<1>3. CASE ReadHeader
  <2> DEFINE cut == SubSeq(stream, pos + 1, pos + 4)
  <2>1. /\ pos' = pos + 4 /\ Buffered >= 4 /\ UNCHANGED <<answer, script, stream, eof, arrived>>
        /\ need' = need \/ need' = Unpack(cut)
    BY <1>3 DEF ReadHeader, AwaitBody
  <2>2. stream \in Seq(Byte) /\ 4 \in Nat /\ pos \in Nat /\ pos + 4 <= arrived /\ pos + 4 <= Len(stream)
    BY <2>1, LenProperties DEF Bytes, Buffered
  <2>3. LET c == SubSeq(stream, pos + 1, pos + 4)
        IN  c \in Seq(Byte) /\ Len(c) = 4 /\ \A i \in 1 .. 4 : c[i] = stream[pos + i]
    BY <2>2, CutPlaces, Zenon
  <2>4. \A i \in 1 .. 4 : cut[i] \in Byte
    BY <2>3
  <2> HIDE DEF cut
  <2>5. Unpack(cut) \in Nat
    BY <2>4, UnpackNat
  <2> QED
    BY <2>1, <2>2, <2>5 DEF Bytes
<1>4. CASE ReadBody
  <2>1. pos' = pos + need /\ need' = 0 /\ Buffered >= need /\ UNCHANGED <<answer, script, stream, eof, arrived>>
    BY <1>4 DEF ReadBody, BodyHere
  <2> QED
    BY <2>1, LenProperties DEF Bytes, Buffered
<1>5. CASE Timeout
  BY <1>5 DEF Timeout, Bytes
<1>6. CASE Ended \/ UNCHANGED vars
  BY <1>6 DEF Ended, vars, Bytes
<1> QED
  BY <1>1, <1>2, <1>3, <1>4, <1>5, <1>6 DEF Next, ConnectFails, HandshakeFails, Surplus

\* The type invariant, for any scripts a peer can send and also when timers
\* fire within a message: a length is read from whatever four bytes come next,
\* and no read passes the bytes that have arrived.
THEOREM WireTypeCorrect == Spec => []WireTypeOK
<1>1. Init => Bytes
  BY FramedInit
<1>2. Bytes /\ [Next]_vars => Bytes'
  BY BytesNext
<1>3. WireInv /\ Bytes => WireTypeOK
  <2> SUFFICES ASSUME WireInv, Bytes PROVE WireTypeOK
    OBVIOUS
  <2>1. arrived \in 0 .. Len(stream) /\ pos \in 0 .. arrived
    BY LenProperties DEF Bytes
  <2>2. sock \in {"none", "open", "closed"}
    BY DEF WireInv, Stage
  <2> QED
    BY <2>1, <2>2 DEF WireInv, Flags, Stage, Clock, Bytes, WireTypeOK
<1> QED
  BY <1>1, <1>2, <1>3, WireAlways, PTL DEF Spec

\* The places of the messages stay.
LEMMA FrameStays ==
  ASSUME NEW off, FrameAt(off), UNCHANGED <<script, stream>>
  PROVE  FrameAt(off)'
BY DEF FrameAt

\* A step that returns nothing and leaves the reader where it stands.
LEMMA FramedSilent ==
  ASSUME Framed, UNCHANGED <<script, stream, got>>,
         \/ pc' = "over"
         \/ /\ pc \in {"connect", "handshake", "register", "send"}
            /\ pc' \in {"handshake", "register", "send", "header"} /\ pos' = pos
         \/ pc' = pc /\ UNCHANGED <<pos, need>>
         \/ pc = "header" /\ pc' = "header" /\ pos' = pos
  PROVE  Framed'
<1>1. PICK off : FrameAt(off) /\ InFrame(off)
  BY DEF Framed
<1>2. FrameAt(off)'
  BY <1>1, FrameStays
<1>3. InFrame(off)'
  <2>1. off[1] = 0
    BY <1>1 DEF FrameAt
  <2> QED
    BY <1>1, <2>1 DEF InFrame
<1> QED
  BY <1>2, <1>3 DEF Framed

\* The next message of the script is returned.
LEMMA FramedReturn ==
  ASSUME Bytes, NEW S, got \in Seq(S), NEW off, FrameAt(off), InFrame(off), Reading,
         Len(got) + 1 \in 1 .. Len(script), Return(script[Len(got) + 1]),
         pos' = off[(Len(got) + 1) + 1], UNCHANGED <<script, stream>>
  PROVE  Framed'
<1> DEFINE m == script[Len(got) + 1]
<1>1. got' = Append(got, m) /\ pc' \in {"header", "over"}
  BY DEF Return, Handle, Loop, Call, Leave
<1>2. Len(got) \in Nat /\ Len(got') = Len(got) + 1
  BY <1>1
<1>3. ASSUME NEW i \in 1 .. Len(got') PROVE got'[i] = script[i]
  <2>1. CASE i = Len(got) + 1
    BY <1>1, <2>1
  <2>2. CASE i # Len(got) + 1
    <3>1. i \in 1 .. Len(got)
      BY <1>2, <2>2
    <3>2. got'[i] = got[i]
      BY <1>1, <3>1
    <3> QED
      BY <3>1, <3>2 DEF InFrame
  <2> QED
    BY <2>1, <2>2
<1>4. Len(script) \in Nat
  BY ScriptList DEF Bytes
<1>5. InFrame(off)'
  BY <1>1, <1>2, <1>3, <1>4 DEF InFrame
<1>6. FrameAt(off)'
  BY FrameStays
<1> QED
  BY <1>5, <1>6 DEF Framed

\* Every step, if no idle timer fires between a length and its body.
LEMMA FramedNext ==
  ASSUME Prompt, Bytes, Heeded, Framed, [Next]_vars
  PROVE  Framed'
<1> USE DEF peerVars
<1>0. PICK S : got \in Seq(S)
  BY DEF Heeded
<1>1. CASE Drop \/ Connected \/ HandshakeDone \/ Enter \/ InterestedSent
  BY <1>1, FramedSilent DEF Drop, Connected, HandshakeDone, Enter, InterestedSent
<1>2. CASE Arrive \/ HangUp \/ Tick
  BY <1>2, FramedSilent DEF Arrive, HangUp, Tick
<1>3. CASE ReadHeader
  <2>1. PICK off : FrameAt(off) /\ InFrame(off)
    BY DEF Framed
  <2> DEFINE k == Len(got) + 1
             length == Unpack(SubSeq(stream, pos + 1, pos + 4))
  <2>2. /\ pc = "header" /\ Buffered >= 4 /\ pos' = pos + 4 /\ UNCHANGED <<script, stream>>
        /\ (length = 0 /\ Return(KeepAlive)) \/ (length > 0 /\ AwaitBody(length))
    BY <1>3 DEF ReadHeader
  <2>3. Len(got) \in Nat
    BY <1>0, LenProperties
  <2>4. /\ k \in 1 .. Len(script)
        /\ script[k] = KeepAlive => length = 0 /\ off[k + 1] = pos + 4
        /\ script[k] # KeepAlive => length = BodyLength(script[k]) /\ length > 0
    BY <2>1, <2>2, <2>3, HeaderRead
  <2> HIDE DEF length
  <2>5. CASE script[k] = KeepAlive
    <3>1. Return(script[k]) /\ pos' = off[k + 1]
      BY <2>2, <2>4, <2>5
    <3>2. Reading
      BY <2>2 DEF Reading
    <3> QED
      BY <1>0, <2>1, <2>2, <2>4, <3>1, <3>2, FramedReturn
  <2>6. CASE script[k] # KeepAlive
    <3>1. AwaitBody(length) /\ length = BodyLength(script[k])
      BY <2>2, <2>4, <2>6
    <3>2. pc' = "body" /\ need' = length /\ got' = got
      BY <3>1 DEF AwaitBody
    <3>3. pos = off[k]
      BY <2>1, <2>2 DEF InFrame
    <3>4. Len(got) < Len(script)
      BY <2>3, <2>4
    <3>5. InFrame(off)'
      BY <2>1, <2>2, <2>6, <3>1, <3>2, <3>3, <3>4 DEF InFrame
    <3> QED
      BY <2>1, <2>2, <3>5, FrameStays DEF Framed
  <2> QED
    BY <2>5, <2>6
<1>4. CASE ReadBody
  <2>1. PICK off : FrameAt(off) /\ InFrame(off)
    BY DEF Framed
  <2> DEFINE k == Len(got) + 1
             m == Decode(stream[pos + 1], SubSeq(stream, pos + 2, pos + need))
  <2>2. /\ pc = "body" /\ pos' = pos + need /\ UNCHANGED <<script, stream>>
        /\ (m = Malformed /\ Raise) \/ (m # Malformed /\ Return(m))
    BY <1>4 DEF ReadBody
  <2>3. Len(got) \in Nat
    BY <1>0, LenProperties
  <2>4. k \in 1 .. Len(script) /\ m \in {script[k], Malformed} /\ off[k + 1] = pos + need
    BY <2>1, <2>2, <2>3, BodyRead
  <2> HIDE DEF m
  <2>5. CASE m = Malformed
    BY <2>2, <2>5, FramedSilent DEF Raise, Leave
  <2>6. CASE m # Malformed
    <3>1. Return(script[k]) /\ pos' = off[k + 1]
      BY <2>2, <2>4, <2>6
    <3>2. Reading
      BY <2>2 DEF Reading
    <3> QED
      BY <1>0, <2>1, <2>2, <2>4, <3>1, <3>2, FramedReturn
  <2> QED
    BY <2>5, <2>6
<1>5. CASE ReadEof \/ TaskEnds
  BY <1>5, FramedSilent DEF ReadEof, TaskEnds, Raise, Leave
<1>6. CASE Timeout
  <2>1. CASE Leave
    BY <1>6, <2>1, FramedSilent DEF Timeout, Leave
  <2>2. CASE mode = "idle" /\ Loop
    <3>1. pc = "header"
      BY <1>6, <2>2 DEF Timeout, Starved
    <3> QED
      BY <1>6, <2>2, <3>1, FramedSilent DEF Timeout, Loop, Call
  <2> QED
    BY <1>6, <2>1, <2>2 DEF Timeout
<1>7. CASE Ended \/ UNCHANGED vars
  BY <1>7, FramedSilent DEF Ended, vars
<1> QED
  BY <1>1, <1>2, <1>3, <1>4, <1>5, <1>6, <1>7
  DEF Next, ConnectFails, HandshakeFails, Surplus

\* A reader in step has returned a prefix of the script.
LEMMA FramedPrefix ==
  ASSUME Bytes, Heeded, Framed
  PROVE  InStep
<1>1. PICK off : InFrame(off)
  BY DEF Framed
<1>2. PICK S : got \in Seq(S)
  BY DEF Heeded
<1> DEFINE n == Len(got)
           T == S \cup Range(script)
<1>3. Range(script) \subseteq T /\ S \subseteq T
  OBVIOUS
<1>4. script \in Seq(T) /\ got \in Seq(T) /\ n \in Nat /\ Len(script) \in Nat
  <2> HIDE DEF T
  <2> QED
    BY <1>2, <1>3, ScriptList, SeqMonotonic, LenProperties DEF Bytes
<1>5. n <= Len(script) /\ \A i \in 1 .. n : got[i] = script[i]
  BY <1>1 DEF InFrame
<1> HIDE DEF n, T
<1>6. SubSeq(got, 1, n) = SubSeq(script, 1, n)
  BY <1>4, <1>5
<1> QED
  BY <1>5, <1>6 DEF InStep, IsPrefix, n

\* For every script of messages that can be sent, wherever the segments are cut:
\* receive_message returns what the peer sent, in order, as long as no idle timer
\* fires between a length and its body.
THEOREM MessagesInStep ==
  ASSUME Prompt
  PROVE  Spec => []InStep
<1>1. Init => Bytes /\ Heeded /\ Framed
  BY FramedInit, HeededInit
<1>2. WireInv /\ Bytes /\ Heeded /\ Framed /\ [Next]_vars => Bytes' /\ Heeded' /\ Framed'
  BY BytesNext, HeededNext, FramedNext
<1>3. Bytes /\ Heeded /\ Framed => InStep
  BY FramedPrefix
<1> QED
  BY <1>1, <1>2, <1>3, WireAlways, PTL DEF Spec

=============================================================================
