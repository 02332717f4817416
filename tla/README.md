# FASTtorrent: a TLA+ verification project

FASTtorrent (`src/client`) is a BitTorrent download client on one asyncio event
loop. This directory holds TLA+ models of it, the TLC runs that check them on
small instances, and TLAPS proofs of the main invariants for every size.

    tlc -workers 2 -config PeerPool_conforming.cfg MCPeerPool     # a run
    tlapm PeerPoolProofs.tla                                      # a proof

`PROJECT.json` lists the components, the runs, the mutants (a plausible bug for
every property, which TLC must catch), the source lines of every definition, the
findings, the hazards and the theorems.

## 1. Inventory

| Component | State | Operations | Interacts with |
|---|---|---|---|
| `Piece`, `PieceManager` (`pieceManager.py`) | per piece: state, blocks by offset, byte count; `_pending`; availability per peer id | `on_peer_bitfield`, `on_peer_have`, `remove_peer`, `select_piece`, `add_block`, `mark_piece_failed` | called by every peer coroutine, no lock: calls are atomic because they never await |
| peer coroutines (`peerPool.py`: `_run_peer` .. `_disconnect`) | per session: `_in_flight`, `_active_pieces`; `_done_event` | one coroutine per peer: initial messages, request pipeline, receive, callback, release | tracker above, `PeerConnection`, the piece-complete callback |
| pool membership (`peerPool.py`: `add_peers`, `shutdown`) | `_sessions`, `_tasks`, `_lock` | connect, register, start task, unregister, cancel all | main, peer coroutines |
| `FileWriter` (`fileWriter.py`) | spans, open handles and their positions, a lock per file | `write_piece` (a thread per chunk), `read_piece`, `close` | called by main's callback |
| main (`main.py`) | `done_event`, counters, background tasks | `run_downloader`, `on_piece_complete`, re-announce loop, teardown | all of the above |
| wire protocol (`peerProtocol.py`) | stream position, peer id, choke and interest flags | handshake, `send_message`, `receive_message` | peer coroutines |
| tracker client (`trackCommunication.py`) | none between calls; in a UDP announce a socket, connection id and transaction ids | announce over HTTP and UDP (in a thread), failover | main |
| parser, bencode (`torrentFileParser.py`, `bencode.py`) | none | pure decoding and validation | main |
| statistics (`live_stats.py`) | none | formatting | main |

Hard behaviours: every `await` is a point where the other coroutines run; peers
choke, vanish, repeat themselves or lie; timeouts cancel a read half-way;
cancellation reaches a coroutine at whatever it awaits; completion, cancellation
and pending disk writes race at the end of a download. `PROJECT.json` lists these
under "hazards", each at its line.

What makes each component correct:

- *tracker*: a COMPLETE piece matches its hash whatever arrives later; `_pending`
  agrees with the states; what is missing can be requested.
- *peer coroutines*: a piece is downloaded by one session at a time and given back
  when that session ends at any await; every verified piece is handed over once;
  the download ends if a good peer stays.
- *membership*: the registries name exactly the live sessions and tasks; the limit
  holds; shutdown stops everything and returns.
- *writer*: every byte on disk is where it belongs; a write that returns is on disk;
  threads and close always end.
- *main*: what is counted is on disk; what is reported complete is on disk; the
  program ends once everything is verified.
- *wire*: `receive_message` returns the messages as they were sent; no wait is
  longer than its timer; a peer that does not unchoke is dropped.
- *tracker client*: an answer is matched to its request; all trackers are tried;
  every announce ends, and a cancelled one has no effect.
- *parser, bencode*: decode inverts encode; the hash is that of the info
  dictionary; a torrent that is accepted is one the rest can work with.

## 2. Modules

    PieceManager <- PeerPool (implements Ownership)        PoolMembership
    FileWriter   <- Download                               Wire
    Bencode <- Metainfo <- Tracker <- Startup              Encoder (extends Bencode)
    *Proofs extend the module they are about, ListLemmas has their common lemmas;
    MC* give the constants for TLC.

Coroutines interleave only where they await. A step of `PeerPool`,
`PoolMembership` and `Download` is therefore the code from one await to the next;
the awaits are the program-counter values listed at the head of each module. The
threads of `FileWriter` interleave at every lock, seek and write.

**PieceManager.** The tracker is one record `pm` (states, blocks, byte counts,
`_pending`, availability); each method is an operator from trackers to trackers,
so that a step of the pool can make several calls. `PMSpec` calls them in any
order. Bytes are abstracted to the length of a block and whether its bytes are
right; a hash matches exactly if all stored blocks together cover the piece and
are right. Sequence lengths, offsets and byte counts are those of the code. The
choice among equally rare pieces is nondeterministic: the code takes the minimum
over a set, so ties fall to the set's order of iteration.

**PeerPool.** `sess[s]` is the `PeerSession` of an address and the await its
coroutine is at (`init`, `send`, `recv`, `idle`, `write`, `closing`). Peers are
the environment: they announce, choke, unchoke, answer, may vanish at any await,
may serve damaged bytes (`Corrupt`) or send blocks nobody asked for (`Stray`).
The limit of 25 initial messages is `INIT_MESSAGES`. `handed` counts callbacks
and is the only variable without a counterpart in the code, besides the bound
`connects`.

**Ownership.** The abstract specification: pieces are free, held by one session
or done; only the holder finishes or releases; completion is signalled only when
all are done. `ImplementsOwnership` is the refinement, a piece in progress being
owned by the session that lists it.

**PoolMembership.** One connector per entry of a peer list (`_connect_one`, with
its three lock sections), the task it creates, and shutdown. The asyncio lock is
FIFO; it is held across an await only where a surplus connection is closed. The
cancellation of a coroutine is a fact (`doomed`) that is delivered later, at the
await it is at, as asyncio does. Closing a connection takes effect at once
(`writer.close()`) and is then waited for. The release of pieces in
`_disconnect` is in `PeerPool`.

**FileWriter.** Bytes are numbered through the torrent; a cell of a file holds
the byte last written there. `start` is the `global_start` of the spans; the
overlap, offset and slice arithmetic is that of `write_piece`. A job is one
`_write_chunk`: queued, in a thread, sought (holding the file's lock), then done,
failed or cancelled. The handle's position is state shared by the threads of one
file. `close` marks the writer closed and closes the handles one by one in a
thread, without the locks. A failing write may store any prefix of its chunk.
Files have distinct paths, and what a file held before the run counts as holes.

**Download.** The callback of main, the two completion events, the wait, the
teardown and Ctrl-C, over `FileWriter`. A peer task is reduced to: in its loop,
or waiting for the callback; `PeerPool` has its inside (`HandedOnce` there is why
a piece is given to the writer once here).

**Wire.** One connection: TCP connect, handshake, registration in the pool, the
Interested of the new task, and `receive_message` as a read of four bytes and a read
of as many bytes as they say. Each of these stages may fail or be given up. A
connector that ends without a session drops its connection (`Drop`): where the code
does not close it, the destructor of asyncio's `StreamWriter` does, in the Python
that `client/pyproject.toml:6` requires. `answer` is what the peer answers to the
handshake; bytes may arrive from then on. The stream consists of the
bytes that the `encode` methods of the source produce, with big-endian words, and
`Decode` is `decode_message` with its tests. Bytes arrive in segments cut anywhere.
`mode` is the caller: the wait for the unchoke (15 s), the idle branch (5 s) or
the wait for a block (30 s); time passes in ticks of five seconds. Which of the
last two the loop reaches depends on the tracker and is left open, as `PeerPool`
has it. A cancelled read takes nothing from the buffer, but a header that was read
before is gone. `Prompt` excludes the one case that breaks framing, so that
everything else can be checked (`wire_prompt`); `wire_cut` has the case.

**Bencode, Encoder.** Decoder and encoder over sequences of bytes; the decoder's
`_index` is the second argument and result of each parser. The methods of the
decoder call one another: together they are one recursive function `Parse(w)` of
what is parsed (a value, the rest of a list, the rest of a dictionary) and where. A
byte is a number that keeps the order of the ASCII codes; a dictionary key is one
letter. Blanks around a number, plus signs, underscores between digits, keys in any
order and repeated keys are accepted as the code accepts them.

**Metainfo.** `FromBytes` is `from_path` after the file is read: a torrent record,
`ParseError`, or the decoder's exception where the code lets it through. `Get` is
the `d.get(..) or d.get(..)` of the source, for which zero and the empty value
are missing; the tests that follow are those of the code, so a file length of zero
fails only because it has become missing. `InfoStart` is the search for `4:info`.

**Tracker.** `ann` is one announce: its URLs, the one it is at, those tried, what
the UDP socket has sent, and the answer. HTTP answers are bodies that are decoded
and read; a datagram is an answer to something the socket has sent, an error or
not, of some size. At any time the thread may receive any such datagram, first or
again: this is loss, delay, reordering and duplication at once. Two random
transaction ids are taken to differ.

**Startup.** `run_downloader` from the torrent file to the peers: parsing, the first
announce, `reannounce_loop`, `done_event` and the end. Cancelling an announce ends
an HTTP request; a UDP thread runs on, its result is dropped, and `asyncio.run`
waits for it. `add_peers` is a counted call here, during which sessions run and main
can be interrupted; `PoolMembership` has its inside.

## 3. Runs

| Run | Instance | Result |
|---|---|---|
| `pool_conforming` | 2 sessions that connect twice, one with damaged bytes, pipeline of 2 | `NoOrphan`, `PendingMatchesState`, `InFlightOwned`, `IdleHoldsNothing`, `HandedOnce`, `PipelineBounded`, `ImplementsOwnership` hold |
| `pool_stray` | a peer that sends unrequested blocks and announces an index outside the torrent | `NoOrphan`, `CompleteIsVerified` hold |
| `pool_live` | a steady honest seed and a flaky honest peer, fairness | `EventuallyDone` holds |
| `pool_corrupt` | the second peer has a damaged copy | `EventuallyDone` is violated (finding) |
| `members_distinct` | 5 connections in 3 lists for 2 places, fairness | `RegistryExact`, `MaxRespected`, `NoTwins`, `ShutdownStops`, `ShutdownReturns` hold |
| `members_stops` | a list has an address twice | `ShutdownStops` is violated (finding) |
| `writer_layouts` | all 28 ways to cut 5 bytes into at most 3 files, 2 threads, one failing file, fairness | `DiskRight`, `ReturnedIsOnDisk`, `ReadBack`, `Drains` hold |
| `download_any` | 2 peers, 3 pieces over 3 files (one empty), one failing file, `--max-pieces 2`, Ctrl-C, fairness | `CountedOnDisk`, `CompleteUnlessCut`, `Finishes` hold |
| `download_race` | 2 peers, no limit, sound disk | `CompleteIsOnDisk` is violated (finding) |
| `wire_prompt` | 8 scripts of up to 7 messages, cut, delayed, malformed, closed at any byte, `INIT_MESSAGES` 3, fairness | `InStep`, `UnchokeHeeded`, `CallBounded`, `DroppedUnlessUnchoked`, `AllReturned` hold |
| `wire_cut` | unchoke and two Haves, the idle timer may fire anywhere | `InStep` is violated (finding) |
| `startup_any` | all files of up to 4 bytes over 11 symbols, small dictionaries, about 50 torrents, up to 3 trackers, 2 re-announcements, fairness | `Codec`, `InfoHashRight`, `TorrentUsable`, `FailsAfterAll`, `AnswerIsOwn`, `NothingAfterStop`, `AnnounceEnds` hold |

Bounds and why they are enough. Two pieces of two blocks with a short last block
and a short last piece give every case of the block arithmetic; two sessions give
every pair of coroutines, and two connections per address (`MaxConnects`) a return
after a release. `MaxActive` bounds only the run with stray blocks, where a piece
can be listed any number of times; the other runs have no such growth. Five
connectors are the fewest for which a connector waits in each of its three lock
sections. Two threads are the fewest that share a handle, and keep the executor's
queue in play. Pieces of the download span two files, lie in one, and are short.
The scripts of `wire_prompt` hold every message type, a message that does not
decode, an unchoke that is the last awaited, one that comes too late, and none. Four
bytes are the shortest texts with a sign or a leading zero in a number, or a list;
longer numbers, numbers with underscores, strings of ten bytes and dictionaries are
added by construction.
Every test of the parser has a torrent that fails it alone. Three trackers in tiers
repeat one another and include a WebSocket URL, a URL without host and an entry
that is none. A second re-announcement (`MAX_ROUNDS`) is the first that starts
from a loop that has already failed or succeeded.
`CHECK_DEADLOCK FALSE` stands where connections are bounded: when all peers have
gone for good the pool has nothing to do.

Fairness. The event loop resumes a coroutine whose await is over, and the lock is
granted to its first waiter. Waits for the network end because of timeouts: 10 s
for connect and handshake, 5 s in the idle branch, 30 s for a block; a peer that
keeps sending keep-alives escapes the last, which is why the steady peer of
`pool_live` is assumed to answer. The steady peer is connected because main
re-announces. Threads run and the executor empties its queue. A task reading from a
closed transport ends, as the stream reports end of file. In `Wire` what was sent
arrives unless the peer closes, and timers fire; in `Startup` an announce is only
assumed to time out (15 s for HTTP, 5 s for each datagram), never to be answered.
No fairness is assumed
for chokes, losses, announcements, ends of tasks, Ctrl-C, failures of the disk or,
in `Download`, for the verification of pieces.

## 4. Proofs

All are for every value of the constants that satisfies the named assumptions; some
have a hypothesis of their own, given with them. TLC agrees with the inductive
invariants on the instances of the runs.

**Tracker.** `TrackerCorrect` (PieceManagerProofs): `PMSpec => [](PMTypeOK /\
PendingMatchesState /\ CompleteIsVerified)`. `CompleteIsVerified` is not inductive:
a late block overwrites stored bytes. `Counted` is added (a COMPLETE piece has all
its bytes counted), so `add_block` always verifies again.

**Pool, arbitrary peers** (PeerPoolProofs).

- `PoolCorrect`: `Spec => [](PoolTypeOK /\ PendingMatchesState /\
  CompleteIsVerified /\ NoOrphan)`, for any number of sessions and any pipeline
  depth. The tracker's lemmas are per method and are cited for steps that make
  several calls. The strengthening says that a session that is gone holds nothing
  and that the message counter stays below its limit. `PoolTyped` and `PoolSynced`
  are its parts about types and `_pending`.
- `PipelineRespected`: `PipelineBounded`, also for a peer that sends what nobody
  asked for: a block can only take a request off the pipeline.

**Pool, conforming peers** (PeerPoolProofs; hypothesis `Stray = {}`: no peer
sends a block it was not asked for. Damaged bytes, chokes and losses remain). The
invariant `ConfInv` says: the byte count of a piece is the size of what its stored
blocks cover, and a piece in progress lacks a block (`Whole`); a session lists
pieces in progress, each once, no two sessions the same (`Holding`, `Apart`), asks
for missing blocks of those only, and where it waits says what it holds (`Placed`);
a piece was handed on once if COMPLETE and else never (`HandedWith`). It gives

- `RequestsOwned` (`InFlightOwned`), `HandedExactlyOnce` (`HandedOnce`),
  `IdleKeepsNothing` (`IdleHoldsNothing`), and
- `PoolImplementsOwnership`: `Spec => ImplementsOwnership`. The initial state maps
  to Ownership's; for a step, `ConfInv` before and after makes the owner of a piece
  unique, and each way in which the code of a session can run on (select, receive,
  finish, release, leave) moves its pieces as `Ownership` allows.

Without the hypothesis they are false: on the instance of `pool_stray` TLC refutes
each of the three invariants.

**Membership** (PoolMembershipProofs).

- `LockExact`: `MembershipTypeOK` for any lists. `LockInv` reads the queue off the
  states of the coroutines that can wait; every waiter is there once.
- With hypothesis `DistinctLists` (no list has an address twice; `members_stops`
  shows that it is needed): `RegistryKept` (`RegistryExact`), `LimitKept`
  (`MaxRespected`), `AddressesDistinct` (`NoTwins`) and `ShutdownClosesAll`
  (`ShutdownStops`). `MemInv` adds that lists are worked on one after the other,
  so that a connector between its first and second section has its address for
  itself; that a task is filed before its own removal gets the lock, which rests
  on the lock being FIFO; and what shutdown remembers: every task that is not
  closed is in its snapshot or is cancelled by its connector.

**Writer** (FileWriterProofs).

- `WriterCorrect`: `WriterSpec => [](WriterTypeOK /\ DiskRight)`, for any layout and
  number of threads. The strengthening: at most one job has sought on a file, the
  handle stands at that job's offset, and jobs exist only for overlapping files.
  The arithmetic is in `ChunkPlaced`. `WriterTyped` is its part about types.
- `WriteReturns`: `ReturnedIsOnDisk`. That nothing of a piece falls between the
  files is a fact about the spans: the `start` of a file is the number of bytes
  before it (`SpansCount`, by taking the first file for which it fails), so every
  byte of the torrent lies in some file (`ByteInFile`) and the chunks of a piece
  cover it. Over time: a chunk that is done is stored (`DoneStored`) and no step
  takes a stored byte away (`Keeps`), which uses `DiskRight` for a cell that is
  written again.
- `ReadsBack`: `ReadBack`. `read_piece` joins the parts of the files in order; the
  k-th byte of a flattened list of parts is found in the part whose offset lies at or
  before k (`FlattenPlaces`). The offset of a file's part is the file's start, moved
  into the piece and cut at its ends, also for files outside the piece, whose parts
  are empty.

**Download** (DownloadProofs). Every step is to the writer a step of its threads, a
call, or nothing, so `DownloadDiskRight` and `Keeps` come from the writer's lemmas.
`DownInv` adds: a task waits for a piece of its own, verified and not counted;
a verified piece was given to the writer; an event is set only for its reason; main
left its wait for an event or an interruption. It gives `DownloadTyped`,
`ReportedIsOnDisk` (`CountedOnDisk`; the bytes of two pieces are disjoint, so the
sum of the sizes is the number of bytes) and `CompleteIsRight`
(`CompleteUnlessCut`).

The first form of the last property excused only failed writes. It holds with two
tasks and is false with three: one of them signals completion while the writes of
both others are cut off, and fewer pieces than the limit are on disk.
`CompleteUnlessCut` is what does hold for any number of tasks.

**Wire** (WireProofs). `WaitsBounded`: `CallBounded`, for any scripts, deadlines and
limits, with or without `Prompt`. The strengthening ties the stage of the connection
to its socket and flags, and the clock of a call to the caller's timer. `UnchokeRequired`: `UnchokeHeeded`, with the
fact that a coroutine still waiting for its unchoke has had fewer than
`INIT_MESSAGES` messages.

- `WireTypeCorrect`: `WireTypeOK`, also when timers fire within a message.
- `MessagesInStep`: `InStep`, with hypothesis `Prompt` (`wire_cut` shows that it is
  needed). `Framed` says where the reader stands: at the start of the message that
  comes after those it has returned, or behind that message's header with the length
  of its body. The start of a message is the number of bytes before it, from
  `FlattenPlaces`; the rest is that `Decode` inverts `Encode`, for all nine kinds of
  message and words below 2^31, the bound of the model, and that a message which
  does not decode ends the session.

**Startup** (StartupProofs). `Files` is any set of byte strings, so these theorems are
about the decoder on arbitrary input.

- The decoder. A recursive function of TLA+ says nothing until its recursion is known
  to be well founded. `RoundSame`: what a round makes of a place depends on later
  places only, because every accepted value ends behind its start. Solutions are then
  built from the end of the text backwards (`ParseRounds`), which gives the equations
  of `Parse` for every text. `DecodedShape` says what can come out: a number, a byte
  string, or a list or dictionary of such values.
- `TorrentsUsable`: `TorrentUsable`, from the tests of `FromBytes` on such values: a
  positive piece length, at least one piece and one file, no negative file length.
- `InfoHashIsRight`: `InfoHashRight`. An entry of the decoded dictionary stands
  somewhere in the text (`EntryPlace`), its key is spelt as the search expects
  (`KeyPlace`), so with one place to find, the search finds it. `SliceParse`: what the
  decoder accepts in a text, it accepts with the same value in the slice that begins
  and ends with it. It follows that the hashed bytes decode to the parsed value. The
  attempt showed the first form of the property false: `int()` also reads `4 :info` as
  a key of four bytes, the search passes over it, and a lone `4:info` in a comment is
  taken. The property now excludes lengths with a blank, and `startup_any` has that
  torrent.
- `StartupTypeCorrect`, `AnnounceTriesAll` (`FailsAfterAll`), `AnswersAreOwn`
  (`AnswerIsOwn`) and the action property `StopIsFinal` (`NothingAfterStop`), from
  `StartupInv`: what the torrent is (`Parsed`), which of main and the loop can be
  announcing (`Phases`), and that the URLs tried are the first ones of the torrent's
  list, in order, the list being without repetition and having exactly the usable
  URLs (`Asked`, `UrlListOf`). An announce that nobody waits for has no URLs left,
  which is why it asks no further tracker.

`ListLemmas` has what several of these need about sequences as lists: removing,
appending, queues without repetition, least and greatest elements, counting up to a
bound (`CountUp`, the induction used everywhere: take the least number for which the
claim fails), the equation of `FlattenSeq` and where its elements come from, and
recursions over a counter (`CountedRecursion`).

Assumptions: `SizeAssumption`, `CallAssumption`, `PoolAssumption`,
`MembershipAssumption`, `WriterAssumption`, `DownloadAssumption`,
`DeadlineAssumption`, `WireAssumption`, `HashLenAssumption`, `FilesAssumption`,
`RoundsAssumption`: positive sizes, depth and deadlines, types of the parameters,
finitely many connectors, and `total_length` being the sum of the file lengths, as the
property of that name computes it. `ScriptsAssumption`: a peer sends keep-alives and
messages of an identifier, words below 2^31 and bytes, that may be unknown or too short,
and whose length is such a word; Choke to NotInterested have no
payload, which the decoder would drop.

Only model-checked:

- liveness (`EventuallyDone`, `ShutdownReturns`, `Drains`, `Finishes`, `AllReturned`,
  `DroppedUnlessUnchoked`, `AnnounceEnds`), out of the prover's reach;
- `Codec`: the encoder recurses over values nested to any depth, which is induction
  over data.

Conversely `PMSpec`, `PMTypeOK` and `DiskRight` under `DownloadSpec` have no run of
their own: the theorems cover them.

## 5. Findings

1. `pool_corrupt`: after a failed hash the same session selects the piece again in
   the same step. A peer with a damaged copy keeps the last piece for ever while a
   connected seed idles, though the README promises to "prevent last-piece
   starvation".
2. `members_stops`: `_connect_one` does not look for the address again before it
   registers. A list with an address twice yields two tasks, of which `shutdown`
   stops one.
3. `download_race`: any peer task may signal completion once the last piece is
   verified; teardown cancels the task that still writes it. "Download Complete"
   is printed with the piece missing.
4. `wire_cut`: the five-second timeout of an idle session cancels `receive_message`
   also between a header and its body. The session goes on, and reads the body as
   a length: a message is lost and a keep-alive returned that nobody sent.

Seen while modelling, without a run of its own:

- `missing_blocks` looks only at offsets: after a block shorter than its slot
  nothing is left to request for an incomplete piece.
- An exception of `write_piece` is logged and dropped, the piece stays COMPLETE and
  the download is reported complete (`CompleteUnlessCut` excludes this case).
- `_disconnect` never calls `remove_peer`.
- No code closes the connection of a failed handshake, or of a connector that is
  cancelled after it; that is left to the destructor of the `StreamWriter`.
- Ctrl-C during the first announce or the first `add_peers` leaves `run_downloader`
  before the `try` whose `finally` shuts the pool down and closes the writer.
- `_compute_info_hash` takes the first `4:info` of the file, though its docstring
  speaks of the key. In a comment or an announce URL it gives another hash or lets
  the decoder's exception out of `from_path`; `InfoHashRight` is stated for files
  that have it once. A key written `4 :info` is parsed but not found.
- `entry.get(b"length") or entry.get("length")` (`torrentFileParser.py:238`) makes a
  length of zero missing, so a multi-file torrent with an empty file is rejected as
  "Invalid or missing 'length'". The test that follows is `length < 0`, and
  `test_file_writer.py:224` has 0-byte files created. `TorrentUsable` does not speak
  of empty files.
- The number of hashes is not compared with the length of the files.
- `README.md:125` calls the write to two files atomic, and teardown can cancel one
  of the two chunks. The "exponential backoff" of
  `README.md:88` is not in the code: each request is sent once.
- The interval of later announces is ignored; the first one is used throughout.
- After Ctrl-C main still prints "Download Complete", because it passes over the
  `CancelledError`.

## 6. Not modelled

The dashboard, `live_stats.py` and the command line change no state that matters.
`FileWriter`'s context managers and `close_sync` are other entries to open and
close; opening files and creating directories is I/O. The query string of an
announce and the packing of UDP requests are formatting. Wall-clock time appears
only as the ticks of `Wire`. `Startup` and `Download` share main but are not
composed: the only state they have in common is `done_event`, which `Startup` lets
happen at any time.

Simplifications inside the models:

- `Tracker`: `getaddrinfo`, which has no timer of its own, is instantaneous; that
  every announce ends is shown for name resolution that returns.
- `FileWriter`: the number of pieces follows from the total length, where the code
  takes the number of hashes, so the exceptions of `write_piece` for an index or a
  size outside the layout do not occur. A failing flush in `close`, which skips
  that handle's close, is left out, and the chunks of a piece are handed to the
  executor in the step that makes them, where `to_thread` does so one iteration later.
- `PoolMembership`: a coroutine queues for the lock whenever others wait for it, also
  if all of them are cancelled. A connector that is cancelled between the handshake
  and its second section has no task; its connection is not among those
  `ShutdownStops` speaks of.
- `Download`: shutdown stops every task, also the twin that `members_stops` shows
  it to miss.

## 7. Plan

Done: all components above, and the theorems of section 4, which state every safety
property of the runs but `Codec`. Next:

1. A repeated address in a list: what of `MaxRespected` is left without
   `DistinctLists`.
2. `Codec` for values of bounded depth, with the encoder as a function on such values.
3. Composition of `Wire` with `PeerPool`: which piece a peer is dropped with when
   its stream is out of step.
