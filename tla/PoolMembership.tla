--------------------------- MODULE PoolMembership ---------------------------
(***************************************************************************)
(* Who is in the pool: add_peers, the start and the end of a peer task,    *)
(* and shutdown, over _sessions, _tasks and _lock of peerPool.py.          *)
(*                                                                         *)
(* A connector is one _connect_one coroutine: one entry of a list of peers *)
(* given to add_peers.  It gives its name to the PeerSession, the          *)
(* PeerConnection and the task that it makes.                              *)
(*                                                                         *)
(*   connector  wait      the list it is in has not been given yet         *)
(*              first, second, third   waits for that lock section         *)
(*              connecting   waits in conn.connect                         *)
(*              closing   holds the lock and waits in conn.close           *)
(*              over      has returned or was cancelled                    *)
(*   task       none, new (not yet run), run, pop (_disconnect waits for   *)
(*              the lock), popped (waits in conn.close), ended             *)
(*   shutdown   no, snap (waits for the lock), gather (waits for the       *)
(*              tasks, then for the connections), clear (waits for the     *)
(*              lock), over                                                *)
(*                                                                         *)
(* asyncio.Lock is FIFO: it is taken at once when it is free and nobody    *)
(* waits, otherwise the caller queues.  It is held across an await only in *)
(* "closing"; every other section is part of the step that enters it.      *)
(* conn.close closes the transport at once and then waits for it.          *)
(***************************************************************************)
EXTENDS Integers, FiniteSets, SequencesExt

CONSTANTS
  Connectors,  \* entries of the peer lists
  Addr,        \* the address "ip:port" of each entry
  List,        \* the number of the list it is in, from 1
  MaxPeers,    \* max_peers
  NoOne

ASSUME MembershipAssumption ==
  /\ IsFiniteSet(Connectors)
  /\ DOMAIN Addr = Connectors
  /\ List \in [Connectors -> Nat]
  /\ MaxPeers \in Nat
  /\ NoOne \notin Connectors

Keys == {Addr[c] : c \in Connectors}

VARIABLES
  conn,      \* where each connector is
  task,      \* where each task is
  sessions,  \* _sessions: address -> connector, NoOne for an absent key
  tasks,     \* _tasks
  holder,    \* the connector that holds the lock across an await, or NoOne
  queue,     \* the waiters of the lock, first come first
  closed,    \* connections on which close was called
  doomed,    \* <<"conn", c>> or <<"task", c>>: cancelled, not yet delivered
  down,      \* where shutdown is
  seen       \* shutdown's snapshot: its tasks, and its sessions yet to close

vars == <<conn, task, sessions, tasks, holder, queue, closed, doomed, down, seen>>

Full   == Cardinality({k \in Keys : sessions[k] # NoOne}) >= MaxPeers
Entry(f) == {f[k] : k \in Keys} \ {NoOne}

\* The lock can be taken without waiting.
LockFree(q) == holder = NoOne /\ q = << >>

-----------------------------------------------------------------------------
(* The lock sections.  q is what remains of the queue.  The actions that run *)
(* them say what becomes of doomed.                                         *)

\* Mutant: a peer that is already connected is not skipped.
FirstSectionAnyKey(C, q) ==
  /\ conn' = [c \in Connectors |->
                IF c \notin C THEN conn[c] ELSE IF Full THEN "over" ELSE "connecting"]
  /\ queue' = q
  /\ UNCHANGED <<task, sessions, tasks, holder, closed, down, seen>>

\* The connectors C, under the lock: full or already connected returns.
FirstSection(C, q) ==
  /\ conn' = [c \in Connectors |->
                IF c \notin C THEN conn[c]
                ELSE IF Full \/ sessions[Addr[c]] # NoOne THEN "over" ELSE "connecting"]
  /\ queue' = q
  /\ UNCHANGED <<task, sessions, tasks, holder, closed, down, seen>>

\* Mutant: the limit is tested only before the connection is made.
SecondSectionUnchecked(c, q) ==
  /\ sessions' = [sessions EXCEPT ![Addr[c]] = c]
  /\ task' = [task EXCEPT ![c] = "new"]
  /\ IF LockFree(q)
       THEN tasks' = [tasks EXCEPT ![Addr[c]] = c] /\ conn' = [conn EXCEPT ![c] = "over"] /\ queue' = q
       ELSE tasks' = tasks /\ conn' = [conn EXCEPT ![c] = "third"] /\ queue' = Append(q, <<"third", c>>)
  /\ UNCHANGED <<holder, closed, down, seen>>

\* The limit is tested again; the connection is closed under the lock, or the
\* session is entered, the task created and the third section asked for.
SecondSection(c, q) ==
  \/ /\ Full
     /\ conn' = [conn EXCEPT ![c] = "closing"]
     /\ closed' = closed \cup {c}
     /\ holder' = c
     /\ queue' = q
     /\ UNCHANGED <<task, sessions, tasks, down, seen>>
  \/ /\ ~Full
     /\ sessions' = [sessions EXCEPT ![Addr[c]] = c]
     /\ task' = [task EXCEPT ![c] = "new"]
     /\ IF LockFree(q)
          THEN /\ tasks' = [tasks EXCEPT ![Addr[c]] = c]
               /\ conn' = [conn EXCEPT ![c] = "over"]
               /\ queue' = q
          ELSE /\ conn' = [conn EXCEPT ![c] = "third"]
               /\ queue' = Append(q, <<"third", c>>)
               /\ UNCHANGED tasks
     /\ UNCHANGED <<holder, closed, down, seen>>

ThirdSection(c, q) ==
  /\ tasks' = [tasks EXCEPT ![Addr[c]] = c]
  /\ conn' = [conn EXCEPT ![c] = "over"]
  /\ queue' = q
  /\ UNCHANGED <<task, sessions, holder, closed, down, seen>>

\* Mutant: the task stays in _tasks.
PopSessionOnly(c, q) ==
  /\ sessions' = [sessions EXCEPT ![Addr[c]] = NoOne]
  /\ task' = [task EXCEPT ![c] = "popped"]
  /\ closed' = closed \cup {c}
  /\ queue' = q
  /\ UNCHANGED <<conn, tasks, holder, down, seen>>

\* _disconnect drops whatever is filed under the session's address and closes
\* the connection.
PopSection(c, q) ==
  /\ sessions' = [sessions EXCEPT ![Addr[c]] = NoOne]
  /\ tasks' = [tasks EXCEPT ![Addr[c]] = NoOne]
  /\ task' = [task EXCEPT ![c] = "popped"]
  /\ closed' = closed \cup {c}
  /\ queue' = q
  /\ UNCHANGED <<conn, holder, down, seen>>

\* Mutant: only the connections of tasks that are filed are remembered.
SnapTasksOnly(q, cancelled) ==
  /\ seen' = [tasks |-> Entry(tasks), sessions |-> {}]
  /\ doomed' = cancelled \cup {<<"task", c>> : c \in {d \in Entry(tasks) : task[d] # "ended"}}
  /\ down' = "gather"
  /\ queue' = q
  /\ UNCHANGED <<conn, task, sessions, tasks, holder, closed>>

\* shutdown takes its snapshot and cancels the tasks in it.
SnapSection(q, cancelled) ==
  /\ seen' = [tasks |-> Entry(tasks), sessions |-> Entry(sessions)]
  /\ doomed' = cancelled \cup {<<"task", c>> : c \in {d \in Entry(tasks) : task[d] # "ended"}}
  /\ down' = "gather"
  /\ queue' = q
  /\ UNCHANGED <<conn, task, sessions, tasks, holder, closed>>

ClearSection(q) ==
  /\ sessions' = [k \in Keys |-> NoOne]
  /\ tasks' = [k \in Keys |-> NoOne]
  /\ down' = "over"
  /\ queue' = q
  /\ UNCHANGED <<conn, task, holder, closed, seen>>

\* The lock is not free: its caller waits.
Enqueue(waiters) ==
  /\ queue' = queue \o waiters
  /\ UNCHANGED <<sessions, tasks, holder, closed, seen>>

\* The first waiter is resumed once the lock is free, unless it was cancelled.
Grant ==
  /\ queue # << >> /\ holder = NoOne
  /\ LET w == Head(queue)
         q == Tail(queue)
     IN  \/ /\ w[1] \in {"first", "second", "third"} /\ <<"conn", w[2]>> \notin doomed
            /\ \/ w[1] = "first"  /\ FirstSection({w[2]}, q)
               \/ w[1] = "second" /\ SecondSection(w[2], q)
               \/ w[1] = "third"  /\ ThirdSection(w[2], q)
            /\ UNCHANGED doomed
         \/ /\ w[1] = "pop" /\ <<"task", w[2]>> \notin doomed
            /\ PopSection(w[2], q)
            /\ UNCHANGED doomed
         \/ w[1] = "snap" /\ SnapSection(q, doomed)
         \/ w[1] = "clear" /\ ClearSection(q) /\ UNCHANGED doomed

-----------------------------------------------------------------------------
(* Connectors *)

\* add_peers starts a coroutine for every peer of list n, once it has returned
\* from the list before.
AddPeers(n) ==
  LET C == {c \in Connectors : List[c] = n}
  IN  /\ down = "no"
      /\ C # {} /\ \A c \in C : conn[c] = "wait"
      /\ \A d \in Connectors : List[d] < n => conn[d] = "over"
      /\ IF LockFree(queue)
           THEN FirstSection(C, queue)
           ELSE /\ Enqueue(SetToSeq({<<"first", c>> : c \in C}))
                /\ conn' = [c \in Connectors |-> IF c \in C THEN "first" ELSE conn[c]]
                /\ UNCHANGED <<task, down>>
      /\ UNCHANGED doomed

\* conn.connect returns, or raises.
Connected(c) ==
  /\ conn[c] = "connecting" /\ <<"conn", c>> \notin doomed
  /\ IF LockFree(queue)
       THEN SecondSection(c, queue)
       ELSE /\ Enqueue(<< <<"second", c>> >>)
            /\ conn' = [conn EXCEPT ![c] = "second"]
            /\ UNCHANGED <<task, down>>
  /\ UNCHANGED doomed

ConnectFails(c) ==
  /\ conn[c] = "connecting" /\ <<"conn", c>> \notin doomed
  /\ conn' = [conn EXCEPT ![c] = "over"]
  /\ UNCHANGED <<task, sessions, tasks, holder, queue, closed, doomed, down, seen>>

ConnectorCloses(c) ==
  /\ conn[c] = "closing" /\ <<"conn", c>> \notin doomed
  /\ conn' = [conn EXCEPT ![c] = "over"]
  /\ holder' = NoOne
  /\ UNCHANGED <<task, sessions, tasks, queue, closed, doomed, down, seen>>

-----------------------------------------------------------------------------
(* Tasks *)

TaskStarts(c) ==
  /\ task[c] = "new" /\ <<"task", c>> \notin doomed
  /\ task' = [task EXCEPT ![c] = "run"]
  /\ UNCHANGED <<conn, sessions, tasks, holder, queue, closed, doomed, down, seen>>

\* _peer_loop has ended, by cancellation or otherwise, and _disconnect runs.
Unwind(c) ==
  IF LockFree(queue)
    THEN PopSection(c, queue)
    ELSE /\ Enqueue(<< <<"pop", c>> >>)
         /\ task' = [task EXCEPT ![c] = "pop"]
         /\ UNCHANGED <<conn, down>>

TaskEnds(c) ==
  /\ task[c] = "run" /\ <<"task", c>> \notin doomed
  /\ Unwind(c)
  /\ UNCHANGED doomed

TaskCloses(c) ==
  /\ task[c] = "popped" /\ <<"task", c>> \notin doomed
  /\ task' = [task EXCEPT ![c] = "ended"]
  /\ UNCHANGED <<conn, sessions, tasks, holder, queue, closed, doomed, down, seen>>

-----------------------------------------------------------------------------
(* Shutdown, as main calls it: the first add_peers has returned; the        *)
(* re-announcements are cancelled, and with them the connectors at work.    *)

Shutdown ==
  /\ down = "no"
  /\ \A c \in Connectors : List[c] = 1 => conn[c] = "over"
  /\ LET cancelled == {<<"conn", c>> : c \in {d \in Connectors : conn[d] \notin {"wait", "over"}}}
     IN  IF LockFree(queue)
           THEN SnapSection(queue, cancelled)
           ELSE /\ Enqueue(<< <<"snap", NoOne>> >>)
                /\ doomed' = cancelled
                /\ down' = "snap"
                /\ UNCHANGED <<conn, task>>

\* Mutant: a connector that is cancelled while it closes keeps the lock.
CancelledKeepsLock(c) ==
  /\ <<"conn", c>> \in doomed
  /\ conn' = [conn EXCEPT ![c] = "over"]
  /\ queue' = RemoveFirst(queue, <<conn[c], c>>)
  /\ doomed' = doomed \ {<<"conn", c>>}
  /\ UNCHANGED <<task, sessions, tasks, holder, closed, down, seen>>

\* CancelledError reaches a connector: it leaves the queue or the lock.
ConnectorCancelled(c) ==
  /\ <<"conn", c>> \in doomed
  /\ conn' = [conn EXCEPT ![c] = "over"]
  /\ holder' = IF holder = c THEN NoOne ELSE holder
  /\ queue' = RemoveFirst(queue, <<conn[c], c>>)
  /\ doomed' = doomed \ {<<"conn", c>>}
  /\ UNCHANGED <<task, sessions, tasks, closed, down, seen>>

\* CancelledError reaches a task: one in its loop runs _disconnect; one that
\* never ran ends at once, one that waits for the lock in _disconnect leaves it.
TaskCancelled(c) ==
  /\ <<"task", c>> \in doomed
  /\ doomed' = doomed \ {<<"task", c>>}
  /\ \/ task[c] = "run" /\ Unwind(c)
     \/ /\ task[c] \in {"new", "pop", "popped"}
        /\ task' = [task EXCEPT ![c] = "ended"]
        /\ queue' = RemoveFirst(queue, <<"pop", c>>)
        /\ UNCHANGED <<conn, sessions, tasks, holder, closed, down, seen>>

Gathered == down = "gather" /\ \A c \in seen.tasks : task[c] = "ended"

\* The tasks of the snapshot have ended; its connections are closed in turn.
ShutdownCloses(c) ==
  /\ Gathered /\ c \in seen.sessions
  /\ closed' = closed \cup {c}
  /\ seen' = [seen EXCEPT !.sessions = @ \ {c}]
  /\ UNCHANGED <<conn, task, sessions, tasks, holder, queue, doomed, down>>

ShutdownClears ==
  /\ Gathered /\ seen.sessions = {}
  /\ IF LockFree(queue)
       THEN ClearSection(queue)
       ELSE /\ Enqueue(<< <<"clear", NoOne>> >>)
            /\ down' = "clear"
            /\ UNCHANGED <<conn, task>>
  /\ UNCHANGED doomed

-----------------------------------------------------------------------------

Init ==
  /\ conn = [c \in Connectors |-> "wait"]
  /\ task = [c \in Connectors |-> "none"]
  /\ sessions = [k \in Keys |-> NoOne]
  /\ tasks = [k \in Keys |-> NoOne]
  /\ holder = NoOne
  /\ queue = << >>
  /\ closed = {}
  /\ doomed = {}
  /\ down = "no"
  /\ seen = [tasks |-> {}, sessions |-> {}]

Step(c) ==
  \/ Connected(c) \/ ConnectFails(c) \/ ConnectorCloses(c)
  \/ TaskStarts(c) \/ TaskEnds(c) \/ TaskCloses(c)
  \/ ConnectorCancelled(c) \/ TaskCancelled(c) \/ ShutdownCloses(c)

\* The process ends some time after shutdown has returned.
Finished == down = "over" /\ UNCHANGED vars

Next ==
  \/ Grant \/ Shutdown \/ ShutdownClears \/ Finished
  \/ \E n \in {List[c] : c \in Connectors} : AddPeers(n)
  \/ \E c \in Connectors : Step(c)

Spec == Init /\ [][Next]_vars

\* The event loop runs what is ready; connecting has timeouts; a closed
\* transport is reported closed, and a task reading from it ends.
FairSpec ==
  /\ Spec
  /\ WF_vars(Grant) /\ WF_vars(ShutdownClears)
  /\ \A c \in Connectors :
       /\ WF_vars(Connected(c) \/ ConnectFails(c))
       /\ WF_vars(ConnectorCloses(c))
       /\ WF_vars(TaskStarts(c) \/ TaskCloses(c))
       /\ WF_vars(c \in closed /\ TaskEnds(c))
       /\ WF_vars(ConnectorCancelled(c) \/ TaskCancelled(c))
       /\ WF_vars(ShutdownCloses(c))

-----------------------------------------------------------------------------
(* Properties *)

Live(c) == task[c] \in {"new", "run", "pop"}

\* The types, and the lock's bookkeeping: a connector waits for a section, or
\* a task for its removal, exactly if it is in the queue, and once; the lock is
\* held across an await exactly by the connector that closes under it.
MembershipTypeOK ==
  /\ conn \in [Connectors -> {"wait", "first", "connecting", "second", "closing", "third", "over"}]
  /\ task \in [Connectors -> {"none", "new", "run", "pop", "popped", "ended"}]
  /\ sessions \in [Keys -> Connectors \cup {NoOne}]
  /\ tasks \in [Keys -> Connectors \cup {NoOne}]
  /\ down \in {"no", "snap", "gather", "clear", "over"}
  /\ closed \subseteq Connectors
  /\ IsInjective(queue)
  /\ ToSet(queue) =
       {<<conn[c], c>> : c \in {d \in Connectors : conn[d] \in {"first", "second", "third"}}}
         \cup {<<"pop", c>> : c \in {d \in Connectors : task[d] = "pop"}}
         \cup (IF down \in {"snap", "clear"} THEN {<<down, NoOne>>} ELSE {})
  /\ \A c \in Connectors : conn[c] = "closing" <=> holder = c

\* Until shutdown, _sessions names a session exactly as long as its task has
\* not removed it, and _tasks names the same task, or its connector is still
\* to file it: no task is lost to shutdown and no dead one takes a place.
\* Lists without a repeated address.
RegistryExact ==
  down = "no" => \A c \in Connectors :
    /\ Live(c) <=> sessions[Addr[c]] = c
    /\ tasks[Addr[c]] = c => Live(c)
    /\ Live(c) => tasks[Addr[c]] = c \/ conn[c] = "third"

\* At most max_peers tasks are at work, however many connections of one list
\* pass the first test together.
MaxRespected == Cardinality({c \in Connectors : Live(c)}) <= MaxPeers

\* No address has two tasks at work: "already connected" peers are skipped.
NoTwins ==
  \A c, d \in Connectors : Live(c) /\ Live(d) /\ Addr[c] = Addr[d] => c = d

\* When shutdown has returned, the connection of every task ever created is
\* closed: also that of a task that its connector had not filed, of one
\* cancelled before it ran and of one cancelled within _disconnect.
ShutdownStops ==
  down = "over" => \A c \in Connectors : task[c] # "none" => c \in closed

\* shutdown returns, and in the end no task and no connector is at work: its
\* cancellations free the lock whoever holds it or waits for it.
ShutdownReturns ==
  down # "no" ~> /\ down = "over"
                 /\ \A c \in Connectors : conn[c] \in {"wait", "over"} /\ task[c] \in {"none", "ended"}

=============================================================================
