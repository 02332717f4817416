------------------------ MODULE PoolMembershipProofs ------------------------
(***************************************************************************)
(* The bookkeeping of the lock for any lists of peers; the registry, the   *)
(* limit and the shutdown for lists in which no address occurs twice.      *)
(***************************************************************************)
EXTENDS PoolMembership, ListLemmas

-----------------------------------------------------------------------------
(* The inductive invariant *)

Sections == {"first", "second", "third"}
Waiter   == ((Sections \cup {"pop"}) \X Connectors) \cup ({"snap", "clear"} \X {NoOne})

\* Who waits for the lock, read off the states of those who can.
QueueIs ==
  /\ queue \in Seq(Waiter) /\ IsInjective(queue)
  /\ \A c \in Connectors : \A l \in Sections : <<l, c>> \in ToSet(queue) <=> conn[c] = l
  /\ \A c \in Connectors : <<"pop", c>> \in ToSet(queue) <=> task[c] = "pop"
  /\ \A l \in {"snap", "clear"} : <<l, NoOne>> \in ToSet(queue) <=> down = l

\* The types without the queue.
Typed ==
  /\ conn \in [Connectors -> {"wait", "first", "connecting", "second", "closing", "third", "over"}]
  /\ task \in [Connectors -> {"none", "new", "run", "pop", "popped", "ended"}]
  /\ sessions \in [Keys -> Connectors \cup {NoOne}]
  /\ tasks \in [Keys -> Connectors \cup {NoOne}]
  /\ down \in {"no", "snap", "gather", "clear", "over"}
  /\ closed \subseteq Connectors

HolderIs == \A c \in Connectors : conn[c] = "closing" <=> holder = c

\* A connector makes its task in the second section, not before.
NoTaskYet == \A c \in Connectors : conn[c] \notin {"third", "over"} => task[c] = "none"

LockInv == Typed /\ QueueIs /\ HolderIs /\ NoTaskYet

\* No list of peers has an address twice.
DistinctLists == \A c, d \in Connectors : List[c] = List[d] /\ Addr[c] = Addr[d] => c = d

Working(c) == conn[c] \notin {"wait", "over"}

\* A list is worked on when all lists before it are done.
InOrder ==
  \A c, d \in Connectors : conn[c] # "wait" /\ List[d] < List[c] => conn[d] = "over"

\* shutdown cancels every connector at work, and tasks only with its snapshot.
Cancels ==
  /\ down = "no" => doomed = {}
  /\ down # "no" => \A c \in Connectors : Working(c) <=> <<"conn", c>> \in doomed
  /\ down \in {"no", "snap"} => \A c \in Connectors : <<"task", c>> \notin doomed

\* Until the snapshot _sessions names exactly the tasks at work.
Registered ==
  down \in {"no", "snap"} => \A c \in Connectors :
    /\ Live(c) <=> sessions[Addr[c]] = c
    /\ task[c] \in {"popped", "ended"} => c \in closed

\* Until shutdown: a task is filed while it is at work, and a connector on its
\* way to the second section has its address for itself.
Filed ==
  down = "no" => \A c \in Connectors :
    /\ tasks[Addr[c]] = c => Live(c)
    /\ Live(c) => tasks[Addr[c]] = c \/ conn[c] = "third"
    /\ conn[c] = "third" => Live(c)
    /\ conn[c] \in {"connecting", "second"} => sessions[Addr[c]] = NoOne

\* Until shutdown a task is filed before its removal gets its turn.
Ordered(q) ==
  \A c \in Connectors : \A i, j \in DOMAIN q :
    q[i] = <<"third", c>> /\ q[j] = <<"pop", c>> => i < j

FiledFirst == down = "no" => Ordered(queue)

Snapshot == [tasks : SUBSET Connectors, sessions : SUBSET Connectors]

\* What is not closed yet is in the snapshot, and then closed.
Remembered ==
  /\ seen \in Snapshot
  /\ down = "gather" =>
       \A c \in Connectors : task[c] # "none" => c \in closed \/ c \in seen.sessions
  /\ down \in {"clear", "over"} => \A c \in Connectors : task[c] # "none" => c \in closed

MemInv ==
  /\ LockInv /\ InOrder /\ Cancels /\ Registered /\ Filed /\ FiledFirst /\ Remembered
  /\ NoTwins /\ MaxRespected

-----------------------------------------------------------------------------
(* The lock *)

\* Who waits, as a set.
LEMMA QueueSet ==
  LockInv => MembershipTypeOK
<1> SUFFICES ASSUME LockInv PROVE MembershipTypeOK
  OBVIOUS
<1> DEFINE A == {<<conn[c], c>> : c \in {d \in Connectors : conn[d] \in {"first", "second", "third"}}}
           B == {<<"pop", c>> : c \in {d \in Connectors : task[d] = "pop"}}
           D == IF down \in {"snap", "clear"} THEN {<<down, NoOne>>} ELSE {}
<1>1. ToSet(queue) \subseteq Waiter
  BY DEF LockInv, QueueIs, ToSet
<1>2. ASSUME NEW w \in ToSet(queue) PROVE w \in A \cup B \cup D
  <2>1. CASE w \in Sections \X Connectors
    <3>1. PICK l \in Sections, c \in Connectors : w = <<l, c>>
      BY <2>1
    <3>2. conn[c] = l
      BY <3>1 DEF LockInv, QueueIs
    <3> QED
      BY <3>1, <3>2 DEF Sections
  <2>2. CASE w \in {"pop"} \X Connectors
    <3>1. PICK c \in Connectors : w = <<"pop", c>>
      BY <2>2
    <3> QED
      BY <3>1 DEF LockInv, QueueIs
  <2>3. CASE w \in {"snap", "clear"} \X {NoOne}
    <3>1. PICK l \in {"snap", "clear"} : w = <<l, NoOne>>
      BY <2>3
    <3> QED
      BY <3>1 DEF LockInv, QueueIs
  <2> QED
    BY <1>1, <2>1, <2>2, <2>3 DEF Waiter
<1>3. A \subseteq ToSet(queue) /\ B \subseteq ToSet(queue) /\ D \subseteq ToSet(queue)
  BY DEF LockInv, QueueIs, Sections
<1>4. ToSet(queue) = A \cup B \cup D
  BY <1>2, <1>3
<1> QED
  BY <1>4 DEF LockInv, Typed, QueueIs, HolderIs, MembershipTypeOK

\* q is the queue once h, if it was there, has left it.
Rest(q, H) == q \in Seq(Waiter) /\ IsInjective(q) /\ ToSet(q) = ToSet(queue) \ H

\* The first waiter gets its turn.
LEMMA RestHead ==
  ASSUME LockInv, queue # << >>
  PROVE  Rest(Tail(queue), {Head(queue)}) /\ Head(queue) \in Waiter /\ Head(queue) \in ToSet(queue)
<1>1. queue \in Seq(Waiter) /\ IsInjective(queue)
  BY DEF LockInv, QueueIs
<1>2. /\ Tail(queue) \in Seq(Waiter) /\ IsInjective(Tail(queue))
      /\ Head(queue) \in ToSet(queue) /\ ToSet(Tail(queue)) = ToSet(queue) \ {Head(queue)}
  BY <1>1, TailQueue
<1>3. Head(queue) \in Waiter
  BY <1>1
<1> QED
  BY <1>2, <1>3 DEF Rest

\* Somebody who does not wait gets the lock at once.
LEMMA RestFree ==
  ASSUME LockInv, NEW H, H \cap ToSet(queue) = {}
  PROVE  Rest(queue, H)
  BY DEF Rest, LockInv, QueueIs

\* The first section.
LEMMA FirstLock ==
  ASSUME LockInv, NEW C \in SUBSET Connectors, \A c \in C : conn[c] \in {"wait", "first"},
         NEW q, Rest(q, {<<"first", c>> : c \in C}), FirstSection(C, q)
  PROVE  LockInv'
<1>1. /\ task' = task /\ sessions' = sessions /\ tasks' = tasks /\ holder' = holder
      /\ closed' = closed /\ down' = down /\ queue' = q
      /\ \A c \in C : conn'[c] \in {"over", "connecting"}
      /\ \A c \in Connectors \ C : conn'[c] = conn[c]
      /\ DOMAIN conn' = Connectors
      /\ conn' \in [Connectors -> {"wait", "first", "connecting", "second", "closing", "third", "over"}]
  BY DEF FirstSection, LockInv, Typed
<1>2. Typed'
  BY <1>1 DEF LockInv, Typed
<1>3. QueueIs'
  <2>1. ASSUME NEW c \in Connectors, NEW l \in Sections
        PROVE  <<l, c>> \in ToSet(q) <=> conn'[c] = l
    <3>1. <<l, c>> \in ToSet(q) <=> <<l, c>> \in ToSet(queue) /\ ~(l = "first" /\ c \in C)
      BY DEF Rest
    <3>2. <<l, c>> \in ToSet(queue) <=> conn[c] = l
      BY DEF LockInv, QueueIs
    <3> QED
      BY <1>1, <3>1, <3>2 DEF Sections
  <2>2. \A c \in Connectors : <<"pop", c>> \in ToSet(q) <=> <<"pop", c>> \in ToSet(queue)
    BY DEF Rest
  <2>3. \A l \in {"snap", "clear"} : <<l, NoOne>> \in ToSet(q) <=> <<l, NoOne>> \in ToSet(queue)
    BY DEF Rest
  <2> QED
    BY <1>1, <2>1, <2>2, <2>3 DEF LockInv, QueueIs, Rest
<1>4. HolderIs' /\ NoTaskYet'
  BY <1>1 DEF LockInv, HolderIs, NoTaskYet
<1> QED
  BY <1>2, <1>3, <1>4 DEF LockInv

\* A waiter joins at the end.
LEMMA Joined ==
  ASSUME NEW q \in Seq(Waiter), IsInjective(q), NEW w \in Waiter, w \notin ToSet(q),
         queue' = Append(q, w)
  PROVE  queue' \in Seq(Waiter) /\ IsInjective(queue') /\ ToSet(queue') = ToSet(q) \cup {w}
<1>1. Append(q, w) \in Seq(Waiter) /\ ToSet(Append(q, w)) = ToSet(q) \cup {w}
  BY AppendSet
<1>2. IsInjective(Append(q, w))
  BY AppendQueue
<1> QED
  BY <1>1, <1>2

\* A queue that one connector has left, and perhaps joined again at its end.
LEMMA ConnectorMoves ==
  ASSUME LockInv, NEW c \in Connectors, NEW l \in Sections, conn[c] \in Sections => conn[c] = l,
         NEW q, Rest(q, {<<l, c>>}),
         NEW k \in {"connecting", "closing", "third", "over"},
         conn' = [conn EXCEPT ![c] = k],
         IF k = "third" THEN l # "third" /\ queue' = Append(q, <<"third", c>>) ELSE queue' = q,
         \A d \in Connectors : task'[d] = "pop" <=> task[d] = "pop",
         down' = down
  PROVE  QueueIs'
<1>1. /\ q \in Seq(Waiter) /\ IsInjective(q)
      /\ \A w : w \in ToSet(q) <=> w \in ToSet(queue) /\ w # <<l, c>>
  BY DEF Rest
<1>2. conn'[c] = k /\ \A d \in Connectors \ {c} : conn'[d] = conn[d]
  BY DEF LockInv, Typed
<1>3. <<"third", c>> \in Waiter
  BY DEF Waiter, Sections
<1>4. CASE k = "third"
  <2>1. <<"third", c>> \notin ToSet(q)
    BY <1>1, <1>4 DEF LockInv, QueueIs, Sections
  <2>2. /\ queue' \in Seq(Waiter) /\ IsInjective(queue')
        /\ ToSet(queue') = ToSet(q) \cup {<<"third", c>>}
    BY <1>1, <1>3, <1>4, <2>1, Joined
  <2>3. \A w : w \in ToSet(queue') <=> (w \in ToSet(queue) /\ w # <<l, c>>) \/ w = <<"third", c>>
    BY <1>1, <2>2
  <2>4. ASSUME NEW d \in Connectors, NEW j \in Sections
        PROVE  <<j, d>> \in ToSet(queue') <=> conn'[d] = j
    <3>1. <<j, d>> \in ToSet(queue) <=> conn[d] = j
      BY DEF LockInv, QueueIs
    <3> QED
      BY <1>2, <1>4, <2>3, <3>1
  <2>5. ASSUME NEW d \in Connectors
        PROVE  <<"pop", d>> \in ToSet(queue') <=> <<"pop", d>> \in ToSet(queue)
    BY <2>3 DEF Sections
  <2>6. ASSUME NEW j \in {"snap", "clear"}
        PROVE  <<j, NoOne>> \in ToSet(queue') <=> <<j, NoOne>> \in ToSet(queue)
    BY <2>3 DEF Sections
  <2> QED
    BY <2>2, <2>4, <2>5, <2>6 DEF LockInv, QueueIs
<1>5. CASE k # "third"
  <2>1. queue' = q
    BY <1>5
  <2>4. ASSUME NEW d \in Connectors, NEW j \in Sections
        PROVE  <<j, d>> \in ToSet(q) <=> conn'[d] = j
    <3>1. <<j, d>> \in ToSet(queue) <=> conn[d] = j
      BY DEF LockInv, QueueIs
    <3> QED
      BY <1>1, <1>2, <1>5, <3>1 DEF Sections
  <2>5. ASSUME NEW d \in Connectors
        PROVE  <<"pop", d>> \in ToSet(q) <=> <<"pop", d>> \in ToSet(queue)
    BY <1>1 DEF Sections
  <2>6. ASSUME NEW j \in {"snap", "clear"}
        PROVE  <<j, NoOne>> \in ToSet(q) <=> <<j, NoOne>> \in ToSet(queue)
    BY <1>1 DEF Sections
  <2> QED
    BY <1>1, <2>1, <2>4, <2>5, <2>6 DEF LockInv, QueueIs
<1> QED
  BY <1>4, <1>5

\* The second section.
LEMMA SecondLock ==
  ASSUME LockInv, NEW c \in Connectors, conn[c] \in {"connecting", "second"}, holder = NoOne,
         NEW q, Rest(q, {<<"second", c>>}), SecondSection(c, q)
  PROVE  LockInv'
<1>1. task[c] = "none" /\ Addr[c] \in Keys /\ c # NoOne
  BY MembershipAssumption DEF LockInv, NoTaskYet, Keys
<1>2. \A d \in Connectors : conn[d] # "closing"
  BY MembershipAssumption DEF LockInv, HolderIs
<1>3. "second" \in Sections /\ (conn[c] \in Sections => conn[c] = "second")
  BY DEF Sections
<1>4. PICK k \in {"closing", "third", "over"} :
        /\ conn' = [conn EXCEPT ![c] = k]
        /\ IF k = "third" THEN queue' = Append(q, <<"third", c>>) ELSE queue' = q
        /\ IF k = "closing" THEN holder' = c /\ task' = task /\ closed' = closed \cup {c}
                            ELSE holder' = holder /\ task' = [task EXCEPT ![c] = "new"] /\ closed' = closed
        /\ sessions' = sessions \/ sessions' = [sessions EXCEPT ![Addr[c]] = c]
        /\ tasks' = tasks \/ tasks' = [tasks EXCEPT ![Addr[c]] = c]
        /\ down' = down
  BY DEF SecondSection
<1>5. conn'[c] = k /\ \A d \in Connectors \ {c} : conn'[d] = conn[d]
  BY <1>4 DEF LockInv, Typed
<1>6. /\ k # "closing" => task'[c] = "new"
      /\ k = "closing" => task'[c] = "none"
      /\ \A d \in Connectors \ {c} : task'[d] = task[d]
  BY <1>1, <1>4 DEF LockInv, Typed
<1>7. Typed'
  <2>1. conn' \in [Connectors -> {"wait", "first", "connecting", "second", "closing", "third", "over"}]
    BY <1>4 DEF LockInv, Typed
  <2>2. task' \in [Connectors -> {"none", "new", "run", "pop", "popped", "ended"}]
    BY <1>4 DEF LockInv, Typed
  <2>3. sessions' \in [Keys -> Connectors \cup {NoOne}] /\ tasks' \in [Keys -> Connectors \cup {NoOne}]
    BY <1>4 DEF LockInv, Typed
  <2> QED
    BY <1>4, <2>1, <2>2, <2>3 DEF LockInv, Typed
<1>8. QueueIs'
  <2>1. \A d \in Connectors : task'[d] = "pop" <=> task[d] = "pop"
    BY <1>1, <1>6
  <2>2. /\ IF k = "third" THEN "second" # "third" /\ queue' = Append(q, <<"third", c>>) ELSE queue' = q
        /\ k \in {"connecting", "closing", "third", "over"}
        /\ conn' = [conn EXCEPT ![c] = k] /\ down' = down
    BY <1>4
  <2> QED
    BY <1>3, <2>1, <2>2, ConnectorMoves, Zenon
<1>9. HolderIs'
  BY <1>1, <1>2, <1>4, <1>5 DEF LockInv, HolderIs
<1>10. NoTaskYet'
  BY <1>5, <1>6 DEF LockInv, NoTaskYet
<1> QED
  BY <1>7, <1>8, <1>9, <1>10 DEF LockInv

\* The third section.
LEMMA ThirdLock ==
  ASSUME LockInv, NEW c \in Connectors, conn[c] = "third",
         NEW q, Rest(q, {<<"third", c>>}), ThirdSection(c, q)
  PROVE  LockInv'
<1>1. /\ conn' = [conn EXCEPT ![c] = "over"] /\ tasks' = [tasks EXCEPT ![Addr[c]] = c]
      /\ task' = task /\ sessions' = sessions /\ holder' = holder /\ closed' = closed
      /\ down' = down /\ queue' = q
  BY DEF ThirdSection
<1>2. conn'[c] = "over" /\ \A d \in Connectors \ {c} : conn'[d] = conn[d]
  BY <1>1 DEF LockInv, Typed
<1>3. Typed'
  BY <1>1 DEF LockInv, Typed
<1>4. QueueIs'
  BY <1>1, ConnectorMoves DEF Sections
<1>5. HolderIs' /\ NoTaskYet'
  BY <1>1, <1>2 DEF LockInv, HolderIs, NoTaskYet
<1> QED
  BY <1>3, <1>4, <1>5 DEF LockInv

\* A task leaves the queue, or was not in it, and no longer waits.
LEMMA TaskMoves ==
  ASSUME LockInv, NEW c \in Connectors, NEW q, Rest(q, {<<"pop", c>>}),
         NEW k \in {"run", "popped", "ended"}, task[c] # "none",
         task' = [task EXCEPT ![c] = k], queue' = q, conn' = conn, holder' = holder,
         down' = down, closed' \in SUBSET Connectors,
         sessions' \in [Keys -> Connectors \cup {NoOne}],
         tasks' \in [Keys -> Connectors \cup {NoOne}]
  PROVE  LockInv'
<1>1. task'[c] = k /\ \A d \in Connectors \ {c} : task'[d] = task[d]
  BY DEF LockInv, Typed
<1>2. Typed'
  BY DEF LockInv, Typed
<1>3. QueueIs'
  <2>1. /\ q \in Seq(Waiter) /\ IsInjective(q)
        /\ \A w : w \in ToSet(q) <=> w \in ToSet(queue) /\ w # <<"pop", c>>
    BY DEF Rest
  <2>2. ASSUME NEW d \in Connectors
        PROVE  <<"pop", d>> \in ToSet(q) <=> task'[d] = "pop"
    <3>1. <<"pop", d>> \in ToSet(queue) <=> task[d] = "pop"
      BY DEF LockInv, QueueIs
    <3> QED
      BY <1>1, <2>1, <3>1
  <2>3. ASSUME NEW d \in Connectors, NEW l \in Sections
        PROVE  <<l, d>> \in ToSet(q) <=> <<l, d>> \in ToSet(queue)
    BY <2>1 DEF Sections
  <2>4. ASSUME NEW l \in {"snap", "clear"}
        PROVE  <<l, NoOne>> \in ToSet(q) <=> <<l, NoOne>> \in ToSet(queue)
    BY <2>1
  <2> QED
    BY <2>1, <2>2, <2>3, <2>4 DEF LockInv, QueueIs
<1>4. HolderIs' /\ NoTaskYet'
  BY <1>1 DEF LockInv, HolderIs, NoTaskYet
<1> QED
  BY <1>2, <1>3, <1>4 DEF LockInv

\* _disconnect in its section.
LEMMA PopLock ==
  ASSUME LockInv, NEW c \in Connectors, task[c] # "none",
         NEW q, Rest(q, {<<"pop", c>>}), PopSection(c, q)
  PROVE  LockInv'
<1>1. /\ sessions' = [sessions EXCEPT ![Addr[c]] = NoOne]
      /\ tasks' = [tasks EXCEPT ![Addr[c]] = NoOne]
      /\ closed' = closed \cup {c}
      /\ task' = [task EXCEPT ![c] = "popped"] /\ queue' = q /\ conn' = conn
      /\ holder' = holder /\ down' = down
  BY DEF PopSection
<1>2. /\ sessions' \in [Keys -> Connectors \cup {NoOne}]
      /\ tasks' \in [Keys -> Connectors \cup {NoOne}]
      /\ closed' \in SUBSET Connectors
  BY <1>1 DEF LockInv, Typed
<1> QED
  BY <1>1, <1>2, TaskMoves

\* shutdown moves on, without waiting or after its turn has come.
LEMMA DownMoves ==
  ASSUME LockInv, NEW k \in {"gather", "over"}, NEW q, Rest(q, {<<down, NoOne>>}),
         down' = k, queue' = q, conn' = conn, task' = task, holder' = holder,
         closed' = closed,
         sessions' \in [Keys -> Connectors \cup {NoOne}],
         tasks' \in [Keys -> Connectors \cup {NoOne}]
  PROVE  LockInv'
<1>1. Typed'
  BY DEF LockInv, Typed
<1>2. QueueIs'
  <2>1. /\ q \in Seq(Waiter) /\ IsInjective(q)
        /\ \A w : w \in ToSet(q) <=> w \in ToSet(queue) /\ w # <<down, NoOne>>
    BY DEF Rest
  <2>2. ASSUME NEW d \in Connectors, NEW l
        PROVE  <<l, d>> \in ToSet(q) <=> <<l, d>> \in ToSet(queue)
    BY <2>1, MembershipAssumption
  <2>3. ASSUME NEW l \in {"snap", "clear"} PROVE <<l, NoOne>> \notin ToSet(q)
    BY <2>1 DEF LockInv, QueueIs
  <2> QED
    BY <2>1, <2>2, <2>3 DEF LockInv, QueueIs
<1>3. HolderIs' /\ NoTaskYet'
  BY DEF LockInv, HolderIs, NoTaskYet
<1> QED
  BY <1>1, <1>2, <1>3 DEF LockInv

\* A cancelled waiter leaves the queue.
LEMMA RestCancelled ==
  ASSUME LockInv, NEW w
  PROVE  Rest(RemoveFirst(queue, w), {w})
<1>1. queue \in Seq(Waiter) /\ IsInjective(queue)
  BY DEF LockInv, QueueIs
<1>2. /\ RemoveFirst(queue, w) \in Seq(Waiter)
      /\ ToSet(RemoveFirst(queue, w)) \subseteq ToSet(queue)
      /\ ToSet(queue) \ {w} \subseteq ToSet(RemoveFirst(queue, w))
      /\ IsInjective(RemoveFirst(queue, w)) /\ w \notin ToSet(RemoveFirst(queue, w))
  BY <1>1, RemoveFirstSet
<1> QED
  BY <1>2 DEF Rest

\* The waiters W join the queue.
Join(W) ==
  /\ queue' \in Seq(Waiter) /\ IsInjective(queue')
  /\ ToSet(queue') = ToSet(queue) \cup W
  /\ Len(queue) \in Nat
  /\ \A i \in DOMAIN queue' : \/ i \in DOMAIN queue /\ queue'[i] = queue[i]
                              \/ i > Len(queue) /\ i \in Nat /\ queue'[i] \in W

\* Several waiters join at the end.
LEMMA JoinMany ==
  ASSUME LockInv, NEW r \in Seq(Waiter), IsInjective(r), ToSet(queue) \cap ToSet(r) = {},
         queue' = queue \o r
  PROVE  Join(ToSet(r))
<1>1. queue \in Seq(Waiter) /\ IsInjective(queue)
  BY DEF LockInv, QueueIs
<1> QED
  BY <1>1, ConcatQueue DEF Join

\* One waiter joins at the end.
LEMMA JoinOne ==
  ASSUME LockInv, NEW w \in Waiter, w \notin ToSet(queue), queue' = queue \o <<w>>
  PROVE  Join({w})
<1>1. <<w>> \in Seq(Waiter) /\ DOMAIN <<w>> = {1} /\ <<w>>[1] = w
  OBVIOUS
<1>2. ToSet(<<w>>) = {w} /\ IsInjective(<<w>>)
  BY <1>1 DEF ToSet, IsInjective
<1> QED
  BY <1>1, <1>2, JoinMany

\* The coroutines of a list wait for the lock.
LEMMA AddPeersWaits ==
  ASSUME LockInv, NEW C \in SUBSET Connectors, \A c \in C : conn[c] = "wait",
         queue' = queue \o SetToSeq({<<"first", c>> : c \in C})
  PROVE  Join({<<"first", c>> : c \in C})
<1> DEFINE W == {<<"first", c>> : c \in C}
<1>1. IsFiniteSet(W)
  <2>1. IsFiniteSet(C)
    BY FS_Subset, MembershipAssumption
  <2> DEFINE f == [c \in C |-> <<"first", c>>]
  <2>2. f \in Surjection(C, W)
    BY DEF Surjection
  <2> HIDE DEF f, W
  <2> QED
    BY <2>1, <2>2, FS_Surjection
<1>2. W \subseteq Waiter
  BY DEF Waiter, Sections
<1>3. W \cap ToSet(queue) = {}
  BY DEF LockInv, QueueIs, Sections
<1> HIDE DEF W
<1>4. SetToSeq(W) \in Seq(W) /\ IsInjective(SetToSeq(W)) /\ ToSet(SetToSeq(W)) = W
  BY <1>1, SetToSeqQueue
<1>5. SetToSeq(W) \in Seq(Waiter)
  BY <1>2, <1>4, SeqMonotonic
<1>6. queue' = queue \o SetToSeq(W)
  BY DEF W
<1>7. Join(W)
  BY <1>3, <1>4, <1>5, <1>6, JoinMany
<1> QED
  BY <1>7 DEF W

\* Those who join the queue are those who begin to wait.
LEMMA JoinLock ==
  ASSUME LockInv, NEW W, Join(W), UNCHANGED <<sessions, tasks, holder, closed>>, Typed',
         \A c \in Connectors : /\ conn'[c] # conn[c] =>
                                    conn[c] \in {"wait", "connecting"} /\ conn'[c] \in Sections
                               /\ task'[c] # task[c] => task[c] = "run" /\ task'[c] = "pop",
         down' = down \/ (down \notin {"snap", "clear"} /\ down' \in {"snap", "clear"}),
         \A c \in Connectors : \A l \in Sections :
           <<l, c>> \in W <=> conn[c] # conn'[c] /\ conn'[c] = l,
         \A c \in Connectors : <<"pop", c>> \in W <=> task[c] # task'[c],
         \A l \in {"snap", "clear"} : <<l, NoOne>> \in W <=> down # down' /\ down' = l
  PROVE  LockInv'
<1>1. \A w : w \in ToSet(queue') <=> w \in ToSet(queue) \/ w \in W
  BY DEF Join
<1>2. ASSUME NEW c \in Connectors, NEW l \in Sections
      PROVE  <<l, c>> \in ToSet(queue') <=> conn'[c] = l
  <2>1. <<l, c>> \in ToSet(queue) <=> conn[c] = l
    BY DEF LockInv, QueueIs
  <2> QED
    BY <1>1, <2>1 DEF Sections
<1>3. ASSUME NEW c \in Connectors PROVE <<"pop", c>> \in ToSet(queue') <=> task'[c] = "pop"
  <2>1. <<"pop", c>> \in ToSet(queue) <=> task[c] = "pop"
    BY DEF LockInv, QueueIs
  <2> QED
    BY <1>1, <2>1
<1>4. ASSUME NEW l \in {"snap", "clear"} PROVE <<l, NoOne>> \in ToSet(queue') <=> down' = l
  <2>1. <<l, NoOne>> \in ToSet(queue) <=> down = l
    BY DEF LockInv, QueueIs
  <2> QED
    BY <1>1, <2>1
<1>5. QueueIs'
  BY <1>2, <1>3, <1>4 DEF QueueIs, Join
<1>6. HolderIs' /\ NoTaskYet'
  BY DEF LockInv, HolderIs, NoTaskYet, Sections
<1> QED
  BY <1>5, <1>6 DEF LockInv

\* The lock is granted to the first waiter.
LEMMA GrantLock ==
  ASSUME LockInv, Grant
  PROVE  LockInv'
<1> DEFINE w == Head(queue)
           q == Tail(queue)
<1>1. /\ queue # << >> /\ holder = NoOne
      /\ \/ w[1] = "first" /\ FirstSection({w[2]}, q)
         \/ w[1] = "second" /\ SecondSection(w[2], q)
         \/ w[1] = "third" /\ ThirdSection(w[2], q)
         \/ w[1] = "pop" /\ PopSection(w[2], q)
         \/ w[1] = "snap" /\ SnapSection(q, doomed)
         \/ w[1] = "clear" /\ ClearSection(q)
  BY DEF Grant
<1>2. Rest(q, {w}) /\ w \in Waiter /\ w \in ToSet(queue)
  BY <1>1, RestHead
<1>3. \/ w[1] \in Sections \cup {"pop"} /\ w[2] \in Connectors /\ w = <<w[1], w[2]>>
      \/ w[1] \in {"snap", "clear"} /\ w = <<w[1], NoOne>>
  BY <1>2 DEF Waiter
<1> DEFINE c == w[2]
<1> HIDE DEF w, q
<1>4. CASE w[1] = "first" /\ FirstSection({c}, q)
  <2>1. c \in Connectors /\ w = <<"first", c>>
    BY <1>3, <1>4
  <2>2. conn[c] = "first"
    BY <1>2, <2>1 DEF LockInv, QueueIs, Sections
  <2>3. {<<"first", d>> : d \in {c}} = {w}
    BY <2>1
  <2> QED
    BY <1>2, <1>4, <2>1, <2>2, <2>3, FirstLock
<1>5. CASE w[1] = "second" /\ SecondSection(c, q)
  <2>1. c \in Connectors /\ w = <<"second", c>>
    BY <1>3, <1>5
  <2>2. conn[c] = "second"
    BY <1>2, <2>1 DEF LockInv, QueueIs, Sections
  <2> QED
    BY <1>1, <1>2, <1>5, <2>1, <2>2, SecondLock
<1>6. CASE w[1] = "third" /\ ThirdSection(c, q)
  <2>1. c \in Connectors /\ w = <<"third", c>>
    BY <1>3, <1>6
  <2>2. conn[c] = "third"
    BY <1>2, <2>1 DEF LockInv, QueueIs, Sections
  <2> QED
    BY <1>2, <1>6, <2>1, <2>2, ThirdLock
<1>7. CASE w[1] = "pop" /\ PopSection(c, q)
  <2>1. c \in Connectors /\ w = <<"pop", c>>
    BY <1>3, <1>7
  <2>2. task[c] = "pop"
    BY <1>2, <2>1 DEF LockInv, QueueIs
  <2> QED
    BY <1>2, <1>7, <2>1, <2>2, PopLock
<1>8. CASE w[1] = "snap" /\ SnapSection(q, doomed)
  <2>1. w = <<"snap", NoOne>>
    BY <1>3, <1>8 DEF Sections
  <2>2. down = "snap"
    BY <1>2, <2>1 DEF LockInv, QueueIs
  <2> QED
    BY <1>2, <1>8, <2>1, <2>2, DownMoves DEF SnapSection, LockInv, Typed
<1>9. CASE w[1] = "clear" /\ ClearSection(q)
  <2>1. w = <<"clear", NoOne>>
    BY <1>3, <1>9 DEF Sections
  <2>2. down = "clear"
    BY <1>2, <2>1 DEF LockInv, QueueIs
  <2>3. sessions' \in [Keys -> Connectors \cup {NoOne}] /\ tasks' \in [Keys -> Connectors \cup {NoOne}]
    BY <1>9 DEF ClearSection
  <2> QED
    BY <1>2, <1>9, <2>1, <2>2, <2>3, DownMoves DEF ClearSection
<1> QED
  BY <1>1, <1>4, <1>5, <1>6, <1>7, <1>8, <1>9 DEF c

\* add_peers starts the coroutines of a list.
LEMMA AddPeersLock ==
  ASSUME LockInv, NEW n, AddPeers(n)
  PROVE  LockInv'
<1> DEFINE C == {c \in Connectors : List[c] = n}
<1>1. C \in SUBSET Connectors /\ \A c \in C : conn[c] = "wait"
  BY DEF AddPeers
<1>2. \/ FirstSection(C, queue)
      \/ /\ Enqueue(SetToSeq({<<"first", c>> : c \in C}))
         /\ conn' = [c \in Connectors |-> IF c \in C THEN "first" ELSE conn[c]]
         /\ UNCHANGED <<task, down>>
  BY DEF AddPeers
<1> HIDE DEF C
<1>3. CASE FirstSection(C, queue)
  <2>1. Rest(queue, {<<"first", c>> : c \in C})
    <3>1. {<<"first", c>> : c \in C} \cap ToSet(queue) = {}
      BY <1>1 DEF LockInv, QueueIs, Sections
    <3> QED
      BY <3>1, RestFree
  <2> QED
    BY <1>1, <1>3, <2>1, FirstLock
<1>4. CASE /\ Enqueue(SetToSeq({<<"first", c>> : c \in C}))
           /\ conn' = [c \in Connectors |-> IF c \in C THEN "first" ELSE conn[c]]
           /\ UNCHANGED <<task, down>>
  <2> DEFINE W == {<<"first", c>> : c \in C}
  <2>1. Join(W) /\ UNCHANGED <<sessions, tasks, holder, closed>>
    BY <1>1, <1>4, AddPeersWaits DEF Enqueue
  <2>2. Typed'
    BY <1>4, <2>1 DEF LockInv, Typed
  <2>3. /\ \A c \in Connectors : /\ conn'[c] # conn[c] =>
                                      conn[c] \in {"wait", "connecting"} /\ conn'[c] \in Sections
                                 /\ task'[c] = task[c]
        /\ \A c \in Connectors : \A l \in Sections :
             <<l, c>> \in W <=> conn[c] # conn'[c] /\ conn'[c] = l
    BY <1>1, <1>4 DEF Sections
  <2>4. \A c \in Connectors : <<"pop", c>> \notin W
    OBVIOUS
  <2>5. \A l \in {"snap", "clear"} : <<l, NoOne>> \notin W
    OBVIOUS
  <2> HIDE DEF W
  <2> QED
    BY <1>4, <2>1, <2>2, <2>3, <2>4, <2>5, JoinLock
<1> QED
  BY <1>2, <1>3, <1>4

\* A connection is made.
LEMMA ConnectedLock ==
  ASSUME LockInv, NEW c \in Connectors, Connected(c)
  PROVE  LockInv'
<1>1. conn[c] = "connecting"
  BY DEF Connected
<1>2. <<"second", c>> \notin ToSet(queue) /\ <<"second", c>> \in Waiter
  BY <1>1 DEF LockInv, QueueIs, Sections, Waiter
<1>3. CASE LockFree(queue)
  <2>1. Rest(queue, {<<"second", c>>})
    BY <1>2, RestFree
  <2> QED
    BY <1>1, <1>3, <2>1, SecondLock DEF Connected, LockFree
<1>4. CASE ~LockFree(queue)
  <2>1. /\ Enqueue(<< <<"second", c>> >>) /\ conn' = [conn EXCEPT ![c] = "second"]
        /\ task' = task /\ down' = down
    BY <1>4 DEF Connected
  <2>2. Join({<<"second", c>>}) /\ UNCHANGED <<sessions, tasks, holder, closed>>
    BY <1>2, <2>1, JoinOne DEF Enqueue
  <2>3. conn'[c] = "second" /\ \A d \in Connectors \ {c} : conn'[d] = conn[d]
    BY <2>1 DEF LockInv, Typed
  <2>4. Typed'
    BY <2>1, <2>2 DEF LockInv, Typed
  <2> QED
    BY <1>1, <2>1, <2>2, <2>3, <2>4, JoinLock DEF Sections
<1> QED
  BY <1>3, <1>4

\* A connector returns without a session, or closes under the lock.
LEMMA ConnectorOverLock ==
  ASSUME LockInv, NEW c \in Connectors, conn' = [conn EXCEPT ![c] = "over"],
         holder' = (IF holder = c THEN NoOne ELSE holder),
         (queue' = queue /\ conn[c] \notin Sections) \/ queue' = RemoveFirst(queue, <<conn[c], c>>),
         UNCHANGED <<task, sessions, tasks, closed, down>>
  PROVE  LockInv'
<1>1. conn'[c] = "over" /\ \A d \in Connectors \ {c} : conn'[d] = conn[d]
  BY DEF LockInv, Typed
<1>2. PICK l \in Sections : (conn[c] \in Sections => conn[c] = l) /\ Rest(queue', {<<l, c>>})
  <2>1. CASE conn[c] \in Sections
    BY <2>1, RestCancelled
  <2>2. CASE conn[c] \notin Sections
    <3>1. <<"first", c>> \notin ToSet(queue) /\ <<conn[c], c>> \notin ToSet(queue)
      <4>1. <<"first", c>> \notin ToSet(queue)
        BY <2>2 DEF LockInv, QueueIs, Sections
      <4>2. ToSet(queue) \subseteq Waiter
        BY DEF LockInv, QueueIs, ToSet
      <4>3. conn[c] # "pop"
        BY DEF LockInv, Typed
      <4>4. <<conn[c], c>> \notin Waiter
        BY <2>2, <4>3, MembershipAssumption DEF Waiter
      <4> QED
        BY <4>1, <4>2, <4>4
    <3>2. Rest(queue', {<<"first", c>>})
      <4>1. CASE queue' = queue
        BY <3>1, <4>1, RestFree
      <4>2. CASE queue' = RemoveFirst(queue, <<conn[c], c>>)
        <5>1. Rest(queue', {<<conn[c], c>>})
          BY <4>2, RestCancelled
        <5> QED
          BY <3>1, <5>1 DEF Rest
      <4> QED
        BY <4>1, <4>2
    <3> QED
      BY <2>2, <3>2 DEF Sections
  <2> QED
    BY <2>1, <2>2
<1>3. Typed'
  BY DEF LockInv, Typed
<1>4. QueueIs'
  BY <1>2, ConnectorMoves
<1>5. HolderIs' /\ NoTaskYet'
  BY <1>1, MembershipAssumption DEF LockInv, HolderIs, NoTaskYet
<1> QED
  BY <1>3, <1>4, <1>5 DEF LockInv

\* A connector fails, closes or is cancelled.
LEMMA ConnectorEndsLock ==
  ASSUME LockInv, NEW c \in Connectors,
         ConnectFails(c) \/ ConnectorCloses(c) \/ ConnectorCancelled(c)
  PROVE  LockInv'
<1>1. CASE ConnectFails(c)
  <2>1. holder # c
    BY <1>1 DEF ConnectFails, LockInv, HolderIs
  <2> QED
    BY <1>1, <2>1, ConnectorOverLock DEF ConnectFails, Sections
<1>2. CASE ConnectorCloses(c)
  <2>1. holder = c
    BY <1>2 DEF ConnectorCloses, LockInv, HolderIs
  <2> QED
    BY <1>2, <2>1, ConnectorOverLock DEF ConnectorCloses, Sections
<1>3. CASE ConnectorCancelled(c)
  BY <1>3, ConnectorOverLock DEF ConnectorCancelled
<1> QED
  BY <1>1, <1>2, <1>3

\* _disconnect runs or waits for its turn.
LEMMA UnwindLock ==
  ASSUME LockInv, NEW c \in Connectors, task[c] = "run", Unwind(c)
  PROVE  LockInv'
<1>1. <<"pop", c>> \notin ToSet(queue) /\ <<"pop", c>> \in Waiter
  BY DEF LockInv, QueueIs, Waiter
<1>2. CASE LockFree(queue)
  <2>1. Rest(queue, {<<"pop", c>>})
    BY <1>1, RestFree
  <2> QED
    BY <1>2, <2>1, PopLock DEF Unwind
<1>3. CASE ~LockFree(queue)
  <2>1. /\ Enqueue(<< <<"pop", c>> >>) /\ task' = [task EXCEPT ![c] = "pop"]
        /\ conn' = conn /\ down' = down
    BY <1>3 DEF Unwind
  <2>2. Join({<<"pop", c>>}) /\ UNCHANGED <<sessions, tasks, holder, closed>>
    BY <1>1, <2>1, JoinOne DEF Enqueue
  <2>3. task'[c] = "pop" /\ \A d \in Connectors \ {c} : task'[d] = task[d]
    BY <2>1 DEF LockInv, Typed
  <2>4. Typed'
    BY <2>1, <2>2 DEF LockInv, Typed
  <2> QED
    BY <2>1, <2>2, <2>3, <2>4, JoinLock DEF Sections
<1> QED
  BY <1>2, <1>3

\* A task starts, ends its loop, closes its connection or is cancelled.
LEMMA TaskLock ==
  ASSUME LockInv, NEW c \in Connectors,
         TaskStarts(c) \/ TaskEnds(c) \/ TaskCloses(c) \/ TaskCancelled(c)
  PROVE  LockInv'
<1>1. task[c] # "pop" => Rest(queue, {<<"pop", c>>})
  <2>1. task[c] # "pop" => <<"pop", c>> \notin ToSet(queue)
    BY DEF LockInv, QueueIs
  <2> QED
    BY <2>1, RestFree
<1>2. closed \in SUBSET Connectors /\ sessions \in [Keys -> Connectors \cup {NoOne}]
      /\ tasks \in [Keys -> Connectors \cup {NoOne}]
  BY DEF LockInv, Typed
<1>3. CASE TaskStarts(c)
  BY <1>1, <1>2, <1>3, TaskMoves DEF TaskStarts
<1>4. CASE TaskEnds(c)
  BY <1>4, UnwindLock DEF TaskEnds
<1>5. CASE TaskCloses(c)
  BY <1>1, <1>2, <1>5, TaskMoves DEF TaskCloses
<1>6. CASE TaskCancelled(c)
  <2>1. CASE task[c] = "run" /\ Unwind(c)
    BY <2>1, UnwindLock
  <2>2. CASE /\ task[c] \in {"new", "pop", "popped"}
             /\ task' = [task EXCEPT ![c] = "ended"]
             /\ queue' = RemoveFirst(queue, <<"pop", c>>)
             /\ UNCHANGED <<conn, sessions, tasks, holder, closed, down, seen>>
    <3>1. Rest(RemoveFirst(queue, <<"pop", c>>), {<<"pop", c>>})
      BY RestCancelled
    <3> QED
      BY <1>2, <2>2, <3>1, TaskMoves
  <2> QED
    BY <1>6, <2>1, <2>2 DEF TaskCancelled
<1> QED
  BY <1>3, <1>4, <1>5, <1>6

\* shutdown takes the lock or waits for it.
LEMMA ShutdownLock ==
  ASSUME LockInv, Shutdown \/ ShutdownClears
  PROVE  LockInv'
<1>1. down \in {"no", "gather"}
  BY DEF Shutdown, ShutdownClears, Gathered
<1>2. \A l \in {"snap", "clear"} : <<l, NoOne>> \notin ToSet(queue) /\ <<l, NoOne>> \in Waiter
  BY <1>1 DEF LockInv, QueueIs, Waiter
<1>3. Rest(queue, {<<down, NoOne>>})
  <2>1. ToSet(queue) \subseteq Waiter
    BY DEF LockInv, QueueIs, ToSet
  <2>2. <<down, NoOne>> \notin Waiter
    BY <1>1, MembershipAssumption DEF Waiter
  <2> QED
    BY <2>1, <2>2, RestFree
<1>4. sessions \in [Keys -> Connectors \cup {NoOne}] /\ tasks \in [Keys -> Connectors \cup {NoOne}]
  BY DEF LockInv, Typed
<1>5. \/ down' = "gather" /\ queue' = queue /\ UNCHANGED <<conn, task, sessions, tasks, holder, closed>>
      \/ ClearSection(queue)
      \/ \E l \in {"snap", "clear"} :
           Enqueue(<< <<l, NoOne>> >>) /\ down' = l /\ UNCHANGED <<conn, task>>
  BY DEF Shutdown, ShutdownClears, SnapSection
<1>6. CASE down' = "gather" /\ queue' = queue /\ UNCHANGED <<conn, task, sessions, tasks, holder, closed>>
  BY <1>3, <1>4, <1>6, DownMoves
<1>7. CASE ClearSection(queue)
  <2>1. sessions' \in [Keys -> Connectors \cup {NoOne}] /\ tasks' \in [Keys -> Connectors \cup {NoOne}]
    BY <1>7 DEF ClearSection
  <2> QED
    BY <1>3, <1>7, <2>1, DownMoves DEF ClearSection
<1>8. ASSUME NEW l \in {"snap", "clear"},
             Enqueue(<< <<l, NoOne>> >>), down' = l, UNCHANGED <<conn, task>>
      PROVE  LockInv'
  <2>1. Join({<<l, NoOne>>}) /\ UNCHANGED <<sessions, tasks, holder, closed>>
    BY <1>2, <1>8, JoinOne DEF Enqueue
  <2>2. Typed'
    BY <1>8, <2>1 DEF LockInv, Typed
  <2>3. /\ \A c \in Connectors : \A k \in Sections : <<k, c>> \notin {<<l, NoOne>>}
        /\ \A c \in Connectors : <<"pop", c>> \notin {<<l, NoOne>>}
    BY MembershipAssumption
  <2> QED
    BY <1>1, <1>8, <2>1, <2>2, <2>3, JoinLock
<1> QED
  BY <1>5, <1>6, <1>7, <1>8

\* No waiter at the start.
LEMMA LockInvInit ==
  Init => LockInv
<1> SUFFICES ASSUME Init PROVE LockInv
  OBVIOUS
<1>1. Typed /\ NoTaskYet
  BY DEF Init, Typed, NoTaskYet
<1>2. HolderIs
  BY MembershipAssumption DEF Init, HolderIs
<1>3. queue = << >> /\ queue \in Seq(Waiter) /\ IsInjective(queue) /\ ToSet(queue) = {}
  <2>1. queue = << >> /\ queue \in Seq(Waiter) /\ DOMAIN queue = {}
    BY DEF Init
  <2> QED
    BY <2>1 DEF ToSet, IsInjective
<1>4. QueueIs
  BY <1>3 DEF Init, QueueIs, Sections
<1> QED
  BY <1>1, <1>2, <1>4 DEF LockInv

\* Every step.
LEMMA LockInvNext ==
  LockInv /\ [Next]_vars => LockInv'
<1> SUFFICES ASSUME LockInv, [Next]_vars PROVE LockInv'
  OBVIOUS
<1>1. CASE UNCHANGED vars
  BY <1>1 DEF vars, LockInv, Typed, QueueIs, HolderIs, NoTaskYet
<1>2. ASSUME NEW c \in Connectors, Step(c) PROVE LockInv'
  <2>1. CASE ShutdownCloses(c)
    BY <2>1 DEF ShutdownCloses, LockInv, Typed, QueueIs, HolderIs, NoTaskYet
  <2> QED
    BY <1>2, <2>1, ConnectedLock, ConnectorEndsLock, TaskLock DEF Step
<1> QED
  BY <1>1, <1>2, GrantLock, ShutdownLock, AddPeersLock DEF Next, Finished

\* Whatever the lists: a connector, a task or shutdown waits for the lock
\* exactly if it is in its queue, and once, and who holds it across an await is
\* the connector that closes under it.  No waiter is lost or resumed twice by a
\* cancellation.
THEOREM LockExact == Spec => []MembershipTypeOK
<1>1. Spec => []LockInv
  BY LockInvInit, LockInvNext, PTL DEF Spec
<1> QED
  BY <1>1, QueueSet, PTL

-----------------------------------------------------------------------------
(* The registry, for lists without a repeated address *)

\* Only add_peers starts a connector, and one that is over stays so.
LEMMA KeepOrder ==
  ASSUME InOrder, \A c \in Connectors : /\ conn'[c] # "wait" => conn[c] # "wait"
                                        /\ conn[c] = "over" => conn'[c] = "over"
  PROVE  InOrder'
  BY DEF InOrder

\* Fewer tasks at work.
LEMMA LiveShrinks ==
  ASSUME NoTwins, MaxRespected, \A c \in Connectors : Live(c)' => Live(c)
  PROVE  NoTwins' /\ MaxRespected'
<1>1. NoTwins'
  BY DEF NoTwins
<1> DEFINE L == {c \in Connectors : Live(c)}
           M == {c \in Connectors : Live(c)'}
<1>2. M \in SUBSET L /\ L \in SUBSET Connectors
  OBVIOUS
<1>3. Cardinality(L) <= MaxPeers
  BY DEF MaxRespected
<1> HIDE DEF L, M
<1>4. IsFiniteSet(L)
  BY <1>2, FS_Subset, MembershipAssumption
<1>5. Cardinality(M) <= Cardinality(L) /\ Cardinality(M) \in Nat /\ Cardinality(L) \in Nat
  BY <1>2, <1>4, FS_Subset, FS_CardinalityType
<1>6. Cardinality(M) <= MaxPeers
  BY <1>3, <1>5, MembershipAssumption
<1> QED
  BY <1>1, <1>6 DEF M, MaxRespected

\* Two connectors at work are of one list, and so of two addresses.
LEMMA OneListAtATime ==
  ASSUME DistinctLists, InOrder, NEW c \in Connectors, NEW d \in Connectors, Working(c), Working(d),
         Addr[c] = Addr[d]
  PROVE  c = d
<1>1. ~(List[c] < List[d]) /\ ~(List[d] < List[c])
  BY DEF InOrder, Working
<1>2. List[c] \in Nat /\ List[d] \in Nat
  BY MembershipAssumption
<1>3. List[c] = List[d]
  BY <1>1, <1>2
<1> QED
  BY <1>3 DEF DistinctLists

\* The tasks at work are no more than the sessions, and below the limit when
\* the pool is not full.
LEMMA RoomForOne ==
  ASSUME LockInv, NoTwins, down = "no", Registered, ~Full
  PROVE  LET L == {c \in Connectors : Live(c)}
         IN  IsFiniteSet(L) /\ Cardinality(L) \in Nat /\ Cardinality(L) + 1 <= MaxPeers
<1> DEFINE L == {c \in Connectors : Live(c)}
           K == {k \in Keys : sessions[k] # NoOne}
           f == [c \in L |-> Addr[c]]
<1>1. IsFiniteSet(Keys)
  <2> DEFINE g == [c \in Connectors |-> Addr[c]]
  <2>1. g \in Surjection(Connectors, Keys)
    BY DEF Surjection, Keys
  <2> HIDE DEF g
  <2> QED
    BY <2>1, FS_Surjection, MembershipAssumption
<1>2. IsFiniteSet(K) /\ Cardinality(K) \in Nat
  <2>1. K \in SUBSET Keys
    OBVIOUS
  <2> HIDE DEF K
  <2> QED
    BY <1>1, <2>1, FS_Subset, FS_CardinalityType
<1>3. f \in Injection(L, K)
  <2>1. ASSUME NEW c \in L PROVE Addr[c] \in K
    <3>1. sessions[Addr[c]] = c /\ Addr[c] \in Keys /\ c # NoOne
      BY MembershipAssumption DEF Registered, Keys
    <3> QED
      BY <3>1
  <2>2. \A c, d \in L : Addr[c] = Addr[d] => c = d
    BY DEF NoTwins
  <2> HIDE DEF L, K
  <2> QED
    BY <2>1, <2>2 DEF Injection, IsInjective
<1>4. IsFiniteSet(L) /\ Cardinality(L) <= Cardinality(K)
  <2> HIDE DEF L, K, f
  <2> QED
    BY <1>2, <1>3, FS_Injection
<1>5. Cardinality(L) \in Nat
  <2> HIDE DEF L
  <2> QED
    BY <1>4, FS_CardinalityType
<1>6. ~(Cardinality(K) >= MaxPeers)
  BY DEF Full
<1> HIDE DEF L, K
<1>7. Cardinality(L) + 1 <= MaxPeers
  BY <1>2, <1>4, <1>5, <1>6, MembershipAssumption
<1> QED
  BY <1>4, <1>5, <1>7 DEF L

\* Nothing changes for the cancellations.
LEMMA KeepCancels ==
  ASSUME Cancels, down' = down, doomed' = doomed,
         \A c \in Connectors : (Working(c)' <=> Working(c)) \/ down = "no"
  PROVE  Cancels'
  BY DEF Cancels

\* What remains of the queue keeps its order.
LEMMA OrderedTail ==
  ASSUME LockInv, queue # << >>, Ordered(queue)
  PROVE  Ordered(Tail(queue))
<1>1. queue \in Seq(Waiter) /\ IsInjective(queue)
  BY DEF LockInv, QueueIs
<1>2. \A i \in DOMAIN Tail(queue) :
        i + 1 \in DOMAIN queue /\ Tail(queue)[i] = queue[i + 1] /\ i \in Nat
  BY <1>1, TailQueue
<1>3. ASSUME NEW c \in Connectors, NEW i \in DOMAIN Tail(queue), NEW j \in DOMAIN Tail(queue),
             Tail(queue)[i] = <<"third", c>>, Tail(queue)[j] = <<"pop", c>>
      PROVE  i < j
  <2>1. i + 1 < j + 1
    BY <1>2, <1>3 DEF Ordered
  <2> QED
    BY <1>2, <2>1
<1> QED
  BY <1>3 DEF Ordered

\* The filing of a new task goes behind everything.
LEMMA OrderedAppend ==
  ASSUME NEW q \in Seq(Waiter), Ordered(q), NEW w \in Waiter,
         \A c \in Connectors : w = <<"third", c>> => <<"pop", c>> \notin ToSet(q)
  PROVE  Ordered(Append(q, w))
<1>1. /\ DOMAIN Append(q, w) = 1 .. Len(q) + 1 /\ DOMAIN q = 1 .. Len(q)
      /\ \A i \in 1 .. Len(q) : Append(q, w)[i] = q[i]
      /\ Append(q, w)[Len(q) + 1] = w
      /\ Len(q) \in Nat
  OBVIOUS
<1> DEFINE r == Append(q, w)
<1>2. ASSUME NEW c \in Connectors, NEW i \in DOMAIN r, NEW j \in DOMAIN r,
             r[i] = <<"third", c>>, r[j] = <<"pop", c>>
      PROVE  i < j
  <2>1. CASE i = Len(q) + 1
    <3>0. <<"third", c>> # <<"pop", c>>
      OBVIOUS
    <3>1. w = <<"third", c>> /\ j # i
      <4> HIDE DEF r
      <4>1. r[Len(q) + 1] = w
        BY <1>1 DEF r
      <4> QED
        BY <1>2, <2>1, <3>0, <4>1
    <3>2. j \in DOMAIN q /\ q[j] = <<"pop", c>>
      BY <1>1, <1>2, <2>1, <3>1
    <3> QED
      BY <3>1, <3>2 DEF ToSet
  <2>2. CASE i # Len(q) + 1 /\ j = Len(q) + 1
    BY <1>1, <2>2
  <2>3. CASE i # Len(q) + 1 /\ j # Len(q) + 1
    <3>1. i \in DOMAIN q /\ j \in DOMAIN q /\ q[i] = <<"third", c>> /\ q[j] = <<"pop", c>>
      BY <1>1, <1>2, <2>3
    <3> QED
      BY <3>1 DEF Ordered
  <2> QED
    BY <2>1, <2>2, <2>3
<1> QED
  BY <1>2 DEF Ordered

\* Whoever else waits queues behind.
LEMMA OrderedJoin ==
  ASSUME LockInv, Ordered(queue), NEW W, Join(W), \A c \in Connectors : <<"third", c>> \notin W
  PROVE  Ordered(queue')
<1>1. /\ Len(queue) \in Nat /\ DOMAIN queue = 1 .. Len(queue)
      /\ \A i \in DOMAIN queue' : \/ i \in DOMAIN queue /\ queue'[i] = queue[i]
                                  \/ i > Len(queue) /\ i \in Nat /\ queue'[i] \in W
  BY DEF Join, LockInv, QueueIs
<1>2. ASSUME NEW c \in Connectors, NEW i \in DOMAIN queue', NEW j \in DOMAIN queue',
             queue'[i] = <<"third", c>>, queue'[j] = <<"pop", c>>
      PROVE  i < j
  <2>1. i \in DOMAIN queue /\ queue[i] = <<"third", c>>
    BY <1>1, <1>2
  <2>2. CASE j \in DOMAIN queue /\ queue'[j] = queue[j]
    BY <1>2, <2>1, <2>2 DEF Ordered
  <2>3. CASE j > Len(queue) /\ j \in Nat
    BY <1>1, <2>1, <2>3
  <2> QED
    BY <1>1, <2>2, <2>3
<1> QED
  BY <1>2 DEF Ordered

\* The second section enters a session: its address is free, the pool has room.
LEMMA EntersMem ==
  ASSUME DistinctLists, MemInv, LockInv', NEW c \in Connectors,
         conn[c] \in {"connecting", "second"}, down = "no", ~Full,
         NEW k \in {"third", "over"}, conn' = [conn EXCEPT ![c] = k],
         sessions' = [sessions EXCEPT ![Addr[c]] = c], task' = [task EXCEPT ![c] = "new"],
         tasks' = IF k = "over" THEN [tasks EXCEPT ![Addr[c]] = c] ELSE tasks,
         UNCHANGED <<closed, doomed, down, seen>>, Ordered(queue')
  PROVE  MemInv'
<1>1. /\ conn'[c] = k /\ \A d \in Connectors \ {c} : conn'[d] = conn[d]
      /\ task[c] = "none" /\ task'[c] = "new" /\ \A d \in Connectors \ {c} : task'[d] = task[d]
  BY DEF MemInv, LockInv, Typed, NoTaskYet
<1>2. /\ sessions[Addr[c]] = NoOne
      /\ \A d \in Connectors : sessions'[Addr[d]] = IF Addr[d] = Addr[c] THEN c ELSE sessions[Addr[d]]
      /\ \A d \in Connectors : tasks'[Addr[d]] =
           IF Addr[d] = Addr[c] /\ k = "over" THEN c ELSE tasks[Addr[d]]
      /\ \A d \in Connectors : Addr[d] \in Keys /\ d # NoOne
  <2>1. \A d \in Connectors : Addr[d] \in Keys /\ d # NoOne
    BY MembershipAssumption DEF Keys
  <2>2. sessions[Addr[c]] = NoOne
    BY DEF MemInv, Filed
  <2> QED
    BY <2>1, <2>2 DEF MemInv, LockInv, Typed
<1>3. \A d \in Connectors : Live(d) => Addr[d] # Addr[c]
  BY <1>2 DEF MemInv, Registered
<1>4. /\ Live(c)' /\ ~Live(c) /\ \A d \in Connectors \ {c} : Live(d)' <=> Live(d)
  BY <1>1 DEF Live
<1>5. InOrder'
  BY <1>1, KeepOrder DEF MemInv
<1>6. Cancels'
  BY KeepCancels DEF MemInv
<1>7. Registered'
  <2>1. ASSUME NEW d \in Connectors
        PROVE  /\ Live(d)' <=> sessions'[Addr[d]] = d
               /\ task'[d] \in {"popped", "ended"} => d \in closed'
    <3>1. /\ Live(d) <=> sessions[Addr[d]] = d
          /\ task[d] \in {"popped", "ended"} => d \in closed
      BY DEF MemInv, Registered
    <3>2. CASE d = c
      BY <1>1, <1>2, <1>4, <3>2
    <3>3. CASE d # c
      BY <1>1, <1>2, <1>3, <1>4, <3>1, <3>3
    <3> QED
      BY <3>2, <3>3
  <2> QED
    BY <2>1 DEF Registered
<1>8. Filed'
  <2>1. ASSUME NEW d \in Connectors
        PROVE  /\ tasks'[Addr[d]] = d => Live(d)'
               /\ Live(d)' => tasks'[Addr[d]] = d \/ conn'[d] = "third"
               /\ conn'[d] = "third" => Live(d)'
               /\ conn'[d] \in {"connecting", "second"} => sessions'[Addr[d]] = NoOne
    <3>1. /\ tasks[Addr[d]] = d => Live(d)
          /\ Live(d) => tasks[Addr[d]] = d \/ conn[d] = "third"
          /\ conn[d] = "third" => Live(d)
          /\ conn[d] \in {"connecting", "second"} => sessions[Addr[d]] = NoOne
      BY DEF MemInv, Filed
    <3>2. CASE d = c
      BY <1>1, <1>2, <1>4, <3>2
    <3>3. CASE d # c
      <4>1. conn[d] \in {"connecting", "second"} => Addr[d] # Addr[c]
        BY <3>3, OneListAtATime DEF Working, MemInv
      <4> QED
        BY <1>1, <1>2, <1>3, <1>4, <3>1, <3>3, <4>1
    <3> QED
      BY <3>2, <3>3
  <2> QED
    BY <2>1 DEF Filed
<1>9. FiledFirst' /\ Remembered'
  BY DEF MemInv, FiledFirst, Remembered, Ordered
<1>10. NoTwins'
  BY <1>3, <1>4 DEF NoTwins, MemInv
<1>11. MaxRespected'
  <2> DEFINE L == {d \in Connectors : Live(d)}
             M == {d \in Connectors : Live(d)'}
  <2>1. IsFiniteSet(L) /\ Cardinality(L) \in Nat /\ Cardinality(L) + 1 <= MaxPeers
    BY RoomForOne DEF MemInv
  <2>2. M = L \cup {c} /\ c \notin L
    BY <1>4
  <2> HIDE DEF L, M
  <2>3. Cardinality(M) = Cardinality(L) + 1
    BY <2>1, <2>2, FS_AddElement
  <2>4. Cardinality(M) <= MaxPeers
    BY <2>1, <2>3
  <2> QED
    BY <2>4 DEF M, MaxRespected
<1> QED
  BY <1>5, <1>6, <1>7, <1>8, <1>9, <1>10, <1>11 DEF MemInv

\* Connectors at work, short of entering or filing anything.
LEMMA ConnMem ==
  ASSUME MemInv, LockInv', InOrder', down = "no", Ordered(queue'),
         UNCHANGED <<task, sessions, tasks, doomed, down, seen>>, closed \subseteq closed',
         \A d \in Connectors :
           /\ conn'[d] = "third" <=> conn[d] = "third"
           /\ conn'[d] \in {"connecting", "second"} => sessions[Addr[d]] = NoOne
  PROVE  MemInv'
<1>1. \A d \in Connectors : Live(d)' <=> Live(d)
  BY DEF Live
<1>2. Cancels'
  BY KeepCancels DEF MemInv
<1>3. Registered'
  BY <1>1 DEF MemInv, Registered
<1>4. Filed'
  BY <1>1 DEF MemInv, Filed
<1>5. FiledFirst' /\ Remembered'
  BY DEF MemInv, FiledFirst, Remembered, Ordered
<1>6. NoTwins' /\ MaxRespected'
  BY <1>1, LiveShrinks DEF MemInv
<1> QED
  BY <1>2, <1>3, <1>4, <1>5, <1>6 DEF MemInv

\* The third section files a task that is at work.
LEMMA ThirdMem ==
  ASSUME MemInv, LockInv', NEW c \in Connectors, conn[c] = "third", down = "no",
         NEW q, ThirdSection(c, q), doomed' = doomed, Ordered(queue')
  PROVE  MemInv'
<1>1. /\ conn' = [conn EXCEPT ![c] = "over"] /\ tasks' = [tasks EXCEPT ![Addr[c]] = c]
      /\ UNCHANGED <<task, sessions, closed, down, seen>>
  BY DEF ThirdSection
<1>2. conn'[c] = "over" /\ \A d \in Connectors \ {c} : conn'[d] = conn[d]
  BY <1>1 DEF MemInv, LockInv, Typed
<1>3. \A d \in Connectors : tasks'[Addr[d]] = IF Addr[d] = Addr[c] THEN c ELSE tasks[Addr[d]]
  BY <1>1 DEF MemInv, LockInv, Typed, Keys
<1>4. \A d \in Connectors : Live(d)' <=> Live(d)
  BY <1>1 DEF Live
<1>5. Live(c) /\ \A d \in Connectors \ {c} : Live(d) => Addr[d] # Addr[c]
  BY DEF MemInv, Filed, NoTwins
<1>6. InOrder'
  BY <1>2, KeepOrder DEF MemInv
<1>7. Cancels'
  BY <1>1, KeepCancels DEF MemInv
<1>8. Registered'
  BY <1>1, <1>4 DEF MemInv, Registered
<1>9. Filed'
  <2>1. ASSUME NEW d \in Connectors
        PROVE  /\ tasks'[Addr[d]] = d => Live(d)'
               /\ Live(d)' => tasks'[Addr[d]] = d \/ conn'[d] = "third"
               /\ conn'[d] = "third" => Live(d)'
               /\ conn'[d] \in {"connecting", "second"} => sessions'[Addr[d]] = NoOne
    <3>1. /\ tasks[Addr[d]] = d => Live(d)
          /\ Live(d) => tasks[Addr[d]] = d \/ conn[d] = "third"
          /\ conn[d] = "third" => Live(d)
          /\ conn[d] \in {"connecting", "second"} => sessions[Addr[d]] = NoOne
      BY DEF MemInv, Filed
    <3>2. CASE d = c
      BY <1>2, <1>3, <1>4, <1>5, <3>2
    <3>3. CASE d # c
      BY <1>1, <1>2, <1>3, <1>4, <1>5, <3>1, <3>3
    <3> QED
      BY <3>2, <3>3
  <2> QED
    BY <2>1 DEF Filed
<1>10. FiledFirst' /\ Remembered'
  BY <1>1 DEF MemInv, FiledFirst, Remembered, Ordered
<1>11. NoTwins' /\ MaxRespected'
  BY <1>4, LiveShrinks DEF MemInv
<1> QED
  BY <1>6, <1>7, <1>8, <1>9, <1>10, <1>11 DEF MemInv

\* A cancellation reaches a task, or none does.
TaskUndoomed == doomed' \subseteq doomed /\ \A d \in Connectors : <<"conn", d>> \in doomed => <<"conn", d>> \in doomed'

\* _disconnect drops its own session and its own task.
LEMMA PopMem ==
  ASSUME MemInv, LockInv', NEW c \in Connectors, task[c] \in {"run", "pop"},
         down = "no" => conn[c] # "third" /\ Ordered(queue'),
         NEW q, PopSection(c, q), TaskUndoomed
  PROVE  MemInv'
<1>1. /\ sessions' = [sessions EXCEPT ![Addr[c]] = NoOne] /\ tasks' = [tasks EXCEPT ![Addr[c]] = NoOne]
      /\ task' = [task EXCEPT ![c] = "popped"] /\ closed' = closed \cup {c}
      /\ UNCHANGED <<conn, down, seen>>
  BY DEF PopSection
<1>2. task'[c] = "popped" /\ \A d \in Connectors \ {c} : task'[d] = task[d]
  BY <1>1 DEF MemInv, LockInv, Typed
<1>3. \A d \in Connectors :
        /\ tasks'[Addr[d]] = IF Addr[d] = Addr[c] THEN NoOne ELSE tasks[Addr[d]]
        /\ sessions'[Addr[d]] = IF Addr[d] = Addr[c] THEN NoOne ELSE sessions[Addr[d]]
  BY <1>1 DEF MemInv, LockInv, Typed, Keys
<1>4. Live(c) /\ ~Live(c)' /\ \A d \in Connectors \ {c} : Live(d)' <=> Live(d)
  BY <1>2 DEF Live
<1>5. \A d \in Connectors \ {c} : Live(d) => Addr[d] # Addr[c]
  BY <1>4 DEF MemInv, NoTwins
<1>6. \A d \in Connectors : d # NoOne
  BY MembershipAssumption
<1>7. InOrder'
  BY <1>1, KeepOrder DEF MemInv
<1>8. Cancels'
  BY <1>1 DEF MemInv, Cancels, TaskUndoomed, Working
<1>9. Registered'
  <2>1. ASSUME NEW d \in Connectors, down \in {"no", "snap"}
        PROVE  /\ Live(d)' <=> sessions'[Addr[d]] = d
               /\ task'[d] \in {"popped", "ended"} => d \in closed'
    <3>1. /\ Live(d) <=> sessions[Addr[d]] = d
          /\ task[d] \in {"popped", "ended"} => d \in closed
      BY <2>1 DEF MemInv, Registered
    <3>2. CASE d = c
      BY <1>1, <1>3, <1>4, <1>6, <3>2
    <3>3. CASE d # c
      BY <1>1, <1>2, <1>3, <1>4, <1>5, <1>6, <3>1, <3>3
    <3> QED
      BY <3>2, <3>3
  <2> QED
    BY <1>1, <2>1 DEF Registered
<1>10. Filed'
  <2>1. ASSUME NEW d \in Connectors, down = "no"
        PROVE  /\ tasks'[Addr[d]] = d => Live(d)'
               /\ Live(d)' => tasks'[Addr[d]] = d \/ conn'[d] = "third"
               /\ conn'[d] = "third" => Live(d)'
               /\ conn'[d] \in {"connecting", "second"} => sessions'[Addr[d]] = NoOne
    <3>1. /\ tasks[Addr[d]] = d => Live(d)
          /\ Live(d) => tasks[Addr[d]] = d \/ conn[d] = "third"
          /\ conn[d] = "third" => Live(d)
          /\ conn[d] \in {"connecting", "second"} => sessions[Addr[d]] = NoOne
      BY <2>1 DEF MemInv, Filed
    <3>2. CASE d = c
      BY <1>1, <1>3, <1>4, <1>6, <2>1, <3>1, <3>2
    <3>3. CASE d # c
      BY <1>1, <1>3, <1>4, <1>5, <1>6, <3>1, <3>3
    <3> QED
      BY <3>2, <3>3
  <2> QED
    BY <1>1, <2>1 DEF Filed
<1>11. FiledFirst'
  BY <1>1 DEF FiledFirst, Ordered
<1>12. Remembered'
  BY <1>1, <1>2 DEF MemInv, Remembered
<1>13. NoTwins' /\ MaxRespected'
  BY <1>4, LiveShrinks DEF MemInv
<1> QED
  BY <1>7, <1>8, <1>9, <1>10, <1>11, <1>12, <1>13 DEF MemInv

\* A task moves without touching the registry.  Only a cancelled one, after the
\* snapshot, stops without having removed itself.
LEMMA TaskMem ==
  ASSUME MemInv, LockInv', NEW c \in Connectors, task[c] # "none",
         NEW k \in {"run", "pop", "ended"}, task' = [task EXCEPT ![c] = k],
         k \in {"run", "pop"} => Live(c),
         down \in {"no", "snap"} /\ k = "ended" => task[c] = "popped",
         UNCHANGED <<conn, sessions, tasks, closed, down, seen>>, TaskUndoomed,
         down = "no" => Ordered(queue')
  PROVE  MemInv'
<1>2. task'[c] = k /\ \A d \in Connectors \ {c} : task'[d] = task[d]
  BY DEF MemInv, LockInv, Typed
<1>3. \A d \in Connectors : Live(d)' => Live(d)
  BY <1>2 DEF Live
<1>4. down \in {"no", "snap"} => \A d \in Connectors : Live(d) <=> Live(d)'
  BY <1>2 DEF Live
<1>5. \A d \in Connectors : task'[d] = "none" <=> task[d] = "none"
  BY <1>2
<1>7. InOrder'
  BY KeepOrder DEF MemInv
<1>8. Cancels'
  BY DEF MemInv, Cancels, TaskUndoomed, Working
<1>9. Registered'
  BY <1>2, <1>4 DEF MemInv, Registered
<1>10. Filed'
  BY <1>4 DEF MemInv, Filed
<1>11. FiledFirst'
  BY DEF FiledFirst, Ordered
<1>12. Remembered'
  BY <1>5 DEF MemInv, Remembered
<1>13. NoTwins' /\ MaxRespected'
  BY <1>3, LiveShrinks DEF MemInv
<1> QED
  BY <1>7, <1>8, <1>9, <1>10, <1>11, <1>12, <1>13 DEF MemInv

\* After shutdown has begun a connector at work is cancelled.
LEMMA AtWorkBefore ==
  ASSUME MemInv, NEW c \in Connectors, Working(c), <<"conn", c>> \notin doomed
  PROVE  down = "no"
  BY DEF MemInv, Cancels

\* The second section, with the lock in hand.
LEMMA SecondMem ==
  ASSUME DistinctLists, MemInv, LockInv', NEW c \in Connectors,
         conn[c] \in {"connecting", "second"}, down = "no", doomed' = doomed,
         NEW q \in Seq(Waiter), Rest(q, {<<"second", c>>}), Ordered(q), SecondSection(c, q)
  PROVE  MemInv'
<1>1. CASE Full
  <2>1. /\ conn' = [conn EXCEPT ![c] = "closing"] /\ closed' = closed \cup {c} /\ queue' = q
        /\ UNCHANGED <<task, sessions, tasks, down, seen>>
    BY <1>1 DEF SecondSection
  <2>2. conn'[c] = "closing" /\ \A d \in Connectors \ {c} : conn'[d] = conn[d]
    BY <2>1 DEF MemInv, LockInv, Typed
  <2>3. InOrder'
    BY <2>2, KeepOrder DEF MemInv
  <2>4. \A d \in Connectors :
          /\ conn'[d] = "third" <=> conn[d] = "third"
          /\ conn'[d] \in {"connecting", "second"} => sessions[Addr[d]] = NoOne
    BY <2>2 DEF MemInv, Filed
  <2> QED
    BY <2>1, <2>3, <2>4, ConnMem
<1>2. CASE ~Full
  <2>1. PICK k \in {"third", "over"} :
          /\ conn' = [conn EXCEPT ![c] = k]
          /\ sessions' = [sessions EXCEPT ![Addr[c]] = c] /\ task' = [task EXCEPT ![c] = "new"]
          /\ tasks' = IF k = "over" THEN [tasks EXCEPT ![Addr[c]] = c] ELSE tasks
          /\ queue' = q \/ queue' = Append(q, <<"third", c>>)
          /\ UNCHANGED <<closed, down, seen>>
    BY <1>2 DEF SecondSection
  <2>2. Ordered(queue')
    <3>1. <<"third", c>> \in Waiter
      BY DEF Waiter, Sections
    <3>2. <<"pop", c>> \notin ToSet(q)
      <4>1. task[c] = "none"
        BY DEF MemInv, LockInv, NoTaskYet
      <4>2. <<"pop", c>> \notin ToSet(queue)
        BY <4>1 DEF MemInv, LockInv, QueueIs
      <4> QED
        BY <4>2 DEF Rest
    <3>3. \A d \in Connectors : <<"third", c>> = <<"third", d>> => <<"pop", d>> \notin ToSet(q)
      BY <3>2
    <3> QED
      BY <2>1, <3>1, <3>3, OrderedAppend
  <2> QED
    BY <1>2, <2>1, <2>2, EntersMem
<1> QED
  BY <1>1, <1>2

\* The first section, with the lock in hand.
LEMMA FirstMem ==
  ASSUME MemInv, LockInv', InOrder', NEW C \in SUBSET Connectors, \A c \in C : conn[c] \in {"wait", "first"},
         down = "no", doomed' = doomed, NEW q, Ordered(q), FirstSection(C, q)
  PROVE  MemInv'
<1>1. /\ queue' = q /\ UNCHANGED <<task, sessions, tasks, closed, down, seen>>
      /\ \A c \in Connectors : conn'[c] =
           IF c \notin C THEN conn[c]
           ELSE IF Full \/ sessions[Addr[c]] # NoOne THEN "over" ELSE "connecting"
  BY DEF FirstSection
<1>2. ASSUME NEW d \in Connectors
      PROVE  /\ conn'[d] = "third" <=> conn[d] = "third"
             /\ conn'[d] \in {"connecting", "second"} => sessions[Addr[d]] = NoOne
  BY <1>1 DEF MemInv, Filed
<1> QED
  BY <1>1, <1>2, ConnMem

\* shutdown's snapshot holds every session that is not closed.
LEMMA SnapMem ==
  ASSUME MemInv, LockInv', down \in {"no", "snap"}, NEW q, NEW D, SnapSection(q, D),
         \A c \in Connectors : Working(c) <=> <<"conn", c>> \in D
  PROVE  MemInv'
<1>1. /\ seen' = [tasks |-> Entry(tasks), sessions |-> Entry(sessions)] /\ down' = "gather"
      /\ \A d \in Connectors : <<"conn", d>> \in doomed' <=> <<"conn", d>> \in D
      /\ UNCHANGED <<conn, task, sessions, tasks, closed>>
  BY DEF SnapSection
<1>2. \A d \in Connectors : Live(d)' <=> Live(d)
  BY <1>1 DEF Live
<1>3. Cancels'
  BY <1>1 DEF Cancels, Working
<1>4. Remembered'
  <2>1. ASSUME NEW d \in Connectors, task[d] # "none" PROVE d \in closed \/ d \in Entry(sessions)
    <3>1. CASE Live(d)
      <4>1. sessions[Addr[d]] = d /\ Addr[d] \in Keys /\ d # NoOne
        BY <3>1, MembershipAssumption DEF MemInv, Registered, Keys
      <4> QED
        BY <4>1 DEF Entry
    <3>2. CASE ~Live(d)
      <4>1. task[d] \in {"popped", "ended"}
        BY <2>1, <3>2 DEF MemInv, LockInv, Typed, Live
      <4> QED
        BY <4>1 DEF MemInv, Registered
    <3> QED
      BY <3>1, <3>2
  <2>2. seen'.sessions = Entry(sessions) /\ seen' \in Snapshot
    <3>1. Entry(sessions) \subseteq Connectors /\ Entry(tasks) \subseteq Connectors
      BY DEF MemInv, LockInv, Typed, Entry
    <3> QED
      BY <1>1, <3>1 DEF Snapshot
  <2> QED
    BY <1>1, <2>1, <2>2 DEF Remembered
<1>5. InOrder'
  BY <1>1, KeepOrder DEF MemInv
<1>6. Registered' /\ Filed' /\ FiledFirst'
  BY <1>1 DEF Registered, Filed, FiledFirst
<1>7. NoTwins' /\ MaxRespected'
  BY <1>2, LiveShrinks DEF MemInv
<1> QED
  BY <1>3, <1>4, <1>5, <1>6, <1>7 DEF MemInv

\* shutdown waits, closes or clears, when all that is left is closed.
LEMMA DownMem ==
  ASSUME MemInv, LockInv', UNCHANGED <<conn, task>>, closed \subseteq closed',
         seen' = seen \/ seen' \in Snapshot,
         \/ down = "no" /\ down' = "snap" /\ UNCHANGED <<sessions, closed>>
              /\ (\A c \in Connectors : Working(c) <=> <<"conn", c>> \in doomed')
              /\ (\A c \in Connectors : <<"task", c>> \notin doomed')
         \/ down = "gather" /\ down' = "gather" /\ doomed' = doomed
              /\ seen.sessions \subseteq seen'.sessions \cup closed'
         \/ down = "gather" /\ seen.sessions = {} /\ down' \in {"clear", "over"} /\ doomed' = doomed
         \/ down = "clear" /\ down' = "over" /\ doomed' = doomed
  PROVE  MemInv'
<1>1. \A d \in Connectors : (Live(d)' <=> Live(d)) /\ (Working(d)' <=> Working(d))
  BY DEF Live, Working
<1>2. Cancels'
  BY <1>1 DEF MemInv, Cancels
<1>3. Remembered'
  BY DEF MemInv, Remembered
<1>4. InOrder'
  BY KeepOrder DEF MemInv
<1>5. Registered'
  BY <1>1 DEF MemInv, Registered
<1>6. Filed' /\ FiledFirst'
  BY DEF Filed, FiledFirst
<1>7. NoTwins' /\ MaxRespected'
  BY <1>1, LiveShrinks DEF MemInv
<1> QED
  BY <1>2, <1>3, <1>4, <1>5, <1>6, <1>7 DEF MemInv

\* The lock is granted.
LEMMA GrantMem ==
  ASSUME DistinctLists, MemInv, LockInv', Grant
  PROVE  MemInv'
<1> DEFINE w == Head(queue)
           q == Tail(queue)
<1>1. /\ queue # << >>
      /\ \/ /\ w[1] \in Sections /\ <<"conn", w[2]>> \notin doomed
            /\ \/ w[1] = "first" /\ FirstSection({w[2]}, q)
               \/ w[1] = "second" /\ SecondSection(w[2], q)
               \/ w[1] = "third" /\ ThirdSection(w[2], q)
            /\ doomed' = doomed
         \/ w[1] = "pop" /\ PopSection(w[2], q) /\ doomed' = doomed
         \/ w[1] = "snap" /\ SnapSection(q, doomed)
         \/ w[1] = "clear" /\ ClearSection(q) /\ doomed' = doomed
  BY DEF Grant, Sections
<1>2. LockInv
  BY DEF MemInv
<1>3. Rest(q, {w}) /\ w \in Waiter /\ w \in ToSet(queue)
  BY <1>1, <1>2, RestHead
<1>4. down = "no" => Ordered(q)
  BY <1>1, <1>2, OrderedTail DEF MemInv, FiledFirst
<1>5. \/ w[1] \in Sections \cup {"pop"} /\ w[2] \in Connectors /\ w = <<w[1], w[2]>>
      \/ w[1] \in {"snap", "clear"} /\ w = <<w[1], NoOne>>
  BY <1>3 DEF Waiter
<1>6. queue \in Seq(Waiter) /\ queue[1] = w /\ 1 \in DOMAIN queue
  BY <1>1, <1>2 DEF LockInv, QueueIs
<1>7. q \in Seq(Waiter)
  BY <1>3 DEF Rest
<1> DEFINE c == w[2]
<1> HIDE DEF w, q
<1>8. CASE w[1] \in Sections /\ <<"conn", c>> \notin doomed /\ doomed' = doomed
  <2>1. c \in Connectors /\ w = <<w[1], c>> /\ conn[c] = w[1]
    <3>1. c \in Connectors /\ w = <<w[1], c>>
      BY <1>5, <1>8 DEF Sections
    <3> QED
      BY <1>2, <1>3, <1>8, <3>1 DEF LockInv, QueueIs
  <2>2. down = "no"
    BY <1>8, <2>1, AtWorkBefore DEF Working, Sections
  <2>3. CASE w[1] = "first" /\ FirstSection({c}, q)
    <3>1. InOrder'
      <4>1. \A d \in Connectors : conn'[d] = IF d # c THEN conn[d]
              ELSE IF Full \/ sessions[Addr[d]] # NoOne THEN "over" ELSE "connecting"
        BY <2>3 DEF FirstSection
      <4> QED
        BY <2>1, <2>3, <4>1, KeepOrder DEF MemInv
    <3> QED
      BY <1>4, <1>8, <2>1, <2>2, <2>3, <3>1, FirstMem
  <2>4. CASE w[1] = "second" /\ SecondSection(c, q)
    <3>1. Rest(q, {<<"second", c>>})
      BY <1>3, <2>1, <2>4
    <3> QED
      BY <1>4, <1>7, <1>8, <2>1, <2>2, <2>4, <3>1, SecondMem
  <2>5. CASE w[1] = "third" /\ ThirdSection(c, q)
    <3>1. Ordered(queue')
      BY <1>4, <2>2, <2>5 DEF ThirdSection
    <3> QED
      BY <1>8, <2>1, <2>2, <2>5, <3>1, ThirdMem
  <2> QED
    BY <1>1, <1>8, <2>3, <2>4, <2>5 DEF c, Sections
<1>9. CASE w[1] = "pop" /\ PopSection(c, q) /\ doomed' = doomed
  <2>1. c \in Connectors /\ w = <<"pop", c>>
    BY <1>5, <1>9
  <2>2. task[c] = "pop"
    BY <1>2, <1>3, <2>1 DEF LockInv, QueueIs
  <2>3. down = "no" => conn[c] # "third"
    <3> SUFFICES ASSUME down = "no", conn[c] = "third" PROVE FALSE
      OBVIOUS
    <3>1. <<"third", c>> \in ToSet(queue)
      BY <1>2, <2>1 DEF LockInv, QueueIs, Sections
    <3>2. PICK i \in DOMAIN queue : queue[i] = <<"third", c>>
      BY <3>1, Zenon DEF ToSet
    <3>3. i < 1
      BY <1>6, <2>1, <3>2 DEF MemInv, FiledFirst, Ordered
    <3> QED
      BY <1>6, <3>3
  <2>4. queue' = q /\ TaskUndoomed
    BY <1>9 DEF PopSection, TaskUndoomed
  <2> QED
    BY <1>4, <1>9, <2>1, <2>2, <2>3, <2>4, PopMem
<1>10. CASE w[1] = "snap" /\ SnapSection(q, doomed)
  <2>1. w = <<"snap", NoOne>>
    BY <1>5, <1>10 DEF Sections
  <2>2. down = "snap"
    BY <1>2, <1>3, <2>1 DEF LockInv, QueueIs
  <2> QED
    BY <1>10, <2>2, SnapMem DEF MemInv, Cancels
<1>11. CASE w[1] = "clear" /\ ClearSection(q) /\ doomed' = doomed
  <2>1. w = <<"clear", NoOne>>
    BY <1>5, <1>11 DEF Sections
  <2>2. down = "clear"
    BY <1>2, <1>3, <2>1 DEF LockInv, QueueIs
  <2> QED
    BY <1>11, <2>2, DownMem DEF ClearSection
<1> QED
  BY <1>1, <1>8, <1>9, <1>10, <1>11 DEF c

\* A list is given to add_peers.
LEMMA AddPeersMem ==
  ASSUME MemInv, LockInv', NEW n, AddPeers(n)
  PROVE  MemInv'
<1> DEFINE C == {c \in Connectors : List[c] = n}
<1>1. /\ down = "no" /\ C \in SUBSET Connectors /\ \A c \in C : conn[c] = "wait"
      /\ \A d \in Connectors : List[d] < n => conn[d] = "over"
      /\ doomed' = doomed
  BY DEF AddPeers
<1>2. \/ FirstSection(C, queue)
      \/ /\ Enqueue(SetToSeq({<<"first", c>> : c \in C}))
         /\ conn' = [c \in Connectors |-> IF c \in C THEN "first" ELSE conn[c]]
         /\ UNCHANGED <<task, down>>
  BY DEF AddPeers
<1>3. \A d \in Connectors \ C : conn'[d] = conn[d]
  BY <1>2 DEF FirstSection
<1>4. LockInv /\ Ordered(queue)
  BY <1>1 DEF MemInv, FiledFirst
<1>5. InOrder'
  <2>1. ASSUME NEW c \in Connectors, NEW d \in Connectors, conn'[c] # "wait", List[d] < List[c]
        PROVE  conn'[d] = "over"
    <3>1. conn[d] = "over"
      BY <1>1, <1>3, <2>1 DEF MemInv, InOrder
    <3> QED
      BY <1>1, <1>3, <3>1
  <2> QED
    BY <2>1 DEF InOrder
<1> HIDE DEF C
<1>6. CASE FirstSection(C, queue)
  BY <1>1, <1>4, <1>5, <1>6, FirstMem
<1>7. CASE /\ Enqueue(SetToSeq({<<"first", c>> : c \in C}))
           /\ conn' = [c \in Connectors |-> IF c \in C THEN "first" ELSE conn[c]]
           /\ UNCHANGED <<task, down>>
  <2>1. Join({<<"first", c>> : c \in C})
    BY <1>1, <1>4, <1>7, AddPeersWaits DEF Enqueue
  <2>2. Ordered(queue')
    <3>1. \A d \in Connectors : <<"third", d>> \notin {<<"first", c>> : c \in C}
      OBVIOUS
    <3> QED
      BY <1>4, <2>1, <3>1, OrderedJoin
  <2>3. ASSUME NEW d \in Connectors
        PROVE  /\ conn'[d] = "third" <=> conn[d] = "third"
               /\ conn'[d] \in {"connecting", "second"} => sessions[Addr[d]] = NoOne
    BY <1>1, <1>7 DEF MemInv, Filed
  <2> QED
    BY <1>1, <1>5, <1>7, <2>2, <2>3, ConnMem DEF Enqueue
<1> QED
  BY <1>2, <1>6, <1>7

\* A connection is made, fails or is closed under the lock.
LEMMA ConnectorMem ==
  ASSUME DistinctLists, MemInv, LockInv', NEW c \in Connectors,
         Connected(c) \/ ConnectFails(c) \/ ConnectorCloses(c)
  PROVE  MemInv'
<1>1. conn[c] \in {"connecting", "closing"} /\ <<"conn", c>> \notin doomed /\ doomed' = doomed
  BY DEF Connected, ConnectFails, ConnectorCloses
<1>2. down = "no"
  BY <1>1, AtWorkBefore DEF Working
<1>3. LockInv /\ Ordered(queue)
  BY <1>2 DEF MemInv, FiledFirst
<1>4. ASSUME NEW k \in {"second", "over"}, conn' = [conn EXCEPT ![c] = k],
             k = "second" => conn[c] = "connecting", Ordered(queue'),
             UNCHANGED <<task, sessions, tasks, closed, down, seen>>
      PROVE  MemInv'
  <2>1. conn'[c] = k /\ \A d \in Connectors \ {c} : conn'[d] = conn[d]
    BY <1>3, <1>4 DEF LockInv, Typed
  <2>2. InOrder'
    BY <1>1, <2>1, KeepOrder DEF MemInv
  <2>3. ASSUME NEW d \in Connectors
        PROVE  /\ conn'[d] = "third" <=> conn[d] = "third"
               /\ conn'[d] \in {"connecting", "second"} => sessions[Addr[d]] = NoOne
    BY <1>1, <1>2, <1>4, <2>1 DEF MemInv, Filed
  <2> QED
    BY <1>1, <1>2, <1>4, <2>2, <2>3, ConnMem
<1>5. CASE Connected(c) /\ LockFree(queue)
  <2>1. <<"second", c>> \notin ToSet(queue)
    BY <1>3, <1>5 DEF LockInv, QueueIs, Sections, Connected
  <2>2. Rest(queue, {<<"second", c>>}) /\ queue \in Seq(Waiter)
    BY <1>3, <2>1, RestFree DEF LockInv, QueueIs
  <2> QED
    BY <1>1, <1>2, <1>3, <1>5, <2>2, SecondMem DEF Connected
<1>6. CASE Connected(c) /\ ~LockFree(queue)
  <2>1. <<"second", c>> \notin ToSet(queue) /\ <<"second", c>> \in Waiter
    BY <1>3, <1>6 DEF LockInv, QueueIs, Sections, Connected, Waiter
  <2>2. Join({<<"second", c>>})
    BY <1>3, <1>6, <2>1, JoinOne DEF Connected, Enqueue
  <2>3. Ordered(queue')
    BY <1>3, <2>2, OrderedJoin
  <2> QED
    BY <1>4, <1>6, <2>3 DEF Connected, Enqueue
<1>7. CASE ConnectFails(c) \/ ConnectorCloses(c)
  <2>1. Ordered(queue')
    BY <1>3, <1>7 DEF ConnectFails, ConnectorCloses
  <2> QED
    BY <1>4, <1>7, <2>1 DEF ConnectFails, ConnectorCloses
<1> QED
  BY <1>5, <1>6, <1>7

\* A cancelled connector leaves.
LEMMA ConnectorCancelledMem ==
  ASSUME MemInv, LockInv', NEW c \in Connectors, ConnectorCancelled(c)
  PROVE  MemInv'
<1>1. /\ <<"conn", c>> \in doomed /\ conn' = [conn EXCEPT ![c] = "over"]
      /\ doomed' = doomed \ {<<"conn", c>>}
      /\ UNCHANGED <<task, sessions, tasks, closed, down, seen>>
  BY DEF ConnectorCancelled
<1>2. conn'[c] = "over" /\ \A d \in Connectors \ {c} : conn'[d] = conn[d]
  BY <1>1 DEF MemInv, LockInv, Typed
<1>3. down # "no" /\ down' # "no"
  BY <1>1 DEF MemInv, Cancels
<1>4. \A d \in Connectors : Live(d)' <=> Live(d)
  BY <1>1 DEF Live
<1>5. Working(c)
  BY <1>1, <1>3 DEF MemInv, Cancels
<1>6. InOrder'
  BY <1>2, <1>5, KeepOrder DEF MemInv, Working
<1>7. Cancels'
  <2>1. \A d \in Connectors : d # c => (Working(d)' <=> Working(d))
    BY <1>2 DEF Working
  <2>2. ~Working(c)'
    BY <1>2 DEF Working
  <2>3. \A d \in Connectors : <<"conn", d>> \in doomed' <=> <<"conn", d>> \in doomed /\ d # c
    BY <1>1
  <2>4. \A d \in Connectors : <<"task", d>> \in doomed' <=> <<"task", d>> \in doomed
    BY <1>1
  <2> QED
    BY <1>1, <1>3, <2>1, <2>2, <2>3, <2>4 DEF MemInv, Cancels
<1>8. Registered' /\ Remembered'
  BY <1>1, <1>4 DEF MemInv, Registered, Remembered
<1>9. Filed' /\ FiledFirst'
  BY <1>3 DEF Filed, FiledFirst
<1>10. NoTwins' /\ MaxRespected'
  BY <1>4, LiveShrinks DEF MemInv
<1> QED
  BY <1>6, <1>7, <1>8, <1>9, <1>10 DEF MemInv

\* _disconnect runs or waits for its turn.
LEMMA UnwindMem ==
  ASSUME MemInv, LockInv', NEW c \in Connectors, task[c] = "run", Unwind(c), TaskUndoomed
  PROVE  MemInv'
<1>1. LockInv /\ (down = "no" => Ordered(queue))
  BY DEF MemInv, FiledFirst
<1>2. CASE LockFree(queue)
  <2>1. queue = << >> /\ queue' = queue /\ PopSection(c, queue)
    BY <1>2 DEF Unwind, LockFree, PopSection
  <2>2. conn[c] # "third"
    <3>1. ToSet(queue) = {}
      BY <2>1 DEF ToSet
    <3> QED
      BY <1>1, <3>1 DEF LockInv, QueueIs, Sections
  <2> QED
    BY <1>1, <2>1, <2>2, PopMem
<1>3. CASE ~LockFree(queue)
  <2>1. /\ Enqueue(<< <<"pop", c>> >>) /\ task' = [task EXCEPT ![c] = "pop"]
        /\ conn' = conn /\ down' = down
    BY <1>3 DEF Unwind
  <2>2. <<"pop", c>> \notin ToSet(queue) /\ <<"pop", c>> \in Waiter
    BY <1>1 DEF LockInv, QueueIs, Waiter
  <2>3. Join({<<"pop", c>>}) /\ UNCHANGED <<sessions, tasks, closed, seen>>
    BY <1>1, <2>1, <2>2, JoinOne DEF Enqueue
  <2>4. down = "no" => Ordered(queue')
    BY <1>1, <2>3, OrderedJoin
  <2>5. Live(c)
    BY DEF Live
  <2> QED
    BY <2>1, <2>3, <2>4, <2>5, TaskMem
<1> QED
  BY <1>2, <1>3

\* The steps of a task.
LEMMA TaskStepMem ==
  ASSUME MemInv, LockInv', NEW c \in Connectors,
         TaskStarts(c) \/ TaskEnds(c) \/ TaskCloses(c) \/ TaskCancelled(c)
  PROVE  MemInv'
<1>1. LockInv /\ (down = "no" => Ordered(queue))
  BY DEF MemInv, FiledFirst
<1>2. CASE TaskStarts(c)
  <2>1. TaskUndoomed /\ Live(c) /\ queue' = queue
    BY <1>2 DEF TaskStarts, TaskUndoomed, Live
  <2> QED
    BY <1>1, <1>2, <2>1, TaskMem DEF TaskStarts
<1>3. CASE TaskEnds(c)
  <2>1. TaskUndoomed
    BY <1>3 DEF TaskEnds, TaskUndoomed
  <2> QED
    BY <1>3, <2>1, UnwindMem DEF TaskEnds
<1>4. CASE TaskCloses(c)
  <2>1. TaskUndoomed /\ queue' = queue
    BY <1>4 DEF TaskCloses, TaskUndoomed
  <2> QED
    BY <1>1, <1>4, <2>1, TaskMem DEF TaskCloses
<1>5. CASE TaskCancelled(c)
  <2>1. TaskUndoomed /\ <<"task", c>> \in doomed
    BY <1>5 DEF TaskCancelled, TaskUndoomed
  <2>2. down \notin {"no", "snap"}
    BY <2>1 DEF MemInv, Cancels
  <2>3. CASE task[c] = "run" /\ Unwind(c)
    BY <2>1, <2>3, UnwindMem
  <2>4. CASE ~(task[c] = "run" /\ Unwind(c))
    BY <1>5, <2>1, <2>2, <2>4, TaskMem DEF TaskCancelled
  <2> QED
    BY <2>3, <2>4
<1> QED
  BY <1>2, <1>3, <1>4, <1>5

\* The steps of shutdown.
LEMMA ShutdownMem ==
  ASSUME MemInv, LockInv', Shutdown \/ ShutdownClears \/ \E c \in Connectors : ShutdownCloses(c)
  PROVE  MemInv'
<1>1. CASE Shutdown
  <2> DEFINE D == {<<"conn", c>> : c \in {d \in Connectors : conn[d] \notin {"wait", "over"}}}
  <2>1. \A c \in Connectors : Working(c) <=> <<"conn", c>> \in D
    BY DEF Working
  <2>2. \A c \in Connectors : <<"task", c>> \notin D
    OBVIOUS
  <2>3. down = "no" /\ \/ SnapSection(queue, D)
                       \/ /\ Enqueue(<< <<"snap", NoOne>> >>)
                          /\ doomed' = D /\ down' = "snap" /\ UNCHANGED <<conn, task>>
    BY <1>1 DEF Shutdown
  <2> HIDE DEF D
  <2>4. CASE SnapSection(queue, D)
    BY <2>1, <2>3, <2>4, SnapMem
  <2>5. CASE /\ Enqueue(<< <<"snap", NoOne>> >>)
             /\ doomed' = D /\ down' = "snap" /\ UNCHANGED <<conn, task>>
    BY <2>1, <2>2, <2>3, <2>5, DownMem DEF Enqueue
  <2> QED
    BY <2>3, <2>4, <2>5
<1>2. CASE ShutdownClears
  <2>1. /\ down = "gather" /\ seen.sessions = {} /\ down' \in {"clear", "over"} /\ doomed' = doomed
        /\ UNCHANGED <<conn, task, closed, seen>>
    BY <1>2 DEF ShutdownClears, Gathered, ClearSection, Enqueue
  <2> QED
    BY <2>1, DownMem
<1>3. ASSUME NEW c \in Connectors, ShutdownCloses(c) PROVE MemInv'
  <2>1. /\ down = "gather" /\ down' = down /\ doomed' = doomed /\ UNCHANGED <<conn, task>>
        /\ closed' = closed \cup {c} /\ seen' = [seen EXCEPT !.sessions = @ \ {c}]
    BY <1>3 DEF ShutdownCloses, Gathered
  <2>2. seen.sessions \subseteq seen'.sessions \cup closed' /\ seen' \in Snapshot
    <3>1. seen \in Snapshot
      BY DEF MemInv, Remembered
    <3>2. seen' \in Snapshot /\ seen'.sessions = seen.sessions \ {c}
      BY <2>1, <3>1 DEF Snapshot
    <3> QED
      BY <2>1, <3>2
  <2> QED
    BY <2>1, <2>2, DownMem
<1> QED
  BY <1>1, <1>2, <1>3

\* Nobody is in the pool at the start.
LEMMA MemInvInit ==
  Init => MemInv
<1> SUFFICES ASSUME Init PROVE MemInv
  OBVIOUS
<1>1. /\ LockInv /\ down = "no" /\ doomed = {} /\ seen = [tasks |-> {}, sessions |-> {}]
      /\ \A c \in Connectors : conn[c] = "wait" /\ task[c] = "none" /\ ~Live(c)
      /\ \A c \in Connectors : sessions[Addr[c]] = NoOne /\ tasks[Addr[c]] = NoOne /\ c # NoOne
  BY LockInvInit, MembershipAssumption DEF Init, Live, Keys
<1>2. InOrder /\ Cancels /\ Registered /\ Filed /\ Remembered /\ NoTwins
  BY <1>1 DEF InOrder, Cancels, Registered, Filed, Remembered, Snapshot, NoTwins
<1>3. FiledFirst
  BY DEF Init, FiledFirst, Ordered
<1>4. MaxRespected
  <2>1. {c \in Connectors : Live(c)} = {}
    BY <1>1
  <2> QED
    BY <2>1, FS_EmptySet, MembershipAssumption DEF MaxRespected
<1> QED
  BY <1>1, <1>2, <1>3, <1>4 DEF MemInv

\* Every step.
LEMMA MemInvNext ==
  ASSUME DistinctLists
  PROVE  MemInv /\ [Next]_vars => MemInv'
<1> SUFFICES ASSUME MemInv, [Next]_vars PROVE MemInv'
  OBVIOUS
<1>1. LockInv'
  BY LockInvNext DEF MemInv
<1>2. CASE UNCHANGED vars
  <2>1. \A c \in Connectors : (Live(c)' <=> Live(c)) /\ (Working(c)' <=> Working(c))
    BY <1>2 DEF vars, Live, Working
  <2>2. InOrder' /\ Cancels' /\ Registered' /\ Filed' /\ Remembered'
    BY <1>2, <2>1 DEF vars, MemInv, InOrder, Cancels, Registered, Filed, Remembered
  <2>3. FiledFirst'
    BY <1>2 DEF vars, MemInv, FiledFirst, Ordered
  <2>4. NoTwins' /\ MaxRespected'
    BY <2>1, LiveShrinks DEF MemInv
  <2> QED
    BY <1>1, <2>2, <2>3, <2>4 DEF MemInv
<1>3. CASE Grant
  BY <1>1, <1>3, GrantMem
<1>4. CASE Shutdown \/ ShutdownClears
  BY <1>1, <1>4, ShutdownMem
<1>5. ASSUME NEW n, AddPeers(n) PROVE MemInv'
  BY <1>1, <1>5, AddPeersMem
<1>6. ASSUME NEW c \in Connectors, Step(c) PROVE MemInv'
  BY <1>1, <1>6, ConnectorMem, ConnectorCancelledMem, TaskStepMem, ShutdownMem DEF Step
<1> QED
  BY <1>2, <1>3, <1>4, <1>5, <1>6 DEF Next, Finished

\* The invariant holds throughout.
LEMMA MemInvAlways ==
  ASSUME DistinctLists
  PROVE  Spec => []MemInv
  BY MemInvInit, MemInvNext, PTL DEF Spec

\* Any number of connectors, lists and tasks, in any interleaving of their lock
\* sections: until shutdown, _sessions names exactly the sessions whose task has
\* not removed itself, and _tasks the same tasks or their connector is about to
\* file them.
THEOREM RegistryKept ==
  ASSUME DistinctLists
  PROVE  Spec => []RegistryExact
<1>1. MemInv => RegistryExact
  BY DEF MemInv, Registered, Filed, RegistryExact
<1> QED
  BY <1>1, MemInvAlways, PTL

\* The two tests of max_peers suffice: however many connections of a list pass
\* the first together, no more than max_peers tasks are ever at work.
THEOREM LimitKept ==
  ASSUME DistinctLists
  PROVE  Spec => []MaxRespected
<1>1. MemInv => MaxRespected
  BY DEF MemInv
<1> QED
  BY <1>1, MemInvAlways, PTL

\* An address is tested only before the connection is made, and yet never has
\* two tasks at work.
THEOREM AddressesDistinct ==
  ASSUME DistinctLists
  PROVE  Spec => []NoTwins
<1>1. MemInv => NoTwins
  BY DEF MemInv
<1> QED
  BY <1>1, MemInvAlways, PTL

\* shutdown loses no connection: whenever it is called and whatever it cuts
\* short, on its return every connection that got a task is closed.
THEOREM ShutdownClosesAll ==
  ASSUME DistinctLists
  PROVE  Spec => []ShutdownStops
<1>1. MemInv => ShutdownStops
  BY DEF MemInv, Remembered, ShutdownStops
<1> QED
  BY <1>1, MemInvAlways, PTL

=============================================================================
