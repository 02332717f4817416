----------------------------- MODULE Ownership -----------------------------
(***************************************************************************)
(* What the tracker and the pool promise together: a piece is downloaded   *)
(* by one session at a time, a session gives up only what it holds, a      *)
(* verified piece is never touched again, and completion is signalled only *)
(* when every piece is verified.                                           *)
(***************************************************************************)
CONSTANTS Items, Holders, Free, Done  \* Free and Done are no holders

VARIABLES owner, signalled

Held(s) == {i \in Items : owner[i] = s}

Init == owner = [i \in Items |-> Free] /\ signalled = FALSE

Take(s, i) ==
  /\ owner[i] = Free
  /\ owner' = [owner EXCEPT ![i] = s]
  /\ UNCHANGED signalled

Finish(s, i) ==
  /\ owner[i] = s
  /\ owner' = [owner EXCEPT ![i] = Done]
  /\ UNCHANGED signalled

Release(s, R) ==
  /\ R \subseteq Held(s)
  /\ owner' = [i \in Items |-> IF i \in R THEN Free ELSE owner[i]]
  /\ UNCHANGED signalled

\* A piece that failed its hash is given up and another one taken.
Exchange(s, i, j) ==
  /\ owner[i] = s /\ owner[j] = Free
  /\ owner' = [owner EXCEPT ![i] = Free, ![j] = s]
  /\ UNCHANGED signalled

Signal ==
  /\ \A i \in Items : owner[i] = Done
  /\ signalled' = TRUE
  /\ UNCHANGED owner

Next ==
  \/ Signal
  \/ \E s \in Holders :
       \/ \E i \in Items : Take(s, i) \/ Finish(s, i)
       \/ \E R \in SUBSET Items : Release(s, R)
       \/ \E i, j \in Items : Exchange(s, i, j)

Spec == Init /\ [][Next]_<<owner, signalled>>

=============================================================================
