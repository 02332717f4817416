------------------------------- MODULE MCWire -------------------------------
(* Ticks of five seconds: 15 s before the unchoke, 5 s idle, 30 s busy.       *)
EXTENDS Wire

SourceDeadlines == [init |-> 3, idle |-> 1, busy |-> 6]

HaveOf(i) == Message(Have, <<i>>, << >>)
Bare(id)  == Message(id, << >>, << >>)
Block     == Message(Piece, <<1, 0>>, <<7, 0>>)

\* One message of each kind, in some order a peer may choose; messages that do
\* not decode; more announcements than are awaited before the unchoke; and a
\* peer that never unchokes.
AnyScripts ==
  { <<Message(Bitfield, << >>, <<96>>), Bare(Unchoke), HaveOf(0), HaveOf(1)>>,
    <<HaveOf(0), Bare(Choke), Bare(Unchoke), Block, KeepAlive, Bare(Choke), Bare(Unchoke)>>,
    <<KeepAlive, Bare(Interested), Bare(Unchoke), Message(Request, <<0, 0, 2>>, << >>), Bare(NotInterested)>>,
    <<Bare(Unchoke), Message(Cancel, <<0, 0, 2>>, << >>), Message(Have, <<1>>, <<0>>), HaveOf(0)>>,
    <<Bare(Unchoke), Message(20, << >>, <<0>>), HaveOf(0)>>,
    <<Bare(Unchoke), Message(Piece, <<1>>, <<0>>), HaveOf(0)>>,
    <<HaveOf(0), HaveOf(1), KeepAlive, Bare(Unchoke), Block>>,
    <<Bare(Choke), HaveOf(0)>> }

TwoHaves == {<<Bare(Unchoke), HaveOf(0), HaveOf(1)>>}
=============================================================================
