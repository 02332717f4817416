------------------------------ MODULE Tracker -------------------------------
(***************************************************************************)
(* client/modules/trackCommunication.py: the answers of trackers, the UDP  *)
(* exchange of UdpTrackerClient and the failover of TrackerClient.announce.*)
(*                                                                         *)
(*   none       no announce is under way                                   *)
(*   next       announce turns to the URL number at                        *)
(*   http       _do_announce waits for an HTTP answer                      *)
(*   connect, announce   a thread runs _announce_sync and waits for the    *)
(*              datagram that answers that request                         *)
(*                                                                         *)
(* The network loses, delays, reorders and repeats datagrams: at any time  *)
(* a thread may receive an answer to anything it has sent on its socket,   *)
(* again or for the first time, or nothing until its timeout.              *)
(***************************************************************************)
EXTENDS Metainfo

CONSTANTS
  COMPACT_LEN,  \* bytes of a compact peer, 6 in the code
  Bodies        \* what HTTP trackers may answer with status 200

\* The schemes of URLs, which are a scheme and perhaps a host.
Http == Letter + 20
Udp  == Letter + 21
Wss  == Letter + 22

KeyComplete == Letter + 23
KeyFailure  == Letter + 24
KeyInterval == Letter + 25
KeyIp       == Letter + 26
KeyPeers    == Letter + 27
KeyPort     == Letter + 28

NoAnswer == [error |-> "TrackerError"]

VARIABLE ann    \* the announce under way and the thread it may have started

Idle == [pc |-> "none", urls |-> << >>, at |-> 0, tried |-> << >>, sent |-> {}, answer |-> NoAnswer]

-----------------------------------------------------------------------------
(* TrackerResponse *)

\* int() of a value; of a list or a dict it raises TypeError.
IsIntLike(v) == IsInt(v) \/ (IsStr(v) /\ IsNumber(v.str))

\* A peer of the list: an empty ip and a port of zero count as missing.
PeerEntryOK(v) ==
  /\ IsDict(v)
  /\ Get(v, KeyIp) # None
  /\ Get(v, KeyPort) # None /\ IsIntLike(Get(v, KeyPort))

\* _parse_peers, _parse_compact_peers and _parse_dict_peers.
PeersOK(v) ==
  \/ IsStr(v) /\ Len(v.str) % COMPACT_LEN = 0
  \/ IsList(v) /\ \A k \in DOMAIN v.list : PeerEntryOK(v.list[k])
PeerCount(v) == IF IsStr(v) THEN Len(v.str) \div COMPACT_LEN ELSE Len(v.list)

\* _do_announce after status 200, and from_bencode: only the keys that are
\* missing count as missing.  KeyComplete stands for the three optional numbers.
FromBencode(v) ==
  IF /\ IsOk(v) /\ IsDict(v)
     /\ <<KeyFailure>> \notin DOMAIN v.dict
     /\ {<<KeyInterval>>, <<KeyPeers>>} \subseteq DOMAIN v.dict
     /\ PeersOK(v.dict[<<KeyPeers>>])
     /\ \A key \in {<<KeyInterval>>, <<KeyComplete>>} \cap DOMAIN v.dict : IsIntLike(v.dict[key])
    THEN [peers |-> PeerCount(v.dict[<<KeyPeers>>]), to |-> "http"]
    ELSE NoAnswer

-----------------------------------------------------------------------------
(* TrackerClient.announce *)

\* Schemes that announce knows; WebSocket URLs are skipped.
Usable(u) == u # << >> /\ Head(u) \in {Http, Udp}

\* The calls of _add: what is kept of the first n URLs.
Added(urls) ==
  LET added[n \in 0 .. Len(urls)] ==
        IF n = 0 THEN << >>
        ELSE IF Usable(urls[n]) /\ urls[n] \notin ToSet(added[n - 1]) THEN Append(added[n - 1], urls[n])
        ELSE added[n - 1]
  IN  added

\* _build_url_list: the announce URL and then the tiers, without repetition.
BuildUrlList(announce, tiers) ==
  LET urls == <<announce>> \o FlattenSeq(tiers) IN Added(urls)[Len(urls)]

Begin(urls) == [Idle EXCEPT !.pc = "next", !.urls = urls, !.at = 1]

\* Mutant: the first failure ends the announce.
GiveUp == [ann EXCEPT !.pc = "none", !.sent = {}]

\* An attempt has failed, whatever was raised: the next URL.  The socket is
\* closed, and with it goes what is still on its way.
NextUrl == [ann EXCEPT !.pc = "next", !.at = @ + 1, !.sent = {}]

Succeed(answer) == [ann EXCEPT !.pc = "none", !.answer = answer, !.sent = {}]

\* All URLs have failed: the last error is raised.
Exhausted ==
  /\ ann.pc = "next" /\ ann.at > Len(ann.urls)
  /\ ann' = [ann EXCEPT !.pc = "none"]

\* The next URL is tried.  A UDP URL without host or port fails at once, and so
\* does a host that is not resolved; otherwise the connect request is sent.
TryUrl ==
  LET url   == ann.urls[ann.at]
      tried == [ann EXCEPT !.tried = Append(@, url)]
  IN  /\ ann.pc = "next" /\ ann.at <= Len(ann.urls)
      /\ \/ /\ Head(url) = Http
            /\ ann' = [tried EXCEPT !.pc = "http"]
         \/ /\ Head(url) = Udp /\ Len(url) > 1
            /\ ann' = [tried EXCEPT !.pc = "connect", !.sent = {"connect"}]
         \/ /\ Head(url) = Udp
            /\ ann' = [tried EXCEPT !.at = @ + 1]

\* The answer has status 200; it is decoded and read, or rejected.
HttpAnswers(body) ==
  LET answer == FromBencode(DecodeData(body))
  IN  /\ ann.pc = "http"
      /\ ann' = IF answer = NoAnswer THEN NextUrl ELSE Succeed(answer)

\* Another status, a connection error or the timeout.
HttpFails == ann.pc = "http" /\ ann' = NextUrl

-----------------------------------------------------------------------------
(* _announce_sync.  A datagram answers the request of; its transaction id is  *)
(* that request's, and the random ids of two requests are taken to differ.    *)
(* error is ACTION_ERROR, size the number of bytes.                           *)

Datagrams ==
  [of : ann.sent, error : BOOLEAN, size : {8, 16, 20, 23, 26}]

\* What a tracker may answer: a connect answer has at least 16 bytes, an
\* announce answer 20 and a multiple of COMPACT_LEN, an error at least 8.
Genuine(d) ==
  \/ d.error
  \/ d.of = "connect" /\ d.size >= 16
  \/ d.of = "announce" /\ d.size >= 20

\* Mutant: the transaction id is not compared.
AcceptedUnmatched(d, request, size) == d.size >= size /\ ~d.error

\* The tests on a datagram that is received for a request.  The action is only
\* compared with ACTION_ERROR.
Accepted(d, request, size) == d.size >= size /\ ~d.error /\ d.of = request

\* recvfrom returns while the thread waits for the connect answer.
ReceiveConnect(d) ==
  /\ ann.pc = "connect" /\ Genuine(d)
  /\ ann' = IF Accepted(d, "connect", 16)
              THEN [ann EXCEPT !.pc = "announce", !.sent = @ \cup {"announce"}]
              ELSE NextUrl

\* recvfrom returns while the thread waits for the announce answer.
ReceiveAnnounce(d) ==
  /\ ann.pc = "announce" /\ Genuine(d)
  /\ ann' = IF Accepted(d, "announce", 20) /\ (d.size - 20) % COMPACT_LEN = 0
              THEN Succeed([peers |-> (d.size - 20) \div COMPACT_LEN, to |-> d.of])
              ELSE NextUrl

\* Mutant: the socket has no timeout.
NoTimeout == FALSE

\* Nothing came within the timeout, or the socket failed.
UdpFails == ann.pc \in {"connect", "announce"} /\ ann' = NextUrl

\* What announce does without any answer from the network.
Unanswered == TryUrl \/ Exhausted \/ HttpFails \/ UdpFails

AnnounceStep ==
  \/ Unanswered
  \/ \E b \in Bodies : HttpAnswers(b)
  \/ \E d \in Datagrams : ReceiveConnect(d) \/ ReceiveAnnounce(d)
=============================================================================
