----------------------------- MODULE MCStartup ------------------------------
EXTENDS Startup, Encoder

CONSTANT SHORT   \* bound: length of the arbitrary texts

x == FirstFree
Alphabet == {Blank, Plus, Minus, Zero, Zero + 1, Colon, Underscore, DictC, EndC, IntC, ListC}
ShortTexts == UNION {[1 .. n -> Alphabet] : n \in 0 .. SHORT}

\* Dictionaries with keys in any order, also twice, and lists around them.
Values  == {<<IntC, Minus, Zero + 1, EndC>>, <<Zero, Colon>>, <<ListC, DictC, EndC, EndC>>}
Entries == {<<Zero + 1, Colon, k>> \o v : k \in {x, x + 1}, v \in Values}
DictTexts == {<<DictC>> \o e \o f \o <<EndC>> : e \in Entries, f \in Entries}
LongTexts == {EncodeStr([k \in 1 .. n |-> x]) : n \in {9, 10, 11}} \cup {EncodeData(IntV(n)) : n \in {-120, 10, 99}}

\* Underscores between digits, and where int() does not accept them.
Gap(n) == [k \in 1 .. n |-> Underscore]
GroupedTexts ==
  {<<IntC>> \o s \o <<Zero + 1>> \o Gap(n) \o <<Zero, EndC>> : s \in {<< >>, <<Minus>>, Gap(1)}, n \in 1 .. 2}
  \cup {<<Zero + 1, Underscore, Zero, Colon>> \o [k \in 1 .. n |-> x] : n \in {9, 10}}

-----------------------------------------------------------------------------
(* Torrents *)

Url(scheme, host) == StrV(<<scheme, host>>)
Dict(pairs) == DictV([k \in {<<p[1]>> : p \in pairs} |-> (CHOOSE p \in pairs : <<p[1]>> = k)[2]])
Set(d, key, v)   == DictV(Assign(<<key>>, v, [k \in DOMAIN d.dict \ {<<key>>} |-> d.dict[k]]))
Without(d, key)  == DictV([k \in DOMAIN d.dict \ {<<key>>} |-> d.dict[k]])

File(n) == Dict({<<KeyLength, IntV(n)>>, <<KeyPath, ListV(<<StrV(<<x>>)>>)>>})

GoodInfo == Dict({<<KeyPieceLength, IntV(2)>>, <<KeyPieceHashes, StrV(<<x, x, x, x>>)>>,
                  <<KeyName, StrV(<<x>>)>>, <<KeyLength, IntV(3)>>})

\* One field is missing, or is what it should not be.
Infos ==
  {GoodInfo, Set(GoodInfo, KeyPieceHashes, StrV(<<x>>))}
  \cup {Without(GoodInfo, k) : k \in {KeyPieceLength, KeyPieceHashes, KeyName, KeyLength}}
  \cup {Set(GoodInfo, k, v) : k \in {KeyPieceLength, KeyPieceHashes, KeyLength},
                              v \in {IntV(0), IntV(-1), StrV(<< >>), ListV(<< >>)}}
  \cup {Set(GoodInfo, KeyFiles, v) :
          v \in {IntV(1), ListV(<< >>), ListV(<<File(1), File(2)>>), ListV(<<File(0)>>), ListV(<<File(-1)>>),
                 ListV(<<Without(File(1), KeyPath)>>), ListV(<<Set(File(1), KeyPath, ListV(<< >>))>>),
                 ListV(<<IntV(1)>>)}}

TorrentOf(announce, info) == Dict({<<KeyAnnounce, announce>>, <<KeyInfo, info>>})
Plain == TorrentOf(Url(Http, x), GoodInfo)

\* Trackers over HTTP and UDP in tiers, some of them twice, one without a host,
\* one that is skipped, and entries that are no URL.
Announces == {Url(Http, x), Url(Udp, x), Url(Wss, x), StrV(<<Udp>>), StrV(<< >>), IntV(1)}
TierLists ==
  { ListV(<<ListV(<<Url(Udp, x), Url(Http, x)>>), IntV(1), ListV(<<Url(Wss, x), Url(Udp, x)>>)>>),
    ListV(<<ListV(<<IntV(1), StrV(<<Udp>>)>>), ListV(<<Url(Http, x + 1)>>)>>),
    IntV(1) }

\* Comments in which the encoded key is found before the key.
Comments ==
  { StrV(InfoKey), StrV(InfoKey \o <<IntC, Zero + 1, EndC>>), StrV(<<x>>) }

Metas ==
  {TorrentOf(Url(Http, x), i) : i \in Infos}
  \cup {TorrentOf(a, GoodInfo) : a \in Announces}
  \cup {Set(TorrentOf(a, GoodInfo), KeyAnnounceList, l) : a \in {Url(Http, x), Url(Wss, x)}, l \in TierLists}
  \cup {Set(Plain, KeyComment, c) : c \in Comments}
  \cup {Without(Plain, KeyInfo), Without(Plain, KeyAnnounce), Set(Plain, KeyInfo, IntV(1)), ListV(<<Plain>>)}

\* Torrents whose key has a blank in its length, also with the key in a comment,
\* and one with two values for it.
Info == EncodeData(GoodInfo)
Announce == EncodeStr(<<KeyAnnounce>>) \o EncodeData(Url(Http, x))
BlankKey == <<Zero + 1, Blank, Colon, KeyInfo>>
KeyInComment == EncodeStr(<<KeyComment>>) \o EncodeStr(InfoKey \o <<IntC, Zero + 1, EndC>>)
OddTorrents ==
  { <<DictC>> \o Announce \o BlankKey \o Info \o <<EndC>>,
    <<DictC>> \o Announce \o KeyInComment \o BlankKey \o Info \o <<EndC>>,
    <<DictC>> \o Announce \o InfoKey \o Info \o InfoKey \o EncodeData(Set(GoodInfo, KeyLength, IntV(4))) \o <<EndC>> }

SomeFiles == ShortTexts \cup DictTexts \cup LongTexts \cup GroupedTexts \cup {EncodeData(m) : m \in Metas} \cup OddTorrents

-----------------------------------------------------------------------------
(* Answers over HTTP *)

Answer(peers) == Dict({<<KeyInterval, IntV(1)>>, <<KeyPeers, peers>>})
PeerOf(port)  == Dict({<<KeyIp, StrV(<<x>>)>>, <<KeyPort, port>>})
Compact(n)    == Answer(StrV([k \in 1 .. n |-> x]))

SomeBodies ==
  {<< >>} \cup
  {EncodeData(a) : a \in
    { Compact(0), Compact(6), Compact(7), Answer(IntV(0)), Set(Compact(6), KeyFailure, StrV(<< >>)),
      Set(Compact(6), KeyComplete, StrV(<<x>>)), Without(Compact(6), KeyInterval), ListV(<< >>),
      Answer(ListV(<<PeerOf(IntV(1)), PeerOf(StrV(<<Zero + 1>>))>>)), Answer(ListV(<<PeerOf(IntV(0))>>)) }}

-----------------------------------------------------------------------------

\* bencode.py: what the decoder makes of a text, the encoder writes in a text
\* that is not longer and is decoded to the same value; and among the texts
\* without blanks, plus signs, underscores and dictionaries (where int() and the
\* order of keys leave a choice) no two are decoded to the same value.
Codec ==
  main = "load" =>
    LET v == DecodeData(raw)
    IN  IsOk(v) =>
          /\ DecodeData(EncodeData(v)) = v
          /\ Len(EncodeData(v)) <= Len(raw)
          /\ ToSet(raw) \cap {Blank, Plus, Underscore, DictC} = {} => EncodeData(v) = raw
=============================================================================
