------------------------------ MODULE Metainfo ------------------------------
(***************************************************************************)
(* client/modules/torrentFileParser.py: from the bytes of a .torrent file  *)
(* to a TorrentFile, or an exception.  Text that the program only shows    *)
(* (name, comment, paths) is not kept.                                     *)
(***************************************************************************)
EXTENDS Bencode

CONSTANT HASH_LEN   \* bytes of a piece hash, 20 in the code

ASSUME HashLenAssumption == HASH_LEN \in Nat \ {0}

\* The keys, in the order of their names.
KeyAnnounce     == Letter
KeyAnnounceList == Letter + 1
KeyComment      == Letter + 2
KeyFiles        == Letter + 3
KeyInfo         == Letter + 4
KeyLength       == Letter + 5
KeyName         == Letter + 6
KeyPath         == Letter + 7
KeyPieceLength  == Letter + 8
KeyPieceHashes  == Letter + 9
FirstFree       == Letter + 10  \* letters that are no key

ParseError == [error |-> "TorrentParseError"]
None == [none |-> 0]

\* bool() of a value.
Truthy(v) ==
  CASE IsInt(v)  -> v.int # 0
    [] IsStr(v)  -> v.str # << >>
    [] IsList(v) -> v.list # << >>
    [] IsDict(v) -> DOMAIN v.dict # {}

\* d.get(key.encode()) or d.get(key): the decoder makes no str keys, so a value
\* that is zero or empty counts as missing.
Get(d, key) ==
  IF <<key>> \in DOMAIN d.dict /\ Truthy(d.dict[<<key>>]) THEN d.dict[<<key>>] ELSE None

\* Where raw has the encoded key "info", a string of one letter here.
InfoKey == <<Zero + 1, Colon, KeyInfo>>
InfoKeysAt(raw) ==
  {k \in 1 .. Len(raw) + 1 - Len(InfoKey) : SubSeq(raw, k, k + Len(InfoKey) - 1) = InfoKey}

\* Mutant: the slice starts at the key instead of behind it.
InfoStartAtKey(raw) == Min(InfoKeysAt(raw))

\* The value is taken to start behind the first place where the key is found.
InfoStart(raw) == Min(InfoKeysAt(raw)) + Len(InfoKey)

\* _compute_info_hash: the bytes that are hashed end where a decoder stops,
\* whose exception is not caught.
InfoSlice(raw) ==
  IF InfoKeysAt(raw) = {} THEN ParseError
  ELSE LET end == ParseNext(raw, InfoStart(raw)).at
       IN  IF end = 0 THEN Raised ELSE StrV(SubSeq(raw, InfoStart(raw), end - 1))

\* Bytes as text; str() of anything else is no URL.
Text(v) == IF IsStr(v) THEN v.str ELSE << >>

\* The URLs of the first n tiers of a list; what is not a list is passed over.
Urls(tier) == [u \in DOMAIN tier.list |-> Text(tier.list[u])]
FirstTiers(list) ==
  LET tiers[n \in 0 .. Len(list)] ==
        IF n = 0 THEN << >>
        ELSE IF IsList(list[n]) THEN Append(tiers[n - 1], Urls(list[n]))
        ELSE tiers[n - 1]
  IN  tiers
Tiers(v) == IF v # None /\ IsList(v) THEN FirstTiers(v.list)[Len(v.list)] ELSE << >>

\* Mutant: the sign is not tested.
AnyInt(v) == v # None /\ IsInt(v)

\* The tests of the piece length and of a file's length, before which a length
\* of zero has become None.
PositiveInt(v) == v # None /\ IsInt(v) /\ v.int > 0
NotNegative(v) == v # None /\ IsInt(v) /\ v.int >= 0

\* The tests of _parse_multi_file on an entry.
FileEntry(v) ==
  /\ IsDict(v)
  /\ NotNegative(Get(v, KeyLength))
  /\ Get(v, KeyPath) # None /\ IsList(Get(v, KeyPath))

\* The files of the info dictionary and the tests on them.
FilesOK(info) ==
  LET files == Get(info, KeyFiles)
  IN  \/ files = None /\ NotNegative(Get(info, KeyLength))
      \/ files # None /\ IsList(files) /\ \A k \in DOMAIN files.list : FileEntry(files.list[k])
FileLengths(info) ==
  LET files == Get(info, KeyFiles)
  IN  IF files = None THEN <<Get(info, KeyLength).int>>
                      ELSE [k \in DOMAIN files.list |-> Get(files.list[k], KeyLength).int]

InfoOK(info) ==
  /\ PositiveInt(Get(info, KeyPieceLength))
  /\ LET hashes == Get(info, KeyPieceHashes)
     IN  hashes # None /\ IsStr(hashes) /\ Len(hashes.str) % HASH_LEN = 0
  /\ Get(info, KeyName) # None
  /\ FilesOK(info)

\* _from_meta, with what _compute_info_hash makes of the bytes.
FromMeta(meta, hashed) ==
  LET info == Get(meta, KeyInfo)
  IN  IF ~IsOk(meta) \/ ~IsDict(meta) THEN ParseError
      ELSE IF Get(meta, KeyAnnounce) = None \/ info = None \/ ~IsDict(info) THEN ParseError
      ELSE IF ~IsStr(hashed) THEN hashed
      ELSE IF ~InfoOK(info) THEN ParseError
      ELSE [ announce     |-> Text(Get(meta, KeyAnnounce)),
             announceList |-> Tiers(Get(meta, KeyAnnounceList)),
             infoBytes    |-> hashed.str,
             pieceLength  |-> Get(info, KeyPieceLength).int,
             numPieces    |-> Len(Get(info, KeyPieceHashes).str) \div HASH_LEN,
             files        |-> FileLengths(info) ]

\* from_path.
FromBytes(raw) == FromMeta(DecodeData(raw), InfoSlice(raw))

IsTorrent(t) == t \notin {ParseError, Raised}
=============================================================================
