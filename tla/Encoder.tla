------------------------------ MODULE Encoder -------------------------------
(* client/modules/bencode.py: the encoder, over the values of Bencode.        *)
EXTENDS Bencode

RECURSIVE Decimal(_)
Decimal(n) == IF n < 0  THEN <<Minus>> \o Decimal(0 - n)
              ELSE IF n < 10 THEN <<Zero + n>>
              ELSE Append(Decimal(n \div 10), Zero + (n % 10))

EncodeStr(s) == Decimal(Len(s)) \o <<Colon>> \o s

\* The order of byte strings.
Before(s, t) ==
  \/ IsStrictPrefix(s, t)
  \/ \E k \in DOMAIN s \cap DOMAIN t : s[k] < t[k] /\ SubSeq(s, 1, k - 1) = SubSeq(t, 1, k - 1)

\* encoded_keys.sort().
Sorted(keys) ==
  FoldSet(LAMBDA k, s : SelectSeq(s, LAMBDA t : Before(t, k)) \o <<k>> \o SelectSeq(s, LAMBDA t : Before(k, t)),
          << >>, keys)

RECURSIVE EncodeData(_)
EncodeData(v) ==
  CASE IsInt(v)  -> <<IntC>> \o Decimal(v.int) \o <<EndC>>
    [] IsStr(v)  -> EncodeStr(v.str)
    [] IsList(v) -> <<ListC>> \o FlattenSeq([k \in DOMAIN v.list |-> EncodeData(v.list[k])]) \o <<EndC>>
    [] IsDict(v) -> LET keys == Sorted(DOMAIN v.dict)
                    IN  <<DictC>>
                          \o FlattenSeq([k \in DOMAIN keys |-> EncodeStr(keys[k]) \o EncodeData(v.dict[keys[k]])])
                          \o <<EndC>>
=============================================================================
