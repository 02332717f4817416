------------------------------ MODULE Bencode -------------------------------
(***************************************************************************)
(* client/modules/bencode.py: the decoder; the encoder is in Encoder.      *)
(*                                                                         *)
(* A byte is a number.  Bytes with a meaning in the grammar have the order *)
(* of their ASCII codes; everything a program puts into a string (a key, a *)
(* host, a hash) is a byte from Letter on.  A key such as "info" is one    *)
(* letter: what matters is that it is compared, sorted and searched for.   *)
(* Blank stands for the white space that int() strips.                     *)
(***************************************************************************)
EXTENDS Integers, SequencesExt

Blank  == 0
Plus   == 1
Minus  == 2
Zero   == 3     \* the digits are 3 .. 12
Colon  == 13
Underscore == 14
DictC  == 15    \* d
EndC   == 16    \* e
IntC   == 17    \* i
ListC  == 18    \* l
Letter == 19

Digits == Zero .. Zero + 9

\* Python values: int, bytes, list and dict, and an exception.
IntV(n)   == [int |-> n]
StrV(s)   == [str |-> s]
ListV(s)  == [list |-> s]
DictV(f)  == [dict |-> f]
Raised    == [error |-> "BencodeDecodeError"]

IsInt(v)  == DOMAIN v = {"int"}
IsStr(v)  == DOMAIN v = {"str"}
IsList(v) == DOMAIN v = {"list"}
IsDict(v) == DOMAIN v = {"dict"}
IsOk(v)   == v # Raised

-----------------------------------------------------------------------------
(* Numbers *)

\* int(): blanks around the number are stripped, a sign is allowed, and single
\* underscores between digits are passed over.
Stripped(raw) ==
  LET solid == {k \in DOMAIN raw : raw[k] # Blank}
  IN  IF solid = {} THEN << >> ELSE SubSeq(raw, Min(solid), Max(solid))
Signed(raw)   == Stripped(raw) # << >> /\ Head(Stripped(raw)) \in {Plus, Minus}
Unsigned(raw) == IF Signed(raw) THEN Tail(Stripped(raw)) ELSE Stripped(raw)
Grouped(text) ==
  \A k \in DOMAIN text :
    \/ text[k] \in Digits
    \/ text[k] = Underscore /\ \A j \in {k - 1, k + 1} : j \in DOMAIN text /\ text[j] \in Digits
IsNumber(raw) == Unsigned(raw) # << >> /\ Grouped(Unsigned(raw))
FirstDigits(digits) ==
  LET value[n \in 0 .. Len(digits)] ==
        IF n = 0 THEN 0
        ELSE IF digits[n] = Underscore THEN value[n - 1]
        ELSE 10 * value[n - 1] + (digits[n] - Zero)
  IN  value
NumberOf(raw) ==
  LET n == FirstDigits(Unsigned(raw))[Len(Unsigned(raw))]
  IN  IF Head(Stripped(raw)) = Minus THEN 0 - n ELSE n

\* Mutant: negative zero is let through.
IntTextSigned(raw) == IsNumber(raw) /\ ~(Len(raw) > 1 /\ Head(raw) = Zero)

\* The tests of _parse_int on the text between "i" and "e".
IntText(raw) ==
  /\ IsNumber(raw)
  /\ ~(Len(raw) > 1 /\ Head(raw) = Zero)
  /\ ~(Len(raw) > 1 /\ raw[1] = Minus /\ raw[2] = Zero)

\* The tests of _parse_string on the text before the colon.
LengthText(raw) == IsNumber(raw) /\ ~(Len(raw) > 1 /\ Head(raw) = Zero)

-----------------------------------------------------------------------------
(* The decoder.  at is _index, counted from 1; the result is the value and   *)
(* the index behind it.                                                      *)

Fail == [val |-> Raised, at |-> 0]

\* _read_until: the text from at to the delimiter, or no text.
Found(w, at, delimiter) == {k \in at .. Len(w) : w[k] = delimiter}

ParseInt(w, at) ==
  LET ends == Found(w, at + 1, EndC)
      raw  == SubSeq(w, at + 1, Min(ends) - 1)
  IN  IF ends # {} /\ IntText(raw) THEN [val |-> IntV(NumberOf(raw)), at |-> Min(ends) + 1]
                                   ELSE Fail

\* The length is not negative and the string ends within the text.
ParseString(w, at) ==
  LET ends  == Found(w, at, Colon)
      raw   == SubSeq(w, at, Min(ends) - 1)
      after == Min(ends) + 1 + NumberOf(raw)
  IN  IF ends # {} /\ LengthText(raw) /\ after \in Min(ends) + 1 .. Len(w) + 1
        THEN [val |-> StrV(SubSeq(w, Min(ends) + 1, after - 1)), at |-> after]
        ELSE Fail

\* parse is the decoder itself: what it makes of a value, of the rest of a list
\* or of the rest of a dictionary that starts at an index.
ParseValue(parse, w, at) ==
  IF at > Len(w) THEN Fail
  ELSE CASE w[at] = IntC      -> ParseInt(w, at)
         [] w[at] = ListC     -> parse[<<"items", at + 1>>]
         [] w[at] = DictC     -> parse[<<"entries", at + 1>>]
         [] w[at] \in Digits  -> ParseString(w, at)
         [] OTHER             -> Fail

\* The loop of _parse_list, from its round at this index on.
ParseItems(parse, w, at) ==
  LET item == parse[<<"value", at>>]
      rest == parse[<<"items", item.at>>]
  IN  IF at > Len(w) THEN Fail
      ELSE IF w[at] = EndC THEN [val |-> ListV(<< >>), at |-> at + 1]
      ELSE IF IsOk(item.val) /\ IsOk(rest.val)
             THEN [val |-> ListV(<<item.val>> \o rest.val.list), at |-> rest.at]
             ELSE Fail

\* result[key] = val before the rounds that make rest: keys may come in any
\* order, the last of equal keys wins.
Assign(k, v, rest) == [x \in DOMAIN rest \cup {k} |-> IF x \in DOMAIN rest THEN rest[x] ELSE v]

\* A round of the loop of _parse_dict with the key that stands at this index.
ParseEntry(parse, w, at, key) ==
  LET val  == parse[<<"value", key.at>>]
      rest == parse[<<"entries", val.at>>]
  IN  IF at > Len(w) THEN Fail
      ELSE IF w[at] = EndC THEN [val |-> DictV(<< >>), at |-> at + 1]
      ELSE IF w[at] \in Digits /\ IsOk(key.val) /\ IsOk(val.val) /\ IsOk(rest.val)
             THEN [val |-> DictV(Assign(key.val.str, val.val, rest.val.dict)), at |-> rest.at]
             ELSE Fail

\* The loop of _parse_dict.
ParseEntries(parse, w, at) == ParseEntry(parse, w, at, ParseString(w, at))

Parse(w) ==
  LET parse[x \in {"value", "items", "entries"} \X (1 .. Len(w) + 1)] ==
        CASE x[1] = "value"   -> ParseValue(parse, w, x[2])
          [] x[1] = "items"   -> ParseItems(parse, w, x[2])
          [] x[1] = "entries" -> ParseEntries(parse, w, x[2])
  IN  parse

\* _parse_next.
ParseNext(w, at) == Parse(w)[<<"value", at>>]

\* decode_data: nothing may be left over.
DecodeData(w) ==
  LET r == ParseNext(w, 1) IN IF r.at = Len(w) + 1 THEN r.val ELSE Raised
=============================================================================
