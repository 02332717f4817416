---------------------------- MODULE StartupProofs ---------------------------
(***************************************************************************)
(* Proofs about Startup: a torrent that is accepted is usable and its info *)
(* hash is that of the parsed value, an announce tries every URL once and  *)
(* takes no answer but its own, and nothing follows main's stop.           *)
(*                                                                         *)
(* Files may hold any bytes, so the decoder is reasoned about as it is: a  *)
(* recursive function over the places of the text.  What it makes of a     *)
(* place depends on later places only (RoundSame), hence its equations     *)
(* hold (ParseRounds), and facts about all it returns are shown by         *)
(* counting places from the end of the text (CountUp).                     *)
(***************************************************************************)
EXTENDS Startup, ListLemmas

LEMMA Distinct ==
  ASSUME NEW n, NEW s, NEW l, NEW f
  PROVE  /\ IntV(n) # Raised /\ StrV(s) # Raised /\ ListV(l) # Raised /\ DictV(f) # Raised
         /\ IsInt(IntV(n)) /\ IsStr(StrV(s)) /\ IsList(ListV(l)) /\ IsDict(DictV(f))
         /\ ~IsInt(StrV(s)) /\ ~IsInt(ListV(l)) /\ ~IsInt(DictV(f))
         /\ ~IsStr(IntV(n)) /\ ~IsStr(ListV(l)) /\ ~IsStr(DictV(f))
         /\ ~IsList(IntV(n)) /\ ~IsList(StrV(s)) /\ ~IsList(DictV(f))
         /\ ~IsDict(IntV(n)) /\ ~IsDict(StrV(s)) /\ ~IsDict(ListV(l))
BY DEF IntV, StrV, ListV, DictV, Raised, IsInt, IsStr, IsList, IsDict

LEMMA Fields ==
  ASSUME NEW n, NEW s, NEW l, NEW f
  PROVE  IntV(n).int = n /\ StrV(s).str = s /\ ListV(l).list = l /\ DictV(f).dict = f
BY DEF IntV, StrV, ListV, DictV

LEMMA ParseStringResult ==
  ASSUME NEW w \in Seq(Nat), NEW at \in 1 .. Len(w) + 1
  PROVE  \/ ParseString(w, at) = Fail
         \/ \E s \in Seq(Nat), q \in at + 1 .. Len(w) + 1 :
              ParseString(w, at) = [val |-> StrV(s), at |-> q]
<1> DEFINE ends  == Found(w, at, Colon)
           m     == Min(ends)
           raw0  == SubSeq(w, at, m - 1)
           after == m + 1 + NumberOf(raw0)
           s     == SubSeq(w, m + 1, after - 1)
<1> SUFFICES ASSUME ParseString(w, at) # Fail
             PROVE  \E t \in Seq(Nat), q \in at + 1 .. Len(w) + 1 :
                      ParseString(w, at) = [val |-> StrV(t), at |-> q]
  OBVIOUS
<1>1. /\ ends # {} /\ after \in m + 1 .. Len(w) + 1
      /\ ParseString(w, at) = [val |-> StrV(s), at |-> after]
  BY Zenon DEF ParseString
<1>2. m \in at .. Len(w)
  <2>1. ends \in SUBSET Nat /\ \A k \in ends : k \in at .. Len(w)
    BY DEF Found
  <2> HIDE DEF ends
  <2> QED
    BY <1>1, <2>1, MinElement
<1>3. after \in at + 1 .. Len(w) + 1 /\ s \in Seq(Nat)
  <2> HIDE DEF after, m
  <2> QED
    BY <1>1, <1>2
<1> HIDE DEF after, s
<1> QED
  BY <1>1, <1>3

LEMMA ParseIntResult ==
  ASSUME NEW w \in Seq(Nat), NEW at \in 1 .. Len(w) + 1
  PROVE  \/ ParseInt(w, at) = Fail
         \/ \E n, q : q \in at + 1 .. Len(w) + 1 /\ ParseInt(w, at) = [val |-> IntV(n), at |-> q]
<1> DEFINE ends  == Found(w, at + 1, EndC)
           m     == Min(ends)
           n     == NumberOf(SubSeq(w, at + 1, m - 1))
<1> SUFFICES ASSUME ParseInt(w, at) # Fail
             PROVE  \E i, q : q \in at + 1 .. Len(w) + 1 /\ ParseInt(w, at) = [val |-> IntV(i), at |-> q]
  OBVIOUS
<1>1. ends # {} /\ ParseInt(w, at) = [val |-> IntV(n), at |-> m + 1]
  BY Zenon DEF ParseInt
<1>2. m + 1 \in at + 1 .. Len(w) + 1
  <2>1. ends \in SUBSET Nat /\ \A k \in ends : k \in at + 1 .. Len(w)
    BY DEF Found
  <2> HIDE DEF ends
  <2>2. m \in at + 1 .. Len(w)
    BY <1>1, <2>1, MinElement
  <2> HIDE DEF m
  <2> QED
    BY <2>2
<1> HIDE DEF m, n
<1> QED
  BY <1>1, <1>2

-----------------------------------------------------------------------------
(* The decoder as a function: what it makes of a place depends on what it    *)
(* makes of later places only, so that the recursive function exists.        *)

Kinds  == {"value", "items", "entries"}
Places(w) == Kinds \X (1 .. Len(w) + 1)

\* One round of the decoder, g standing for the decoder.
Round(g, w, k, at) ==
  CASE k = "value"   -> ParseValue(g, w, at)
    [] k = "items"   -> ParseItems(g, w, at)
    [] k = "entries" -> ParseEntries(g, w, at)

\* A value that is accepted ends behind at, within the text.
Ahead(r, at, w) == IsOk(r.val) => r.at \in at + 1 .. Len(w) + 1

AheadFrom(g, w, q) == \A k \in Kinds, at \in q .. Len(w) + 1 : Ahead(g[<<k, at>>], at, w)

AgreeFrom(g, h, w, q) == \A k \in Kinds, at \in q .. Len(w) + 1 : g[<<k, at>>] = h[<<k, at>>]

LEMMA FailAhead ==
  ASSUME NEW w, NEW at
  PROVE  Ahead(Fail, at, w) /\ ~IsOk(Fail.val)
BY DEF Ahead, Fail, IsOk

LEMMA ParseStringAhead ==
  ASSUME NEW w \in Seq(Nat), NEW at \in 1 .. Len(w) + 1
  PROVE  Ahead(ParseString(w, at), at, w)
<1>1. CASE ParseString(w, at) = Fail
  BY <1>1, FailAhead
<1>2. CASE ParseString(w, at) # Fail
  <2>1. PICK s \in Seq(Nat), q \in at + 1 .. Len(w) + 1 : ParseString(w, at) = [val |-> StrV(s), at |-> q]
    BY <1>2, ParseStringResult
  <2> QED
    BY <2>1 DEF Ahead
<1> QED
  BY <1>1, <1>2

LEMMA ParseValueAhead ==
  ASSUME NEW w \in Seq(Nat), NEW at \in 1 .. Len(w) + 1, NEW g, AheadFrom(g, w, at + 1)
  PROVE  Ahead(ParseValue(g, w, at), at, w)
<1>1. CASE at > Len(w)
  BY <1>1, FailAhead DEF ParseValue
<1>2. CASE ~(at > Len(w))
  <2>1. at + 1 \in at + 1 .. Len(w) + 1
    BY <1>2
  <2>2. Ahead(ParseInt(w, at), at, w)
    BY ParseIntResult, FailAhead DEF Ahead
  <2>3. Ahead(ParseString(w, at), at, w)
    BY ParseStringAhead
  <2>4. ASSUME NEW k \in Kinds PROVE Ahead(g[<<k, at + 1>>], at, w)
    <3>1. Ahead(g[<<k, at + 1>>], at + 1, w)
      BY <2>1 DEF AheadFrom
    <3> QED
      BY <3>1 DEF Ahead
  <2>5. \/ ParseValue(g, w, at) = ParseInt(w, at)
        \/ ParseValue(g, w, at) = g[<<"items", at + 1>>]
        \/ ParseValue(g, w, at) = g[<<"entries", at + 1>>]
        \/ ParseValue(g, w, at) = ParseString(w, at)
        \/ ParseValue(g, w, at) = Fail
    BY <1>2 DEF ParseValue
  <2> QED
    BY <2>2, <2>3, <2>4, <2>5, FailAhead DEF Kinds
<1> QED
  BY <1>1, <1>2

LEMMA ParseItemsAhead ==
  ASSUME NEW w \in Seq(Nat), NEW at \in 1 .. Len(w) + 1, NEW g, AheadFrom(g, w, at + 1),
         Ahead(g[<<"value", at>>], at, w)
  PROVE  Ahead(ParseItems(g, w, at), at, w)
<1> DEFINE item == g[<<"value", at>>]
           rest == g[<<"items", item.at>>]
           l    == ListV(<<item.val>> \o rest.val.list)
<1>1. \/ ParseItems(g, w, at) = Fail
      \/ at <= Len(w) /\ ParseItems(g, w, at) = [val |-> ListV(<< >>), at |-> at + 1]
      \/ IsOk(item.val) /\ IsOk(rest.val) /\ ParseItems(g, w, at) = [val |-> l, at |-> rest.at]
  <2>1. at <= Len(w) \/ at > Len(w)
    OBVIOUS
  <2> QED
    BY <2>1, Zenon DEF ParseItems
<1>2. ASSUME IsOk(item.val), IsOk(rest.val) PROVE rest.at \in at + 1 .. Len(w) + 1
  <2>1. item.at \in at + 1 .. Len(w) + 1
    BY <1>2 DEF Ahead
  <2>2. Ahead(rest, item.at, w)
    BY <2>1 DEF AheadFrom, Kinds
  <2> HIDE DEF item, rest
  <2> QED
    BY <1>2, <2>1, <2>2 DEF Ahead
<1> DEFINE r == ParseItems(g, w, at)
<1> HIDE DEF l, item, rest, r
<1>3. ASSUME r = Fail PROVE Ahead(r, at, w)
  BY <1>3, FailAhead
<1>4. ASSUME at <= Len(w), r = [val |-> ListV(<< >>), at |-> at + 1] PROVE Ahead(r, at, w)
  <2>1. r.at = at + 1 /\ at + 1 \in at + 1 .. Len(w) + 1
    BY <1>4
  <2> QED
    BY <2>1 DEF Ahead
<1>5. ASSUME IsOk(item.val), IsOk(rest.val), r = [val |-> l, at |-> rest.at] PROVE Ahead(r, at, w)
  <2>1. r.at = rest.at
    BY <1>5
  <2> QED
    BY <1>2, <1>5, <2>1, Zenon DEF Ahead
<1>6. Ahead(r, at, w)
  BY <1>1, <1>3, <1>4, <1>5 DEF r
<1> QED
  BY <1>6 DEF r

LEMMA ParseEntriesAhead ==
  ASSUME NEW w \in Seq(Nat), NEW at \in 1 .. Len(w) + 1, NEW g, AheadFrom(g, w, at + 1)
  PROVE  Ahead(ParseEntries(g, w, at), at, w)
<1> DEFINE key  == ParseString(w, at)
           val  == g[<<"value", key.at>>]
           rest == g[<<"entries", val.at>>]
           d    == DictV(Assign(key.val.str, val.val, rest.val.dict))
<1>1. \/ ParseEntries(g, w, at) = Fail
      \/ at <= Len(w) /\ ParseEntries(g, w, at) = [val |-> DictV(<< >>), at |-> at + 1]
      \/ /\ IsOk(key.val) /\ IsOk(val.val) /\ IsOk(rest.val)
         /\ ParseEntries(g, w, at) = [val |-> d, at |-> rest.at]
  <2>1. at <= Len(w) \/ at > Len(w)
    OBVIOUS
  <2> QED
    BY <2>1, Zenon DEF ParseEntries, ParseEntry
<1>2. ASSUME IsOk(key.val), IsOk(val.val), IsOk(rest.val) PROVE rest.at \in at + 1 .. Len(w) + 1
  <2>1. key.at \in at + 1 .. Len(w) + 1
    BY <1>2, ParseStringAhead DEF Ahead
  <2>2. Ahead(val, key.at, w)
    BY <2>1 DEF AheadFrom, Kinds
  <2> HIDE DEF val, key
  <2>3. val.at \in at + 1 .. Len(w) + 1
    BY <1>2, <2>1, <2>2 DEF Ahead
  <2>4. Ahead(rest, val.at, w)
    BY <2>3 DEF AheadFrom, Kinds
  <2> HIDE DEF rest
  <2> QED
    BY <1>2, <2>3, <2>4 DEF Ahead
<1> HIDE DEF d, key, val, rest
<1> QED
  BY <1>1, <1>2, FailAhead DEF Ahead

LEMMA ParseValueSame ==
  ASSUME NEW w \in Seq(Nat), NEW at \in 1 .. Len(w) + 1, NEW g, NEW h, AgreeFrom(g, h, w, at + 1)
  PROVE  ParseValue(g, w, at) = ParseValue(h, w, at)
<1>1. CASE at > Len(w)
  BY <1>1 DEF ParseValue
<1>2. CASE ~(at > Len(w))
  <2>1. at + 1 \in at + 1 .. Len(w) + 1
    BY <1>2
  <2>2. g[<<"items", at + 1>>] = h[<<"items", at + 1>>] /\ g[<<"entries", at + 1>>] = h[<<"entries", at + 1>>]
    BY <2>1 DEF AgreeFrom, Kinds
  <2> QED
    BY <2>2 DEF ParseValue
<1> QED
  BY <1>1, <1>2

LEMMA ParseItemsSame ==
  ASSUME NEW w \in Seq(Nat), NEW at \in 1 .. Len(w) + 1, NEW g, NEW h, AgreeFrom(g, h, w, at + 1),
         g[<<"value", at>>] = h[<<"value", at>>], Ahead(g[<<"value", at>>], at, w)
  PROVE  ParseItems(g, w, at) = ParseItems(h, w, at)
<1> DEFINE item == g[<<"value", at>>]
<1>1. CASE IsOk(item.val)
  <2>1. item.at \in at + 1 .. Len(w) + 1
    BY <1>1 DEF Ahead
  <2>2. g[<<"items", item.at>>] = h[<<"items", item.at>>]
    BY <2>1 DEF AgreeFrom, Kinds
  <2> QED
    BY <2>2, Zenon DEF ParseItems
<1>2. CASE ~IsOk(item.val)
  <2>1. ParseItems(g, w, at) = IF at > Len(w) THEN Fail
                               ELSE IF w[at] = EndC THEN [val |-> ListV(<< >>), at |-> at + 1] ELSE Fail
    BY <1>2, Zenon DEF ParseItems
  <2>2. ParseItems(h, w, at) = IF at > Len(w) THEN Fail
                               ELSE IF w[at] = EndC THEN [val |-> ListV(<< >>), at |-> at + 1] ELSE Fail
    BY <1>2, Zenon DEF ParseItems
  <2> QED
    BY <2>1, <2>2
<1> QED
  BY <1>1, <1>2

LEMMA ParseEntriesSame ==
  ASSUME NEW w \in Seq(Nat), NEW at \in 1 .. Len(w) + 1, NEW g, NEW h, AgreeFrom(g, h, w, at + 1),
         AheadFrom(g, w, at + 1)
  PROVE  ParseEntries(g, w, at) = ParseEntries(h, w, at)
<1> DEFINE key == ParseString(w, at)
           val == g[<<"value", key.at>>]
           Halt(r) == r = IF at > Len(w) THEN Fail
                          ELSE IF w[at] = EndC THEN [val |-> DictV(<< >>), at |-> at + 1] ELSE Fail
<1>1. CASE IsOk(key.val)
  <2>1. key.at \in at + 1 .. Len(w) + 1
    BY <1>1, ParseStringAhead DEF Ahead
  <2>2. g[<<"value", key.at>>] = h[<<"value", key.at>>] /\ Ahead(val, key.at, w)
    BY <2>1 DEF AgreeFrom, AheadFrom, Kinds
  <2>3. CASE IsOk(val.val)
    <3>1. val.at \in at + 1 .. Len(w) + 1
      <4> HIDE DEF val, key
      <4> QED
        BY <2>1, <2>2, <2>3 DEF Ahead
    <3>2. g[<<"entries", val.at>>] = h[<<"entries", val.at>>]
      BY <3>1 DEF AgreeFrom, Kinds
    <3> QED
      BY <2>2, <3>2, Zenon DEF ParseEntries, ParseEntry
  <2>4. CASE ~IsOk(val.val)
    <3>1. Halt(ParseEntries(g, w, at))
      BY <2>4, Zenon DEF ParseEntries, ParseEntry
    <3>2. Halt(ParseEntries(h, w, at))
      BY <2>2, <2>4, Zenon DEF ParseEntries, ParseEntry
    <3> QED
      BY <3>1, <3>2
  <2> QED
    BY <2>3, <2>4
<1>2. CASE ~IsOk(key.val)
  <2>1. Halt(ParseEntries(g, w, at))
    BY <1>2, Zenon DEF ParseEntries, ParseEntry
  <2>2. Halt(ParseEntries(h, w, at))
    BY <1>2, Zenon DEF ParseEntries, ParseEntry
  <2> QED
    BY <2>1, <2>2
<1> QED
  BY <1>1, <1>2

\* A round uses what the decoder makes of later places only.
LEMMA RoundSame ==
  ASSUME NEW w \in Seq(Nat), NEW at \in 1 .. Len(w) + 1, NEW g, NEW h, NEW k \in Kinds,
         AgreeFrom(g, h, w, at + 1), AheadFrom(g, w, at + 1),
         g[<<"value", at>>] = h[<<"value", at>>], Ahead(g[<<"value", at>>], at, w)
  PROVE  Round(g, w, k, at) = Round(h, w, k, at)
<1>1. ParseValue(g, w, at) = ParseValue(h, w, at)
  BY ParseValueSame
<1>2. ParseItems(g, w, at) = ParseItems(h, w, at)
  BY ParseItemsSame
<1>3. ParseEntries(g, w, at) = ParseEntries(h, w, at)
  BY ParseEntriesSame
<1> QED
  BY <1>1, <1>2, <1>3 DEF Round, Kinds

\* The decoder's recursion is well founded: each place has the value that a
\* round of the decoder gives it, and accepted values end behind their start.
LEMMA ParseRounds ==
  ASSUME NEW w \in Seq(Nat)
  PROVE  /\ \A k \in Kinds, at \in 1 .. Len(w) + 1 : Parse(w)[<<k, at>>] = Round(Parse(w), w, k, at)
         /\ AheadFrom(Parse(w), w, 1)
<1> DEFINE M == Len(w) + 1
           Full(g) == g = [x \in Places(w) |-> g[x]]
           Solved(g, q) == \A k \in Kinds, at \in q .. M : g[<<k, at>>] = Round(g, w, k, at)
           Solves(g, q) == Full(g) /\ AheadFrom(g, w, q) /\ Solved(g, q)
           G == {n \in 0 .. M : \E g : Solves(g, M + 1 - n)}
<1>0. M \in Nat /\ M >= 1
  OBVIOUS
<1>1. 0 \in G
  <2> DEFINE g == [x \in Places(w) |-> Fail]
  <2>1. M + 1 .. M = {} /\ M + 1 - 0 = M + 1 /\ M + 1 .. Len(w) + 1 = {} /\ 0 \in 0 .. M
    BY <1>0
  <2>2. Full(g)
    OBVIOUS
  <2>3. AheadFrom(g, w, M + 1)
    <3> HIDE DEF g
    <3> QED
      BY <2>1 DEF AheadFrom
  <2>4. Solved(g, M + 1)
    <3> HIDE DEF g
    <3> QED
      BY <2>1
  <2>5. Solves(g, M + 1 - 0)
    <3> HIDE DEF g, Full, Solved
    <3> QED
      BY <2>1, <2>2, <2>3, <2>4
  <2> HIDE DEF Solves, g, M
  <2> QED
    BY <2>1, <2>5
<1>2. ASSUME NEW n \in 0 .. M - 1, n \in G PROVE n + 1 \in G
  <2> DEFINE q == M + 1 - n
             p == q - 1
  <2>1. p \in 1 .. M /\ q = p + 1 /\ M + 1 - (n + 1) = p /\ n + 1 \in 0 .. M /\ p \in Nat
    BY <1>0
  <2>2. PICK g : Solves(g, q)
    <3> HIDE DEF Solves, M
    <3> QED
      BY <1>2
  <2> HIDE DEF p, q
  <2> DEFINE v  == ParseValue(g, w, p)
             g1 == [x \in Places(w) |-> IF x = <<"value", p>> THEN v ELSE g[x]]
             i  == ParseItems(g1, w, p)
             e  == ParseEntries(g, w, p)
             h  == [x \in Places(w) |-> IF x = <<"value", p>> THEN v
                                        ELSE IF x = <<"items", p>> THEN i
                                        ELSE IF x = <<"entries", p>> THEN e ELSE g[x]]
  <2>3. \A k \in Kinds, at \in q .. M : <<k, at>> \in Places(w) /\ at # p
    BY <2>1 DEF Places
  <2>4. \A k \in Kinds : <<k, p>> \in Places(w)
    BY <2>1 DEF Places
  <2>5. /\ h[<<"value", p>>] = v /\ h[<<"items", p>>] = i /\ h[<<"entries", p>>] = e
        /\ g1[<<"value", p>>] = v
    <3> HIDE DEF v, i, e
    <3> QED
      BY <2>4 DEF Kinds
  <2>6. AgreeFrom(g, h, w, q) /\ AgreeFrom(g, g1, w, q) /\ AgreeFrom(g1, h, w, q)
    <3> HIDE DEF v, i, e
    <3> QED
      BY <2>3 DEF AgreeFrom
  <2>7. Full(h)
    OBVIOUS
  <2> HIDE DEF h, g1
  <2>8. AheadFrom(g, w, q) /\ AheadFrom(h, w, q) /\ AheadFrom(g1, w, q)
    <3>1. AheadFrom(g, w, q)
      BY <2>2
    <3> QED
      BY <2>6, <3>1 DEF AheadFrom, AgreeFrom
  <2>9. Ahead(v, p, w)
    BY <2>1, <2>8, ParseValueAhead
  <2>10. Ahead(i, p, w)
    <3> HIDE DEF v
    <3> QED
      BY <2>1, <2>5, <2>8, <2>9, ParseItemsAhead
  <2>11. Ahead(e, p, w)
    BY <2>1, <2>8, ParseEntriesAhead
  <2>12. ParseValue(h, w, p) = v
    BY <2>1, <2>6, ParseValueSame
  <2>13. ParseItems(h, w, p) = i
    <3> HIDE DEF v
    <3>1. g1[<<"value", p>>] = h[<<"value", p>>] /\ Ahead(g1[<<"value", p>>], p, w)
      BY <2>5, <2>9
    <3>2. p \in 1 .. Len(w) + 1 /\ AgreeFrom(g1, h, w, p + 1)
      BY <2>1, <2>6
    <3>3. ParseItems(g1, w, p) = ParseItems(h, w, p)
      BY <3>1, <3>2, ParseItemsSame
    <3> QED
      BY <3>3
  <2>14. ParseEntries(h, w, p) = e
    BY <2>1, <2>6, <2>8, ParseEntriesSame
  <2> HIDE DEF v, i, e
  <2>15. AheadFrom(h, w, p)
    <3> SUFFICES ASSUME NEW k \in Kinds, NEW at \in p .. Len(w) + 1 PROVE Ahead(h[<<k, at>>], at, w)
      BY DEF AheadFrom
    <3>1. CASE at = p
      BY <2>5, <2>9, <2>10, <2>11, <3>1 DEF Kinds
    <3>2. CASE at # p
      <4>1. at \in q .. Len(w) + 1
        BY <2>1, <3>2
      <4> QED
        BY <2>8, <4>1 DEF AheadFrom
    <3> QED
      BY <3>1, <3>2
  <2>16. Solved(h, p)
    <3> SUFFICES ASSUME NEW k \in Kinds, NEW at \in p .. M PROVE h[<<k, at>>] = Round(h, w, k, at)
      OBVIOUS
    <3>1. CASE at = p
      BY <2>5, <2>12, <2>13, <2>14, <3>1 DEF Kinds, Round
    <3>2. CASE at # p
      <4>1. at \in q .. Len(w) + 1 /\ at \in 1 .. Len(w) + 1
        BY <2>1, <3>2
      <4>2. AgreeFrom(g, h, w, at + 1) /\ AheadFrom(g, w, at + 1)
        <5>1. \A j \in at + 1 .. Len(w) + 1 : j \in q .. Len(w) + 1
          BY <2>1, <4>1
        <5> QED
          BY <2>6, <2>8, <5>1 DEF AgreeFrom, AheadFrom
      <4>3. g[<<"value", at>>] = h[<<"value", at>>] /\ Ahead(g[<<"value", at>>], at, w) /\ g[<<k, at>>] = h[<<k, at>>]
        BY <2>6, <2>8, <4>1 DEF AgreeFrom, AheadFrom, Kinds
      <4>4. Round(g, w, k, at) = Round(h, w, k, at)
        BY <4>1, <4>2, <4>3, RoundSame
      <4>5. g[<<k, at>>] = Round(g, w, k, at)
        BY <2>2, <4>1
      <4> QED
        BY <4>3, <4>4, <4>5
    <3> QED
      BY <3>1, <3>2
  <2>17. Solves(h, M + 1 - (n + 1))
    <3> HIDE DEF Full, Solved, M
    <3> QED
      BY <2>1, <2>7, <2>15, <2>16
  <2> HIDE DEF Solves, M
  <2> QED
    BY <2>1, <2>17
<1>3. M \in G
  <2>1. 0 .. M \subseteq G
    <3> HIDE DEF G, M
    <3> QED
      BY <1>0, <1>1, <1>2, CountUp
  <2> HIDE DEF G, M
  <2> QED
    BY <1>0, <2>1
<1>4. PICK g : Solves(g, 1)
  <2>1. M + 1 - M = 1
    BY <1>0
  <2> HIDE DEF Solves, M
  <2> QED
    BY <1>3, <2>1
<1> DEFINE Eq(f) == f = [x \in Kinds \X (1 .. Len(w) + 1) |->
                           CASE x[1] = "value"   -> ParseValue(f, w, x[2])
                             [] x[1] = "items"   -> ParseItems(f, w, x[2])
                             [] x[1] = "entries" -> ParseEntries(f, w, x[2])]
           parse == CHOOSE f : Eq(f)
<1>5. Eq(g)
  <2>1. ASSUME NEW x \in Places(w) PROVE g[x] = Round(g, w, x[1], x[2])
    <3>1. x[1] \in Kinds /\ x[2] \in 1 .. M /\ x = <<x[1], x[2]>>
      BY DEF Places
    <3> HIDE DEF M
    <3> QED
      BY <1>4, <3>1
  <2>2. g = [x \in Places(w) |-> g[x]]
    BY <1>4
  <2>3. g = [x \in Places(w) |-> Round(g, w, x[1], x[2])]
    BY <2>1, <2>2
  <2> QED
    BY <2>3 DEF Places, Round
<1>6. Eq(parse)
  <2> HIDE DEF Eq
  <2> QED
    BY <1>5
<1>7. Parse(w) = parse
  BY DEF Parse, Kinds
<1> HIDE DEF parse
<1>8. \A k \in Kinds, at \in 1 .. Len(w) + 1 : parse[<<k, at>>] = Round(parse, w, k, at)
  <2> SUFFICES ASSUME NEW k \in Kinds, NEW at \in 1 .. Len(w) + 1
               PROVE parse[<<k, at>>] = Round(parse, w, k, at)
    OBVIOUS
  <2> DEFINE x == <<k, at>>
  <2>1. x \in Kinds \X (1 .. Len(w) + 1) /\ x[1] = k /\ x[2] = at
    OBVIOUS
  <2> HIDE DEF x
  <2>2. parse[x] = CASE x[1] = "value"   -> ParseValue(parse, w, x[2])
                     [] x[1] = "items"   -> ParseItems(parse, w, x[2])
                     [] x[1] = "entries" -> ParseEntries(parse, w, x[2])
    BY <1>6, <2>1, Zenon
  <2>3. parse[x] = Round(parse, w, k, at)
    BY <2>1, <2>2 DEF Round
  <2> QED
    BY <2>3 DEF x
<1>9. AheadFrom(parse, w, 1)
  <2> DEFINE H == {n \in 0 .. M : AheadFrom(parse, w, M + 1 - n)}
  <2>1. 0 \in H
    <3>1. M + 1 - 0 .. Len(w) + 1 = {} /\ 0 \in 0 .. M
      BY <1>0
    <3> QED
      BY <3>1 DEF AheadFrom
  <2>2. ASSUME NEW n \in 0 .. M - 1, n \in H PROVE n + 1 \in H
    <3> DEFINE q == M + 1 - n
               p == q - 1
    <3>1. p \in 1 .. M /\ q = p + 1 /\ M + 1 - (n + 1) = p /\ n + 1 \in 0 .. M /\ p \in Nat /\ p \in 1 .. Len(w) + 1
      BY <1>0
    <3>2. AheadFrom(parse, w, q)
      BY <2>2
    <3> HIDE DEF p, q
    <3>3. Ahead(ParseValue(parse, w, p), p, w)
      BY <3>1, <3>2, ParseValueAhead
    <3>4. parse[<<"value", p>>] = ParseValue(parse, w, p)
      BY <1>8, <3>1 DEF Kinds, Round
    <3>5. Ahead(ParseItems(parse, w, p), p, w)
      BY <3>1, <3>2, <3>3, <3>4, ParseItemsAhead
    <3>6. Ahead(ParseEntries(parse, w, p), p, w)
      BY <3>1, <3>2, ParseEntriesAhead
    <3>7. parse[<<"items", p>>] = ParseItems(parse, w, p) /\ parse[<<"entries", p>>] = ParseEntries(parse, w, p)
      BY <1>8, <3>1 DEF Kinds, Round
    <3>8. AheadFrom(parse, w, p)
      <4> SUFFICES ASSUME NEW k \in Kinds, NEW at \in p .. Len(w) + 1 PROVE Ahead(parse[<<k, at>>], at, w)
        BY DEF AheadFrom
      <4>1. CASE at = p
        BY <3>3, <3>4, <3>5, <3>6, <3>7, <4>1 DEF Kinds
      <4>2. CASE at # p
        <5>1. at \in q .. Len(w) + 1
          BY <3>1, <4>2
        <5> QED
          BY <3>2, <5>1 DEF AheadFrom
      <4> QED
        BY <4>1, <4>2
    <3> HIDE DEF M
    <3> QED
      BY <3>1, <3>8
  <2>3. 0 .. M \subseteq H
    <3> HIDE DEF H, M
    <3> QED
      BY <1>0, <2>1, <2>2, CountUp
  <2>4. M \in H
    <3> HIDE DEF H, M
    <3> QED
      BY <1>0, <2>3
  <2>5. M + 1 - M = 1
    BY <1>0
  <2> HIDE DEF M
  <2> QED
    BY <2>4, <2>5
<1> QED
  BY <1>7, <1>8, <1>9

-----------------------------------------------------------------------------
(* What the decoder returns *)

\* The values that decoding w produces, the values inside them included.
ValuesIn(w) == {Parse(w)[x].val : x \in Places(w)} \ {Raised}

\* A list of members of V, a dictionary of members of V.
ListOf(v, V) == \E l \in Seq(V) : v = ListV(l)
DictOf(v, V) == \E f : v = DictV(f) /\ \A x \in DOMAIN f : f[x] \in V

ValueOf(v, V) ==
  \/ \E n : v = IntV(n)
  \/ \E s \in Seq(Nat) : v = StrV(s)
  \/ ListOf(v, V)
  \/ DictOf(v, V)

LEMMA AssignOf ==
  ASSUME NEW V, NEW f, NEW k, NEW v \in V, \A x \in DOMAIN f : f[x] \in V
  PROVE  DictOf(DictV(Assign(k, v, f)), V)
<1> DEFINE a == Assign(k, v, f)
<1>1. \A x \in DOMAIN a : a[x] \in V
  BY DEF Assign
<1> HIDE DEF a
<1> QED
  BY <1>1 DEF DictOf, a

\* Lists and dictionaries are made of values of the same text.
LEMMA PartsOf ==
  ASSUME NEW w \in Seq(Nat), NEW p \in 1 .. Len(w) + 1
  PROVE  /\ IsOk(Parse(w)[<<"items", p>>].val)   => ListOf(Parse(w)[<<"items", p>>].val, ValuesIn(w))
         /\ IsOk(Parse(w)[<<"entries", p>>].val) => DictOf(Parse(w)[<<"entries", p>>].val, ValuesIn(w))
<1> DEFINE M == Len(w) + 1
           parse == Parse(w)
           V == ValuesIn(w)
           Part(at) == /\ IsOk(parse[<<"items", at>>].val)   => ListOf(parse[<<"items", at>>].val, V)
                       /\ IsOk(parse[<<"entries", at>>].val) => DictOf(parse[<<"entries", at>>].val, V)
           H == {n \in 0 .. M : \A at \in M + 1 - n .. M : Part(at)}
<1>0. M \in Nat /\ M >= 1
  OBVIOUS
<1>1. 0 \in H
  <2>1. M + 1 - 0 .. M = {} /\ 0 \in 0 .. M
    BY <1>0
  <2> HIDE DEF Part, M
  <2> QED
    BY <2>1
<1>2. ASSUME NEW n \in 0 .. M - 1, n \in H PROVE n + 1 \in H
  <2> DEFINE q == M + 1 - n
             at == q - 1
  <2>1. at \in 1 .. M /\ q = at + 1 /\ M + 1 - (n + 1) = at /\ n + 1 \in 0 .. M /\ at \in Nat
    BY <1>0
  <2>2. \A j \in at + 1 .. M : Part(j)
    <3> HIDE DEF Part, M
    <3> QED
      BY <1>2, <2>1
  <2> HIDE DEF at, q
  <2>3. /\ parse[<<"items", at>>] = ParseItems(parse, w, at)
        /\ parse[<<"entries", at>>] = ParseEntries(parse, w, at)
    <3> HIDE DEF parse
    <3> QED
      BY <2>1, ParseRounds DEF Kinds, Round, parse
  <2>4. AheadFrom(parse, w, 1)
    BY ParseRounds
  <2>5. ASSUME NEW k \in Kinds, NEW j \in 1 .. M, IsOk(parse[<<k, j>>].val)
        PROVE  parse[<<k, j>>].val \in V
    <3> DEFINE r == parse[<<k, j>>].val
    <3>1. r # Raised
      BY <2>5 DEF IsOk
    <3>2. <<k, j>> \in Places(w)
      BY DEF Places
    <3> HIDE DEF parse
    <3> QED
      BY <3>1, <3>2 DEF ValuesIn, parse
  <2> HIDE DEF parse, V
  <2>6. ASSUME IsOk(parse[<<"items", at>>].val) PROVE ListOf(parse[<<"items", at>>].val, V)
    <3> DEFINE item == parse[<<"value", at>>]
               rest == parse[<<"items", item.at>>]
    <3>1. \/ parse[<<"items", at>>] = [val |-> ListV(<< >>), at |-> at + 1]
          \/ /\ IsOk(item.val) /\ IsOk(rest.val)
             /\ parse[<<"items", at>>] = [val |-> ListV(<<item.val>> \o rest.val.list), at |-> rest.at]
      BY <2>3, <2>6, FailAhead, Zenon DEF ParseItems
    <3>2. CASE parse[<<"items", at>>] = [val |-> ListV(<< >>), at |-> at + 1]
      <4>1. parse[<<"items", at>>].val = ListV(<< >>) /\ << >> \in Seq(V)
        BY <3>2
      <4> QED
        BY <4>1 DEF ListOf
    <3>3. CASE /\ IsOk(item.val) /\ IsOk(rest.val)
               /\ parse[<<"items", at>>] = [val |-> ListV(<<item.val>> \o rest.val.list), at |-> rest.at]
      <4>1. item.at \in at + 1 .. M
        BY <2>1, <2>4, <3>3 DEF AheadFrom, Ahead, Kinds
      <4>2. ListOf(rest.val, V)
        BY <2>2, <3>3, <4>1
      <4>3. item.val \in V
        BY <2>1, <2>5, <3>3 DEF Kinds
      <4> HIDE DEF item, rest
      <4>4. PICK l \in Seq(V) : rest.val = ListV(l)
        BY <4>2 DEF ListOf
      <4>5. rest.val.list = l
        BY <4>4, Fields
      <4>6. <<item.val>> \o l \in Seq(V)
        BY <4>3
      <4>7. parse[<<"items", at>>].val = ListV(<<item.val>> \o l)
        BY <3>3, <4>5
      <4> QED
        BY <4>6, <4>7 DEF ListOf
    <3> QED
      BY <3>1, <3>2, <3>3
  <2>7. ASSUME IsOk(parse[<<"entries", at>>].val) PROVE DictOf(parse[<<"entries", at>>].val, V)
    <3> DEFINE key  == ParseString(w, at)
               val  == parse[<<"value", key.at>>]
               rest == parse[<<"entries", val.at>>]
               d    == DictV(Assign(key.val.str, val.val, rest.val.dict))
    <3>1. \/ parse[<<"entries", at>>] = [val |-> DictV(<< >>), at |-> at + 1]
          \/ /\ IsOk(key.val) /\ IsOk(val.val) /\ IsOk(rest.val)
             /\ parse[<<"entries", at>>] = [val |-> d, at |-> rest.at]
      BY <2>3, <2>7, FailAhead, Zenon DEF ParseEntries, ParseEntry
    <3>2. CASE parse[<<"entries", at>>] = [val |-> DictV(<< >>), at |-> at + 1]
      <4>1. parse[<<"entries", at>>].val = DictV(<< >>) /\ DOMAIN << >> = {}
        BY <3>2
      <4> QED
        BY <4>1, Zenon DEF DictOf
    <3>3. CASE /\ IsOk(key.val) /\ IsOk(val.val) /\ IsOk(rest.val)
               /\ parse[<<"entries", at>>] = [val |-> d, at |-> rest.at]
      <4>1. key.at \in at + 1 .. M
        BY <2>1, <3>3, ParseStringAhead DEF Ahead
      <4>2. Ahead(val, key.at, w)
        <5>1. key.at \in 1 .. Len(w) + 1
          BY <2>1, <4>1
        <5> QED
          BY <2>4, <5>1 DEF AheadFrom, Kinds
      <4>3. val.val \in V
        <5>1. key.at \in 1 .. M
          BY <2>1, <4>1
        <5> QED
          BY <2>5, <3>3, <5>1 DEF Kinds
      <4>4. val.at \in at + 1 .. M
        <5> HIDE DEF val, key, rest, d
        <5> QED
          BY <2>1, <3>3, <4>1, <4>2 DEF Ahead
      <4>5. DictOf(rest.val, V)
        BY <2>2, <3>3, <4>4
      <4> HIDE DEF val, rest, key
      <4>6. PICK f : rest.val = DictV(f) /\ \A x \in DOMAIN f : f[x] \in V
        BY <4>5 DEF DictOf
      <4>7. rest.val.dict = f
        BY <4>6, Fields
      <4>8. parse[<<"entries", at>>].val = DictV(Assign(key.val.str, val.val, f))
        BY <3>3, <4>7
      <4> QED
        BY <4>3, <4>6, <4>8, AssignOf
    <3> QED
      BY <3>1, <3>2, <3>3
  <2>8. Part(at)
    BY <2>6, <2>7
  <2>9. \A j \in at .. M : j = at \/ j \in at + 1 .. M
    BY <2>1
  <2>10. \A j \in at .. M : Part(j)
    <3> HIDE DEF Part, M
    <3> QED
      BY <2>2, <2>8, <2>9
  <2> HIDE DEF Part, M
  <2> QED
    BY <2>1, <2>10
<1>3. 0 .. M \subseteq H
  <2> HIDE DEF H, M
  <2> QED
    BY <1>0, <1>1, <1>2, CountUp
<1>4. \A j \in 1 .. M : Part(j)
  <2>1. M \in 0 .. M /\ M + 1 - M = 1
    BY <1>0
  <2> HIDE DEF Part, M
  <2> QED
    BY <1>3, <2>1
<1> QED
  BY <1>4

\* Whatever the decoder returns is a number, a string, or a list or dictionary
\* of such values.
LEMMA DecodedShape ==
  ASSUME NEW w \in Seq(Nat), NEW v \in ValuesIn(w)
  PROVE  ValueOf(v, ValuesIn(w))
<1> DEFINE parse == Parse(w)
<1>1. PICK k \in Kinds, p \in 1 .. Len(w) + 1 : v = parse[<<k, p>>].val
  <2>1. PICK y \in Places(w) : v = parse[y].val
    BY DEF ValuesIn
  <2>2. y = <<y[1], y[2]>> /\ y[1] \in Kinds /\ y[2] \in 1 .. Len(w) + 1
    BY DEF Places
  <2> HIDE DEF parse
  <2> QED
    BY <2>1, <2>2
<1>2. IsOk(v)
  BY DEF ValuesIn, IsOk
<1>3. CASE k # "value"
  <2> HIDE DEF parse
  <2>1. k = "items" \/ k = "entries"
    BY <1>3 DEF Kinds
  <2> QED
    BY <1>1, <1>2, <2>1, PartsOf DEF ValueOf, parse
<1>4. CASE k = "value"
  <2>1. parse[<<"value", p>>] = ParseValue(parse, w, p)
    <3> HIDE DEF parse
    <3> QED
      BY ParseRounds DEF Kinds, Round, parse
  <2>2. \/ ParseValue(parse, w, p) = ParseInt(w, p)
        \/ p + 1 \in 1 .. Len(w) + 1 /\ ParseValue(parse, w, p) = parse[<<"items", p + 1>>]
        \/ p + 1 \in 1 .. Len(w) + 1 /\ ParseValue(parse, w, p) = parse[<<"entries", p + 1>>]
        \/ ParseValue(parse, w, p) = ParseString(w, p)
        \/ ParseValue(parse, w, p) = Fail
    <3> HIDE DEF parse
    <3>1. p > Len(w) \/ p + 1 \in 1 .. Len(w) + 1
      OBVIOUS
    <3> QED
      BY <3>1 DEF ParseValue
  <2>3. CASE ParseValue(parse, w, p) = ParseInt(w, p)
    <3> HIDE DEF parse
    <3>1. ParseInt(w, p) # Fail
      BY <1>1, <1>2, <1>4, <2>1, <2>3, FailAhead
    <3>2. PICK n, q : ParseInt(w, p) = [val |-> IntV(n), at |-> q]
      BY <3>1, ParseIntResult
    <3>3. v = IntV(n)
      BY <1>1, <1>4, <2>1, <2>3, <3>2
    <3> QED
      BY <3>3 DEF ValueOf
  <2>4. CASE ParseValue(parse, w, p) = ParseString(w, p)
    <3> HIDE DEF parse
    <3>1. ParseString(w, p) # Fail
      BY <1>1, <1>2, <1>4, <2>1, <2>4, FailAhead
    <3>2. PICK s \in Seq(Nat), q \in p + 1 .. Len(w) + 1 : ParseString(w, p) = [val |-> StrV(s), at |-> q]
      BY <3>1, ParseStringResult
    <3>3. v = StrV(s)
      BY <1>1, <1>4, <2>1, <2>4, <3>2
    <3> QED
      BY <3>3 DEF ValueOf
  <2>5. CASE p + 1 \in 1 .. Len(w) + 1 /\ ParseValue(parse, w, p) = parse[<<"items", p + 1>>]
    BY <1>1, <1>2, <1>4, <2>1, <2>5, PartsOf DEF ValueOf
  <2>6. CASE p + 1 \in 1 .. Len(w) + 1 /\ ParseValue(parse, w, p) = parse[<<"entries", p + 1>>]
    BY <1>1, <1>2, <1>4, <2>1, <2>6, PartsOf DEF ValueOf
  <2>7. CASE ParseValue(parse, w, p) = Fail
    <3> HIDE DEF parse
    <3> QED
      BY <1>1, <1>2, <1>4, <2>1, <2>7, FailAhead
  <2> QED
    BY <2>2, <2>3, <2>4, <2>5, <2>6, <2>7
<1> QED
  BY <1>3, <1>4

LEMMA DecodedIn ==
  ASSUME NEW w \in Seq(Nat), IsOk(DecodeData(w))
  PROVE  DecodeData(w) \in ValuesIn(w)
<1>1. DecodeData(w) = Parse(w)[<<"value", 1>>].val
  BY DEF DecodeData, ParseNext, IsOk
<1>2. <<"value", 1>> \in Places(w)
  BY DEF Places, Kinds
<1>3. DecodeData(w) # Raised
  BY DEF IsOk
<1> QED
  BY <1>1, <1>2, <1>3 DEF ValuesIn

-----------------------------------------------------------------------------
(* The parsed torrent *)

LEMMA PartsOfValue ==
  ASSUME NEW V, NEW v, ValueOf(v, V)
  PROVE  /\ IsStr(v)  => v.str \in Seq(Nat) /\ (Truthy(v) => v.str # << >>)
         /\ IsList(v) => v.list \in Seq(V) /\ (Truthy(v) => v.list # << >>)
         /\ IsDict(v) => DictOf(v, V)
<1>1. CASE \E n : v = IntV(n)
  BY <1>1, Distinct
<1>2. CASE \E s \in Seq(Nat) : v = StrV(s)
  <2>1. PICK s \in Seq(Nat) : v = StrV(s)
    BY <1>2
  <2>2. IsStr(v) /\ ~IsInt(v) /\ ~IsList(v) /\ ~IsDict(v)
    BY <2>1, Distinct
  <2>3. v.str = s
    BY <2>1, Fields
  <2> QED
    BY <2>2, <2>3 DEF Truthy
<1>3. CASE ListOf(v, V)
  <2>1. PICK l \in Seq(V) : v = ListV(l)
    BY <1>3 DEF ListOf
  <2>2. IsList(v) /\ ~IsInt(v) /\ ~IsStr(v) /\ ~IsDict(v)
    BY <2>1, Distinct
  <2>3. v.list = l
    BY <2>1, Fields
  <2> QED
    BY <2>2, <2>3 DEF Truthy
<1>4. CASE DictOf(v, V)
  <2>1. PICK f : v = DictV(f)
    BY <1>4 DEF DictOf
  <2> QED
    BY <1>4, <2>1, Distinct
<1> QED
  BY <1>1, <1>2, <1>3, <1>4 DEF ValueOf

LEMMA GetOf ==
  ASSUME NEW V, NEW d, DictOf(d, V), NEW key, Get(d, key) # None
  PROVE  Get(d, key) \in V /\ Truthy(Get(d, key))
<1>1. PICK f : d = DictV(f) /\ \A x \in DOMAIN f : f[x] \in V
  BY DEF DictOf
<1>2. d.dict = f
  BY <1>1, Fields
<1>3. <<key>> \in DOMAIN f /\ Truthy(f[<<key>>]) /\ Get(d, key) = f[<<key>>]
  BY <1>2 DEF Get
<1> QED
  BY <1>1, <1>3

LEMMA TextOf ==
  ASSUME NEW V, NEW v, ValueOf(v, V)
  PROVE  Text(v) \in Seq(Nat)
BY PartsOfValue DEF Text

\* What from_path has tested when it returns a torrent.
LEMMA ParsedFrom ==
  ASSUME NEW w \in Seq(Nat), IsTorrent(FromBytes(w))
  PROVE  LET V    == ValuesIn(w)
             meta == DecodeData(w)
             info == Get(meta, KeyInfo)
             t    == FromBytes(w)
         IN  /\ DictOf(meta, V) /\ DictOf(info, V)
             /\ Get(meta, KeyAnnounce) # None /\ InfoOK(info)
             /\ t.announce = Text(Get(meta, KeyAnnounce))
             /\ t.announceList = Tiers(Get(meta, KeyAnnounceList))
             /\ t.pieceLength = Get(info, KeyPieceLength).int
             /\ t.numPieces = Len(Get(info, KeyPieceHashes).str) \div HASH_LEN
             /\ t.files = FileLengths(info)
<1> DEFINE V    == ValuesIn(w)
           meta == DecodeData(w)
           info == Get(meta, KeyInfo)
           hashed == InfoSlice(w)
           t    == FromBytes(w)
           r    == [ announce     |-> Text(Get(meta, KeyAnnounce)),
                     announceList |-> Tiers(Get(meta, KeyAnnounceList)),
                     infoBytes    |-> hashed.str,
                     pieceLength  |-> Get(info, KeyPieceLength).int,
                     numPieces    |-> Len(Get(info, KeyPieceHashes).str) \div HASH_LEN,
                     files        |-> FileLengths(info) ]
<1>1. t # ParseError /\ t # Raised
  BY DEF IsTorrent
<1>2. ~IsStr(hashed) => hashed = ParseError \/ hashed = Raised
  BY Distinct DEF InfoSlice
<1>3. /\ IsOk(meta) /\ IsDict(meta)
      /\ Get(meta, KeyAnnounce) # None /\ info # None /\ IsDict(info)
      /\ InfoOK(info) /\ t = r
  BY <1>1, <1>2, Zenon DEF FromBytes, FromMeta
<1>4. DictOf(meta, V)
  <2>1. ValueOf(meta, V)
    BY <1>3, DecodedIn, DecodedShape
  <2> QED
    BY <1>3, <2>1, PartsOfValue
<1>5. DictOf(info, V)
  <2>1. info \in V
    BY <1>3, <1>4, GetOf
  <2>2. ValueOf(info, V)
    BY <2>1, DecodedShape
  <2> QED
    BY <1>3, <2>2, PartsOfValue
<1>6. /\ t.announce = Text(Get(meta, KeyAnnounce))
      /\ t.announceList = Tiers(Get(meta, KeyAnnounceList))
      /\ t.pieceLength = Get(info, KeyPieceLength).int
      /\ t.numPieces = Len(Get(info, KeyPieceHashes).str) \div HASH_LEN
      /\ t.files = FileLengths(info)
  <2> HIDE DEF meta, info, t, hashed
  <2> QED
    BY <1>3
<1> QED
  BY <1>3, <1>4, <1>5, <1>6

\* Some full pieces make at least one.
LEMMA SomePieces ==
  ASSUME NEW n \in Nat, n > 0, NEW h \in Nat \ {0}, n % h = 0
  PROVE  n \div h > 0
<1>1. n = h * (n \div h) + (n % h) /\ n \div h \in Int
  OBVIOUS
<1>2. n \div h # 0
  BY <1>1
<1>3. n \div h >= 0
  OBVIOUS
<1> QED
  BY <1>1, <1>2, <1>3

LEMMA ParsedUsable ==
  ASSUME NEW w \in Seq(Nat), IsTorrent(FromBytes(w))
  PROVE  LET t == FromBytes(w)
         IN  /\ t.pieceLength > 0 /\ t.numPieces > 0
             /\ t.files # << >>
             /\ \A k \in DOMAIN t.files : t.files[k] >= 0
<1> DEFINE V    == ValuesIn(w)
           info == Get(DecodeData(w), KeyInfo)
           t    == FromBytes(w)
           hashes == Get(info, KeyPieceHashes)
           files  == Get(info, KeyFiles)
<1>1. /\ DictOf(info, V) /\ InfoOK(info)
      /\ t.pieceLength = Get(info, KeyPieceLength).int
      /\ t.numPieces = Len(hashes.str) \div HASH_LEN
      /\ t.files = FileLengths(info)
  BY ParsedFrom
<1>2. \A v \in V : ValueOf(v, V)
  BY DecodedShape
<1> HIDE DEF info, t, V
<1>3. t.pieceLength > 0
  BY <1>1 DEF InfoOK, PositiveInt
<1>4. t.numPieces > 0
  <2>1. hashes # None /\ IsStr(hashes) /\ Len(hashes.str) % HASH_LEN = 0
    BY <1>1 DEF InfoOK
  <2>2. hashes \in V /\ Truthy(hashes)
    BY <1>1, <2>1, GetOf
  <2> HIDE DEF hashes
  <2>3. hashes.str \in Seq(Nat) /\ hashes.str # << >>
    BY <1>2, <2>1, <2>2, PartsOfValue
  <2>4. Len(hashes.str) \in Nat /\ Len(hashes.str) > 0
    BY <2>3
  <2> QED
    BY <1>1, <2>1, <2>4, SomePieces, HashLenAssumption
<1>5. FilesOK(info)
  BY <1>1 DEF InfoOK
<1>6. CASE files = None
  <2>1. NotNegative(Get(info, KeyLength))
    BY <1>5, <1>6 DEF FilesOK
  <2>2. t.files = <<Get(info, KeyLength).int>>
    BY <1>1, <1>6 DEF FileLengths
  <2>3. Get(info, KeyLength).int >= 0
    BY <2>1 DEF NotNegative
  <2> DEFINE n == Get(info, KeyLength).int
  <2> HIDE DEF n
  <2>4. DOMAIN <<n>> = {1} /\ <<n>>[1] = n /\ <<n>> # << >>
    OBVIOUS
  <2> QED
    BY <1>3, <1>4, <2>2, <2>3, <2>4 DEF n, t
<1>7. CASE files # None
  <2>1. IsList(files) /\ \A k \in DOMAIN files.list : FileEntry(files.list[k])
    BY <1>5, <1>7 DEF FilesOK
  <2>2. t.files = [k \in DOMAIN files.list |-> Get(files.list[k], KeyLength).int]
    BY <1>1, <1>7 DEF FileLengths
  <2>3. files \in V /\ Truthy(files)
    BY <1>1, <1>7, GetOf
  <2> HIDE DEF files
  <2>4. files.list \in Seq(V) /\ files.list # << >>
    BY <1>2, <2>1, <2>3, PartsOfValue
  <2>5. DOMAIN files.list # {}
    <3>1. \A l \in Seq(V) : l # << >> => Len(l) \in Nat /\ Len(l) # 0 /\ DOMAIN l = 1 .. Len(l)
      BY EmptySeq
    <3>2. Len(files.list) \in Nat /\ Len(files.list) # 0 /\ DOMAIN files.list = 1 .. Len(files.list)
      BY <2>4, <3>1
    <3>3. 1 \in 1 .. Len(files.list)
      BY <3>2
    <3> QED
      BY <3>2, <3>3
  <2>6. DOMAIN t.files = DOMAIN files.list
    BY <2>2
  <2>7. t.files # << >>
    BY <2>5, <2>6
  <2>8. ASSUME NEW k \in DOMAIN t.files PROVE t.files[k] >= 0
    <3>1. t.files[k] = Get(files.list[k], KeyLength).int
      BY <2>2, <2>6
    <3>2. FileEntry(files.list[k])
      BY <2>1, <2>6
    <3> QED
      BY <3>1, <3>2 DEF FileEntry, NotNegative
  <2> QED
    BY <1>3, <1>4, <2>7, <2>8 DEF t
<1> QED
  BY <1>6, <1>7

-----------------------------------------------------------------------------
(* The URLs of the torrent *)

LEMMA UrlsOf ==
  ASSUME NEW V, \A v \in V : ValueOf(v, V), NEW v \in V, IsList(v)
  PROVE  Urls(v) \in Seq(Seq(Nat))
<1>1. v.list \in Seq(V)
  BY PartsOfValue
<1>2. \A i \in DOMAIN v.list : Text(v.list[i]) \in Seq(Nat)
  BY <1>1, TextOf
<1>3. DOMAIN v.list = 1 .. Len(v.list) /\ Len(v.list) \in Nat
  BY <1>1
<1>4. Urls(v) \in [1 .. Len(v.list) -> Seq(Nat)]
  BY <1>2, <1>3 DEF Urls
<1> QED
  BY <1>3, <1>4

\* The tiers of the announce list are lists of byte strings.
LEMMA FirstTiersOf ==
  ASSUME NEW V, \A v \in V : ValueOf(v, V), NEW list \in Seq(V)
  PROVE  FirstTiers(list)[Len(list)] \in Seq(Seq(Seq(Nat)))
<1> DEFINE N == Len(list)
           R == Seq(Seq(Seq(Nat)))
           Next1(n, r) == IF IsList(list[n]) THEN Append(r, Urls(list[n])) ELSE r
           step == [n \in 1 .. N |-> [r \in R |-> Next1(n, r)]]
           Eq(f) == f = [n \in 0 .. N |-> IF n = 0 THEN << >>
                                          ELSE IF IsList(list[n]) THEN Append(f[n - 1], Urls(list[n]))
                                          ELSE f[n - 1]]
           tiers == CHOOSE f : Eq(f)
<1>1. N \in Nat /\ << >> \in R
  OBVIOUS
<1>2. ASSUME NEW n \in 1 .. N, NEW r \in R PROVE Next1(n, r) \in R
  <2>1. list[n] \in V
    OBVIOUS
  <2>2. CASE IsList(list[n])
    <3>1. Urls(list[n]) \in Seq(Seq(Nat))
      BY <2>1, <2>2, UrlsOf
    <3>2. Append(r, Urls(list[n])) \in R
      BY <3>1
    <3> QED
      BY <2>2, <3>2
  <2>3. CASE ~IsList(list[n])
    BY <2>3
  <2> QED
    BY <2>2, <2>3
<1>3. step \in Steps(N, R)
  <2> HIDE DEF Next1, R, N
  <2> QED
    BY <1>2 DEF Steps
<1>4. PICK g \in [0 .. N -> R] : g[0] = << >> /\ \A n \in 1 .. N : g[n] = step[n][g[n - 1]]
  <2> HIDE DEF step, R, N
  <2>1. \E g : CountedBy(g, N, R, << >>, step)
    BY <1>1, <1>3, CountedRecursion, Zenon
  <2> QED
    BY <2>1, Zenon DEF CountedBy
<1>5. Eq(g)
  <2>1. ASSUME NEW n \in 0 .. N
        PROVE  g[n] = IF n = 0 THEN << >>
                      ELSE IF IsList(list[n]) THEN Append(g[n - 1], Urls(list[n])) ELSE g[n - 1]
    <3>1. CASE n = 0
      BY <1>4, <3>1
    <3>2. CASE n # 0
      <4>1. n \in 1 .. N /\ n - 1 \in 0 .. N
        BY <1>1, <3>2
      <4>2. g[n - 1] \in R
        BY <1>4, <4>1
      <4>4. step[n][g[n - 1]] = Next1(n, g[n - 1])
        <5> HIDE DEF Next1, R, N
        <5> QED
          BY <4>1, <4>2
      <4> QED
        BY <1>4, <3>2, <4>1, <4>4
    <3> QED
      BY <3>1, <3>2
  <2>2. g = [n \in 0 .. N |-> g[n]]
    BY <1>4
  <2> HIDE DEF N
  <2> QED
    BY <2>1, <2>2
<1>6. Eq(tiers)
  <2> HIDE DEF Eq
  <2> QED
    BY <1>5
<1>7. FirstTiers(list) = tiers
  BY DEF FirstTiers
<1> HIDE DEF tiers
<1>8. tiers[0] = << >> /\ \A n \in 1 .. N : tiers[n] = Next1(n, tiers[n - 1])
  <2>1. \A n \in 0 .. N : tiers[n] = IF n = 0 THEN << >>
                                     ELSE IF IsList(list[n]) THEN Append(tiers[n - 1], Urls(list[n]))
                                     ELSE tiers[n - 1]
    BY <1>6, Zenon
  <2>2. 0 \in 0 .. N /\ \A n \in 1 .. N : n \in 0 .. N /\ n # 0
    BY <1>1
  <2> HIDE DEF N
  <2> QED
    BY <2>1, <2>2
<1> DEFINE G == {n \in 0 .. N : tiers[n] \in R}
<1>9. 0 \in G
  <2>1. 0 \in 0 .. N
    BY <1>1
  <2> HIDE DEF R, N
  <2> QED
    BY <1>1, <1>8, <2>1, Zenon
<1>10. ASSUME NEW n \in 0 .. N - 1, n \in G PROVE n + 1 \in G
  <2>1. n + 1 \in 1 .. N /\ (n + 1) - 1 = n /\ n + 1 \in 0 .. N
    BY <1>1
  <2> HIDE DEF Next1, R, N
  <2> QED
    BY <1>2, <1>8, <1>10, <2>1
<1>11. 0 .. N \subseteq G
  <2> HIDE DEF G, N
  <2> QED
    BY <1>1, <1>9, <1>10, CountUp
<1> QED
  BY <1>1, <1>7, <1>11

LEMMA AddedOf ==
  ASSUME NEW urls \in Seq(Seq(Nat))
  PROVE  LET kept == Added(urls)[Len(urls)]
         IN  /\ kept \in Seq(Seq(Nat)) /\ IsInjective(kept)
             /\ ToSet(kept) = {u \in ToSet(urls) : Usable(u)}
<1> DEFINE N == Len(urls)
           R == Seq(Seq(Nat))
           New(n, r) == Usable(urls[n]) /\ urls[n] \notin ToSet(r)
           Next1(n, r) == IF New(n, r) THEN Append(r, urls[n]) ELSE r
           step == [n \in 1 .. N |-> [r \in R |-> Next1(n, r)]]
           Eq(f) == f = [n \in 0 .. N |-> IF n = 0 THEN << >>
                                          ELSE IF Usable(urls[n]) /\ urls[n] \notin ToSet(f[n - 1])
                                                 THEN Append(f[n - 1], urls[n])
                                          ELSE f[n - 1]]
           added1 == CHOOSE f : Eq(f)
<1>1. N \in Nat /\ << >> \in R /\ \A n \in 1 .. N : urls[n] \in Seq(Nat)
  OBVIOUS
<1>2. ASSUME NEW n \in 1 .. N, NEW r \in R PROVE Next1(n, r) \in R
  BY <1>1
<1>3. step \in Steps(N, R)
  <2> HIDE DEF Next1, R, N
  <2> QED
    BY <1>2 DEF Steps
<1>4. PICK g \in [0 .. N -> R] : g[0] = << >> /\ \A n \in 1 .. N : g[n] = step[n][g[n - 1]]
  <2> HIDE DEF step, R, N
  <2>1. \E g : CountedBy(g, N, R, << >>, step)
    BY <1>1, <1>3, CountedRecursion, Zenon
  <2> QED
    BY <2>1, Zenon DEF CountedBy
<1>5. Eq(g)
  <2>1. ASSUME NEW n \in 0 .. N
        PROVE  g[n] = IF n = 0 THEN << >> ELSE Next1(n, g[n - 1])
    <3>1. CASE n = 0
      BY <1>4, <3>1
    <3>2. CASE n # 0
      <4>1. n \in 1 .. N /\ n - 1 \in 0 .. N
        BY <1>1, <3>2
      <4>2. g[n - 1] \in R
        BY <1>4, <4>1
      <4>4. step[n][g[n - 1]] = Next1(n, g[n - 1])
        <5> HIDE DEF Next1, R, N
        <5> QED
          BY <4>1, <4>2
      <4> HIDE DEF Next1
      <4> QED
        BY <1>4, <3>2, <4>1, <4>4
    <3> QED
      BY <3>1, <3>2
  <2>2. g = [n \in 0 .. N |-> g[n]]
    BY <1>4
  <2> HIDE DEF N
  <2> QED
    BY <2>1, <2>2
<1>6. Eq(added1)
  <2> HIDE DEF Eq
  <2> QED
    BY <1>5
<1>7. Added(urls) = added1
  BY DEF Added
<1> HIDE DEF added1
<1>8. added1[0] = << >> /\ \A n \in 1 .. N : added1[n] = Next1(n, added1[n - 1])
  <2>1. \A n \in 0 .. N : added1[n] = IF n = 0 THEN << >> ELSE Next1(n, added1[n - 1])
    BY <1>6, Zenon
  <2>2. 0 \in 0 .. N /\ \A n \in 1 .. N : n \in 0 .. N /\ n # 0
    BY <1>1
  <2> HIDE DEF N, Next1
  <2> QED
    BY <2>1, <2>2
<1> DEFINE Upto(n) == {u \in {urls[i] : i \in 1 .. n} : Usable(u)}
           Kept(n) == added1[n] \in R /\ IsInjective(added1[n]) /\ ToSet(added1[n]) = Upto(n)
           G == {n \in 0 .. N : Kept(n)}
<1>9. 0 \in G
  <2>1. ToSet(<< >>) = {} /\ IsInjective(<< >>) /\ 1 .. 0 = {}
    BY DEF ToSet, IsInjective
  <2>2. Upto(0) = {}
    BY <2>1
  <2>3. 0 \in 0 .. N
    BY <1>1
  <2>4. Kept(0)
    <3> HIDE DEF R, Upto
    <3> QED
      BY <1>1, <1>8, <2>1, <2>2, Zenon
  <2> HIDE DEF Kept, N
  <2> QED
    BY <2>3, <2>4
<1>10. ASSUME NEW n \in 0 .. N - 1, n \in G PROVE n + 1 \in G
  <2> DEFINE r == added1[n]
             u == urls[n + 1]
  <2>1. n + 1 \in 1 .. N /\ (n + 1) - 1 = n /\ n + 1 \in 0 .. N /\ n \in Nat
    BY <1>1
  <2>2. added1[n + 1] = Next1(n + 1, r) /\ Kept(n)
    <3> HIDE DEF Next1, Kept
    <3> QED
      BY <1>8, <1>10, <2>1
  <2>3. u \in Seq(Nat)
    BY <1>1, <2>1
  <2>4. \A i \in 1 .. n + 1 : i \in 1 .. n \/ i = n + 1
    BY <2>1
  <2>5. \A i \in 1 .. n : i \in 1 .. n + 1
    BY <2>1
  <2>6. n + 1 \in 1 .. n + 1
    BY <2>1
  <2>7. Upto(n + 1) = IF Usable(u) THEN Upto(n) \cup {u} ELSE Upto(n)
    <3>1. {urls[i] : i \in 1 .. n + 1} = {urls[i] : i \in 1 .. n} \cup {u}
      BY <2>4, <2>5, <2>6
    <3> QED
      BY <3>1
  <2> HIDE DEF u, r, Upto
  <2>8. CASE Usable(u) /\ u \notin ToSet(r)
    <3>1. added1[n + 1] = Append(r, u)
      BY <2>2, <2>8 DEF u
    <3>2. r \in R /\ IsInjective(r) /\ ToSet(r) = Upto(n)
      BY <2>2 DEF r
    <3>3. Append(r, u) \in R
      BY <2>3, <3>2
    <3>4. IsInjective(Append(r, u)) /\ ToSet(Append(r, u)) = ToSet(r) \cup {u}
      BY <2>3, <2>8, <3>2, AppendSet, AppendQueue
    <3> HIDE DEF R
    <3> QED
      BY <2>1, <2>7, <2>8, <3>1, <3>2, <3>3, <3>4
  <2>9. CASE ~(Usable(u) /\ u \notin ToSet(r))
    <3>1. added1[n + 1] = r
      BY <2>2, <2>9 DEF u
    <3>2. r \in R /\ IsInjective(r) /\ ToSet(r) = Upto(n)
      BY <2>2 DEF r
    <3>3. Upto(n + 1) = Upto(n)
      BY <2>7, <2>9, <3>2
    <3> HIDE DEF R
    <3> QED
      BY <2>1, <3>1, <3>2, <3>3
  <2> QED
    BY <2>8, <2>9
<1>11. 0 .. N \subseteq G
  <2> HIDE DEF G, N
  <2> QED
    BY <1>1, <1>9, <1>10, CountUp
<1>12. Kept(N)
  <2> HIDE DEF Kept
  <2> QED
    BY <1>1, <1>11
<1>13. {urls[i] : i \in 1 .. N} = ToSet(urls)
  BY DEF ToSet
<1> QED
  BY <1>7, <1>12, <1>13

LEMMA ParsedUrls ==
  ASSUME NEW w \in Seq(Nat), IsTorrent(FromBytes(w))
  PROVE  /\ FromBytes(w).announce \in Seq(Nat)
         /\ FromBytes(w).announceList \in Seq(Seq(Seq(Nat)))
<1> DEFINE V    == ValuesIn(w)
           meta == DecodeData(w)
           t    == FromBytes(w)
           a    == Get(meta, KeyAnnounce)
           l    == Get(meta, KeyAnnounceList)
<1>1. /\ DictOf(meta, V) /\ a # None
      /\ t.announce = Text(a) /\ t.announceList = Tiers(l)
  BY ParsedFrom
<1>2. \A v \in V : ValueOf(v, V)
  BY DecodedShape
<1> HIDE DEF V, meta, t
<1>3. Text(a) \in Seq(Nat)
  <2>1. a \in V
    BY <1>1, GetOf
  <2> QED
    BY <1>2, <2>1, TextOf
<1>4. Tiers(l) \in Seq(Seq(Seq(Nat)))
  <2>1. CASE l # None /\ IsList(l)
    <3>1. l \in V
      BY <1>1, <2>1, GetOf
    <3>2. l.list \in Seq(V)
      BY <1>2, <2>1, <3>1, PartsOfValue
    <3>3. Tiers(l) = FirstTiers(l.list)[Len(l.list)]
      BY <2>1, Zenon DEF Tiers
    <3> HIDE DEF l
    <3> QED
      BY <1>2, <3>2, <3>3, FirstTiersOf
  <2>2. CASE ~(l # None /\ IsList(l))
    <3>1. Tiers(l) = << >>
      BY <2>2, Zenon DEF Tiers
    <3> QED
      BY <3>1
  <2> QED
    BY <2>1, <2>2
<1> QED
  BY <1>1, <1>3, <1>4 DEF t

\* The URLs that announce may try.
UrlsToTry(t) == {u \in {t.announce} \cup UNION {ToSet(q) : q \in ToSet(t.announceList)} : Usable(u)}

\* _build_url_list keeps exactly the usable URLs, each once.
LEMMA UrlListOf ==
  ASSUME NEW t, t.announce \in Seq(Nat), t.announceList \in Seq(Seq(Seq(Nat)))
  PROVE  LET urls == BuildUrlList(t.announce, t.announceList)
         IN  urls \in Seq(Seq(Nat)) /\ IsInjective(urls) /\ ToSet(urls) = UrlsToTry(t)
<1> DEFINE flat == FlattenSeq(t.announceList)
           all  == <<t.announce>> \o flat
           urls == BuildUrlList(t.announce, t.announceList)
<1>1. flat \in Seq(Seq(Nat))
  BY FlattenPlaces
<1>2. ToSet(flat) = UNION {ToSet(q) : q \in ToSet(t.announceList)}
  BY FlattenedSet
<1>3. urls = Added(all)[Len(all)]
  BY Zenon DEF BuildUrlList
<1> HIDE DEF flat
<1>4. all \in Seq(Seq(Nat)) /\ ToSet(all) = {t.announce} \cup ToSet(flat)
  <2> DEFINE h == <<t.announce>>
  <2>1. h \in Seq(Seq(Nat)) /\ Len(h) = 1 /\ h[1] = t.announce
    OBVIOUS
  <2> HIDE DEF h
  <2>2. /\ h \o flat \in Seq(Seq(Nat)) /\ Len(h \o flat) = 1 + Len(flat) /\ Len(flat) \in Nat
        /\ DOMAIN (h \o flat) = 1 .. 1 + Len(flat) /\ DOMAIN flat = 1 .. Len(flat)
        /\ (h \o flat)[1] = t.announce
        /\ \A i \in 1 .. Len(flat) : i + 1 \in 1 .. 1 + Len(flat) /\ (h \o flat)[i + 1] = flat[i]
    <3>1. /\ h \o flat \in Seq(Seq(Nat)) /\ Len(h \o flat) = Len(h) + Len(flat)
          /\ \A i \in 1 .. Len(h) + Len(flat) :
               (h \o flat)[i] = IF i <= Len(h) THEN h[i] ELSE flat[i - Len(h)]
      BY <1>1, <2>1, ConcatProperties
    <3>2. Len(flat) \in Nat /\ DOMAIN flat = 1 .. Len(flat)
      BY <1>1
    <3> DEFINE d == h \o flat
    <3>3. d \in Seq(Seq(Nat)) /\ Len(d) = 1 + Len(flat) /\ DOMAIN d = 1 .. 1 + Len(flat)
      BY <2>1, <3>1
    <3>4. \A i \in 1 .. 1 + Len(flat) : d[i] = IF i <= 1 THEN h[i] ELSE flat[i - 1]
      BY <2>1, <3>1
    <3> HIDE DEF d
    <3>5. d[1] = t.announce
      BY <2>1, <3>2, <3>4
    <3>6. ASSUME NEW i \in 1 .. Len(flat) PROVE i + 1 \in 1 .. 1 + Len(flat) /\ d[i + 1] = flat[i]
      <4>1. i + 1 \in 1 .. 1 + Len(flat) /\ ~(i + 1 <= 1) /\ (i + 1) - 1 = i
        BY <3>2
      <4> QED
        BY <3>4, <4>1
    <3> QED
      BY <3>2, <3>3, <3>5, <3>6 DEF d
  <2> DEFINE c == h \o flat
  <2> HIDE DEF c
  <2>3. ASSUME NEW x \in ToSet(c) PROVE x \in {t.announce} \cup ToSet(flat)
    <3>1. PICK i \in 1 .. 1 + Len(flat) : x = c[i]
      BY <2>2 DEF ToSet, c
    <3>2. CASE i = 1
      BY <2>2, <3>1, <3>2 DEF c
    <3>3. CASE i # 1
      <4>1. i - 1 \in 1 .. Len(flat) /\ (i - 1) + 1 = i
        BY <2>2, <3>3
      <4>2. x = flat[i - 1]
        BY <2>2, <3>1, <4>1 DEF c
      <4> QED
        BY <2>2, <4>1, <4>2 DEF ToSet
    <3> QED
      BY <3>2, <3>3
  <2>4. ASSUME NEW x \in {t.announce} \cup ToSet(flat) PROVE x \in ToSet(c)
    <3>1. CASE x = t.announce
      <4>1. 1 \in DOMAIN c /\ x = c[1]
        BY <2>2, <3>1 DEF c
      <4> QED
        BY <4>1 DEF ToSet
    <3>2. CASE x # t.announce
      <4>1. PICK i \in 1 .. Len(flat) : x = flat[i]
        BY <2>2, <3>2 DEF ToSet
      <4>2. i + 1 \in DOMAIN c /\ x = c[i + 1]
        BY <2>2, <4>1 DEF c
      <4> QED
        BY <4>2 DEF ToSet
    <3> QED
      BY <3>1, <3>2
  <2>5. ToSet(c) = {t.announce} \cup ToSet(flat)
    BY <2>3, <2>4
  <2> QED
    BY <2>2, <2>5 DEF c, h
<1> HIDE DEF all, urls
<1>5. urls \in Seq(Seq(Nat)) /\ IsInjective(urls) /\ ToSet(urls) = {u \in ToSet(all) : Usable(u)}
  BY <1>3, <1>4, AddedOf
<1>6. ToSet(urls) = UrlsToTry(t)
  BY <1>2, <1>4, <1>5, Zenon DEF UrlsToTry
<1> QED
  BY <1>5, <1>6 DEF urls

-----------------------------------------------------------------------------
(* A length of one is written in one way, when it has no blank *)

LEMMA DigitsRecursion ==
  ASSUME NEW d \in Seq(Nat), Grouped(d)
  PROVE  LET v == FirstDigits(d)
         IN  /\ v[0] = 0 /\ \A n \in 0 .. Len(d) : v[n] \in Nat
             /\ \A n \in 1 .. Len(d) :
                  \/ d[n] = Underscore /\ v[n] = v[n - 1]
                  \/ d[n] \in Digits /\ v[n] = 10 * v[n - 1] + (d[n] - Zero)
<1> DEFINE N == Len(d)
           Take(r, c) == IF c = Underscore THEN r ELSE 10 * r + (c - Zero)
           step == [n \in 1 .. N |-> [r \in Nat |-> Take(r, d[n])]]
           Eq(f) == f = [n \in 0 .. N |-> IF n = 0 THEN 0 ELSE Take(f[n - 1], d[n])]
           value == CHOOSE f : Eq(f)
<1>1. N \in Nat /\ \A n \in 1 .. N : d[n] = Underscore \/ d[n] \in Digits
  BY DEF Grouped
<1>2. \A n \in 1 .. N : \A r \in Nat : Take(r, d[n]) \in Nat
  <2>1. \A c \in Digits : \A r \in Nat : 10 * r + (c - Zero) \in Nat
    BY DEF Digits, Zero
  <2> QED
    BY <1>1, <2>1
<1>a. FirstDigits(d) = value
  BY DEF FirstDigits, N
<1>b. \A c \in Digits : \A r : Take(r, c) = 10 * r + (c - Zero)
  BY DEF Digits, Zero, Underscore
<1>c. \A r : Take(r, Underscore) = r
  OBVIOUS
<1> HIDE DEF N, Take
<1>3. step \in Steps(N, Nat)
  <2>1. ASSUME NEW n \in 1 .. N, NEW r \in Nat PROVE Take(r, d[n]) \in Nat
    BY <1>2
  <2> QED
    BY <2>1 DEF Steps
<1>4. PICK g : g \in [0 .. N -> Nat] /\ g[0] = 0 /\ \A n \in 1 .. N : g[n] = step[n][g[n - 1]]
  <2> HIDE DEF step
  <2>1. \E g : CountedBy(g, N, Nat, 0, step)
    BY <1>1, <1>3, CountedRecursion
  <2> QED
    BY <2>1, Zenon DEF CountedBy
<1>5. Eq(g)
  <2>1. ASSUME NEW n \in 0 .. N PROVE g[n] = IF n = 0 THEN 0 ELSE Take(g[n - 1], d[n])
    <3>1. CASE n = 0
      BY <1>4, <3>1
    <3>2. CASE n # 0
      <4>1. n \in 1 .. N /\ n - 1 \in 0 .. N
        BY <1>1, <3>2
      <4>2. g[n - 1] \in Nat
        BY <1>4, <4>1
      <4> QED
        BY <1>4, <3>2, <4>1, <4>2
    <3> QED
      BY <3>1, <3>2
  <2>2. g = [n \in 0 .. N |-> g[n]]
    BY <1>4
  <2> QED
    BY <2>1, <2>2
<1>6. Eq(value)
  <2> HIDE DEF Eq
  <2> QED
    BY <1>5
<1> HIDE DEF value
<1>8. value[0] = 0 /\ \A n \in 1 .. N : value[n] = Take(value[n - 1], d[n])
  <2>1. \A n \in 0 .. N : value[n] = IF n = 0 THEN 0 ELSE Take(value[n - 1], d[n])
    BY <1>6, Zenon
  <2>2. 0 \in 0 .. N /\ \A n \in 1 .. N : n \in 0 .. N /\ n # 0
    BY <1>1
  <2> QED
    BY <2>1, <2>2
<1> DEFINE G == {n \in 0 .. N : value[n] \in Nat}
<1>9. 0 \in G
  BY <1>1, <1>8
<1>10. ASSUME NEW n \in 0 .. N - 1, n \in G PROVE n + 1 \in G
  <2>1. n + 1 \in 1 .. N /\ (n + 1) - 1 = n /\ n + 1 \in 0 .. N
    BY <1>1
  <2>2. value[n + 1] = Take(value[n], d[n + 1]) /\ value[n] \in Nat
    BY <1>8, <1>10, <2>1
  <2>3. value[n + 1] \in Nat
    BY <1>2, <2>1, <2>2
  <2> QED
    BY <2>1, <2>3
<1>11. 0 .. N \subseteq G
  <2> HIDE DEF G
  <2> QED
    BY <1>1, <1>9, <1>10, CountUp
<1>12. ASSUME NEW n \in 1 .. N
       PROVE  \/ d[n] = Underscore /\ value[n] = value[n - 1]
              \/ d[n] \in Digits /\ value[n] = 10 * value[n - 1] + (d[n] - Zero)
  BY <1>1, <1>8, <1>b, <1>c, Zenon
<1> QED
  BY <1>8, <1>11, <1>12, <1>a DEF N

\* The text of a length that starts with a digit and does not end with a blank
\* is its own number; without a leading zero, only "1" is one.
LEMMA LengthOne ==
  ASSUME NEW t \in Seq(Nat), t # << >>, t[1] \in Digits, t[Len(t)] # Blank,
         LengthText(t), NumberOf(t) = 1
  PROVE  Len(t) = 1 /\ t[1] = Zero + 1
<1> DEFINE N == Len(t)
           solid == {k \in DOMAIN t : t[k] # Blank}
           v == FirstDigits(t)
<1>1. N \in Nat /\ N >= 1 /\ DOMAIN t = 1 .. N
  BY EmptySeq
<1>2. 1 \in solid /\ N \in solid /\ solid \in SUBSET (1 .. N)
  BY <1>1 DEF Digits, Blank, Zero
<1>3. Min(solid) = 1
  <2>1. Min(solid) \in solid /\ \A y \in solid : Min(solid) <= y
    <3> HIDE DEF solid
    <3> QED
      BY <1>1, <1>2, MinElement
  <2> DEFINE m == Min(solid)
  <2>2. m \in 1 .. N /\ m <= 1
    <3> HIDE DEF solid, m
    <3> QED
      BY <1>2, <2>1 DEF m
  <2> HIDE DEF m
  <2> QED
    BY <1>1, <2>2 DEF m
<1>4. Max(solid) = N
  <2> HIDE DEF solid, N
  <2>1. \A y \in solid : N >= y
    BY <1>1, <1>2
  <2>2. \A x \in solid : (\A y \in solid : x >= y) => x = N
    BY <1>1, <1>2
  <2> QED
    BY <1>2, <2>1, <2>2 DEF Max
<1>5. Stripped(t) = t
  <2>1. Stripped(t) = SubSeq(t, 1, N)
    <3>1. Stripped(t) = IF solid = {} THEN << >> ELSE SubSeq(t, Min(solid), Max(solid))
      BY Zenon DEF Stripped
    <3> HIDE DEF solid
    <3> QED
      BY <1>2, <1>3, <1>4, <3>1
  <2> QED
    BY <2>1, <1>1
<1>6. Head(t) = t[1] /\ t[1] \notin {Plus, Minus} /\ t[1] # Minus
  BY <1>1 DEF Digits, Plus, Minus, Zero
<1>7. Unsigned(t) = t
  BY <1>5, <1>6 DEF Unsigned, Signed
<1>8. Grouped(t) /\ ~(N > 1 /\ t[1] = Zero)
  BY <1>6, <1>7 DEF LengthText, IsNumber
<1>9. v[N] = 1
  BY <1>5, <1>6, <1>7 DEF NumberOf
<1>10. /\ v[0] = 0 /\ \A n \in 0 .. N : v[n] \in Nat
       /\ \A n \in 1 .. N : \/ t[n] = Underscore /\ v[n] = v[n - 1]
                            \/ t[n] \in Digits /\ v[n] = 10 * v[n - 1] + (t[n] - Zero)
  BY <1>8, DigitsRecursion
<1>a. t[N] \in Digits
  <2>1. N \in DOMAIN t /\ N + 1 \notin DOMAIN t
    BY <1>1
  <2> QED
    BY <1>8, <2>1 DEF Grouped
<1>b. Underscore \notin Digits /\ \A c \in Digits : c - Zero \in Nat
  BY DEF Digits, Zero, Underscore
<1> HIDE DEF N, v
<1>11. v[1] = t[1] - Zero
  <2>1. 1 \in 1 .. N /\ 1 - 1 = 0
    BY <1>1
  <2>2. v[1] = 10 * v[0] + (t[1] - Zero)
    BY <1>10, <2>1, <1>b
  <2> QED
    BY <1>10, <2>2 DEF Digits, Zero
<1>12. N = 1
  <2> SUFFICES ASSUME N > 1 PROVE FALSE
    BY <1>1
  <2> DEFINE G == {n \in 1 .. N : v[n] >= 1}
  <2>1. v[1] >= 1 /\ v[1] \in Nat
    BY <1>8, <1>11 DEF Digits, Zero
  <2>2. 1 \in G
    BY <1>1, <2>1
  <2>3. ASSUME NEW n \in 1 .. N - 1, n \in G PROVE n + 1 \in G
    <3>1. n + 1 \in 1 .. N /\ (n + 1) - 1 = n /\ n \in 0 .. N
      BY <1>1
    <3>2. /\ v[n] \in Nat /\ v[n] >= 1
          /\ \/ v[n + 1] = v[n]
             \/ t[n + 1] - Zero \in Nat /\ v[n + 1] = 10 * v[n] + (t[n + 1] - Zero)
      BY <1>10, <1>b, <2>3, <3>1
    <3>3. \A a, c \in Nat : a >= 1 => 10 * a + c >= 1
      OBVIOUS
    <3>4. v[n + 1] >= 1
      BY <3>2, <3>3
    <3> QED
      BY <3>1, <3>4
  <2>4. 1 .. N \subseteq G
    <3> HIDE DEF G
    <3> QED
      BY <1>1, <2>2, <2>3, CountUp
  <2>5. N - 1 \in 1 .. N /\ N - 1 \in 0 .. N /\ N \in 1 .. N
    BY <1>1
  <2>6. v[N - 1] \in Nat /\ v[N - 1] >= 1
    BY <1>10, <2>4, <2>5
  <2>7. v[N] = 10 * v[N - 1] + (t[N] - Zero) /\ t[N] - Zero \in Nat
    BY <1>10, <1>a, <1>b, <2>5
  <2>8. \A a, c \in Nat : a >= 1 => 10 * a + c # 1
    OBVIOUS
  <2> QED
    BY <1>9, <2>6, <2>7, <2>8
<1>13. t[1] = Zero + 1
  BY <1>9, <1>11, <1>12 DEF Digits, Zero
<1> QED
  BY <1>12, <1>13 DEF N

\* int() returns a number.
LEMMA NumberInt ==
  ASSUME NEW t \in Seq(Nat), IsNumber(t)
  PROVE  NumberOf(t) \in Int
<1> DEFINE solid == {k \in DOMAIN t : t[k] # Blank}
           d == Unsigned(t)
<1>1. Stripped(t) \in Seq(Nat)
  <2>1. CASE solid = {}
    <3>1. Stripped(t) = << >>
      BY <2>1, Zenon DEF Stripped
    <3> QED
      BY <3>1
  <2>2. CASE solid # {}
    <3>1. Stripped(t) = SubSeq(t, Min(solid), Max(solid))
      BY <2>2, Zenon DEF Stripped
    <3>2. solid \in SUBSET (1 .. Len(t)) /\ Len(t) \in Nat
      OBVIOUS
    <3> HIDE DEF solid
    <3>3. Min(solid) \in 1 .. Len(t)
      <4>1. solid \in SUBSET Nat
        BY <3>2
      <4> QED
        BY <2>2, <3>2, <4>1, MinElement
    <3>4. Max(solid) \in 1 .. Len(t)
      BY <2>2, <3>2, MaxElement
    <3> DEFINE a == Min(solid)
               b == Max(solid)
    <3> HIDE DEF a, b
    <3>5. SubSeq(t, a, b) \in Seq(Nat)
      BY <3>3, <3>4 DEF a, b
    <3> QED
      BY <3>1, <3>5 DEF a, b
  <2> QED
    BY <2>1, <2>2
<1>2. d \in Seq(Nat)
  <2> DEFINE z == Stripped(t)
  <2>1. z \in Seq(Nat) /\ (Signed(t) => z # << >>)
    BY <1>1 DEF Signed
  <2>2. d = IF Signed(t) THEN Tail(z) ELSE z
    BY DEF Unsigned
  <2> HIDE DEF z, d
  <2> QED
    BY <2>1, <2>2
<1>3. Grouped(d)
  BY DEF IsNumber
<1>4. FirstDigits(d)[Len(d)] \in Nat
  <2>1. Len(d) \in 0 .. Len(d)
    BY <1>2
  <2> HIDE DEF d
  <2> QED
    BY <1>2, <1>3, <2>1, DigitsRecursion
<1> DEFINE n == FirstDigits(d)[Len(d)]
<1>5. NumberOf(t) = IF Head(Stripped(t)) = Minus THEN 0 - n ELSE n
  BY Zenon DEF NumberOf
<1> HIDE DEF n, d
<1> QED
  BY <1>4, <1>5 DEF n

-----------------------------------------------------------------------------
(* Where an entry of a dictionary stands in the text *)

\* At this place w has the key x, and v behind it.
EntryAt(w, at, x, v) ==
  LET key == ParseString(w, at)
      val == Parse(w)[<<"value", key.at>>]
  IN  /\ w[at] \in Digits
      /\ IsOk(key.val) /\ key.val.str = x
      /\ IsOk(val.val) /\ val.val = v

LEMMA EntryPlace ==
  ASSUME NEW w \in Seq(Nat), NEW p \in 1 .. Len(w) + 1, NEW d, NEW x \in DOMAIN d,
         Parse(w)[<<"entries", p>>].val = DictV(d)
  PROVE  \E at \in 1 .. Len(w) : EntryAt(w, at, x, d[x])
<1> DEFINE M == Len(w) + 1
           parse == Parse(w)
           Has(f, y) == \E j \in 1 .. Len(w) : EntryAt(w, j, y, f[y])
           Found1(at) == \A f : parse[<<"entries", at>>].val = DictV(f) => \A y \in DOMAIN f : Has(f, y)
           H == {n \in 0 .. M : \A at \in M + 1 - n .. M : Found1(at)}
<1>0. M \in Nat /\ M >= 1
  OBVIOUS
<1>1. 0 \in H
  <2>1. M + 1 - 0 .. M = {} /\ 0 \in 0 .. M
    BY <1>0
  <2> HIDE DEF Found1, M
  <2> QED
    BY <2>1
<1>2. ASSUME NEW n \in 0 .. M - 1, n \in H PROVE n + 1 \in H
  <2> DEFINE q == M + 1 - n
             at == q - 1
  <2>1. at \in 1 .. M /\ q = at + 1 /\ M + 1 - (n + 1) = at /\ n + 1 \in 0 .. M /\ at \in Nat
    BY <1>0
  <2>2. \A j \in at + 1 .. M : Found1(j)
    <3> HIDE DEF Found1, M
    <3> QED
      BY <1>2, <2>1
  <2> HIDE DEF at, q
  <2>3. parse[<<"entries", at>>] = ParseEntries(parse, w, at)
    <3> HIDE DEF parse
    <3> QED
      BY <2>1, ParseRounds DEF Kinds, Round, parse
  <2>4. AheadFrom(parse, w, 1)
    BY ParseRounds
  <2>5. Found1(at)
    <3> HIDE DEF Has
    <3> SUFFICES ASSUME NEW f, parse[<<"entries", at>>].val = DictV(f), NEW y \in DOMAIN f
                 PROVE  Has(f, y)
      OBVIOUS
    <3> DEFINE key  == ParseString(w, at)
               val  == parse[<<"value", key.at>>]
               rest == parse[<<"entries", val.at>>]
               g    == Assign(key.val.str, val.val, rest.val.dict)
    <3>0. DictV(f) # Raised
      BY Distinct
    <3>1. \/ parse[<<"entries", at>>] = [val |-> DictV(<< >>), at |-> at + 1]
          \/ /\ at <= Len(w) /\ w[at] \in Digits /\ IsOk(key.val) /\ IsOk(val.val) /\ IsOk(rest.val)
             /\ parse[<<"entries", at>>] = [val |-> DictV(g), at |-> rest.at]
      <4>1. at > Len(w) \/ at <= Len(w)
        BY <2>1
      <4>2. parse[<<"entries", at>>] # Fail
        <5> HIDE DEF parse
        <5> QED
          BY <3>0, FailAhead DEF IsOk
      <4> QED
        BY <2>3, <4>1, <4>2, Zenon DEF ParseEntries, ParseEntry
    <3>2. CASE parse[<<"entries", at>>] = [val |-> DictV(<< >>), at |-> at + 1]
      <4>1. DictV(f) = DictV(<< >>)
        BY <3>2
      <4>2. f = << >>
        <5>1. DictV(f).dict = f /\ DictV(<< >>).dict = << >>
          BY Fields
        <5> QED
          BY <4>1, <5>1, Zenon
      <4>3. DOMAIN << >> = {}
        OBVIOUS
      <4> QED
        BY <4>2, <4>3
    <3>3. CASE /\ at <= Len(w) /\ w[at] \in Digits /\ IsOk(key.val) /\ IsOk(val.val) /\ IsOk(rest.val)
               /\ parse[<<"entries", at>>] = [val |-> DictV(g), at |-> rest.at]
      <4>1. f = g
        <5> DEFINE r == parse[<<"entries", at>>]
        <5> HIDE DEF g, parse, rest
        <5>0. r = [val |-> DictV(g), at |-> rest.at] /\ r.val = DictV(f)
          BY <3>3
        <5> HIDE DEF r
        <5>1. DictV(f) = DictV(g)
          BY <5>0
        <5>2. DictV(f).dict = f /\ DictV(g).dict = g
          BY Fields
        <5> QED
          BY <5>1, <5>2, Zenon
      <4>2. key.at \in at + 1 .. M
        BY <2>1, <3>3, ParseStringAhead DEF Ahead
      <4>3. Ahead(val, key.at, w)
        <5>1. key.at \in 1 .. Len(w) + 1
          BY <2>1, <4>2
        <5> HIDE DEF parse
        <5> QED
          BY <2>4, <5>1 DEF AheadFrom, Kinds
      <4>4. val.at \in at + 1 .. M
        <5> HIDE DEF val, key, rest, g
        <5> QED
          BY <2>1, <3>3, <4>2, <4>3 DEF Ahead
      <4>5. PICK r : rest.val = DictV(r)
        <5>1. val.at \in 1 .. Len(w) + 1
          BY <2>1, <4>4
        <5>2. DictOf(rest.val, ValuesIn(w))
          BY <3>3, <5>1, PartsOf
        <5> QED
          BY <5>2 DEF DictOf
      <4>6. rest.val.dict = r
        <5> HIDE DEF rest
        <5> QED
          BY <4>5, Fields
      <4>7. CASE y \in DOMAIN r
        <5>1. Has(r, y)
          BY <2>2, <4>4, <4>5, <4>7
        <5>2. f[y] = r[y]
          <6> HIDE DEF key, val, rest
          <6> QED
            BY <4>1, <4>6, <4>7 DEF Assign
        <5> QED
          BY <5>1, <5>2, Zenon DEF Has
      <4>8. CASE y \notin DOMAIN r
        <5> HIDE DEF rest
        <5>1. y = key.val.str /\ f[y] = val.val
          <6> HIDE DEF key, val
          <6> QED
            BY <4>1, <4>6, <4>8 DEF Assign
        <5>2. EntryAt(w, at, y, f[y])
          BY <3>3, <5>1, Zenon DEF EntryAt
        <5>3. at \in 1 .. Len(w)
          BY <2>1, <3>3
        <5> QED
          BY <5>2, <5>3, Zenon DEF Has
      <4> QED
        BY <4>7, <4>8
    <3> QED
      BY <3>1, <3>2, <3>3
  <2>6. \A j \in at .. M : j = at \/ j \in at + 1 .. M
    BY <2>1
  <2>7. \A j \in at .. M : Found1(j)
    <3> HIDE DEF Found1, M
    <3> QED
      BY <2>2, <2>5, <2>6
  <2> HIDE DEF Found1, M
  <2> QED
    BY <2>1, <2>7
<1>3. 0 .. M \subseteq H
  <2> HIDE DEF H, M
  <2> QED
    BY <1>0, <1>1, <1>2, CountUp
<1>4. \A j \in 1 .. M : Found1(j)
  <2>1. M \in 0 .. M /\ M + 1 - M = 1
    BY <1>0
  <2> HIDE DEF Found1, M
  <2> QED
    BY <1>3, <2>1
<1>5. Found1(p)
  <2> HIDE DEF Found1
  <2> QED
    BY <1>4
<1>6. Has(d, x)
  <2> HIDE DEF Has
  <2> QED
    BY <1>5
<1> QED
  BY <1>6

\* Without blanks before a colon, the key "info" is written as it is searched for.
LEMMA KeyPlace ==
  ASSUME NEW w \in Seq(Nat), ~BlankInLength(w), NEW at \in 1 .. Len(w), NEW v,
         EntryAt(w, at, <<KeyInfo>>, v)
  PROVE  at \in InfoKeysAt(w) /\ ParseString(w, at).at = at + Len(InfoKey)
<1> DEFINE key  == ParseString(w, at)
           ends == Found(w, at, Colon)
           m    == Min(ends)
           t    == SubSeq(w, at, m - 1)
           after == m + 1 + NumberOf(t)
           s    == SubSeq(w, m + 1, after - 1)
<1>1. w[at] \in Digits /\ IsOk(key.val) /\ key.val.str = <<KeyInfo>>
  BY Zenon DEF EntryAt
<1>2. /\ ends # {} /\ LengthText(t) /\ after \in m + 1 .. Len(w) + 1
      /\ key = [val |-> StrV(s), at |-> after]
  <2>1. key # Fail
    BY <1>1, FailAhead
  <2> QED
    BY <2>1, Zenon DEF ParseString
<1>3. m \in at .. Len(w) /\ w[m] = Colon
  <2>1. ends \in SUBSET Nat /\ \A k \in ends : k \in at .. Len(w) /\ w[k] = Colon
    BY DEF Found
  <2> HIDE DEF ends
  <2> QED
    BY <1>2, <2>1, MinElement
<1>4. m # at
  BY <1>1, <1>3 DEF Digits, Zero, Colon
<1> HIDE DEF ends, m
<1>5. /\ t \in Seq(Nat) /\ Len(t) = m - at /\ Len(t) >= 1 /\ t[1] = w[at] /\ t[Len(t)] = w[m - 1]
      /\ t # << >>
  <2>1. m - 1 \in at .. Len(w) /\ at >= 1
    BY <1>3, <1>4
  <2>2. /\ t \in Seq(Nat) /\ Len(t) = (m - 1) - at + 1
        /\ \A i \in 1 .. (m - 1) - at + 1 : t[i] = w[at + i - 1]
    <3> DEFINE b == m - 1
    <3>1. at \in 1 .. Len(w) + 1 /\ b \in at - 1 .. Len(w)
      BY <2>1
    <3> HIDE DEF b
    <3>2. PartOf(Nat, w, at, b)
      BY <3>1, SubSeqParts, Zenon
    <3> QED
      BY <3>2, Zenon DEF PartOf, b
  <2> HIDE DEF t
  <2>3. Len(t) = m - at /\ m - at \in Nat /\ m - at >= 1
    BY <1>3, <1>4, <2>2
  <2>4. t[1] = w[at] /\ t[m - at] = w[m - 1]
    <3>1. 1 \in 1 .. (m - 1) - at + 1 /\ at + 1 - 1 = at /\ m - at \in 1 .. (m - 1) - at + 1
          /\ at + (m - at) - 1 = m - 1
      BY <1>3, <2>3
    <3> QED
      BY <2>2, <3>1
  <2>5. t # << >>
    BY <2>3
  <2> QED
    BY <2>2, <2>3, <2>4, <2>5
<1>6. w[m - 1] # Blank
  <2>1. m \in 2 .. Len(w)
    BY <1>3, <1>4
  <2> QED
    BY <1>3, <2>1 DEF BlankInLength
<1>7. s = <<KeyInfo>>
  <2> HIDE DEF key, s, after
  <2>1. key.val = StrV(s)
    BY <1>2
  <2>2. key.val.str = s
    BY <2>1, Fields
  <2> QED
    BY <1>1, <2>2
<1>8. Len(s) = 1 /\ after = m + 2 /\ w[m + 1] = KeyInfo
  <2>1. Len(<<KeyInfo>>) = 1 /\ <<KeyInfo>>[1] = KeyInfo
    OBVIOUS
  <2>2. Len(s) = 1 /\ s[1] = KeyInfo
    BY <1>7, <2>1, Zenon
  <2> HIDE DEF after
  <2>3. after \in m + 1 .. Len(w) + 1
    BY <1>2
  <2>4. Len(s) = after - 1 - (m + 1) + 1 /\ \A i \in 1 .. after - 1 - (m + 1) + 1 : s[i] = w[m + 1 + i - 1]
    BY <1>3, <2>3
  <2> HIDE DEF s
  <2>5. after = m + 2
    <3>1. m \in Int
      BY <1>3
    <3>2. after \in Int
      BY <2>3, <3>1
    <3>3. after - 1 - (m + 1) + 1 = 1
      BY <2>2, <2>4, Zenon
    <3> QED
      BY <3>1, <3>2, <3>3
  <2>6. s[1] = w[m + 1]
    BY <1>3, <2>4, <2>5
  <2> QED
    BY <2>2, <2>5, <2>6
<1>9. NumberOf(t) = 1
  <2> DEFINE n == NumberOf(t)
  <2>1. n \in Int
    BY <1>2, <1>5, NumberInt DEF LengthText
  <2>2. m + 1 + n = m + 2
    BY <1>8
  <2> HIDE DEF n
  <2>3. n = 1
    BY <1>3, <2>1, <2>2
  <2> QED
    BY <2>3 DEF n
<1>10. Len(t) = 1 /\ t[1] = Zero + 1
  BY <1>1, <1>2, <1>5, <1>6, <1>9, LengthOne
<1>11. m = at + 1 /\ w[at] = Zero + 1 /\ w[at + 1] = Colon /\ w[at + 2] = KeyInfo /\ at + 2 <= Len(w) /\ after = at + 3
  <2> HIDE DEF t, after
  <2>1. after \in m + 1 .. Len(w) + 1
    BY <1>2
  <2>2. m = at + 1
    <3>1. m \in Int /\ at \in Int
      BY <1>3
    <3>2. m - at = 1
      BY <1>5, <1>10, Zenon
    <3> QED
      BY <3>1, <3>2
  <2> QED
    BY <1>3, <1>5, <1>8, <1>10, <2>1, <2>2
<1>12. Len(InfoKey) = 3
  BY DEF InfoKey
<1>13. SubSeq(w, at, at + 2) = InfoKey
  <2> DEFINE z == SubSeq(w, at, at + 2)
  <2>1. z \in Seq(Nat) /\ Len(z) = 3 /\ z[1] = w[at] /\ z[2] = w[at + 1] /\ z[3] = w[at + 2]
    BY <1>11
  <2>2. InfoKey \in Seq(Nat) /\ InfoKey[1] = Zero + 1 /\ InfoKey[2] = Colon /\ InfoKey[3] = KeyInfo
    BY DEF InfoKey, Zero, Colon, KeyInfo, Letter
  <2> HIDE DEF z
  <2>3. \A i \in 1 .. Len(z) : i = 1 \/ i = 2 \/ i = 3
    BY <2>1
  <2>4. \A i \in 1 .. Len(z) : z[i] = InfoKey[i]
    BY <1>11, <2>1, <2>2, <2>3
  <2>5. z = InfoKey
    BY <1>12, <2>1, <2>2, <2>4, SeqEqual
  <2> QED
    BY <2>5 DEF z
<1>14. at \in InfoKeysAt(w)
  <2>1. at \in 1 .. Len(w) + 1 - 3 /\ at + 3 - 1 = at + 2
    BY <1>11
  <2> QED
    BY <1>12, <1>13, <2>1 DEF InfoKeysAt
<1>15. key.at = at + 3
  <2> HIDE DEF after, s
  <2> QED
    BY <1>2, <1>11
<1> QED
  BY <1>12, <1>14, <1>15

-----------------------------------------------------------------------------
(* A value means the same in the text and in the slice cut out of it *)

\* u is the part of w behind its first off bytes.
SliceOf(u, w, off) ==
  /\ w \in Seq(Nat) /\ u \in Seq(Nat) /\ off \in Nat /\ off + Len(u) <= Len(w)
  /\ \A i \in 1 .. Len(u) : u[i] = w[off + i]

\* q is the result r, of a decoder that starts off bytes earlier.
Moved(q, r, off) == q.val = r.val /\ q.at = r.at - off

PlacesOf(off, n, m, i) ==
  /\ off + i \in 1 .. m /\ off + i \in 1 .. m + 1 /\ off + i \in Nat
  /\ i \in 1 .. n + 1 /\ i \in Nat /\ ~(i > n) /\ ~(off + i > m)
  /\ off + i + 1 = off + (i + 1) /\ (off + i + 1) - off = i + 1

LEMMA PlaceMoves ==
  ASSUME NEW off \in Nat, NEW n \in Nat, NEW m \in Nat, off + n <= m, NEW i \in 1 .. n
  PROVE  PlacesOf(off, n, m, i)
BY DEF PlacesOf

LEMMA RangeMoves ==
  ASSUME NEW off \in Nat, NEW n \in Nat, NEW m \in Nat, off + n <= m,
         NEW i \in 1 .. n + 1, NEW k \in i .. n
  PROVE  off + k \in off + i .. m /\ k \in 1 .. n
OBVIOUS

SamePart(u, w, off, a, b) == SubSeq(u, a, b) = SubSeq(w, off + a, off + b)

LEMMA SliceSub ==
  ASSUME NEW w, NEW u, NEW off, SliceOf(u, w, off),
         NEW a \in 1 .. Len(u) + 1, NEW b \in a - 1 .. Len(u)
  PROVE  SamePart(u, w, off, a, b)
<1> DEFINE x == SubSeq(u, a, b)
           y == SubSeq(w, off + a, off + b)
<1>1. /\ w \in Seq(Nat) /\ u \in Seq(Nat) /\ off \in Nat /\ Len(w) \in Nat /\ Len(u) \in Nat
      /\ off + Len(u) <= Len(w) /\ \A i \in 1 .. Len(u) : u[i] = w[off + i]
  BY DEF SliceOf
<1>2. x \in Seq(Nat) /\ Len(x) = b - a + 1 /\ \A i \in 1 .. b - a + 1 : x[i] = u[a + i - 1]
  <2>1. PartOf(Nat, u, a, b)
    BY <1>1, SubSeqParts, Zenon
  <2> QED
    BY <2>1, Zenon DEF PartOf
<1>3. y \in Seq(Nat) /\ Len(y) = b - a + 1 /\ \A i \in 1 .. b - a + 1 : y[i] = w[off + a + i - 1]
  <2> DEFINE c == off + a
             d == off + b
  <2>1. c \in 1 .. Len(w) + 1 /\ d \in c - 1 .. Len(w) /\ d - c + 1 = b - a + 1
    BY <1>1
  <2> HIDE DEF c, d
  <2>2. SubSeq(w, c, d) \in Seq(Nat) /\ Len(SubSeq(w, c, d)) = d - c + 1
        /\ \A i \in 1 .. d - c + 1 : SubSeq(w, c, d)[i] = w[c + i - 1]
    <3>1. PartOf(Nat, w, c, d)
      BY <1>1, <2>1, SubSeqParts, Zenon
    <3> QED
      BY <3>1, Zenon DEF PartOf
  <2> QED
    BY <2>1, <2>2 DEF c, d
<1> HIDE DEF x, y
<1>4. \A i \in 1 .. Len(x) : x[i] = y[i]
  <2> SUFFICES ASSUME NEW i \in 1 .. b - a + 1 PROVE x[i] = y[i]
    BY <1>2
  <2>1. a + i - 1 \in 1 .. Len(u) /\ off + (a + i - 1) = off + a + i - 1
    BY <1>1
  <2> QED
    BY <1>1, <1>2, <1>3, <2>1
<1>5. x = y
  BY <1>2, <1>3, <1>4, SeqEqual
<1> QED
  BY <1>5 DEF x, y, SamePart

\* find returns the same place.
FoundAlso(u, w, off, i, c) ==
  /\ Found(u, i, c) # {}
  /\ Min(Found(u, i, c)) \in i .. Len(u)
  /\ Min(Found(u, i, c)) = Min(Found(w, off + i, c)) - off
  /\ Min(Found(w, off + i, c)) = off + Min(Found(u, i, c))

LEMMA SliceFound ==
  ASSUME NEW w, NEW u, NEW off, SliceOf(u, w, off), NEW c, NEW i \in 1 .. Len(u) + 1,
         Found(w, off + i, c) # {}, Min(Found(w, off + i, c)) <= off + Len(u)
  PROVE  FoundAlso(u, w, off, i, c)
<1> DEFINE F == Found(w, off + i, c)
           E == Found(u, i, c)
           m == Min(F)
           k == Min(E)
<1>1. /\ w \in Seq(Nat) /\ u \in Seq(Nat) /\ off \in Nat /\ Len(w) \in Nat /\ Len(u) \in Nat
      /\ off + Len(u) <= Len(w) /\ \A j \in 1 .. Len(u) : u[j] = w[off + j]
  BY DEF SliceOf
<1>2. F \in SUBSET Nat /\ \A j \in F : j \in off + i .. Len(w) /\ w[j] = c
  BY <1>1 DEF Found
<1>3. E \in SUBSET Nat /\ \A j \in E : j \in i .. Len(u) /\ u[j] = c
  BY <1>1 DEF Found
<1>4. m \in F /\ (\A j \in F : m <= j) /\ m <= off + Len(u)
  <2>1. F # {} /\ m <= off + Len(u)
    OBVIOUS
  <2> HIDE DEF F
  <2> QED
    BY <1>2, <2>1, MinElement
<1>5. m - off \in i .. Len(u) /\ off + (m - off) = m /\ m \in Nat
  <2> HIDE DEF m, F
  <2>1. m \in off + i .. Len(w)
    BY <1>2, <1>4
  <2>2. m \in Nat /\ off + i <= m
    BY <1>1, <2>1
  <2>3. m - off <= Len(u) /\ i <= m - off /\ m - off \in Int /\ off + (m - off) = m
    BY <1>1, <1>4, <2>2
  <2> QED
    BY <1>1, <2>2, <2>3
<1>6. m - off \in E
  <2>1. w[m] = c
    BY <1>2, <1>4
  <2> HIDE DEF m, F
  <2>2. m - off \in 1 .. Len(u)
    BY <1>1, <1>5
  <2>3. u[m - off] = c
    BY <1>1, <1>5, <2>1, <2>2
  <2> QED
    BY <1>5, <2>3 DEF Found
<1>7. k \in E /\ \A j \in E : k <= j
  <2> HIDE DEF E, m
  <2> QED
    BY <1>3, <1>6, MinElement
<1>8. off + k \in F
  <2> HIDE DEF k
  <2>1. k \in i .. Len(u) /\ u[k] = c
    BY <1>3, <1>7
  <2>2. off + k \in off + i .. Len(w) /\ k \in 1 .. Len(u)
    BY <1>1, <2>1, RangeMoves, Zenon
  <2>3. w[off + k] = c
    BY <1>1, <2>1, <2>2
  <2> QED
    BY <2>2, <2>3 DEF Found
<1>9. k <= m - off /\ m <= off + k /\ k \in i .. Len(u)
  BY <1>3, <1>4, <1>6, <1>7, <1>8
<1> HIDE DEF k, m, E
<1>10. k = m - off /\ m = off + k /\ E # {}
  BY <1>1, <1>5, <1>6, <1>9
<1> QED
  BY <1>9, <1>10 DEF k, m, E, FoundAlso

LEMMA SliceInt ==
  ASSUME NEW w, NEW u, NEW off, SliceOf(u, w, off), NEW i \in 1 .. Len(u),
         ParseInt(w, off + i) # Fail, ParseInt(w, off + i).at <= off + Len(u) + 1
  PROVE  Moved(ParseInt(u, i), ParseInt(w, off + i), off)
<1> DEFINE j == i + 1
           F == Found(w, off + j, EndC)
           m == Min(F)
           t == SubSeq(w, off + j, m - 1)
           k == Min(Found(u, j, EndC))
           s == SubSeq(u, j, k - 1)
<1>0. SliceOf(u, w, off)
  OBVIOUS
<1>1. F # {} /\ IntText(t) /\ ParseInt(w, off + i) = [val |-> IntV(NumberOf(t)), at |-> m + 1]
  <2>1. off + i + 1 = off + (i + 1)
    BY DEF SliceOf
  <2> QED
    BY <2>1, Zenon DEF ParseInt
<1>2. w \in Seq(Nat) /\ u \in Seq(Nat) /\ off \in Nat /\ Len(u) \in Nat /\ Len(w) \in Nat
  BY DEF SliceOf
<1>3. j \in 1 .. Len(u) + 1
  BY <1>2
<1>4. m \in Nat /\ m <= off + Len(u)
  <2>1. F \in SUBSET Nat
    BY <1>2 DEF Found
  <2>2. m \in Nat
    <3> HIDE DEF F
    <3> QED
      BY <1>1, <2>1, MinElement
  <2>3. m + 1 <= off + Len(u) + 1
    <3> HIDE DEF m, t
    <3> QED
      BY <1>1
  <2> HIDE DEF m
  <2> QED
    BY <1>2, <2>2, <2>3
<1> HIDE DEF j
<1>5. FoundAlso(u, w, off, j, EndC)
  BY <1>0, <1>1, <1>3, <1>4, SliceFound
<1>6. Found(u, j, EndC) # {} /\ k = m - off /\ k \in j .. Len(u) /\ m = off + k
  BY <1>5 DEF FoundAlso
<1> HIDE DEF k, m, F
<1>7. s = t
  <2> DEFINE b == k - 1
  <2>1. b \in j - 1 .. Len(u) /\ off + b = m - 1
    BY <1>2, <1>6, <1>3
  <2> HIDE DEF b
  <2>2. SamePart(u, w, off, j, b)
    BY <1>0, <1>3, <2>1, SliceSub, Zenon
  <2> QED
    BY <2>1, <2>2, Zenon DEF b, SamePart
<1>8. (m + 1) - off = k + 1
  BY <1>2, <1>3, <1>6
<1>9. ParseInt(u, i) = [val |-> IntV(NumberOf(s)), at |-> k + 1]
  <2>1. IntText(s)
    BY <1>1, <1>7
  <2> QED
    BY <1>6, <2>1, Zenon DEF ParseInt, k, j
<1> HIDE DEF s, t
<1>10. ParseInt(w, off + i).val = IntV(NumberOf(t)) /\ ParseInt(w, off + i).at = m + 1
  BY <1>1
<1>11. ParseInt(u, i).val = IntV(NumberOf(s)) /\ ParseInt(u, i).at = k + 1
  BY <1>9
<1> QED
  BY <1>7, <1>8, <1>10, <1>11, Zenon DEF Moved

LEMMA SliceString ==
  ASSUME NEW w, NEW u, NEW off, SliceOf(u, w, off), NEW i \in 1 .. Len(u),
         ParseString(w, off + i) # Fail, ParseString(w, off + i).at <= off + Len(u) + 1
  PROVE  Moved(ParseString(u, i), ParseString(w, off + i), off)
<1> DEFINE F == Found(w, off + i, Colon)
           m == Min(F)
           t == SubSeq(w, off + i, m - 1)
           after == m + 1 + NumberOf(t)
           body  == SubSeq(w, m + 1, after - 1)
           k == Min(Found(u, i, Colon))
           s == SubSeq(u, i, k - 1)
           stop == k + 1 + NumberOf(s)
           part == SubSeq(u, k + 1, stop - 1)
<1>0. SliceOf(u, w, off)
  OBVIOUS
<1>1. /\ F # {} /\ LengthText(t) /\ after \in m + 1 .. Len(w) + 1
      /\ ParseString(w, off + i) = [val |-> StrV(body), at |-> after]
  BY Zenon DEF ParseString
<1>2. /\ w \in Seq(Nat) /\ u \in Seq(Nat) /\ off \in Nat /\ Len(u) \in Nat /\ Len(w) \in Nat
      /\ i \in 1 .. Len(u) + 1 /\ off + Len(u) <= Len(w)
  BY DEF SliceOf
<1>3. m \in off + i .. Len(w)
  <2>1. F \in SUBSET Nat /\ \A j \in F : j \in off + i .. Len(w)
    <3>1. off + i .. Len(w) \in SUBSET Nat
      BY <1>2
    <3>2. F \subseteq off + i .. Len(w)
      BY Zenon DEF Found
    <3> HIDE DEF F
    <3> QED
      BY <3>1, <3>2
  <2> HIDE DEF F
  <2> QED
    BY <1>1, <2>1, MinElement
<1>4. after <= off + Len(u) + 1
  <2> HIDE DEF after, body
  <2> QED
    BY <1>1
<1>5. m <= off + Len(u)
  <2> HIDE DEF after, m
  <2> QED
    BY <1>1, <1>2, <1>3, <1>4
<1>51. FoundAlso(u, w, off, i, Colon)
  BY <1>0, <1>1, <1>2, <1>5, SliceFound
<1>6. Found(u, i, Colon) # {} /\ k = m - off /\ k \in i .. Len(u) /\ m = off + k
  BY <1>51 DEF FoundAlso
<1> HIDE DEF k, m, F
<1>7. s = t
  <2> DEFINE b == k - 1
  <2>1. b \in i - 1 .. Len(u) /\ off + b = m - 1
    BY <1>2, <1>6
  <2> HIDE DEF b
  <2>2. SamePart(u, w, off, i, b)
    BY <1>0, <1>2, <2>1, SliceSub, Zenon
  <2> QED
    BY <2>1, <2>2, Zenon DEF b, SamePart
<1>8. t \in Seq(Nat)
  <2> DEFINE a == off + i
             b == m - 1
  <2>1. b \in a - 1 .. Len(w) /\ a \in 1 .. Len(w) + 1
    <3>1. a \in Nat /\ 1 <= a
      BY <1>2
    <3>2. m \in a .. Len(w)
      BY <1>3
    <3> HIDE DEF a
    <3> QED
      BY <1>2, <3>1, <3>2
  <2> HIDE DEF a, b
  <2>2. SubSeq(w, a, b) \in Seq(Nat)
    BY <1>2, <2>1, SubSeqParts, Zenon DEF PartOf
  <2> QED
    BY <2>2 DEF a, b
<1>9. NumberOf(t) \in Int
  <2> HIDE DEF t
  <2> QED
    BY <1>1, <1>8, NumberInt DEF LengthText
<1>10. stop = k + 1 + NumberOf(t)
  BY <1>7
<1> DEFINE n == NumberOf(t)
<1>11. stop = k + 1 + n /\ after = m + 1 + n /\ n \in Int
  BY <1>9, <1>10
<1> HIDE DEF n, after, stop, t, s
<1>12. stop = after - off /\ stop \in k + 1 .. Len(u) + 1 /\ off + (stop - 1) = after - 1 /\ off + (k + 1) = m + 1
  <2>1. after \in m + 1 .. Len(w) + 1
    BY <1>1
  <2>2. after \in Int /\ m \in Int /\ k \in Int /\ m + 1 <= after
    BY <1>2, <1>3, <1>6, <2>1
  <2>3. stop = after - off
    BY <1>2, <1>6, <1>11, <2>2
  <2> QED
    BY <1>2, <1>4, <1>6, <2>2, <2>3
<1>13. part = body
  <2> DEFINE a == k + 1
             b == stop - 1
  <2>1. a \in 1 .. Len(u) + 1 /\ b \in a - 1 .. Len(u) /\ off + a = m + 1 /\ off + b = after - 1
    <3>1. k \in Int /\ 1 <= k /\ k <= Len(u) /\ stop \in Int /\ k + 1 <= stop /\ stop <= Len(u) + 1
      BY <1>2, <1>6, <1>12
    <3>2. off + a = m + 1 /\ off + b = after - 1
      BY <1>12, Zenon
    <3>3. a \in 1 .. Len(u) + 1
      BY <1>2, <3>1
    <3>4. b \in Int /\ a - 1 <= b /\ b <= Len(u) /\ a - 1 \in Int
      BY <1>2, <3>1
    <3> HIDE DEF a, b
    <3>5. b \in a - 1 .. Len(u)
      BY <1>2, <3>4
    <3> QED
      BY <3>2, <3>3, <3>5
  <2> HIDE DEF a, b
  <2>2. SamePart(u, w, off, a, b)
    BY <1>0, <2>1, SliceSub, Zenon
  <2> QED
    BY <2>1, <2>2, Zenon DEF a, b, SamePart
<1>14. ParseString(u, i) = [val |-> StrV(part), at |-> stop]
  <2>1. LengthText(s)
    BY <1>1, <1>7
  <2> QED
    BY <1>6, <1>12, <2>1, Zenon DEF ParseString, k, s, stop
<1> HIDE DEF part, body
<1>15. ParseString(w, off + i).val = StrV(body) /\ ParseString(w, off + i).at = after
  BY <1>1
<1>16. ParseString(u, i).val = StrV(part) /\ ParseString(u, i).at = stop
  BY <1>14
<1> QED
  BY <1>12, <1>13, <1>15, <1>16, Zenon DEF Moved

\* What the decoder accepts in w within the slice, it accepts in u, moved.
Keeps(u, w, off, k, i) ==
  IsOk(Parse(w)[<<k, off + i>>].val) /\ Parse(w)[<<k, off + i>>].at <= off + Len(u) + 1 =>
    Moved(Parse(u)[<<k, i>>], Parse(w)[<<k, off + i>>], off)

KeepsFrom(u, w, off, q) == \A k \in Kinds : \A i \in q .. Len(u) + 1 : Keeps(u, w, off, k, i)

LEMMA Later ==
  ASSUME NEW a \in Nat, NEW n \in Nat, NEW x \in a + 1 .. n
  PROVE  x \in 1 .. n
OBVIOUS

\* x is a place of the slice behind its place i.
InSlice(x, off, i, n) == x <= off + n + 1 /\ x - off \in i + 1 .. n + 1 /\ off + (x - off) = x

LEMMA SliceBounds ==
  ASSUME NEW off \in Nat, NEW i \in Nat, NEW n \in Nat, NEW x \in Int, NEW y \in Int,
         off + i + 1 <= x, x + 1 <= y, y <= off + n + 1
  PROVE  InSlice(x, off, i, n)
BY DEF InSlice

\* What the rounds at a place of both texts look at.
BothAt(u, w, off, i) ==
  /\ w \in Seq(Nat) /\ u \in Seq(Nat) /\ off \in Nat /\ Len(u) \in Nat /\ Len(w) \in Nat
  /\ off + i \in 1 .. Len(w) /\ u[i] = w[off + i] /\ off + Len(u) <= Len(w)
  /\ off + i \in 1 .. Len(w) + 1 /\ i \in 1 .. Len(u) + 1 /\ off + i \in Nat /\ i \in Nat
  /\ ~(i > Len(u)) /\ ~(off + i > Len(w))
  /\ off + i + 1 = off + (i + 1) /\ (off + i + 1) - off = i + 1

LEMMA SlicePlace ==
  ASSUME NEW w, NEW u, NEW off, SliceOf(u, w, off), NEW i \in 1 .. Len(u)
  PROVE  BothAt(u, w, off, i)
<1>1. /\ w \in Seq(Nat) /\ u \in Seq(Nat) /\ off \in Nat /\ Len(u) \in Nat /\ Len(w) \in Nat
      /\ off + Len(u) <= Len(w) /\ u[i] = w[off + i]
  BY DEF SliceOf
<1>2. PlacesOf(off, Len(u), Len(w), i)
  BY <1>1, PlaceMoves, Zenon
<1> QED
  BY <1>1, <1>2, Zenon DEF BothAt, PlacesOf

LEMMA RoundOf ==
  ASSUME NEW w \in Seq(Nat), NEW at \in 1 .. Len(w) + 1
  PROVE  /\ Parse(w)[<<"value", at>>] = ParseValue(Parse(w), w, at)
         /\ Parse(w)[<<"items", at>>] = ParseItems(Parse(w), w, at)
         /\ Parse(w)[<<"entries", at>>] = ParseEntries(Parse(w), w, at)
         /\ \A k \in Kinds : Ahead(Parse(w)[<<k, at>>], at, w)
<1> DEFINE parse == Parse(w)
<1>1. /\ \A k \in Kinds, j \in 1 .. Len(w) + 1 : parse[<<k, j>>] = Round(parse, w, k, j)
      /\ AheadFrom(parse, w, 1)
  BY ParseRounds
<1> HIDE DEF parse
<1>2. /\ parse[<<"value", at>>] = ParseValue(parse, w, at)
      /\ parse[<<"items", at>>] = ParseItems(parse, w, at)
      /\ parse[<<"entries", at>>] = ParseEntries(parse, w, at)
      /\ \A k \in Kinds : Ahead(parse[<<k, at>>], at, w)
  BY <1>1 DEF Kinds, Round, AheadFrom
<1> QED
  BY <1>2 DEF parse

LEMMA SliceValue ==
  ASSUME NEW w, NEW u, NEW off, SliceOf(u, w, off), NEW i \in 1 .. Len(u),
         Keeps(u, w, off, "items", i + 1), Keeps(u, w, off, "entries", i + 1)
  PROVE  Keeps(u, w, off, "value", i)
<1> DEFINE at == off + i
           r  == Parse(w)[<<"value", at>>]
           q  == Parse(u)[<<"value", i>>]
           pw == Parse(w)
           pu == Parse(u)
<1> SUFFICES ASSUME IsOk(r.val), r.at <= off + Len(u) + 1 PROVE Moved(q, r, off)
  BY Zenon DEF Keeps
<1>0. SliceOf(u, w, off)
  OBVIOUS
<1>1. /\ w \in Seq(Nat) /\ u \in Seq(Nat) /\ off \in Nat /\ Len(u) \in Nat /\ Len(w) \in Nat
      /\ at \in 1 .. Len(w) /\ u[i] = w[at] /\ at + 1 = off + (i + 1) /\ (at + 1) - off = i + 1
      /\ ~(i > Len(u)) /\ ~(at > Len(w)) /\ off + Len(u) <= Len(w)
      /\ at \in 1 .. Len(w) + 1 /\ i \in 1 .. Len(u) + 1 /\ at \in Nat /\ i \in Nat
  <2>1. BothAt(u, w, off, i)
    BY SlicePlace, Zenon
  <2> QED
    BY <2>1, Zenon DEF BothAt
<1>2. r = ParseValue(pw, w, at) /\ q = ParseValue(pu, u, i)
  <2> HIDE DEF at
  <2> QED
    BY <1>1, RoundOf
<1>3. r # Fail
  <2> HIDE DEF r
  <2> QED
    BY FailAhead
<1>4. CASE w[at] = IntC
  <2>1. r = ParseInt(w, at) /\ q = ParseInt(u, i)
    <3> HIDE DEF r, q, pw, pu, at
    <3> QED
      BY <1>1, <1>2, <1>4 DEF ParseValue, IntC, ListC, DictC, Digits, Zero
  <2>2. ParseInt(w, off + i) # Fail /\ ParseInt(w, off + i).at <= off + Len(u) + 1
    BY <1>3, <2>1
  <2>3. Moved(ParseInt(u, i), ParseInt(w, off + i), off)
    BY <1>0, <2>2, SliceInt
  <2> QED
    BY <2>1, <2>3
<1>5. CASE w[at] = ListC
  <2>1. r = pw[<<"items", at + 1>>] /\ q = pu[<<"items", i + 1>>]
    <3>1. w[at] # IntC
      BY <1>5 DEF IntC, ListC
    <3> HIDE DEF r, q, pw, pu, at
    <3> QED
      BY <1>1, <1>2, <1>5, <3>1 DEF ParseValue, IntC, ListC, DictC, Digits, Zero
  <2> QED
    BY <1>1, <2>1, Zenon DEF Keeps
<1>6. CASE w[at] = DictC
  <2>1. r = pw[<<"entries", at + 1>>] /\ q = pu[<<"entries", i + 1>>]
    <3> HIDE DEF r, q, pw, pu, at
    <3> QED
      BY <1>1, <1>2, <1>6 DEF ParseValue, IntC, ListC, DictC, Digits, Zero
  <2> QED
    BY <1>1, <2>1, Zenon DEF Keeps
<1>7. CASE w[at] \in Digits
  <2>1. r = ParseString(w, at) /\ q = ParseString(u, i)
    <3>0. \A c \in Digits : c # IntC /\ c # ListC /\ c # DictC
      BY DEF IntC, ListC, DictC, Digits, Zero
    <3> HIDE DEF r, q, pw, pu, at
    <3>1. w[at] # IntC /\ w[at] # ListC /\ w[at] # DictC
      BY <1>7, <3>0, Zenon
    <3> QED
      BY <1>1, <1>2, <1>7, <3>1 DEF ParseValue
  <2>2. ParseString(w, off + i) # Fail /\ ParseString(w, off + i).at <= off + Len(u) + 1
    BY <1>3, <2>1
  <2>3. Moved(ParseString(u, i), ParseString(w, off + i), off)
    BY <1>0, <2>2, SliceString
  <2> QED
    BY <2>1, <2>3
<1>8. w[at] = IntC \/ w[at] = ListC \/ w[at] = DictC \/ w[at] \in Digits
  <2> HIDE DEF r, q, pw, pu, at
  <2> QED
    BY <1>1, <1>2, <1>3 DEF ParseValue
<1> QED
  BY <1>4, <1>5, <1>6, <1>7, <1>8

LEMMA SliceItems ==
  ASSUME NEW w, NEW u, NEW off, SliceOf(u, w, off), NEW i \in 1 .. Len(u),
         KeepsFrom(u, w, off, i + 1), Keeps(u, w, off, "value", i)
  PROVE  Keeps(u, w, off, "items", i)
<1> DEFINE at == off + i
           pw == Parse(w)
           pu == Parse(u)
           r  == pw[<<"items", at>>]
           q  == pu[<<"items", i>>]
           item  == pw[<<"value", at>>]
           rest  == pw[<<"items", item.at>>]
           itemU == pu[<<"value", i>>]
           restU == pu[<<"items", itemU.at>>]
<1> SUFFICES ASSUME IsOk(r.val), r.at <= off + Len(u) + 1 PROVE Moved(q, r, off)
  BY Zenon DEF Keeps
<1>1. /\ w \in Seq(Nat) /\ u \in Seq(Nat) /\ off \in Nat /\ Len(u) \in Nat /\ Len(w) \in Nat
      /\ at \in 1 .. Len(w) /\ u[i] = w[at] /\ at + 1 = off + (i + 1) /\ (at + 1) - off = i + 1
      /\ ~(i > Len(u)) /\ ~(at > Len(w)) /\ off + Len(u) <= Len(w)
      /\ at \in 1 .. Len(w) + 1 /\ i \in 1 .. Len(u) + 1 /\ at \in Nat /\ i \in Nat
  <2>1. BothAt(u, w, off, i)
    BY SlicePlace, Zenon
  <2> QED
    BY <2>1, Zenon DEF BothAt
<1>2. /\ r = ParseItems(pw, w, at) /\ q = ParseItems(pu, u, i)
      /\ Ahead(item, at, w)
  <2> HIDE DEF at
  <2> QED
    BY <1>1, RoundOf DEF Kinds
<1>3. r # Fail
  <2> HIDE DEF r
  <2> QED
    BY FailAhead
<1>4. CASE w[at] = EndC
  <2>1. r = [val |-> ListV(<< >>), at |-> at + 1] /\ q = [val |-> ListV(<< >>), at |-> i + 1]
    <3> HIDE DEF r, q, pw, pu, at
    <3> QED
      BY <1>1, <1>2, <1>4, Zenon DEF ParseItems
  <2> HIDE DEF r, q, at
  <2>2. r.val = ListV(<< >>) /\ r.at = at + 1 /\ q.val = ListV(<< >>) /\ q.at = i + 1
    BY <2>1
  <2> QED
    BY <1>1, <2>2, Zenon DEF Moved
<1>5. CASE w[at] # EndC
  <2>1. IsOk(item.val) /\ IsOk(rest.val) /\ r = [val |-> ListV(<<item.val>> \o rest.val.list), at |-> rest.at]
    <3> HIDE DEF r, q, pw, pu, at
    <3> QED
      BY <1>1, <1>2, <1>3, <1>5, Zenon DEF ParseItems
  <2> DEFINE l == ListV(<<item.val>> \o rest.val.list)
  <2>2. item.at \in at + 1 .. Len(w) + 1
    <3> HIDE DEF item
    <3> QED
      BY <1>2, <2>1 DEF Ahead
  <2>3. Ahead(rest, item.at, w)
    <3> DEFINE b == item.at
    <3>1. b \in 1 .. Len(w) + 1
      <4> HIDE DEF b, at
      <4>1. b \in at + 1 .. Len(w) + 1
        BY <2>2 DEF b
      <4> QED
        BY <1>1, <4>1, Later
    <3> HIDE DEF b
    <3>2. Ahead(Parse(w)[<<"items", b>>], b, w)
      BY <1>1, <3>1, RoundOf DEF Kinds
    <3> QED
      BY <3>2 DEF b
  <2>4. r.val = l /\ r.at = rest.at
    <3> HIDE DEF r, rest, l
    <3> QED
      BY <2>1 DEF l
  <2>5. rest.at <= off + Len(u) + 1 /\ rest.at \in item.at + 1 .. Len(w) + 1
    <3> HIDE DEF r, rest, item, l
    <3> QED
      BY <2>1, <2>3, <2>4 DEF Ahead
  <2> DEFINE j == item.at - off
  <2>6. item.at <= off + Len(u) + 1 /\ j \in i + 1 .. Len(u) + 1 /\ off + j = item.at
    <3> HIDE DEF item, rest
    <3>1. item.at \in Int /\ rest.at \in Int /\ at \in Int /\ item.at + 1 <= rest.at /\ at + 1 <= item.at
      BY <1>1, <2>2, <2>5
    <3>2. off + i + 1 <= item.at /\ rest.at <= off + Len(u) + 1
      BY <2>5, <3>1
    <3>3. InSlice(item.at, off, i, Len(u))
      BY <1>1, <3>1, <3>2, SliceBounds, Zenon
    <3> QED
      BY <3>3, Zenon DEF InSlice
  <2>7. itemU.val = item.val /\ itemU.at = j
    <3>1. Moved(itemU, item, off)
      BY <2>1, <2>6, Zenon DEF Keeps
    <3> QED
      BY <3>1, Zenon DEF Moved
  <2> HIDE DEF j
  <2>8. restU.val = rest.val /\ restU.at = rest.at - off
    <3>1. Keeps(u, w, off, "items", j)
      BY <2>6 DEF KeepsFrom, Kinds
    <3>2. Moved(pu[<<"items", j>>], pw[<<"items", off + j>>], off)
      BY <2>1, <2>5, <2>6, <3>1, Zenon DEF Keeps
    <3>3. Moved(restU, rest, off)
      BY <2>6, <2>7, <3>2, Zenon
    <3> QED
      BY <3>3, Zenon DEF Moved
  <2>9. q = [val |-> l, at |-> restU.at]
    <3> HIDE DEF r, q, pw, pu, at, item, rest
    <3> QED
      BY <1>1, <1>2, <1>5, <2>1, <2>7, <2>8, Zenon DEF ParseItems
  <2>10. q.val = l /\ q.at = restU.at
    <3> HIDE DEF q, l, restU
    <3> QED
      BY <2>9
  <2> HIDE DEF l, restU, rest, r, q
  <2> QED
    BY <2>4, <2>8, <2>10, Zenon DEF Moved
<1> QED
  BY <1>4, <1>5

LEMMA SliceEntries ==
  ASSUME NEW w, NEW u, NEW off, SliceOf(u, w, off), NEW i \in 1 .. Len(u),
         KeepsFrom(u, w, off, i + 1)
  PROVE  Keeps(u, w, off, "entries", i)
<1> DEFINE at == off + i
           pw == Parse(w)
           pu == Parse(u)
           r  == pw[<<"entries", at>>]
           q  == pu[<<"entries", i>>]
           key   == ParseString(w, at)
           val   == pw[<<"value", key.at>>]
           rest  == pw[<<"entries", val.at>>]
           keyU  == ParseString(u, i)
           valU  == pu[<<"value", keyU.at>>]
           restU == pu[<<"entries", valU.at>>]
           d     == DictV(Assign(key.val.str, val.val, rest.val.dict))
<1> SUFFICES ASSUME IsOk(r.val), r.at <= off + Len(u) + 1 PROVE Moved(q, r, off)
  BY Zenon DEF Keeps
<1>0. SliceOf(u, w, off)
  OBVIOUS
<1>1. /\ w \in Seq(Nat) /\ u \in Seq(Nat) /\ off \in Nat /\ Len(u) \in Nat /\ Len(w) \in Nat
      /\ at \in 1 .. Len(w) /\ u[i] = w[at] /\ at + 1 = off + (i + 1) /\ (at + 1) - off = i + 1
      /\ ~(i > Len(u)) /\ ~(at > Len(w)) /\ off + Len(u) <= Len(w)
      /\ at \in 1 .. Len(w) + 1 /\ i \in 1 .. Len(u) + 1 /\ at \in Nat /\ i \in Nat
  <2>1. BothAt(u, w, off, i)
    BY SlicePlace, Zenon
  <2> QED
    BY <2>1, Zenon DEF BothAt
<1>2. r = ParseEntries(pw, w, at) /\ q = ParseEntries(pu, u, i)
  <2> HIDE DEF at
  <2> QED
    BY <1>1, RoundOf
<1>3. r # Fail
  <2> HIDE DEF r
  <2> QED
    BY FailAhead
<1>4. CASE w[at] = EndC
  <2>1. r = [val |-> DictV(<< >>), at |-> at + 1] /\ q = [val |-> DictV(<< >>), at |-> i + 1]
    <3> HIDE DEF r, q, pw, pu, at
    <3> QED
      BY <1>1, <1>2, <1>4, Zenon DEF ParseEntries, ParseEntry
  <2> HIDE DEF r, q, at
  <2>2. r.val = DictV(<< >>) /\ r.at = at + 1 /\ q.val = DictV(<< >>) /\ q.at = i + 1
    BY <2>1
  <2> QED
    BY <1>1, <2>2, Zenon DEF Moved
<1>5. CASE w[at] # EndC
  <2>1. /\ w[at] \in Digits /\ IsOk(key.val) /\ IsOk(val.val) /\ IsOk(rest.val)
        /\ r = [val |-> d, at |-> rest.at]
    <3> HIDE DEF r, q, pw, pu, at
    <3> QED
      BY <1>1, <1>2, <1>3, <1>5, Zenon DEF ParseEntries, ParseEntry
  <2>2. key.at \in at + 1 .. Len(w) + 1
    <3>1. Ahead(key, at, w)
      <4> HIDE DEF at
      <4> QED
        BY <1>1, ParseStringAhead
    <3> HIDE DEF key
    <3> QED
      BY <2>1, <3>1 DEF Ahead
  <2>3. val.at \in key.at + 1 .. Len(w) + 1
    <3> DEFINE b == key.at
    <3>1. b \in 1 .. Len(w) + 1
      <4> HIDE DEF b, at
      <4>1. b \in at + 1 .. Len(w) + 1
        BY <2>2 DEF b
      <4> QED
        BY <1>1, <4>1, Later
    <3> HIDE DEF b
    <3>2. Ahead(Parse(w)[<<"value", b>>], b, w)
      BY <1>1, <3>1, RoundOf DEF Kinds
    <3>3. Ahead(val, key.at, w)
      BY <3>2 DEF b
    <3> HIDE DEF val, key
    <3> QED
      BY <2>1, <3>3 DEF Ahead
  <2>4. r.val = d /\ r.at = rest.at
    <3> HIDE DEF r, rest, d
    <3> QED
      BY <2>1
  <2>5. rest.at <= off + Len(u) + 1 /\ rest.at \in val.at + 1 .. Len(w) + 1
    <3> DEFINE b == val.at
    <3>1. b \in 1 .. Len(w) + 1
      <4> DEFINE c == key.at
      <4>1. c \in at + 1 .. Len(w) + 1 /\ b \in c + 1 .. Len(w) + 1
        BY <2>2, <2>3 DEF b
      <4> HIDE DEF b, at, c
      <4> QED
        BY <1>1, <4>1
    <3> HIDE DEF b
    <3>2. Ahead(Parse(w)[<<"entries", b>>], b, w)
      BY <1>1, <3>1, RoundOf DEF Kinds
    <3>3. Ahead(rest, val.at, w)
      BY <3>2 DEF b
    <3> HIDE DEF r, rest, val, d
    <3> QED
      BY <2>1, <2>4, <3>3 DEF Ahead
  <2> DEFINE j == key.at - off
             h == val.at - off
  <2>6. /\ key.at <= off + Len(u) + 1 /\ j \in i + 1 .. Len(u) + 1 /\ off + j = key.at
        /\ val.at <= off + Len(u) + 1 /\ h \in i + 1 .. Len(u) + 1 /\ off + h = val.at
    <3> HIDE DEF key, rest, val
    <3>1. /\ key.at \in Int /\ rest.at \in Int /\ at \in Int /\ val.at \in Int
          /\ at + 1 <= key.at /\ key.at + 1 <= val.at /\ val.at + 1 <= rest.at
      BY <1>1, <2>2, <2>3, <2>5
    <3>2. off + i + 1 <= key.at /\ rest.at <= off + Len(u) + 1
      BY <2>5, <3>1
    <3>3. off + i + 1 <= val.at
      <4> HIDE DEF at
      <4>1. at + 1 <= val.at
        BY <3>1
      <4> QED
        BY <4>1 DEF at
    <3>4. InSlice(val.at, off, i, Len(u))
      BY <1>1, <3>1, <3>2, <3>3, SliceBounds, Zenon
    <3>5. val.at <= off + Len(u) + 1
      BY <3>4, Zenon DEF InSlice
    <3>6. InSlice(key.at, off, i, Len(u))
      BY <1>1, <3>1, <3>2, <3>5, SliceBounds, Zenon
    <3> QED
      BY <3>4, <3>6, Zenon DEF InSlice
  <2>7. keyU.val = key.val /\ keyU.at = j
    <3>1. ParseString(w, off + i) # Fail
      BY <2>1, FailAhead
    <3>2. Moved(ParseString(u, i), ParseString(w, off + i), off)
      BY <1>0, <2>6, <3>1, SliceString
    <3> QED
      BY <3>2, Zenon DEF Moved
  <2> HIDE DEF j, h
  <2>8. valU.val = val.val /\ valU.at = h
    <3>1. Keeps(u, w, off, "value", j)
      BY <2>6 DEF KeepsFrom, Kinds
    <3>2. Moved(pu[<<"value", j>>], pw[<<"value", off + j>>], off)
      BY <2>1, <2>6, <3>1, Zenon DEF Keeps
    <3>3. Moved(valU, val, off)
      BY <2>6, <2>7, <3>2, Zenon
    <3> QED
      BY <3>3, Zenon DEF Moved, h
  <2>9. restU.val = rest.val /\ restU.at = rest.at - off
    <3>1. Keeps(u, w, off, "entries", h)
      BY <2>6 DEF KeepsFrom, Kinds
    <3>2. Moved(pu[<<"entries", h>>], pw[<<"entries", off + h>>], off)
      BY <2>1, <2>5, <2>6, <3>1, Zenon DEF Keeps
    <3>3. Moved(restU, rest, off)
      BY <2>6, <2>8, <3>2, Zenon
    <3> QED
      BY <3>3, Zenon DEF Moved
  <2>10. q = [val |-> d, at |-> restU.at]
    <3> HIDE DEF r, q, pw, pu, at, key, val, rest
    <3> QED
      BY <1>1, <1>2, <1>5, <2>1, <2>7, <2>8, <2>9, Zenon DEF ParseEntries, ParseEntry
  <2>11. q.val = d /\ q.at = restU.at
    <3> HIDE DEF q, d, restU
    <3> QED
      BY <2>10
  <2> HIDE DEF d, restU, rest, r, q
  <2> QED
    BY <2>4, <2>9, <2>11, Zenon DEF Moved
<1> QED
  BY <1>4, <1>5

\* The decoder makes of a slice what it makes of that part of the text.
LEMMA SliceParse ==
  ASSUME NEW w, NEW u, NEW off, SliceOf(u, w, off)
  PROVE  KeepsFrom(u, w, off, 1)
<1> DEFINE M == Len(u) + 1
           H == {n \in 0 .. M : KeepsFrom(u, w, off, M + 1 - n)}
<1>0. M \in Nat /\ M >= 1 /\ Len(u) \in Nat /\ off \in Nat /\ w \in Seq(Nat) /\ Len(w) \in Nat /\ off + Len(u) <= Len(w)
  BY DEF SliceOf
<1>1. 0 \in H
  <2>1. M + 1 - 0 .. Len(u) + 1 = {} /\ 0 \in 0 .. M
    BY <1>0
  <2> HIDE DEF M
  <2> QED
    BY <2>1 DEF KeepsFrom
<1>2. ASSUME NEW n \in 0 .. M - 1, n \in H PROVE n + 1 \in H
  <2> DEFINE at == M - n
  <2>1. at \in 1 .. M /\ M + 1 - n = at + 1 /\ M + 1 - (n + 1) = at /\ n + 1 \in 0 .. M /\ at \in Nat
    BY <1>0
  <2>2. KeepsFrom(u, w, off, at + 1)
    <3> HIDE DEF at, M
    <3> QED
      BY <1>2, <2>1
  <2>3. ASSUME NEW k \in Kinds PROVE Keeps(u, w, off, k, at)
    <3>1. CASE at = M
      <4> DEFINE b == off + at
                 r == Parse(w)[<<k, b>>]
      <4>1. b \in 1 .. Len(w) + 1 /\ b = off + Len(u) + 1
        <5>1. b = off + Len(u) + 1
          BY <1>0, <3>1
        <5> HIDE DEF b
        <5> QED
          BY <1>0, <5>1
      <4> HIDE DEF b
      <4>2. Ahead(r, b, w)
        BY <1>0, <4>1, RoundOf
      <4> HIDE DEF r
      <4>3. ~(IsOk(r.val) /\ r.at <= off + Len(u) + 1)
        BY <1>0, <4>1, <4>2 DEF Ahead
      <4> QED
        BY <4>3, Zenon DEF Keeps, r, b
    <3>2. CASE at # M
      <4>1. at \in 1 .. Len(u) /\ at + 1 \in at + 1 .. Len(u) + 1
        BY <1>0, <2>1, <3>2
      <4> HIDE DEF at
      <4>2. Keeps(u, w, off, "items", at + 1) /\ Keeps(u, w, off, "entries", at + 1)
        BY <2>2, <4>1 DEF KeepsFrom, Kinds
      <4>3. Keeps(u, w, off, "value", at)
        BY <4>1, <4>2, SliceValue
      <4>4. Keeps(u, w, off, "items", at)
        BY <2>2, <4>1, <4>3, SliceItems
      <4>5. Keeps(u, w, off, "entries", at)
        BY <2>2, <4>1, SliceEntries
      <4> QED
        BY <4>3, <4>4, <4>5 DEF Kinds
    <3> QED
      BY <3>1, <3>2
  <2>4. \A j \in at .. Len(u) + 1 : j = at \/ j \in at + 1 .. Len(u) + 1
    BY <2>1
  <2> HIDE DEF at, M
  <2>5. KeepsFrom(u, w, off, at)
    BY <2>2, <2>3, <2>4 DEF KeepsFrom
  <2> QED
    BY <2>1, <2>5
<1>3. 0 .. M \subseteq H
  <2> HIDE DEF H, M
  <2> QED
    BY <1>0, <1>1, <1>2, CountUp
<1>4. M \in 0 .. M /\ M + 1 - M = 1
  BY <1>0
<1> HIDE DEF M
<1> QED
  BY <1>3, <1>4

-----------------------------------------------------------------------------
(* The bytes that are hashed *)

LEMMA InfoBytesOf ==
  ASSUME NEW w \in Seq(Nat), IsTorrent(FromBytes(w))
  PROVE  /\ IsOk(DecodeData(w)) /\ IsDict(DecodeData(w))
         /\ Get(DecodeData(w), KeyInfo) # None
         /\ FromBytes(w).infoBytes = InfoSlice(w).str
<1> DEFINE meta == DecodeData(w)
           info == Get(meta, KeyInfo)
           hashed == InfoSlice(w)
           t    == FromBytes(w)
           r    == [ announce     |-> Text(Get(meta, KeyAnnounce)),
                     announceList |-> Tiers(Get(meta, KeyAnnounceList)),
                     infoBytes    |-> hashed.str,
                     pieceLength  |-> Get(info, KeyPieceLength).int,
                     numPieces    |-> Len(Get(info, KeyPieceHashes).str) \div HASH_LEN,
                     files        |-> FileLengths(info) ]
<1>1. t # ParseError /\ t # Raised
  BY DEF IsTorrent
<1>2. ~IsStr(hashed) => hashed = ParseError \/ hashed = Raised
  BY Distinct DEF InfoSlice
<1>3. IsOk(meta) /\ IsDict(meta) /\ info # None /\ t = r
  BY <1>1, <1>2, Zenon DEF FromBytes, FromMeta
<1>4. t.infoBytes = hashed.str
  <2> HIDE DEF meta, info, t, hashed
  <2> QED
    BY <1>3
<1> QED
  BY <1>3, <1>4

\* A dictionary comes from the loop of _parse_dict.
LEMMA DictEntries ==
  ASSUME NEW w \in Seq(Nat), IsOk(DecodeData(w)), IsDict(DecodeData(w))
  PROVE  \E p \in 1 .. Len(w) + 1 : Parse(w)[<<"entries", p>>].val = DecodeData(w)
<1> DEFINE parse == Parse(w)
           v == DecodeData(w)
<1>1. v = parse[<<"value", 1>>].val
  BY DEF DecodeData, ParseNext, IsOk
<1>2. parse[<<"value", 1>>] = ParseValue(parse, w, 1)
  <2>1. 1 \in 1 .. Len(w) + 1
    OBVIOUS
  <2> QED
    BY <2>1, RoundOf
<1> DEFINE r == ParseValue(parse, w, 1)
<1>3. IsOk(r.val) /\ IsDict(r.val) /\ r.val = v
  BY <1>1, <1>2
<1>4. \/ r = Fail \/ r = ParseInt(w, 1) \/ r = ParseString(w, 1)
      \/ 2 \in 1 .. Len(w) + 1 /\ r = parse[<<"items", 2>>]
      \/ 2 \in 1 .. Len(w) + 1 /\ r = parse[<<"entries", 2>>]
  <2> HIDE DEF parse
  <2>1. 1 > Len(w) \/ 2 \in 1 .. Len(w) + 1
    OBVIOUS
  <2>2. 1 + 1 = 2
    OBVIOUS
  <2> QED
    BY <2>1, <2>2 DEF ParseValue
<1> HIDE DEF v, parse, r
<1>5. r # Fail
  BY <1>3, FailAhead
<1>6. r # ParseInt(w, 1)
  <2> SUFFICES ASSUME r = ParseInt(w, 1) PROVE FALSE
    OBVIOUS
  <2>1. PICK n, q : r = [val |-> IntV(n), at |-> q]
    BY <1>5, ParseIntResult
  <2>2. r.val = IntV(n)
    BY <2>1
  <2> QED
    BY <1>3, <2>2, Distinct
<1>7. r # ParseString(w, 1)
  <2> SUFFICES ASSUME r = ParseString(w, 1) PROVE FALSE
    OBVIOUS
  <2>1. PICK s \in Seq(Nat), q \in 1 + 1 .. Len(w) + 1 : r = [val |-> StrV(s), at |-> q]
    BY <1>5, ParseStringResult
  <2>2. r.val = StrV(s)
    BY <2>1
  <2> QED
    BY <1>3, <2>2, Distinct
<1>8. ~(2 \in 1 .. Len(w) + 1 /\ r = parse[<<"items", 2>>])
  <2> SUFFICES ASSUME 2 \in 1 .. Len(w) + 1, r = parse[<<"items", 2>>] PROVE FALSE
    OBVIOUS
  <2>1. ListOf(r.val, ValuesIn(w))
    BY <1>3, PartsOf DEF parse
  <2>2. PICK l : r.val = ListV(l)
    BY <2>1 DEF ListOf
  <2> QED
    BY <1>3, <2>2, Distinct
<1>9. 2 \in 1 .. Len(w) + 1 /\ r = parse[<<"entries", 2>>]
  BY <1>4, <1>5, <1>6, <1>7, <1>8
<1>10. parse[<<"entries", 2>>].val = v
  BY <1>3, <1>9
<1> QED
  BY <1>9, <1>10 DEF parse, v

LEMMA OnlyPlace ==
  ASSUME NEW w \in Seq(Nat), Cardinality(InfoKeysAt(w)) = 1, NEW at \in InfoKeysAt(w)
  PROVE  InfoStart(w) = at + Len(InfoKey) /\ InfoKeysAt(w) # {}
<1> DEFINE S == InfoKeysAt(w)
<1>1. Len(InfoKey) = 3
  BY DEF InfoKey
<1>2. S \subseteq 1 .. Len(w)
  BY <1>1 DEF InfoKeysAt
<1>3. IsFiniteSet(S)
  <2>1. IsFiniteSet(1 .. Len(w))
    BY FS_Interval
  <2> QED
    BY <1>2, <2>1, FS_Subset
<1>4. Cardinality(S) = 1 /\ at \in S /\ S \in SUBSET Nat
  BY <1>2
<1> HIDE DEF S
<1>5. PICK x : S = {x}
  BY <1>3, <1>4, FS_Singleton
<1>6. Min(S) \in S
  BY <1>4, MinElement
<1>7. Min(S) = at
  BY <1>4, <1>5, <1>6
<1> QED
  BY <1>4, <1>7 DEF S, InfoStart

\* A value that is accepted, cut out of the text, is decoded to itself.
LEMMA CutOut ==
  ASSUME NEW w \in Seq(Nat), NEW s \in 1 .. Len(w) + 1, IsOk(ParseNext(w, s).val)
  PROVE  /\ ParseNext(w, s).at # 0
         /\ DecodeData(SubSeq(w, s, ParseNext(w, s).at - 1)) = ParseNext(w, s).val
<1> DEFINE r == Parse(w)[<<"value", s>>]
           e == r.at
           b == e - 1
           u == SubSeq(w, s, b)
           off == s - 1
<1>1. ParseNext(w, s) = r /\ IsOk(r.val)
  BY DEF ParseNext
<1>2. e \in s + 1 .. Len(w) + 1
  <2>1. Ahead(r, s, w)
    BY RoundOf DEF Kinds
  <2> HIDE DEF r
  <2> QED
    BY <1>1, <2>1 DEF Ahead
<1> HIDE DEF e
<1>3. b \in s - 1 .. Len(w) /\ b - s + 1 = e - s /\ e - s \in Nat /\ e # 0 /\ off \in Nat /\ off + 1 = s
  BY <1>2
<1>4. u \in Seq(Nat) /\ Len(u) = e - s /\ \A i \in 1 .. e - s : u[i] = w[s + i - 1]
  <2> HIDE DEF b
  <2>1. SubSeq(w, s, b) \in Seq(Nat) /\ Len(SubSeq(w, s, b)) = b - s + 1
        /\ \A i \in 1 .. b - s + 1 : SubSeq(w, s, b)[i] = w[s + i - 1]
    BY <1>3, SubSeqParts, Zenon DEF PartOf
  <2> QED
    BY <1>3, <2>1
<1> HIDE DEF u, b
<1>5. SliceOf(u, w, off)
  <2>1. off + Len(u) <= Len(w)
    BY <1>2, <1>4
  <2>2. \A i \in 1 .. Len(u) : u[i] = w[off + i]
    <3> SUFFICES ASSUME NEW i \in 1 .. e - s PROVE u[i] = w[off + i]
      BY <1>4
    <3>1. s + i - 1 = off + i
      BY <1>2
    <3> QED
      BY <1>4, <3>1
  <2> QED
    BY <1>3, <1>4, <2>1, <2>2 DEF SliceOf
<1>6. Keeps(u, w, off, "value", 1)
  <2>1. KeepsFrom(u, w, off, 1)
    BY <1>5, SliceParse
  <2>2. 1 \in 1 .. Len(u) + 1
    BY <1>4, <1>3
  <2> QED
    BY <2>1, <2>2 DEF KeepsFrom, Kinds
<1>7. e <= off + Len(u) + 1 /\ e - off = Len(u) + 1
  BY <1>2, <1>4
<1> HIDE DEF off
<1>8. Moved(Parse(u)[<<"value", 1>>], r, off)
  BY <1>1, <1>3, <1>6, <1>7, Zenon DEF Keeps, e
<1>9. ParseNext(u, 1).val = r.val /\ ParseNext(u, 1).at = Len(u) + 1
  BY <1>7, <1>8, Zenon DEF Moved, ParseNext, e
<1>10. DecodeData(u) = r.val
  BY <1>9, Zenon DEF DecodeData
<1> QED
  BY <1>1, <1>3, <1>10, Zenon DEF u, b, e

\* The bytes that _compute_info_hash cuts out decode to what was parsed as info.
LEMMA InfoBytesRight ==
  ASSUME NEW w \in Seq(Nat), IsTorrent(FromBytes(w)),
         Cardinality(InfoKeysAt(w)) = 1, ~BlankInLength(w)
  PROVE  DecodeData(FromBytes(w).infoBytes) = DecodeData(w).dict[<<KeyInfo>>]
<1> DEFINE meta == DecodeData(w)
           x    == <<KeyInfo>>
<1>1. IsOk(meta) /\ IsDict(meta) /\ Get(meta, KeyInfo) # None /\ FromBytes(w).infoBytes = InfoSlice(w).str
  BY InfoBytesOf
<1>2. PICK d : meta = DictV(d)
  <2>1. ValueOf(meta, ValuesIn(w))
    BY <1>1, DecodedIn, DecodedShape
  <2>2. DictOf(meta, ValuesIn(w))
    BY <1>1, <2>1, PartsOfValue
  <2> QED
    BY <2>2 DEF DictOf
<1>3. meta.dict = d
  <2> HIDE DEF meta
  <2> QED
    BY <1>2, Fields
<1>4. x \in DOMAIN d
  <2> HIDE DEF meta
  <2> QED
    BY <1>1, <1>3, Zenon DEF Get
<1>5. PICK p \in 1 .. Len(w) + 1 : Parse(w)[<<"entries", p>>].val = DictV(d)
  BY <1>1, <1>2, DictEntries
<1>6. PICK at \in 1 .. Len(w) : EntryAt(w, at, x, d[x])
  <2> HIDE DEF x
  <2> QED
    BY <1>4, <1>5, EntryPlace
<1>7. at \in InfoKeysAt(w) /\ ParseString(w, at).at = at + Len(InfoKey)
  BY <1>6, KeyPlace
<1> DEFINE s == InfoStart(w)
<1>8. s = ParseString(w, at).at /\ InfoKeysAt(w) # {}
  BY <1>7, OnlyPlace
<1>9. IsOk(ParseString(w, at).val) /\ IsOk(ParseNext(w, s).val) /\ ParseNext(w, s).val = d[x]
  <2> HIDE DEF x, s
  <2> QED
    BY <1>6, <1>8, Zenon DEF EntryAt, ParseNext
<1>10. s \in 1 .. Len(w) + 1
  <2>1. Ahead(ParseString(w, at), at, w)
    <3>1. at \in 1 .. Len(w) + 1
      OBVIOUS
    <3> QED
      BY <3>1, ParseStringAhead
  <2> HIDE DEF s
  <2>2. s \in at + 1 .. Len(w) + 1
    BY <1>8, <1>9, <2>1, Zenon DEF Ahead
  <2> QED
    BY <2>2
<1>11. ParseNext(w, s).at # 0 /\ DecodeData(SubSeq(w, s, ParseNext(w, s).at - 1)) = ParseNext(w, s).val
  <2> HIDE DEF s
  <2> QED
    BY <1>9, <1>10, CutOut
<1>12. InfoSlice(w) = StrV(SubSeq(w, s, ParseNext(w, s).at - 1))
  BY <1>8, <1>11, Zenon DEF InfoSlice
<1>13. InfoSlice(w).str = SubSeq(w, s, ParseNext(w, s).at - 1)
  <2> DEFINE y == SubSeq(w, s, ParseNext(w, s).at - 1)
  <2>1. InfoSlice(w) = StrV(y)
    BY <1>12
  <2> HIDE DEF y
  <2>2. InfoSlice(w).str = y
    BY <2>1, Fields
  <2> QED
    BY <2>2 DEF y
<1> QED
  BY <1>1, <1>3, <1>9, <1>11, <1>13, Zenon

-----------------------------------------------------------------------------
(* An announce *)

Texts == Seq(Nat)
Waiting == {"http", "connect", "announce"}

AnnForm ==
  /\ ann = [pc |-> ann.pc, urls |-> ann.urls, at |-> ann.at, tried |-> ann.tried,
            sent |-> ann.sent, answer |-> ann.answer]
  /\ ann.pc \in {"none", "next"} \cup Waiting
  /\ ann.urls \in Seq(Texts) /\ ann.tried \in Seq(Texts) /\ ann.at \in Nat

\* Who waits for an answer has tried a URL of that kind last, and has none yet.
AnnOK ==
  /\ AnnForm
  /\ ann.pc # "none" => ann.answer = NoAnswer /\ ann.at >= 1
  /\ ann.pc = "http" => Head(Last(ann.tried)) = Http
  /\ ann.pc \in {"connect", "announce"} => Head(Last(ann.tried)) = Udp
  /\ AnswerIsOwn

\* The URLs are tried in their order, none is passed over.
InOrder ==
  /\ Len(ann.tried) <= Len(ann.urls)
  /\ \A i \in 1 .. Len(ann.tried) : ann.tried[i] = ann.urls[i]
  /\ ann.pc = "next" => ann.at = Len(ann.tried) + 1
  /\ ann.pc \in Waiting => ann.at = Len(ann.tried)
  /\ ann.pc = "none" /\ ann.answer = NoAnswer => Len(ann.tried) = Len(ann.urls)

LEMMA IdleOK ==
  ASSUME ann = Idle
  PROVE  AnnOK /\ ann.pc = "none" /\ ann.urls = << >> /\ ann.answer = NoAnswer
BY DEF Idle, AnnOK, AnnForm, AnswerIsOwn, Waiting, Texts

LEMMA BeginOK ==
  ASSUME NEW urls \in Seq(Texts), ann' = Begin(urls)
  PROVE  AnnOK' /\ InOrder' /\ ann'.urls = urls
<1>1. ann' = [pc |-> "next", urls |-> urls, at |-> 1, tried |-> << >>, sent |-> {}, answer |-> NoAnswer]
  BY DEF Begin, Idle
<1>2. << >> \in Seq(Texts) /\ Len(<< >>) = 0 /\ 1 .. 0 = {} /\ Len(urls) \in Nat
  OBVIOUS
<1>3. AnnOK'
  BY <1>1, <1>2 DEF AnnOK, AnnForm, AnswerIsOwn, Waiting
<1>4. InOrder'
  BY <1>1, <1>2 DEF InOrder, Waiting
<1> QED
  BY <1>1, <1>3, <1>4

\* An attempt fails.
LEMMA NextUrlOK ==
  ASSUME AnnOK, ann.pc \in Waiting, ann' = NextUrl
  PROVE  AnnOK' /\ (InOrder => InOrder') /\ ann'.urls = ann.urls /\ ann'.tried = ann.tried
<1>1. ann' = [pc |-> "next", urls |-> ann.urls, at |-> ann.at + 1, tried |-> ann.tried,
              sent |-> {}, answer |-> ann.answer]
  BY DEF NextUrl, AnnOK, AnnForm
<1>2. ann.answer = NoAnswer
  BY DEF AnnOK, Waiting
<1>3. AnnOK'
  BY <1>1, <1>2 DEF AnnOK, AnnForm, AnswerIsOwn
<1>4. InOrder => InOrder'
  <2> DEFINE tried == ann.tried
             urls  == ann.urls
  <2>1. ann'.tried = tried /\ ann'.urls = urls /\ ann'.pc = "next" /\ ann'.at = ann.at + 1
    BY <1>1
  <2> QED
    BY <2>1 DEF InOrder, Waiting
<1> QED
  BY <1>1, <1>3, <1>4

\* An attempt is answered.
LEMMA SucceedOK ==
  ASSUME AnnOK, NEW answer, answer # NoAnswer, ann' = Succeed(answer),
         \/ ann.pc = "http" /\ answer.to = "http"
         \/ ann.pc \in {"connect", "announce"} /\ answer.to = "announce"
  PROVE  AnnOK' /\ (InOrder => InOrder') /\ ann'.urls = ann.urls /\ ann'.tried = ann.tried
<1>1. ann' = [pc |-> "none", urls |-> ann.urls, at |-> ann.at, tried |-> ann.tried,
              sent |-> {}, answer |-> answer]
  BY DEF Succeed, AnnOK, AnnForm
<1>2. Http # Udp
  BY DEF Http, Udp, Letter
<1>3. answer.to = IF Head(Last(ann.tried)) = Udp THEN "announce" ELSE "http"
  BY <1>2 DEF AnnOK
<1>4. AnnOK'
  <2>1. ann'.tried = ann.tried /\ ann'.answer = answer
    BY <1>1
  <2>2. AnswerIsOwn'
    BY <1>3, <2>1, Zenon DEF AnswerIsOwn
  <2> QED
    BY <1>1, <2>2 DEF AnnOK, AnnForm
<1>5. InOrder => InOrder'
  <2>1. ann'.tried = ann.tried /\ ann'.urls = ann.urls /\ ann'.pc = "none" /\ ann'.answer = answer
    BY <1>1
  <2> QED
    BY <2>1 DEF InOrder, Waiting
<1> QED
  BY <1>1, <1>4, <1>5

\* The next URL is tried.
LEMMA TryUrlOK ==
  ASSUME AnnOK, TryUrl
  PROVE  AnnOK' /\ (InOrder => InOrder') /\ ann'.urls = ann.urls /\ ann.urls # << >>
<1> DEFINE url   == ann.urls[ann.at]
           tried == Append(ann.tried, url)
<1>0. /\ ann = [pc |-> "next", urls |-> ann.urls, at |-> ann.at, tried |-> ann.tried,
                sent |-> ann.sent, answer |-> NoAnswer]
      /\ ann.urls \in Seq(Texts) /\ ann.tried \in Seq(Texts) /\ ann.at \in 1 .. Len(ann.urls)
      /\ ann.pc = "next" /\ ann.answer = NoAnswer
  BY DEF TryUrl, AnnOK, AnnForm
<1>1. \/ /\ Head(url) = Http
         /\ ann' = [pc |-> "http", urls |-> ann.urls, at |-> ann.at, tried |-> tried,
                    sent |-> ann.sent, answer |-> NoAnswer]
      \/ /\ Head(url) = Udp
         /\ ann' = [pc |-> "connect", urls |-> ann.urls, at |-> ann.at, tried |-> tried,
                    sent |-> {"connect"}, answer |-> NoAnswer]
      \/ /\ Head(url) = Udp
         /\ ann' = [pc |-> "next", urls |-> ann.urls, at |-> ann.at + 1, tried |-> tried,
                    sent |-> ann.sent, answer |-> NoAnswer]
  BY <1>0 DEF TryUrl
<1>2. /\ tried \in Seq(Texts) /\ Len(tried) = Len(ann.tried) + 1 /\ Last(tried) = url
      /\ \A i \in 1 .. Len(ann.tried) : tried[i] = ann.tried[i]
      /\ tried[Len(tried)] = url
      /\ Len(ann.tried) \in Nat
  <2>1. url \in Texts
    BY <1>0
  <2> HIDE DEF url
  <2> QED
    BY <1>0, <2>1 DEF Last
<1> HIDE DEF url, tried
<1>3. ann.urls # << >>
  BY <1>0
<1>4. AnnOK'
  BY <1>0, <1>1, <1>2 DEF AnnOK, AnnForm, AnswerIsOwn, Waiting
<1>5. ASSUME InOrder PROVE InOrder'
  <2>1. ann.at = Len(ann.tried) + 1 /\ Len(ann.tried) <= Len(ann.urls)
        /\ \A i \in 1 .. Len(ann.tried) : ann.tried[i] = ann.urls[i]
    BY <1>0, <1>5 DEF InOrder
  <2>2. Len(tried) = ann.at /\ Len(tried) <= Len(ann.urls)
    BY <1>0, <1>2, <2>1
  <2>3. \A i \in 1 .. Len(tried) : tried[i] = ann.urls[i]
    <3> SUFFICES ASSUME NEW i \in 1 .. Len(tried) PROVE tried[i] = ann.urls[i]
      OBVIOUS
    <3>1. CASE i = ann.at
      BY <1>2, <2>2, <3>1 DEF url
    <3>2. CASE i # ann.at
      <4>1. i \in 1 .. Len(ann.tried)
        BY <1>0, <1>2, <2>1, <2>2, <3>2
      <4> QED
        BY <1>2, <2>1, <4>1
    <3> QED
      BY <3>1, <3>2
  <2>4. /\ ann'.tried = tried /\ ann'.urls = ann.urls
        /\ \/ ann'.pc \in Waiting /\ ann'.at = ann.at
           \/ ann'.pc = "next" /\ ann'.at = ann.at + 1
    BY <1>1 DEF Waiting
  <2> QED
    BY <1>2, <2>2, <2>3, <2>4 DEF InOrder, Waiting
<1> QED
  BY <1>1, <1>3, <1>4, <1>5

LEMMA AnnounceStepOK ==
  ASSUME AnnOK, AnnounceStep
  PROVE  /\ AnnOK' /\ (InOrder => InOrder')
         /\ ann.pc # "none" /\ ann'.urls = ann.urls
         /\ ann.urls = << >> => ann'.tried = ann.tried
<1>1. CASE TryUrl
  <2>1. ann.pc # "none"
    BY <1>1 DEF TryUrl
  <2> QED
    BY <1>1, <2>1, TryUrlOK
<1>2. CASE Exhausted
  <2>1. ann.pc = "next" /\ ann.at > Len(ann.urls)
    BY <1>2 DEF Exhausted
  <2>2. ann' = [pc |-> "none", urls |-> ann.urls, at |-> ann.at, tried |-> ann.tried,
                sent |-> ann.sent, answer |-> ann.answer]
    BY <1>2 DEF Exhausted, AnnOK, AnnForm
  <2>3. AnnOK'
    BY <2>1, <2>2 DEF AnnOK, AnnForm, AnswerIsOwn
  <2>4. InOrder => InOrder'
    <3>1. ann'.tried = ann.tried /\ ann'.urls = ann.urls /\ ann'.pc = "none"
      BY <2>2
    <3>2. Len(ann.tried) \in Nat /\ Len(ann.urls) \in Nat
      BY DEF AnnOK, AnnForm
    <3> QED
      BY <2>1, <3>1, <3>2 DEF InOrder, Waiting
  <2> QED
    BY <2>1, <2>2, <2>3, <2>4
<1>3. CASE HttpFails
  BY <1>3, NextUrlOK DEF HttpFails, Waiting
<1>4. CASE UdpFails
  BY <1>4, NextUrlOK DEF UdpFails, Waiting
<1>5. CASE \E b \in Bodies : HttpAnswers(b)
  <2>1. PICK b \in Bodies : HttpAnswers(b)
    BY <1>5
  <2> DEFINE answer == FromBencode(DecodeData(b))
  <2>2. ann.pc = "http" /\ (ann' = IF answer = NoAnswer THEN NextUrl ELSE Succeed(answer))
    BY <2>1, Zenon DEF HttpAnswers
  <2>3. answer # NoAnswer => answer.to = "http"
    BY DEF FromBencode
  <2> HIDE DEF answer
  <2>4. CASE answer = NoAnswer
    BY <2>2, <2>4, NextUrlOK DEF Waiting
  <2>5. CASE answer # NoAnswer
    <3>1. ann' = Succeed(answer)
      BY <2>2, <2>5
    <3> QED
      BY <2>2, <2>3, <2>5, <3>1, SucceedOK
  <2> QED
    BY <2>4, <2>5
<1>6. CASE \E d \in Datagrams : ReceiveConnect(d) \/ ReceiveAnnounce(d)
  <2>1. PICK d \in Datagrams : ReceiveConnect(d) \/ ReceiveAnnounce(d)
    BY <1>6
  <2>2. CASE ReceiveConnect(d)
    <3>1. ann.pc = "connect"
      BY <2>2 DEF ReceiveConnect
    <3>2. CASE ann' = NextUrl
      BY <3>1, <3>2, NextUrlOK DEF Waiting
    <3>3. CASE ann' = [ann EXCEPT !.pc = "announce", !.sent = @ \cup {"announce"}]
      <4>1. ann' = [pc |-> "announce", urls |-> ann.urls, at |-> ann.at, tried |-> ann.tried,
                    sent |-> ann.sent \cup {"announce"}, answer |-> ann.answer]
        BY <3>3 DEF AnnOK, AnnForm
      <4>2. AnnOK'
        <5>1. ann'.tried = ann.tried /\ ann'.answer = NoAnswer
          BY <3>1, <4>1 DEF AnnOK
        <5>2. AnswerIsOwn'
          BY <5>1 DEF AnswerIsOwn
        <5> QED
          BY <3>1, <4>1, <5>1, <5>2 DEF AnnOK, AnnForm, Waiting
      <4>3. InOrder => InOrder'
        <5>1. ann'.tried = ann.tried /\ ann'.urls = ann.urls /\ ann'.pc = "announce" /\ ann'.at = ann.at
          BY <4>1
        <5> QED
          BY <3>1, <5>1 DEF InOrder, Waiting
      <4> QED
        BY <3>1, <4>1, <4>2, <4>3
    <3> QED
      BY <2>2, <3>2, <3>3 DEF ReceiveConnect
  <2>3. CASE ReceiveAnnounce(d)
    <3>1. ann.pc = "announce"
      BY <2>3 DEF ReceiveAnnounce
    <3>2. CASE ann' = NextUrl
      BY <3>1, <3>2, NextUrlOK DEF Waiting
    <3>3. CASE ann' # NextUrl
      <4> DEFINE answer == [peers |-> (d.size - 20) \div COMPACT_LEN, to |-> d.of]
      <4>1. d.of = "announce" /\ ann' = Succeed(answer)
        BY <2>3, <3>3, Zenon DEF ReceiveAnnounce, Accepted
      <4>2. answer.to = "announce" /\ answer # NoAnswer
        BY <4>1 DEF NoAnswer
      <4> HIDE DEF answer
      <4> QED
        BY <3>1, <4>1, <4>2, SucceedOK
    <3> QED
      BY <3>2, <3>3
  <2> QED
    BY <2>1, <2>2, <2>3
<1> QED
  BY <1>1, <1>2, <1>3, <1>4, <1>5, <1>6 DEF AnnounceStep, Unanswered

-----------------------------------------------------------------------------
(* The inductive invariant *)

\* The torrent is what the file is parsed to, once main has gone on.
Parsed ==
  /\ raw \in Files
  /\ main \in {"load", "failed"} <=> ~IsTorrent(torrent)
  /\ main \notin {"load", "failed"} => torrent = FromBytes(raw)

\* reannounce_loop runs only while main waits; each of its rounds, and the
\* first announce, hands peers over at most once.
Phases ==
  /\ main \in {"load", "first", "adding", "wait", "stopped", "exited", "failed"}
  /\ loop \in {"none", "sleep", "announce", "adding", "ended"}
  /\ rounds \in 0 .. MAX_ROUNDS /\ added \in 0 .. rounds + 1
  /\ done \in BOOLEAN
  /\ main \in {"load", "first"} => added = 0
  /\ loop \in {"sleep", "announce", "adding"} => main = "wait"
  /\ loop = "announce" => added <= rounds

UnderWay == main = "first" \/ loop = "announce"

\* An announce is under way for main or for reannounce_loop, with the URLs of
\* the torrent; what is left of a cancelled one has no URL to turn to.
Asked ==
  /\ AnnOK
  /\ UnderWay => ann.urls = BuildUrlList(torrent.announce, torrent.announceList) /\ InOrder
  /\ ann.pc # "none" => UnderWay \/ main = "stopped"
  /\ main = "stopped" => ann.urls = << >>

StartupInv == Parsed /\ Phases /\ Asked

LEMMA StartupInvInit == Init => StartupInv
<1> SUFFICES ASSUME Init PROVE StartupInv
  OBVIOUS
<1>1. AnnOK /\ ann.pc = "none"
  BY IdleOK DEF Init
<1>2. Parsed
  BY DEF Init, Parsed, IsTorrent
<1>3. Phases
  <2>1. 0 \in 0 .. MAX_ROUNDS /\ 0 \in 0 .. 0 + 1
    BY RoundsAssumption
  <2> QED
    BY <2>1, Zenon DEF Init, Phases
<1>4. Asked
  BY <1>1 DEF Init, Asked, UnderWay
<1> QED
  BY <1>2, <1>3, <1>4 DEF StartupInv

LEMMA BeginAnnounceOK ==
  ASSUME NEW w \in Files, IsTorrent(FromBytes(w)), ann' = BeginAnnounce(FromBytes(w))
  PROVE  /\ AnnOK' /\ InOrder'
         /\ ann'.urls = BuildUrlList(FromBytes(w).announce, FromBytes(w).announceList)
<1> DEFINE t == FromBytes(w)
<1>1. w \in Seq(Nat)
  BY FilesAssumption
<1>2. t.announce \in Seq(Nat) /\ t.announceList \in Seq(Seq(Seq(Nat)))
  BY <1>1, ParsedUrls
<1> HIDE DEF t
<1> DEFINE urls == BuildUrlList(t.announce, t.announceList)
<1>3. urls \in Seq(Texts)
  BY <1>2, UrlListOf DEF Texts
<1>4. ann' = Begin(urls)
  BY DEF BeginAnnounce, t
<1> HIDE DEF urls
<1>5. AnnOK' /\ InOrder' /\ ann'.urls = urls
  BY <1>3, <1>4, BeginOK
<1> QED
  BY <1>5 DEF urls, t

\* The announce stays as it is when only the rest of the program moves.
LEMMA AnnSame ==
  ASSUME AnnOK, ann' = ann
  PROVE  AnnOK' /\ (InOrder => InOrder')
BY DEF AnnOK, AnnForm, AnswerIsOwn, InOrder

LEMMA IdleNext ==
  ASSUME ann' = Idle
  PROVE  AnnOK' /\ ann'.pc = "none" /\ ann'.urls = << >>
BY DEF Idle, AnnOK, AnnForm, AnswerIsOwn, Waiting, Texts

LEMMA CancelledOK ==
  ASSUME AnnOK, ann' = CancelledAnnounce
  PROVE  AnnOK' /\ ann'.urls = << >>
<1>1. CASE InThread
  <2>1. ann' = [pc |-> ann.pc, urls |-> << >>, at |-> ann.at, tried |-> ann.tried,
                sent |-> ann.sent, answer |-> ann.answer]
    BY <1>1 DEF CancelledAnnounce, AnnOK, AnnForm
  <2>2. ann'.tried = ann.tried /\ ann'.answer = ann.answer
    BY <2>1
  <2>3. AnswerIsOwn'
    BY <2>2 DEF AnnOK, AnswerIsOwn
  <2>4. << >> \in Seq(Texts)
    OBVIOUS
  <2> QED
    BY <2>1, <2>3, <2>4 DEF AnnOK, AnnForm
<1>2. CASE ~InThread
  BY <1>2, IdleNext DEF CancelledAnnounce
<1> QED
  BY <1>1, <1>2

LEMMA StartupInvNext == StartupInv /\ [Next]_vars => StartupInv'
<1> SUFFICES ASSUME StartupInv, [Next]_vars PROVE StartupInv'
  OBVIOUS
<1> USE DEF StartupInv
<1>1. CASE Load
  <2>1. /\ main = "load" /\ torrent' = FromBytes(raw) /\ raw' = raw
        /\ UNCHANGED <<loop, rounds, added, done>>
    BY <1>1 DEF Load
  <2>2. loop \notin {"sleep", "announce", "adding"} /\ ann.pc = "none" /\ added = 0
    BY <2>1 DEF Phases, Asked, UnderWay
  <2>3. CASE ~IsTorrent(torrent') /\ main' = "failed" /\ UNCHANGED ann
    <3>1. Parsed'
      BY <2>1, <2>3 DEF Parsed
    <3>2. Phases'
      BY <2>1, <2>2, <2>3 DEF Phases
    <3>3. AnnOK'
      BY <2>3, AnnSame DEF Asked
    <3>4. Asked'
      BY <2>1, <2>2, <2>3, <3>3 DEF Asked, UnderWay
    <3> QED
      BY <3>1, <3>2, <3>4
  <2>4. CASE IsTorrent(torrent') /\ main' = "first" /\ ann' = BeginAnnounce(torrent')
    <3>1. Parsed'
      BY <2>1, <2>4 DEF Parsed
    <3>2. Phases'
      BY <2>1, <2>2, <2>4 DEF Phases
    <3>3. /\ AnnOK' /\ InOrder'
          /\ ann'.urls = BuildUrlList(torrent'.announce, torrent'.announceList)
      <4>1. raw \in Files
        BY DEF Parsed
      <4> QED
        BY <2>1, <2>4, <4>1, BeginAnnounceOK
    <3>4. Asked'
      BY <2>1, <2>2, <2>4, <3>3 DEF Asked, UnderWay
    <3> QED
      BY <3>1, <3>2, <3>4
  <2> QED
    BY <1>1, <2>3, <2>4 DEF Load
<1>2. CASE Announcing
  <2>1. AnnounceStep /\ UNCHANGED <<raw, torrent, main, loop, rounds, added, done>>
    BY <1>2 DEF Announcing
  <2>2. /\ AnnOK' /\ (InOrder => InOrder')
        /\ ann.pc # "none" /\ ann'.urls = ann.urls
    BY <2>1, AnnounceStepOK DEF Asked
  <2>3. Parsed' /\ Phases'
    BY <2>1 DEF Parsed, Phases
  <2>4. Asked'
    BY <2>1, <2>2 DEF Asked, UnderWay
  <2> QED
    BY <2>3, <2>4
<1>3. CASE FirstFails
  <2>1. /\ main = "first" /\ ann.pc = "none" /\ main' = "exited"
        /\ UNCHANGED <<raw, torrent, loop, rounds, added, done, ann>>
    BY <1>3 DEF FirstFails
  <2>2. Parsed' /\ Phases'
    BY <2>1 DEF Parsed, Phases
  <2>3. AnnOK'
    BY <2>1, AnnSame DEF Asked
  <2>4. Asked'
    BY <2>1, <2>3 DEF Asked, UnderWay, Phases
  <2> QED
    BY <2>2, <2>4
<1>4. CASE FirstAnswered
  <2>1. /\ main = "first" /\ added' = added + 1 /\ main' = "adding" /\ ann' = Idle
        /\ UNCHANGED <<raw, torrent, loop, rounds, done>>
    BY <1>4 DEF FirstAnswered
  <2>2. Parsed'
    BY <2>1 DEF Parsed
  <2>3. Phases'
    BY <2>1 DEF Phases
  <2>4. Asked'
    BY <2>1, IdleNext DEF Asked, UnderWay, Phases
  <2> QED
    BY <2>2, <2>3, <2>4
<1>11. CASE FirstAdded \/ MoreAdded
  <2>1. /\ (main = "adding" /\ main' = "wait") \/ (loop = "adding" /\ main' = main)
        /\ loop' \in {"ended", "sleep"} /\ UNCHANGED <<raw, torrent, rounds, added, done, ann>>
    BY <1>11 DEF FirstAdded, MoreAdded, NextRound
  <2>2. ~UnderWay /\ main # "stopped" /\ ann.pc = "none" /\ main' = "wait"
    BY <2>1 DEF Asked, UnderWay, Phases
  <2>3. Parsed' /\ Phases'
    BY <2>1, <2>2 DEF Parsed, Phases
  <2>4. AnnOK'
    BY <2>1, AnnSame DEF Asked
  <2>5. Asked'
    BY <2>1, <2>2, <2>4 DEF Asked, UnderWay
  <2> QED
    BY <2>3, <2>5
<1>5. CASE Wake
  <2>1. loop = "sleep" /\ main = "wait" /\ UNCHANGED <<raw, torrent, main, added, done>>
    BY <1>5 DEF Wake
  <2>2. ann.pc = "none"
    BY <2>1 DEF Asked, UnderWay
  <2>3. Parsed'
    BY <2>1 DEF Parsed
  <2>4. CASE loop' = "ended" /\ UNCHANGED <<rounds, ann>>
    <3>1. Phases'
      BY <2>1, <2>4 DEF Phases
    <3>2. AnnOK'
      BY <2>4, AnnSame DEF Asked
    <3>3. Asked'
      BY <2>1, <2>2, <2>4, <3>2 DEF Asked, UnderWay
    <3> QED
      BY <2>3, <3>1, <3>3
  <2>5. CASE /\ rounds < MAX_ROUNDS
             /\ loop' = "announce" /\ rounds' = rounds + 1
             /\ ann' = BeginAnnounce(torrent)
    <3>1. Phases'
      BY <2>1, <2>5, RoundsAssumption DEF Phases
    <3>2. /\ AnnOK' /\ InOrder'
          /\ ann'.urls = BuildUrlList(torrent.announce, torrent.announceList)
      <4>1. raw \in Files /\ torrent = FromBytes(raw) /\ IsTorrent(torrent)
        BY <2>1 DEF Parsed
      <4> QED
        BY <2>5, <4>1, BeginAnnounceOK
    <3>3. Asked'
      BY <2>1, <2>5, <3>2 DEF Asked, UnderWay
    <3> QED
      BY <2>3, <3>1, <3>3
  <2> QED
    BY <1>5, <2>4, <2>5 DEF Wake
<1>6. CASE Answered
  <2>1. /\ loop = "announce" /\ (added' = added \/ added' = added + 1)
        /\ loop' \in {"ended", "sleep", "adding"} /\ ann' = Idle
        /\ UNCHANGED <<raw, torrent, main, rounds, done>>
    BY <1>6 DEF Answered, NextRound
  <2>2. Parsed'
    BY <2>1 DEF Parsed
  <2>3. Phases'
    BY <2>1, RoundsAssumption DEF Phases
  <2>4. Asked'
    BY <2>1, IdleNext DEF Asked, UnderWay, Phases
  <2> QED
    BY <2>2, <2>3, <2>4
<1>7. CASE SetDone
  <2>1. done' = TRUE /\ UNCHANGED <<raw, torrent, main, loop, rounds, added, ann>>
    BY <1>7 DEF SetDone
  <2>2. Parsed' /\ Phases'
    BY <2>1 DEF Parsed, Phases
  <2>3. AnnOK' /\ (InOrder => InOrder')
    BY <2>1, AnnSame DEF Asked
  <2>4. Asked'
    BY <2>1, <2>3 DEF Asked, UnderWay
  <2> QED
    BY <2>2, <2>4
<1>8. CASE Stop
  <2>1. /\ main \in {"first", "adding", "wait"} /\ main' = "stopped" /\ loop' \in {"ended", "none"}
        /\ ann' = CancelledAnnounce /\ UNCHANGED <<raw, torrent, rounds, added, done>>
    BY <1>8 DEF Stop
  <2>2. Parsed'
    BY <2>1 DEF Parsed
  <2>3. Phases'
    BY <2>1 DEF Phases
  <2>4. AnnOK' /\ ann'.urls = << >>
    BY <2>1, CancelledOK DEF Asked
  <2>5. Asked'
    BY <2>1, <2>4 DEF Asked, UnderWay
  <2> QED
    BY <2>2, <2>3, <2>5
<1>9. CASE Exit
  <2>1. /\ main = "stopped" /\ ann.pc = "none" /\ main' = "exited"
        /\ UNCHANGED <<raw, torrent, loop, rounds, added, done, ann>>
    BY <1>9 DEF Exit
  <2>2. Parsed' /\ Phases'
    BY <2>1 DEF Parsed, Phases
  <2>3. AnnOK'
    BY <2>1, AnnSame DEF Asked
  <2>4. Asked'
    BY <2>1, <2>3 DEF Asked, UnderWay, Phases
  <2> QED
    BY <2>2, <2>4
<1>10. CASE UNCHANGED vars
  <2>1. UNCHANGED <<raw, torrent, main, loop, rounds, added, done, ann>>
    BY <1>10 DEF vars
  <2>2. Parsed' /\ Phases'
    BY <2>1 DEF Parsed, Phases
  <2>3. AnnOK' /\ (InOrder => InOrder')
    BY <2>1, AnnSame DEF Asked
  <2>4. Asked'
    BY <2>1, <2>3 DEF Asked, UnderWay
  <2> QED
    BY <2>2, <2>4
<1> QED
  BY <1>1, <1>2, <1>3, <1>4, <1>5, <1>6, <1>7, <1>8, <1>9, <1>10, <1>11
  DEF Next, Terminated

-----------------------------------------------------------------------------
(* The theorems *)

\* Whatever the torrent file and the trackers send, an announce is under way
\* only for main, for reannounce_loop or in a thread that was left behind, and
\* the peers of an announce are handed over at most once.
THEOREM StartupTypeCorrect == Spec => []StartupTypeOK
<1>1. StartupInv => StartupTypeOK
  BY DEF StartupInv, Parsed, Phases, Asked, UnderWay, StartupTypeOK
<1> QED
  BY <1>1, StartupInvInit, StartupInvNext, PTL DEF Spec

\* torrentFileParser.py: whatever bytes the file holds, a torrent that is
\* accepted has pieces, and files of which none has a negative length.
THEOREM TorrentsUsable == Spec => []TorrentUsable
<1>1. StartupInv => TorrentUsable
  <2> SUFFICES ASSUME Parsed, IsTorrent(torrent)
               PROVE  /\ torrent.pieceLength > 0 /\ torrent.numPieces > 0
                      /\ torrent.files # << >>
                      /\ \A k \in DOMAIN torrent.files : torrent.files[k] >= 0
    BY DEF StartupInv, TorrentUsable
  <2>1. raw \in Seq(Nat) /\ torrent = FromBytes(raw)
    BY FilesAssumption DEF Parsed
  <2> QED
    BY <2>1, ParsedUsable
<1> QED
  BY <1>1, StartupInvInit, StartupInvNext, PTL DEF Spec

\* _compute_info_hash: whatever bytes the file holds, when the search for the
\* encoded key can find only one place and no length is written with a blank,
\* the bytes that are hashed are those of the value that was parsed as info.
THEOREM InfoHashIsRight == Spec => []InfoHashRight
<1>1. StartupInv => InfoHashRight
  <2> SUFFICES ASSUME Parsed, IsTorrent(torrent), Cardinality(InfoKeysAt(raw)) = 1, ~BlankInLength(raw)
               PROVE  DecodeData(torrent.infoBytes) = DecodeData(raw).dict[<<KeyInfo>>]
    BY DEF StartupInv, InfoHashRight
  <2>1. raw \in Seq(Nat) /\ torrent = FromBytes(raw)
    BY FilesAssumption DEF Parsed
  <2> QED
    BY <2>1, InfoBytesRight
<1> QED
  BY <1>1, StartupInvInit, StartupInvNext, PTL DEF Spec

\* TrackerClient.announce fails only after each usable URL of the torrent was
\* tried, and no URL is tried twice, whatever the announce list holds.
THEOREM AnnounceTriesAll == Spec => []FailsAfterAll
<1>1. StartupInv => FailsAfterAll
  <2> SUFFICES ASSUME StartupInv, UnderWay, ann.pc = "none", ann.answer = NoAnswer
               PROVE  ToSet(ann.tried) = UrlsToTry(torrent) /\ IsInjective(ann.tried)
    BY DEF FailsAfterAll, UnderWay, UrlsToTry
  <2>1. raw \in Seq(Nat) /\ torrent = FromBytes(raw) /\ IsTorrent(torrent)
    BY FilesAssumption DEF StartupInv, Parsed, Phases, UnderWay
  <2>2. torrent.announce \in Seq(Nat) /\ torrent.announceList \in Seq(Seq(Seq(Nat)))
    BY <2>1, ParsedUrls
  <2>3. ann.urls \in Seq(Seq(Nat)) /\ IsInjective(ann.urls) /\ ToSet(ann.urls) = UrlsToTry(torrent)
    <3>1. ann.urls = BuildUrlList(torrent.announce, torrent.announceList)
      BY DEF StartupInv, Asked
    <3> QED
      BY <2>2, <3>1, UrlListOf
  <2>4. /\ Len(ann.tried) = Len(ann.urls) /\ ann.tried \in Seq(Texts)
        /\ \A i \in 1 .. Len(ann.tried) : ann.tried[i] = ann.urls[i]
    BY DEF StartupInv, Asked, InOrder, AnnOK, AnnForm
  <2>5. ann.tried = ann.urls
    <3> DEFINE a == ann.tried
               b == ann.urls
    <3>1. a \in Seq(Texts) /\ b \in Seq(Texts) /\ Len(a) = Len(b) /\ \A i \in 1 .. Len(a) : a[i] = b[i]
      BY <2>3, <2>4 DEF Texts
    <3> HIDE DEF a, b
    <3>2. a = b
      BY <3>1, SeqEqual
    <3> QED
      BY <3>2 DEF a, b
  <2> QED
    BY <2>3, <2>5
<1> QED
  BY <1>1, StartupInvInit, StartupInvNext, PTL DEF Spec

\* The answer that announce returns is that of the URL it tried last: a late,
\* repeated or reordered datagram is never taken for it.
THEOREM AnswersAreOwn == Spec => []AnswerIsOwn
<1>1. StartupInv => AnswerIsOwn
  BY DEF StartupInv, Asked, AnnOK
<1> QED
  BY <1>1, StartupInvInit, StartupInvNext, PTL DEF Spec

\* Once main has stopped, no peer is handed over and no other URL is tried,
\* although the thread of a cancelled UDP exchange runs on.
THEOREM StopIsFinal == Spec => NothingAfterStop
<1>1. StartupInv /\ [Next]_vars => [(main \in {"stopped", "exited"}) => added' = added /\ ann'.tried = ann.tried]_vars
  <2> SUFFICES ASSUME StartupInv, Next, main \in {"stopped", "exited"}
               PROVE  added' = added /\ ann'.tried = ann.tried
    OBVIOUS
  <2>1. CASE Announcing
    <3>1. AnnounceStep /\ added' = added
      BY <2>1 DEF Announcing
    <3>2. ann.pc # "none" /\ (ann.urls = << >> => ann'.tried = ann.tried)
      BY <3>1, AnnounceStepOK DEF StartupInv, Asked
    <3>3. ann.urls = << >>
      BY <3>2 DEF StartupInv, Asked, UnderWay, Phases
    <3> QED
      BY <3>1, <3>2, <3>3
  <2>2. loop \notin {"sleep", "announce", "adding"}
    BY DEF StartupInv, Phases
  <2>3. CASE ~Announcing
    <3>1. Exit \/ Terminated
      BY <2>2, <2>3 DEF Next, Load, FirstFails, FirstAnswered, FirstAdded, Wake, Answered, MoreAdded, SetDone, Stop
    <3> QED
      BY <3>1 DEF Exit, Terminated, vars
  <2> QED
    BY <2>1, <2>3
<1> QED
  BY <1>1, StartupInvInit, StartupInvNext, PTL DEF Spec, NothingAfterStop

=============================================================================
