---------------------------- MODULE JsonGrammar ----------------------------
(***************************************************************************)
(* The language that rjson.c reads, as a recursive grammar: a reference    *)
(* for its character-driven state machine, without states, stack or        *)
(* buffered character.  It is JSON (RFC 8259) with an object at the top    *)
(* and these differences, each marked with its number below:               *)
(*   1 whitespace after '{' and after a key reports these again;           *)
(*   2 a ',' may end an object;                                            *)
(*   3 an array is not empty;                                              *)
(*   4 a number may have several signs, and so may its exponent;           *)
(*   5 a zero has a fraction;                                              *)
(*   6 an exponent without a sign and without a fraction before it takes   *)
(*     the sign of its number;                                             *)
(*   7 there is no \u and no character outside ASCII;                      *)
(*   8 a text without anything but whitespace is complete.                 *)
(*                                                                         *)
(* A phrase is read from position i of text t, after the events evs.  The  *)
(* result has k = "ok", "more" when the text ends inside it, "bad" when    *)
(* its character i + 1 cannot follow, or "depth".                          *)
(***************************************************************************)
EXTENDS JsonChars
LOCAL INSTANCE SequencesExt
LOCAL INSTANCE FiniteSetsExt

CONSTANT str_mlen

Phrase(k, i, evs) == [k |-> k, i |-> i, evs |-> evs]
Event(ty) == <<ty, "none">>

(* The end of the run of characters of S that begins at i                  *)
RunEnd(t, i, S) == Min({j \in i..Len(t) : j = Len(t) \/ t[j + 1] \notin S})
Ws(t, i) == RunEnd(t, i, {" ", "\n", "\r", "\t"})

IsNext(t, i, S) == i < Len(t) /\ t[i + 1] \in S
Stop(t, i, evs) == Phrase(IF i = Len(t) THEN "more" ELSE "bad", i, evs)
-----------------------------------------------------------------------------
Literal(t, i, evs, word, event) ==
  LET n == Max({k \in 0..Len(word) : IsPrefix(SubSeq(word, 1, k), SubSeq(t, i + 1, Len(t)))})
  IN  IF n = Len(word) THEN Phrase("ok", i + n, Append(evs, event)) ELSE Stop(t, i + n, evs)

Decimal(digits) == FoldLeft(LAMBDA acc, ch : 10 * acc + DigitOf[ch], 0, digits)
Delimiters == {" ", "\n", "\r", "\t", "}", "]", ","}

NumberEnd(t, i, evs, mant, fracs, exp) ==
  IF IsNext(t, i, Delimiters)
  THEN Phrase("ok", i, Append(evs, <<"num", [mant |-> mant, fracs |-> fracs, exp |-> exp]>>))
  ELSE Stop(t, i, evs)

Exponent(t, i, evs, mant, fracs, neg) ==
  LET j   == RunEnd(t, i, {"+", "-"})                                     \* 4
      k   == RunEnd(t, j, Digits)
      val == Decimal(SubSeq(t, j + 1, k))
  IN  IF k = j THEN Stop(t, k, evs)
      ELSE NumberEnd(t, k, evs, mant, fracs, IF (IF j = i THEN neg ELSE t[j] = "-") THEN -val ELSE val)

Number(t, i, evs) ==
  LET j     == RunEnd(t, i, {"-"})                                        \* 4
      k     == IF IsNext(t, j, {"0"}) THEN j + 1 ELSE RunEnd(t, j, Digits)
      point == k > j /\ IsNext(t, k, {"."})
      n     == IF point THEN RunEnd(t, k + 1, Digits) ELSE k
      val   == Decimal(SubSeq(t, j + 1, k) \o SubSeq(t, k + 2, n))
      mant  == IF j > i THEN -val ELSE val
  IN  IF k = j \/ (point /\ n = k + 1) THEN Stop(t, n, evs)
      ELSE IF t[j + 1] = "0" /\ ~point THEN Stop(t, k, evs)               \* 5
      ELSE IF IsNext(t, n, {"e", "E"})
      THEN Exponent(t, n + 1, evs, mant, IF point THEN n - k - 1 ELSE 0, j > i /\ ~point)   \* 6
      ELSE NumberEnd(t, n, evs, mant, IF point THEN n - k - 1 ELSE 0, 0)

Escapes == [ch \in {"\"", "\\", "/", "b", "f", "n", "r", "t"} |->
  CASE ch = "b" -> "BS" [] ch = "f" -> "FF" [] ch = "n" -> "\n" [] ch = "r" -> "\r" [] ch = "t" -> "\t"
    [] OTHER -> ch]

(* The rest of a string after the characters s of it.  It has to fit in    *)
(* the buffer with its '\0'.                                               *)
RECURSIVE StrRest(_, _, _, _)
StrRest(t, i, evs, s) ==
  LET escaped == IsNext(t, i, {"\\"})
      j       == IF escaped THEN i + 1 ELSE i
      bad     == {"\n", "\r", "\t", "BS", "FF", "CTL", "U8", "XFF"}       \* 7
  IN  IF j = Len(t) \/ (IF escaped THEN t[j + 1] \notin DOMAIN Escapes ELSE t[j + 1] \in bad) \/ Len(s) = str_mlen
      THEN Stop(t, j, evs)
      ELSE IF ~escaped /\ t[i + 1] = "\"" THEN Phrase("ok", i + 1, Append(evs, <<"str", s>>))
      ELSE StrRest(t, j + 1, evs, Append(s, IF escaped THEN Escapes[t[j + 1]] ELSE t[j + 1]))

(* Whitespace from i on repeats the last event.                            *)
Again(t, i, evs) == evs \o [k \in 1..(Ws(t, i) - i) |-> Last(evs)]          \* 1
-----------------------------------------------------------------------------
(* One phrase and then the rest of what it is part of                      *)
Then(p, Rest(_)) == IF p.k = "ok" THEN Rest(p) ELSE p

(* The value at i, the members from a key on, the elements from a value    *)
(* on, in d open objects and arrays                                        *)
RECURSIVE Value(_, _, _, _), Members(_, _, _, _), Elements(_, _, _, _)

Value(t, i, evs, d) ==
  IF IsNext(t, i, {"{", "["}) /\ d = max_depth_ THEN Phrase("depth", i, evs)
  ELSE IF IsNext(t, i, {"{"})
  THEN Members(t, Ws(t, i + 1), Again(t, i + 1, Append(evs, Event("obj_start"))), d + 1)
  ELSE IF IsNext(t, i, {"["}) THEN Elements(t, i + 1, Append(evs, Event("arr_start")), d + 1)
  ELSE IF IsNext(t, i, {"\""}) THEN StrRest(t, i + 1, evs, <<>>)
  ELSE IF IsNext(t, i, Digits \cup {"-"}) THEN Number(t, i, evs)
  ELSE IF IsNext(t, i, {"t"}) THEN Literal(t, i, evs, <<"t", "r", "u", "e">>, <<"bool", TRUE>>)
  ELSE IF IsNext(t, i, {"f"}) THEN Literal(t, i, evs, <<"f", "a", "l", "s", "e">>, <<"bool", FALSE>>)
  ELSE IF IsNext(t, i, {"n"}) THEN Literal(t, i, evs, <<"n", "u", "l", "l">>, Event("null"))
  ELSE Stop(t, i, evs)

AfterMember(t, i, evs, d) ==
  IF IsNext(t, i, {","}) THEN Members(t, Ws(t, i + 1), evs, d)
  ELSE IF IsNext(t, i, {"}"}) THEN Phrase("ok", i + 1, Append(evs, Event("obj_end")))
  ELSE Stop(t, i, evs)

(* From the ':' at i on                                                    *)
AfterKey(t, i, evs, d) ==
  IF IsNext(t, i, {":"})
  THEN Then(Value(t, Ws(t, i + 1), evs, d), LAMBDA val : AfterMember(t, Ws(t, val.i), val.evs, d))
  ELSE Stop(t, i, evs)

Members(t, i, evs, d) ==
  IF IsNext(t, i, {"}"}) THEN Phrase("ok", i + 1, Append(evs, Event("obj_end")))            \* 2
  ELSE IF IsNext(t, i, {"\""})
  THEN Then(StrRest(t, i + 1, evs, <<>>), LAMBDA key : AfterKey(t, Ws(t, key.i), Again(t, key.i, key.evs), d))
  ELSE Stop(t, i, evs)

AfterElement(t, i, evs, d) ==
  IF IsNext(t, i, {","}) THEN Elements(t, i + 1, evs, d)
  ELSE IF IsNext(t, i, {"]"}) THEN Phrase("ok", i + 1, Append(evs, Event("arr_end")))
  ELSE Stop(t, i, evs)

Elements(t, i, evs, d) ==                                                 \* 3
  Then(Value(t, Ws(t, i), evs, d), LAMBDA val : AfterElement(t, Ws(t, val.i), val.evs, d))

(* Of a text that its '\0' ends nothing more comes.                        *)
AtEnd(t, p) == IF p.k = "more" THEN Phrase(IF Ws(t, 0) = Len(t) THEN "ok" ELSE "bad", p.i, p.evs) ELSE p   \* 8

Text(t) == IF IsNext(t, Ws(t, 0), {"{"}) THEN Value(t, Ws(t, 0), <<>>, 0) ELSE Stop(t, Ws(t, 0), <<>>)
WholeText(t) == AtEnd(t, Text(t))
=============================================================================
