---------------------------- MODULE DbReadProofs ----------------------------
(***************************************************************************)
(* Reading a text that wdb.c writes, value by value.  First what rdb_next  *)
(* does with the characters of strings and numbers.  Reads follows the     *)
(* reader over the first characters of a text.  It is a function of the    *)
(* text (ReadsOnce), so that whatever follows, the characters of a value   *)
(* that are in the text already are read as they are now.  StrRead,        *)
(* LongRead, BoolRead, KeyRead, IntText and NumText say what the text of   *)
(* each kind of value is read as: that value, or a refusal that its length *)
(* or a character of it explains.                                          *)
(***************************************************************************)
EXTENDS RdbProofs

-----------------------------------------------------------------------------
(***************************************************************************)
(* Strings                                                                 *)
(***************************************************************************)
(* A value may come.                                                       *)
Ready(c) == c.st = "idle" /\ is_val_expected(c)

(* The first character of a value enters the state of its kind.            *)
LEMMA ReadyChars ==
  ASSUME NEW c, IsCtx(c), Ready(c)
  PROVE  /\ rdb_next(c, "\"") = Ret(Enter(Fresh(c), "str"))
         /\ rdb_next(c, "<") = Ret(Enter(Fresh(c), "long_str"))
         /\ \A ch : IsDigit(ch) \/ ch = "-" => rdb_next(c, ch) = next_num_(Enter(Fresh(c), "num"), ch)
         /\ \A ch \in {"t", "f"} : rdb_next(c, ch) = next_bool_(Enter(Fresh(c), "bool"), ch)
<1> DEFINE d == Fresh(c)
<1>1. /\ d.got_key = c.got_key /\ d.expect_colon = c.expect_colon /\ d.is_in_arr = c.is_in_arr
      /\ d.got_first_val = c.got_first_val
  BY FreshIs DEF Fields
<1>2. is_val_expected(d) /\ d.got_key
  BY <1>1 DEF Ready, is_val_expected
<1>3. \A ch : rdb_next(c, ch) = next_idle_(d, ch)
  BY NextIs, Zenon DEF Ready
<1>4. ~IsDigit("\"") /\ ~IsDigit("<") /\ ~IsDigit("t") /\ ~IsDigit("f")
  BY DigitChars DEF IsDigit
<1> HIDE DEF d
<1>5. next_idle_(d, "\"") = Ret(Enter(d, "str")) /\ next_idle_(d, "<") = Ret(Enter(d, "long_str"))
  BY <1>2, <1>4, Zenon DEF next_idle_
<1>6. ASSUME NEW ch, IsDigit(ch) \/ ch = "-" PROVE next_idle_(d, ch) = next_num_(Enter(d, "num"), ch)
  <2>1. ch \notin {":", "\"", "<", ",", "\n", "NUL", " ", "\t"}
    BY <1>6, DigitChars DEF IsDigit
  <2> QED
    BY <1>2, <1>6, <2>1 DEF next_idle_
<1>7. ASSUME NEW ch \in {"t", "f"} PROVE next_idle_(d, ch) = next_bool_(Enter(d, "bool"), ch)
  <2>1. ch \notin {":", "\"", "<", ",", "\n", "NUL", " ", "\t", "-", "+", "."} /\ ~IsDigit(ch)
    BY <1>4
  <2> QED
    BY <1>2, <2>1 DEF next_idle_
<1> QED
  BY <1>3, <1>5, <1>6, <1>7, ZenonT(40) DEF d

Entered(e, st) ==
  /\ Fields = DOMAIN e /\ e.ty = "incomplete" /\ e.st = st /\ e.str = <<>> /\ e.is_escape = FALSE
  /\ e.skip_whitespace = (st = "long_str") /\ e.num = NoNum /\ e.word = <<>>

(* Entering a state resets what belongs to it.                             *)
LEMMA EnterIs ==
  ASSUME NEW c, IsCtx(c), NEW st
  PROVE  Entered(Enter(Fresh(c), st), st)
<1> DEFINE d == Fresh(c)
<1>1. Fields = DOMAIN d /\ d.ty = "incomplete"
  BY FreshIs DEF Incomplete
<1> HIDE DEF d
<1>2. Entered(Enter(d, st), st)
  BY <1>1 DEF Enter, Entered, Fields
<1> QED
  BY <1>2, Zenon DEF d

(* In a string of which v has been read                                    *)
InText(kind, c, v, esc) ==
  c.st = kind /\ c.str = v /\ c.is_escape = esc /\ (kind = "long_str" => c.skip_whitespace = FALSE)

(* A character that is put, or for which there is no room                  *)
PutOrFull(kind, res, v, ch) ==
  IF Len(v) < str_mlen THEN Quiet(res) /\ InText(kind, res.c, Append(v, ch), FALSE) ELSE res.r = "syntax"

(* Put, by the room in str                                                 *)
LEMMA PutIs ==
  ASSUME NEW kind, NEW c, Fields = DOMAIN c, c.ty = "incomplete", NEW v, InText(kind, c, v, FALSE), NEW ch
  PROVE  PutOrFull(kind, Put(c, ch), v, ch)
<1> USE ZenonT(40)
<1> DEFINE d == [c EXCEPT !.str = Append(@, ch)]
<1>1. /\ d.ty = "incomplete" /\ d.st = c.st /\ d.str = Append(v, ch) /\ d.is_escape = c.is_escape
      /\ d.skip_whitespace = c.skip_whitespace
  BY SMT DEF Fields, InText
<1>2. c.str = v
  BY SMT DEF InText
<1>3. Put(c, ch) = IF Len(v) < str_mlen THEN Ret(d) ELSE Syntax(c)
  BY <1>2 DEF Put
<1> HIDE DEF d
<1>4. Len(v) < str_mlen => Put(c, ch).r = "ok" /\ Put(c, ch).c = d
  BY <1>3, Results
<1>5. ~(Len(v) < str_mlen) => Put(c, ch).r = "syntax"
  BY <1>3, Results
<1>6. Len(v) < str_mlen => Quiet(Put(c, ch)) /\ InText(kind, Put(c, ch).c, Append(v, ch), FALSE)
  BY <1>1, <1>4 DEF Quiet, InText
<1> QED
  BY <1>5, <1>6 DEF PutOrFull

(* Put leaves keep_last_newline alone.                                     *)
LEMMA PutKeeps ==
  ASSUME NEW c, Fields = DOMAIN c, NEW ch
  PROVE  Put(c, ch).c.keep_last_newline = c.keep_last_newline
<1> DEFINE d == [c EXCEPT !.str = Append(@, ch)]
<1>1. d.keep_last_newline = c.keep_last_newline
  BY DEF Fields
<1>2. Put(c, ch).c = d \/ Put(c, ch).c = c
  BY Results, Zenon DEF Put
<1> HIDE DEF d
<1> QED
  BY <1>1, <1>2, Zenon

(* The end of a string                                                     *)
StrDone(res, v) ==
  IF Len(v) < str_mlen
  THEN /\ res.r = "ok" /\ Token(res.c) = <<<<"str", v>>>> /\ res.c.st = "idle"
       /\ res.c.got_key = TRUE /\ res.c.expect_colon = FALSE
  ELSE res.r = "syntax"

(* StrEnd reports the string if the '\0' fits too.                         *)
LEMMA StrEndIs ==
  ASSUME NEW c, Fields = DOMAIN c
  PROVE  StrDone(StrEnd(c), c.str)
<1> USE ZenonT(40)
<1> DEFINE d == [c EXCEPT !.ty = "str", !.st = "idle", !.expect_colon = FALSE, !.got_key = TRUE, !.got_first_val = TRUE]
<1>1. d.ty = "str" /\ d.st = "idle" /\ d.str = c.str /\ d.expect_colon = FALSE /\ d.got_key = TRUE
  BY SMT DEF Fields
<1>2. StrEnd(c) = IF Len(c.str) < str_mlen THEN Ret(d) ELSE Syntax(c)
  BY DEF StrEnd
<1> HIDE DEF d
<1>3. Token(d) = <<<<"str", c.str>>>>
  BY <1>1, SMT DEF Token
<1>4. Len(c.str) < str_mlen => StrEnd(c).r = "ok" /\ StrEnd(c).c = d
  BY <1>2, Results
<1>5. ~(Len(c.str) < str_mlen) => StrEnd(c).r = "syntax"
  BY <1>2, Results
<1> QED
  BY <1>1, <1>3, <1>4, <1>5 DEF StrDone

(* "..."                                                                   *)
LEMMA StrChars ==
  ASSUME NEW c, IsCtx(c), NEW v, InText("str", c, v, FALSE)
  PROVE  /\ rdb_next(c, "NUL").r = "syntax"
         /\ StrDone(rdb_next(c, "\""), v)
         /\ Quiet(rdb_next(c, "\\")) /\ InText("str", rdb_next(c, "\\").c, v, TRUE)
         /\ \A ch : ch \notin {"NUL", "CTL", "U8", "\n", "\r", "\"", "\\"} => PutOrFull("str", rdb_next(c, ch), v, ch)
<1> USE ZenonT(40)
<1> DEFINE d == Fresh(c)
           x == [d EXCEPT !.is_escape = TRUE]
<1>1. Fields = DOMAIN d /\ d.ty = "incomplete" /\ InText("str", d, v, FALSE)
  BY FreshIs, SMT DEF Incomplete, InText, Fields
<1>2. \A ch : rdb_next(c, ch) = next_str_(d, ch)
  BY NextIs DEF InText
<1> HIDE DEF d
<1>3. d.is_escape = FALSE /\ d.str = v
  BY <1>1, SMT DEF InText
<1>4. next_str_(d, "NUL") = Syntax(d) /\ next_str_(d, "\"") = StrEnd(d) /\ next_str_(d, "\\") = Ret(x)
  BY <1>3 DEF next_str_
<1>5. ASSUME NEW ch, ch \notin {"NUL", "CTL", "U8", "\n", "\r", "\"", "\\"} PROVE PutOrFull("str", rdb_next(c, ch), v, ch)
  <2>1. next_str_(d, ch) = Put(d, ch)
    BY <1>3, <1>5 DEF next_str_
  <2> QED
    BY <1>1, <1>2, <2>1, PutIs
<1>6. x.ty = "incomplete" /\ InText("str", x, v, TRUE)
  BY <1>1, SMT DEF InText, Fields
<1> HIDE DEF x
<1>7. Quiet(rdb_next(c, "\\")) /\ InText("str", rdb_next(c, "\\").c, v, TRUE)
  <2>1. rdb_next(c, "\\") = Ret(x)
    BY <1>2, <1>4
  <2>2. rdb_next(c, "\\").r = "ok" /\ rdb_next(c, "\\").c = x
    BY <2>1, Results
  <2> QED
    BY <1>6, <2>2 DEF Quiet
<1>8. StrDone(rdb_next(c, "\""), v)
  <2>1. StrDone(StrEnd(d), d.str)
    BY <1>1, StrEndIs, SMT
  <2> QED
    BY <1>2, <1>3, <1>4, <2>1
<1>9. rdb_next(c, "NUL").r = "syntax"
  BY <1>2, <1>4, Results
<1> QED
  BY <1>5, <1>7, <1>8, <1>9

(* The character behind a backslash                                        *)
LEMMA StrEscapes ==
  ASSUME NEW c, IsCtx(c), NEW v, InText("str", c, v, TRUE), NEW ch \in {"\"", "n", "r"}
  PROVE  PutOrFull("str", rdb_next(c, ch), v, escape_ch_(ch))
<1> USE ZenonT(40)
<1> DEFINE d == Fresh(c)
           x == [d EXCEPT !.is_escape = FALSE]
<1>1. Fields = DOMAIN d /\ d.ty = "incomplete" /\ InText("str", d, v, TRUE)
  <2>1. Fields = DOMAIN d /\ d.ty = "incomplete" /\ d.st = c.st /\ d.str = c.str /\ d.is_escape = c.is_escape
    BY FreshIs DEF Incomplete, Fields
  <2> QED
    BY <2>1 DEF InText
<1>2. rdb_next(c, ch) = next_str_(d, ch)
  <2>1. c.st = "str"
    BY DEF InText
  <2> QED
    BY <2>1, NextIs
<1> HIDE DEF d
<1>3. Fields = DOMAIN x /\ x.ty = "incomplete" /\ InText("str", x, v, FALSE)
  BY <1>1 DEF InText, Fields
<1>4. d.is_escape = TRUE
  BY <1>1 DEF InText
<1>5. next_str_(d, ch) = Put(x, escape_ch_(ch))
  BY <1>4 DEF next_str_
<1> HIDE DEF x
<1> QED
  BY <1>2, <1>3, <1>5, PutIs

(* <...>                                                                   *)
LEMMA LongChars ==
  ASSUME NEW c, IsCtx(c), NEW v, InText("long_str", c, v, FALSE)
  PROVE  /\ rdb_next(c, "NUL").r = "syntax"
         /\ Quiet(rdb_next(c, "\\")) /\ InText("long_str", rdb_next(c, "\\").c, v, TRUE)
         /\ \A ch : ch \notin {"NUL", "CTL", "U8", "\r", ">", "\\"} =>
              /\ PutOrFull("long_str", rdb_next(c, ch), v, ch)
              /\ Len(v) < str_mlen => rdb_next(c, ch).c.keep_last_newline = FALSE
<1> USE ZenonT(40)
<1> DEFINE d == Fresh(c)
           x == [d EXCEPT !.is_escape = TRUE, !.skip_whitespace = FALSE]
           put == [d EXCEPT !.is_escape = FALSE, !.skip_whitespace = FALSE]
           y == [put EXCEPT !.keep_last_newline = FALSE]
<1>1. Fields = DOMAIN d /\ d.ty = "incomplete" /\ InText("long_str", d, v, FALSE)
  BY FreshIs, SMT DEF Incomplete, InText, Fields
<1>2. \A ch : rdb_next(c, ch) = next_long_str_(d, ch)
  BY NextIs DEF InText
<1> HIDE DEF d
<1>3. d.is_escape = FALSE /\ d.skip_whitespace = FALSE /\ d.st = "long_str" /\ d.str = v
  BY <1>1, SMT DEF InText
<1>4. next_long_str_(d, "NUL") = Syntax(d) /\ next_long_str_(d, "\\") = Ret(x)
  BY <1>3, SMT DEF next_long_str_
<1>5. Fields = DOMAIN y /\ y.ty = "incomplete" /\ y.keep_last_newline = FALSE /\ InText("long_str", y, v, FALSE)
  BY <1>1, <1>3, SMT DEF Fields, InText
<1>6. x.ty = "incomplete" /\ InText("long_str", x, v, TRUE)
  BY <1>1, <1>3, SMT DEF Fields, InText
<1> HIDE DEF x
<1>7. Quiet(rdb_next(c, "\\")) /\ InText("long_str", rdb_next(c, "\\").c, v, TRUE)
  <2>1. rdb_next(c, "\\") = Ret(x)
    BY <1>2, <1>4
  <2>2. rdb_next(c, "\\").r = "ok" /\ rdb_next(c, "\\").c = x
    BY <2>1, Results
  <2> QED
    BY <1>6, <2>2 DEF Quiet
<1>8. ASSUME NEW ch, ch \notin {"NUL", "CTL", "U8", "\r", ">", "\\"}
      PROVE  /\ PutOrFull("long_str", rdb_next(c, ch), v, ch)
             /\ Len(v) < str_mlen => rdb_next(c, ch).c.keep_last_newline = FALSE
  <2>1. next_long_str_(d, ch) = Put(y, ch)
    BY <1>3, <1>8 DEF next_long_str_
  <2> HIDE DEF y
  <2>2. PutOrFull("long_str", Put(y, ch), v, ch) /\ (Len(v) < str_mlen => Put(y, ch).c.keep_last_newline = FALSE)
    <3>1. PutOrFull("long_str", Put(y, ch), v, ch)
      BY <1>5, PutIs
    <3>2. Put(y, ch).c.keep_last_newline = y.keep_last_newline
      BY <1>5, PutKeeps
    <3> QED
      BY <1>5, <3>1, <3>2
  <2> QED
    BY <1>2, <2>1, <2>2
<1>9. rdb_next(c, "NUL").r = "syntax"
  BY <1>2, <1>4, Results
<1> QED
  BY <1>7, <1>8, <1>9

(* The character behind a backslash                                        *)
LEMMA LongEscapes ==
  ASSUME NEW c, IsCtx(c), NEW v, InText("long_str", c, v, TRUE), NEW ch \in {"<", ">", "r"}
  PROVE  PutOrFull("long_str", rdb_next(c, ch), v, escape_ch_(ch))
<1> DEFINE d == Fresh(c)
           put == [d EXCEPT !.is_escape = FALSE, !.skip_whitespace = FALSE]
           x == [put EXCEPT !.keep_last_newline = (escape_ch_(ch) = "\n")]
<1>1. Fields = DOMAIN d /\ d.ty = "incomplete" /\ d.st = "long_str" /\ d.str = v /\ d.is_escape = TRUE
  <2>1. Fields = DOMAIN d /\ d.ty = "incomplete" /\ d.st = c.st /\ d.str = c.str /\ d.is_escape = c.is_escape
    BY FreshIs DEF Incomplete, Fields
  <2> QED
    BY <2>1, Zenon DEF InText
<1>2. rdb_next(c, ch) = next_long_str_(d, ch)
  <2>1. c.st = "long_str"
    BY DEF InText
  <2> QED
    BY <2>1, NextIs, Zenon
<1> HIDE DEF d
<1>3. Fields = DOMAIN x /\ x.ty = "incomplete" /\ InText("long_str", x, v, FALSE)
  BY <1>1 DEF InText, Fields
<1>5. next_long_str_(d, ch) = Put(x, escape_ch_(ch))
  BY <1>1 DEF next_long_str_
<1> HIDE DEF x
<1> QED
  BY <1>2, <1>3, <1>5, PutIs, Zenon

(* The newline behind '<' is skipped.                                      *)
LEMMA LongStart ==
  ASSUME NEW c, IsCtx(c), c.st = "long_str", c.str = <<>>, c.is_escape = FALSE, c.skip_whitespace = TRUE
  PROVE  Quiet(rdb_next(c, "\n")) /\ InText("long_str", rdb_next(c, "\n").c, <<>>, FALSE)
<1> USE ZenonT(40)
<1> DEFINE d == Fresh(c)
           x == [d EXCEPT !.skip_whitespace = ("\n" # "\n"), !.keep_last_newline = TRUE]
<1>1. /\ Fields = DOMAIN d /\ d.ty = "incomplete" /\ d.st = "long_str" /\ d.str = <<>>
      /\ d.is_escape = FALSE /\ d.skip_whitespace = TRUE
  <2>1. /\ Fields = DOMAIN d /\ d.ty = "incomplete" /\ d.st = c.st /\ d.str = c.str /\ d.is_escape = c.is_escape
        /\ d.skip_whitespace = c.skip_whitespace
    BY FreshIs, SMT DEF Incomplete, Fields
  <2> QED
    BY <2>1
<1>2. rdb_next(c, "\n") = next_long_str_(d, "\n")
  BY NextIs
<1> HIDE DEF d
<1>3. x.ty = "incomplete" /\ InText("long_str", x, <<>>, FALSE)
  <2>1. /\ x.ty = "incomplete" /\ x.st = "long_str" /\ x.str = <<>> /\ x.is_escape = FALSE /\ x.skip_whitespace = FALSE
    BY <1>1 DEF Fields
  <2> QED
    BY <2>1 DEF InText
<1>4. next_long_str_(d, "\n") = Ret(x)
  BY <1>1, SMT DEF next_long_str_
<1> HIDE DEF x
<1>5. rdb_next(c, "\n").r = "ok" /\ rdb_next(c, "\n").c = x
  BY <1>2, <1>4, Results
<1> QED
  BY <1>3, <1>5 DEF Quiet

(* The one before '>' is taken back.                                       *)
LEMMA LongEnd ==
  ASSUME NEW c, IsCtx(c), NEW v, IsSeq(v), InText("long_str", c, Append(v, "\n"), FALSE), c.keep_last_newline = FALSE
  PROVE  StrDone(rdb_next(c, ">"), v)
<1> DEFINE d == Fresh(c)
           u == Append(v, "\n")
           x == [d EXCEPT !.str = SubSeq(@, 1, Len(u) - 1)]
<1>1. Fields = DOMAIN d /\ d.str = u /\ d.is_escape = FALSE /\ d.keep_last_newline = FALSE
  <2>1. Fields = DOMAIN d /\ d.str = c.str /\ d.is_escape = c.is_escape /\ d.keep_last_newline = c.keep_last_newline
    BY FreshIs DEF Fields
  <2> QED
    BY <2>1, Zenon DEF InText
<1>2. rdb_next(c, ">") = next_long_str_(d, ">")
  <2>1. c.st = "long_str"
    BY DEF InText
  <2> QED
    BY <2>1, NextIs, Zenon
<1> HIDE DEF d
<1>3. Len(u) > 0 /\ u[Len(u)] = "\n" /\ SubSeq(u, 1, Len(u) - 1) = v
  <2>1. PICK S : v \in Seq(S)
    BY DEF IsSeq
  <2>2. v \in Seq(S \cup {"\n"}) /\ Len(v) \in Nat
    BY <2>1
  <2>3. Len(u) = Len(v) + 1 /\ u[Len(u)] = "\n" /\ u \in Seq(S \cup {"\n"})
    BY <2>2
  <2>4. SubSeq(u, 1, Len(u) - 1) = v
    BY <2>2, <2>3
  <2> QED
    BY <2>2, <2>3, <2>4
<1> HIDE DEF u
<1>4. next_long_str_(d, ">") = StrEnd(WithoutNewline(d))
  BY <1>1, Zenon DEF next_long_str_
<1>5. WithoutNewline(d) = x
  BY <1>1, <1>3 DEF WithoutNewline
<1>6. Fields = DOMAIN x /\ x.str = v
  BY <1>1, <1>3 DEF Fields
<1> HIDE DEF x
<1>7. StrDone(StrEnd(x), x.str)
  BY <1>6, StrEndIs
<1> QED
  BY <1>2, <1>4, <1>5, <1>6, <1>7

(* A word, up to its separator                                             *)
InWord(c, u) == c.st = "bool" /\ c.word = u

(* A character that is put in the word                                     *)
LEMMA WordPut ==
  ASSUME NEW c, Fields = DOMAIN c, c.ty = "incomplete", NEW u, InWord(c, u), NEW ch, ~is_separator_(ch), Len(u) < word_size
  PROVE  Quiet(next_bool_(c, ch)) /\ InWord(next_bool_(c, ch).c, Append(u, ch))
<1> DEFINE d == [c EXCEPT !.word = Append(@, ch)]
<1>1. c.word = u /\ c.st = "bool"
  BY DEF InWord
<1>2. d.ty = "incomplete" /\ d.st = "bool" /\ d.word = Append(u, ch)
  BY <1>1 DEF Fields
<1>3. next_bool_(c, ch) = Ret(d)
  BY <1>1, Zenon DEF next_bool_
<1> HIDE DEF d
<1> QED
  BY <1>2, <1>3, Results, Zenon DEF Quiet, InWord

(* next_bool_ collects a word as long as it fits.                          *)
LEMMA WordChars ==
  ASSUME NEW c, IsCtx(c), NEW ch, ~is_separator_(ch)
  PROVE  /\ Ready(c) /\ ch \in {"t", "f"} => Quiet(rdb_next(c, ch)) /\ InWord(rdb_next(c, ch).c, <<ch>>)
         /\ \A u : InWord(c, u) /\ Len(u) < word_size =>
              Quiet(rdb_next(c, ch)) /\ InWord(rdb_next(c, ch).c, Append(u, ch))
<1> USE ZenonT(40)
<1>1. ASSUME Ready(c), ch \in {"t", "f"}
      PROVE  Quiet(rdb_next(c, ch)) /\ InWord(rdb_next(c, ch).c, <<ch>>)
  <2> DEFINE e == Enter(Fresh(c), "bool")
  <2>1. rdb_next(c, ch) = next_bool_(e, ch)
    BY <1>1, ReadyChars
  <2>2. Entered(e, "bool")
    BY EnterIs
  <2> HIDE DEF e
  <2>3. Fields = DOMAIN e /\ e.ty = "incomplete" /\ InWord(e, <<>>)
    BY <2>2 DEF Entered, InWord
  <2>4. Len(<<>>) < word_size /\ Append(<<>>, ch) = <<ch>>
    BY SMT DEF word_size
  <2>5. Quiet(next_bool_(e, ch)) /\ InWord(next_bool_(e, ch).c, Append(<<>>, ch))
    BY <2>3, <2>4, WordPut
  <2> QED
    BY <2>1, <2>4, <2>5
<1>2. ASSUME NEW u, InWord(c, u), Len(u) < word_size
      PROVE  Quiet(rdb_next(c, ch)) /\ InWord(rdb_next(c, ch).c, Append(u, ch))
  <2> DEFINE d == Fresh(c)
  <2>1. rdb_next(c, ch) = next_bool_(d, ch)
    BY <1>2, NextIs DEF InWord
  <2>2. Fields = DOMAIN d /\ d.ty = "incomplete" /\ d.st = c.st /\ d.word = c.word
    BY FreshIs, SMT DEF Fields, Incomplete
  <2> HIDE DEF d
  <2>3. InWord(d, u)
    BY <1>2, <2>2 DEF InWord
  <2>4. Quiet(next_bool_(d, ch)) /\ InWord(next_bool_(d, ch).c, Append(u, ch))
    BY <1>2, <2>2, <2>3, WordPut
  <2> QED
    BY <2>1, <2>4
<1> QED
  BY <1>1, <1>2

(* A key, up to its ':'                                                    *)
InKey(c, u) == c.st = "key" /\ c.str = u

KeyPut(res, u, ch) ==
  IF Len(u) < str_mlen THEN Quiet(res) /\ InKey(res.c, Append(u, ch)) ELSE res.r = "syntax"

(* Put in a key                                                            *)
LEMMA KeyPutIs ==
  ASSUME NEW c, Fields = DOMAIN c, c.ty = "incomplete", NEW u, InKey(c, u), NEW ch
  PROVE  KeyPut(Put(c, ch), u, ch)
<1> USE ZenonT(40)
<1> DEFINE d == [c EXCEPT !.str = Append(@, ch)]
<1>1. c.str = u /\ c.st = "key"
  BY SMT DEF InKey
<1>2. d.ty = "incomplete" /\ d.st = "key" /\ d.str = Append(u, ch)
  BY <1>1, SMT DEF Fields
<1>3. Put(c, ch) = IF Len(u) < str_mlen THEN Ret(d) ELSE Syntax(c)
  BY <1>1 DEF Put
<1> HIDE DEF d
<1>4. Len(u) < str_mlen => Quiet(Put(c, ch)) /\ InKey(Put(c, ch).c, Append(u, ch))
  BY <1>2, <1>3, Results DEF Quiet, InKey
<1>5. ~(Len(u) < str_mlen) => Put(c, ch).r = "syntax"
  BY <1>3, Results
<1> QED
  BY <1>4, <1>5 DEF KeyPut

(* The ':' that ends it                                                    *)
KeyDone(res, u) ==
  /\ res.r = "ok" /\ Token(res.c) = <<<<"key", u>>>> /\ res.c.st = "idle"
  /\ res.c.got_key = TRUE /\ res.c.expect_colon = FALSE /\ res.c.got_first_val = FALSE

(* next_key_ takes the characters of a key, and the ':' ends it.           *)
LEMMA KeyChar ==
  ASSUME NEW c, IsCtx(c), NEW u, InKey(c, u)
  PROVE  /\ \A ch \in KeyChars : KeyPut(rdb_next(c, ch), u, ch)
         /\ Len(u) \in 1..(str_mlen - 1) => KeyDone(rdb_next(c, ":"), u)
         /\ Len(u) \notin 1..(str_mlen - 1) => rdb_next(c, ":").r = "syntax"
<1> USE ZenonT(40)
<1> DEFINE d == Fresh(c)
           x == [d EXCEPT !.ty = "key", !.st = "idle", !.expect_colon = (":" # ":"),
                          !.got_key = TRUE, !.got_first_val = FALSE, !.is_in_arr = FALSE]
<1>1. Fields = DOMAIN d /\ d.ty = "incomplete" /\ d.st = c.st /\ d.str = c.str
  BY FreshIs, SMT DEF Incomplete, Fields
<1>2. \A ch : rdb_next(c, ch) = next_key_(d, ch)
  BY NextIs DEF InKey
<1> HIDE DEF d
<1>3. InKey(d, u) /\ d.str = u
  BY <1>1 DEF InKey
<1>4. ASSUME NEW ch \in KeyChars PROVE KeyPut(rdb_next(c, ch), u, ch)
  <2>1. ch \notin {":", " ", "\t"} /\ ch \in Letters \cup Chars(digit) \cup {".", "_", "-"}
    <3>1. ":" \notin KeyChars /\ " " \notin KeyChars /\ "\t" \notin KeyChars
      BY DigitChars DEF KeyChars, Letters
    <3> QED
      BY <3>1 DEF KeyChars
  <2>2. rdb_next(c, ch) = Put(d, ch)
    BY <1>2, <2>1 DEF next_key_
  <2> QED
    BY <1>1, <1>3, <2>2, KeyPutIs
<1>5. x.ty = "key" /\ x.st = "idle" /\ x.str = u /\ x.expect_colon = FALSE /\ x.got_key = TRUE /\ x.got_first_val = FALSE
  BY <1>1, <1>3 DEF Fields
<1>6. rdb_next(c, ":") = IF Len(u) \in 1..(str_mlen - 1) THEN Ret(x) ELSE Syntax(d)
  BY <1>2, <1>3 DEF next_key_
<1> HIDE DEF x
<1>7. Token(x) = <<<<"key", u>>>>
  BY <1>5, SMT DEF Token
<1>8. Len(u) \in 1..(str_mlen - 1) => KeyDone(rdb_next(c, ":"), u)
  BY <1>5, <1>6, <1>7, Results DEF KeyDone
<1>9. Len(u) \notin 1..(str_mlen - 1) => rdb_next(c, ":").r = "syntax"
  BY <1>6, Results
<1> QED
  BY <1>4, <1>8, <1>9

(* The first character of a line                                           *)
LEMMA KeyFirst ==
  ASSUME NEW c, IsCtx(c), c.st = "idle", c.got_key = FALSE, c.expect_colon = FALSE
  PROVE  /\ rdb_next(c, ":").r = "syntax"
         /\ \A ch \in KeyChars : IF ch \in Letters \cup {"_"}
                                 THEN Quiet(rdb_next(c, ch)) /\ InKey(rdb_next(c, ch).c, <<ch>>)
                                 ELSE rdb_next(c, ch).r = "syntax"
<1> USE ZenonT(40)
<1> DEFINE d == Fresh(c)
           e == EnterKey(d)
<1>1. Fields = DOMAIN d /\ d.ty = "incomplete" /\ d.got_key = FALSE /\ d.expect_colon = FALSE
  BY FreshIs, SMT DEF Incomplete, Fields
<1>2. \A ch : rdb_next(c, ch) = next_idle_(d, ch)
  BY NextIs
<1> HIDE DEF d
<1>3. ~is_val_expected(d)
  BY <1>1 DEF is_val_expected
<1>4. Fields = DOMAIN e /\ e.ty = "incomplete" /\ e.st = "key" /\ e.str = <<>>
  BY <1>1, SMT DEF EnterKey, Fields
<1>5. rdb_next(c, ":").r = "syntax"
  <2>1. ~IsDigit(":")
    BY DigitChars, SMT DEF IsDigit
  <2>2. next_idle_(d, ":") = Syntax(d)
    BY <1>1, <2>1 DEF next_idle_
  <2> QED
    BY <1>2, <2>2, Results
<1> HIDE DEF e
<1>6. ASSUME NEW ch \in KeyChars, ch \in Letters \cup {"_"}
      PROVE  Quiet(rdb_next(c, ch)) /\ InKey(rdb_next(c, ch).c, <<ch>>)
  <2>1. ~IsDigit(ch) /\ ch \notin {"-", "+", ".", ":", "<", ",", "\n", "NUL", " "}
    BY <1>6, DigitChars DEF IsDigit, Letters
  <2>2. ch # "\"" /\ ch # "\t"
    BY <1>6 DEF Letters
  <2>3. next_idle_(d, ch) = next_key_(e, ch)
    BY <1>1, <2>1, <2>2 DEF next_idle_, e
  <2>4. next_key_(e, ch) = Put(e, ch)
    BY <1>6, <2>1, <2>2 DEF next_key_
  <2>5. InKey(e, <<>>)
    BY <1>4 DEF InKey
  <2>6. KeyPut(Put(e, ch), <<>>, ch)
    BY <1>4, <2>5, KeyPutIs
  <2>7. Len(<<>>) < str_mlen /\ Append(<<>>, ch) = <<ch>>
    BY StrMlenAssumption, SMT
  <2>8. rdb_next(c, ch) = Put(e, ch)
    BY <1>2, <2>3, <2>4
  <2> QED
    BY <2>6, <2>7, <2>8 DEF KeyPut
<1>7. ASSUME NEW ch \in KeyChars, ch \notin Letters \cup {"_"} PROVE rdb_next(c, ch).r = "syntax"
  <2>1. IsDigit(ch) \/ ch \in {"-", "+", "."}
    BY <1>7 DEF KeyChars, IsDigit
  <2>2. ch \notin {":", "\"", "<", ",", "\n", "NUL", " ", "\t"}
    BY DigitChars DEF KeyChars, Letters
  <2>3. next_idle_(d, ch) = Syntax(d)
    BY <1>3, <2>1, <2>2 DEF next_idle_
  <2> QED
    BY <1>2, <2>3, Results
<1> QED
  BY <1>5, <1>6, <1>7

-----------------------------------------------------------------------------
(***************************************************************************)
(* Numbers: the digits of printf and what the reader computes from them    *)
(***************************************************************************)
(* A number being read: neg and m are its sign and the digits so far.      *)
IntAt(c, neg, m, g) ==
  /\ c.st = "num" /\ c.num.part = "int" /\ c.num.neg = neg /\ c.num.mant = m /\ c.num.fracs = 0
  /\ c.num.exp = 0 /\ c.num.eneg = FALSE /\ c.num.got_sign = neg /\ c.num.got_int = g
  /\ c.num.pos \in Nat /\ (c.num.pos = 0 <=> m = 0)

FracAt(c, neg, m, k) ==
  /\ c.st = "num" /\ c.num.part = "frac" /\ c.num.neg = neg /\ c.num.mant = m /\ c.num.fracs = k
  /\ c.num.exp = 0 /\ c.num.eneg = FALSE /\ c.num.pos = k + 1

(* The steps of next_num_, from a context that reports nothing             *)
LEMMA IntDigit ==
  ASSUME NEW c, Incomplete(c), NEW neg, NEW m \in Nat, NEW g, IntAt(c, neg, m, g), NEW q \in 0..9
  PROVE  LET res == next_num_(c, digit[q + 1]) IN Quiet(res) /\ IntAt(res.c, neg, 10 * m + q, TRUE)
<1> USE ZenonT(40)
<1> DEFINE ch == digit[q + 1]
           d == [c EXCEPT !.num.got_int = TRUE]
           e == [c EXCEPT !.num.got_int = TRUE, !.num.mant = 10 * @ + DigitOf(ch), !.num.pos = @ + 1]
<1>1. Fields = DOMAIN c /\ NumFields = DOMAIN c.num /\ c.ty = "incomplete"
  BY SMT DEF Incomplete, IsCtx
<1>2. IsDigit(ch) /\ DigitOf(ch) = q /\ (ch = "0" <=> q = 0)
  BY DigitIs, SMT
<1>3. ch \notin {"-", "+", ".", "e"} /\ ~is_separator_(ch)
  <2>1. ch \in {"0", "1", "2", "3", "4", "5", "6", "7", "8", "9"}
    BY <1>2, DigitChars DEF IsDigit
  <2> QED
    BY <2>1 DEF is_separator_
<1> HIDE DEF ch
<1>4. c.num.part = "int"
  BY DEF IntAt
<1>5. next_num_(c, ch) = IF c.num.pos = 0 /\ ch = "0" THEN Ret(d) ELSE Ret(e)
  <2>1. next_num_(c, ch) = next_num_int_(c, ch)
    BY <1>4 DEF next_num_
  <2>2. next_num_int_(c, ch) = IF c.num.pos = 0 /\ ch = "0" THEN Ret(d) ELSE Ret(e)
    BY <1>2, <1>3 DEF next_num_int_
  <2> QED
    BY <2>1, <2>2
<1>6. CASE c.num.pos = 0 /\ ch = "0"
  <2>1. m = 0 /\ q = 0
    BY <1>2, <1>6 DEF IntAt
  <2>2. d.ty = "incomplete" /\ IntAt(d, neg, 10 * m + q, TRUE)
    BY <1>1, <2>1, SMT DEF IntAt, Fields, NumFields
  <2> HIDE DEF d, e
  <2>3. next_num_(c, ch) = Ret(d)
    BY <1>5, <1>6
  <2>4. Quiet(Ret(d)) /\ Ret(d).c = d
    BY <2>2, Results DEF Quiet
  <2> QED
    BY <2>2, <2>3, <2>4 DEF ch
<1>7. CASE ~(c.num.pos = 0 /\ ch = "0")
  <2>1. m # 0 \/ q # 0
    BY <1>2, <1>7 DEF IntAt
  <2>2. 10 * m + q # 0
    BY <2>1, SMT
  <2>3. /\ e.ty = "incomplete" /\ e.st = c.st /\ e.num.part = c.num.part /\ e.num.neg = c.num.neg
        /\ e.num.fracs = c.num.fracs /\ e.num.exp = c.num.exp /\ e.num.eneg = c.num.eneg
        /\ e.num.got_sign = c.num.got_sign /\ e.num.got_int = TRUE
        /\ e.num.mant = 10 * c.num.mant + q /\ e.num.pos = c.num.pos + 1
    BY <1>1, <1>2 DEF Fields, NumFields
  <2> HIDE DEF d, e
  <2>4. e.num.pos \in Nat /\ e.num.pos # 0
    BY <2>3, SMT DEF IntAt
  <2>5. IntAt(e, neg, 10 * m + q, TRUE)
    BY <2>2, <2>3, <2>4 DEF IntAt
  <2>6. next_num_(c, ch) = Ret(e)
    BY <1>5, <1>7
  <2> QED
    BY <2>3, <2>5, <2>6, Results DEF Quiet, ch
<1> QED
  BY <1>6, <1>7

(* The '-' of a number                                                     *)
LEMMA IntSign ==
  ASSUME NEW c, Incomplete(c), IntAt(c, FALSE, 0, FALSE)
  PROVE  LET res == next_num_(c, "-") IN Quiet(res) /\ IntAt(res.c, TRUE, 0, FALSE)
<1> USE ZenonT(40)
<1> DEFINE e == [c EXCEPT !.num.neg = ("-" = "-"), !.num.got_sign = TRUE]
<1>1. Fields = DOMAIN c /\ NumFields = DOMAIN c.num /\ c.ty = "incomplete"
  BY SMT DEF Incomplete, IsCtx
<1>2. ~IsDigit("-") /\ ~is_separator_("-")
  BY DigitChars DEF IsDigit, is_separator_
<1>3. c.num.part = "int" /\ c.num.pos = 0 /\ c.num.got_sign = FALSE
  BY DEF IntAt
<1>4. next_num_(c, "-") = Ret(e)
  <2>1. next_num_(c, "-") = next_num_int_(c, "-")
    BY <1>3 DEF next_num_
  <2>2. next_num_int_(c, "-") = Ret(e)
    BY <1>2, <1>3 DEF next_num_int_
  <2> QED
    BY <2>1, <2>2
<1>5. /\ e.ty = "incomplete" /\ e.st = c.st /\ e.num.part = c.num.part /\ e.num.neg = TRUE
      /\ e.num.fracs = c.num.fracs /\ e.num.exp = c.num.exp /\ e.num.eneg = c.num.eneg
      /\ e.num.got_sign = TRUE /\ e.num.got_int = c.num.got_int
      /\ e.num.mant = c.num.mant /\ e.num.pos = c.num.pos
  BY <1>1 DEF Fields, NumFields
<1> HIDE DEF e
<1>6. IntAt(e, TRUE, 0, FALSE)
  BY <1>5 DEF IntAt
<1> QED
  BY <1>4, <1>5, <1>6, Results DEF Quiet

(* The '.' of a number                                                     *)
LEMMA IntDot ==
  ASSUME NEW c, Incomplete(c), NEW neg, NEW m, IntAt(c, neg, m, TRUE)
  PROVE  LET res == next_num_(c, ".") IN Quiet(res) /\ FracAt(res.c, neg, m, 0)
<1> USE ZenonT(40)
<1> DEFINE e == [c EXCEPT !.num.pos = 1, !.num.part = "frac"]
<1>1. Fields = DOMAIN c /\ NumFields = DOMAIN c.num /\ c.ty = "incomplete"
  BY SMT DEF Incomplete, IsCtx
<1>2. ~IsDigit(".") /\ ~is_separator_(".")
  BY DigitChars DEF IsDigit, is_separator_
<1>3. c.num.part = "int" /\ c.num.got_int = TRUE
  BY DEF IntAt
<1>4. next_num_(c, ".") = Ret(e)
  <2>1. next_num_(c, ".") = next_num_int_(c, ".")
    BY <1>3 DEF next_num_
  <2>2. next_num_int_(c, ".") = Ret(e)
    BY <1>2, <1>3 DEF next_num_int_
  <2> QED
    BY <2>1, <2>2
<1>5. /\ e.ty = "incomplete" /\ e.st = c.st /\ e.num.part = "frac" /\ e.num.neg = c.num.neg
      /\ e.num.fracs = c.num.fracs /\ e.num.exp = c.num.exp /\ e.num.eneg = c.num.eneg
      /\ e.num.mant = c.num.mant /\ e.num.pos = 1
  BY <1>1 DEF Fields, NumFields
<1>6. 0 + 1 = 1
  BY SMT
<1> HIDE DEF e
<1>7. FracAt(e, neg, m, 0)
  BY <1>5, <1>6 DEF IntAt, FracAt
<1> QED
  BY <1>4, <1>5, <1>7, Results DEF Quiet

(* A digit behind the '.'                                                  *)
LEMMA FracDigit ==
  ASSUME NEW c, Incomplete(c), NEW neg, NEW m \in Nat, NEW k \in Nat, FracAt(c, neg, m, k), NEW q \in 0..9
  PROVE  LET res == next_num_(c, digit[q + 1]) IN Quiet(res) /\ FracAt(res.c, neg, 10 * m + q, k + 1)
<1> USE ZenonT(40)
<1> DEFINE ch == digit[q + 1]
           e == [c EXCEPT !.num.mant = 10 * @ + DigitOf(ch), !.num.fracs = @ + 1, !.num.pos = @ + 1]
<1>1. Fields = DOMAIN c /\ NumFields = DOMAIN c.num /\ c.ty = "incomplete"
  BY SMT DEF Incomplete, IsCtx
<1>2. IsDigit(ch) /\ DigitOf(ch) = q
  BY DigitIs, SMT
<1>3. ch \notin {"-", "+", ".", "e"} /\ ~is_separator_(ch)
  <2>1. ch \in {"0", "1", "2", "3", "4", "5", "6", "7", "8", "9"}
    BY <1>2, DigitChars DEF IsDigit
  <2> QED
    BY <2>1 DEF is_separator_
<1> HIDE DEF ch
<1>4. c.num.part = "frac"
  BY DEF FracAt
<1>5. next_num_(c, ch) = Ret(e)
  <2>1. next_num_(c, ch) = next_num_frac_(c, ch)
    BY <1>4 DEF next_num_
  <2>2. next_num_frac_(c, ch) = Ret(e)
    BY <1>2, <1>3 DEF next_num_frac_
  <2> QED
    BY <2>1, <2>2
<1>6. /\ e.ty = "incomplete" /\ e.st = c.st /\ e.num.part = c.num.part /\ e.num.neg = c.num.neg
      /\ e.num.fracs = c.num.fracs + 1 /\ e.num.exp = c.num.exp /\ e.num.eneg = c.num.eneg
      /\ e.num.mant = 10 * c.num.mant + q /\ e.num.pos = c.num.pos + 1
  BY <1>1, <1>2 DEF Fields, NumFields
<1> HIDE DEF e
<1>7. FracAt(e, neg, 10 * m + q, k + 1)
  BY <1>6 DEF FracAt
<1> QED
  BY <1>5, <1>6, <1>7, Results DEF Quiet, ch

(* Where a number begins: a value is expected, or its sign has been read.  *)
NumAt(c, neg, m, g) ==
  \/ Ready(c) /\ neg = FALSE /\ m = 0 /\ g = FALSE
  \/ IntAt(c, neg, m, g)

NumGoes(res, neg, m) == Quiet(res) /\ IntAt(res.c, neg, m, TRUE)

(* The reader takes a digit or a sign at c as next_num_ takes it at d.      *)
NumLike(c, d, neg, m, g) ==
  /\ Incomplete(d) /\ IntAt(d, neg, m, g)
  /\ \A ch : IsDigit(ch) \/ ch = "-" => rdb_next(c, ch) = next_num_(d, ch)

(* next_num_ on a context that only differs in ty and st                   *)
LEMMA NumFrom ==
  ASSUME NEW c, IsCtx(c), NEW neg, NEW m, NEW g, NumAt(c, neg, m, g)
  PROVE  \E d : NumLike(c, d, neg, m, g)
<1> USE ZenonT(40)
<1>1. CASE Ready(c) /\ neg = FALSE /\ m = 0 /\ g = FALSE
  <2> DEFINE d == Enter(Fresh(c), "num")
  <2>1. \A ch : IsDigit(ch) \/ ch = "-" => rdb_next(c, ch) = next_num_(d, ch)
    BY <1>1, ReadyChars
  <2>2. Entered(d, "num")
    BY EnterIs
  <2>3. d.got_key = c.got_key /\ d.expect_colon = c.expect_colon
    <3> DEFINE e == Fresh(c)
    <3>1. Fields = DOMAIN e /\ e.got_key = c.got_key /\ e.expect_colon = c.expect_colon
      BY FreshIs DEF Fields
    <3> HIDE DEF e
    <3>2. Enter(e, "num").got_key = e.got_key /\ Enter(e, "num").expect_colon = e.expect_colon
      BY <3>1, SMT DEF Enter, Fields
    <3> QED
      BY <3>1, <3>2 DEF e
  <2> HIDE DEF d
  <2>4. Fields = DOMAIN d /\ d.ty = "incomplete" /\ d.st = "num" /\ d.num = NoNum
    BY <2>2 DEF Entered
  <2>5. /\ NumFields = DOMAIN NoNum /\ NoNum.part = "int" /\ NoNum.neg = FALSE /\ NoNum.mant = 0 /\ NoNum.fracs = 0
        /\ NoNum.exp = 0 /\ NoNum.eneg = FALSE /\ NoNum.got_sign = FALSE /\ NoNum.got_int = FALSE /\ NoNum.pos = 0 /\ 0 \in Nat
    BY SMT DEF NoNum, NumFields
  <2>6. IntAt(d, neg, m, g)
    BY <1>1, <2>4, <2>5 DEF IntAt
  <2>7. "num" \in States
    BY SMT DEF States, ValStates, StrStates
  <2>8. Incomplete(d)
    BY <2>3, <2>4, <2>5, <2>7 DEF Incomplete, IsCtx
  <2> QED
    BY <2>1, <2>6, <2>8 DEF NumLike
<1>2. CASE IntAt(c, neg, m, g)
  <2> DEFINE d == Fresh(c)
  <2>1. \A ch : rdb_next(c, ch) = next_num_(d, ch)
    BY <1>2, NextIs DEF IntAt
  <2>2. Incomplete(d) /\ d.st = c.st /\ d.num = c.num
    BY FreshIs DEF Fields
  <2> HIDE DEF d
  <2>3. IntAt(d, neg, m, g)
    BY <1>2, <2>2 DEF IntAt
  <2> QED
    BY <2>1, <2>2, <2>3 DEF NumLike
<1> QED
  BY <1>1, <1>2 DEF NumAt

(* The same for rdb_next                                                   *)
LEMMA NumSteps ==
  ASSUME NEW c, IsCtx(c), NEW neg
  PROVE  /\ \A g : \A m \in Nat, q \in 0..9 : NumAt(c, neg, m, g) => NumGoes(rdb_next(c, digit[q + 1]), neg, 10 * m + q)
         /\ Ready(c) => Quiet(rdb_next(c, "-")) /\ IntAt(rdb_next(c, "-").c, TRUE, 0, FALSE)
         /\ \A m : IntAt(c, neg, m, TRUE) => Quiet(rdb_next(c, ".")) /\ FracAt(rdb_next(c, ".").c, neg, m, 0)
         /\ \A m \in Nat, k \in Nat, q \in 0..9 : FracAt(c, neg, m, k) =>
              Quiet(rdb_next(c, digit[q + 1])) /\ FracAt(rdb_next(c, digit[q + 1]).c, neg, 10 * m + q, k + 1)
<1> USE ZenonT(40)
<1>1. ASSUME NEW m \in Nat, NEW g, NEW q \in 0..9, NumAt(c, neg, m, g)
      PROVE  NumGoes(rdb_next(c, digit[q + 1]), neg, 10 * m + q)
  <2>1. PICK d : NumLike(c, d, neg, m, g)
    BY <1>1, NumFrom
  <2>2. rdb_next(c, digit[q + 1]) = next_num_(d, digit[q + 1])
    BY <2>1, DigitIs DEF NumLike
  <2>3. Quiet(next_num_(d, digit[q + 1])) /\ IntAt(next_num_(d, digit[q + 1]).c, neg, 10 * m + q, TRUE)
    BY <2>1, IntDigit DEF NumLike
  <2> QED
    BY <2>2, <2>3 DEF NumGoes
<1>2. ASSUME Ready(c) PROVE Quiet(rdb_next(c, "-")) /\ IntAt(rdb_next(c, "-").c, TRUE, 0, FALSE)
  <2>1. NumAt(c, FALSE, 0, FALSE)
    BY <1>2 DEF NumAt
  <2>2. PICK d : NumLike(c, d, FALSE, 0, FALSE)
    BY <2>1, NumFrom
  <2>3. rdb_next(c, "-") = next_num_(d, "-")
    BY <2>2 DEF NumLike
  <2>4. Quiet(next_num_(d, "-")) /\ IntAt(next_num_(d, "-").c, TRUE, 0, FALSE)
    BY <2>2, IntSign DEF NumLike
  <2> QED
    BY <2>3, <2>4
<1> DEFINE d == Fresh(c)
<1>3. Incomplete(d) /\ d.st = c.st /\ d.num = c.num
  BY FreshIs DEF Fields
<1>4. c.st = "num" => \A ch : rdb_next(c, ch) = next_num_(d, ch)
  BY NextIs
<1> HIDE DEF d
<1>5. ASSUME NEW m, IntAt(c, neg, m, TRUE) PROVE Quiet(rdb_next(c, ".")) /\ FracAt(rdb_next(c, ".").c, neg, m, 0)
  <2>1. IntAt(d, neg, m, TRUE) /\ c.st = "num"
    BY <1>3, <1>5 DEF IntAt
  <2>2. Quiet(next_num_(d, ".")) /\ FracAt(next_num_(d, ".").c, neg, m, 0)
    BY <1>3, <2>1, IntDot
  <2> QED
    BY <1>4, <2>1, <2>2
<1>6. ASSUME NEW m \in Nat, NEW k \in Nat, NEW q \in 0..9, FracAt(c, neg, m, k)
      PROVE  Quiet(rdb_next(c, digit[q + 1])) /\ FracAt(rdb_next(c, digit[q + 1]).c, neg, 10 * m + q, k + 1)
  <2>1. FracAt(d, neg, m, k) /\ c.st = "num"
    BY <1>3, <1>6 DEF FracAt
  <2>2. Quiet(next_num_(d, digit[q + 1])) /\ FracAt(next_num_(d, digit[q + 1]).c, neg, 10 * m + q, k + 1)
    BY <1>3, <2>1, FracDigit
  <2> QED
    BY <1>4, <2>1, <2>2
<1> QED
  BY <1>1, <1>2, <1>5, <1>6

-----------------------------------------------------------------------------
(***************************************************************************)
(* Reading a text.  Reads(s, n, c, t): the first n characters of s, all    *)
(* accepted, bring the reader from rdb_init to the context c, and t is     *)
(* what it has reported.                                                   *)
(***************************************************************************)
Fed(s, k, f, g) ==
  LET res == rdb_next(f[k - 1], s[k])
  IN  res.r = "ok" /\ f[k] = res.c /\ g[k] = g[k - 1] \o Token(f[k])

IsRun(s, n, f, g) == f[0] = rdb_init /\ g[0] = <<>> /\ \A k \in 1..n : Fed(s, k, f, g)

Reads(s, n, c, t) == \E f, g : IsRun(s, n, f, g) /\ f[n] = c /\ g[n] = t

(* Nothing has been read.                                                  *)
LEMMA ReadsStart == \A s : Reads(s, 0, rdb_init, <<>>)
<1> TAKE s
<1> DEFINE f == [k \in {0} |-> rdb_init]
           g == [k \in {0} |-> <<>>]
<1>1. f[0] = rdb_init /\ g[0] = <<>> /\ 1..0 = {}
  OBVIOUS
<1> HIDE DEF f, g
<1>2. IsRun(s, 0, f, g)
  BY <1>1 DEF IsRun
<1> QED
  BY <1>1, <1>2 DEF Reads

(* One more character                                                      *)
LEMMA ReadsNext ==
  ASSUME NEW s, NEW n \in Nat, NEW c, NEW t, Reads(s, n, c, t), rdb_next(c, s[n + 1]).r = "ok"
  PROVE  LET d == rdb_next(c, s[n + 1]).c IN Reads(s, n + 1, d, t \o Token(d))
<1> DEFINE d == rdb_next(c, s[n + 1]).c
           e == t \o Token(d)
<1>1. PICK f, g : IsRun(s, n, f, g) /\ f[n] = c /\ g[n] = t
  BY Zenon DEF Reads
<1> DEFINE ff == [k \in 0..(n + 1) |-> IF k = n + 1 THEN d ELSE f[k]]
           gg == [k \in 0..(n + 1) |-> IF k = n + 1 THEN e ELSE g[k]]
<1> HIDE DEF d, e
<1>3. /\ ff[n + 1] = d /\ \A k \in 0..n : ff[k] = f[k]
      /\ gg[n + 1] = e /\ \A k \in 0..n : gg[k] = g[k]
  OBVIOUS
<1> HIDE DEF ff, gg
<1>4. ASSUME NEW k \in 1..(n + 1) PROVE Fed(s, k, ff, gg)
  <2>1. CASE k = n + 1
    <3>1. ff[k - 1] = c /\ gg[k - 1] = t
      BY <1>1, <1>3, <2>1
    <3> QED
      BY <1>3, <2>1, <3>1, Zenon DEF Fed, d, e
  <2>2. CASE k # n + 1
    <3>1. k \in 1..n /\ k \in 0..n /\ k - 1 \in 0..n
      BY <2>2
    <3> QED
      BY <1>1, <1>3, <3>1, Zenon DEF IsRun, Fed
  <2> QED
    BY <2>1, <2>2
<1>5. ff[0] = rdb_init /\ gg[0] = <<>>
  BY <1>1, <1>3 DEF IsRun
<1>6. IsRun(s, n + 1, ff, gg)
  BY <1>4, <1>5, Zenon DEF IsRun
<1> QED
  BY <1>3, <1>6, Zenon DEF Reads, d, e

(* Only the characters that are read matter.                               *)
LEMMA ReadsSame ==
  ASSUME NEW s, NEW z, NEW n \in Nat, NEW c, NEW t, Reads(s, n, c, t), \A k \in 1..n : z[k] = s[k]
  PROVE  Reads(z, n, c, t)
BY ZenonT(40) DEF Reads, IsRun, Fed

(* Every context on the way is one, and the tokens are a sequence.         *)
LEMMA ReadsTyped ==
  ASSUME NEW s, NEW n \in Nat, NEW c, NEW t, Reads(s, n, c, t)
  PROVE  IsCtx(c) /\ IsSeq(t)
<1>0. PICK f, g : IsRun(s, n, f, g) /\ f[n] = c /\ g[n] = t
  BY Zenon DEF Reads
<1> DEFINE T == {k \in 0..n : IsCtx(f[k]) /\ IsSeq(g[k])}
<1>1. 0 \in T
  <2>1. f[0] = rdb_init /\ g[0] = <<>> /\ 0 \in 0..n
    BY <1>0 DEF IsRun
  <2>2. IsSeq(<<>>)
    BY EmptySeq DEF IsSeq
  <2> QED
    BY <2>1, <2>2, InitCtx
<1>2. ASSUME NEW k \in 0..(n - 1), k \in T PROVE k + 1 \in T
  <2> DEFINE res == rdb_next(f[k], s[k + 1])
  <2>1. k + 1 \in 1..n /\ k + 1 \in 0..n /\ (k + 1) - 1 = k
    OBVIOUS
  <2>2. Fed(s, k + 1, f, g)
    BY <1>0, <2>1, Zenon DEF IsRun
  <2>3. res.r = "ok" /\ f[k + 1] = res.c /\ g[k + 1] = g[k] \o Token(f[k + 1])
    BY <2>1, <2>2, Zenon DEF Fed
  <2>4. Fine(f[k], s[k + 1], res)
    BY <1>2, StepKinds
  <2>5. IsSeq(Token(f[k + 1]))
    BY TokenSeq
  <2> HIDE DEF res
  <2>6. IsCtx(f[k + 1])
    BY <2>3, <2>4 DEF Fine
  <2>7. IsSeq(g[k + 1])
    BY <1>2, <2>3, <2>5, Concat
  <2> QED
    BY <2>1, <2>6, <2>7
<1> HIDE DEF T
<1>3. \A k \in 0..n : k \in T
  BY <1>1, <1>2, UpTo, Zenon
<1>4. n \in 0..n
  OBVIOUS
<1> QED
  BY <1>0, <1>3, <1>4 DEF T

(* rdb_next is a function: two readings of one text agree, and the longer  *)
(* one has reported what the shorter one has.                              *)
Agree(s, n, c, t, m, d, u) ==
  /\ m = n => d = c /\ u = t
  /\ m < n => rdb_next(d, s[m + 1]).r = "ok"
  /\ Prefix(u, t)

(* Two readings of one text agree.                                         *)
LEMMA ReadsOnce ==
  ASSUME NEW s, NEW n \in Nat, NEW c, NEW t, Reads(s, n, c, t),
         NEW m \in 0..n, NEW d, NEW u, Reads(s, m, d, u)
  PROVE  Agree(s, n, c, t, m, d, u)
<1>1. PICK f, g : IsRun(s, n, f, g) /\ f[n] = c /\ g[n] = t
  BY Zenon DEF Reads
<1>2. PICK p, q : IsRun(s, m, p, q) /\ p[m] = d /\ q[m] = u
  BY Zenon DEF Reads
<1>3. \A k \in 0..m : f[k] = p[k] /\ g[k] = q[k]
  <2> DEFINE T == {k \in 0..m : f[k] = p[k] /\ g[k] = q[k]}
  <2>1. 0 \in T
    <3>1. 0 \in 0..m
      OBVIOUS
    <3> QED
      BY <1>1, <1>2, <3>1, Zenon DEF IsRun
  <2>2. ASSUME NEW k \in 0..(m - 1), k \in T PROVE k + 1 \in T
    <3>1. k + 1 \in 1..m /\ k + 1 \in 1..n /\ k + 1 \in 0..m /\ (k + 1) - 1 = k
      OBVIOUS
    <3>2. Fed(s, k + 1, f, g) /\ Fed(s, k + 1, p, q)
      BY <1>1, <1>2, <3>1, Zenon DEF IsRun
    <3>3. f[k] = p[k] /\ g[k] = q[k]
      BY <2>2
    <3>4. f[k + 1] = p[k + 1] /\ g[k + 1] = q[k + 1]
      BY <3>1, <3>2, <3>3, Zenon DEF Fed
    <3> QED
      BY <3>1, <3>4
  <2> HIDE DEF T
  <2>3. m \in Nat
    OBVIOUS
  <2>4. \A k \in 0..m : k \in T
    BY <2>1, <2>2, <2>3, UpTo, Zenon
  <2> QED
    BY <2>4 DEF T
<1>4. m \in 0..m /\ f[m] = d /\ g[m] = u
  BY <1>2, <1>3
<1>5. m = n => d = c /\ u = t
  BY <1>1, <1>4
<1>6. m < n => rdb_next(d, s[m + 1]).r = "ok"
  <2> SUFFICES ASSUME m < n PROVE rdb_next(d, s[m + 1]).r = "ok"
    OBVIOUS
  <2>1. m + 1 \in 1..n /\ (m + 1) - 1 = m
    OBVIOUS
  <2>2. Fed(s, m + 1, f, g)
    BY <1>1, <2>1, Zenon DEF IsRun
  <2> QED
    BY <1>4, <2>1, <2>2, Zenon DEF Fed
<1>7. Prefix(u, t)
  <2> DEFINE T == {k \in 0..(n - m) : Prefix(u, g[m + k])}
  <2>0. n - m \in Nat /\ IsSeq(u)
    BY ReadsTyped
  <2>1. 0 \in T
    <3>1. m + 0 = m /\ g[m] = u
      BY <1>4
    <3>2. Len(u) \in Nat
      BY <2>0 DEF IsSeq
    <3>3. Prefix(u, u)
      BY <2>0, <3>2 DEF Prefix
    <3> QED
      BY <3>1, <3>3
  <2>2. ASSUME NEW k \in 0..((n - m) - 1), k \in T PROVE k + 1 \in T
    <3> DEFINE j == m + (k + 1)
    <3>1. j \in 1..n /\ j - 1 = m + k /\ k + 1 \in 0..(n - m)
      OBVIOUS
    <3>2. Fed(s, j, f, g)
      BY <1>1, <3>1, Zenon DEF IsRun
    <3>3. g[j] = g[m + k] \o Token(f[j])
      BY <3>1, <3>2, Zenon DEF Fed
    <3>4. IsSeq(Token(f[j])) /\ Prefix(u, g[m + k])
      BY <2>2, TokenSeq
    <3> HIDE DEF j
    <3>5. Prefix(u, g[j])
      BY <3>3, <3>4, PrefixGrows
    <3> QED
      BY <3>1, <3>5 DEF j
  <2> HIDE DEF T
  <2>3. \A k \in 0..(n - m) : k \in T
    BY <2>0, <2>1, <2>2, UpTo, Zenon
  <2>4. n - m \in 0..(n - m) /\ m + (n - m) = n /\ g[n] = t
    BY <1>1, <2>0
  <2> QED
    BY <2>3, <2>4 DEF T
<1> QED
  BY <1>5, <1>6, <1>7, Zenon DEF Agree

(* A character that reports nothing                                        *)
LEMMA Goes ==
  ASSUME NEW s, NEW n \in Nat, NEW c, NEW t, Reads(s, n, c, t), Quiet(rdb_next(c, s[n + 1]))
  PROVE  Reads(s, n + 1, rdb_next(c, s[n + 1]).c, t)
<1> USE ZenonT(40)
<1> DEFINE d == rdb_next(c, s[n + 1]).c
<1>1. Reads(s, n + 1, d, t \o Token(d))
  BY ReadsNext DEF Quiet
<1>2. Token(d) = <<>>
  BY TokenSeq DEF Quiet
<1>3. t \o <<>> = t
  <2>1. PICK S : t \in Seq(S)
    BY ReadsTyped, SMT DEF IsSeq
  <2> QED
    BY <2>1, EmptySeq, ConcatEmptySeq
<1> HIDE DEF d
<1> QED
  BY <1>1, <1>2, <1>3 DEF d

(* The reader has reported t and refuses the next character.               *)
Stuck(s, t) == \E n \in Nat : \E c : n + 1 <= Len(s) /\ Reads(s, n, c, t) /\ rdb_next(c, s[n + 1]).r = "syntax"

Escaped(kind, ch) == IF kind = "str" THEN str_escape_(ch) ELSE long_str_escape_(ch)

(* The characters that are never written as they are, and the ones that    *)
(* are written behind a backslash                                          *)
Special(kind) ==
  {"CTL", "U8", "\r", "\\"} \cup IF kind = "str" THEN {"\n", "\""} ELSE {">"}

Escapes(kind) == IF kind = "str" THEN {"\"", "n", "r"} ELSE {"<", ">", "r"}

(* What wdb.c writes for a character is the character itself, or an escape *)
(* that rdb.c turns back into it.                                          *)
LEMMA EscapedIs ==
  ASSUME NEW kind \in StrStates, NEW ch, ch \notin {"\\", "CTL", "U8"}
  PROVE  \/ Escaped(kind, ch) = <<ch>> /\ ch \notin Special(kind)
         \/ \E e \in Escapes(kind) : Escaped(kind, ch) = <<"\\", e>> /\ escape_ch_(e) = ch
<1>1. escape_ch_("\"") = "\"" /\ escape_ch_("n") = "\n" /\ escape_ch_("r") = "\r" /\ escape_ch_("<") = "<" /\ escape_ch_(">") = ">"
  BY DEF escape_ch_
<1>2. CASE kind = "str"
  <2>1. Escaped(kind, ch) = str_escape_(ch) /\ Escapes(kind) = {"\"", "n", "r"} /\ Special(kind) = {"CTL", "U8", "\r", "\\", "\n", "\""}
    BY <1>2 DEF Escaped, Escapes, Special
  <2>2. CASE ch = "\""
    <3>1. str_escape_(ch) = <<"\\", "\"">>
      BY <2>2 DEF str_escape_
    <3> QED
      BY <1>1, <2>1, <2>2, <3>1
  <2>3. CASE ch = "\n"
    <3>1. str_escape_(ch) = <<"\\", "n">>
      BY <2>3 DEF str_escape_
    <3> QED
      BY <1>1, <2>1, <2>3, <3>1
  <2>4. CASE ch = "\r"
    <3>1. str_escape_(ch) = <<"\\", "r">>
      BY <2>4 DEF str_escape_
    <3> QED
      BY <1>1, <2>1, <2>4, <3>1
  <2>5. CASE ch \notin {"\"", "\n", "\r"}
    <3>1. str_escape_(ch) = <<ch>>
      BY <2>5 DEF str_escape_
    <3> QED
      BY <2>1, <2>5, <3>1
  <2> QED
    BY <2>2, <2>3, <2>4, <2>5
<1>3. CASE kind = "long_str"
  <2>1. Escaped(kind, ch) = long_str_escape_(ch) /\ Escapes(kind) = {"<", ">", "r"} /\ Special(kind) = {"CTL", "U8", "\r", "\\", ">"}
    BY <1>3 DEF Escaped, Escapes, Special
  <2>2. CASE ch \in {"<", ">"}
    <3>1. long_str_escape_(ch) = <<"\\", ch>>
      BY <2>2 DEF long_str_escape_
    <3> QED
      BY <1>1, <2>1, <2>2, <3>1
  <2>3. CASE ch = "\r"
    <3>1. long_str_escape_(ch) = <<"\\", "r">>
      BY <2>3 DEF long_str_escape_
    <3> QED
      BY <1>1, <2>1, <2>3, <3>1
  <2>4. CASE ch \notin {"<", ">", "\r"}
    <3>1. long_str_escape_(ch) = <<ch>>
      BY <2>4 DEF long_str_escape_
    <3> QED
      BY <2>1, <2>4, <3>1
  <2> QED
    BY <2>2, <2>3, <2>4
<1> QED
  BY <1>2, <1>3 DEF StrStates

(* Both kinds of strings at once                                           *)
LEMMA TextChars ==
  ASSUME NEW kind \in StrStates, NEW c, IsCtx(c), NEW v
  PROVE  /\ InText(kind, c, v, FALSE) =>
              /\ rdb_next(c, "NUL").r = "syntax"
              /\ Quiet(rdb_next(c, "\\")) /\ InText(kind, rdb_next(c, "\\").c, v, TRUE)
              /\ \A ch : ch \notin Special(kind) \cup {"NUL"} => PutOrFull(kind, rdb_next(c, ch), v, ch)
         /\ InText(kind, c, v, TRUE) => \A e \in Escapes(kind) : PutOrFull(kind, rdb_next(c, e), v, escape_ch_(e))
<1> USE ZenonT(40)
<1>1. CASE kind = "str"
  <2>1. Escapes(kind) = {"\"", "n", "r"} /\ Special(kind) = {"CTL", "U8", "\r", "\\", "\n", "\""}
    BY <1>1, SMT DEF Escapes, Special
  <2>2. ASSUME InText(kind, c, v, FALSE), NEW ch, ch \notin Special(kind) \cup {"NUL"} PROVE PutOrFull(kind, rdb_next(c, ch), v, ch)
    <3>1. ch \notin {"NUL", "CTL", "U8", "\n", "\r", "\"", "\\"}
      BY <2>1, <2>2
    <3> QED
      BY <1>1, <2>2, <3>1, StrChars
  <2> QED
    BY <1>1, <2>1, <2>2, StrChars, StrEscapes
<1>2. CASE kind = "long_str"
  <2>1. Escapes(kind) = {"<", ">", "r"} /\ Special(kind) = {"CTL", "U8", "\r", "\\", ">"}
    BY <1>2, SMT DEF Escapes, Special
  <2>2. ASSUME InText(kind, c, v, FALSE), NEW ch, ch \notin Special(kind) \cup {"NUL"} PROVE PutOrFull(kind, rdb_next(c, ch), v, ch)
    <3>1. ch \notin {"NUL", "CTL", "U8", "\r", ">", "\\"}
      BY <2>1, <2>2, SMT
    <3> QED
      BY <1>2, <2>2, <3>1, LongChars
  <2> QED
    BY <1>2, <2>1, <2>2, LongChars, LongEscapes
<1> QED
  BY <1>1, <1>2 DEF StrStates

(* What is written for one character is read as this character.            *)
LEMMA CharRead ==
  ASSUME NEW kind \in StrStates, NEW s, Len(s) \in Nat, NEW n \in Nat, NEW c, NEW t, Reads(s, n, c, t),
         NEW v, InText(kind, c, v, FALSE), NEW ch, ch \notin {"\\", "CTL", "U8"}, Segment(s, n, Escaped(kind, ch))
  PROVE  \/ \E d : Reads(s, n + Len(Escaped(kind, ch)), d, t) /\ InText(kind, d, Append(v, ch), FALSE)
         \/ Stuck(s, t) /\ (~(Len(v) < str_mlen) \/ ch = "NUL")
<1> USE ZenonT(40)
<1>0. IsCtx(c)
  BY ReadsTyped, SMT
<1>1. ASSUME NEW m \in Nat, NEW x, NEW y, Reads(s, m, x, t), m + 1 <= Len(s), s[m + 1] = y, rdb_next(x, y).r = "syntax"
      PROVE  Stuck(s, t)
  BY <1>1 DEF Stuck
<1>2. CASE Escaped(kind, ch) = <<ch>> /\ ch \notin Special(kind)
  <2>1. n + 1 <= Len(s) /\ s[n + 1] = ch /\ Len(Escaped(kind, ch)) = 1
    BY <1>2, OneChar
  <2> DEFINE res == rdb_next(c, ch)
  <2>2. CASE ch = "NUL" \/ ~(Len(v) < str_mlen)
    <3>1. ch = "NUL" \/ ch \notin Special(kind) \cup {"NUL"}
      BY <1>2, SMT
    <3>2. res.r = "syntax"
      BY <1>0, <2>2, <3>1, TextChars DEF PutOrFull
    <3>3. Stuck(s, t)
      BY <1>1, <2>1, <3>2
    <3> QED
      BY <2>2, <3>3
  <2>3. CASE ch # "NUL" /\ Len(v) < str_mlen
    <3>1. ch \notin Special(kind) \cup {"NUL"}
      BY <1>2, <2>3, SMT
    <3>2. Quiet(res) /\ InText(kind, res.c, Append(v, ch), FALSE)
      BY <1>0, <2>3, <3>1, TextChars DEF PutOrFull
    <3>3. Reads(s, n + 1, res.c, t)
      BY <2>1, <3>2, Goes
    <3> QED
      BY <2>1, <3>2, <3>3
  <2> QED
    BY <2>2, <2>3
<1>3. ASSUME NEW e \in Escapes(kind), Escaped(kind, ch) = <<"\\", e>>, escape_ch_(e) = ch
      PROVE  \/ \E d : Reads(s, n + Len(Escaped(kind, ch)), d, t) /\ InText(kind, d, Append(v, ch), FALSE)
             \/ Stuck(s, t) /\ (~(Len(v) < str_mlen) \/ ch = "NUL")
  <2>1. n + 2 <= Len(s) /\ s[n + 1] = "\\" /\ s[n + 2] = e /\ Len(Escaped(kind, ch)) = 2
    <3>1. Segment(s, n, <<"\\", e>>) /\ Len(Escaped(kind, ch)) = Len(<<"\\", e>>)
      BY <1>3
    <3> QED
      BY <3>1, TwoChars, SMT
  <2> DEFINE x == rdb_next(c, "\\").c
             res == rdb_next(x, e)
  <2>2. Quiet(rdb_next(c, "\\")) /\ InText(kind, x, v, TRUE)
    BY <1>0, TextChars
  <2>3. Reads(s, n + 1, x, t)
    BY <2>1, <2>2, Goes
  <2> HIDE DEF x
  <2>4. n + 1 \in Nat /\ (n + 1) + 1 = n + 2 /\ (n + 1) + 1 <= Len(s)
    BY <2>1, SMT
  <2>5. IsCtx(x)
    BY <2>3, <2>4, ReadsTyped
  <2>6. PutOrFull(kind, res, v, ch)
    BY <1>3, <2>2, <2>5, TextChars
  <2>7. CASE ~(Len(v) < str_mlen)
    <3>1. res.r = "syntax"
      BY <2>6, <2>7 DEF PutOrFull
    <3>2. Stuck(s, t)
      BY <1>1, <2>1, <2>3, <2>4, <3>1
    <3> QED
      BY <2>7, <3>2
  <2>8. CASE Len(v) < str_mlen
    <3>1. Quiet(res) /\ InText(kind, res.c, Append(v, ch), FALSE)
      BY <2>6, <2>8 DEF PutOrFull
    <3>2. Reads(s, n + 2, res.c, t)
      BY <2>1, <2>3, <2>4, <3>1, Goes
    <3> QED
      BY <2>1, <3>1, <3>2
  <2> QED
    BY <2>7, <2>8
<1> QED
  BY <1>2, <1>3, EscapedIs

(* It is a sequence.                                                       *)
LEMMA EscapedSeq ==
  ASSUME NEW kind \in StrStates, NEW ch, ch \notin {"\\", "CTL", "U8"}
  PROVE  IsSeq(Escaped(kind, ch)) /\ Len(Escaped(kind, ch)) \in Nat
<1> USE ZenonT(40)
<1>1. \A e : <<e>> \in Seq({e}) /\ <<"\\", e>> \in Seq({"\\", e}) /\ Len(<<e>>) \in Nat /\ Len(<<"\\", e>>) \in Nat
  BY SMT
<1>2. \A e : IsSeq(<<e>>) /\ IsSeq(<<"\\", e>>)
  BY <1>1 DEF IsSeq
<1>3. Escaped(kind, ch) = <<ch>> \/ \E e : Escaped(kind, ch) = <<"\\", e>>
  BY EscapedIs
<1> QED
  BY <1>1, <1>2, <1>3

-----------------------------------------------------------------------------
(***************************************************************************)
(* What the text of a value is read as: the value, or, when the reader has *)
(* no room for it, a refusal.                                              *)
(***************************************************************************)
Free(c) == c.st = "idle" /\ c.got_key = TRUE /\ c.expect_colon = FALSE

Outcome(s, n, t, x) ==
  \/ \E d : Reads(s, n, d, Append(t, x)) /\ Free(d)
  \/ \E d : Reads(s, n, d, t) /\ PlainOk(d) /\ Pending(d) = x
  \/ Stuck(s, t) /\ Unreadable(x)

ReadAs(txt, x) ==
  \A s, c, t : \A p \in Nat :
    Len(s) \in Nat /\ Reads(s, p, c, t) /\ Ready(c) /\ Segment(s, p, txt) => Outcome(s, p + Len(txt), t, x)

(* The characters between the quotes                                       *)
LEMMA TextRead ==
  ASSUME NEW kind \in StrStates, NEW s, Len(s) \in Nat, NEW p \in Nat, NEW c, NEW t, Reads(s, p, c, t),
         InText(kind, c, <<>>, FALSE), NEW v, IsSeq(v), \A k \in 1..Len(v) : v[k] \notin {"\\", "CTL", "U8"},
         NEW texts, Len(texts) = Len(v), \A k \in 1..Len(v) : texts[k] = Escaped(kind, v[k]),
         Segment(s, p, Joined(texts))
  PROVE  \/ \E d : Reads(s, p + Len(Joined(texts)), d, t) /\ InText(kind, d, v, FALSE)
         \/ Stuck(s, t) /\ (Len(v) >= str_mlen \/ "NUL" \in Chars(v))
<1> USE ZenonT(40)
<1> DEFINE N == Len(v)
           Bad == Stuck(s, t) /\ (Len(v) >= str_mlen \/ "NUL" \in Chars(v))
<1>0. N \in Nat
  BY SMT DEF IsSeq
<1>1. PICK at : /\ at[0] = 0 /\ at[N] = Len(Joined(texts))
                /\ \A k \in 0..N : at[k] \in Nat
                /\ \A k \in 1..N : at[k] = at[k - 1] + Len(texts[k]) /\ Segment(s, p + at[k - 1], texts[k])
  <2>1. \A k \in 1..N : IsSeq(texts[k])
    BY EscapedSeq
  <2> HIDE DEF N
  <2> QED
    BY <1>0, <2>1, JoinedAt DEF N
<1> DEFINE T == {k \in 0..N : Bad \/ \E d : Reads(s, p + at[k], d, t) /\ InText(kind, d, Upto(v, k), FALSE)}
<1>2. 0 \in T
  <2>1. p + at[0] = p /\ 0 \in 0..N
    BY <1>0, <1>1, SMT
  <2>2. Upto(v, 0) = <<>>
    BY UptoGrows
  <2> HIDE DEF N, Bad
  <2>3. Reads(s, p + at[0], c, t) /\ InText(kind, c, Upto(v, 0), FALSE)
    BY <2>1, <2>2
  <2> QED
    BY <2>1, <2>3
<1>3. ASSUME NEW k \in 0..(N - 1), k \in T PROVE k + 1 \in T
  <2>1. k + 1 \in 1..N /\ k + 1 \in 0..N /\ k \in 0..N /\ (k + 1) - 1 = k /\ k < N
    BY <1>0, <1>3, SMT
  <2>2. CASE Bad
    <3> HIDE DEF Bad, N
    <3> QED
      BY <2>1, <2>2
  <2>3. CASE ~Bad
    <3> DEFINE ch == v[k + 1]
               n == p + at[k]
               u == Upto(v, k)
    <3>1. PICK d : Reads(s, n, d, t) /\ InText(kind, d, u, FALSE)
      <4> HIDE DEF Bad, N
      <4> QED
        BY <1>3, <2>3
    <3>2. texts[k + 1] = Escaped(kind, ch) /\ Segment(s, n, texts[k + 1]) /\ at[k + 1] = at[k] + Len(texts[k + 1]) /\ at[k] \in Nat
      BY <1>1, <2>1
    <3>3. ch \notin {"\\", "CTL", "U8"}
      BY <2>1
    <3>4. Len(u) = k /\ Upto(v, k + 1) = Append(u, ch)
      BY <2>1, UptoGrows
    <3>5. Len(Escaped(kind, ch)) \in Nat
      BY <3>3, EscapedSeq
    <3>6. n \in Nat /\ n + Len(Escaped(kind, ch)) = p + at[k + 1]
      BY <3>2, <3>5, SMT
    <3>7. Segment(s, n, Escaped(kind, ch))
      BY <3>2
    <3> HIDE DEF n, u
    <3>8. \/ \E e : Reads(s, n + Len(Escaped(kind, ch)), e, t) /\ InText(kind, e, Append(u, ch), FALSE)
          \/ Stuck(s, t) /\ (~(Len(u) < str_mlen) \/ ch = "NUL")
      <4> HIDE DEF ch
      <4> QED
        BY <3>1, <3>3, <3>6, <3>7, CharRead
    <3>9. ~(Len(u) < str_mlen) => Len(v) >= str_mlen
      BY <1>0, <2>1, <3>4, StrMlenAssumption, SMT
    <3>10. ch = "NUL" => "NUL" \in Chars(v)
      <4>1. k + 1 \in DOMAIN v
        <5>1. PICK S : v \in Seq(S)
          BY SMT DEF IsSeq
        <5> QED
          BY <2>1, <5>1, SMT
      <4> QED
        BY <4>1 DEF Chars
    <3>11. Bad \/ \E e : Reads(s, n + Len(Escaped(kind, ch)), e, t) /\ InText(kind, e, Append(u, ch), FALSE)
      BY <3>8, <3>9, <3>10
    <3> HIDE DEF Bad, N
    <3>12. Bad \/ \E e : Reads(s, p + at[k + 1], e, t) /\ InText(kind, e, Upto(v, k + 1), FALSE)
      BY <3>4, <3>6, <3>11
    <3> QED
      BY <2>1, <3>12
  <2> QED
    BY <2>2, <2>3
<1>4. N \in T
  <2>1. N \in 0..N
    BY <1>0, SMT
  <2> HIDE DEF T, N
  <2> QED
    BY <1>0, <1>2, <1>3, <2>1, UpTo
<1>5. Bad \/ \E d : Reads(s, p + at[N], d, t) /\ InText(kind, d, Upto(v, N), FALSE)
  <2> HIDE DEF Bad, N
  <2> QED
    BY <1>4
<1>6. Upto(v, N) = v
  BY UptoGrows
<1> QED
  BY <1>1, <1>5, <1>6

(* A character that completes a value                                      *)
LEMMA Tells ==
  ASSUME NEW s, NEW n \in Nat, NEW c, NEW t, Reads(s, n, c, t), NEW x,
         rdb_next(c, s[n + 1]).r = "ok", Token(rdb_next(c, s[n + 1]).c) = <<x>>
  PROVE  Reads(s, n + 1, rdb_next(c, s[n + 1]).c, Append(t, x))
<1> DEFINE d == rdb_next(c, s[n + 1]).c
<1>1. Reads(s, n + 1, d, t \o Token(d))
  BY ReadsNext, Zenon
<1>2. t \o <<x>> = Append(t, x)
  <2>1. PICK S : t \in Seq(S)
    BY ReadsTyped DEF IsSeq
  <2>2. t \in Seq(S \cup {x}) /\ x \in S \cup {x}
    BY <2>1
  <2> QED
    BY <2>2
<1> HIDE DEF d
<1> QED
  BY <1>1, <1>2, Zenon DEF d

(* The texts of the characters of a string                                 *)
LEMMA EscapedTexts ==
  ASSUME NEW kind \in StrStates, NEW v \in Seq(STRING), Printable(v), "\\" \notin Chars(v)
  PROVE  LET texts == [k \in DOMAIN v |-> Escaped(kind, v[k])] IN
         /\ Len(texts) = Len(v) /\ \A k \in 1..Len(v) : texts[k] = Escaped(kind, v[k])
         /\ \A k \in 1..Len(v) : v[k] \notin {"\\", "CTL", "U8"}
         /\ IsSeq(Joined(texts)) /\ IsSeq(v)
<1> USE ZenonT(40)
<1> DEFINE texts == [k \in DOMAIN v |-> Escaped(kind, v[k])]
           N == Len(v)
<1>1. DOMAIN v = 1..N /\ N \in Nat /\ IsSeq(v)
  BY SMT DEF IsSeq
<1>2. Len(texts) = N /\ \A k \in 1..N : texts[k] = Escaped(kind, v[k])
  <2>1. \A k \in 1..N : texts[k] = Escaped(kind, v[k])
    BY <1>1
  <2>2. texts = [k \in 1..N |-> Escaped(kind, v[k])]
    BY <1>1
  <2> HIDE DEF N
  <2>3. Len(texts) = N
    BY <1>1, <2>2, SMT
  <2> QED
    BY <2>1, <2>3 DEF N
<1>3. \A k \in 1..N : v[k] \notin {"\\", "CTL", "U8"}
  <2>1. \A k \in 1..N : v[k] \in Chars(v)
    BY <1>1 DEF Chars
  <2> QED
    BY <2>1, SMT DEF Printable
<1>4. \A k \in 1..N : IsSeq(texts[k])
  BY <1>2, <1>3, EscapedSeq
<1> HIDE DEF texts, N
<1>5. PICK f : IsJoin(f, texts, N)
  BY <1>1, <1>2, <1>4, JoinedIs
<1>6. IsSeq(Joined(texts))
  <2>1. N \in 0..N
    BY <1>1, SMT
  <2> QED
    BY <1>5, <2>1 DEF IsJoin
<1> QED
  BY <1>1, <1>2, <1>3, <1>6 DEF texts, N

(* wdb_str                                                                 *)
LEMMA StrRead ==
  ASSUME NEW v \in Seq(STRING), Printable(v), "\\" \notin Chars(v)
  PROVE  ReadAs(<<"\"">> \o Joined([k \in DOMAIN v |-> str_escape_(v[k])]) \o <<"\"">>, <<"str", v>>)
<1> USE ZenonT(40)
<1> DEFINE texts == [k \in DOMAIN v |-> Escaped("str", v[k])]
           body == Joined(texts)
           x == <<"str", v>>
           txt == <<"\"">> \o body \o <<"\"">>
<1>1. texts = [k \in DOMAIN v |-> str_escape_(v[k])]
  BY DEF Escaped
<1>2. "str" \in StrStates
  BY SMT DEF StrStates
<1>3. /\ Len(texts) = Len(v) /\ \A k \in 1..Len(v) : texts[k] = Escaped("str", v[k])
      /\ \A k \in 1..Len(v) : v[k] \notin {"\\", "CTL", "U8"}
      /\ IsSeq(body) /\ IsSeq(v)
  BY <1>2, EscapedTexts
<1>4. x[1] = "str" /\ x[2] = v
  BY SMT
<1> HIDE DEF texts, x
<1>5. ASSUME NEW s, NEW c, NEW t, NEW p \in Nat, Len(s) \in Nat, Reads(s, p, c, t), Ready(c), Segment(s, p, txt)
      PROVE  Outcome(s, p + Len(txt), t, x)
  <2> DEFINE q == <<"\"">>
             m == p + 1
             n == m + Len(body)
             e == rdb_next(c, "\"").c
  <2>0. Len(s) \in Nat
    BY <1>5
  <2>1. IsSeq(q) /\ Len(q) = 1
    BY OneChar
  <2> HIDE DEF q, body
  <2>2. Segment(s, p, (q \o body) \o q)
    BY <1>5 DEF q
  <2>3. /\ Segment(s, p, q) /\ Segment(s, p + Len(q), body) /\ Segment(s, (p + Len(q)) + Len(body), q)
        /\ Len(body) \in Nat /\ p + Len((q \o body) \o q) = ((p + Len(q)) + Len(body)) + Len(q)
    <3>1. IsSeq(body)
      BY <1>3 DEF body
    <3>2. InRow(s, p, q, body, q)
      BY <2>0, <2>1, <2>2, <3>1, RowRead
    <3> QED
      BY <3>2 DEF InRow
  <2>4. Segment(s, p, q) /\ Segment(s, m, body) /\ Segment(s, n, q) /\ p + Len((q \o body) \o q) = n + 1
    BY <2>1, <2>3
  <2>5. m \in Nat /\ n \in Nat /\ p + Len(txt) = n + 1
    <3>1. m \in Nat /\ n \in Nat
      BY <2>3, SMT
    <3> QED
      BY <2>4, <3>1 DEF q
  <2> HIDE DEF m, n
  <2>6. s[p + 1] = "\"" /\ n + 1 <= Len(s) /\ s[n + 1] = "\""
    <3>1. Segment(s, p, <<"\"">>) /\ Segment(s, n, <<"\"">>)
      BY <2>4 DEF q
    <3> QED
      BY <3>1, OneChar
  <2>7. IsCtx(c)
    BY <1>5, ReadsTyped
  <2>8. Quiet(rdb_next(c, "\"")) /\ InText("str", e, <<>>, FALSE)
    <3>1. rdb_next(c, "\"") = Ret(Enter(Fresh(c), "str"))
      BY <1>5, <2>7, ReadyChars
    <3>2. e = Enter(Fresh(c), "str")
      BY <3>1, Results
    <3>4. rdb_next(c, "\"").r = "ok"
      BY <3>1, Results
    <3>3. e.ty = "incomplete" /\ e.st = "str" /\ e.str = <<>> /\ e.is_escape = FALSE
      <4>1. Entered(e, "str")
        BY <2>7, <3>2, EnterIs
      <4> HIDE DEF e
      <4> QED
        BY <4>1 DEF Entered
    <3> QED
      BY <3>3, <3>4 DEF Quiet, InText
  <2>9. Reads(s, m, e, t)
    BY <1>5, <2>6, <2>8, Goes DEF m
  <2> HIDE DEF e
  <2>10. \/ \E d : Reads(s, n, d, t) /\ InText("str", d, v, FALSE)
         \/ Stuck(s, t) /\ (Len(v) >= str_mlen \/ "NUL" \in Chars(v))
    BY <1>2, <1>3, <1>5, <2>4, <2>5, <2>8, <2>9, TextRead DEF n, body
  <2>11. CASE Stuck(s, t) /\ (Len(v) >= str_mlen \/ "NUL" \in Chars(v))
    <3>1. Unreadable(x)
      BY <1>4, <2>11, SMT DEF Unreadable
    <3> QED
      BY <2>11, <3>1 DEF Outcome
  <2>12. ASSUME NEW d, Reads(s, n, d, t), InText("str", d, v, FALSE) PROVE Outcome(s, n + 1, t, x)
    <3> DEFINE res == rdb_next(d, s[n + 1])
    <3>1. IsCtx(d)
      BY <2>5, <2>12, ReadsTyped
    <3>2. StrDone(res, v)
      BY <2>6, <2>12, <3>1, StrChars
    <3>3. CASE Len(v) < str_mlen
      <4>1. res.r = "ok" /\ Token(res.c) = <<x>> /\ Free(res.c)
        BY <3>2, <3>3 DEF StrDone, Free, x
      <4>2. Reads(s, n + 1, res.c, Append(t, x))
        BY <2>5, <2>12, <4>1, Tells
      <4> HIDE DEF res
      <4> QED
        BY <4>1, <4>2 DEF Outcome
    <3>4. CASE ~(Len(v) < str_mlen)
      <4>1. res.r = "syntax"
        BY <3>2, <3>4 DEF StrDone
      <4>2. Stuck(s, t)
        BY <2>5, <2>6, <2>12, <4>1 DEF Stuck
      <4>3. Len(v) >= str_mlen
        BY <3>4, StrMlenAssumption, SMT
      <4>4. Unreadable(x)
        BY <1>4, <4>3 DEF Unreadable
      <4> QED
        BY <4>2, <4>4 DEF Outcome
    <3> QED
      BY <3>3, <3>4
  <2> QED
    BY <2>5, <2>10, <2>11, <2>12
<1> HIDE DEF txt
<1>6. ReadAs(txt, x)
  BY <1>5 DEF ReadAs
<1> QED
  BY <1>1, <1>6 DEF txt, x

(* wdb_long_str                                                            *)
LEMMA LongRead ==
  ASSUME NEW v \in Seq(STRING), Printable(v), "\\" \notin Chars(v)
  PROVE  ReadAs(<<"<", "\n">> \o Joined([k \in DOMAIN v |-> long_str_escape_(v[k])]) \o <<"\n", ">">>, <<"str", v>>)
<1> USE ZenonT(40)
<1> DEFINE texts == [k \in DOMAIN v |-> Escaped("long_str", v[k])]
           body == Joined(texts)
           x == <<"str", v>>
           txt == <<"<", "\n">> \o body \o <<"\n", ">">>
<1>1. texts = [k \in DOMAIN v |-> long_str_escape_(v[k])]
  BY DEF Escaped
<1>2. "long_str" \in StrStates
  BY SMT DEF StrStates
<1>3. /\ Len(texts) = Len(v) /\ \A k \in 1..Len(v) : texts[k] = Escaped("long_str", v[k])
      /\ \A k \in 1..Len(v) : v[k] \notin {"\\", "CTL", "U8"}
      /\ IsSeq(body) /\ IsSeq(v)
  BY <1>2, EscapedTexts
<1>4. x[1] = "str" /\ x[2] = v
  BY SMT
<1> HIDE DEF texts, x
<1>5. ASSUME NEW s, NEW c, NEW t, NEW p \in Nat, Len(s) \in Nat, Reads(s, p, c, t), Ready(c), Segment(s, p, txt)
      PROVE  Outcome(s, p + Len(txt), t, x)
  <2> DEFINE a == <<"<", "\n">>
             z == <<"\n", ">">>
             m == p + 2
             n == m + Len(body)
             e == rdb_next(c, "<").c
             f == rdb_next(e, "\n").c
  <2>0. Len(s) \in Nat
    BY <1>5
  <2>1. IsSeq(a) /\ Len(a) = 2 /\ IsSeq(z) /\ Len(z) = 2
    BY <2>0, TwoChars
  <2> HIDE DEF a, z, body
  <2>2. Segment(s, p, (a \o body) \o z)
    BY <1>5 DEF a, z
  <2>3. /\ Segment(s, p, a) /\ Segment(s, p + Len(a), body) /\ Segment(s, (p + Len(a)) + Len(body), z)
        /\ Len(body) \in Nat /\ p + Len((a \o body) \o z) = ((p + Len(a)) + Len(body)) + Len(z)
    <3>1. IsSeq(body)
      BY <1>3 DEF body
    <3>2. InRow(s, p, a, body, z)
      BY <2>0, <2>1, <2>2, <3>1, RowRead
    <3> QED
      BY <3>2 DEF InRow
  <2>4. Segment(s, p, a) /\ Segment(s, m, body) /\ Segment(s, n, z) /\ p + Len((a \o body) \o z) = n + 2
    BY <2>1, <2>3
  <2>5. m \in Nat /\ n \in Nat /\ p + Len(txt) = n + 2
    <3>1. m \in Nat /\ n \in Nat
      BY <2>3, SMT
    <3> QED
      BY <2>4, <3>1 DEF a, z
  <2>6. /\ p + 1 \in Nat /\ (p + 1) + 1 = m /\ n + 1 \in Nat /\ (n + 1) + 1 = n + 2
    BY <2>5, SMT
  <2> HIDE DEF m, n
  <2>7. s[p + 1] = "<" /\ s[(p + 1) + 1] = "\n" /\ n + 1 <= Len(s) /\ s[n + 1] = "\n" /\ (n + 1) + 1 <= Len(s) /\ s[(n + 1) + 1] = ">"
    <3>1. s[p + 1] = "<" /\ s[p + 2] = "\n"
      <4>1. Segment(s, p, <<"<", "\n">>)
        BY <2>4 DEF a
      <4> QED
        BY <2>0, <4>1, TwoChars, SMT
    <3>2. n + 2 <= Len(s) /\ s[n + 1] = "\n" /\ s[n + 2] = ">"
      <4>1. Segment(s, n, <<"\n", ">">>)
        BY <2>4 DEF z
      <4> QED
        BY <2>0, <2>5, <4>1, TwoChars, SMT
    <3>3. n + 1 <= Len(s)
      BY <2>0, <2>5, <3>2, SMT
    <3> QED
      BY <2>6, <3>1, <3>2, <3>3 DEF m
  <2>8. IsCtx(c)
    BY <1>5, ReadsTyped
  <2>9. Quiet(rdb_next(c, "<")) /\ e.st = "long_str" /\ e.str = <<>> /\ e.is_escape = FALSE /\ e.skip_whitespace = TRUE
    <3>1. rdb_next(c, "<") = Ret(Enter(Fresh(c), "long_str"))
      BY <1>5, <2>8, ReadyChars
    <3>2. e = Enter(Fresh(c), "long_str") /\ rdb_next(c, "<").r = "ok"
      BY <3>1, Results
    <3>3. Entered(e, "long_str")
      BY <2>8, <3>2, EnterIs
    <3> HIDE DEF e
    <3>4. e.ty = "incomplete" /\ e.st = "long_str" /\ e.str = <<>> /\ e.is_escape = FALSE /\ e.skip_whitespace = TRUE
      BY <3>3 DEF Entered
    <3> QED
      BY <3>2, <3>4 DEF Quiet, e
  <2>10. Reads(s, p + 1, e, t)
    BY <1>5, <2>7, <2>9, Goes
  <2> HIDE DEF e
  <2>11. IsCtx(e)
    BY <2>6, <2>10, ReadsTyped
  <2>12. Quiet(rdb_next(e, "\n")) /\ InText("long_str", f, <<>>, FALSE)
    BY <2>9, <2>11, LongStart
  <2>13. Reads(s, m, f, t)
    BY <2>6, <2>7, <2>10, <2>12, Goes
  <2> HIDE DEF f
  <2>14. \/ \E d : Reads(s, n, d, t) /\ InText("long_str", d, v, FALSE)
         \/ Stuck(s, t) /\ (Len(v) >= str_mlen \/ "NUL" \in Chars(v))
    BY <1>2, <1>3, <1>5, <2>4, <2>5, <2>12, <2>13, TextRead DEF n, body
  <2>15. CASE Stuck(s, t) /\ (Len(v) >= str_mlen \/ "NUL" \in Chars(v))
    <3>1. Unreadable(x)
      BY <1>4, <2>15, SMT DEF Unreadable
    <3> QED
      BY <2>15, <3>1 DEF Outcome
  <2>16. ASSUME NEW d, Reads(s, n, d, t), InText("long_str", d, v, FALSE) PROVE Outcome(s, n + 2, t, x)
    <3> DEFINE g == rdb_next(d, "\n").c
               res == rdb_next(g, ">")
    <3>1. IsCtx(d)
      BY <2>5, <2>16, ReadsTyped
    <3>2. PutOrFull("long_str", rdb_next(d, "\n"), v, "\n") /\ (Len(v) < str_mlen => g.keep_last_newline = FALSE)
      <4>1. "\n" \notin {"NUL", "CTL", "U8", "\r", ">", "\\"}
        BY SMT
      <4> QED
        BY <2>16, <3>1, <4>1, LongChars
    <3>3. CASE Len(v) < str_mlen
      <4>1. Quiet(rdb_next(d, "\n")) /\ InText("long_str", g, Append(v, "\n"), FALSE)
        BY <3>2, <3>3 DEF PutOrFull
      <4>2. Reads(s, n + 1, g, t)
        BY <2>5, <2>7, <2>16, <4>1, Goes
      <4>3. g.keep_last_newline = FALSE
        BY <3>2, <3>3
      <4> HIDE DEF g
      <4>4. IsCtx(g)
        BY <2>6, <4>2, ReadsTyped
      <4>5. StrDone(res, v)
        BY <1>3, <4>1, <4>3, <4>4, LongEnd
      <4>6. res.r = "ok" /\ Token(res.c) = <<x>> /\ Free(res.c)
        BY <3>3, <4>5 DEF StrDone, Free, x
      <4>7. Reads(s, n + 2, res.c, Append(t, x))
        BY <2>6, <2>7, <4>2, <4>6, Tells
      <4> HIDE DEF res
      <4> QED
        BY <4>6, <4>7 DEF Outcome
    <3>4. CASE ~(Len(v) < str_mlen)
      <4>1. rdb_next(d, "\n").r = "syntax"
        BY <3>2, <3>4 DEF PutOrFull
      <4>2. Stuck(s, t)
        BY <2>5, <2>7, <2>16, <4>1 DEF Stuck
      <4>3. Len(v) >= str_mlen
        BY <3>4, StrMlenAssumption, SMT
      <4>4. Unreadable(x)
        BY <1>4, <4>3, SMT DEF Unreadable
      <4> QED
        BY <4>2, <4>4 DEF Outcome
    <3> QED
      BY <3>3, <3>4
  <2> QED
    BY <2>5, <2>14, <2>15, <2>16
<1> HIDE DEF txt
<1>6. ReadAs(txt, x)
  BY <1>5 DEF ReadAs
<1> QED
  BY <1>1, <1>6 DEF txt, x

(* The letters of true and false are collected.                            *)
LEMMA WordRead ==
  ASSUME NEW u, IsSeq(u), Len(u) \in 1..word_size, u[1] \in {"t", "f"}, \A k \in 1..Len(u) : ~is_separator_(u[k]),
         NEW b, IsTrue(u) \/ IsFalse(u), b = IsTrue(u)
  PROVE  ReadAs(u, <<"bool", b>>)
<1> USE ZenonT(40)
<1> DEFINE N == Len(u)
           x == <<"bool", b>>
<1>0. N \in Nat /\ N - 1 \in Nat /\ 1 \in 1..N /\ N - 1 \in 0..(N - 1) /\ (N - 1) + 1 = N
  BY SMT
<1>1. ASSUME NEW s, NEW c, NEW t, NEW p \in Nat, Len(s) \in Nat, Reads(s, p, c, t), Ready(c), Segment(s, p, u)
      PROVE  Outcome(s, p + N, t, x)
  <2> DEFINE T == {k \in 0..(N - 1) : \E d : Reads(s, p + (k + 1), d, t) /\ InWord(d, Upto(u, k + 1))}
  <2>1. \A k \in 1..N : s[p + k] = u[k]
    BY <1>1 DEF Segment
  <2>2. 0 \in T
    <3> DEFINE d == rdb_next(c, u[1]).c
    <3>1. IsCtx(c)
      BY <1>1, ReadsTyped
    <3>2. Quiet(rdb_next(c, u[1])) /\ InWord(d, <<u[1]>>)
      BY <1>0, <1>1, <3>1, WordChars
    <3>3. s[p + 1] = u[1]
      BY <1>0, <2>1
    <3>4. Reads(s, p + 1, d, t)
      BY <1>1, <3>2, <3>3, Goes
    <3>5. Upto(u, 1) = <<u[1]>>
      <4>1. Upto(u, 0) = <<>> /\ Upto(u, 1) = Append(Upto(u, 1 - 1), u[1])
        BY <1>0, UptoGrows
      <4>2. 1 - 1 = 0 /\ \A y : Append(<<>>, y) = <<y>>
        BY SMT
      <4> QED
        BY <4>1, <4>2
    <3>6. 0 + 1 = 1 /\ 0 \in 0..(N - 1)
      BY <1>0, SMT
    <3> HIDE DEF N, d
    <3> QED
      BY <3>2, <3>4, <3>5, <3>6
  <2>3. ASSUME NEW k \in 0..((N - 1) - 1), k \in T PROVE k + 1 \in T
    <3> DEFINE n == p + (k + 1)
               v == Upto(u, k + 1)
               ch == u[(k + 1) + 1]
    <3>1. /\ k + 1 \in 0..(N - 1) /\ (k + 1) + 1 \in 1..N /\ n \in Nat /\ n + 1 = p + ((k + 1) + 1)
          /\ k + 1 \in 0..N /\ k + 1 < word_size /\ ((k + 1) + 1) - 1 = k + 1
      BY <1>0, <2>3, SMT DEF word_size
    <3>2. PICK d : Reads(s, n, d, t) /\ InWord(d, v)
      BY <2>3
    <3> HIDE DEF n
    <3>3. s[n + 1] = ch /\ ~is_separator_(ch)
      <4>1. s[p + ((k + 1) + 1)] = ch /\ ~is_separator_(ch)
        BY <2>1, <3>1
      <4> HIDE DEF ch
      <4> QED
        BY <3>1, <4>1
    <3>4. Len(v) = k + 1 /\ Upto(u, (k + 1) + 1) = Append(v, ch)
      BY <3>1, UptoGrows
    <3>5. Len(v) < word_size
      BY <3>1, <3>4
    <3> DEFINE e == rdb_next(d, ch).c
    <3>6. IsCtx(d)
      BY <3>1, <3>2, ReadsTyped
    <3>7. Quiet(rdb_next(d, ch)) /\ InWord(e, Append(v, ch))
      BY <3>2, <3>3, <3>5, <3>6, WordChars
    <3>8. Reads(s, n + 1, e, t)
      BY <3>1, <3>2, <3>3, <3>7, Goes
    <3> HIDE DEF e, v, ch
    <3>9. Reads(s, p + ((k + 1) + 1), e, t) /\ InWord(e, Upto(u, (k + 1) + 1))
      BY <3>1, <3>4, <3>7, <3>8
    <3> QED
      BY <3>1, <3>9
  <2>4. N - 1 \in T
    <3> HIDE DEF T, N
    <3> QED
      BY <1>0, <2>2, <2>3, UpTo
  <2>5. PICK d : Reads(s, p + N, d, t) /\ InWord(d, Upto(u, N))
    <3> HIDE DEF N
    <3> QED
      BY <1>0, <2>4
  <2>6. Upto(u, N) = u
    BY UptoGrows
  <2>7. d.st = "bool" /\ d.word = u
    BY <2>5, <2>6 DEF InWord
  <2>8. PlainOk(d)
    BY <2>7 DEF PlainOk
  <2>9. Pending(d) = x
    <3>1. Pending(d) = <<"bool", IsTrue(d.word)>>
      BY <2>7, SMT DEF Pending, rdb_cur_is_true
    <3> QED
      BY <2>7, <3>1
  <2> HIDE DEF N, x
  <2> QED
    BY <2>5, <2>8, <2>9 DEF Outcome
<1> HIDE DEF x
<1> QED
  BY <1>1 DEF ReadAs, x

(* wdb_bool                                                                *)
LEMMA BoolRead ==
  /\ ReadAs(<<"t", "r", "u", "e">>, <<"bool", TRUE>>)
  /\ ReadAs(<<"f", "a", "l", "s", "e">>, <<"bool", FALSE>>)
<1>1. ReadAs(<<"t", "r", "u", "e">>, <<"bool", TRUE>>)
  <2> DEFINE u == <<"t", "r", "u", "e">>
  <2>1. u \in Seq({"t", "r", "u", "e"}) /\ Len(u) = 4 /\ u[1] = "t" /\ u[2] = "r" /\ u[3] = "u" /\ u[4] = "e"
    OBVIOUS
  <2>2. IsTrue(u)
    BY DEF IsTrue, IsFalse, BeginsWord
  <2> HIDE DEF u
  <2>3. IsSeq(u) /\ Len(u) \in 1..word_size /\ u[1] \in {"t", "f"}
    BY <2>1 DEF IsSeq, word_size
  <2>4. \A k \in 1..Len(u) : ~is_separator_(u[k])
    <3>1. \A k \in 1..Len(u) : k = 1 \/ k = 2 \/ k = 3 \/ k = 4
      BY <2>1
    <3> QED
      BY <2>1, <3>1, Zenon DEF is_separator_
  <2>5. TRUE = IsTrue(u)
    BY <2>2, Zenon
  <2>6. ReadAs(u, <<"bool", TRUE>>)
    BY <2>2, <2>3, <2>4, <2>5, WordRead, Zenon
  <2> QED
    BY <2>6, Zenon DEF u
<1>2. ReadAs(<<"f", "a", "l", "s", "e">>, <<"bool", FALSE>>)
  <2> DEFINE u == <<"f", "a", "l", "s", "e">>
  <2>1. u \in Seq({"f", "a", "l", "s", "e"}) /\ Len(u) = 5 /\ u[1] = "f" /\ u[2] = "a" /\ u[3] = "l" /\ u[4] = "s" /\ u[5] = "e"
    OBVIOUS
  <2>2. IsFalse(u)
    BY DEF IsTrue, IsFalse, BeginsWord
  <2> HIDE DEF u
  <2>3. IsSeq(u) /\ Len(u) \in 1..word_size /\ u[1] \in {"t", "f"}
    BY <2>1 DEF IsSeq, word_size
  <2>4. \A k \in 1..Len(u) : ~is_separator_(u[k])
    <3>1. \A k \in 1..Len(u) : k = 1 \/ k = 2 \/ k = 3 \/ k = 4 \/ k = 5
      BY <2>1
    <3> QED
      BY <2>1, <3>1, Zenon DEF is_separator_
  <2>5. FALSE = IsTrue(u)
    <3>1. ~IsTrue(u)
      BY <2>1 DEF IsTrue, BeginsWord
    <3> QED
      BY <3>1, Zenon DEF IsTrue, BeginsWord
  <2>6. ReadAs(u, <<"bool", FALSE>>)
    BY <2>2, <2>3, <2>4, <2>5, WordRead, Zenon
  <2> QED
    BY <2>6, Zenon DEF u
<1> QED
  BY <1>1, <1>2, Zenon

KeyOutcome(s, n, t, x) ==
  \/ \E d : Reads(s, n, d, Append(t, x)) /\ Free(d) /\ d.got_first_val = FALSE
  \/ Stuck(s, t) /\ Unreadable(x)

(* What wdb_key writes behind the key                                      *)
KeyTail == <<":", " ">>

(* The two characters behind a key                                         *)
LEMMA KeyTailIs ==
  ASSUME NEW s, Len(s) \in Nat, NEW n \in Nat
  PROVE  /\ IsSeq(KeyTail) /\ Len(KeyTail) = 2
         /\ Segment(s, n, KeyTail) => n + 2 <= Len(s) /\ s[n + 1] = ":" /\ s[n + 2] = " "
<1> DEFINE Ends(u, x, y) ==
             IsSeq(u) /\ Len(u) = 2 /\ (Segment(s, n, u) => n + 2 <= Len(s) /\ s[n + 1] = x /\ s[n + 2] = y)
<1>1. \A x, y : Ends(<<x, y>>, x, y)
  BY TwoChars
<1> HIDE DEF Ends
<1>2. Ends(KeyTail, ":", " ")
  BY <1>1, Zenon DEF KeyTail
<1> QED
  BY <1>2, Zenon DEF Ends

(* wdb_key, behind its newline                                             *)
LEMMA KeyRead ==
  ASSUME NEW v \in Seq(STRING), Chars(v) \subseteq KeyChars,
         NEW s, NEW c, NEW t, NEW p \in Nat, Len(s) \in Nat, Reads(s, p, c, t),
         c.st = "idle", c.got_key = FALSE, c.expect_colon = FALSE, Segment(s, p, v \o KeyTail)
  PROVE  KeyOutcome(s, p + Len(v \o KeyTail), t, <<"key", v>>)
<1> USE ZenonT(40)
<1> DEFINE N == Len(v)
           x == <<"key", v>>
           n == p + N
<1>1. N \in Nat /\ DOMAIN v = 1..N /\ IsSeq(v)
  BY SMT DEF IsSeq
<1>2. IsSeq(KeyTail) /\ Len(KeyTail) = 2
  BY KeyTailIs
<1>3. x[1] = "key" /\ x[2] = v
  BY SMT
<1>4. \A k \in 1..N : v[k] \in KeyChars
  BY <1>1 DEF Chars
<1> HIDE DEF x
<1>5. Segment(s, p, v) /\ Segment(s, n, KeyTail) /\ Len(v \o KeyTail) = N + 2
  <2>1. Segment(s, p, v) /\ Segment(s, p + Len(v), KeyTail)
    BY <1>1, <1>2, Parts
  <2>2. Len(v \o KeyTail) = Len(v) + Len(KeyTail)
    BY <1>1, <1>2, Concat
  <2> QED
    BY <1>2, <2>1, <2>2
<1>6. n \in Nat /\ n + 1 \in Nat /\ p + Len(v \o KeyTail) = n + 2 /\ (n + 1) + 1 = n + 2
  BY <1>1, <1>5, SMT
<1>7. n + 1 <= Len(s) /\ s[n + 1] = ":" /\ s[n + 2] = " "
  <2> HIDE DEF n
  <2>1. n + 2 <= Len(s) /\ s[n + 1] = ":" /\ s[n + 2] = " "
    BY <1>5, <1>6, KeyTailIs
  <2>2. n + 2 <= Len(s)
    BY <2>1
  <2>3. n + 1 <= Len(s)
    BY <1>6, <2>2, SMT
  <2> QED
    BY <2>1, <2>3
<1>8. \A k \in 1..N : s[p + k] = v[k]
  BY <1>5 DEF Segment
<1>9. IsCtx(c) /\ p + N <= Len(s)
  BY <1>5, ReadsTyped DEF Segment
<1> DEFINE Bad == Stuck(s, t) /\ Unreadable(x)
<1>10. CASE N = 0
  <2>1. v = <<>> /\ n = p
    BY <1>1, <1>10, SMT
  <2>2. rdb_next(c, ":").r = "syntax"
    BY <1>9, KeyFirst
  <2>3. Unreadable(x)
    BY <1>3, <2>1 DEF Unreadable, BeginsKey
  <2>4. Stuck(s, t)
    <3> HIDE DEF n
    <3> QED
      BY <1>6, <1>7, <2>1, <2>2 DEF Stuck
  <2> QED
    BY <2>3, <2>4 DEF KeyOutcome, x
<1>11. CASE N # 0
  <2>0. N - 1 \in Nat /\ 1 \in 1..N /\ N - 1 \in 0..(N - 1) /\ (N - 1) + 1 = N /\ p + 1 <= Len(s)
    BY <1>1, <1>9, <1>11, SMT
  <2>1. v[1] \in KeyChars /\ s[p + 1] = v[1]
    BY <1>4, <1>8, <2>0
  <2> DEFINE T == {k \in 0..(N - 1) : Bad \/ \E d : Reads(s, p + (k + 1), d, t) /\ InKey(d, Upto(v, k + 1))}
  <2>2. 0 \in T
    <3>0. 0 + 1 = 1 /\ 0 \in 0..(N - 1)
      BY <2>0, SMT
    <3>1. CASE v[1] \in Letters \cup {"_"}
      <4> DEFINE d == rdb_next(c, v[1]).c
      <4>1. Quiet(rdb_next(c, v[1])) /\ InKey(d, <<v[1]>>)
        BY <1>9, <2>1, <3>1, KeyFirst
      <4>2. Reads(s, p + 1, d, t)
        BY <2>1, <4>1, Goes
      <4>3. Upto(v, 1) = <<v[1]>>
        <5>1. Upto(v, 0) = <<>> /\ Upto(v, 1) = Append(Upto(v, 1 - 1), v[1])
          BY <1>1, <2>0, UptoGrows
        <5>2. 1 - 1 = 0 /\ \A y : Append(<<>>, y) = <<y>>
          BY SMT
        <5> QED
          BY <5>1, <5>2
      <4> HIDE DEF N, d, Bad
      <4> QED
        BY <3>0, <4>1, <4>2, <4>3
    <3>2. CASE v[1] \notin Letters \cup {"_"}
      <4>1. rdb_next(c, v[1]).r = "syntax"
        BY <1>9, <2>1, <3>2, KeyFirst
      <4>2. Stuck(s, t)
        BY <2>0, <2>1, <4>1 DEF Stuck
      <4>3. Unreadable(x)
        BY <1>3, <3>2 DEF Unreadable, BeginsKey
      <4>4. Bad
        BY <4>2, <4>3
      <4> HIDE DEF N, Bad
      <4> QED
        BY <3>0, <4>4
    <3> QED
      BY <3>1, <3>2
  <2>3. ASSUME NEW k \in 0..((N - 1) - 1), k \in T PROVE k + 1 \in T
    <3> DEFINE m == p + (k + 1)
               u == Upto(v, k + 1)
               ch == v[(k + 1) + 1]
    <3>1. /\ k + 1 \in 0..(N - 1) /\ (k + 1) + 1 \in 1..N /\ m \in Nat /\ m + 1 = p + ((k + 1) + 1)
          /\ k + 1 \in 0..N /\ ((k + 1) + 1) - 1 = k + 1 /\ k + 1 < N /\ m + 1 <= Len(s)
      BY <1>1, <1>9, <2>3, SMT
    <3>2. CASE Bad
      <4> HIDE DEF Bad, N
      <4> QED
        BY <3>1, <3>2
    <3>3. CASE ~Bad
      <4>1. PICK d : Reads(s, m, d, t) /\ InKey(d, u)
        <5> HIDE DEF Bad, N
        <5> QED
          BY <2>3, <3>3
      <4>2. s[m + 1] = ch /\ ch \in KeyChars
        <5>1. s[p + ((k + 1) + 1)] = ch /\ ch \in KeyChars
          BY <1>4, <1>8, <3>1
        <5> HIDE DEF ch, m
        <5> QED
          BY <3>1, <5>1
      <4>3. Len(u) = k + 1 /\ Upto(v, (k + 1) + 1) = Append(u, ch)
        BY <1>1, <3>1, UptoGrows
      <4> HIDE DEF m, u, ch
      <4>4. IsCtx(d)
        BY <3>1, <4>1, ReadsTyped
      <4>5. KeyPut(rdb_next(d, ch), u, ch)
        BY <4>1, <4>2, <4>4, KeyChar
      <4>6. CASE Len(u) < str_mlen
        <5> DEFINE e == rdb_next(d, ch).c
        <5>1. Quiet(rdb_next(d, ch)) /\ InKey(e, Append(u, ch))
          BY <4>5, <4>6 DEF KeyPut
        <5>2. Reads(s, m + 1, e, t)
          BY <3>1, <4>1, <4>2, <5>1, Goes
        <5> HIDE DEF e, Bad, N
        <5>3. Reads(s, p + ((k + 1) + 1), e, t) /\ InKey(e, Upto(v, (k + 1) + 1))
          BY <3>1, <4>3, <5>1, <5>2
        <5> QED
          BY <3>1, <5>3
      <4>7. CASE ~(Len(u) < str_mlen)
        <5>1. rdb_next(d, ch).r = "syntax"
          BY <4>5, <4>7 DEF KeyPut
        <5>2. Stuck(s, t)
          BY <3>1, <4>1, <4>2, <5>1 DEF Stuck
        <5>3. Len(v) >= str_mlen
          BY <1>1, <3>1, <4>3, <4>7, StrMlenAssumption, SMT
        <5>4. Unreadable(x)
          BY <1>3, <5>3 DEF Unreadable
        <5>5. Bad
          BY <5>2, <5>4
        <5> HIDE DEF Bad, N
        <5> QED
          BY <3>1, <5>5
      <4> QED
        BY <4>6, <4>7
    <3> QED
      BY <3>2, <3>3
  <2>4. N - 1 \in T
    <3> HIDE DEF T, N
    <3> QED
      BY <2>0, <2>2, <2>3, UpTo
  <2>5. CASE Bad
    BY <2>5 DEF KeyOutcome, x
  <2>6. CASE ~Bad
    <3>1. PICK d : Reads(s, n, d, t) /\ InKey(d, Upto(v, N))
      <4> HIDE DEF N, Bad
      <4> QED
        BY <2>0, <2>4, <2>6
    <3>2. InKey(d, v)
      BY <1>1, <3>1, UptoGrows
    <3> HIDE DEF n
    <3>3. IsCtx(d)
      BY <1>6, <3>1, ReadsTyped
    <3>4. CASE Len(v) \in 1..(str_mlen - 1)
      <4> DEFINE e == rdb_next(d, ":").c
                 f == rdb_next(e, " ").c
      <4>1. KeyDone(rdb_next(d, ":"), v)
        BY <3>2, <3>3, <3>4, KeyChar
      <4>2. rdb_next(d, ":").r = "ok" /\ Token(e) = <<x>> /\ e.st = "idle" /\ e.got_key = TRUE /\ e.expect_colon = FALSE /\ e.got_first_val = FALSE
        BY <4>1 DEF KeyDone, x
      <4>3. Reads(s, n + 1, e, Append(t, x))
        BY <1>6, <1>7, <3>1, <4>2, Tells
      <4> HIDE DEF e
      <4>4. IsCtx(e)
        BY <1>6, <4>3, ReadsTyped
      <4>5. Quiet(rdb_next(e, " ")) /\ f.st = "idle" /\ f.got_key = TRUE /\ f.expect_colon = FALSE /\ f.got_first_val = FALSE
        BY <4>2, <4>4, IdleChars
      <4>6. Reads(s, n + 2, f, Append(t, x))
        BY <1>6, <1>7, <4>3, <4>5, Goes
      <4> HIDE DEF f
      <4>7. KeyOutcome(s, n + 2, t, x)
        BY <4>5, <4>6 DEF KeyOutcome, Free
      <4> QED
        BY <1>6, <4>7 DEF x
    <3>5. CASE Len(v) \notin 1..(str_mlen - 1)
      <4>1. rdb_next(d, ":").r = "syntax"
        BY <3>2, <3>3, <3>5, KeyChar
      <4>2. Stuck(s, t)
        BY <1>6, <1>7, <3>1, <4>1 DEF Stuck
      <4>3. Len(v) >= str_mlen
        BY <1>1, <1>11, <3>5, StrMlenAssumption, SMT
      <4>4. Unreadable(x)
        BY <1>3, <4>3 DEF Unreadable
      <4> QED
        BY <4>2, <4>4 DEF KeyOutcome, x
    <3> QED
      BY <3>4, <3>5
  <2> QED
    BY <2>5, <2>6
<1> QED
  BY <1>10, <1>11

(* The digits of a numeral make its number.                                *)
IntRead(s, n, t, neg, m) == \E e : Reads(s, n, e, t) /\ IntAt(e, neg, m, TRUE)

(* One digit of the integer part                                           *)
LEMMA DigitRead ==
  ASSUME NEW s, NEW n \in Nat, NEW e, NEW t, Reads(s, n, e, t), NEW neg, NEW m \in Nat, NEW g, NumAt(e, neg, m, g),
         NEW q \in 0..9, s[n + 1] = digit[q + 1]
  PROVE  IntRead(s, n + 1, t, neg, 10 * m + q)
<1> USE ZenonT(40)
<1>1. IsCtx(e)
  BY ReadsTyped
<1>2. NumGoes(rdb_next(e, s[n + 1]), neg, 10 * m + q)
  BY <1>1, NumSteps
<1>3. Quiet(rdb_next(e, s[n + 1])) /\ IntAt(rdb_next(e, s[n + 1]).c, neg, 10 * m + q, TRUE)
  BY <1>2 DEF NumGoes
<1>4. Reads(s, n + 1, rdb_next(e, s[n + 1]).c, t)
  BY <1>3, Goes
<1> QED
  BY <1>3, <1>4 DEF IntRead

(* All digits of the integer part                                          *)
LEMMA DigitsRead ==
  ASSUME NEW s, Len(s) \in Nat, NEW p \in Nat, NEW c, NEW t, Reads(s, p, c, t), NEW neg, NumAt(c, neg, 0, FALSE),
         NEW d, NEW n \in Nat, Numeral(d, n), Segment(s, p, d)
  PROVE  IntRead(s, p + Len(d), t, neg, n)
<1> USE ZenonT(40)
<1>1. IsSeq(d) /\ Len(d) >= 1
  BY DEF Numeral
<1>2. PICK pre : IsNumeral(d, n, pre)
  BY DEF Numeral
<1> DEFINE N == Len(d)
<1>3. N \in Nat /\ N >= 1 /\ N - 1 \in Nat /\ (N - 1) + 1 = N
  BY <1>1, Concat, SMT
<1>4. pre[0] = 0 /\ pre[N] = n /\ (\A j \in 0..N : pre[j] \in Nat)
      /\ \A j \in 1..N : \E q \in 0..9 : d[j] = digit[q + 1] /\ pre[j] = 10 * pre[j - 1] + q
  BY <1>2 DEF IsNumeral
<1>5. \A k \in 1..N : s[p + k] = d[k]
  BY DEF Segment
<1> HIDE DEF N
<1>6. ASSUME NEW k \in 0..(N - 1), NEW e, Reads(s, p + k, e, t), NEW g, NumAt(e, neg, pre[k], g)
      PROVE  IntRead(s, p + (k + 1), t, neg, pre[k + 1])
  <2>1. k \in Nat /\ k \in 0..N /\ k + 1 \in 1..N /\ (k + 1) - 1 = k /\ p + k \in Nat /\ (p + k) + 1 = p + (k + 1)
    BY <1>3, SMT
  <2>2. PICK q \in 0..9 : d[k + 1] = digit[q + 1] /\ pre[k + 1] = 10 * pre[(k + 1) - 1] + q
    BY <1>4, <2>1
  <2>3. pre[k + 1] = 10 * pre[k] + q /\ pre[k] \in Nat
    BY <1>4, <2>1, <2>2
  <2>4. s[(p + k) + 1] = digit[q + 1]
    BY <1>5, <2>1, <2>2
  <2>5. IntRead(s, (p + k) + 1, t, neg, 10 * pre[k] + q)
    BY <1>6, <2>1, <2>3, <2>4, DigitRead
  <2> QED
    BY <2>1, <2>3, <2>5
<1> DEFINE T == {k \in 0..(N - 1) : IntRead(s, p + (k + 1), t, neg, pre[k + 1])}
<1>7. 0 \in T
  <2>1. 0 \in 0..(N - 1) /\ p + 0 = p
    BY <1>3, SMT
  <2>2. IntRead(s, p + (0 + 1), t, neg, pre[0 + 1])
    BY <1>4, <1>6, <2>1
  <2> QED
    BY <2>1, <2>2
<1>8. ASSUME NEW k \in 0..((N - 1) - 1), k \in T PROVE k + 1 \in T
  <2>1. k + 1 \in 0..(N - 1)
    BY <1>3, SMT
  <2>2. PICK e : Reads(s, p + (k + 1), e, t) /\ IntAt(e, neg, pre[k + 1], TRUE)
    BY <1>8 DEF IntRead
  <2>3. NumAt(e, neg, pre[k + 1], TRUE)
    BY <2>2 DEF NumAt
  <2> QED
    BY <1>6, <2>1, <2>2, <2>3
<1> HIDE DEF T
<1>9. N - 1 \in T
  <2>1. \A k \in 0..(N - 1) : k \in T
    BY <1>3, <1>7, <1>8, UpTo
  <2>2. N - 1 \in 0..(N - 1)
    BY <1>3, SMT
  <2> QED
    BY <2>1, <2>2
<1>10. IntRead(s, p + ((N - 1) + 1), t, neg, pre[(N - 1) + 1])
  BY <1>9 DEF T
<1> QED
  BY <1>3, <1>4, <1>10 DEF N

(* The digits behind the '.': each cut of the mantissa has one more.       *)
FracRead(s, n, t, neg, m, k) == \E e : Reads(s, n, e, t) /\ FracAt(e, neg, m, k)

(* One digit of the fraction: the mantissa grows by it.                    *)
LEMMA CutRead ==
  ASSUME NEW s, NEW n \in Nat, NEW t, NEW neg, NEW m \in Nat, NEW k \in Nat, FracRead(s, n, t, neg, m, k),
         NEW q \in 0..9, s[n + 1] = digit[q + 1]
  PROVE  FracRead(s, n + 1, t, neg, 10 * m + q, k + 1)
<1> USE ZenonT(40)
<1>1. PICK e : Reads(s, n, e, t) /\ FracAt(e, neg, m, k)
  BY DEF FracRead
<1>2. IsCtx(e)
  BY <1>1, ReadsTyped
<1>3. Quiet(rdb_next(e, s[n + 1])) /\ FracAt(rdb_next(e, s[n + 1]).c, neg, 10 * m + q, k + 1)
  BY <1>1, <1>2, NumSteps
<1>4. Reads(s, n + 1, rdb_next(e, s[n + 1]).c, t)
  BY <1>1, <1>3, Goes
<1> QED
  BY <1>3, <1>4 DEF FracRead

(* All digits of the fraction: the mantissa is the number's.               *)
LEMMA FractionRead ==
  ASSUME NEW v, v.mant \in Nat, v.fracs \in Nat, NEW s, Len(s) \in Nat, NEW p \in Nat, NEW t, NEW neg,
         FracRead(s, p, t, neg, Cuts(v.mant, v.fracs)[v.fracs], 0), Segment(s, p, Fraction(v))
  PROVE  Len(Fraction(v)) = v.fracs /\ FracRead(s, p + v.fracs, t, neg, v.mant, v.fracs)
<1> USE ZenonT(40)
<1> DEFINE F == v.fracs
           C == Cuts(v.mant, v.fracs)
           T == {k \in 0..F : FracRead(s, p + k, t, neg, C[F - k], k)}
<1>1. C[0] = v.mant /\ \A k \in 1..F : C[k] = C[k - 1] \div 10 /\ C[k - 1] \in Nat /\ C[k] \in Nat
  BY CutsIs
<1>2. Len(Fraction(v)) = F /\ \A k \in 1..F : Fraction(v)[k] = digit[(C[F - k] % 10) + 1]
  BY FractionIs
<1>3. \A k \in 1..F : s[p + k] = Fraction(v)[k]
  BY <1>2 DEF Segment
<1>4. F \in Nat /\ FracRead(s, p, t, neg, C[F], 0)
  OBVIOUS
<1> HIDE DEF F, C
<1>5. 0 \in T
  <2>1. 0 \in 0..F /\ p + 0 = p /\ F - 0 = F
    BY <1>4, SMT
  <2> QED
    BY <1>4, <2>1
<1>6. ASSUME NEW k \in 0..(F - 1), k \in T PROVE k + 1 \in T
  <2>1. /\ k \in Nat /\ k + 1 \in 0..F /\ k + 1 \in 1..F /\ p + k \in Nat /\ (p + k) + 1 = p + (k + 1)
        /\ F - k \in 1..F /\ (F - k) - 1 = F - (k + 1)
    BY <1>4, SMT
  <2> DEFINE m == C[F - k]
             x == C[F - (k + 1)]
  <2>2. m = x \div 10 /\ m \in Nat /\ x \in Nat
    BY <1>1, <2>1
  <2>3. s[(p + k) + 1] = digit[(x % 10) + 1]
    BY <1>2, <1>3, <2>1
  <2>4. FracRead(s, p + k, t, neg, m, k)
    BY <1>6
  <2> HIDE DEF m, x
  <2>5. x % 10 \in 0..9 /\ x = 10 * m + (x % 10)
    BY <2>2, Tens
  <2>6. FracRead(s, (p + k) + 1, t, neg, 10 * m + (x % 10), k + 1)
    BY <2>1, <2>2, <2>3, <2>4, <2>5, CutRead
  <2>7. FracRead(s, p + (k + 1), t, neg, x, k + 1)
    BY <2>1, <2>5, <2>6
  <2> QED
    BY <2>1, <2>7 DEF x
<1> HIDE DEF T
<1>7. F \in T
  <2>1. \A k \in 0..F : k \in T
    BY <1>4, <1>5, <1>6, UpTo
  <2>2. F \in 0..F
    BY <1>4, SMT
  <2> QED
    BY <2>1, <2>2
<1>8. FracRead(s, p + F, t, neg, C[F - F], F) /\ F - F = 0
  BY <1>4, <1>7, SMT DEF T
<1> QED
  BY <1>1, <1>2, <1>8 DEF F

(* "%li", and the part of "%f" before its '.'                              *)
IsNum(v) == v.neg \in BOOLEAN /\ v.mant \in Nat /\ v.fracs \in Nat

Signed(s, n, t, neg) == \E d : Reads(s, n, d, t) /\ NumAt(d, neg, 0, FALSE)

(* The sign, if there is one                                               *)
LEMMA SignRead ==
  ASSUME NEW v, IsNum(v), NEW s, Len(s) \in Nat, NEW p \in Nat, NEW c, NEW t, Reads(s, p, c, t), Ready(c),
         Segment(s, p, Sign(v))
  PROVE  Signed(s, p + Len(Sign(v)), t, v.neg)
<1> USE ZenonT(40)
<1>1. CASE v.neg = TRUE
  <2>1. Sign(v) = <<"-">>
    BY <1>1 DEF Sign
  <2>2. s[p + 1] = "-" /\ Len(Sign(v)) = 1
    <3>1. Segment(s, p, <<"-">>)
      BY <2>1
    <3>2. s[p + 1] = "-" /\ Len(<<"-">>) = 1
      BY <3>1, OneChar
    <3> QED
      BY <2>1, <3>2
  <2>3. IsCtx(c)
    BY ReadsTyped
  <2>4. Quiet(rdb_next(c, s[p + 1])) /\ IntAt(rdb_next(c, s[p + 1]).c, TRUE, 0, FALSE)
    BY <2>2, <2>3, NumSteps
  <2>5. Reads(s, p + 1, rdb_next(c, s[p + 1]).c, t)
    BY <2>4, Goes
  <2> QED
    BY <1>1, <2>2, <2>4, <2>5 DEF NumAt, Signed
<1>2. CASE v.neg = FALSE
  <2>1. Sign(v) = <<>>
    BY <1>2 DEF Sign
  <2>2. p + Len(Sign(v)) = p
    BY <2>1, SMT
  <2> QED
    BY <1>2, <2>2 DEF NumAt, Signed
<1> QED
  BY <1>1, <1>2 DEF IsNum

(* It is a sequence.                                                       *)
LEMMA SignSeq ==
  ASSUME NEW v
  PROVE  IsSeq(Sign(v)) /\ Len(Sign(v)) \in Nat
<1> USE ZenonT(40)
<1>1. IsSeq(<<"-">>)
  BY OneChar
<1>2. <<>> \in Seq({})
  BY SMT
<1>3. IsSeq(<<>>)
  BY <1>2 DEF IsSeq
<1>4. IsSeq(Sign(v))
  BY <1>1, <1>3 DEF Sign
<1> QED
  BY <1>4, Concat

(* The sign and the integer part                                           *)
LEMMA MantRead ==
  ASSUME NEW v, IsNum(v), NEW m \in Nat,
         NEW s, Len(s) \in Nat, NEW p \in Nat, NEW c, NEW t, Reads(s, p, c, t), Ready(c),
         Segment(s, p, Sign(v) \o decimal(m))
  PROVE  IntRead(s, p + Len(Sign(v) \o decimal(m)), t, v.neg, m)
<1> USE ZenonT(40)
<1> DEFINE a == Sign(v)
           b == decimal(m)
<1>1. IsSeq(a) /\ Len(a) \in Nat
  BY SignSeq
<1>2. Numeral(b, m)
  BY DecimalIs
<1>3. IsSeq(b)
  BY <1>2 DEF Numeral
<1>4. Segment(s, p, a) /\ Segment(s, p + Len(a), b) /\ Len(b) \in Nat
  BY <1>1, <1>3, Parts
<1>5. Signed(s, p + Len(a), t, v.neg)
  BY <1>4, SignRead
<1>6. Len(a \o b) = Len(a) + Len(b)
  BY <1>1, <1>3, Concat
<1> HIDE DEF a, b
<1>7. p + Len(a) \in Nat /\ p + Len(a \o b) = (p + Len(a)) + Len(b)
  BY <1>1, <1>4, <1>6, SMT
<1>8. IntRead(s, (p + Len(a)) + Len(b), t, v.neg, m)
  <2>1. PICK d : Reads(s, p + Len(a), d, t) /\ NumAt(d, v.neg, 0, FALSE)
    BY <1>5 DEF Signed
  <2> QED
    BY <1>2, <1>4, <1>7, <2>1, DigitsRead
<1> QED
  BY <1>7, <1>8 DEF a, b

(* wdb_int                                                                 *)
LEMMA IntText ==
  ASSUME NEW v, IsNum(v), v.fracs = 0
  PROVE  ReadAs(Sign(v) \o decimal(v.mant), Written(v))
<1> USE ZenonT(40)
<1> DEFINE txt == Sign(v) \o decimal(v.mant)
<1>1. v.neg \in BOOLEAN /\ v.mant \in Nat
  BY DEF IsNum
<1> SUFFICES ASSUME NEW s, NEW c, NEW t, NEW p \in Nat, Len(s) \in Nat, Reads(s, p, c, t), Ready(c), Segment(s, p, txt)
             PROVE  Outcome(s, p + Len(txt), t, Written(v))
  BY DEF ReadAs
<1>2. IntRead(s, p + Len(txt), t, v.neg, v.mant)
  BY <1>1, MantRead
<1> HIDE DEF txt
<1>3. PICK d : Reads(s, p + Len(txt), d, t) /\ IntAt(d, v.neg, v.mant, TRUE)
  BY <1>2 DEF IntRead
<1>4. /\ d.st = "num" /\ d.num.part = "int" /\ d.num.neg = v.neg /\ d.num.mant = v.mant /\ d.num.fracs = 0
      /\ d.num.exp = 0 /\ d.num.eneg = FALSE /\ d.num.got_sign = v.neg
      /\ d.num.pos \in Nat /\ (d.num.pos = 0 <=> v.mant = 0)
  BY <1>3 DEF IntAt
<1>5. rdb_cur_num(d) = [neg |-> v.neg, mant |-> v.mant, fracs |-> v.fracs, exp |-> 0]
  BY <1>4, SMT DEF rdb_cur_num
<1>6. Pending(d) = Written(v)
  BY <1>4, <1>5 DEF Pending, Written
<1>7. PlainOk(d)
  <2>1. CASE v.neg /\ v.mant = 0
    <3>1. Written(v)[1] = "num" /\ Written(v)[2].neg /\ Written(v)[2].mant = 0 /\ Written(v)[2].fracs = 0
      BY <2>1, SMT DEF Written
    <3>2. Unreadable(Written(v))
      BY <3>1 DEF Unreadable
    <3> QED
      BY <1>4, <1>6, <3>2 DEF PlainOk
  <2>2. CASE v.neg # TRUE
    BY <1>1, <1>4, <2>2 DEF PlainOk
  <2>3. CASE v.mant # 0
    <3>1. d.num.pos > 0
      BY <1>4, <2>3, SMT
    <3> QED
      BY <1>4, <3>1 DEF PlainOk
  <2> QED
    BY <2>1, <2>2, <2>3
<1> QED
  BY <1>3, <1>6, <1>7 DEF Outcome

(* wdb_num                                                                 *)
LEMMA NumText ==
  ASSUME NEW v, IsNum(v), v.fracs > 0
  PROVE  ReadAs(Sign(v) \o decimal(Cuts(v.mant, v.fracs)[v.fracs]) \o <<".">> \o Fraction(v), Written(v))
<1> USE ZenonT(40)
<1> DEFINE m == Cuts(v.mant, v.fracs)[v.fracs]
           a == Sign(v) \o decimal(m)
           b == <<".">>
           f == Fraction(v)
           txt == (a \o b) \o f
<1>1. v.mant \in Nat /\ v.fracs \in Nat /\ v.fracs \in 1..v.fracs
  BY SMT DEF IsNum
<1>2. m \in Nat
  BY <1>1, CutsIs
<1>3. IsSeq(a) /\ IsSeq(b) /\ IsSeq(f) /\ Len(b) = 1
  <2>1. Numeral(decimal(m), m)
    <3> HIDE DEF m
    <3> QED BY <1>2, DecimalIs
  <2>2. IsSeq(decimal(m))
    BY <2>1 DEF Numeral
  <2>3. IsSeq(Sign(v))
    BY SignSeq
  <2>4. IsSeq(f)
    BY <1>1, FractionIs
  <2> QED
    BY <2>2, <2>3, <2>4, Concat, OneChar
<1> SUFFICES ASSUME NEW s, NEW c, NEW t, NEW p \in Nat, Len(s) \in Nat, Reads(s, p, c, t), Ready(c), Segment(s, p, txt)
             PROVE  Outcome(s, p + Len(txt), t, Written(v))
  BY DEF ReadAs
<1>4. /\ IsSeq(a \o b) /\ Len(a \o b) = Len(a) + Len(b) /\ Len(a) \in Nat /\ Len(f) \in Nat
      /\ Len(txt) = Len(a \o b) + Len(f)
  BY <1>3, Concat
<1>5. Segment(s, p, a \o b) /\ Segment(s, p + Len(a \o b), f)
  BY <1>3, <1>4, Parts
<1>6. Segment(s, p, a) /\ Segment(s, p + Len(a), b)
  BY <1>3, <1>5, Parts
<1>7. IntRead(s, p + Len(a), t, v.neg, m)
  <2> HIDE DEF m
  <2> QED BY <1>1, <1>2, <1>6, MantRead
<1>8. s[(p + Len(a)) + 1] = "."
  <2> HIDE DEF a
  <2>1. Segment(s, p + Len(a), <<".">>)
    BY <1>6
  <2> QED
    BY <2>1, OneChar
<1>9. PICK e : Reads(s, p + Len(a), e, t) /\ IntAt(e, v.neg, m, TRUE)
  BY <1>7 DEF IntRead
<1> HIDE DEF a, b, f, m
<1>10. p + Len(a) \in Nat /\ (p + Len(a)) + 1 = p + Len(a \o b) /\ p + Len(a \o b) \in Nat
  BY <1>3, <1>4, SMT
<1> DEFINE res == rdb_next(e, s[(p + Len(a)) + 1])
<1>11. Quiet(res) /\ FracAt(res.c, v.neg, m, 0)
  <2>1. IsCtx(e)
    BY <1>9, <1>10, ReadsTyped
  <2> QED
    BY <1>8, <1>9, <2>1, NumSteps
<1>12. Reads(s, (p + Len(a)) + 1, res.c, t)
  BY <1>9, <1>10, <1>11, Goes
<1>13. FracRead(s, p + Len(a \o b), t, v.neg, m, 0)
  <2> HIDE DEF res
  <2> QED BY <1>10, <1>11, <1>12 DEF FracRead
<1>14. Len(f) = v.fracs /\ FracRead(s, p + Len(a \o b) + v.fracs, t, v.neg, v.mant, v.fracs)
  <2>1. FracRead(s, p + Len(a \o b), t, v.neg, Cuts(v.mant, v.fracs)[v.fracs], 0)
    BY <1>13 DEF m
  <2>2. Segment(s, p + Len(a \o b), Fraction(v))
    BY <1>5 DEF f
  <2> QED
    BY <1>1, <1>10, <2>1, <2>2, FractionRead DEF f
<1>15. p + Len(a \o b) + v.fracs = p + Len(txt)
  BY <1>1, <1>4, <1>10, <1>14, SMTT(30)
<1> HIDE DEF txt
<1>16. PICK d : Reads(s, p + Len(txt), d, t) /\ FracAt(d, v.neg, v.mant, v.fracs)
  BY <1>14, <1>15 DEF FracRead
<1>17. /\ d.st = "num" /\ d.num.part = "frac" /\ d.num.neg = v.neg /\ d.num.mant = v.mant /\ d.num.fracs = v.fracs
       /\ d.num.exp = 0 /\ d.num.eneg = FALSE /\ d.num.pos = v.fracs + 1
  BY <1>16 DEF FracAt
<1>18. rdb_cur_num(d) = [neg |-> v.neg, mant |-> v.mant, fracs |-> v.fracs, exp |-> 0]
  BY <1>17, SMT DEF rdb_cur_num
<1>19. Pending(d) = Written(v)
  BY <1>17, <1>18 DEF Pending, Written
<1>20. d.num.pos >= 2
  BY <1>1, <1>17, SMT
<1> QED
  BY <1>16, <1>17, <1>19, <1>20 DEF Outcome, PlainOk
====
