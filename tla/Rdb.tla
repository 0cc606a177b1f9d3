-------------------------------- MODULE Rdb --------------------------------
(***************************************************************************)
(* rdb.c, the reader of the key-value format: rdb_next takes one character *)
(* and says ok, fin or syntax; ty is the kind of the value the character   *)
(* completed.  Every operator gives the context after the call and its     *)
(* result.  After a syntax error the context is not used again.            *)
(*                                                                         *)
(* Characters are those of DbChars. str holds the sd.len characters put in    *)
(* str_out before its '\0'; the union sd is one field for each member that *)
(* is live.  A number is num.mant / 10^num.fracs, times 10 to num.exp.     *)
(***************************************************************************)
EXTENDS Integers, Sequences, DbChars

CONSTANT str_mlen    \* the room in str_out, its '\0' included

ASSUME StrMlenAssumption == str_mlen \in Nat \ {0}

word_size == 6       \* sizeof(sd.boolean.word)

NoNum == [neg |-> FALSE, got_sign |-> FALSE, got_int |-> FALSE, mant |-> 0, fracs |-> 0,
          eneg |-> FALSE, exp |-> 0, pos |-> 0, part |-> "int"]

rdb_init ==
  [st |-> "idle", ty |-> "incomplete", is_in_arr |-> FALSE, got_key |-> FALSE,
   expect_colon |-> FALSE, got_first_val |-> FALSE, str |-> <<>>, is_escape |-> FALSE,
   skip_whitespace |-> FALSE, keep_last_newline |-> FALSE, num |-> NoNum, word |-> <<>>]

Ret(c) == [c |-> c, r |-> "ok"]
Syntax(c) == [c |-> c, r |-> "syntax"]

IsDigit(ch) == ch \in Chars(digit)
DigitOf(ch) == CHOOSE k \in 0..9 : digit[k + 1] = ch

is_separator_(ch) == ch \in {" ", "\t", ",", "\n", "NUL"}

escape_ch_(ch) ==
  CASE ch = "n" -> "\n" [] ch = "r" -> "\r" [] ch = "t" -> "\t" [] OTHER -> ch

is_val_expected(c) == c.got_key /\ (c.is_in_arr \/ ~c.got_first_val) /\ ~c.expect_colon

(* set_st_ of the states that read a value                                 *)
Enter(c, st) ==
  [c EXCEPT !.st = st, !.got_first_val = TRUE, !.str = <<>>, !.is_escape = FALSE,
            !.skip_whitespace = (st = "long_str"), !.keep_last_newline = FALSE,
            !.num = NoNum, !.word = <<>>]

EnterKey(c) ==
  [c EXCEPT !.st = "key", !.is_in_arr = FALSE, !.got_key = FALSE, !.expect_colon = FALSE,
            !.got_first_val = FALSE, !.str = <<>>]

(* Mutant: a character is put one past the end of str_out.                 *)
PutPastEnd(c, ch) == IF Len(c.str) <= str_mlen THEN Ret([c EXCEPT !.str = Append(@, ch)]) ELSE Syntax(c)

Put(c, ch) == IF Len(c.str) < str_mlen THEN Ret([c EXCEPT !.str = Append(@, ch)]) ELSE Syntax(c)

next_key_(c, ch) ==
  IF ch \in {":", " ", "\t"}
  THEN IF Len(c.str) \in 1..(str_mlen - 1)
       THEN Ret([c EXCEPT !.ty = "key", !.st = "idle", !.expect_colon = (ch # ":"),
                          !.got_key = TRUE, !.got_first_val = FALSE, !.is_in_arr = FALSE])
       ELSE Syntax(c)
  ELSE IF ch \in Letters \cup Chars(digit) \cup {".", "_", "-"} THEN Put(c, ch)
  ELSE Syntax(c)

(* The quote or bracket that ends a string                                 *)
StrEnd(c) ==
  IF Len(c.str) < str_mlen
  THEN Ret([c EXCEPT !.ty = "str", !.st = "idle", !.expect_colon = FALSE,
                     !.got_key = TRUE, !.got_first_val = TRUE])
  ELSE Syntax(c)

next_str_(c, ch) ==
  IF ch \in {"NUL", "CTL", "U8", "\n", "\r"} THEN Syntax(c)
  ELSE IF c.is_escape THEN Put([c EXCEPT !.is_escape = FALSE], escape_ch_(ch))
  ELSE IF ch = "\"" THEN StrEnd(c)
  ELSE IF ch = "\\" THEN Ret([c EXCEPT !.is_escape = TRUE])
  ELSE Put(c, ch)

WithoutNewline(c) ==
  LET len == Len(c.str)
  IN  IF len > 0 /\ c.str[len] = "\n" /\ ~c.keep_last_newline
      THEN [c EXCEPT !.str = SubSeq(@, 1, len - 1)] ELSE c

next_long_str_(c, ch) ==
  LET put == [c EXCEPT !.is_escape = FALSE, !.skip_whitespace = FALSE]
  IN  IF ch \in {"NUL", "CTL", "U8", "\r"} THEN Syntax(c)
      ELSE IF c.is_escape
      THEN Put([put EXCEPT !.keep_last_newline = (escape_ch_(ch) = "\n")], escape_ch_(ch))
      ELSE IF ch = ">" THEN StrEnd(WithoutNewline(c))
      ELSE IF ch = "\\" THEN Ret([c EXCEPT !.is_escape = TRUE, !.skip_whitespace = FALSE])
      ELSE IF ch \in {" ", "\t", "\n"} /\ c.skip_whitespace
      THEN Ret([c EXCEPT !.skip_whitespace = (ch # "\n"), !.keep_last_newline = TRUE])
      ELSE Put([put EXCEPT !.keep_last_newline = FALSE], ch)

(* The separator that ends a number or a word                              *)
PlainEnd(c, ty, ch) ==
  [c |-> [c EXCEPT !.ty = ty, !.st = "idle", !.expect_colon = FALSE, !.is_in_arr = (ch = ","),
                   !.got_key = (ch # "\n"), !.got_first_val = TRUE],
   r |-> IF ch = "NUL" THEN "fin" ELSE "ok"]

(* strncmp(sd->word, "true", sd->wlen) == 0, and with "false"              *)
BeginsWord(s, word) == Len(s) <= Len(word) /\ s = SubSeq(word, 1, Len(s))
IsTrue(word) == BeginsWord(word, <<"t", "r", "u", "e">>)
IsFalse(word) == BeginsWord(word, <<"f", "a", "l", "s", "e">>)

next_bool_(c, ch) ==
  IF is_separator_(ch)
  THEN IF IsTrue(c.word) \/ IsFalse(c.word) THEN PlainEnd(c, "bool", ch) ELSE Syntax(c)
  ELSE IF Len(c.word) < word_size THEN Ret([c EXCEPT !.word = Append(@, ch)])
  ELSE Syntax(c)

ToExp(c) ==
  Ret([c EXCEPT !.num.pos = 0, !.num.exp = 0, !.num.eneg = FALSE, !.num.got_sign = FALSE,
                !.num.got_int = FALSE, !.num.part = "exp"])

next_num_int_(c, ch) ==
  LET n == c.num IN
  CASE IsDigit(ch) ->
         IF n.pos = 0 /\ ch = "0" THEN Ret([c EXCEPT !.num.got_int = TRUE])
         ELSE Ret([c EXCEPT !.num.got_int = TRUE, !.num.mant = 10 * @ + DigitOf(ch), !.num.pos = @ + 1])
    [] ch \in {"-", "+"} /\ n.pos = 0 /\ ~n.got_sign ->
         Ret([c EXCEPT !.num.neg = (ch = "-"), !.num.got_sign = TRUE])
    [] ch = "." /\ (n.got_int \/ ~n.got_sign) -> Ret([c EXCEPT !.num.pos = 1, !.num.part = "frac"])
    [] ch = "e" /\ (n.pos > 0 \/ ~n.got_sign) -> ToExp(c)
    [] is_separator_(ch) /\ (n.pos > 0 \/ ~n.got_sign) -> PlainEnd(c, "num", ch)
    [] OTHER -> Syntax(c)

(* Mutant: the first digit of a fraction is not scaled.                    *)
FracFromZero(c, ch) ==
  LET n == c.num IN
  CASE IsDigit(ch) ->
         Ret([c EXCEPT !.num.mant = 10 * @ + DigitOf(ch), !.num.fracs = n.pos - 1, !.num.pos = @ + 1])
    [] ch = "e" /\ n.pos >= 2 -> ToExp(c)
    [] is_separator_(ch) /\ (n.pos >= 2 \/ n.got_int) -> PlainEnd(c, "num", ch)
    [] OTHER -> Syntax(c)

next_num_frac_(c, ch) ==
  LET n == c.num IN
  CASE IsDigit(ch) ->
         Ret([c EXCEPT !.num.mant = 10 * @ + DigitOf(ch), !.num.fracs = @ + 1, !.num.pos = @ + 1])
    [] ch = "e" /\ n.pos >= 2 -> ToExp(c)
    [] is_separator_(ch) /\ (n.pos >= 2 \/ n.got_int) -> PlainEnd(c, "num", ch)
    [] OTHER -> Syntax(c)

next_num_exp_(c, ch) ==
  LET n == c.num IN
  CASE IsDigit(ch) ->
         IF n.pos = 0 /\ ch = "0" THEN Ret([c EXCEPT !.num.got_int = TRUE])
         ELSE Ret([c EXCEPT !.num.got_int = TRUE, !.num.exp = 10 * @ + DigitOf(ch), !.num.pos = @ + 1])
    [] ch \in {"-", "+"} /\ n.pos = 0 /\ ~n.got_sign ->
         Ret([c EXCEPT !.num.eneg = (ch = "-"), !.num.got_sign = TRUE])
    [] is_separator_(ch) /\ n.pos > 0 -> PlainEnd(c, "num", ch)
    [] OTHER -> Syntax(c)

next_num_(c, ch) ==
  CASE c.num.part = "int" -> next_num_int_(c, ch)
    [] c.num.part = "frac" -> next_num_frac_(c, ch)
    [] c.num.part = "exp" -> next_num_exp_(c, ch)

(* Mutant: a newline does not end the list of the key before it.           *)
LineEndKeepsKey(c) == [c EXCEPT !.is_in_arr = FALSE]

LineEnd(c) == [c EXCEPT !.is_in_arr = FALSE, !.got_key = FALSE, !.got_first_val = FALSE]

next_idle_(c, ch) ==
  LET Val(res) == IF is_val_expected(c) THEN res ELSE Syntax(c) IN
  CASE IsDigit(ch) \/ ch \in {"-", "+", "."} -> Val(next_num_(Enter(c, "num"), ch))
    [] ch = ":" -> IF c.expect_colon THEN Ret([c EXCEPT !.expect_colon = FALSE]) ELSE Syntax(c)
    [] ch = "\"" -> Val(Ret(Enter(c, "str")))
    [] ch = "<" -> Val(Ret(Enter(c, "long_str")))
    [] ch = "," -> Ret([c EXCEPT !.is_in_arr = TRUE])
    [] ch = "\n" -> Ret(LineEnd(c))
    [] ch = "NUL" -> [c |-> LineEnd(c), r |-> "fin"]
    [] ch \in {" ", "\t"} -> Ret(c)
    [] OTHER -> IF ~c.got_key THEN next_key_(EnterKey(c), ch) ELSE Val(next_bool_(Enter(c, "bool"), ch))

rdb_next(ctx, ch) ==
  LET c == [ctx EXCEPT !.ty = "incomplete"] IN
  CASE c.st = "idle" -> next_idle_(c, ch)
    [] c.st = "key" -> next_key_(c, ch)
    [] c.st = "str" -> next_str_(c, ch)
    [] c.st = "long_str" -> next_long_str_(c, ch)
    [] c.st = "num" -> next_num_(c, ch)
    [] c.st = "bool" -> next_bool_(c, ch)

(* rdb_cur_str, rdb_cur_num, rdb_cur_is_true                               *)
rdb_cur_num(c) == [neg |-> c.num.neg, mant |-> c.num.mant, fracs |-> c.num.fracs,
                   exp |-> IF c.num.eneg THEN -c.num.exp ELSE c.num.exp]
rdb_cur_is_true(c) == IsTrue(c.word)
============================================================================
