------------------------------- MODULE Rjson -------------------------------
(***************************************************************************)
(* rjson.c, the reader of JSON: rjson_next takes one character and says    *)
(* ok, fin or syntax, and cur is the kind of what the character completed. *)
(* Every operator gives the context after the call and its result, which   *)
(* is "panic" where the code calls SOB_PANIC, and "depth" for the one      *)
(* panic that a text can cause (add_lvl_).  assert_st_ is left out: the    *)
(* switch of rjson_next has just tested st, or set_st_ has just set it.    *)
(*                                                                         *)
(* Characters are those of JsonChars.  str holds the sd.str.len characters *)
(* put in the string buffer, without its '\0'.  The union sd is one field  *)
(* for each member that is live.  A number is num.mant / 10^num.fracs,     *)
(* times 10 to num.exp: exact, without the rounding of a double.           *)
(***************************************************************************)
EXTENDS JsonChars

CONSTANT str_mlen      \* the room in the string buffer, its '\0' included

ASSUME StrMlenAssumption == str_mlen \in Nat

is_whitespace_(ch) == ch \in {" ", "\n", "\r", "\t"}
is_num_start_(ch) == ch \in Digits \cup {"-"}

NoNum == [mant |-> 0, fracs |-> 0, digit_pos |-> 0, is_neg |-> FALSE, exp |-> 0, part |-> "int"]

rjson_init ==
  [str |-> <<>>, lvls |-> <<>>, st |-> "idle", is_escape |-> FALSE, is_key |-> FALSE, num |-> NoNum,
   word_pos |-> 0, bool_is_true |-> FALSE, buffered_ch |-> "none", cur |-> "incomplete",
   is_val_expected |-> TRUE, pos |-> 0]

Fin(c) == [c |-> c, r |-> "fin"]

(* What set_st_ resets when it enters a state; the others keep sd.         *)
set_st_(c, st) ==
  CASE st = "str" -> [c EXCEPT !.st = st, !.str = <<>>, !.is_escape = FALSE, !.is_key = FALSE]
    [] st = "num" -> [c EXCEPT !.st = st, !.num = NoNum]
    [] st \in {"true", "false"} -> [c EXCEPT !.st = st, !.bool_is_true = (st = "true"), !.word_pos = 0]
    [] st = "null" -> [c EXCEPT !.st = st, !.word_pos = 0]
    [] OTHER -> [c EXCEPT !.st = st]

(* add_lvl_, and the state and event that follow; a full array panics.     *)
add_lvl_(c, ty, st, cur) ==
  IF Len(c.lvls) = max_depth_ THEN Depth(c)
  ELSE Ok([c EXCEPT !.lvls = Append(@, ty), !.st = st, !.cur = cur])
----------------------------------------------------------------------------
(***************************************************************************)
(* Words and numbers                                                       *)
(***************************************************************************)
Words == [true |-> <<"t", "r", "u", "e">>, false |-> <<"f", "a", "l", "s", "e">>,
          null |-> <<"n", "u", "l", "l">>]

(* next_true_, next_false_ (both next_bool_) and next_null_                *)
next_word_(c, ch) ==
  LET word == Words[c.st] IN
  IF ~c.is_val_expected THEN Panic(c)
  ELSE IF ch # word[c.word_pos + 1] THEN Syntax(c)
  ELSE IF c.word_pos = Len(word) - 1
  THEN Ok([c EXCEPT !.cur = IF c.st = "null" THEN "null" ELSE "bool",
                    !.is_val_expected = FALSE, !.st = "idle"])
  ELSE Ok([c EXCEPT !.word_pos = @ + 1])

Sign(n) == IF n.is_neg THEN -1 ELSE 1

(* The delimiter after a number is buffered, since the number is reported  *)
(* at this call.                                                           *)
NumEnd(c, ch) ==
  IF c.num.digit_pos = 0 THEN Syntax(c)
  ELSE IF c.buffered_ch # "none" THEN Panic(c)
  ELSE Ok([c EXCEPT !.cur = "num", !.buffered_ch = ch, !.is_val_expected = FALSE, !.st = "idle"])

NumInt(c, ch) ==
  LET n == c.num IN
  CASE ch = "0" /\ n.digit_pos = 0 -> Ok([c EXCEPT !.num.part = "leading_zero"])
    [] ch \in Digits /\ ~(ch = "0" /\ n.digit_pos = 0) ->
         Ok([c EXCEPT !.num.mant = 10 * @ + DigitOf[ch] * Sign(n), !.num.digit_pos = @ + 1])
    [] ch = "-" /\ n.digit_pos = 0 -> Ok([c EXCEPT !.num.is_neg = TRUE])
    [] ch = "." /\ n.digit_pos > 0 -> Ok([c EXCEPT !.num.digit_pos = 0, !.num.part = "frac"])
    [] ch \in {"e", "E"} /\ n.digit_pos > 0 -> Ok([c EXCEPT !.num.digit_pos = 0, !.num.part = "exp"])
    [] OTHER -> Syntax(c)

NumFrac(c, ch) ==
  LET n == c.num IN
  CASE ch \in Digits ->
         Ok([c EXCEPT !.num.mant = 10 * @ + DigitOf[ch] * Sign(n), !.num.fracs = n.digit_pos + 1,
                      !.num.digit_pos = @ + 1])
    [] ch \in {"e", "E"} /\ n.digit_pos > 0 ->
         Ok([c EXCEPT !.num.digit_pos = 0, !.num.is_neg = FALSE, !.num.exp = 0, !.num.part = "exp"])
    [] OTHER -> Syntax(c)

NumExp(c, ch) ==
  LET n == c.num IN
  CASE ch \in Digits ->
         Ok([c EXCEPT !.num.exp = 10 * @ + DigitOf[ch] * Sign(n), !.num.digit_pos = @ + 1])
    [] ch \in {"+", "-"} /\ n.digit_pos = 0 -> Ok([c EXCEPT !.num.is_neg = (ch = "-")])
    [] OTHER -> Syntax(c)

next_num_(c, ch) ==
  IF ~c.is_val_expected THEN Panic(c)
  ELSE IF is_whitespace_(ch) \/ ch \in {"}", "]", ","} THEN NumEnd(c, ch)
  ELSE CASE c.num.part = "int" -> NumInt(c, ch)
         [] c.num.part = "leading_zero" ->
              IF ch = "." THEN Ok([c EXCEPT !.num.part = "frac"]) ELSE Syntax(c)
         [] c.num.part = "frac" -> NumFrac(c, ch)
         [] c.num.part = "exp" -> NumExp(c, ch)
----------------------------------------------------------------------------
(***************************************************************************)
(* Strings                                                                 *)
(***************************************************************************)
Controls == {"\n", "\r", "\t", "BS", "FF", "CTL", "U8", "XFF"}

(* "\u" is not implemented, and invalid like the others that are missing.  *)
str_escape_ == [ch \in {"\"", "\\", "/", "b", "f", "n", "r", "t"} |->
  CASE ch = "b" -> "BS" [] ch = "f" -> "FF" [] ch = "n" -> "\n" [] ch = "r" -> "\r" [] ch = "t" -> "\t"
    [] OTHER -> ch]

add_str_ch_(c, ch) ==
  IF Len(c.str) = str_mlen THEN Syntax(c) ELSE Ok([c EXCEPT !.str = Append(@, ch)])

(* Mutant: a key does not end the wait for a value.                        *)
StrEndExpecting(c) ==
  LET ended == [c EXCEPT !.cur = "str", !.is_val_expected = c.is_key, !.st = IF c.is_key THEN "want_colon" ELSE "idle"]
  IN  IF Len(c.str) = str_mlen THEN Syntax(ended) ELSE Ok(ended)

(* The quote that ends a string: the context has moved on when the '\0'    *)
(* does not fit.                                                           *)
StrEnd(c) ==
  LET ended == [c EXCEPT !.cur = "str", !.is_val_expected = FALSE,
                         !.st = IF c.is_key THEN "want_colon" ELSE "idle"]
  IN  IF Len(c.str) = str_mlen THEN Syntax(ended) ELSE Ok(ended)

next_str_(ctx, ch) ==
  LET c == [ctx EXCEPT !.cur = "incomplete"] IN
  IF c.is_key /\ lvl_(c) # "obj" THEN Panic(ctx)
  ELSE IF ch \in Controls THEN Syntax(c)
  ELSE IF c.is_escape
  THEN IF ch \in DOMAIN str_escape_ THEN add_str_ch_([c EXCEPT !.is_escape = FALSE], str_escape_[ch])
       ELSE Syntax(c)
  ELSE IF ch = "\\" THEN Ok([c EXCEPT !.is_escape = TRUE])
  ELSE IF ch = "\"" THEN StrEnd(c)
  ELSE add_str_ch_(c, ch)
----------------------------------------------------------------------------
(***************************************************************************)
(* Structure                                                               *)
(***************************************************************************)

(* The end of an object or array, from next_idle_ and next_want_key_       *)
pop_lvl_(c, ty) ==
  LET popped == [c EXCEPT !.lvls = Popped(@), !.st = "idle", !.cur = ty, !.is_val_expected = FALSE]
  IN  IF c.lvls = <<>> THEN Panic(c)
      ELSE IF ty = "obj_end" /\ lvl_(popped) = "none" THEN Fin(popped) ELSE Ok(popped)

(* A character that begins a value                                         *)
Begin(c, ch) ==
  CASE ch \in {"t", "r", "u", "e"} -> next_word_(set_st_(c, "true"), ch)
    [] ch \in {"f", "a", "l", "s"} -> next_word_(set_st_(c, "false"), ch)
    [] ch = "n" -> next_word_(set_st_(c, "null"), ch)
    [] is_num_start_(ch) -> next_num_(set_st_(c, "num"), ch)
    [] ch = "{" -> add_lvl_(c, "obj", "want_key", "obj_start")
    [] ch = "[" -> add_lvl_(c, "arr", "idle", "arr_start")
    [] ch = "\"" -> Ok([set_st_(c, "str") EXCEPT !.is_val_expected = FALSE])
    [] OTHER -> Syntax(c)

(* A character that follows a value                                        *)
Follow(c, ch) ==
  CASE ch = "}" /\ lvl_(c) = "obj" -> pop_lvl_(c, "obj_end")
    [] ch = "]" /\ lvl_(c) = "arr" -> pop_lvl_(c, "arr_end")
    [] ch = "," -> Ok([c EXCEPT !.is_val_expected = TRUE, !.st = IF lvl_(c) = "obj" THEN "want_key" ELSE "idle"])
    [] OTHER -> Syntax(c)

next_idle_(ctx, ch) ==
  LET c == [ctx EXCEPT !.cur = "incomplete"] IN
  IF is_whitespace_(ch) THEN Ok(c)
  ELSE IF lvl_(c) = "none" /\ ch # "{" THEN Syntax(c)
  ELSE IF c.is_val_expected THEN Begin(c, ch) ELSE Follow(c, ch)

(* Whitespace leaves cur as it was: what the last call reported is         *)
(* reported again.                                                         *)
next_want_key_(c, ch) ==
  IF lvl_(c) # "obj" \/ ~c.is_val_expected THEN Panic(c)
  ELSE IF is_whitespace_(ch) THEN Ok(c)
  ELSE IF ch = "\"" THEN Ok([set_st_(c, "str") EXCEPT !.is_key = TRUE, !.cur = "incomplete"])
  ELSE IF ch = "}" THEN pop_lvl_(c, "obj_end")
  ELSE Syntax(c)

next_want_colon_(c, ch) ==
  IF lvl_(c) # "obj" \/ c.is_val_expected THEN Panic(c)
  ELSE IF is_whitespace_(ch) THEN Ok(c)
  ELSE IF ch = ":" THEN Ok([c EXCEPT !.st = "idle", !.cur = "incomplete", !.is_val_expected = TRUE])
  ELSE Syntax(c)
----------------------------------------------------------------------------
Dispatch(c, ch) ==
  CASE c.st = "idle" -> next_idle_(c, ch)
    [] c.st = "want_key" -> next_want_key_(c, ch)
    [] c.st = "want_colon" -> next_want_colon_(c, ch)
    [] c.st = "str" -> next_str_(c, ch)
    [] c.st = "num" -> next_num_(c, ch)
    [] c.st \in DOMAIN Words -> next_word_(c, ch)

(* Mutant: a character that was buffered is counted as well.               *)
ProcessCountAll(c, ch, processed_buffered) ==
  LET res == Dispatch(c, ch)
  IN  IF ch = "NUL" THEN IF lvl_(c) = "none" THEN Fin(c) ELSE Syntax(c)
      ELSE [res EXCEPT !.c.pos = IF res.r # "syntax" THEN @ + 1 ELSE @]

(* From the test for '\0' to the count of pos: pos counts the characters   *)
(* that were processed, not the ones that were buffered.                   *)
Process(c, ch, processed_buffered) ==
  LET res == Dispatch(c, ch)
      counts == (processed_buffered \/ res.c.buffered_ch = "none") /\ res.r # "syntax"
  IN  IF ch = "NUL" THEN IF lvl_(c) = "none" THEN Fin(c) ELSE Syntax(c)
      ELSE [res EXCEPT !.c.pos = IF counts THEN @ + 1 ELSE @]

(* (int) of the char that is put in buffered_ch                            *)
AsBuffered(ch) == IF ch = "XFF" THEN "none" ELSE ch

(* The rest of rjson_next after a buffered character was processed.  The   *)
(* recursive call finds nothing buffered.                                  *)
CatchUp(res) ==
  LET held == res.c.buffered_ch IN
  IF held = "none" \/ res.r # "ok" THEN res
  ELSE IF res.c.cur = "incomplete" THEN Process([res.c EXCEPT !.buffered_ch = "none"], held, FALSE)
  ELSE IF held = "NUL" /\ lvl_(res.c) # "none" THEN Syntax(res.c)
  ELSE res

(* With nothing buffered before the call, the rest changes nothing: what   *)
(* is buffered then is the delimiter of the number that is reported.       *)
rjson_next(c, ch) ==
  LET swapped == Process([c EXCEPT !.buffered_ch = AsBuffered(ch)], c.buffered_ch, TRUE)
  IN  CASE c.buffered_ch = "none" -> Process(c, ch, FALSE)
        [] c.buffered_ch = "NUL" -> swapped
        [] OTHER -> CatchUp(swapped)

(* rjson_cur_num: pow(10.0, exp) is applied only after an exponent, and    *)
(* exp is 0 without one.                                                   *)
rjson_cur_num(c) == [mant |-> c.num.mant, fracs |-> c.num.fracs, exp |-> c.num.exp]
============================================================================
