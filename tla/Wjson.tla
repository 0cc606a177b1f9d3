------------------------------- MODULE Wjson -------------------------------
(***************************************************************************)
(* wjson.c, the writer of JSON.  str holds the c->len characters written   *)
(* so far.  A call that overflows the buffer has written what fitted, and  *)
(* has changed the rest of the context up to that point.                   *)
(*                                                                         *)
(* A step of a call takes the result of the step before it and does        *)
(* nothing once that is an error, as SOB_WJSON_CHECK does.                 *)
(***************************************************************************)
EXTENDS JsonChars

CONSTANTS mlen,        \* the room in the output buffer
          num_buf      \* sizeof(buf) of wjson_double: 100 in the code

ASSUME WjsonAssumption == mlen \in Nat /\ num_buf \in Nat

indentation_ == 4

(* wjson_init sets neither lvls_len nor is_first: lvls and is_first are    *)
(* what was in memory before.                                              *)
wjson_init(is_pretty, lvls, is_first) ==
  [is_pretty |-> is_pretty, str |-> <<>>, lvls |-> lvls, st |-> "none", need_comma |-> FALSE, is_first |-> is_first]

(* Mutant: no room is left for the '\0'.                                   *)
RoomForAll(c) == IF mlen = 0 THEN 0 ELSE mlen - Len(c.str)

(* The room that add_ch_ leaves for the final '\0'                         *)
Room(c) == IF mlen = 0 THEN 0 ELSE mlen - 1 - Len(c.str)

(* add_ch_ of each character: those that fit are written.                  *)
add_(res, text) ==
  LET n == IF Len(text) \in 0..Room(res.c) THEN Len(text) ELSE Room(res.c)
  IN  IF res.r # "ok" THEN res
      ELSE [c |-> [res.c EXCEPT !.str = @ \o [k \in 1..n |-> text[k]]], r |-> IF n = Len(text) THEN "ok" ELSE "overflow"]

maybe_comma_(res) ==
  LET put == add_(res, IF res.c.is_pretty THEN <<",", "\n">> ELSE <<",">>)
  IN  IF ~res.c.need_comma THEN res
      ELSE IF put.r # "ok" THEN put
      ELSE [put EXCEPT !.c.need_comma = FALSE]

maybe_newline_(res) == IF res.c.is_pretty /\ res.c.is_first THEN add_(res, <<"\n">>) ELSE res

(* A level is indented as a whole or not at all.                           *)
maybe_indent_(res) ==
  LET fit == Room(res.c) \div indentation_
      n   == IF Len(res.c.lvls) <= fit THEN Len(res.c.lvls) ELSE fit
  IN  IF res.r # "ok" \/ ~res.c.is_pretty \/ res.c.st = "want_val" THEN res
      ELSE [c |-> [res.c EXCEPT !.str = @ \o [k \in 1..(n * indentation_) |-> " "]],
            r |-> IF n = Len(res.c.lvls) THEN "ok" ELSE "overflow"]

(* How every value and key begins                                          *)
Start(c) == maybe_indent_(maybe_newline_(maybe_comma_(Ok(c))))

wjson_add_lvl_(res, ty) ==
  IF res.r # "ok" THEN res
  ELSE IF Len(res.c.lvls) = max_depth_ THEN Depth(res.c)
  ELSE [res EXCEPT !.c.lvls = Append(@, ty)]
----------------------------------------------------------------------------
(***************************************************************************)
(* Strings and literals                                                    *)
(***************************************************************************)
(* Mutant: only the characters with a meaning in a string are escaped.     *)
escape_ch_meaning(ch) == IF ch \in {"\"", "\\"} THEN <<"\\", ch>> ELSE <<ch>>

escape_ch_(ch) ==
  CASE ch = "BS" -> <<"\\", "b">> [] ch = "FF" -> <<"\\", "f">> [] ch = "\n" -> <<"\\", "n">>
    [] ch = "\r" -> <<"\\", "r">> [] ch = "\t" -> <<"\\", "t">> [] ch \in {"\"", "\\"} -> <<"\\", ch>>
    [] OTHER -> <<ch>>

Quoted(v) ==
  LET escaped[n \in 0..Len(v)] == IF n = 0 THEN <<>> ELSE escaped[n - 1] \o escape_ch_(v[n])
  IN  <<"\"">> \o escaped[Len(v)] \o <<"\"">>

(* A key in an object, or a value: need_comma is cleared for the ':' even  *)
(* when that does not fit.                                                 *)
wjson_str(c, v) ==
  LET begun == Start(c)
      put   == add_(IF begun.r = "ok" THEN [begun EXCEPT !.c.is_first = FALSE] ELSE begun, Quoted(v))
      key   == add_([put EXCEPT !.c.need_comma = FALSE], IF c.is_pretty THEN <<":", " ">> ELSE <<":">>)
  IN  IF put.r # "ok" THEN put
      ELSE IF c.st = "want_val" THEN [put EXCEPT !.c.st = "want_key", !.c.need_comma = TRUE]
      ELSE IF c.st = "none" THEN [put EXCEPT !.c.need_comma = TRUE]
      ELSE IF lvl_(c) # "obj" THEN Panic(put.c)
      ELSE IF key.r = "ok" THEN [key EXCEPT !.c.st = "want_val"] ELSE key

add_literal_(c, text) ==
  LET begun == Start(c)
      put   == add_(IF begun.r = "ok" THEN [begun EXCEPT !.c.is_first = FALSE, !.c.need_comma = TRUE] ELSE begun, text)
  IN  IF c.st = "want_key" THEN Syntax(c)
      ELSE IF put.r = "ok" /\ c.st = "want_val" THEN [put EXCEPT !.c.st = "want_key"]
      ELSE put

(* A number is [neg, mant, fracs]: mant / 10^fracs with its sign.  "%lli"  *)
(* prints no fraction and "%f" six digits of it: fracs of them here.       *)
digit == <<"0", "1", "2", "3", "4", "5", "6", "7", "8", "9">>
decimal[n \in Nat] ==
  IF n < 10 THEN <<digit[n + 1]>> ELSE Append(decimal[n \div 10], digit[(n % 10) + 1])

(* Mutant: the fraction is printed as a number of its own.                 *)
PaddedNot(d, width) == d

Padded(d, width) == [k \in 1..width |-> IF k + Len(d) <= width THEN "0" ELSE d[k + Len(d) - width]]
Minus(v) == IF v.neg THEN <<"-">> ELSE <<>>

wjson_int(c, v) == add_literal_(c, Minus(v) \o decimal[v.mant])

(* Longer than buf: an overflow before anything is written                 *)
wjson_double(c, v) ==
  LET unit == 10^v.fracs
      text == Minus(v) \o decimal[v.mant \div unit] \o <<".">> \o Padded(decimal[v.mant % unit], v.fracs)
  IN  IF c.st # "want_key" /\ Len(text) >= num_buf THEN [c |-> c, r |-> "overflow"] ELSE add_literal_(c, text)

wjson_bool(c, v) == add_literal_(c, IF v THEN <<"t", "r", "u", "e">> ELSE <<"f", "a", "l", "s", "e">>)
wjson_null(c) == add_literal_(c, <<"n", "u", "l", "l">>)
----------------------------------------------------------------------------
(***************************************************************************)
(* Objects and arrays                                                      *)
(***************************************************************************)
wjson_obj_start(c) ==
  LET put == add_(Start(c), <<"{">>)
  IN  IF c.st = "want_key" THEN Syntax(c)
      ELSE IF put.r # "ok" THEN put
      ELSE wjson_add_lvl_([put EXCEPT !.c.st = "want_key", !.c.is_first = TRUE, !.c.need_comma = FALSE], "obj")

wjson_arr_start(c) ==
  LET put == wjson_add_lvl_(add_(Start(c), <<"[">>), "arr")
  IN  IF c.st = "want_key" THEN Syntax(c)
      ELSE IF put.r # "ok" THEN put
      ELSE [put EXCEPT !.c.need_comma = FALSE, !.c.st = "none", !.c.is_first = TRUE]

(* pop_lvl_ and the line of the closing bracket: the level is gone even    *)
(* when that line does not fit.                                            *)
LastLine(c) ==
  LET popped == Ok([c EXCEPT !.lvls = Popped(@)])
  IN  IF c.is_pretty /\ ~c.is_first THEN maybe_indent_(add_(popped, <<"\n">>)) ELSE popped

wjson_obj_end(c) ==
  LET line == LastLine(c)
      next == IF lvl_(line.c) = "obj" THEN "want_key" ELSE "none"
  IN  IF lvl_(c) # "obj" \/ c.st = "want_val" THEN Syntax(c)
      ELSE IF line.r # "ok" THEN line
      ELSE add_([line EXCEPT !.c.is_first = FALSE, !.c.st = next, !.c.need_comma = TRUE], <<"}">>)

(* In an object need_comma is cleared, not set.                            *)
wjson_arr_end(c) ==
  LET line  == LastLine(c)
      outer == lvl_(line.c)
  IN  IF lvl_(c) # "arr" THEN Syntax(c)
      ELSE IF line.r # "ok" THEN line
      ELSE add_([line EXCEPT !.c.is_first = FALSE, !.c.st = IF outer = "obj" THEN "want_key" ELSE @,
                             !.c.need_comma = CASE outer = "obj" -> FALSE [] outer = "arr" -> TRUE [] OTHER -> @],
                <<"]">>)
============================================================================
