-------------------------------- MODULE Wdb --------------------------------
(***************************************************************************)
(* wdb.c, the writer of the key-value format.  A context is                *)
(* [out, got_key, is_first_val]; out holds the c->len characters written   *)
(* so far.  Every operation restores c->len when it fails, so that it      *)
(* writes all of its text or none of it.  The operators give the context   *)
(* after the call and whether it returned wdb_ok.                          *)
(*                                                                         *)
(* Characters are those of DbChars.  Which of the two errors a call        *)
(* returns is left out: no caller tells them apart.                        *)
(***************************************************************************)
EXTENDS Naturals, Sequences, DbChars

CONSTANTS mlen,      \* the room in the output buffer
          num_buf    \* sizeof(buf) of wdb_num: 100 in the code

ASSUME WdbAssumption == mlen \in Nat /\ num_buf \in Nat

wdb_init == [out |-> <<>>, got_key |-> FALSE, is_first_val |-> FALSE]

Ok(c) == [c |-> c, ok |-> TRUE]
Fail(c) == [c |-> c, ok |-> FALSE]

(* add_ch_ and add_literal_ under SOB_WDB_CHECK_RESTORE_LEN_               *)
Fits(c, text) == Len(text) \in 0..(mlen - Len(c.out))
Added(c, text) == [c EXCEPT !.out = @ \o [k \in 1..Len(text) |-> text[k]]]

KeyChars == Letters \cup Chars(digit) \cup {".", "_", "-"}

(* A key follows a value or is the first one.                              *)
wdb_key(c, v) ==
  LET text == (IF c.got_key THEN <<"\n">> ELSE <<>>) \o v \o <<":", " ">>
  IN  IF c.got_key /\ c.is_first_val THEN Fail(c)
      ELSE IF Chars(v) \subseteq KeyChars /\ Fits(c, text)
      THEN Ok([Added(c, text) EXCEPT !.got_key = TRUE, !.is_first_val = TRUE])
      ELSE Fail(c)

(* Mutant: the values of a list are separated by a space only.             *)
ArrNoComma(c) == IF c.is_first_val THEN <<>> ELSE <<" ">>

maybe_arr_(c) == IF c.is_first_val THEN <<>> ELSE <<",", " ">>

(* Mutant: len is reset instead of restored when the value fails.          *)
ValueResetsLen(c, valid, text) ==
  LET rest == [c EXCEPT !.is_first_val = FALSE]
  IN  IF ~c.got_key \/ ~Fits(c, maybe_arr_(c)) THEN Fail(c)
      ELSE IF valid /\ Fits(c, maybe_arr_(c) \o text) THEN Ok(Added(rest, maybe_arr_(c) \o text))
      ELSE Fail([rest EXCEPT !.out = <<>>])

(* A value that fails after maybe_arr_ has already cleared is_first_val.   *)
Value(c, valid, text) ==
  LET rest == [c EXCEPT !.is_first_val = FALSE]
  IN  IF ~c.got_key \/ ~Fits(c, maybe_arr_(c)) THEN Fail(c)
      ELSE IF valid /\ Fits(c, maybe_arr_(c) \o text) THEN Ok(Added(rest, maybe_arr_(c) \o text))
      ELSE Fail(rest)

str_escape_(ch) ==
  CASE ch = "\"" -> <<"\\", "\"">>
    [] ch = "\n" -> <<"\\", "n">>
    [] ch = "\r" -> <<"\\", "r">>
    [] OTHER     -> <<ch>>

long_str_escape_(ch) ==
  CASE ch \in {"<", ">"} -> <<"\\", ch>>
    [] ch = "\r"         -> <<"\\", "r">>
    [] OTHER             -> <<ch>>

(* What the loop over the characters of a string writes for them           *)
Joined(texts) ==
  LET joined[n \in 0..Len(texts)] == IF n = 0 THEN <<>> ELSE joined[n - 1] \o texts[n]
  IN  joined[Len(texts)]

Printable(v) == Chars(v) \cap {"CTL", "U8"} = {}

wdb_str(c, v) ==
  Value(c, Printable(v), <<"\"">> \o Joined([k \in DOMAIN v |-> str_escape_(v[k])]) \o <<"\"">>)

wdb_long_str(c, v) ==
  Value(c, Printable(v), <<"<", "\n">> \o Joined([k \in DOMAIN v |-> long_str_escape_(v[k])]) \o <<"\n", ">">>)

(* A number is [neg, mant, fracs]: mant / 10^fracs with its sign.  "%li"   *)
(* prints no fraction and "%f" six digits of it: fracs of them here.       *)
decimal(n) ==
  LET upto[k \in 0..n] == IF k < 10 THEN <<digit[k + 1]>> ELSE Append(upto[k \div 10], digit[(k % 10) + 1])
  IN  upto[n]

(* n without its last k digits, for k up to m                              *)
Cuts(n, m) ==
  LET cut[k \in 0..m] == IF k = 0 THEN n ELSE cut[k - 1] \div 10
  IN  cut

Fraction(v) == [k \in 1..v.fracs |-> digit[(Cuts(v.mant, v.fracs)[v.fracs - k] % 10) + 1]]

Sign(v) == IF v.neg THEN <<"-">> ELSE <<>>

wdb_int(c, v) == Value(c, TRUE, Sign(v) \o decimal(v.mant))

wdb_num(c, v) ==
  LET text == Sign(v) \o decimal(Cuts(v.mant, v.fracs)[v.fracs]) \o <<".">> \o Fraction(v)
  IN  Value(c, Len(text) < num_buf, text)

wdb_bool(c, v) ==
  Value(c, TRUE, IF v THEN <<"t", "r", "u", "e">> ELSE <<"f", "a", "l", "s", "e">>)

wdb_fin(c) ==
  IF (c.got_key /\ c.is_first_val) \/ ~Fits(c, <<"\n", "NUL">>) THEN Fail(c)
  ELSE Ok(Added(c, <<"\n", "NUL">>))
============================================================================
