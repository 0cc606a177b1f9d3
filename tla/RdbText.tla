------------------------------ MODULE RdbText ------------------------------
(***************************************************************************)
(* rdb.c on any text, a hand-edited file for one: every string of at most  *)
(* MaxLen characters of Alphabet is fed to rdb_next until it says fin or   *)
(* syntax.  marks records the structure the reader saw: what it reported,  *)
(* and the ':', ',' and newlines it consumed outside strings.              *)
(***************************************************************************)
EXTENDS Rdb

CONSTANTS Alphabet, MaxLen

VARIABLES rd,       \* the reader's context
          r,        \* what the last rdb_next returned
          text,     \* the characters it has been given
          marks

textvars == <<rd, r, text, marks>>

TextInit == rd = rdb_init /\ r = "ok" /\ text = <<>> /\ marks = <<>>

Seen(res, ch) ==
  (IF res.c.ty = "incomplete" THEN <<>> ELSE <<res.c.ty>>) \o
  (IF ch \in {":", ",", "\n"} /\ rd.st \notin {"str", "long_str"} THEN <<ch>> ELSE <<>>)

Feed(ch) ==
  LET res == rdb_next(rd, ch) IN
  /\ r = "ok"
  /\ Len(text) < MaxLen
  /\ text' = Append(text, ch)
  /\ rd' = res.c
  /\ r' = res.r
  /\ marks' = IF res.r = "syntax" THEN marks ELSE marks \o Seen(res, ch)

TextNext == \E ch \in Alphabet : Feed(ch)

TextSpec == TextInit /\ [][TextNext]_textvars

-----------------------------------------------------------------------------
(* str_out and sd.boolean.word hold what is put in them, whatever the      *)
(* text: next_str_, next_long_str_, next_key_ and next_bool_ check the     *)
(* room before every character, each in its own way.                       *)
BuffersHold == Len(rd.str) <= str_mlen /\ Len(rd.word) <= word_size

Values == {"str", "num", "bool"}
ValuesAt == {k \in DOMAIN marks : marks[k] \in Values}
Between(j, k) == {marks[n] : n \in (j + 1)..(k - 1)}

(* Every value the reader reports belongs to a key: a key and its ':' come *)
(* before it, in this order and on its line (a newline inside a <string>   *)
(* does not end the line).  next_idle_ keeps got_key, expect_colon and     *)
(* is_in_arr for this across newlines and separators of every kind.        *)
ValueHasKey ==
  \A k \in ValuesAt : \E i, j \in 1..(k - 1) :
    /\ i < j
    /\ marks[i] = "key"
    /\ marks[j] = ":"
    /\ {"\n", "key"} \cap Between(i, k) = {}
(* What a number read as: its text is the longest end of what came before  *)
(* the separator made of the characters of a number.                       *)
NumberChars == Chars(digit) \cup {"-", "+", ".", "e"}
Begins(s, k) == (\A i \in k..Len(s) : s[i] \in NumberChars) /\ (k = 1 \/ s[k - 1] \notin NumberChars)
LastNumber(s) == SubSeq(s, CHOOSE k \in 1..(Len(s) + 1) : Begins(s, k), Len(s))
NumberText == LastNumber(SubSeq(text, 1, Len(text) - 1))

IsFirst(s, ch, k) == s[k] = ch /\ \A j \in 1..(k - 1) : s[j] # ch
First(s, ch) == CHOOSE k \in DOMAIN s : IsFirst(s, ch, k)
Before(s, ch) == IF ch \in Chars(s) THEN SubSeq(s, 1, First(s, ch) - 1) ELSE s
After(s, ch) == IF ch \in Chars(s) THEN SubSeq(s, First(s, ch) + 1, Len(s)) ELSE <<>>

(* The digits of s as one decimal number                                   *)
ValueOf(s) ==
  LET upto[k \in 0..Len(s)] == IF k = 0 THEN 0
                               ELSE IF IsDigit(s[k]) THEN 10 * upto[k - 1] + DigitOf(s[k]) ELSE upto[k - 1]
  IN  upto[Len(s)]
SignedValue(s) == IF "-" \in Chars(s) THEN -ValueOf(s) ELSE ValueOf(s)

(* A number reads as the decimal its text denotes: all of its digits, the  *)
(* count of them after the point, the power after "e", and their signs,    *)
(* however leading zeroes and a missing integer part were skipped.         *)
NumberValue ==
  rd.ty = "num" =>
    LET base == Before(NumberText, "e") IN
    rdb_cur_num(rd) = [neg |-> "-" \in Chars(base), mant |-> ValueOf(base),
                       fracs |-> Len(After(base, ".")), exp |-> SignedValue(After(NumberText, "e"))]
============================================================================
