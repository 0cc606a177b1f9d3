----------------------------- MODULE JsonChars -----------------------------
(***************************************************************************)
(* What rjson.c and wjson.c have in common: the characters they tell       *)
(* apart, and the array of levels, one entry for each object or array that *)
(* is open.                                                                *)
(*                                                                         *)
(* A character is a string of length one, or "NUL" for '\0', "BS" for '\b',*)
(* "FF" for '\f', "CTL" for a control character without a case of its own, *)
(* "U8" for a byte of 128 or more, negative as a char, and "XFF" for the   *)
(* byte 255, which as a char is -1.  The letters of words and escapes      *)
(* stand for themselves, "x" for any other.                                *)
(***************************************************************************)
EXTENDS Integers, Sequences

CONSTANT max_depth_    \* 24 in the code, of both files

ASSUME MaxDepthAssumption == max_depth_ \in Nat

Digits == {"0", "1", "2", "3", "4", "5", "6", "7", "8", "9"}
DigitOf == [ch \in Digits |->
  CASE ch = "0" -> 0 [] ch = "1" -> 1 [] ch = "2" -> 2 [] ch = "3" -> 3 [] ch = "4" -> 4
    [] ch = "5" -> 5 [] ch = "6" -> 6 [] ch = "7" -> 7 [] ch = "8" -> 8 [] ch = "9" -> 9]

(* The result of a call: the context after it and what it returned, with   *)
(* "panic" where the code calls SOB_PANIC, and "depth" for the panic of    *)
(* add_lvl_.                                                               *)
Ok(c) == [c |-> c, r |-> "ok"]
Syntax(c) == [c |-> c, r |-> "syntax"]
Panic(c) == [c |-> c, r |-> "panic"]
Depth(c) == [c |-> c, r |-> "depth"]

lvl_(c) == IF c.lvls = <<>> THEN "none" ELSE c.lvls[Len(c.lvls)]

Popped(lvls) == SubSeq(lvls, 1, Len(lvls) - 1)
============================================================================
