----------------------------- MODULE JsonProofs -----------------------------
(***************************************************************************)
(* Proofs about rjson.c and wjson.c, for texts and calls of any length,    *)
(* any depth and buffers of any size: no assertion of either fails, and    *)
(* both stay within their arrays.  NextFine says what one call of          *)
(* rjson_next keeps.                                                       *)
(***************************************************************************)
EXTENDS Json, TLAPS

(* A sequence of anything                                                  *)
IsSeq(s) == \E S : s \in Seq(S)

(***************************************************************************)
(* The reader's invariant.  Core is what holds between the two characters  *)
(* of one rjson_next; Ready is what holds between calls, as long as they   *)
(* return ok.                                                              *)
(***************************************************************************)
Fields ==
  {"str", "lvls", "st", "is_escape", "is_key", "num", "word_pos", "bool_is_true", "buffered_ch", "cur",
   "is_val_expected", "pos"}

InBounds(c) ==
  /\ Fields \subseteq DOMAIN c
  /\ c.lvls \in Seq({"obj", "arr"}) /\ Len(c.lvls) <= max_depth_
  /\ IsSeq(c.str) /\ Len(c.str) <= str_mlen
  /\ c.st \in {"idle", "want_key", "want_colon", "str", "num", "true", "false", "null"}

NumOk(n) == DOMAIN NoNum \subseteq DOMAIN n /\ n.part \in {"int", "leading_zero", "frac", "exp"}

Core(c) ==
  /\ InBounds(c) /\ NumOk(c.num)
  /\ c.is_val_expected \in BOOLEAN /\ c.is_key \in BOOLEAN
  /\ c.st = "want_key" => lvl_(c) = "obj" /\ c.is_val_expected
  /\ c.st = "want_colon" => lvl_(c) = "obj" /\ ~c.is_val_expected
  /\ c.st = "str" /\ c.is_key => lvl_(c) = "obj"
  /\ c.st \in {"num", "true", "false", "null"} => c.is_val_expected

Ready(c) == Core(c) /\ (c.buffered_ch # "none" => c.st = "idle" /\ ~c.is_val_expected)

(* What every handler keeps: no assertion fails, the arrays are in bounds, *)
(* pos is left to rjson_next                                               *)
Safe(c, res) ==
  /\ {"c", "r"} \subseteq DOMAIN res /\ res.r \in {"ok", "fin", "syntax", "depth"}
  /\ InBounds(res.c) /\ res.c.pos = c.pos

(* The result of Ok, Syntax, Depth and Fin                                 *)
LEMMA Results ==
  ASSUME NEW c, NEW d, InBounds(d), d.pos = c.pos
  PROVE  Safe(c, Ok(d)) /\ Safe(c, Syntax(d)) /\ Safe(c, Depth(d)) /\ Safe(c, Fin(d))
BY DEF Safe, Ok, Syntax, Depth, Fin

(* A context that differs in what no handler tests                         *)
LEMMA SameCore ==
  ASSUME NEW c, Core(c), NEW d, DOMAIN d = DOMAIN c, d.lvls = c.lvls, d.str = c.str, d.num = c.num, d.st = c.st,
         d.is_key = c.is_key, d.is_val_expected = c.is_val_expected
  PROVE  Core(d)
BY DEF Core, InBounds, lvl_
----------------------------------------------------------------------------
(***************************************************************************)
(* Words and numbers                                                       *)
(***************************************************************************)
(* next_true_, next_false_ and next_null_                                  *)
LEMMA WordSafe ==
  ASSUME NEW c, Ready(c), c.st \in {"true", "false", "null"}, c.buffered_ch = "none", NEW ch
  PROVE  Safe(c, next_word_(c, ch)) /\ (next_word_(c, ch).r = "ok" => Ready(next_word_(c, ch).c))
<1> DEFINE done == [c EXCEPT !.cur = IF c.st = "null" THEN "null" ELSE "bool", !.is_val_expected = FALSE, !.st = "idle"]
           more == [c EXCEPT !.word_pos = @ + 1]
<1>1. Core(c) /\ c.is_val_expected /\ InBounds(c) /\ Fields \subseteq DOMAIN c
  BY DEF Ready, Core, InBounds
<1>2. next_word_(c, ch) \in {Syntax(c), Ok(done), Ok(more)}
  BY <1>1, Zenon DEF next_word_
<1>3. /\ DOMAIN done = DOMAIN c /\ done.lvls = c.lvls /\ done.str = c.str /\ done.num = c.num /\ done.st = "idle"
      /\ done.is_key = c.is_key /\ done.pos = c.pos /\ done.buffered_ch = "none"
  BY <1>1 DEF Fields
<1>4. done.is_val_expected = FALSE
  BY <1>1, Zenon DEF Fields
<1>5. /\ DOMAIN more = DOMAIN c /\ more.lvls = c.lvls /\ more.str = c.str /\ more.num = c.num /\ more.st = c.st
      /\ more.is_key = c.is_key /\ more.pos = c.pos /\ more.buffered_ch = "none"
      /\ more.is_val_expected = c.is_val_expected
  BY <1>1, Zenon DEF Fields
<1> HIDE DEF done, more
<1>6. InBounds(done) /\ Core(done)
  BY <1>1, <1>3, <1>4, Zenon DEF Core, InBounds
<1>7. Core(more) /\ InBounds(more)
  BY <1>1, <1>5, SameCore, Zenon DEF Core
<1>8. Safe(c, Syntax(c)) /\ Safe(c, Ok(done)) /\ Safe(c, Ok(more))
  BY <1>1, <1>3, <1>5, <1>6, <1>7, Results
<1>9. Ready(done) /\ Ready(more)
  BY <1>3, <1>5, <1>6, <1>7 DEF Ready
<1> QED
  BY <1>2, <1>8, <1>9 DEF Ok, Syntax

(* A part of a number changes num only.                                    *)
OnlyNum(c, d) ==
  /\ DOMAIN d = DOMAIN c /\ d.lvls = c.lvls /\ d.str = c.str /\ d.st = c.st /\ d.is_key = c.is_key
  /\ d.is_val_expected = c.is_val_expected /\ d.pos = c.pos /\ d.buffered_ch = c.buffered_ch
  /\ NumOk(d.num)

NumStep(c, res) == res = Syntax(c) \/ \E d : OnlyNum(c, d) /\ res = Ok(d)

(* The integer part, up to a "." or an "e"                                 *)
LEMMA IntStep ==
  ASSUME NEW c, Core(c), NEW ch
  PROVE  NumStep(c, NumInt(c, ch))
<1> DEFINE n == c.num
           a == [c EXCEPT !.num.part = "leading_zero"]
           b == [c EXCEPT !.num.mant = 10 * @ + DigitOf[ch] * Sign(n), !.num.digit_pos = @ + 1]
           d == [c EXCEPT !.num.is_neg = TRUE]
           e == [c EXCEPT !.num.digit_pos = 0, !.num.part = "frac"]
           f == [c EXCEPT !.num.digit_pos = 0, !.num.part = "exp"]
<1>1. NumInt(c, ch) \in {Syntax(c), Ok(a), Ok(b), Ok(d), Ok(e), Ok(f)}
  BY Zenon DEF NumInt
<1>2. Fields \subseteq DOMAIN c /\ NumOk(n) /\ DOMAIN NoNum \subseteq DOMAIN n
  BY DEF Core, InBounds, NumOk
<1>3. OnlyNum(c, a) /\ OnlyNum(c, b) /\ OnlyNum(c, d) /\ OnlyNum(c, e) /\ OnlyNum(c, f)
  BY <1>2, Zenon DEF Fields, OnlyNum, NumOk, NoNum
<1> QED
  BY <1>1, <1>3 DEF NumStep

(* The fraction                                                            *)
LEMMA FracStep ==
  ASSUME NEW c, Core(c), NEW ch
  PROVE  NumStep(c, NumFrac(c, ch))
<1> DEFINE n == c.num
           a == [c EXCEPT !.num.mant = 10 * @ + DigitOf[ch] * Sign(n), !.num.fracs = n.digit_pos + 1,
                          !.num.digit_pos = @ + 1]
           b == [c EXCEPT !.num.digit_pos = 0, !.num.is_neg = FALSE, !.num.exp = 0, !.num.part = "exp"]
<1>1. NumFrac(c, ch) \in {Syntax(c), Ok(a), Ok(b)}
  BY Zenon DEF NumFrac
<1>2. Fields \subseteq DOMAIN c /\ NumOk(n) /\ DOMAIN NoNum \subseteq DOMAIN n
  BY DEF Core, InBounds, NumOk
<1>3. OnlyNum(c, a) /\ OnlyNum(c, b)
  BY <1>2, Zenon DEF Fields, OnlyNum, NumOk, NoNum
<1> QED
  BY <1>1, <1>3 DEF NumStep

(* The exponent                                                            *)
LEMMA ExpStep ==
  ASSUME NEW c, Core(c), NEW ch
  PROVE  NumStep(c, NumExp(c, ch))
<1> DEFINE n == c.num
           a == [c EXCEPT !.num.exp = 10 * @ + DigitOf[ch] * Sign(n), !.num.digit_pos = @ + 1]
           b == [c EXCEPT !.num.is_neg = (ch = "-")]
<1>1. NumExp(c, ch) \in {Syntax(c), Ok(a), Ok(b)}
  BY Zenon DEF NumExp
<1>2. Fields \subseteq DOMAIN c /\ NumOk(n) /\ DOMAIN NoNum \subseteq DOMAIN n
  BY DEF Core, InBounds, NumOk
<1>3. OnlyNum(c, a)
  BY <1>2, Zenon DEF Fields, OnlyNum, NumOk, NoNum
<1>4. OnlyNum(c, b)
  BY <1>2 DEF Fields, OnlyNum, NumOk, NoNum
<1> QED
  BY <1>1, <1>3, <1>4 DEF NumStep

(* next_num_: the character that ends a number finds nothing buffered.     *)
LEMMA NumSafe ==
  ASSUME NEW c, Core(c), c.st = "num", c.buffered_ch = "none", NEW ch
  PROVE  Safe(c, next_num_(c, ch)) /\ (next_num_(c, ch).r = "ok" => Ready(next_num_(c, ch).c))
<1> DEFINE res == next_num_(c, ch)
           done == [c EXCEPT !.cur = "num", !.buffered_ch = ch, !.is_val_expected = FALSE, !.st = "idle"]
           frac == [c EXCEPT !.num.part = "frac"]
<1>1. c.is_val_expected /\ InBounds(c) /\ Fields \subseteq DOMAIN c /\ NumOk(c.num) /\ DOMAIN NoNum \subseteq DOMAIN c.num
      /\ c.num.part \in {"int", "leading_zero", "frac", "exp"}
  BY DEF Core, InBounds, NumOk
<1>2. \/ res \in {Syntax(c), Ok(done), Ok(frac)}
      \/ res = NumInt(c, ch) \/ res = NumFrac(c, ch) \/ res = NumExp(c, ch)
  BY <1>1 DEF next_num_, NumEnd
<1>3. OnlyNum(c, frac)
  BY <1>1, Zenon DEF Fields, OnlyNum, NumOk, NoNum
<1>4. res = Ok(done) \/ NumStep(c, res)
  BY <1>2, <1>3, IntStep, FracStep, ExpStep DEF NumStep
<1>5. CASE res = Ok(done)
  <2>1. /\ DOMAIN done = DOMAIN c /\ done.lvls = c.lvls /\ done.str = c.str /\ done.num = c.num /\ done.st = "idle"
        /\ done.is_key = c.is_key /\ done.pos = c.pos
    BY <1>1 DEF Fields
  <2>2. done.is_val_expected = FALSE
    BY <1>1, Zenon DEF Fields
  <2> HIDE DEF done
  <2>3. Core(done) /\ InBounds(done)
    BY <1>1, <2>1, <2>2, Zenon DEF Core, InBounds
  <2>4. Ready(done)
    BY <2>1, <2>2, <2>3 DEF Ready
  <2> QED BY <1>5, <2>1, <2>3, <2>4, Results DEF Ok
<1>6. CASE res = Syntax(c)
  BY <1>1, <1>6, Results DEF Syntax
<1>7. ASSUME NEW d, OnlyNum(c, d), res = Ok(d)
      PROVE  Safe(c, res) /\ (res.r = "ok" => Ready(res.c))
  <2>1. Core(d) /\ InBounds(d)
    BY <1>7 DEF OnlyNum, Core, InBounds, lvl_
  <2>2. Ready(d) /\ d.pos = c.pos
    BY <1>7, <2>1 DEF Ready, OnlyNum
  <2> HIDE DEF res
  <2> QED BY <1>7, <2>1, <2>2, Results DEF Ok
<1> QED
  BY <1>4, <1>5, <1>6, <1>7 DEF NumStep
----------------------------------------------------------------------------
(***************************************************************************)
(* Strings                                                                 *)
(***************************************************************************)

(* One more character, if there is room                                    *)
LEMMA AddSafe ==
  ASSUME NEW c, Core(c), c.st = "str", c.buffered_ch = "none", NEW ch
  PROVE  Safe(c, add_str_ch_(c, ch)) /\ (add_str_ch_(c, ch).r = "ok" => Ready(add_str_ch_(c, ch).c))
<1> DEFINE d == [c EXCEPT !.str = Append(@, ch)]
<1>1. InBounds(c) /\ Fields \subseteq DOMAIN c /\ IsSeq(c.str) /\ Len(c.str) <= str_mlen
  BY DEF Core, InBounds
<1>2. CASE Len(c.str) = str_mlen
  BY <1>1, <1>2, Results DEF add_str_ch_, Syntax
<1>3. CASE Len(c.str) # str_mlen
  <2>1. /\ DOMAIN d = DOMAIN c /\ d.lvls = c.lvls /\ d.str = Append(c.str, ch) /\ d.num = c.num /\ d.st = c.st
        /\ d.is_key = c.is_key /\ d.pos = c.pos /\ d.buffered_ch = c.buffered_ch /\ d.is_val_expected = c.is_val_expected
    BY <1>1 DEF Fields
  <2>2. PICK S : c.str \in Seq(S)
    BY <1>1 DEF IsSeq
  <2>3. Append(c.str, ch) \in Seq(S \cup {ch}) /\ Len(Append(c.str, ch)) <= str_mlen
    <3>1. c.str \in Seq(S \cup {ch})
      BY <2>2
    <3> QED BY <1>1, <1>3, <3>1, StrMlenAssumption
  <2> HIDE DEF d
  <2>4. InBounds(d)
    BY <1>1, <2>1, <2>3 DEF InBounds, IsSeq
  <2>5. Core(d)
    BY <2>1, <2>4 DEF Core, lvl_
  <2>6. Ready(d)
    BY <2>1, <2>5 DEF Ready
  <2>7. add_str_ch_(c, ch) = Ok(d)
    BY <1>3 DEF add_str_ch_, d
  <2> QED BY <2>1, <2>4, <2>6, <2>7, Results DEF Ok
<1> QED
  BY <1>2, <1>3

(* The quote that ends a string: a key is in an object.                    *)
LEMMA StrEndSafe ==
  ASSUME NEW c, Core(c), c.st = "str", c.buffered_ch = "none"
  PROVE  Safe(c, StrEnd(c)) /\ (StrEnd(c).r = "ok" => Ready(StrEnd(c).c))
<1> DEFINE d == [c EXCEPT !.cur = "str", !.is_val_expected = FALSE, !.st = IF c.is_key THEN "want_colon" ELSE "idle"]
<1>1. InBounds(c) /\ Fields \subseteq DOMAIN c /\ NumOk(c.num) /\ c.is_key \in BOOLEAN /\ (c.is_key => lvl_(c) = "obj")
  BY DEF Core, InBounds
<1>2. /\ DOMAIN d = DOMAIN c /\ d.lvls = c.lvls /\ d.str = c.str /\ d.num = c.num
      /\ d.is_key = c.is_key /\ d.pos = c.pos /\ d.buffered_ch = c.buffered_ch
  BY <1>1 DEF Fields
<1>3. d.is_val_expected = FALSE
  BY <1>1, Zenon DEF Fields
<1>4. d.st = IF c.is_key THEN "want_colon" ELSE "idle"
  BY <1>1 DEF Fields
<1>5. StrEnd(c) = Syntax(d) \/ StrEnd(c) = Ok(d)
  BY Zenon DEF StrEnd
<1> HIDE DEF d
<1>6. Core(d) /\ InBounds(d)
  BY <1>1, <1>2, <1>3, <1>4, Zenon DEF Core, InBounds, lvl_
<1>7. Ready(d)
  BY <1>2, <1>6 DEF Ready
<1>8. Safe(c, Ok(d)) /\ Safe(c, Syntax(d)) /\ Ok(d).c = d /\ Syntax(d).r # "ok"
  BY <1>2, <1>6, Results DEF Ok, Syntax
<1> QED
  BY <1>5, <1>7, <1>8

(* next_str_                                                               *)
LEMMA StrSafe ==
  ASSUME NEW c0, Core(c0), c0.st = "str", c0.buffered_ch = "none", NEW ch
  PROVE  Safe(c0, next_str_(c0, ch)) /\ (next_str_(c0, ch).r = "ok" => Ready(next_str_(c0, ch).c))
<1> DEFINE c == [c0 EXCEPT !.cur = "incomplete"]
           e == [c EXCEPT !.is_escape = FALSE]
           f == [c EXCEPT !.is_escape = TRUE]
<1>1. Fields \subseteq DOMAIN c0
  BY DEF Core, InBounds
<1>2. /\ DOMAIN c = DOMAIN c0 /\ c.lvls = c0.lvls /\ c.str = c0.str /\ c.num = c0.num /\ c.st = "str"
      /\ c.is_key = c0.is_key /\ c.pos = c0.pos /\ c.buffered_ch = "none" /\ c.is_val_expected = c0.is_val_expected
  BY <1>1 DEF Fields
<1>3. next_str_(c0, ch) = IF c.is_key /\ lvl_(c) # "obj" THEN Panic(c0)
                          ELSE IF ch \in Controls THEN Syntax(c)
                          ELSE IF c.is_escape
                          THEN IF ch \in DOMAIN str_escape_ THEN add_str_ch_(e, str_escape_[ch]) ELSE Syntax(c)
                          ELSE IF ch = "\\" THEN Ok(f)
                          ELSE IF ch = "\"" THEN StrEnd(c)
                          ELSE add_str_ch_(c, ch)
  BY DEF next_str_
<1> HIDE DEF c
<1>4. Core(c) /\ InBounds(c) /\ (c.is_key => lvl_(c) = "obj")
  BY <1>2, SameCore DEF Core
<1>5. \A d \in {e, f} :
        /\ DOMAIN d = DOMAIN c /\ d.lvls = c.lvls /\ d.str = c.str /\ d.num = c.num /\ d.st = "str"
        /\ d.is_key = c.is_key /\ d.pos = c.pos /\ d.buffered_ch = "none" /\ d.is_val_expected = c.is_val_expected
  BY <1>1, <1>2 DEF Fields
<1> HIDE DEF e, f
<1>6. Core(e) /\ Core(f) /\ InBounds(f) /\ Ready(f)
  BY <1>2, <1>4, <1>5, SameCore DEF Core, Ready
<1>7. next_str_(c0, ch) \in {Syntax(c), add_str_ch_(e, str_escape_[ch]), Ok(f), StrEnd(c), add_str_ch_(c, ch)}
  BY <1>3, <1>4, Zenon
<1>8. \A res : Safe(c, res) \/ Safe(e, res) => Safe(c0, res)
  BY <1>2, <1>5 DEF Safe
<1>9. Safe(c0, Syntax(c)) /\ Safe(c0, Ok(f))
  BY <1>2, <1>4, <1>5, <1>6, Results
<1>10. Syntax(c).r # "ok" /\ Ok(f).c = f
  BY DEF Syntax, Ok
<1>11. Safe(c0, StrEnd(c)) /\ (StrEnd(c).r = "ok" => Ready(StrEnd(c).c))
  BY <1>2, <1>4, <1>8, StrEndSafe
<1>12. ASSUME NEW x PROVE Safe(c0, add_str_ch_(c, x)) /\ (add_str_ch_(c, x).r = "ok" => Ready(add_str_ch_(c, x).c))
  BY <1>2, <1>4, <1>8, AddSafe
<1>13. ASSUME NEW x PROVE Safe(c0, add_str_ch_(e, x)) /\ (add_str_ch_(e, x).r = "ok" => Ready(add_str_ch_(e, x).c))
  BY <1>5, <1>6, <1>8, AddSafe
<1> QED
  BY <1>6, <1>7, <1>9, <1>10, <1>11, <1>12, <1>13
----------------------------------------------------------------------------
(***************************************************************************)
(* Structure                                                               *)
(***************************************************************************)
(* A level that is closed leaves the reader idle, after a value.           *)
LEMMA PopSafe ==
  ASSUME NEW c, Core(c), c.lvls # <<>>, NEW ty \in {"obj_end", "arr_end"}
  PROVE  LET res == pop_lvl_(c, ty) IN
         /\ Safe(c, res) /\ Core(res.c)
         /\ res.c.st = "idle" /\ ~res.c.is_val_expected /\ res.c.buffered_ch = c.buffered_ch
<1> DEFINE d == [c EXCEPT !.lvls = Popped(@), !.st = "idle", !.cur = ty, !.is_val_expected = FALSE]
<1>1. InBounds(c) /\ Fields \subseteq DOMAIN c /\ NumOk(c.num) /\ c.is_key \in BOOLEAN
  BY DEF Core, InBounds
<1>2. /\ DOMAIN d = DOMAIN c /\ d.lvls = Popped(c.lvls) /\ d.str = c.str /\ d.num = c.num /\ d.st = "idle"
      /\ d.is_key = c.is_key /\ d.pos = c.pos /\ d.buffered_ch = c.buffered_ch
  BY <1>1 DEF Fields
<1>3. d.is_val_expected = FALSE
  BY <1>1, Zenon DEF Fields
<1>4. pop_lvl_(c, ty) = Fin(d) \/ pop_lvl_(c, ty) = Ok(d)
  BY Zenon DEF pop_lvl_
<1>5. Popped(c.lvls) \in Seq({"obj", "arr"}) /\ Len(Popped(c.lvls)) <= max_depth_
  <2>1. c.lvls \in Seq({"obj", "arr"}) /\ Len(c.lvls) \in Nat /\ Len(c.lvls) # 0 /\ Len(c.lvls) <= max_depth_
    BY <1>1 DEF InBounds
  <2> QED BY <2>1, MaxDepthAssumption DEF Popped
<1> HIDE DEF d
<1>6. Core(d) /\ InBounds(d)
  BY <1>1, <1>2, <1>3, <1>5, Zenon DEF Core, InBounds
<1>7. Safe(c, Fin(d)) /\ Safe(c, Ok(d)) /\ Fin(d).c = d /\ Ok(d).c = d
  BY <1>2, <1>6, Results DEF Fin, Ok
<1> QED
  BY <1>2, <1>3, <1>4, <1>6, <1>7

(* A level that is opened: the panic of a full array is the text's doing.  *)
LEMMA LevelSafe ==
  ASSUME NEW c, Core(c), c.buffered_ch = "none", c.is_val_expected, c.st = "idle",
         NEW ty, NEW st, NEW cur, (ty = "obj" /\ st = "want_key") \/ (ty = "arr" /\ st = "idle")
  PROVE  Safe(c, add_lvl_(c, ty, st, cur)) /\ (add_lvl_(c, ty, st, cur).r = "ok" => Ready(add_lvl_(c, ty, st, cur).c))
<1> DEFINE d == [c EXCEPT !.lvls = Append(@, ty), !.st = st, !.cur = cur]
           l == Append(c.lvls, ty)
<1>1. InBounds(c) /\ Fields \subseteq DOMAIN c /\ NumOk(c.num) /\ c.is_key \in BOOLEAN /\ c.is_val_expected \in BOOLEAN
  BY DEF Core, InBounds
<1>2. CASE Len(c.lvls) = max_depth_
  <2>1. add_lvl_(c, ty, st, cur) = Depth(c) /\ Depth(c).r # "ok"
    BY <1>2 DEF add_lvl_, Depth
  <2> QED BY <1>1, <2>1, Results
<1>3. CASE Len(c.lvls) # max_depth_
  <2>1. /\ DOMAIN d = DOMAIN c /\ d.lvls = l /\ d.str = c.str /\ d.num = c.num /\ d.st = st
        /\ d.is_key = c.is_key /\ d.pos = c.pos /\ d.buffered_ch = "none" /\ d.is_val_expected = c.is_val_expected
    BY <1>1, Zenon DEF Fields
  <2>2. add_lvl_(c, ty, st, cur) = Ok(d)
    BY <1>3 DEF add_lvl_
  <2>3. c.lvls \in Seq({"obj", "arr"}) /\ Len(c.lvls) \in Nat /\ Len(c.lvls) <= max_depth_
    BY <1>1 DEF InBounds
  <2>4. l \in Seq({"obj", "arr"}) /\ Len(l) = Len(c.lvls) + 1 /\ Len(l) <= max_depth_ /\ l[Len(l)] = ty /\ l # <<>>
    BY <1>3, <2>3, MaxDepthAssumption
  <2> HIDE DEF d, l
  <2>5. InBounds(d) /\ lvl_(d) = ty
    BY <1>1, <2>1, <2>4 DEF InBounds, lvl_
  <2>6. Core(d)
    BY <1>1, <2>1, <2>5 DEF Core
  <2>7. Ready(d)
    BY <2>1, <2>6 DEF Ready
  <2>8. Safe(c, Ok(d)) /\ Ok(d).c = d
    BY <2>1, <2>5, Results DEF Ok
  <2> QED BY <2>2, <2>7, <2>8
<1> QED
  BY <1>2, <1>3

(* What set_st_ makes of a context                                         *)
SetTo(c, d, st) ==
  /\ InBounds(d) /\ NumOk(d.num) /\ d.lvls = c.lvls /\ d.st = st /\ d.pos = c.pos /\ d.buffered_ch = "none"
  /\ d.is_val_expected = c.is_val_expected /\ d.is_key \in BOOLEAN /\ (st = "str" => d.is_key = FALSE)

(* It keeps the arrays in bounds, and the level and what is expected.      *)
LEMMA SetSt ==
  ASSUME NEW c, Core(c), c.buffered_ch = "none", NEW st \in {"str", "num", "true", "false", "null"}
  PROVE  SetTo(c, set_st_(c, st), st)
<1>1. InBounds(c) /\ Fields \subseteq DOMAIN c /\ NumOk(c.num) /\ c.is_key \in BOOLEAN
  BY DEF Core, InBounds
<1>2. CASE st = "str"
  <2> DEFINE d == [c EXCEPT !.st = st, !.str = <<>>, !.is_escape = FALSE, !.is_key = FALSE]
  <2>1. set_st_(c, st) = d
    BY <1>2 DEF set_st_
  <2>2. /\ DOMAIN d = DOMAIN c /\ d.lvls = c.lvls /\ d.str = <<>> /\ d.num = c.num /\ d.st = st /\ d.pos = c.pos
        /\ d.buffered_ch = "none" /\ d.is_val_expected = c.is_val_expected
    BY <1>1 DEF Fields
  <2>3. d.is_key = FALSE
    BY <1>1, Zenon DEF Fields
  <2>4. IsSeq(<<>>) /\ Len(<<>>) <= str_mlen
    <3>1. <<>> \in Seq({})
      OBVIOUS
    <3>2. Len(<<>>) <= str_mlen
      BY StrMlenAssumption
    <3> QED BY <3>1, <3>2 DEF IsSeq
  <2> HIDE DEF d
  <2>5. InBounds(d)
    BY <1>1, <2>2, <2>4 DEF InBounds
  <2> QED BY <1>1, <2>1, <2>2, <2>3, <2>5, Zenon DEF SetTo
<1>3. CASE st = "num"
  <2> DEFINE d == [c EXCEPT !.st = st, !.num = NoNum]
  <2>1. set_st_(c, st) = d
    BY <1>3 DEF set_st_
  <2>2. /\ DOMAIN d = DOMAIN c /\ d.lvls = c.lvls /\ d.str = c.str /\ d.num = NoNum /\ d.st = st /\ d.pos = c.pos
        /\ d.buffered_ch = "none" /\ d.is_val_expected = c.is_val_expected /\ d.is_key = c.is_key
    BY <1>1 DEF Fields
  <2>3. NumOk(NoNum)
    BY DEF NumOk, NoNum
  <2> HIDE DEF d
  <2>4. InBounds(d)
    BY <1>1, <2>2 DEF InBounds
  <2> QED BY <1>1, <1>3, <2>1, <2>2, <2>3, <2>4 DEF SetTo
<1>4. CASE st \in {"true", "false", "null"}
  <2> DEFINE d == set_st_(c, st)
  <2>1. /\ DOMAIN d = DOMAIN c /\ d.lvls = c.lvls /\ d.str = c.str /\ d.num = c.num /\ d.st = st /\ d.pos = c.pos
        /\ d.buffered_ch = "none" /\ d.is_val_expected = c.is_val_expected /\ d.is_key = c.is_key
    BY <1>1, <1>4, Zenon DEF Fields, set_st_
  <2> HIDE DEF d
  <2>2. InBounds(d)
    BY <1>1, <2>1 DEF InBounds
  <2>3. SetTo(c, d, st)
    BY <1>1, <1>4, <2>1, <2>2 DEF SetTo
  <2> QED BY <2>3 DEF d
<1> QED
  BY <1>2, <1>3, <1>4

(* The first character of a value                                          *)
LEMMA BeginSafe ==
  ASSUME NEW c, Core(c), c.st = "idle", c.is_val_expected, c.buffered_ch = "none", NEW ch
  PROVE  Safe(c, Begin(c, ch)) /\ (Begin(c, ch).r = "ok" => Ready(Begin(c, ch).c))
<1> DEFINE obj == add_lvl_(c, "obj", "want_key", "obj_start")
           arr == add_lvl_(c, "arr", "idle", "arr_start")
           s == set_st_(c, "str")
           str == [s EXCEPT !.is_val_expected = FALSE]
           Fine(res) == Safe(c, res) /\ (res.r = "ok" => Ready(res.c))
<1>1. \/ \E st \in {"true", "false", "null"} : Begin(c, ch) = next_word_(set_st_(c, st), ch)
      \/ Begin(c, ch) \in {next_num_(set_st_(c, "num"), ch), obj, arr, Ok(str), Syntax(c)}
  BY DEF Begin
<1>2. ASSUME NEW st \in {"true", "false", "null"} PROVE Fine(next_word_(set_st_(c, st), ch))
  <2> DEFINE d == set_st_(c, st)
  <2>1. /\ InBounds(d) /\ NumOk(d.num) /\ d.lvls = c.lvls /\ d.st = st /\ d.pos = c.pos /\ d.buffered_ch = "none"
        /\ d.is_val_expected = c.is_val_expected /\ d.is_key \in BOOLEAN
    <3>1. st \in {"str", "num", "true", "false", "null"}
      BY <1>2
    <3>2. SetTo(c, set_st_(c, st), st)
      BY <3>1, SetSt
    <3> QED BY <3>2 DEF SetTo
  <2> HIDE DEF d
  <2>2. c.is_val_expected \in BOOLEAN
    BY DEF Core
  <2>3. Ready(d)
    BY <2>1, <2>2 DEF Core, Ready
  <2>4. Safe(d, next_word_(d, ch)) /\ (next_word_(d, ch).r = "ok" => Ready(next_word_(d, ch).c))
    BY <1>2, <2>1, <2>3, WordSafe
  <2>5. Fine(next_word_(d, ch))
    BY <2>1, <2>4 DEF Safe
  <2> QED BY <2>5 DEF d
<1>3. Fine(next_num_(set_st_(c, "num"), ch))
  <2> DEFINE d == set_st_(c, "num")
  <2>1. /\ InBounds(d) /\ NumOk(d.num) /\ d.lvls = c.lvls /\ d.st = "num" /\ d.pos = c.pos /\ d.buffered_ch = "none"
        /\ d.is_val_expected = c.is_val_expected /\ d.is_key \in BOOLEAN
    BY SetSt, Zenon DEF SetTo
  <2> HIDE DEF d
  <2>2. c.is_val_expected \in BOOLEAN
    BY DEF Core
  <2>3. Core(d)
    BY <2>1, <2>2 DEF Core
  <2>4. Safe(d, next_num_(d, ch)) /\ (next_num_(d, ch).r = "ok" => Ready(next_num_(d, ch).c))
    BY <2>1, <2>3, NumSafe
  <2>5. Fine(next_num_(d, ch))
    BY <2>1, <2>4 DEF Safe
  <2> QED BY <2>5 DEF d
<1>4. Fine(obj) /\ Fine(arr)
  BY LevelSafe
<1>5. Fine(Ok(str))
  <2>1. /\ InBounds(s) /\ NumOk(s.num) /\ s.lvls = c.lvls /\ s.st = "str" /\ s.pos = c.pos /\ s.buffered_ch = "none"
        /\ s.is_key = FALSE
    BY SetSt, Zenon DEF SetTo
  <2> HIDE DEF s
  <2>2. Fields \subseteq DOMAIN s
    BY <2>1 DEF InBounds
  <2>3. /\ DOMAIN str = DOMAIN s /\ str.lvls = s.lvls /\ str.str = s.str /\ str.num = s.num /\ str.st = s.st
        /\ str.pos = s.pos /\ str.buffered_ch = s.buffered_ch /\ str.is_key = s.is_key
    BY <2>2 DEF Fields
  <2>4. str.is_val_expected = FALSE
    BY <2>2, Zenon DEF Fields
  <2> HIDE DEF str
  <2>5. InBounds(str)
    BY <2>1, <2>3 DEF InBounds
  <2>6. Ready(str)
    BY <2>1, <2>3, <2>4, <2>5, Zenon DEF Core, Ready
  <2>7. Safe(c, Ok(str)) /\ Ok(str).c = str
    BY <2>1, <2>3, <2>5, Results DEF Ok
  <2> QED BY <2>6, <2>7
<1>6. Fine(Syntax(c))
  <2>1. InBounds(c) /\ Syntax(c).r # "ok"
    BY DEF Core, Syntax
  <2> QED BY <2>1, Results
<1>7. Fine(Begin(c, ch))
  <2> HIDE DEF Fine, obj, arr, str
  <2> QED BY <1>1, <1>2, <1>3, <1>4, <1>5, <1>6
<1> QED
  BY <1>7

(* What follows a value; a character may be buffered meanwhile.            *)
LEMMA FollowSafe ==
  ASSUME NEW c, Core(c), c.st = "idle", ~c.is_val_expected, c.cur = "incomplete", NEW ch
  PROVE  LET res == Follow(c, ch) IN
         /\ Safe(c, res)
         /\ res.r = "ok" => /\ Core(res.c) /\ res.c.buffered_ch = c.buffered_ch
                            /\ res.c.cur # "incomplete" => res.c.st = "idle" /\ ~res.c.is_val_expected
<1> DEFINE d == [c EXCEPT !.is_val_expected = TRUE, !.st = IF lvl_(c) = "obj" THEN "want_key" ELSE "idle"]
           Fine(res) == /\ Safe(c, res)
                        /\ res.r = "ok" => /\ Core(res.c) /\ res.c.buffered_ch = c.buffered_ch
                                           /\ res.c.cur # "incomplete" => res.c.st = "idle" /\ ~res.c.is_val_expected
<1>1. \/ lvl_(c) = "obj" /\ Follow(c, ch) = pop_lvl_(c, "obj_end")
      \/ lvl_(c) = "arr" /\ Follow(c, ch) = pop_lvl_(c, "arr_end")
      \/ Follow(c, ch) \in {Ok(d), Syntax(c)}
  BY DEF Follow
<1>2. lvl_(c) \in {"obj", "arr"} => c.lvls # <<>>
  BY DEF lvl_
<1>3. lvl_(c) \in {"obj", "arr"} => Fine(pop_lvl_(c, "obj_end")) /\ Fine(pop_lvl_(c, "arr_end"))
  BY <1>2, PopSafe
<1>4. Fine(Ok(d))
  <2>1. InBounds(c) /\ Fields \subseteq DOMAIN c /\ NumOk(c.num) /\ c.is_key \in BOOLEAN
    BY DEF Core, InBounds
  <2>2. /\ DOMAIN d = DOMAIN c /\ d.lvls = c.lvls /\ d.str = c.str /\ d.num = c.num /\ d.cur = c.cur
        /\ d.is_key = c.is_key /\ d.pos = c.pos /\ d.buffered_ch = c.buffered_ch
    BY <2>1 DEF Fields
  <2>3. d.is_val_expected = TRUE
    BY <2>1, Zenon DEF Fields
  <2>4. d.st = IF lvl_(c) = "obj" THEN "want_key" ELSE "idle"
    BY <2>1 DEF Fields
  <2> HIDE DEF d
  <2>5. InBounds(d) /\ lvl_(d) = lvl_(c)
    BY <2>1, <2>2, <2>4 DEF InBounds, lvl_
  <2>6. Core(d)
    BY <2>1, <2>2, <2>3, <2>4, <2>5, Zenon DEF Core
  <2>7. Safe(c, Ok(d)) /\ Ok(d).c = d
    BY <2>2, <2>5, Results DEF Ok
  <2> QED BY <2>2, <2>6, <2>7
<1>5. Fine(Syntax(c))
  <2>1. InBounds(c) /\ Syntax(c).r # "ok"
    BY DEF Core, Syntax
  <2> QED BY <2>1, Results
<1>6. Fine(Follow(c, ch))
  <2> HIDE DEF Fine, d
  <2> QED BY <1>1, <1>3, <1>4, <1>5
<1> QED
  BY <1>6

(* What the handlers leave for the next call                               *)
Fine(c, res) == Safe(c, res) /\ (res.r = "ok" => Ready(res.c))

(* ... and for the rest of this one                                        *)
Between(c, res) ==
  /\ Safe(c, res)
  /\ res.r = "ok" => /\ Core(res.c) /\ res.c.buffered_ch = c.buffered_ch
                     /\ res.c.cur # "incomplete" => res.c.st = "idle" /\ ~res.c.is_val_expected

(* next_idle_ after a value, whatever is buffered                          *)
LEMMA IdleBetween ==
  ASSUME NEW c0, Core(c0), c0.st = "idle", ~c0.is_val_expected, NEW ch
  PROVE  Between(c0, next_idle_(c0, ch))
<1> DEFINE c == [c0 EXCEPT !.cur = "incomplete"]
<1>1. Fields \subseteq DOMAIN c0
  BY DEF Core, InBounds
<1>2. /\ DOMAIN c = DOMAIN c0 /\ c.lvls = c0.lvls /\ c.str = c0.str /\ c.num = c0.num /\ c.st = "idle"
      /\ c.is_key = c0.is_key /\ c.pos = c0.pos /\ c.buffered_ch = c0.buffered_ch
      /\ c.is_val_expected = c0.is_val_expected /\ c.cur = "incomplete"
  BY <1>1 DEF Fields
<1>3. next_idle_(c0, ch) \in {Ok(c), Syntax(c), Follow(c, ch)}
  BY <1>2 DEF next_idle_
<1> HIDE DEF c
<1>4. Core(c) /\ InBounds(c)
  BY <1>2, SameCore DEF Core
<1>5. Safe(c0, Ok(c)) /\ Safe(c0, Syntax(c)) /\ Ok(c).c = c /\ Syntax(c).r # "ok"
  BY <1>2, <1>4, Results DEF Ok, Syntax
<1>6. Between(c0, Ok(c)) /\ Between(c0, Syntax(c))
  BY <1>2, <1>4, <1>5 DEF Between
<1>7. Between(c, Follow(c, ch))
  BY <1>2, <1>4, FollowSafe DEF Between
<1>8. Between(c0, Follow(c, ch))
  BY <1>2, <1>7 DEF Between, Safe
<1> QED
  BY <1>3, <1>6, <1>8

(* next_idle_ with nothing buffered                                        *)
LEMMA IdleFine ==
  ASSUME NEW c0, Core(c0), c0.st = "idle", c0.buffered_ch = "none", NEW ch
  PROVE  Fine(c0, next_idle_(c0, ch))
<1>1. CASE ~c0.is_val_expected
  BY <1>1, IdleBetween DEF Between, Fine, Ready
<1>2. CASE c0.is_val_expected
  <2> DEFINE c == [c0 EXCEPT !.cur = "incomplete"]
  <2>1. Fields \subseteq DOMAIN c0
    BY DEF Core, InBounds
  <2>2. /\ DOMAIN c = DOMAIN c0 /\ c.lvls = c0.lvls /\ c.str = c0.str /\ c.num = c0.num /\ c.st = "idle"
        /\ c.is_key = c0.is_key /\ c.pos = c0.pos /\ c.buffered_ch = "none"
        /\ c.is_val_expected = c0.is_val_expected
    BY <2>1 DEF Fields
  <2>3. next_idle_(c0, ch) \in {Ok(c), Syntax(c), Begin(c, ch)}
    BY <1>2, <2>2 DEF next_idle_
  <2> HIDE DEF c
  <2>4. Core(c) /\ InBounds(c) /\ Ready(c)
    BY <2>2, SameCore DEF Core, Ready
  <2>5. Safe(c0, Ok(c)) /\ Safe(c0, Syntax(c)) /\ Ok(c).c = c /\ Syntax(c).r # "ok"
    BY <2>2, <2>4, Results DEF Ok, Syntax
  <2>6. Fine(c, Begin(c, ch))
    BY <1>2, <2>2, <2>4, BeginSafe, Zenon DEF Fine
  <2>7. Fine(c0, Begin(c, ch))
    BY <2>2, <2>6 DEF Fine, Safe
  <2> QED BY <2>3, <2>4, <2>5, <2>7 DEF Fine
<1> QED
  BY <1>1, <1>2

(* next_want_key_                                                          *)
LEMMA WantKeyFine ==
  ASSUME NEW c, Core(c), c.st = "want_key", c.buffered_ch = "none", NEW ch
  PROVE  Fine(c, next_want_key_(c, ch))
<1> DEFINE s == set_st_(c, "str")
           str == [s EXCEPT !.is_key = TRUE, !.cur = "incomplete"]
<1>1. InBounds(c) /\ lvl_(c) = "obj" /\ c.is_val_expected /\ c.is_val_expected \in BOOLEAN /\ Ready(c)
  BY DEF Core, Ready
<1>2. next_want_key_(c, ch) \in {Ok(c), Ok(str), pop_lvl_(c, "obj_end"), Syntax(c)}
  BY <1>1, Zenon DEF next_want_key_
<1>3. Fine(c, Ok(c)) /\ Fine(c, Syntax(c))
  <2>1. Ok(c).c = c /\ Syntax(c).r # "ok"
    BY DEF Ok, Syntax
  <2> QED BY <1>1, <2>1, Results DEF Fine
<1>4. Fine(c, pop_lvl_(c, "obj_end"))
  <2>1. c.lvls # <<>>
    BY <1>1 DEF lvl_
  <2> QED BY <2>1, PopSafe DEF Fine, Ready
<1>5. Fine(c, Ok(str))
  <2>1. /\ InBounds(s) /\ NumOk(s.num) /\ s.lvls = c.lvls /\ s.st = "str" /\ s.pos = c.pos /\ s.buffered_ch = "none"
        /\ s.is_val_expected = c.is_val_expected
    BY SetSt, Zenon DEF SetTo
  <2> HIDE DEF s
  <2>2. Fields \subseteq DOMAIN s
    BY <2>1 DEF InBounds
  <2>3. /\ DOMAIN str = DOMAIN s /\ str.lvls = s.lvls /\ str.str = s.str /\ str.num = s.num /\ str.st = s.st
        /\ str.pos = s.pos /\ str.buffered_ch = s.buffered_ch /\ str.is_val_expected = s.is_val_expected
    BY <2>2 DEF Fields
  <2>4. str.is_key = TRUE
    BY <2>2, Zenon DEF Fields
  <2> HIDE DEF str
  <2>5. InBounds(str) /\ lvl_(str) = lvl_(c)
    BY <2>1, <2>3 DEF InBounds, lvl_
  <2>6. Ready(str)
    BY <1>1, <2>1, <2>3, <2>4, <2>5, Zenon DEF Core, Ready
  <2>7. Safe(c, Ok(str)) /\ Ok(str).c = str
    BY <2>1, <2>3, <2>5, Results DEF Ok
  <2> QED BY <2>6, <2>7 DEF Fine
<1> QED
  BY <1>2, <1>3, <1>4, <1>5

(* next_want_colon_                                                        *)
LEMMA WantColonFine ==
  ASSUME NEW c, Core(c), c.st = "want_colon", c.buffered_ch = "none", NEW ch
  PROVE  Fine(c, next_want_colon_(c, ch))
<1> DEFINE d == [c EXCEPT !.st = "idle", !.cur = "incomplete", !.is_val_expected = TRUE]
<1>1. InBounds(c) /\ lvl_(c) = "obj" /\ ~c.is_val_expected /\ Ready(c) /\ Fields \subseteq DOMAIN c /\ NumOk(c.num)
      /\ c.is_key \in BOOLEAN
  BY DEF Core, Ready, InBounds
<1>2. next_want_colon_(c, ch) \in {Ok(c), Ok(d), Syntax(c)}
  BY <1>1, Zenon DEF next_want_colon_
<1>3. Fine(c, Ok(c)) /\ Fine(c, Syntax(c))
  <2>1. Ok(c).c = c /\ Syntax(c).r # "ok"
    BY DEF Ok, Syntax
  <2> QED BY <1>1, <2>1, Results DEF Fine
<1>4. Fine(c, Ok(d))
  <2>1. /\ DOMAIN d = DOMAIN c /\ d.lvls = c.lvls /\ d.str = c.str /\ d.num = c.num /\ d.st = "idle"
        /\ d.is_key = c.is_key /\ d.pos = c.pos /\ d.buffered_ch = "none"
    BY <1>1 DEF Fields
  <2>2. d.is_val_expected = TRUE
    BY <1>1, Zenon DEF Fields
  <2> HIDE DEF d
  <2>3. InBounds(d) /\ Ready(d)
    BY <1>1, <2>1, <2>2, Zenon DEF InBounds, Core, Ready
  <2>4. Safe(c, Ok(d)) /\ Ok(d).c = d
    BY <2>1, <2>3, Results DEF Ok
  <2> QED BY <2>3, <2>4 DEF Fine
<1> QED
  BY <1>2, <1>3, <1>4
----------------------------------------------------------------------------
(***************************************************************************)
(* rjson_next                                                              *)
(***************************************************************************)
(* The switch on st                                                        *)
LEMMA DispatchIs ==
  ASSUME NEW c, NEW ch
  PROVE  /\ c.st = "idle" => Dispatch(c, ch) = next_idle_(c, ch)
         /\ c.st = "want_key" => Dispatch(c, ch) = next_want_key_(c, ch)
         /\ c.st = "want_colon" => Dispatch(c, ch) = next_want_colon_(c, ch)
         /\ c.st = "str" => Dispatch(c, ch) = next_str_(c, ch)
         /\ c.st = "num" => Dispatch(c, ch) = next_num_(c, ch)
         /\ c.st \in {"true", "false", "null"} => Dispatch(c, ch) = next_word_(c, ch)
<1>1. DOMAIN Words = {"true", "false", "null"}
  BY DEF Words
<1> QED
  BY <1>1 DEF Dispatch

(* With nothing buffered it leaves a context for the next call.            *)
LEMMA DispatchFine ==
  ASSUME NEW c, Ready(c), c.buffered_ch = "none", NEW ch
  PROVE  Fine(c, Dispatch(c, ch))
<1>1. Core(c) /\ c.st \in {"idle", "want_key", "want_colon", "str", "num", "true", "false", "null"}
  BY DEF Ready, Core, InBounds
<1>2. CASE c.st = "idle"
  BY <1>1, <1>2, IdleFine, DispatchIs, SMTT(30)
<1>3. CASE c.st = "want_key"
  BY <1>1, <1>3, WantKeyFine, DispatchIs, SMTT(30)
<1>4. CASE c.st = "want_colon"
  BY <1>1, <1>4, WantColonFine, DispatchIs, SMTT(30)
<1>5. CASE c.st = "str"
  BY <1>1, <1>5, StrSafe, DispatchIs, SMTT(30) DEF Fine
<1>6. CASE c.st = "num"
  BY <1>1, <1>6, NumSafe, DispatchIs, SMTT(30) DEF Fine
<1>7. CASE c.st \in {"true", "false", "null"}
  BY <1>7, WordSafe, DispatchIs, SMTT(30) DEF Fine
<1> QED
  BY <1>1, <1>2, <1>3, <1>4, <1>5, <1>6, <1>7

(* Nothing reads pos.                                                      *)
LEMMA Counted ==
  ASSUME NEW c, NEW res, Safe(c, res), NEW x
  PROVE  LET d == [res EXCEPT !.c.pos = x] IN
         /\ d.r = res.r /\ InBounds(d.c) /\ d.c.pos = x /\ d.c.buffered_ch = res.c.buffered_ch /\ d.c.cur = res.c.cur
         /\ d.c.st = res.c.st /\ d.c.is_val_expected = res.c.is_val_expected
         /\ (Core(res.c) => Core(d.c)) /\ (Ready(res.c) => Ready(d.c))
<1> DEFINE d == [res EXCEPT !.c.pos = x]
           e == [res.c EXCEPT !.pos = x]
<1>1. Fields \subseteq DOMAIN res.c /\ InBounds(res.c) /\ {"c", "r"} \subseteq DOMAIN res
  BY DEF Safe, InBounds
<1>2. d.r = res.r /\ d.c = e
  BY <1>1
<1>3. /\ DOMAIN e = DOMAIN res.c /\ e.lvls = res.c.lvls /\ e.str = res.c.str /\ e.num = res.c.num /\ e.st = res.c.st
      /\ e.is_key = res.c.is_key /\ e.buffered_ch = res.c.buffered_ch /\ e.cur = res.c.cur
      /\ e.is_val_expected = res.c.is_val_expected /\ e.pos = x
  BY <1>1 DEF Fields
<1> HIDE DEF e
<1>4. InBounds(e)
  BY <1>1, <1>3 DEF InBounds
<1>5. Core(res.c) => Core(e)
  BY <1>3, SameCore
<1>6. Ready(res.c) => Ready(e)
  BY <1>3, <1>5 DEF Ready
<1> QED
  BY <1>2, <1>3, <1>4, <1>5, <1>6

(* What no call does: fail an assertion, leave the arrays, or count more   *)
(* than n + 1 characters                                                   *)
Sound(res, n) ==
  /\ res.r \in {"ok", "fin", "syntax", "depth"} /\ InBounds(res.c)
  /\ res.c.pos \in Nat /\ res.c.pos <= n + 1

(* A character that comes when nothing is buffered                         *)
LEMMA ProcessFine ==
  ASSUME NEW c, Ready(c), c.buffered_ch = "none", NEW ch, NEW n \in Nat, c.pos \in Nat, c.pos <= n
  PROVE  LET res == Process(c, ch, FALSE) IN
         /\ Sound(res, n)
         /\ res.r = "ok" => Ready(res.c) /\ (res.c.buffered_ch # "none" => res.c.pos <= n)
<1> DEFINE out == Process(c, ch, FALSE)
<1>1. CASE ch = "NUL"
  <2>1. out \in {Fin(c), Syntax(c)}
    BY <1>1 DEF Process
  <2>2. InBounds(c)
    BY DEF Ready, Core
  <2> HIDE DEF out
  <2>3. out.r \in {"fin", "syntax"} /\ out.c = c
    BY <2>1 DEF Fin, Syntax
  <2>4. Sound(out, n) /\ out.r # "ok"
    BY <2>2, <2>3 DEF Sound
  <2> QED BY <2>4, Zenon DEF out
<1>2. CASE ch # "NUL"
  <2> DEFINE res == Dispatch(c, ch)
             counts == (FALSE \/ res.c.buffered_ch = "none") /\ res.r # "syntax"
             x == IF counts THEN res.c.pos + 1 ELSE res.c.pos
  <2>1. Safe(c, res) /\ (res.r = "ok" => Ready(res.c)) /\ Fields \subseteq DOMAIN res.c /\ {"c", "r"} \subseteq DOMAIN res
    BY DispatchFine DEF Fine, Safe, InBounds
  <2>2. out = [res EXCEPT !.c.pos = x]
    BY <1>2, <2>1 DEF Process, Fields
  <2>3. x \in Nat /\ x <= n + 1 /\ (res.c.buffered_ch # "none" => x <= n)
    BY <2>1 DEF Safe
  <2> HIDE DEF x, res, out
  <2>4. /\ out.r = res.r /\ InBounds(out.c) /\ out.c.pos = x /\ out.c.buffered_ch = res.c.buffered_ch
        /\ (Ready(res.c) => Ready(out.c))
    BY <2>1, <2>2, Counted, Zenon
  <2>5. Sound(out, n)
    BY <2>1, <2>3, <2>4 DEF Sound, Safe
  <2>6. out.r = "ok" => Ready(out.c) /\ (out.c.buffered_ch # "none" => out.c.pos <= n)
    BY <2>1, <2>3, <2>4
  <2> QED BY <2>5, <2>6, Zenon DEF out
<1> QED
  BY <1>1, <1>2, Zenon

(* The character that was buffered: it follows a number.                   *)
LEMMA ProcessHeld ==
  ASSUME NEW c, Core(c), c.st = "idle", ~c.is_val_expected, NEW ch, NEW n \in Nat, c.pos \in Nat, c.pos <= n
  PROVE  LET res == Process(c, ch, TRUE) IN
         /\ Sound(res, n)
         /\ res.r = "ok" => /\ Core(res.c) /\ res.c.buffered_ch = c.buffered_ch
                            /\ res.c.cur # "incomplete" => res.c.st = "idle" /\ ~res.c.is_val_expected
<1> DEFINE out == Process(c, ch, TRUE)
<1>1. CASE ch = "NUL"
  <2>1. out \in {Fin(c), Syntax(c)}
    BY <1>1 DEF Process
  <2>2. InBounds(c)
    BY DEF Core
  <2> HIDE DEF out
  <2>3. out.r \in {"fin", "syntax"} /\ out.c = c
    BY <2>1 DEF Fin, Syntax
  <2>4. Sound(out, n) /\ out.r # "ok"
    BY <2>2, <2>3 DEF Sound
  <2> QED BY <2>4, Zenon DEF out
<1>2. CASE ch # "NUL"
  <2> DEFINE res == next_idle_(c, ch)
             x == IF res.r # "syntax" THEN res.c.pos + 1 ELSE res.c.pos
  <2>1. Between(c, res) /\ Safe(c, res) /\ Fields \subseteq DOMAIN res.c /\ {"c", "r"} \subseteq DOMAIN res
    BY IdleBetween DEF Between, Safe, InBounds
  <2>2. out = [res EXCEPT !.c.pos = x]
    <3>1. Dispatch(c, ch) = res
      BY DispatchIs, SMTT(30)
    <3> QED BY <1>2, <2>1, <3>1 DEF Process, Fields
  <2>3. x \in Nat /\ x <= n + 1
    BY <2>1 DEF Safe
  <2> HIDE DEF x, res, out
  <2>4. /\ out.r = res.r /\ InBounds(out.c) /\ out.c.pos = x /\ out.c.buffered_ch = res.c.buffered_ch
        /\ out.c.cur = res.c.cur /\ out.c.st = res.c.st /\ out.c.is_val_expected = res.c.is_val_expected
        /\ (Core(res.c) => Core(out.c))
    BY <2>1, <2>2, Counted
  <2>5. Sound(out, n)
    BY <2>1, <2>3, <2>4 DEF Sound, Safe
  <2>6. out.r = "ok" => /\ Core(out.c) /\ out.c.buffered_ch = c.buffered_ch
                        /\ out.c.cur # "incomplete" => out.c.st = "idle" /\ ~out.c.is_val_expected
    BY <2>1, <2>4 DEF Between
  <2> QED BY <2>5, <2>6, Zenon DEF out
<1> QED
  BY <1>1, <1>2, Zenon

(* A context with another character buffered                               *)
LEMMA Swap ==
  ASSUME NEW c, Core(c), NEW x
  PROVE  LET d == [c EXCEPT !.buffered_ch = x] IN
         Core(d) /\ d.pos = c.pos /\ d.buffered_ch = x /\ d.st = c.st /\ d.is_val_expected = c.is_val_expected
<1> DEFINE d == [c EXCEPT !.buffered_ch = x]
<1>1. Fields \subseteq DOMAIN c
  BY DEF Core, InBounds
<1>2. /\ DOMAIN d = DOMAIN c /\ d.lvls = c.lvls /\ d.str = c.str /\ d.num = c.num /\ d.st = c.st
      /\ d.is_key = c.is_key /\ d.pos = c.pos /\ d.buffered_ch = x /\ d.is_val_expected = c.is_val_expected
  BY <1>1 DEF Fields
<1> HIDE DEF d
<1>3. Core(d)
  BY <1>2, SameCore
<1> QED
  BY <1>2, <1>3 DEF d

(* What holds between calls of rjson_next after n characters: one that is  *)
(* buffered is not counted yet.                                            *)
Caught(c, n) == Ready(c) /\ (c.buffered_ch # "none" => c.pos <= n - 1)

(* The second half of a call that found a character buffered               *)
LEMMA CatchUpFine ==
  ASSUME NEW n \in Nat, NEW res, res.r \in {"ok", "fin", "syntax", "depth"}, InBounds(res.c),
         res.c.pos \in Nat, res.c.pos <= n,
         res.r = "ok" => Core(res.c) /\ (res.c.cur # "incomplete" => res.c.st = "idle" /\ ~res.c.is_val_expected)
  PROVE  Sound(CatchUp(res), n) /\ (CatchUp(res).r = "ok" => Caught(CatchUp(res).c, n + 1))
<1> DEFINE held == res.c.buffered_ch
           d == [res.c EXCEPT !.buffered_ch = "none"]
           p == Process(d, held, FALSE)
<1>1. Sound(res, n)
  BY DEF Sound
<1>2. CASE held = "none" \/ res.r # "ok"
  <2>1. CatchUp(res) = res
    BY <1>2, Zenon DEF CatchUp
  <2>2. res.r = "ok" => Caught(res.c, n + 1)
    BY <1>2 DEF Caught, Ready
  <2> QED BY <1>1, <2>1, <2>2
<1>3. CASE held # "none" /\ res.r = "ok" /\ res.c.cur = "incomplete"
  <2>1. CatchUp(res) = p
    BY <1>3 DEF CatchUp
  <2>2. Core(d) /\ d.pos = res.c.pos /\ d.buffered_ch = "none"
    BY <1>3, Swap
  <2> HIDE DEF d
  <2>3. Ready(d)
    BY <2>2 DEF Ready
  <2>4. Sound(p, n) /\ (p.r = "ok" => Ready(p.c) /\ (p.c.buffered_ch # "none" => p.c.pos <= n))
    BY <2>2, <2>3, ProcessFine, Zenon
  <2> HIDE DEF p
  <2>5. p.r = "ok" => Caught(p.c, n + 1)
    BY <2>4 DEF Caught
  <2> QED BY <2>1, <2>4, <2>5
<1>4. CASE held # "none" /\ res.r = "ok" /\ res.c.cur # "incomplete"
  <2>1. CatchUp(res) \in {Syntax(res.c), res}
    BY <1>4 DEF CatchUp
  <2>2. Caught(res.c, n + 1)
    BY <1>4 DEF Caught, Ready
  <2>3. Sound(Syntax(res.c), n) /\ Syntax(res.c).r # "ok"
    BY DEF Sound, Syntax
  <2> QED BY <1>1, <2>1, <2>2, <2>3
<1> QED
  BY <1>2, <1>3, <1>4

(* One call of rjson_next, the character after the n-th                    *)
LEMMA NextFine ==
  ASSUME NEW c, NEW n \in Nat, Caught(c, n), c.pos \in Nat, c.pos <= n, NEW ch
  PROVE  Sound(rjson_next(c, ch), n) /\ (rjson_next(c, ch).r = "ok" => Caught(rjson_next(c, ch).c, n + 1))
<1> DEFINE d == [c EXCEPT !.buffered_ch = AsBuffered(ch)]
           swapped == Process(d, c.buffered_ch, TRUE)
<1>1. Ready(c) /\ Core(c)
  BY DEF Caught, Ready
<1>2. CASE c.buffered_ch = "none"
  <2> DEFINE p == Process(c, ch, FALSE)
  <2>1. rjson_next(c, ch) = p
    BY <1>2 DEF rjson_next
  <2>2. Sound(p, n) /\ (p.r = "ok" => Ready(p.c) /\ (p.c.buffered_ch # "none" => p.c.pos <= n))
    BY <1>1, <1>2, ProcessFine, Zenon
  <2> HIDE DEF p
  <2>3. p.r = "ok" => Caught(p.c, n + 1)
    BY <2>2 DEF Caught
  <2> QED BY <2>1, <2>2, <2>3
<1>3. CASE c.buffered_ch # "none"
  <2>1. c.st = "idle" /\ ~c.is_val_expected /\ c.pos <= n - 1 /\ n - 1 \in Nat
    BY <1>1, <1>3 DEF Caught, Ready
  <2>2. Core(d) /\ d.pos = c.pos /\ d.st = c.st /\ d.is_val_expected = c.is_val_expected
    BY <1>1, Swap
  <2> HIDE DEF d
  <2>3. /\ Sound(swapped, n - 1)
        /\ swapped.r = "ok" => /\ Core(swapped.c)
                               /\ swapped.c.cur # "incomplete" => swapped.c.st = "idle" /\ ~swapped.c.is_val_expected
    BY <2>1, <2>2, ProcessHeld, Zenon
  <2>4. c.buffered_ch = "NUL" => swapped \in {Fin(d), Syntax(d)}
    BY DEF Process
  <2>5. rjson_next(c, ch) = IF c.buffered_ch = "NUL" THEN swapped ELSE CatchUp(swapped)
    BY <1>3, Zenon DEF rjson_next, d
  <2> HIDE DEF swapped
  <2>6. Sound(swapped, n) /\ swapped.c.pos \in Nat /\ swapped.c.pos <= n
    BY <2>1, <2>3 DEF Sound
  <2>7. CASE c.buffered_ch = "NUL"
    <3>1. swapped.r # "ok"
      BY <2>4, <2>7 DEF Fin, Syntax
    <3> QED BY <2>5, <2>6, <2>7, <3>1
  <2>8. CASE c.buffered_ch # "NUL"
    <3>1. Sound(CatchUp(swapped), n) /\ (CatchUp(swapped).r = "ok" => Caught(CatchUp(swapped).c, n + 1))
      <4>1. swapped.r \in {"ok", "fin", "syntax", "depth"} /\ InBounds(swapped.c)
        BY <2>6 DEF Sound
      <4> QED BY <2>3, <2>6, <4>1, CatchUpFine
    <3> QED BY <2>5, <2>8, <3>1
  <2> QED BY <2>7, <2>8
<1> QED
  BY <1>2, <1>3
----------------------------------------------------------------------------
(***************************************************************************)
(* The writer                                                              *)
(***************************************************************************)
WFields == {"is_pretty", "str", "lvls", "st", "need_comma", "is_first"}

(* The room for characters in the output buffer                            *)
Cap == IF mlen = 0 THEN 0 ELSE mlen - 1

(* The output buffer and lvls hold what is put in them.                    *)
Held(c) ==
  /\ WFields \subseteq DOMAIN c /\ c.lvls \in Seq({"obj", "arr"}) /\ Len(c.lvls) <= max_depth_
  /\ c.st \in {"none", "want_key", "want_val"}
  /\ IsSeq(c.str) /\ Len(c.str) <= Cap

(* A key or the value of a key is expected in objects only.                *)
InObject(c) == Held(c) /\ (c.st # "none" => lvl_(c) = "obj")

(* What a call has done before it changes the level or the state           *)
Like(c, res) ==
  /\ {"c", "r"} \subseteq DOMAIN res /\ res.r \in {"ok", "overflow"}
  /\ WFields \subseteq DOMAIN res.c /\ res.c.lvls = c.lvls /\ res.c.st = c.st
  /\ IsSeq(res.c.str) /\ Len(res.c.str) <= Cap

(* A whole call                                                            *)
Called(res) ==
  res.r \in {"ok", "overflow", "depth", "syntax"} /\ Held(res.c) /\ (res.r = "ok" => InObject(res.c))

(* Characters for which there is room                                      *)
LEMMA StrGrows ==
  ASSUME NEW s, IsSeq(s), NEW n \in Nat, Len(s) + n <= Cap, NEW T, NEW f \in [1..n -> T]
  PROVE  IsSeq(s \o f) /\ Len(s \o f) <= Cap
<1>1. PICK S : s \in Seq(S)
  BY DEF IsSeq
<1>2. s \in Seq(S \cup T)
  BY <1>1
<1>3. f \in Seq(S \cup T) /\ Len(f) = n
  OBVIOUS
<1>4. s \o f \in Seq(S \cup T) /\ Len(s \o f) = Len(s) + n
  BY <1>2, <1>3
<1> QED
  BY <1>4 DEF IsSeq

(* The room that is left                                                   *)
LEMMA RoomLeft ==
  ASSUME NEW c, IsSeq(c.str), Len(c.str) <= Cap
  PROVE  Room(c) \in Nat /\ Len(c.str) + Room(c) = Cap
<1> DEFINE k == Len(c.str)
<1>1. k \in Nat
  BY DEF IsSeq
<1>2. Room(c) = IF mlen = 0 THEN 0 ELSE mlen - 1 - k
  BY Zenon DEF Room
<1> HIDE DEF k
<1>3. k <= Cap => Room(c) \in Nat /\ k + Room(c) = Cap
  BY <1>1, <1>2, WjsonAssumption DEF Cap
<1> QED
  BY <1>3 DEF k

(* Blocks of four spaces                                                   *)
LEMMA BlocksFit ==
  ASSUME NEW k \in Nat, NEW room \in Nat, k + room = Cap, NEW n \in Nat, n <= room \div indentation_
  PROVE  n * indentation_ \in Nat /\ k + n * indentation_ <= Cap
<1>1. n <= room \div 4 /\ Cap \in Nat
  BY DEF indentation_
<1>2. n * 4 <= room
  BY <1>1
<1> QED
  BY <1>2 DEF indentation_

(* What a call has written so far                                          *)
LEMMA WrittenLike ==
  ASSUME NEW c, NEW d, NEW x \in {"ok", "overflow"}, WFields \subseteq DOMAIN d, d.lvls = c.lvls, d.st = c.st,
         NEW s, d.str = s, IsSeq(s), Len(s) <= Cap
  PROVE  Like(c, [c |-> d, r |-> x])
<1> DEFINE e == [c |-> d, r |-> x]
<1>1. {"c", "r"} \subseteq DOMAIN e /\ e.c = d /\ e.r = x
  OBVIOUS
<1> HIDE DEF e
<1>2. Like(c, e)
  BY <1>1, Zenon DEF Like
<1> QED
  BY <1>2 DEF e

(* add_ch_ writes no more than fits, and changes nothing else.             *)
LEMMA AddLike ==
  ASSUME NEW c, NEW res, Like(c, res), NEW t
  PROVE  Like(c, add_(res, t))
<1> DEFINE n == IF Len(t) \in 0..Room(res.c) THEN Len(t) ELSE Room(res.c)
           f == [k \in 1..n |-> t[k]]
           d == [res.c EXCEPT !.str = @ \o f]
           x == IF n = Len(t) THEN "ok" ELSE "overflow"
<1>1. add_(res, t) = res \/ add_(res, t) = [c |-> d, r |-> x]
  BY Zenon DEF add_
<1>2. x \in {"ok", "overflow"}
  OBVIOUS
<1>3. Room(res.c) \in Nat /\ Len(res.c.str) + Room(res.c) = Cap /\ Len(res.c.str) \in Nat
  BY RoomLeft DEF Like, IsSeq
<1>4. n \in Nat /\ Len(res.c.str) + n <= Cap
  BY <1>3
<1> HIDE DEF n, x
<1>5. IsSeq(res.c.str \o f) /\ Len(res.c.str \o f) <= Cap
  <2>1. f \in [1..n -> {t[k] : k \in 1..n}]
    BY Zenon
  <2> HIDE DEF f
  <2> QED BY <1>4, <2>1, StrGrows, ZenonT(40) DEF Like
<1> HIDE DEF f
<1>6. WFields \subseteq DOMAIN d /\ d.lvls = c.lvls /\ d.st = c.st /\ d.str = res.c.str \o f
  BY DEF Like, WFields
<1> HIDE DEF d
<1>7. Like(c, [c |-> d, r |-> x])
  BY <1>2, <1>5, <1>6, WrittenLike, Zenon
<1> QED
  BY <1>1, <1>7, SMTT(30)

(* Flags that are set                                                      *)
LEMMA FlagsLike ==
  ASSUME NEW c, NEW res, Like(c, res), NEW x, NEW y
  PROVE  /\ Like(c, [res EXCEPT !.c.need_comma = x]) /\ Like(c, [res EXCEPT !.c.is_first = x])
         /\ Like(c, [res EXCEPT !.c.is_first = x, !.c.need_comma = y])
BY Zenon DEF Like, WFields

(* maybe_indent_                                                           *)
LEMMA IndentLike ==
  ASSUME NEW c, c.lvls \in Seq({"obj", "arr"}), NEW res, Like(c, res)
  PROVE  Like(c, maybe_indent_(res))
<1> DEFINE fit == Room(res.c) \div indentation_
           n == IF Len(res.c.lvls) <= fit THEN Len(res.c.lvls) ELSE fit
           f == [k \in 1..(n * indentation_) |-> " "]
           d == [res.c EXCEPT !.str = @ \o f]
           x == IF n = Len(res.c.lvls) THEN "ok" ELSE "overflow"
<1>1. maybe_indent_(res) = res \/ maybe_indent_(res) = [c |-> d, r |-> x]
  BY Zenon DEF maybe_indent_
<1>2. x \in {"ok", "overflow"}
  OBVIOUS
<1>3. Room(res.c) \in Nat /\ Len(res.c.str) + Room(res.c) = Cap /\ Len(res.c.str) \in Nat
  BY RoomLeft DEF Like, IsSeq
<1>4. fit \in Nat
  BY <1>3 DEF indentation_
<1>5. Len(res.c.lvls) \in Nat
  BY DEF Like
<1>6. n \in Nat /\ n <= fit
  <2> HIDE DEF fit
  <2> QED BY <1>4, <1>5
<1> HIDE DEF n, x
<1>7. n * indentation_ \in Nat /\ Len(res.c.str) + n * indentation_ <= Cap
  BY <1>3, <1>6, BlocksFit
<1>8. IsSeq(res.c.str \o f) /\ Len(res.c.str \o f) <= Cap
  <2>1. f \in [1..(n * indentation_) -> {" "}]
    BY Zenon
  <2> HIDE DEF f
  <2> QED BY <1>7, <2>1, StrGrows DEF Like
<1> HIDE DEF f
<1>9. WFields \subseteq DOMAIN d /\ d.lvls = c.lvls /\ d.st = c.st /\ d.str = res.c.str \o f
  BY DEF Like, WFields
<1> HIDE DEF d
<1>10. Like(c, [c |-> d, r |-> x])
  BY <1>2, <1>8, <1>9, WrittenLike, Zenon
<1> QED
  BY <1>1, <1>10

(* The comma, the newline and the indentation before a value               *)
LEMMA StartLike ==
  ASSUME NEW c, Held(c)
  PROVE  Like(c, Start(c))
<1> DEFINE one == maybe_comma_(Ok(c))
           two == maybe_newline_(one)
           t == IF Ok(c).c.is_pretty THEN <<",", "\n">> ELSE <<",">>
           put == add_(Ok(c), t)
<1>1. Like(c, Ok(c))
  BY DEF Like, Ok, Held
<1>2. Like(c, put)
  BY <1>1, AddLike
<1>3. one \in {Ok(c), put, [put EXCEPT !.c.need_comma = FALSE]}
  BY Zenon DEF maybe_comma_
<1> HIDE DEF put, one
<1>4. Like(c, one)
  <2>1. Like(c, [put EXCEPT !.c.need_comma = FALSE])
    BY <1>2, FlagsLike, Zenon
  <2> QED BY <1>1, <1>2, <1>3, <2>1, Zenon
<1>5. two = one \/ two = add_(one, <<"\n">>)
  BY Zenon DEF maybe_newline_
<1> HIDE DEF two
<1>6. Like(c, two)
  BY <1>4, <1>5, AddLike, SMTT(30)
<1> QED
  BY <1>6, IndentLike, SMTT(30) DEF Start, two, one, Held

(* The context of such a call                                              *)
LEMMA LikeHeld ==
  ASSUME NEW c, Held(c), NEW res, Like(c, res)
  PROVE  Held(res.c)
BY Zenon DEF Held, Like

(* Nothing done                                                            *)
LEMMA SyntaxCalled ==
  ASSUME NEW c, Held(c)
  PROVE  Called(Syntax(c))
<1>1. Syntax(c).c = c /\ Syntax(c).r = "syntax"
  BY DEF Syntax
<1> QED
  BY <1>1 DEF Called

(* A new state, at the same level                                          *)
LEMMA StateCalled ==
  ASSUME NEW c, InObject(c), NEW res, Like(c, res), NEW st \in {"none", "want_key", "want_val"},
         st # "none" => lvl_(c) = "obj", NEW x, NEW y
  PROVE  /\ Called(res) /\ Called([res EXCEPT !.c.st = st]) /\ Called([res EXCEPT !.c.st = st, !.c.need_comma = x])
         /\ Called([res EXCEPT !.c.is_first = x, !.c.st = st, !.c.need_comma = y])
BY Zenon DEF InObject, Held, Like, Called, WFields, lvl_

(* One level more, if there is room for it                                 *)
LEMMA LevelCalled ==
  ASSUME NEW res, {"c", "r"} \subseteq DOMAIN res, res.r \in {"ok", "overflow"}, Held(res.c), NEW ty \in {"obj", "arr"}
  PROVE  LET out == wjson_add_lvl_(res, ty) IN
         /\ {"c", "r"} \subseteq DOMAIN out /\ out.r \in {"ok", "overflow", "depth"} /\ Held(out.c)
         /\ out.r = "ok" => out.c.st = res.c.st /\ lvl_(out.c) = ty
<1> DEFINE out == wjson_add_lvl_(res, ty)
           d == [res.c EXCEPT !.lvls = Append(@, ty)]
           l == Append(res.c.lvls, ty)
<1>1. \/ out = res /\ res.r # "ok"
      \/ out = Depth(res.c)
      \/ res.r = "ok" /\ Len(res.c.lvls) # max_depth_ /\ out = [res EXCEPT !.c.lvls = Append(@, ty)]
  BY Zenon DEF wjson_add_lvl_
<1>2. CASE out = res /\ res.r # "ok"
  BY <1>2
<1>3. CASE out = Depth(res.c)
  <2> HIDE DEF out
  <2>1. {"c", "r"} \subseteq DOMAIN out /\ out.r = "depth" /\ out.c = res.c
    BY <1>3 DEF Depth
  <2> QED BY <2>1 DEF out
<1>4. CASE res.r = "ok" /\ Len(res.c.lvls) # max_depth_ /\ out = [res EXCEPT !.c.lvls = Append(@, ty)]
  <2> HIDE DEF out
  <2>1. DOMAIN out = DOMAIN res /\ out.r = "ok" /\ out.c = d
    BY <1>4
  <2>2. WFields \subseteq DOMAIN d /\ d.lvls = l /\ d.st = res.c.st /\ d.str = res.c.str
    BY DEF Held, WFields
  <2>3. l \in Seq({"obj", "arr"}) /\ l # <<>> /\ l[Len(l)] = ty /\ Len(l) = Len(res.c.lvls) + 1
    BY DEF Held
  <2>4. Len(res.c.lvls) \in Nat /\ Len(res.c.lvls) <= max_depth_
    BY DEF Held
  <2> HIDE DEF d, l
  <2>5. Len(l) <= max_depth_
    BY <1>4, <2>3, <2>4, MaxDepthAssumption
  <2>6. lvl_(d) = ty
    BY <2>2, <2>3, SMTT(30) DEF lvl_
  <2>7. Held(d)
    BY <2>2, <2>3, <2>5 DEF Held
  <2> QED BY <2>1, <2>2, <2>6, <2>7 DEF out
<1> QED
  BY <1>1, <1>2, <1>3, <1>4

(* wjson_str: "st_want_key can only be in obj" holds.                      *)
LEMMA StrCalled ==
  ASSUME NEW c, InObject(c), NEW v
  PROVE  Called(wjson_str(c, v))
<1> DEFINE begun == Start(c)
           b2 == IF begun.r = "ok" THEN [begun EXCEPT !.c.is_first = FALSE] ELSE begun
           put == add_(b2, Quoted(v))
           p2 == [put EXCEPT !.c.need_comma = FALSE]
           key == add_(p2, IF c.is_pretty THEN <<":", " ">> ELSE <<":">>)
<1>1. Like(c, begun)
  BY StartLike, Zenon DEF InObject
<1>2. Like(c, [begun EXCEPT !.c.is_first = FALSE])
  BY <1>1, FlagsLike, Zenon
<1>3. Like(c, b2)
  BY <1>1, <1>2, Zenon
<1> HIDE DEF begun, b2
<1>4. Like(c, put)
  BY <1>3, AddLike, SMTT(30)
<1> HIDE DEF put
<1>5. Like(c, p2)
  BY <1>4, FlagsLike, Zenon
<1> HIDE DEF p2
<1>6. Like(c, key)
  BY <1>5, AddLike
<1>7. \/ wjson_str(c, v) = put
      \/ c.st = "want_val" /\ wjson_str(c, v) = [put EXCEPT !.c.st = "want_key", !.c.need_comma = TRUE]
      \/ wjson_str(c, v) = [put EXCEPT !.c.need_comma = TRUE]
      \/ c.st # "none" /\ lvl_(c) # "obj"
      \/ lvl_(c) = "obj" /\ wjson_str(c, v) = [key EXCEPT !.c.st = "want_val"]
      \/ wjson_str(c, v) = key
  BY Zenon DEF wjson_str, key, p2, put, b2, begun
<1> HIDE DEF key
<1>8. c.st # "none" => lvl_(c) = "obj"
  BY SMTT(30) DEF InObject
<1>9. Called(put) /\ Called(key)
  BY <1>4, <1>6, <1>8, StateCalled, Zenon
<1>10. Like(c, [put EXCEPT !.c.need_comma = TRUE])
  BY <1>4, FlagsLike, Zenon
<1>11. Called([put EXCEPT !.c.need_comma = TRUE])
  <2> DEFINE q == [put EXCEPT !.c.need_comma = TRUE]
  <2> HIDE DEF q
  <2>1. Like(c, q)
    BY <1>10, SMTT(30) DEF q
  <2>2. Called(q)
    BY <1>8, <2>1, StateCalled, ZenonT(40)
  <2> QED BY <2>2 DEF q
<1>12. lvl_(c) = "obj" => Called([key EXCEPT !.c.st = "want_val"])
  BY <1>6, StateCalled, Zenon
<1>13. lvl_(c) = "obj" => Called([put EXCEPT !.c.st = "want_key", !.c.need_comma = TRUE])
  BY <1>4, StateCalled, Zenon
<1>14. c.st = "want_val" => lvl_(c) = "obj"
  BY <1>8
<1> QED
  BY <1>7, <1>8, <1>9, <1>11, <1>12, <1>13, <1>14, Zenon

(* wjson_int, wjson_double, wjson_bool and wjson_null                      *)
LEMMA LiteralCalled ==
  ASSUME NEW c, InObject(c), NEW t
  PROVE  Called(add_literal_(c, t))
<1> DEFINE begun == Start(c)
           b2 == IF begun.r = "ok" THEN [begun EXCEPT !.c.is_first = FALSE, !.c.need_comma = TRUE] ELSE begun
           put == add_(b2, t)
<1>1. Like(c, begun)
  BY StartLike, Zenon DEF InObject
<1>2. Like(c, [begun EXCEPT !.c.is_first = FALSE, !.c.need_comma = TRUE])
  BY <1>1, FlagsLike, Zenon
<1>3. Like(c, b2)
  BY <1>1, <1>2, Zenon
<1> HIDE DEF begun, b2
<1>4. Like(c, put)
  BY <1>3, AddLike
<1>5. \/ add_literal_(c, t) = Syntax(c)
      \/ c.st = "want_val" /\ add_literal_(c, t) = [put EXCEPT !.c.st = "want_key"]
      \/ add_literal_(c, t) = put
  BY ZenonT(40) DEF add_literal_, put, b2, begun
<1> HIDE DEF put
<1>6. c.st # "none" => lvl_(c) = "obj"
  BY DEF InObject
<1>7. Called(put)
  BY <1>4, <1>6, StateCalled, ZenonT(40)
<1>8. c.st = "want_val" => Called([put EXCEPT !.c.st = "want_key"])
  BY <1>4, <1>6, StateCalled, Zenon
<1>9. Called(Syntax(c))
  BY SyntaxCalled DEF InObject
<1> QED
  BY <1>5, <1>7, <1>8, <1>9, Zenon

(* wjson_obj_start                                                         *)
LEMMA ObjStartCalled ==
  ASSUME NEW c, InObject(c)
  PROVE  Called(wjson_obj_start(c))
<1> DEFINE put == add_(Start(c), <<"{">>)
           set == [put EXCEPT !.c.st = "want_key", !.c.is_first = TRUE, !.c.need_comma = FALSE]
           out == wjson_add_lvl_(set, "obj")
<1>1. Like(c, put)
  BY StartLike, AddLike, Zenon DEF InObject
<1>2. wjson_obj_start(c) \in {Syntax(c), put, out}
  BY Zenon DEF wjson_obj_start
<1> HIDE DEF put
<1>3. {"c", "r"} \subseteq DOMAIN set /\ set.r \in {"ok", "overflow"} /\ Held(set.c)
  BY <1>1, ZenonT(40) DEF Like, WFields, InObject, Held
<1> HIDE DEF set
<1>4. out.r \in {"ok", "overflow", "depth"} /\ Held(out.c) /\ (out.r = "ok" => lvl_(out.c) = "obj")
  BY <1>3, LevelCalled
<1> HIDE DEF out
<1>5. Called(out)
  BY <1>4 DEF Called, InObject
<1>6. Called(put)
  BY <1>1, StateCalled, Zenon DEF InObject
<1>7. Called(Syntax(c))
  BY SyntaxCalled DEF InObject
<1> QED
  BY <1>2, <1>5, <1>6, <1>7, SMTT(30)

(* wjson_arr_start                                                         *)
LEMMA ArrStartCalled ==
  ASSUME NEW c, InObject(c)
  PROVE  Called(wjson_arr_start(c))
<1> DEFINE begun == add_(Start(c), <<"[">>)
           put == wjson_add_lvl_(begun, "arr")
           out == [put EXCEPT !.c.need_comma = FALSE, !.c.st = "none", !.c.is_first = TRUE]
<1>1. Like(c, begun)
  BY StartLike, AddLike, Zenon DEF InObject
<1>2. \/ wjson_arr_start(c) = Syntax(c)
      \/ put.r # "ok" /\ wjson_arr_start(c) = put
      \/ put.r = "ok" /\ wjson_arr_start(c) = out
  BY Zenon DEF wjson_arr_start
<1> HIDE DEF begun
<1>3. /\ {"c", "r"} \subseteq DOMAIN put /\ put.r \in {"ok", "overflow", "depth"} /\ Held(put.c)
  <2>1. Held(begun.c)
    BY <1>1, LikeHeld DEF InObject
  <2> QED BY <1>1, <2>1, LevelCalled DEF Like
<1> HIDE DEF put
<1>4. put.r # "ok" => Called(put)
  BY <1>3 DEF Called
<1>5. out.r = put.r /\ Held(out.c) /\ out.c.st = "none"
  BY <1>3, Zenon DEF WFields, Held
<1> HIDE DEF out
<1>6. put.r = "ok" => Called(out)
  BY <1>3, <1>5 DEF Called, InObject
<1>7. Called(Syntax(c))
  BY SyntaxCalled DEF InObject
<1> QED
  BY <1>2, <1>4, <1>6, <1>7, SMTT(30)

(* pop_lvl_ of wjson.c                                                     *)
LEMMA LastLineLike ==
  ASSUME NEW c, InObject(c), c.lvls # <<>>
  PROVE  LET d == [c EXCEPT !.lvls = Popped(@)] IN
         Like(d, LastLine(c)) /\ Held(d) /\ d.st = c.st
<1> DEFINE d == [c EXCEPT !.lvls = Popped(@)]
           line == add_(Ok(d), <<"\n">>)
<1>1. WFields \subseteq DOMAIN d /\ d.lvls = Popped(c.lvls) /\ d.st = c.st /\ d.str = c.str
  BY DEF InObject, Held, WFields
<1>2. Popped(c.lvls) \in Seq({"obj", "arr"}) /\ Len(Popped(c.lvls)) <= max_depth_
  <2>1. c.lvls \in Seq({"obj", "arr"}) /\ Len(c.lvls) \in Nat /\ Len(c.lvls) # 0 /\ Len(c.lvls) <= max_depth_
    BY DEF InObject, Held
  <2>2. Popped(c.lvls) \in Seq({"obj", "arr"}) /\ Len(Popped(c.lvls)) = Len(c.lvls) - 1
    BY <2>1 DEF Popped
  <2> QED BY <2>1, <2>2, MaxDepthAssumption
<1>3. LastLine(c) \in {maybe_indent_(line), Ok(d)}
  BY Zenon DEF LastLine
<1> HIDE DEF d
<1>4. Held(d)
  BY <1>1, <1>2, Zenon DEF InObject, Held
<1>5. Like(d, Ok(d))
  BY <1>4 DEF Like, Ok, Held
<1>6. Like(d, line)
  BY <1>5, AddLike, SMTT(30)
<1> HIDE DEF line
<1>7. Like(d, maybe_indent_(line))
  BY <1>4, <1>6, IndentLike, SMTT(30) DEF Held
<1> QED
  BY <1>1, <1>3, <1>4, <1>5, <1>7, Zenon DEF d

(* The closing bracket                                                     *)
LEMMA AddCalled ==
  ASSUME NEW res, {"c", "r"} \subseteq DOMAIN res, res.r = "ok", InObject(res.c), NEW t
  PROVE  Called(add_(res, t))
<1>1. Like(res.c, res)
  BY DEF Like, InObject, Held
<1>2. Like(res.c, add_(res, t))
  BY <1>1, AddLike
<1> QED
  BY <1>2, StateCalled, Zenon DEF InObject, Held

(* The context that LastLine leaves, with the state that is set after it   *)
LEMMA ClosedInObject ==
  ASSUME NEW c, NEW line, Like(c, line), Held(c),
         NEW st \in {"none", "want_key", "want_val"}, NEW comma, st # "none" => lvl_(line.c) = "obj"
  PROVE  LET m == [line EXCEPT !.c.is_first = FALSE, !.c.st = st, !.c.need_comma = comma]
         IN  {"c", "r"} \subseteq DOMAIN m /\ m.r = line.r /\ InObject(m.c)
<1> DEFINE m == [line EXCEPT !.c.is_first = FALSE, !.c.st = st, !.c.need_comma = comma]
<1>1. /\ {"c", "r"} \subseteq DOMAIN m /\ m.r = line.r /\ WFields \subseteq DOMAIN m.c
      /\ m.c.lvls = line.c.lvls /\ m.c.st = st /\ m.c.str = line.c.str
  BY Zenon DEF Like, WFields
<1> HIDE DEF m
<1>2. Held(m.c)
  BY <1>1, LikeHeld, Zenon DEF Held
<1>3. lvl_(m.c) = lvl_(line.c)
  BY <1>1 DEF lvl_
<1>4. InObject(m.c)
  BY <1>1, <1>2, <1>3 DEF InObject
<1> QED
  BY <1>1, <1>4 DEF m

(* wjson_obj_end                                                           *)
LEMMA ObjEndCalled ==
  ASSUME NEW c, InObject(c)
  PROVE  Called(wjson_obj_end(c))
<1>1. CASE wjson_obj_end(c) = Syntax(c)
  BY <1>1, SyntaxCalled DEF InObject
<1>2. CASE lvl_(c) = "obj"
  <2> DEFINE d == [c EXCEPT !.lvls = Popped(@)]
             line == LastLine(c)
             next == IF lvl_(line.c) = "obj" THEN "want_key" ELSE "none"
             m == [line EXCEPT !.c.is_first = FALSE, !.c.st = next, !.c.need_comma = TRUE]
  <2>1. c.lvls # <<>>
    BY <1>2 DEF lvl_
  <2>2. Like(d, line) /\ Held(d)
    BY <2>1, LastLineLike
  <2>3. \/ wjson_obj_end(c) = Syntax(c)
        \/ line.r # "ok" /\ wjson_obj_end(c) = line
        \/ line.r = "ok" /\ wjson_obj_end(c) = add_(m, <<"}">>)
    BY Zenon DEF wjson_obj_end
  <2>4. (next # "none" => lvl_(line.c) = "obj") /\ next \in {"none", "want_key", "want_val"}
    BY Zenon
  <2> HIDE DEF d, line, next
  <2>5. {"c", "r"} \subseteq DOMAIN m /\ m.r = line.r /\ InObject(m.c)
    BY <2>2, <2>4, ClosedInObject, Zenon
  <2> HIDE DEF m
  <2>6. line.r = "ok" => Called(add_(m, <<"}">>))
    BY <2>5, AddCalled
  <2>7. line.r \in {"ok", "overflow"} /\ Held(line.c)
    BY <2>2, LikeHeld DEF Like
  <2>8. line.r # "ok" => Called(line)
    BY <2>7 DEF Called
  <2> QED
    BY <1>1, <2>3, <2>6, <2>8, Zenon
<1>3. CASE lvl_(c) # "obj"
  <2>1. wjson_obj_end(c) = Syntax(c)
    BY <1>3 DEF wjson_obj_end
  <2> QED
    BY <1>1, <2>1
<1> QED
  BY <1>2, <1>3

(* wjson_arr_end: in an array neither a key nor its value is expected      *)
LEMMA ArrEndCalled ==
  ASSUME NEW c, InObject(c)
  PROVE  Called(wjson_arr_end(c))
<1>1. CASE wjson_arr_end(c) = Syntax(c)
  BY <1>1, SyntaxCalled DEF InObject
<1>2. CASE lvl_(c) = "arr"
  <2> DEFINE d == [c EXCEPT !.lvls = Popped(@)]
             line == LastLine(c)
             outer == lvl_(line.c)
             st == IF outer = "obj" THEN "want_key" ELSE line.c.st
             comma == CASE outer = "obj" -> FALSE [] outer = "arr" -> TRUE [] OTHER -> line.c.need_comma
             m == [line EXCEPT !.c.is_first = FALSE, !.c.st = st, !.c.need_comma = comma]
             n == [line EXCEPT !.c.is_first = FALSE, !.c.st = IF outer = "obj" THEN "want_key" ELSE @,
                               !.c.need_comma = CASE outer = "obj" -> FALSE [] outer = "arr" -> TRUE [] OTHER -> @]
  <2>1. c.lvls # <<>> /\ c.st = "none"
    BY <1>2 DEF lvl_, InObject
  <2>2. Like(d, line) /\ Held(d) /\ d.st = "none"
    BY <2>1, LastLineLike
  <2>3. \/ wjson_arr_end(c) = Syntax(c)
        \/ line.r # "ok" /\ wjson_arr_end(c) = line
        \/ line.r = "ok" /\ wjson_arr_end(c) = add_(n, <<"]">>)
    BY Zenon DEF wjson_arr_end
  <2> HIDE DEF d, line
  <2>4. n = m
    BY <2>2 DEF Like, WFields
  <2>5. (st # "none" => lvl_(line.c) = "obj") /\ st \in {"none", "want_key", "want_val"}
    BY <2>2 DEF Like
  <2> HIDE DEF st, comma
  <2>6. {"c", "r"} \subseteq DOMAIN m /\ m.r = line.r /\ InObject(m.c)
    BY <2>2, <2>5, ClosedInObject, Zenon
  <2> HIDE DEF m, n
  <2>7. line.r = "ok" => Called(add_(m, <<"]">>))
    BY <2>6, AddCalled, SMTT(30)
  <2>8. line.r \in {"ok", "overflow"} /\ Held(line.c)
    BY <2>2, LikeHeld, SMTT(30) DEF Like
  <2>9. line.r # "ok" => Called(line)
    BY <2>8 DEF Called
  <2> QED
    BY <1>1, <2>3, <2>4, <2>7, <2>9, Zenon
<1>3. CASE lvl_(c) # "arr"
  <2>1. wjson_arr_end(c) = Syntax(c)
    BY <1>3 DEF wjson_arr_end
  <2> QED
    BY <1>1, <2>1
<1> QED
  BY <1>2, <1>3, SMTT(30)
----------------------------------------------------------------------------
(***************************************************************************)
(* The whole of Json                                                       *)
(***************************************************************************)
ReaderInv ==
  /\ r \in {"ok", "fin", "syntax", "depth"} /\ InBounds(rd)
  /\ rd.pos \in Nat /\ IsSeq(text) /\ rd.pos <= Len(text)
  /\ r = "ok" => Caught(rd, Len(text))

WriterInv ==
  /\ phase \in {"write", "read", "peer", "failed"} /\ wr \in {"ok", "overflow", "depth"}
  /\ Held(w) /\ (phase = "write" => InObject(w))

JInv == ReaderInv /\ WriterInv

(* rjson_init and wjson_init                                               *)
LEMMA InitInv ==
  Init => JInv
<1> SUFFICES ASSUME Init PROVE JInv
  BY SMTT(30)
<1> USE MaxDepthAssumption, StrMlenAssumption
<1>1. rd = rjson_init /\ r = "ok" /\ text = <<>> /\ wr = "ok"
  BY DEF Init
<1>2. /\ Fields \subseteq DOMAIN rjson_init /\ rjson_init.lvls = <<>> /\ rjson_init.str = <<>> /\ rjson_init.st = "idle"
      /\ rjson_init.buffered_ch = "none" /\ rjson_init.pos = 0 /\ rjson_init.num = NoNum
  BY DEF rjson_init, Fields
<1>3. rjson_init.is_val_expected \in BOOLEAN /\ rjson_init.is_key \in BOOLEAN
  BY Zenon DEF rjson_init
<1>4. NumOk(NoNum)
  BY DEF NumOk, NoNum
<1>5. IsSeq(<<>>) /\ Len(<<>>) = 0 /\ <<>> \in Seq({"obj", "arr"})
  <2>1. <<>> \in Seq({"obj", "arr"}) /\ Len(<<>>) = 0
    OBVIOUS
  <2> QED BY <2>1 DEF IsSeq
<1>6. InBounds(rjson_init)
  BY <1>2, <1>5, SMTT(30) DEF InBounds
<1>7. Caught(rjson_init, 0)
  BY <1>2, <1>3, <1>4, <1>6, SMTT(30) DEF Caught, Ready, Core
<1>8. ReaderInv
  BY <1>1, <1>2, <1>5, <1>6, <1>7, SMTT(30) DEF ReaderInv
<1>9. phase \in {"write", "peer"} /\ InObject(w)
  <2>1. /\ phase \in {"write", "peer"}
        /\ \E p, f : \E lvls \in {<<>>, <<"obj">>, <<"arr">>} : w = wjson_init(p, lvls, f)
    BY Zenon DEF Init, Garbage
  <2>2. ASSUME NEW lvls \in {<<>>, <<"obj">>, <<"arr">>} PROVE lvls \in Seq({"obj", "arr"}) /\ Len(lvls) <= max_depth_
    <3>1. <<>> \in Seq({"obj", "arr"}) /\ <<"obj">> \in Seq({"obj", "arr"}) /\ <<"arr">> \in Seq({"obj", "arr"})
      OBVIOUS
    <3>2. Len(<<>>) = 0 /\ Len(<<"obj">>) = 1 /\ Len(<<"arr">>) = 1
      OBVIOUS
    <3>3. 0 <= max_depth_ /\ 1 <= max_depth_
      BY JsonAssumption
    <3> QED BY <3>1, <3>2, <3>3, Zenon
  <2>3. 0 <= Cap
    BY WjsonAssumption DEF Cap
  <2>4. ASSUME NEW p, NEW f, NEW lvls \in Seq({"obj", "arr"}), Len(lvls) <= max_depth_
        PROVE  InObject(wjson_init(p, lvls, f))
    <3> DEFINE c == wjson_init(p, lvls, f)
    <3>1. WFields \subseteq DOMAIN c /\ c.lvls = lvls /\ c.st = "none" /\ c.str = <<>>
      BY DEF wjson_init, WFields
    <3> HIDE DEF c
    <3>2. InObject(c)
      BY <1>5, <2>3, <2>4, <3>1 DEF InObject, Held
    <3> QED BY <3>2 DEF c
  <2> QED BY <2>1, <2>2, <2>4, Zenon
<1> QED
  BY <1>1, <1>8, <1>9, SMTT(30) DEF JInv, WriterInv, InObject

(* A call of the user                                                      *)
LEMMA CallInv ==
  ASSUME NEW res, NEW token, InObject(w) => Called(res), JInv, Call(res, token)
  PROVE  JInv'
<1>1. ReaderInv'
  BY DEF JInv, ReaderInv, Call, reader
<1>2. Called(res)
  BY DEF JInv, WriterInv, Call
<1>3. wr' \in {"ok", "overflow", "depth"}
  BY <1>2 DEF Call, Called
<1>4. Held(w)' /\ (phase' = "write" => InObject(w)')
  BY <1>2, SMTT(30) DEF Call, Called
<1>5. phase' \in {"write", "failed"}
  BY DEF Call
<1> QED
  BY <1>1, <1>3, <1>4, <1>5, SMTT(30) DEF JInv, WriterInv

(* A character for the reader                                              *)
LEMMA FeedInv ==
  ASSUME NEW ch, JInv, Feed(ch)
  PROVE  JInv'
<1> DEFINE res == rjson_next(rd, ch)
           n == Len(text)
<1>1. IsSeq(text) /\ n \in Nat
  BY DEF JInv, ReaderInv, IsSeq
<1>2. Caught(rd, n) /\ rd.pos \in Nat /\ rd.pos <= n
  BY DEF JInv, ReaderInv, Feed
<1>3. Sound(res, n) /\ (res.r = "ok" => Caught(res.c, n + 1))
  BY <1>1, <1>2, NextFine, SMTT(30)
<1>4. rd' = res.c /\ r' = res.r /\ text' = Append(text, ch)
  BY DEF Feed
<1> HIDE DEF res
<1>5. IsSeq(text') /\ Len(text') = n + 1
  <2>1. PICK S : text \in Seq(S)
    BY <1>1 DEF IsSeq
  <2>2. text \in Seq(S \cup {ch})
    BY <2>1
  <2>3. text' \in Seq(S \cup {ch}) /\ Len(text') = n + 1
    BY <1>4, <2>2, SMTT(30)
  <2> QED BY <2>3 DEF IsSeq
<1>6. ReaderInv'
  BY <1>3, <1>4, <1>5, SMTT(30) DEF ReaderInv, Sound
<1>7. WriterInv'
  BY DEF JInv, WriterInv, Feed
<1> QED
  BY <1>6, <1>7, SMTT(30) DEF JInv

(* wjson_double, which can refuse before it writes                         *)
LEMMA DoubleCalled ==
  ASSUME NEW c, InObject(c), NEW v
  PROVE  Called(wjson_double(c, v))
<1>1. \/ wjson_double(c, v) = [c |-> c, r |-> "overflow"]
      \/ \E t : wjson_double(c, v) = add_literal_(c, t)
  BY Zenon DEF wjson_double
<1>2. Called([c |-> c, r |-> "overflow"])
  BY DEF Called, InObject
<1> QED
  BY <1>1, <1>2, LiteralCalled, Zenon

(* Every step keeps the invariant                                          *)
LEMMA StepInv ==
  ASSUME JInv, [Next]_vars
  PROVE  JInv'
<1>1. CASE WriteStr
  BY <1>1, StrCalled, CallInv, Zenon DEF WriteStr
<1>2. CASE WriteInt
  BY <1>2, LiteralCalled, CallInv, Zenon DEF WriteInt, wjson_int
<1>3. CASE WriteDouble
  BY <1>3, DoubleCalled, CallInv, ZenonT(40) DEF WriteDouble
<1>4. CASE WriteBool
  BY <1>4, LiteralCalled, CallInv, ZenonT(40) DEF WriteBool, wjson_bool
<1>5. CASE WriteNull
  BY <1>5, LiteralCalled, CallInv, ZenonT(40) DEF WriteNull, wjson_null
<1>6. CASE WriteObjStart
  BY <1>6, ObjStartCalled, CallInv, Zenon DEF WriteObjStart
<1>7. CASE WriteObjEnd
  BY <1>7, ObjEndCalled, CallInv, Zenon DEF WriteObjEnd
<1>8. CASE WriteArrStart
  BY <1>8, ArrStartCalled, CallInv, Zenon DEF WriteArrStart
<1>9. CASE WriteArrEnd
  BY <1>9, ArrEndCalled, CallInv, Zenon DEF WriteArrEnd
<1>10. CASE HandOver
  BY <1>10 DEF HandOver, JInv, ReaderInv, WriterInv, reader
<1>11. CASE ReadBack \/ ReadPeer \/ ReadPeerEnd
  BY <1>11, FeedInv, Zenon DEF ReadBack, ReadPeer, ReadPeerEnd
<1>12. CASE UNCHANGED vars
  BY <1>12 DEF vars, JInv, ReaderInv, WriterInv
<1> QED
  BY <1>1, <1>2, <1>3, <1>4, <1>5, <1>6, <1>7, <1>8, <1>9, <1>10, <1>11, <1>12, SMTT(30) DEF Next

(* The inductive invariant holds in every reachable state.                 *)
THEOREM JsonInvariance == Spec => []JInv
<1>1. JInv /\ [Next]_vars => JInv'
  BY StepInv
<1> QED
  BY InitInv, <1>1, PTL DEF Spec

(* No assertion of rjson.c fails on any text that is given to rjson_next a *)
(* character at a time, and "st_want_key can only be in obj" of wjson_str  *)
(* does not fail on any calls of a user who stops at the first overflow,   *)
(* for every depth and every size of the buffers.                          *)
THEOREM NeverPanics == Spec => []NoPanic
<1>1. JInv => NoPanic
  BY DEF JInv, ReaderInv, WriterInv, NoPanic
<1> QED
  BY JsonInvariance, <1>1, PTL

(* Every array of both contexts holds what is put in it, after every call, *)
(* the refused ones and those that overflow included: lvls the levels, the *)
(* output buffer its text with room for a '\0', whatever the lengths of    *)
(* the literals, blocks of spaces and single characters that fill it, and  *)
(* the reader's buffer its string; and the reader counts no more           *)
(* characters than it was given.                                           *)
THEOREM TypeCorrect == Spec => []TypeOK
<1>1. ASSUME JInv PROVE TypeOK
  <2>1. Held(w) /\ InBounds(rd)
    BY <1>1 DEF JInv, ReaderInv, WriterInv
  <2>2. \A c \in {w, rd} : c.lvls \in Seq({"obj", "arr"}) /\ Len(c.lvls) <= max_depth_
    BY <2>1 DEF Held, InBounds
  <2>3. w.st \in {"none", "want_key", "want_val"} /\ Len(w.str) <= IF mlen = 0 THEN 0 ELSE mlen - 1
    BY <2>1 DEF Held, Cap
  <2>4. /\ rd.st \in {"idle", "want_key", "want_colon", "str", "num", "true", "false", "null"}
        /\ Len(rd.str) <= str_mlen
    BY <2>1 DEF InBounds
  <2>5. /\ phase \in {"write", "read", "peer", "failed"} /\ wr \in {"ok", "overflow", "depth"}
        /\ r \in {"ok", "fin", "syntax", "depth"} /\ rd.pos <= Len(text)
    BY <1>1 DEF JInv, ReaderInv, WriterInv
  <2> QED BY <2>2, <2>3, <2>4, <2>5, Zenon DEF TypeOK
<1> QED
  BY JsonInvariance, <1>1, PTL
=============================================================================
