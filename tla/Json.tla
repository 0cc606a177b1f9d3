-------------------------------- MODULE Json --------------------------------
(***************************************************************************)
(* The texts that rjson.c reads.  Either a user makes calls of wjson.c     *)
(* until they have written one object, and its text is read back; or the   *)
(* text comes from a peer, and is anything.  It is given to rjson_next a   *)
(* character at a time, its '\0' included, and what cur says is looked at  *)
(* after every call, as the demo of rjson.c does (rjson.c:786-831), until  *)
(* fin or a syntax error.                                                  *)
(*                                                                         *)
(* The user gives up at an overflow, as SOB_WJSON_CHECK does, and may try  *)
(* something else after wjson_syntax.                                      *)
(***************************************************************************)
EXTENDS Rjson, Wjson
LOCAL INSTANCE FiniteSets

CONSTANTS Sources,    \* of {"wjson", "peer"}
          Alphabet,   \* the characters of a peer's text
          MaxText,    \* bound: the length of it
          Strs,       \* what the user passes to wjson_str
          Nums,       \* ... to wjson_int and wjson_double: records [neg, mant, fracs]
          Pretties,   \* ... to wjson_init
          MaxCalls,   \* bound: the successful calls of the user
          Avoids,     \* the rules of CanFollow that the user keeps
          Zeroed      \* TRUE: context and buffer are zeroed before wjson_init

ASSUME JsonAssumption ==
  /\ Sources \subseteq {"wjson", "peer"} /\ MaxText \in Nat /\ MaxCalls \in Nat
  /\ Pretties \subseteq BOOLEAN /\ Zeroed \in BOOLEAN /\ max_depth_ > 0
  /\ Avoids \subseteq {"zero", "empty_arr", "after_arr", "top_arr"}
  /\ "NUL" \notin Alphabet /\ "none" \notin Alphabet

VARIABLES phase,      \* "write", "read" what was written, "peer", "failed"
          w,          \* the writer's context
          wr,         \* what the last call of the writer returned
          behind,     \* the character of the buffer behind the text
          said,       \* the successful calls, as <<kind, value>>
          rd,         \* the reader's context
          r,          \* what the last rjson_next returned
          text,       \* the characters it was given
          got         \* what it reported, as <<kind, value>>

vars == <<phase, w, wr, behind, said, rd, r, text, got>>
reader == <<rd, r, text, got>>

(* lvls_len, is_first and the buffer: zeroes, or what was in memory        *)
Garbage == IF Zeroed THEN {<<>>} ELSE {<<>>, <<"obj">>, <<"arr">>}

(* Of the two contexts a behaviour uses the writer's only in "write".      *)
Init ==
  /\ \/ /\ "wjson" \in Sources /\ phase = "write"
        /\ \E is_pretty \in Pretties, lvls \in Garbage, is_first \in {FALSE, ~Zeroed} :
             w = wjson_init(is_pretty, lvls, is_first)
        /\ behind \in {"NUL", IF Zeroed THEN "NUL" ELSE "x"}
     \/ "peer" \in Sources /\ phase = "peer" /\ w = wjson_init(FALSE, <<>>, FALSE) /\ behind = "NUL"
  /\ wr = "ok" /\ said = <<>> /\ rd = rjson_init /\ r = "ok" /\ text = <<>> /\ got = <<>>
-----------------------------------------------------------------------------
(***************************************************************************)
(* Writing                                                                 *)
(***************************************************************************)
Starts == {"obj_start", "arr_start"}
Ends == {"obj_end", "arr_end"}

(* How many objects and arrays the first n calls left open                 *)
Nesting(n) == Cardinality({k \in 1..n : said[k][1] \in Starts}) - Cardinality({k \in 1..n : said[k][1] \in Ends})

Closed == said # <<>> /\ Nesting(Len(said)) = 0

(* What rjson_next does not read back: an array at the top, the integer 0, *)
(* an empty array, and an object in which something follows an array,      *)
(* since wjson_arr_end leaves out the ',' there.                           *)
CanFollow(token) ==
  LET last == IF said = <<>> THEN "none" ELSE said[Len(said)][1]
  IN  /\ "top_arr" \in Avoids /\ last = "none" => token[1] # "arr_start"
      /\ "zero" \in Avoids => ~(token[1] = "num" /\ token[2].mant = 0 /\ token[2].fracs = 0)
      /\ "empty_arr" \in Avoids /\ last = "arr_start" => token[1] # "arr_end"
      /\ "after_arr" \in Avoids /\ last = "arr_end" => lvl_(w) = "arr" \/ token[1] \in Ends

Call(res, token) ==
  /\ phase = "write" /\ wr = "ok" /\ Len(said) < MaxCalls /\ ~Closed /\ CanFollow(token)
  /\ said = <<>> => token[1] \in Starts
  /\ res.r # "syntax"
  /\ w' = res.c /\ wr' = res.r
  /\ said' = IF res.r = "ok" THEN Append(said, token) ELSE said
  /\ phase' = IF res.r = "ok" THEN "write" ELSE "failed"
  /\ UNCHANGED <<behind, reader>>

Written(v) == <<"num", [mant |-> IF v.neg THEN -v.mant ELSE v.mant, fracs |-> v.fracs, exp |-> 0]>>

WriteStr == \E v \in Strs : Call(wjson_str(w, v), <<"str", v>>)
WriteInt == \E v \in Nums : v.fracs = 0 /\ Call(wjson_int(w, v), Written(v))
WriteDouble == \E v \in Nums : v.fracs > 0 /\ Call(wjson_double(w, v), Written(v))
WriteBool == \E v \in BOOLEAN : Call(wjson_bool(w, v), <<"bool", v>>)
WriteNull == Call(wjson_null(w), <<"null", "none">>)
WriteObjStart == Call(wjson_obj_start(w), <<"obj_start", "none">>)
WriteObjEnd == Call(wjson_obj_end(w), <<"obj_end", "none">>)
WriteArrStart == Call(wjson_arr_start(w), <<"arr_start", "none">>)
WriteArrEnd == Call(wjson_arr_end(w), <<"arr_end", "none">>)

(* The user has closed their object and hands wjson_out_str to the reader. *)
HandOver ==
  /\ phase = "write" /\ Closed /\ said[1][1] = "obj_start" /\ phase' = "read"
  /\ UNCHANGED <<w, wr, behind, said, reader>>
-----------------------------------------------------------------------------
(***************************************************************************)
(* Reading                                                                 *)
(***************************************************************************)
Token(c) ==
  CASE c.cur = "num" -> << <<"num", rjson_cur_num(c)>> >>
    [] c.cur = "bool" -> << <<"bool", c.bool_is_true>> >>
    [] c.cur = "str" -> << <<"str", c.str>> >>
    [] c.cur = "incomplete" -> <<>>
    [] OTHER -> << <<c.cur, "none">> >>

Feed(ch) ==
  LET res == rjson_next(rd, ch) IN
  /\ r = "ok"
  /\ rd' = res.c /\ r' = res.r /\ text' = Append(text, ch)
  /\ got' = IF res.r \in {"ok", "fin"} THEN got \o Token(res.c) ELSE got
  /\ UNCHANGED <<phase, w, wr, behind, said>>

(* The string at wjson_out_str: wjson_init ended the buffer with a '\0',   *)
(* and nobody ends the text in it.                                         *)
OutChar(k) == IF k <= Len(w.str) THEN w.str[k] ELSE IF k < mlen THEN behind ELSE "NUL"

ReadBack == phase = "read" /\ Feed(OutChar(Len(text) + 1))
ReadPeer == phase = "peer" /\ Len(text) < MaxText /\ \E ch \in Alphabet : Feed(ch)
ReadPeerEnd == phase = "peer" /\ Feed("NUL")

Next ==
  \/ WriteStr \/ WriteInt \/ WriteDouble \/ WriteBool \/ WriteNull
  \/ WriteObjStart \/ WriteObjEnd \/ WriteArrStart \/ WriteArrEnd \/ HandOver
  \/ ReadBack \/ ReadPeer \/ ReadPeerEnd

Spec == Init /\ [][Next]_vars
-----------------------------------------------------------------------------
(***************************************************************************)
(* Properties                                                              *)
(***************************************************************************)
(* The buffers hold what is put in them: lvls of both contexts its levels, *)
(* the writer's buffer its text with room for a '\0' (add_ch_), and the    *)
(* reader's its string (add_str_ch_).                                      *)
TypeOK ==
  /\ phase \in {"write", "read", "peer", "failed"}
  /\ wr \in {"ok", "overflow", "depth", "panic"}
  /\ r \in {"ok", "fin", "syntax", "depth", "panic"}
  /\ \A c \in {w, rd} : c.lvls \in Seq({"obj", "arr"}) /\ Len(c.lvls) <= max_depth_
  /\ w.st \in {"none", "want_key", "want_val"}
  /\ Len(w.str) <= IF mlen = 0 THEN 0 ELSE mlen - 1
  /\ rd.st \in {"idle", "want_key", "want_colon", "str", "num", "true", "false", "null"}
  /\ Len(rd.str) <= str_mlen /\ rd.pos <= Len(text)

(* Of all the assertions of the reader (assert_lvl_,                       *)
(* assert_is_val_expected_, "buffered_ch should've been consumed before    *)
(* num", "no levels to pop") none fails, whatever the text; and neither    *)
(* does the writer's "st_want_key can only be in obj", whatever the calls. *)
NoPanic == r # "panic" /\ wr # "panic"
=============================================================================
