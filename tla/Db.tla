--------------------------------- MODULE Db ---------------------------------
(***************************************************************************)
(* A text written through wdb.c and read back through rdb.c: a user makes  *)
(* any calls of the writer, goes on after the ones that fail, and finishes *)
(* the text; it is then given to rdb_next a character at a time, as the    *)
(* demo of rdb.c does (rdb.c:646-659), until fin or a syntax error.        *)
(***************************************************************************)
EXTENDS Wdb, Rdb

CONSTANTS Keys,       \* what the user passes to wdb_key
          Strs,       \* ... to wdb_str
          LongStrs,   \* ... to wdb_long_str
          Nums,       \* ... to wdb_int and wdb_num: records [neg, mant, fracs]
          MaxCalls    \* the bound on the calls of the writer

ASSUME DbAssumption ==
  /\ MaxCalls \in Nat
  /\ Keys \cup Strs \cup LongStrs \subseteq Seq(STRING)
  /\ Nums \subseteq [neg : BOOLEAN, mant : Nat, fracs : Nat]

VARIABLES phase,      \* "write", "read", "done" after fin, "bad" after syntax
          w,          \* the writer's context
          said,       \* the calls that returned wdb_ok, as <<kind, value>>
          calls,      \* calls made
          rdr,        \* the reader's context
          pos,        \* the characters it has been given
          got         \* what the reader reported, as <<kind, value>>

vars == <<phase, w, said, calls, rdr, pos, got>>
reader == <<rdr, pos, got>>

Init ==
  /\ phase = "write"
  /\ w = wdb_init
  /\ said = <<>>
  /\ calls = 0
  /\ rdr = rdb_init
  /\ pos = 0
  /\ got = <<>>

Call(res, token) ==
  /\ phase = "write"
  /\ calls < MaxCalls
  /\ calls' = calls + 1
  /\ w' = res.c
  /\ said' = IF res.ok THEN Append(said, token) ELSE said
  /\ UNCHANGED <<phase, reader>>

Written(v) == <<"num", [neg |-> v.neg, mant |-> v.mant, fracs |-> v.fracs, exp |-> 0]>>

WriteKey == \E v \in Keys : Call(wdb_key(w, v), <<"key", v>>)
WriteStr == \E v \in Strs : Call(wdb_str(w, v), <<"str", v>>)
WriteLongStr == \E v \in LongStrs : Call(wdb_long_str(w, v), <<"str", v>>)
WriteInt == \E v \in Nums : v.fracs = 0 /\ Call(wdb_int(w, v), Written(v))
WriteNum == \E v \in Nums : v.fracs > 0 /\ Call(wdb_num(w, v), Written(v))
WriteBool == \E v \in BOOLEAN : Call(wdb_bool(w, v), <<"bool", v>>)

Fin ==
  /\ phase = "write"
  /\ w' = wdb_fin(w).c
  /\ phase' = IF wdb_fin(w).ok THEN "read" ELSE "write"
  /\ UNCHANGED <<said, calls, reader>>

Token(c) ==
  CASE c.ty = "num" -> << <<"num", rdb_cur_num(c)>> >>
    [] c.ty = "bool" -> << <<"bool", rdb_cur_is_true(c)>> >>
    [] c.ty \in {"key", "str"} -> << <<c.ty, c.str>> >>
    [] OTHER -> <<>>

Read ==
  LET res == rdb_next(rdr, w.out[pos + 1]) IN
  /\ phase = "read"
  /\ pos' = pos + 1
  /\ rdr' = res.c
  /\ got' = got \o Token(res.c)
  /\ phase' = CASE res.r = "ok" -> "read" [] res.r = "fin" -> "done" [] res.r = "syntax" -> "bad"
  /\ UNCHANGED <<w, said, calls>>

Next == WriteKey \/ WriteStr \/ WriteLongStr \/ WriteInt \/ WriteNum \/ WriteBool \/ Fin \/ Read

Spec == Init /\ [][Next]_vars

-----------------------------------------------------------------------------
(* The phases, the two buffers within their bounds (wdb.c add_ch_, rdb.c   *)
(* str_mlen and word) and the reader never past the '\0' of the text.      *)
TypeOK ==
  /\ phase \in {"write", "read", "done", "bad"}
  /\ Len(w.out) <= mlen
  /\ Len(rdr.str) <= str_mlen
  /\ Len(rdr.word) <= word_size
  /\ calls \in 0..MaxCalls
  /\ phase = "read" => pos < Len(w.out)

(* What the reader reports is, in order, what the accepted calls wrote,    *)
(* and all of it once the reader says fin: escapes, list separators, calls *)
(* that failed halfway and were undone, and number formats included.       *)
ReadsBack ==
  /\ Len(got) <= Len(said) /\ got = SubSeq(said, 1, Len(got))
  /\ phase = "done" => got = said

(* The reader refuses a text the writer made only when a key or a string   *)
(* does not fit in the reader's buffer with its '\0'.                      *)
RefusedOnlyWhenLong ==
  phase = "bad" => \E k \in DOMAIN said : said[k][1] \in {"key", "str"} /\ Len(said[k][2]) >= str_mlen

============================================================================
