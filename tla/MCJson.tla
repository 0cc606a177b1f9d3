------------------------------- MODULE MCJson -------------------------------
(***************************************************************************)
(* Instances of Json for TLC, and the comparisons of what rjson.c reports  *)
(* with what was said to wjson.c and with the grammar of JsonGrammar.      *)
(***************************************************************************)
EXTENDS Json
LOCAL INSTANCE SequencesExt

Grammar == INSTANCE JsonGrammar

(* One of each kind of character that rjson.c tells apart                  *)
mc_Alphabet == {"{", "}", "[", "]", ":", ",", "\"", "\\", " ", "0", "1", "-", "+", ".", "e", "t", "r", "u", "n", "l", "U8"}

mc_Strs == {<<"\"">>, <<"\\">>, <<"\n">>, <<"x", "x">>}
mc_Nums == {[neg |-> FALSE, mant |-> 10, fracs |-> 0], [neg |-> TRUE, mant |-> 105, fracs |-> 2],
            [neg |-> TRUE, mant |-> 1005, fracs |-> 2]}
one_Str == {<<"x">>}
one_Num == {[neg |-> FALSE, mant |-> 1, fracs |-> 0]}

Collapsed(events) ==
  FoldLeft(LAMBDA acc, ev : IF ev[1] = "obj_start" /\ acc # <<>> /\ Last(acc) = ev THEN acc ELSE Append(acc, ev),
           <<>>, events)

(* What rjson.c reports of a text of wjson.c is what was said to wjson.c,  *)
(* in order and nothing else, pretty or not, escapes and the digits of     *)
(* numbers included: a part of it while it reads, all of it when it is     *)
(* fin.  (An obj_start comes once for every character of whitespace after  *)
(* its '{', and never twice in a row otherwise.)                           *)
ReadsBack ==
  phase = "read" /\ r \in {"ok", "fin"} =>
    /\ IsPrefix(Collapsed(got), said)
    /\ r = "fin" => Len(Collapsed(got)) = Len(said)

(* rjson.c refuses a text of wjson.c only at a string that with its '\0'   *)
(* does not fit in the buffer given to rjson_init, or at a byte it does    *)
(* not take, and has then reported everything before it.                   *)
RefusedOnlyAtStr ==
  phase = "read" /\ r = "syntax" =>
    LET at == said[Len(Collapsed(got)) + 1]
    IN  at[1] = "str" /\ (Len(at[2]) >= str_mlen \/ \E k \in DOMAIN at[2] : at[2][k] \in {"CTL", "U8", "XFF"})

(* The reader has done what the grammar says of text t, of which a '\0'    *)
(* was the end or not.                                                     *)
Agrees(t, ended, g) ==
  CASE r = "ok" /\ rd.buffered_ch = "none" -> g.k = "more" /\ got = g.evs /\ rd.pos = Len(t)
    [] r = "ok" /\ rd.buffered_ch # "none" -> IsPrefix(got, g.evs) /\ rd.pos = Len(t) - 1
    [] r = "fin" -> g.k = "ok" /\ got = g.evs /\ rd.pos = g.i
    [] r = "syntax" -> /\ g.k = "bad" /\ rd.pos = g.i
                       /\ got = g.evs \/ (ended /\ got = Front(g.evs))
    [] r = "depth" -> g.k = "depth"
    [] OTHER -> FALSE

(* What rjson_next has reported of a text, how far rjson_pos says it is,   *)
(* and what it returns, are those of the grammar, after every character of *)
(* every text: one state machine with a stack and a buffered character     *)
(* against a recursive definition.  While a character is buffered its      *)
(* event is still to come; and at a '\0' that comes too early an event may *)
(* be discarded (rjson.c:172).                                             *)
MatchesGrammar ==
  phase = "peer" =>
    IF text # <<>> /\ Last(text) = "NUL"
    THEN Agrees(Front(text), TRUE, Grammar!WholeText(Front(text)))
    ELSE Agrees(text, FALSE, Grammar!Text(text))

(* "All objects are transmited in JSON" (spec.org:753), and some of them   *)
(* have a field behind a list, as "is_persistent" behind "keyboard" of a   *)
(* ReplyKeyboardMarkup (spec.org:782-785): an object that the user of      *)
(* wjson.c has closed is JSON.                                             *)
OutputIsJson ==
  phase = "write" /\ Closed /\ said[1][1] = "obj_start" => Grammar!WholeText(w.str).k = "ok"
=============================================================================
