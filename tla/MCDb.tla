-------------------------------- MODULE MCDb --------------------------------
(* Values for the constants of Db.                                         *)
EXTENDS Db
S == INSTANCE SequencesExt

(* Keys that both sides take: a digit, '.' and '-' not in the first place. *)
PlainKeys == {<<"a">>, <<"_", "1">>, <<"a", ".">>, <<"a", "-">>}
OneKey == {<<"a">>}

(* The special characters in pairs, at the limit of the reader's buffer,   *)
(* and what is refused.                                                    *)
StrTexts == S!SeqOf({"a", "\"", "\n", "\r"}, 2) \cup {<<"n", ",", "<", "a">>, <<"CTL">>, <<"U8">>}
LongTexts == S!SeqOf({"a", "\n", "<", ">"}, 2) \cup {<<"\n", "a", "\n">>, <<" ", "\r">>, <<"CTL">>}
SlashTexts == S!SeqOf({"a", "n", "\\"}, 2)

Number(neg, mant, fracs) == [neg |-> neg, mant |-> mant, fracs |-> fracs]

(* Zero, leading and trailing zeroes, and one too long for num_buf.        *)
SomeNums ==
  {Number(FALSE, m, 0) : m \in {0, 7, 205}} \cup {Number(TRUE, 30, 0)} \cup
  {Number(n, m, 2) : n \in BOOLEAN, m \in {0, 5, 314, 2000}}
None == {}
=============================================================================
