------------------------------ MODULE DbChars ------------------------------
(***************************************************************************)
(* The characters that wdb.c and rdb.c tell apart.  A character is a       *)
(* string of length one, except "NUL" for '\0', "CTL" for a control        *)
(* character that has no case of its own, and "U8" for a byte of 128 or    *)
(* more, which as a char is negative and so passes for a control character *)
(* in wdb.c and rdb.c.  Letters are those of the words and the escapes the *)
(* format knows; the others behave as "a" does.                            *)
(***************************************************************************)
EXTENDS Sequences

Letters == {"a", "e", "f", "l", "n", "r", "s", "t", "u"}

digit == <<"0", "1", "2", "3", "4", "5", "6", "7", "8", "9">>

Chars(s) == {s[k] : k \in DOMAIN s}
============================================================================
