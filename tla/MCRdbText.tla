----------------------------- MODULE MCRdbText -----------------------------
(* The alphabet of RdbText.                                                *)
EXTENDS RdbText

(* One or two of each class of characters                                  *)
SomeChars == {"a", "t", "1", "0", ":", ",", " ", "\n", "\"", "<", ">", "-", ".", "e", "NUL"}
============================================================================
