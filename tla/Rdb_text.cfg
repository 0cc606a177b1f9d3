SPECIFICATION TextSpec
CONSTANTS
  str_mlen = 3
  MaxLen = 7
  Alphabet <- SomeChars
INVARIANTS  ValueHasKey NumberValue
CHECK_DEADLOCK FALSE
