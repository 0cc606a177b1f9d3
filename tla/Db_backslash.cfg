SPECIFICATION Spec
CONSTANTS
  mlen = 20
  num_buf = 6
  str_mlen = 5
  MaxCalls = 2
  Keys <- OneKey
  Strs <- SlashTexts
  LongStrs <- None
  Nums <- None
INVARIANTS ReadsBack
CHECK_DEADLOCK FALSE
