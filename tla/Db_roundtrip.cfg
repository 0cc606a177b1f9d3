SPECIFICATION Spec
CONSTANTS
  mlen = 20
  num_buf = 6
  str_mlen = 3
  MaxCalls = 4
  Keys <- PlainKeys
  Strs <- StrTexts
  LongStrs <- LongTexts
  Nums <- SomeNums
INVARIANTS TypeOK ReadsBack RefusedOnlyWhenLong
CHECK_DEADLOCK FALSE
