SPECIFICATION Spec
CONSTANTS
  max_depth_ = 2
  str_mlen = 2
  mlen = 50
  num_buf = 6
  Sources = {"wjson"}
  Alphabet <- mc_Alphabet
  MaxText = 9
  Strs <- one_Str
  Nums <- one_Num
  Pretties = {FALSE, TRUE}
  MaxCalls = 8
  Avoids = {"zero", "empty_arr"}
  Zeroed = TRUE
INVARIANT OutputIsJson
CHECK_DEADLOCK FALSE
