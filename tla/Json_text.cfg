SPECIFICATION Spec
CONSTANTS
  max_depth_ = 2
  str_mlen = 2
  mlen = 50
  num_buf = 6
  Sources = {"wjson", "peer"}
  Alphabet <- mc_Alphabet
  MaxText = 9
  Strs <- mc_Strs
  Nums <- mc_Nums
  Pretties = {FALSE, TRUE}
  MaxCalls = 7
  Avoids = {"zero", "empty_arr", "after_arr", "top_arr"}
  Zeroed = TRUE
INVARIANTS TypeOK NoPanic ReadsBack RefusedOnlyAtStr 
CHECK_DEADLOCK FALSE
