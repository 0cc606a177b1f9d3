SPECIFICATION FairSpec
CONSTANTS
  Socks = {s1}
  MaxSocks = 1
  fds_maxlen_ = 2
  Strats = {"wait"}
  AddFails = FALSE
  HasTimeout = TRUE
PROPERTIES StopReported
