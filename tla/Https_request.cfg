SPECIFICATION FairSpec
CONSTANTS
  Socks = {s1, s2}
  MaxSocks = 2
  fds_maxlen_ = 3
  Strats = {"abort", "wait"}
  AddFails = TRUE
  HasTimeout = TRUE
INVARIANTS TypeOK FdsInSync IdleIsClean
PROPERTIES NoReqAfterStop ReqAnswered StopReportedOrErr
