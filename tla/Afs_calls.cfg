SPECIFICATION AfsFairSpec
CONSTANTS
  Procs = {p1}
  p1 = p1
  Lens = {0, 1}
  ClientWaits = TRUE
  Ops = {"open", "close", "fsync", "write", "readall", "mkdir", "reserve", "write_fsync_close"}
  Polite = TRUE
  MaxCalls = 3
INVARIANTS AfsTypeOK EvsFit
PROPERTIES WriteLenAsRequested Completed StopReported ImplementsProc
