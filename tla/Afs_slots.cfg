SPECIFICATION AfsSpec
CONSTANTS
  Procs = {p1, p2}
  p1 = p1
  p2 = p2
  Lens = {0}
  ClientWaits = TRUE
  Ops = {"open", "close", "reserve", "write_fsync_close"}
  Polite = TRUE
  MaxCalls = 3
SYMMETRY WorkerSymmetry
INVARIANTS UniqueFds NoLostRequest FreeHasNoFile PfdsFit
PROPERTIES EventsWereAsked
