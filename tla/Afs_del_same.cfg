SPECIFICATION AfsSpec
CONSTANTS
  Procs = {p1, p2}
  p1 = p1
  p2 = p2
  Lens = {0}
  ClientWaits = TRUE
  Ops = {"mkdir"}
  Polite = TRUE
  MaxCalls = 2
SYMMETRY WorkerSymmetry
PROPERTIES DelSamePs
