SPECIFICATION Spec
CONSTANTS
  Procs = {p1}
  Lens = {0, 1}
  ClientWaits = FALSE
PROPERTIES WriteLenAsRequested
