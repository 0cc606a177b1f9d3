SPECIFICATION FairSpec
CONSTANTS
  Procs = {p1}
  Lens = {0, 1}
  ClientWaits = FALSE
INVARIANTS TypeOK OneBaton AnswerIsForCmd
PROPERTIES CmdStable ImplementsRequest Answered StopCompletes
