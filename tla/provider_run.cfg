SPECIFICATION LiveSpec
CONSTANTS
  Streams = {out, err}
  PromptSize = 2
  MaxChunks = 2
  PipeSize = 1
  Timeouts = {TRUE, FALSE}
  MaxFaults = 1
CHECK_DEADLOCK FALSE
INVARIANT OutputIsComplete
INVARIANT KilledGroupIsGone
PROPERTY KilledRunEnds
