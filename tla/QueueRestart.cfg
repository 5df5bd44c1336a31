SPECIFICATION PqSpec
CONSTANTS
  ra = ra
  rb = rb
  rc = rc
  rx = rx
  rm = rm
  PqRecords = {ra, rb, rc, rx, rm}
  PqMissing = {rm}
  PqBad = {rx}
  PqFormat <- PqSomeFormats
  PqLists <- PqSomeLists
  PqSkips = 2
  PqFaults = {"start", "open", "dac", "seek", "preopen", "next", "decode"}
  PqNone = none
INVARIANT PqRestartDrains
CHECK_DEADLOCK FALSE
