CONSTANTS DownCap = 1  EventCap = 1  MaxBreaks = 1
CONSTANTS Pulled = 3  ChunkCap = 1  Pushed = 2  MaxLate = 2  Pieces = 1
SPECIFICATION Spec
INVARIANTS TypeOK OkMeansWhole OkMeansUnpacked StatusIsOwn OutputBeforeStatus AnswerIsTrue
PROPERTIES RelayEnds SessionReturns
CHECK_DEADLOCK FALSE
