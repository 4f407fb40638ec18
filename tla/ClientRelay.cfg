CONSTANTS ChanCap = 2  SockCap = 1  MaxUp = 2  MaxDown = 4
SPECIFICATION FairSpec
INVARIANTS TypeOK CleanEofIsComplete CleanExitStopsNobody QueuedResponseSurvives
           AbandonedStreamIsAborted
PROPERTIES ResponseIsByteStream FailureTearsDown BrokenUploadNotParked DispatchReturns AppLearnsTheEnd
CHECK_DEADLOCK FALSE
