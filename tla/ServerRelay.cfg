CONSTANTS WriterCap = 1  SseCap = 1  SockCap = 1  SendAttempts = 2  DeadGrace = 2
          MaxUp = 2  MaxOut = 1  MaxOpens = 1
SPECIFICATION ReadingTargetSpec
INVARIANTS TypeOK HalfCloseKeepsUpload FinIsEarned
           DiscardIsReported
PROPERTIES ResponseIsByteStream AbortReleases VanishedReleases BothEndsRelease
CHECK_DEADLOCK FALSE
