CONSTANTS ChanCap = 2  SockCap = 1  MaxUp = 1  MaxDown = 2
SPECIFICATION Spec
INVARIANT AbortReleasesTheTarget
CHECK_DEADLOCK FALSE
