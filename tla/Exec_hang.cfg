CONSTANTS DownCap = 1  EventCap = 1  MaxBreaks = 1  Pieces = 1
SPECIFICATION FairSpec
PROPERTY StatusIsReturned
CHECK_DEADLOCK FALSE
