CONSTANTS MaxUp = 1  MaxDown = 2  MaxReopens = 2  MaxRestarts = 0
SPECIFICATION Spec
INVARIANT CleanEndIsWhole
CHECK_DEADLOCK FALSE
