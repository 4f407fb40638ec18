CONSTANTS Conns = {c1}  Urls = {u1}  FirstUrl = u1
          MaxAttempts = 2  MaxReloads = 0  MaxRestarts = 0
SPECIFICATION Spec
INVARIANT DataResetsTheCount
CHECK_DEADLOCK FALSE
