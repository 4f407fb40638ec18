CONSTANTS Conns = {c1}  Urls = {u1, u2}  FirstUrl = u1
          MaxAttempts = 2  MaxReloads = 1  MaxRestarts = 1
SPECIFICATION FairSpec
INVARIANTS TypeOK LiveOnCurrentSession FirstResetWipesNobody
PROPERTY StreamFollowsSession
CHECK_DEADLOCK FALSE
