CONSTANTS Conns = {c1}  Urls = {u1}  FirstUrl = u1
          MaxAttempts = 2  MaxReloads = 1  MaxRestarts = 0
SPECIFICATION FairSpec
PROPERTY StreamFollowsConfig
CHECK_DEADLOCK FALSE
