CONSTANTS Broken = Broken  Missing = Missing
          Passwords = {p1, p2}  Sites = {s1, s2}  Headers = {h1, h2}  Urls = {u1, u2}
          CliPassword = p1  Cli = Cli  MaxEdits = 2
SPECIFICATION Spec
INVARIANTS TypeOK OverridesWin
PROPERTIES ChangeRotates Converges
CHECK_DEADLOCK FALSE
