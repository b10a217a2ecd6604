\* Two processes, two requests at a time, two events of two organizers.
CONSTANTS
  Replicas = {r1, r2}
  Clients = {c1, c2}
  Slugs = {s1}
  Owners = {o1, o2}
  Admin = Admin
  Keys = {k1}
  Blank = Blank
  TTL = 1
  MaxRequest = 1
  CacheSize = 0
  MaxAsks = 3
  MaxTicks = 3
SPECIFICATION Spec
INVARIANTS TypeOK ServedConfigsAreRecent EditsShow OwnersKeepTheirEvents
SYMMETRY Alike
CHECK_DEADLOCK FALSE
