SPECIFICATION Spec
CONSTANTS
  Drivers = {"ali", "ali_open", "baidu", "thunder", "quark", "cloudreve"}
  Clients = {c1, c2}
  NoClient = none
  Procs = {p1, p2}
  MaxOdd = 2
  MaxReqs = 2
INVARIANTS TypeOK SessionKept SavedIsCurrent
PROPERTIES LoneCallServed CallsReturn TimerStops
CHECK_DEADLOCK FALSE
