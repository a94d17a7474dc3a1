SPECIFICATION Spec
CONSTANTS
  Presenters = {p}
  Others = {o}
  Nobody = nobody
  Dropped = dropped
  Entries = {TRUE}
  MaxCalls = 2
  MaxFaults = 2
  Faults = {"suspend", "mute"}
INVARIANT FlagHonest
