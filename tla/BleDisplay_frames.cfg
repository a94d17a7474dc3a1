SPECIFICATION Spec
CONSTANTS
  Presenters = {p, q}
  Others = {o}
  Nobody = nobody
  Dropped = dropped
  Entries = {TRUE, FALSE}
  MaxCalls = 4
  MaxFaults = 3
  Faults = {"drop", "suspend", "connect"}
SYMMETRY Symmetry
INVARIANTS TypeOK FlagHonest UndisturbedFrameLands
