SPECIFICATION Spec
CONSTANTS
  Callers = {a, b}
  Loops = {r1, r2}
  NoTask = none
  Pieces = 1
  Api = {"connect", "disconnect", "auto"}
  MaxClients = 9
  MaxCalls = 4
  MaxFaults = 3
  Faults = {"drop", "suspend", "connect", "notify", "close"}
SYMMETRY Symmetry
INVARIANTS TypeOK OneLiveLink ClientNotSwapped OneSupervisor DisabledIsOff QuietDisconnect CountsRealReconnects
