SPECIFICATION Spec
CONSTANTS
  Callers = {a, b}
  Loops = {r1}
  NoTask = none
  Pieces = 1
  Api = {"connect", "disconnect"}
  MaxClients = 9
  MaxCalls = 2
  MaxFaults = 0
  Faults = {}
INVARIANT DisconnectStopsSupervision
