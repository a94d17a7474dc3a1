SPECIFICATION Spec
CONSTANTS
  Callers = {a, b}
  Loops = {r1}
  NoTask = none
  Pieces = 1
  Api = {"connect"}
  MaxClients = 9
  MaxCalls = 1
  MaxFaults = 1
  Faults = {"drop"}
INVARIANT DroppedLinkIsWatched
