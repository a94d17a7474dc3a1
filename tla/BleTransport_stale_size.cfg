SPECIFICATION Spec
CONSTANTS
  Callers = {a, b}
  Loops = {r1}
  NoTask = none
  Pieces = 2
  Api = {"write"}
  MaxClients = 9
  MaxCalls = 1
  MaxFaults = 1
  Faults = {"write"}
INVARIANT FrameSizedForItsLink
