SPECIFICATION Spec
CONSTANTS
  Callers = {a, b}
  Loops = {r1}
  NoTask = none
  Pieces = 1
  Api = {"connect", "auto"}
  MaxClients = 9
  MaxCalls = 2
  MaxFaults = 1
  Faults = {"drop"}
PROPERTIES EnablingNeverDisarms
