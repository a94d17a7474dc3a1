SPECIFICATION FairSpec
CONSTANTS
  Callers = {a, b}
  Loops = {r1}
  NoTask = none
  Pieces = 2
  Api = {"connect", "disconnect", "write"}
  MaxClients = 9
  MaxCalls = 2
  MaxFaults = 2
  Faults = {"drop", "suspend", "connect", "write"}
INVARIANTS OneLiveLink CachedSizeIsCurrent
PROPERTIES OneCommandAtATime EveryCallReturns OutageEnds
