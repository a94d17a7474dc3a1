SPECIFICATION Spec
CONSTANTS
  Uploaders = {u}
  long = long
  short = short
  Contents = {long, short}
  Length <- MCLength
  Nothing = nothing
  Kinds = {"gif"}
  Overlap = FALSE
  MaxUploads = 1
  MaxFaults = 1
  Faults = {"straggle"}
INVARIANT NoOffByOne
