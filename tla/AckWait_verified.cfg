SPECIFICATION FairSpec
CONSTANTS
  Callers = {a, b}
  None = none
  brightness = brightness
  timerClose = timerClose
  password = password
  kBrightness = kBrightness
  kTimer = kTimer
  kPassword = kPassword
  Commands = {brightness, timerClose, password}
  Key <- MCKey
  Unverified = {password}
  Unackable = {password}
  StatusKeys = {kTimer}
  Api = {"send", "await", "verification"}
  MaxCalls = 2
  MaxFaults = 2
  Faults = {"connect", "connect timeout", "heal", "link", "late", "race", "cancel", "lose"}
INVARIANTS TypeOK EachWaitHeard OwnAnswer
PROPERTIES RejectionRaised CallEnds
