SPECIFICATION FairSpec
CONSTANTS
  Uploaders = {u, v}
  long = long
  short = short
  Contents = {long, short}
  Length <- MCLength
  Nothing = nothing
  Kinds = {"fatal", "gif", "activate"}
  Overlap = FALSE
  MaxUploads = 2
  MaxFaults = 2
  Faults = {"lose", "repeat", "reject", "write"}
INVARIANTS TypeOK Paced OneFaultSurvived
PROPERTIES SuccessMeansStored UploadEnds
