SPECIFICATION Spec
CONSTANTS
  Scripts <- MCScripts
  Settings <- MCSettings
  MaxFaults = 2
  Blocks <- MCBlocks
  Ends <- MCEnds
INVARIANTS TypeOK EachRestoredAlone RestoredByCleanup ErrorsDoNotStopRestoring CleanRunLeavesNothing AnalysisKeepsPromises
CHECK_DEADLOCK FALSE
