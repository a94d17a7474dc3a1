SPECIFICATION Spec
CONSTANTS
  NoJob = NoJob
  None = None
  Flat <- MCFlat
  Chunked <- MCChunked
  Totals = {1, 4096, 4097}
  CHUNK_SIZE = 4096
  PACKET_SIZE = 509
  ResponseSize = 512
  WriteSizes = {20, 182, 514}
  AclSize = 251
  MIN_FRAGMENT = 64
  MAX_FRAME = 8192
  Bystanders <- MCBystanders
  Animations <- MCAnimations
  DataWords = {0, 600, 60000}
  MaxJobs = 2
INVARIANTS TypeOK PanelFollows AckedAtTheEnd AnnotationRight AnalyserFollows GifFits GifBounded
