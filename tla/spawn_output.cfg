SPECIFICATION Spec
CONSTANTS
  out = out
  err = err
  Stream = {out, err}
  Chunks <- MCChunks
  PipeSize = 1
INVARIANTS
  TypeOK
  NothingLeftBehind
PROPERTIES
  OutputSpec
  StreamEnds
  EnvComesBack
CHECK_DEADLOCK FALSE
