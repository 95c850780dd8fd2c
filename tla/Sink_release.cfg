\* BigBuffer and the exporter's writer over every run of up to four cells, with a failing sink.
CONSTANTS
  MaxCells = 4
  SinkMayFail = TRUE
SPECIFICATION Spec
INVARIANTS
  TypeOK
  ErrorSurfaced
  FinalImage
  ReleasedOnce
