SPECIFICATION Spec
CONSTANTS
  Runs = {r1}
  Drivers = {d1, d2, d3}
  Rows <- TwoBatches
  Delivered <- Delivery
  PlaybackBatches = 2
  Overlaps = {FALSE, TRUE}
SYMMETRY DriverSymmetry
INVARIANTS OneWriterPerRun SuccessIsExact OneAppenderSucceeds
CHECK_DEADLOCK FALSE
