SPECIFICATION Spec
CONSTANTS
  NominalHz = 1000
  OffsetScale = 1000
  Width = 2
  MinSamples = 2
  JumpThreshold = 5
  StdDevThreshold = 2
  MinMagnitude <- MinimumMagnitude
  Margin = 2
  Swing <- Thresholds
  Uploads <- ThreeWindows
  Readings <- SomeReadings
  Links = {l1}
PROPERTY SegmentsAreRuns
