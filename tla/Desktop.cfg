SPECIFICATION MCSpec
CONSTANTS
  Registry <- ThreeTools
  Tuner = "tuner"
  Spectrogram = "spectrogram"
  HarmonicAnalyzer = "harmonic-analyzer"
  Configurable = {"tuner"}
  Aliases <- FormerIds
  NoTool = NoTool
  MaximumDockDepth = 3
  Ids <- SavedIds
  MaxNesting = 4
  DividerStops = {5}
  SavedDocuments <- Documents
  TicksPerQuarter = 2
  Fraction = 3
  Notes <- SomeNotes
  Attributes <- SomeAttributes
  CursorMoves = {1, 2}
  Tempos <- SomeTempos
  OwnId <- FirstPart
  Surroundings <- PartLists
  CommonTime = 4
  MaxElements = 3
  MaxMeasures = 2
  MaxBarEvents = 3
  BarEvents <- SomeBarEvents
  Signatures <- SomeSignatures
  NoSign = NoSign
  Opening <- Duo
  Columns <- SomeColumns
  MaxBars = 4
  Widths = {5600, 13500}
  Selections <- PartSelections
  SizeLadder <- ThreeSizes
  DefaultStep = 2
  Sheets <- TwoSheets
  NoScore = NoScore
  Rooms <- TwoRooms
  Payloads <- SavedView
  ScrollStops <- OneStop
INVARIANTS BarReadsBack NothingInTheBarTouches PageReadsBack
INVARIANTS FrozenScoreIsWellFormed CleanImportIsExact TiesJoinWhatWasTied
INVARIANTS TreeMatchesPresentations CaptureSurvivesRestart
PROPERTIES KeptBarStaysInView OnlyOneToolMoves
