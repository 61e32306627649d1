SPECIFICATION MCSpec
CONSTANTS
  Capacity = 3
  MaxBlock = 2
  MaxOffered = 6
  QueueCapacity = 2
  MaxPop = 2
  MaxEvents = 5
  Listeners = {tuner, spectrogram}
  MaxConsumers = 2
  Identifiers = {"20:0", "24:0"}
  DeviceNames = {"piano", "pads"}
  NoDevice = "no device"
  NoName = "no name"
  SettleTicks = 1
  OpenScanTicks = 1
  ClosedScanTicks = 0
  MaxPlugs = 2
  Positions = {0, 1}
  Thresholds = {1, 2}
  FifoCapacity = 2
  BatchSize = 1
  MaxMessages = 4
  MaxConnections = 2
  Pitches = {120, 127, 144}
  Semitone = 2
  AverageWindow = 3
  Presets <- SomePresets
  MaxHistory = 1
  Settling = 6
INVARIANTS InputTypeOK OneProducerFills NoResetUnderDevice FormatSettled NoTornSample
INVARIANTS EverySampleAccounted EveryLossCounted InOrderWhileNothingLost SettledInputIsTheChosenKeyboard NoLossInsideAMeasurement SustainedPitchIsShown
PROPERTY StreamSpec
