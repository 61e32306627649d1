SPECIFICATION Spec
CONSTANTS
  Listeners = {tuner, spectrogram}
  MaxConsumers = 2
INVARIANT ResetOnlyWhenQuiet
