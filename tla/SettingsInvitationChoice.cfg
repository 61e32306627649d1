SPECIFICATION ApplicationSpec
CONSTANTS
  Commands <- LinesOfEveryKind
  MaxCommands = 3
  StartStates = {"none", "settings-midi", "score-import-clean"}
  States <- FiveStates
  Targets <- Buttons
  Geometries = {"normal", "narrow", "slim"}
  Themes = {"dark", "light"}
  Catalog = {"tuner", "spectrogram", "score-view"}
  ViewsOf <- ViewNames
  Panels <- PanelTabs
  Fixtures = {"sample"}
  NoState = "none"
  NoName = "-"
  Layouts = {"tuner", "duo", "none"}
  NoTools = "none"
  StartLayout = "tuner"
  BuiltInIds = {"pitch-practice", "vocal-warm-up"}
  BuiltInLayout <- TwoBuiltIns
  StartId = "pitch-practice"
  Ids = {"a", "b", "c"}
  Names = {"Scales", "scales", "Bach", "Vocal Warm-up"}
  AsciiFolded <- FoldedNames
  Reserved = {"Vocal Warm-up"}
  MaximumNamed = 2
  NoId = NoId
  Prefs = {"default", "mine"}
  Keyboards = {"default", "mine"}
  DefaultValue = "default"
  MaxStarts = 3
PROPERTY InvitationChoiceKept
