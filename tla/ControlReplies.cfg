SPECIFICATION Spec
CONSTANTS
  Commands <- LinesOfEveryKind
  MaxCommands = 3
  StartStates = {"none", "settings-midi", "score-import-clean"}
  States <- FiveStates
  Targets <- Buttons
  Geometries = {"normal", "narrow", "slim"}
  Themes = {"dark", "light"}
  Catalog = {"tuner", "spectrogram", "score-view"}
  ViewsOf <- ViewNames
  Panels <- PanelTabs
  Fixtures = {"sample"}
  NoState = "none"
  NoName = "-"
INVARIANT ReplyIsOfTheCommand
CHECK_DEADLOCK FALSE
