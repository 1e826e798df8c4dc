SPECIFICATION AllSpec
CONSTANTS
  Sizes = {1, 4}
  DimMax = 3
  MaxFrames = 2
  Searches <- SomeSearches
  Options <- SomeOptions
  AllowOsc52 = TRUE
  ClipboardOK = TRUE
\* a script that has ended takes no further step
CHECK_DEADLOCK FALSE
INVARIANTS
  WelcomeHonoured
PROPERTIES
  PageSizesSettle
  ViewScriptsEnd
