CONSTANTS
  Specs <- MCSpecs
  Edits = {"long", "odd", "quoted", "secret"}
  Unparsed = {"odd", "quoted"}
  Unseen = {"quoted"}
  Failing = {"odd"}
  Protected = {"secret"}
  Denied = {"long"}
  Size <- MCSize
  Limits <- MCLimits
  DefaultLimits <- MCDefaultLimits
  MaxAttempts = 2
  MaxResumes = 2
  MaxTouches = 1
  Lines = {"a", "b", "bad", "", "a ", "-- p", "++ p"}
  Blank = {""}
  Trim <- MCTrim
  Dashed = {"-- p"}
  Plussed = {"++ p"}
  Names <- MCNames
  Broken = {"bad"}
  Paths = {"p", "q"}
  NoFile = NoFile
  Torn = Torn
  SearchWindow = 2
SPECIFICATION PublicationSpec
INVARIANTS
  OneOpenRequest
  RetriesFastForward
  PatchesLand
PROPERTIES
  PushedIsSound
  DeliveredWhenCompleted
  RequestRemembered
CHECK_DEADLOCK FALSE
