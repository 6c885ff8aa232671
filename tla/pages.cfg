SPECIFICATION Spec
CONSTANTS
  Screens = {"page", "wizard", "databases", "rule"}
  Shown <- AllPages
  Items = {"x", "y"}
  MaxCalls = 2
  MaxEvents = 1
  MaxFaults = 2
  Patience = 2
  Holds <- TwoDbServers
  MaxOps = 4
  Users = {"ann", "bob"}
  Editors = {"ann"}
  FirstRules <- SomeRules
  Amounts = {90}
  MaxTouches = 1
  MaxSaves = 2
INVARIANTS PageTypeOK RestShowsLatest OfferedIsServed NoDoubleSubmit
  BusyMeansWorking MadeOnce PatientRegistersRight
PROPERTIES OwnChangeShown
  ConnectedStays AgentNoticed
  UntouchedSurvives
CHECK_DEADLOCK FALSE
