SPECIFICATION Spec
CONSTANTS
  Callers = {"a", "b", "phone"}
  Tabs = {"a", "b"}
  Requests = {"r1", "r2"}
  Phone = "phone"
  AppRequests = {"p1", "p2"}
  MaxTokens = 3
  MaxFaults = 1
  MaxEvents = 2
INVARIANTS SessionTypeOK OneTokenPerLogin LoginSurvivesRaces LogoutEndsLogin NoSelfReuse SignedOutHoldsNothing
CHECK_DEADLOCK FALSE
PROPERTIES ImplementsRotation RequestsSettle AppStarts
