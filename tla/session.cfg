CONSTANTS
  Groups = {common}
  Values <- MCValues
  Signs = {"plus", "minus"}
  MaxInFlight = 3
  MaxConnections = 2
SPECIFICATION FairSpec
CHECK_DEADLOCK FALSE
INVARIANTS OnePoll SettingsAgree
PROPERTIES TelemetryIsShown PollGoesOn ImplementsPollLoop
