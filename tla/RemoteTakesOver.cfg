SPECIFICATION RemoteSpec
CONSTANTS
  Jobs = {1, 2, 3}
  Tunnels = {1, 2, 3, 4, 5}
  Nothing = Nothing
  Overlapping = FALSE
  MaxChoices = 1
  MaxTroubles = 2
PROPERTY TakesOver
