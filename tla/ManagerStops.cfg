\* driftnet is told to stop while a player runs.
SPECIFICATION Spec
CONSTANT MaxPlayers = 2
PROPERTY ManagerStops
CHECK_DEADLOCK FALSE
