SPECIFICATION FairSpec
CONSTANTS
  p1 = p1
  p2 = p2
  p3 = p3
  race = race
  fight = fight
  sketch = sketch
  Players = {p1, p2}
  Activities = {race}
  Catalog <- MCCatalog
  Configs <- LiveConfigs
  DefaultConfig <- ShortConfig
  MaxPlayers = 2
  NoActivity = NoActivity
  VoteTicks = 1
  VoteMinTicks = 1
  SpinTicks = 1
  NextUpTicks = 1
  ResultsTicks = 1
  SkippedTicks = 1
  GameTicks = 1
  HostReconnectTicks = 1
  RetentionTicks = 1
  LobbyTicks = 1
  GameRounds = 1
  MaxRestarts = 1
CHECK_DEADLOCK FALSE
PROPERTIES RoomsGo PartyMoves
