SPECIFICATION FairSpec
CONSTANTS
  c1 = c1
  Conns = {c1, c2}
  Rooms = {r1}
  PlayerSeats = {p1}
  AudienceSeats = {}
  Nobody = Nobody
  NoRoom = NoRoom
  NoSeat = NoSeat
  MaxPlayers = 1
  MaxAudience = 1
  MaxScreens = 1
  MaxDrops = 1
  MaxJoins <- OneJoin
  JoinsOwnRoom = FALSE
  JoinRoles = {"host", "display", "player", "audience"}
  Typing = {c1}
CHECK_DEADLOCK FALSE
INVARIANT SeatsHeld
PROPERTY PlacesGivenUp
