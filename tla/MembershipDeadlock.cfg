SPECIFICATION FairSpec
CONSTANTS
  c1 = c1
  Conns = {c1, c2, c3}
  Rooms = {r1, r2}
  PlayerSeats = {}
  AudienceSeats = {}
  Nobody = Nobody
  NoRoom = NoRoom
  NoSeat = NoSeat
  MaxPlayers = 1
  MaxAudience = 1
  MaxScreens = 2
  MaxDrops = 0
  MaxJoins <- OneLeavesTwoSwitch
  JoinsOwnRoom = FALSE
  JoinRoles = {"display"}
  Typing = {}
CHECK_DEADLOCK FALSE
PROPERTY HostlessRoomEnds
