SPECIFICATION Spec
CONSTANTS
  c1 = c1
  Conns = {c1, c2}
  Rooms = {r1, r2}
  PlayerSeats = {p1}
  AudienceSeats = {}
  Nobody = Nobody
  NoRoom = NoRoom
  NoSeat = NoSeat
  MaxPlayers = 1
  MaxAudience = 1
  MaxScreens = 1
  MaxDrops = 0
  MaxJoins <- ThreeJoins
  JoinsOwnRoom = FALSE
  JoinRoles = {"host", "display", "player", "audience"}
  Typing = {c1, c2}
CHECK_DEADLOCK FALSE
SYMMETRY PlaceSymmetry
INVARIANTS TypeOK SeatsHeld
PROPERTY StaleLeaveIsHarmless
