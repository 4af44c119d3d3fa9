SPECIFICATION SmallSpec
CONSTANTS
  Codes = {a, b}
  Second = b
  Finders = {f1, f2}
  Helper = f2
  NoRoom = NoRoom
  NoDoc = NoDoc
  MaxRooms = 1
  MaxMade = 3
  MaxChanges = 1
  MaxFailures = 1
  MaxCrashes = 1
CHECK_DEADLOCK FALSE
INVARIANTS TypeOK OneOwner RoomsWithinLimit
PROPERTIES SavesInOrder DocumentsFollow
