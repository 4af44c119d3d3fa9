SPECIFICATION Spec
CONSTANTS
  None = None
  Ip = ip
  Visitor = visitor
  Redirect = redirect
  Google = google
  Guest = guest
  Slot = {x, y}
  Page = {x, y}
  Call = {x, y}
  Account = {x, y}
  Instance = {x, y}
  Item = {s1, s2}
  Sessions = {p1}
  Limit = 1
  MaxForms = 1
  MaxFaults = 1
  MaxScore = 1
  MaxTime = 1
  MaxCalls = 4
  MaxLoads = 2
  MaxAnswers = 2
  MaxSwitches = 2
\* requests, calls and time are bounded: the system stops when they are used up
CHECK_DEADLOCK FALSE
SYMMETRY Symmetry
INVARIANTS ServicesTypeOK FeedbackAccounted   SeatsEarned
PROPERTIES RoomFair 
