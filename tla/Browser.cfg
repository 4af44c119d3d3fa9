SPECIFICATION Spec
CONSTANTS
  None = None
  First = l
  Home = r1
  Local = local
  Loop = loop
  Stop = stop
  Pages = {l, g}
  Item = {i}
  Mission = {m}
  Challenge = {c}
  Device = {d}
  Bundle = {b}
  Games = {g1, g2}
  Sock = {s1, s2, s3}
  Token = {t1, t2}
  Option = {o1, o2, o3}
  Server = {local, other}
  Room = {r1, r2}
  Task = {k}
  Member = {m1, m2}
  Dir = {e}
  Orb = {b1, b2}
  Link = {a1, a2}
\* inputs, messages and time are bounded: the system stops when they are used up
CHECK_DEADLOCK FALSE
SYMMETRY Symmetry
INVARIANTS BrowserTypeOK  PartyPageSeated  MatchShownOnce 
  
