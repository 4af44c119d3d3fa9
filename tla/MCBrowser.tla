----------------------------- MODULE MCBrowser ------------------------------
(***************************************************************************)
(* What runs in a page: the profile it keeps, the party pages, the pages   *)
(* of the club world and of two games.  They share no state here: a        *)
(* behaviour is one of them, chosen by part, on a small instance.  x1, x2  *)
(* ... are its variables in the order its module declares them.            *)
(***************************************************************************)
EXTENDS Integers, FiniteSets, Sequences, TLC

CONSTANTS
  None, First, Home, Local, Loop, Stop,
  Pages, Item, Mission, Challenge, Device, Bundle, Games,  \* the profile
  Sock, Token, Option,                                    \* the party
  Server, Room, Task, Member, Dir, Orb, Link              \* the world and the games

VARIABLES
  part, x1, x2, x3, x4, x5, x6, x7, x8, x9, x10, x11, x12, x13, x14, x15, x16,
  x17

vars == <<
  part, x1, x2, x3, x4, x5, x6, x7, x8, x9, x10, x11, x12, x13, x14, x15, x16,
  x17>>

P == INSTANCE Progress WITH
  store <- x1, page <- x2, saved <- x3, push <- x4, now <- x5, steps <- x6,
  earned <- x7, paid <- x8, twice <- x9, minted <- x10, crowded <- x11,
  Page <- Pages, Reward <- 1, Price <- 1, DailyRequired <- 1, WeeklyRequired <- 1, Day <- 1,
  Week <- 2, MaxPushes <- 1, Launcher <- {First}, MaxTime <- 1, MaxSteps <- 2
E == INSTANCE Entitlements WITH
  ent <- x1, request <- x2, config <- x3, server <- x4, answer <- x5,
  token <- x6, asked <- x7, completed <- x8, applied <- x9, Page <- Pages, MaxTokens <- 3,
  MaxAnswers <- 2
L == INSTANCE Classroom WITH
  now <- x1, stored <- x2, page <- x3, changes <- x4, Page <- Pages, Game <- Games, Shortest <- 1,
  Longest <- 2, Keeps <- 2, MaxChanges <- 3, MaxTime <- 3
M == INSTANCE Metrics WITH
  now <- x1, stored <- x2, memory <- x3, queued <- x4, tracked <- x5,
  last <- x6, Page <- Pages, Name <- Games, Most <- 2, Window <- 1, MaxEvents <- 3, MaxTime <- 2
C == INSTANCE PartyClient WITH
  page <- x1, stored <- x2, net <- x3, seat <- x4, blocked <- x5, asked <- x6,
  lost <- x7, applied <- x8, Page <- {First}, Host <- {}, Limit <- 1,
  MaxInputs <- 2, MaxJoins <- 2
T == INSTANCE PartySteering WITH
  button <- x1, tilt <- x2, sentSteer <- x3, pacing <- x4, up <- x5,
  queue <- x6, server <- x7, limited <- x8, eaten <- x9, changes <- x10,
  MaxQueue <- 3, MaxChanges <- 4
N == INSTANCE PartyPhone WITH
  kind <- x1, server <- x2, snapshot <- x3, selected <- x4, online <- x5,
  queue <- x6, down <- x7, said <- x8, missed <- x9, taps <- x10,
  MaxRounds <- 2, MaxTaps <- 3, MaxQueue <- 2
H == INSTANCE PartyHost WITH
  controls <- x1, saved <- x2, setup <- x3, server <- x4, lobby <- x5,
  online <- x6, queue <- x7, down <- x8, meant <- x9, reverted <- x10,
  changes <- x11, Control <- Games, MaxChanges <- 2, MaxQueue <- 2
S == INSTANCE PartyScreen WITH
  kind <- x1, role <- x2, server <- x3, before <- x4, old <- x5, online <- x6,
  down <- x7, up <- x8, snapshot <- x9, lastPhase <- x10, reported <- x11,
  seen <- x12, outcomes <- x13, effects <- x14, recording <- x15,
  countdowns <- x16, losses <- x17, MaxMatches <- 2, MaxHeats <- 2,
  MaxEvents <- 1, MaxQueue <- 2, MaxLosses <- 1
R == INSTANCE ClipRecorder WITH
  recorder <- x1, active <- x2, chunks <- x3, finished <- x4, pending <- x5,
  timer <- x6, media <- x7, events <- x8, playing <- x9, button <- x10,
  sharing <- x11, runs <- x12, Caller <- Games, MaxRuns <- 3, MaxPieces <- 2
K == INSTANCE WorldConnection WITH
  socket <- x1, ws <- x2, connected <- x3, catalog <- x4, endpoint <- x5,
  active <- x6, timer <- x7, awaiting <- x8, suppress <- x9, monitor <- x10,
  checks <- x11, seq <- x12, health <- x13, default <- x14, switches <- x15,
  MaxSwitches <- 1, MaxChecks <- 2
W == INSTANCE ClubWorld WITH
  seat <- x1, puff <- x2, work <- x3, up <- x4, down <- x5, page <- x6,
  been <- x7, earned <- x8, crossed <- x9, dead <- x10, ticks <- x11,
  asks <- x12, Player <- {1, 2}, Watched <- {1}, First <- Home, Reward <- 2,
  MaxQueue <- 1, MaxTicks <- 1, MaxAsks <- 1, MaxPuffs <- 1
V == INSTANCE ClubWorld WITH
  seat <- x1, puff <- x2, work <- x3, up <- x4, down <- x5, page <- x6,
  been <- x7, earned <- x8, crossed <- x9, dead <- x10, ticks <- x11,
  asks <- x12, Player <- {1, 2}, Watched <- {1}, First <- Home, Reward <- 2,
  MaxQueue <- 1, MaxTicks <- 2, MaxAsks <- 1, MaxPuffs <- 0, Task <- {}
O == INSTANCE OregonTrail WITH
  screen <- x1, previous <- x2, event <- x3, outcome <- x4, day <- x5,
  distance <- x6, last <- x7, health <- x8, food <- x9, oxen <- x10,
  ammo <- x11, parts <- x12, money <- x13, Goal <- 4, Miles <- {1, 2},
  MaxHealth <- 2, Hit <- 2, Meal <- 2, Money <- 3, Price <- 1, MaxDays <- 4
A == INSTANCE AudioAgar WITH
  mode <- x1, joining <- x2, menu <- x3, prompt <- x4, preview <- x5, has <- x6,
  held <- x7, last <- x8, conn <- x9, pending <- x10, seq <- x11, net <- x12,
  orb <- x13, told <- x14, deaths <- x15, Sock <- Link, Limit <- 1,
  MaxInputs <- 2, MaxDeaths <- 1, MaxQueue <- 1
U == INSTANCE AudioAgarCues WITH
  sight <- x1, lock <- x2, scan <- x3, due <- x4, mass <- x5, close <- x6,
  Start <- 38, Portions <- {1, 14}, MaxMass <- 42

ASSUME BrowserAssumption ==
  /\ P!ProgressAssumption /\ E!EntitlementsAssumption /\ L!ClassroomAssumption
  /\ M!MetricsAssumption /\ C!PartyClientAssumption /\ T!PartySteeringAssumption
  /\ N!PartyPhoneAssumption /\ H!PartyHostAssumption /\ S!PartyScreenAssumption
  /\ R!ClipRecorderAssumption /\ K!WorldConnectionAssumption /\ W!ClubWorldAssumption
  /\ O!OregonTrailAssumption /\ A!AudioAgarAssumption /\ U!AudioAgarCuesAssumption

Symmetry == Permutations(Sock)

\* The variables from the n-th on are not used.
Unused(n) ==
  /\ IF n <= 5 THEN x5 = None ELSE TRUE
  /\ IF n <= 6 THEN x6 = None ELSE TRUE
  /\ IF n <= 7 THEN x7 = None ELSE TRUE
  /\ IF n <= 8 THEN x8 = None ELSE TRUE
  /\ IF n <= 9 THEN x9 = None ELSE TRUE
  /\ IF n <= 10 THEN x10 = None ELSE TRUE
  /\ IF n <= 11 THEN x11 = None ELSE TRUE
  /\ IF n <= 12 THEN x12 = None ELSE TRUE
  /\ IF n <= 13 THEN x13 = None ELSE TRUE
  /\ IF n <= 14 THEN x14 = None ELSE TRUE
  /\ IF n <= 15 THEN x15 = None ELSE TRUE
  /\ IF n <= 16 THEN x16 = None ELSE TRUE
  /\ IF n <= 17 THEN x17 = None ELSE TRUE

\* The walk begins when the page that is followed has been shown its room.
Greeted ==
  /\ x1 = (1 :> [V!Absent EXCEPT !.room = Home] @@ 2 :> V!Absent)
  /\ x6 = (1 :> [V!Blank EXCEPT !.players = {1}] @@ 2 :> V!Blank)
  /\ x7 = [r \in Room |-> IF r = Home THEN {1} ELSE {}]
  /\ x2 = [r \in Room |-> [lies |-> FALSE, had |-> 0]]
  /\ x3 = [g \in {1, 2, Loop} |-> <<>>] /\ x4 = <<<<>>, <<>>>> /\ x5 = <<<<>>, <<>>>>
  /\ x8 = <<0, 0>> /\ x9 = {} /\ x10 = FALSE /\ x11 = 0 /\ x12 = 0

Init ==
  \/ part = "progress" /\ P!Init /\ Unused(12)
  \/ part = "entitlements" /\ E!Init /\ Unused(10)
  \/ part = "classroom" /\ L!Init /\ Unused(5)
  \/ part = "metrics" /\ M!Init /\ Unused(7)
  \/ part = "client" /\ C!Init /\ Unused(9)
  \/ part = "steering" /\ T!Init /\ Unused(11)
  \/ part = "phone" /\ N!Init /\ Unused(11)
  \/ part = "host" /\ H!Init /\ Unused(12)
  \/ part = "screen" /\ S!Init
  \/ part = "recorder" /\ R!Init /\ Unused(13)
  \/ part = "connection" /\ K!Init /\ Unused(16)
  \/ part = "world" /\ W!Init /\ Unused(13)
  \/ part = "walk" /\ Greeted /\ Unused(13)
  \/ part = "trail" /\ O!Init /\ Unused(14)
  \/ part = "agar" /\ A!Init /\ Unused(16)
  \/ part = "cues" /\ U!Init /\ Unused(7)

Next ==
  \/ part = "progress" /\ P!Next /\ UNCHANGED <<part, x12, x13, x14, x15, x16, x17>>
  \/ part = "entitlements" /\ E!Next /\ UNCHANGED <<
         part, x10, x11, x12, x13, x14, x15, x16, x17>>
  \/ part = "classroom" /\ L!Next /\ UNCHANGED <<
         part, x5, x6, x7, x8, x9, x10, x11, x12, x13, x14, x15, x16, x17>>
  \/ part = "metrics" /\ M!Next /\ UNCHANGED <<
         part, x7, x8, x9, x10, x11, x12, x13, x14, x15, x16, x17>>
  \/ part = "client" /\ C!Next /\ UNCHANGED <<
         part, x9, x10, x11, x12, x13, x14, x15, x16, x17>>
  \/ part = "steering" /\ T!Next /\ UNCHANGED <<part, x11, x12, x13, x14, x15, x16, x17>>
  \/ part = "phone" /\ N!Next /\ UNCHANGED <<part, x11, x12, x13, x14, x15, x16, x17>>
  \/ part = "host" /\ H!Next /\ UNCHANGED <<part, x12, x13, x14, x15, x16, x17>>
  \/ part = "screen" /\ S!Next /\ UNCHANGED <<part>>
  \/ part = "recorder" /\ R!Next /\ UNCHANGED <<part, x13, x14, x15, x16, x17>>
  \/ part = "connection" /\ K!Next /\ UNCHANGED <<part, x16, x17>>
  \/ part = "world" /\ W!Next /\ UNCHANGED <<part, x13, x14, x15, x16, x17>>
  \/ part = "walk" /\ V!Next /\ UNCHANGED <<part, x13, x14, x15, x16, x17>>
  \/ part = "trail" /\ O!Next /\ UNCHANGED <<part, x14, x15, x16, x17>>
  \/ part = "agar" /\ A!Next /\ UNCHANGED <<part, x16, x17>>
  \/ part = "cues" /\ U!Next /\ UNCHANGED <<
         part, x7, x8, x9, x10, x11, x12, x13, x14, x15, x16, x17>>

Spec == Init /\ [][Next]_vars

BrowserTypeOK ==
  CASE part = "progress"     -> P!ProgressTypeOK
    [] part = "entitlements" -> E!EntitlementsTypeOK
    [] part = "classroom"    -> L!ClassroomTypeOK
    [] part = "metrics"      -> M!MetricsTypeOK
    [] part = "client"       -> C!PartyClientTypeOK
    [] part = "steering"     -> T!PartySteeringTypeOK
    [] part = "phone"        -> N!PartyPhoneTypeOK
    [] part = "host"         -> H!PartyHostTypeOK
    [] part = "screen"       -> S!PartyScreenTypeOK
    [] part = "recorder"     -> R!ClipRecorderTypeOK
    [] part = "connection"   -> K!WorldConnectionTypeOK
    [] part = "world"        -> W!ClubWorldTypeOK
    [] part = "walk"         -> V!ClubWorldTypeOK
    [] part = "trail"        -> O!OregonTrailTypeOK
    [] part = "agar"         -> A!AudioAgarTypeOK
    [] part = "cues"         -> U!AudioAgarCuesTypeOK

\* What the browser keeps of its player is what was earned, whichever page or answer
\* wrote last (Progress, Entitlements, Classroom, Metrics).
ProfileHonest ==
  /\ part = "progress"     => P!EarnedKept /\ P!CoinsEarned
  /\ part = "entitlements" => E!EntitlementsEarned
  /\ part = "classroom"    => L!ReportHonest
  /\ part = "metrics"      => M!EventsCounted

\* A page of the party has its seats, is never stuck, and its inputs count once and
\* in order (PartyClient).
PartyPageSeated ==
  part = "client" => C!SeatsAccounted /\ C!InputsInOrder /\ C!NeverStuck

\* At rest, what a phone or the host's page shows is what the server holds
\* (PartySteering, PartyPhone, PartyHost).
ControlsAgree ==
  /\ part = "steering" => T!SteerSettles
  /\ part = "phone"    => N!TapCounts /\ N!ShownIsHeld
  /\ part = "host"     => H!SettingsKept

\* A match is counted once, and a clip shows one run (PartyScreen, ClipRecorder).
MatchShownOnce ==
  /\ part = "screen"   => S!ScreenHonest
  /\ part = "recorder" => R!ClipOfOneRun

\* A page of the club world has one socket, tries again when it loses it, and agrees
\* with the server about rooms, tasks and coins (WorldConnection, ClubWorld).
WorldAgreed ==
  /\ part = "connection" => K!OneSocket /\ K!HealthOfServer /\ K!AwaitsWithReason /\ K!KeepsTrying
  /\ part = "world"      => W!CoinsEarned /\ W!RoomAgreed /\ W!ProgressAgreed
  /\ part = "walk"       => V!RoomAgreed /\ V!ProgressAgreed

\* The players a page shows change only by what the server tells it of its own room
\* (ClubWorld).
RosterHonest == [][part = "walk" => V!RosterHonest]_vars

\* A journey ends once and rightly and no day loses miles; a page steers one orb as
\* its keys say, and is told to run from a larger one (OregonTrail, AudioAgar,
\* AudioAgarCues).
GamesFair ==
  [][/\ part = "trail" => O!EndsRightly' /\ O!NoDayLost
     /\ part = "agar"  => A!PreviewYields' /\ A!OneOrb' /\ A!SteersAsHeld'
     /\ part = "cues"  => U!LockEarned' /\ U!MassKept' /\ U!EscapeFirst]_vars
=============================================================================
