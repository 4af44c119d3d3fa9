----------------------------- MODULE MCServices -----------------------------
(***************************************************************************)
(* The services that the site's pages call, and the parts of the page that *)
(* call them.  They share no state: a behaviour is one of them, chosen by  *)
(* part, on a small instance.  x1, x2 ... are its variables in the order   *)
(* its module declares them.                                               *)
(***************************************************************************)
EXTENDS Integers, FiniteSets, Sequences, TLC

CONSTANTS
  None, Ip, Visitor, Redirect, Google, Guest,
  Slot, Page, Call, Account, Instance, \* the same two values: any two of anything
  Item,    \* two more: submissions, identities, users
  Sessions,
  Limit, MaxForms, MaxFaults, \* bounds of Feedback,
  MaxScore, MaxTime,          \* of Social, beside those below,
  MaxCalls, MaxLoads,         \* of AuthClient
  MaxAnswers, MaxSwitches     \* and of AccountWidget

\* How many requests of each kind a family sees: an account grows to its limit, two
\* members pay, every kind is asked once.
Requests == {"billing", "summary", "invite", "accept", "remove", "revoke", "resend", "lookup"}
Of(b, i, a) == [k \in Requests |-> CASE k = "billing" -> b [] k = "invite" -> i [] k = "accept" -> a [] OTHER -> 0]
Growing == Of(1, 2, 2)
TwoPayers == Of(2, 1, 1)
OneEach == [k \in Requests |-> 1]

\* The calls to a room of one player, whose server may restart, and to a room of two.
Posts == <<2, 4>>
Restarts == <<1, 0>>

VARIABLES
  part, x1, x2, x3, x4, x5, x6, x7, x8, x9, x10, x11, x12, x13, x14, x15, x16,
  x17

vars == <<
  part, x1, x2, x3, x4, x5, x6, x7, x8, x9, x10, x11, x12, x13, x14, x15, x16,
  x17>>

F == INSTANCE Feedback WITH
  submission <- x1, linear <- x2, cache <- x3, count <- x4, req <- x5,
  dialog <- x6, asked <- x7, faults <- x8, accepted <- x9, raced <- x10,
  crowded <- x11, Submission <- Item, Session <- Sessions, MaxRequests <- MaxForms
S == INSTANCE Social WITH
  me <- x1, joining <- x2, known <- x3, used <- x4, board <- x5,
  challenge <- x6, room <- x7, call <- x8, now <- x9, made <- x10,
  restarts <- x11, best <- x12, raced <- x13, Id <- Item, MaxPlayers <- 2,
  MaxCalls <- Posts[2], MaxRestarts <- Restarts[2]
S1 == INSTANCE Social WITH
  me <- x1, joining <- x2, known <- x3, used <- x4, board <- x5,
  challenge <- x6, room <- x7, call <- x8, now <- x9, made <- x10,
  restarts <- x11, best <- x12, raced <- x13, Id <- Item, MaxPlayers <- 1,
  MaxCalls <- Posts[1], MaxRestarts <- Restarts[1]
A == INSTANCE AuthClient WITH
  jar <- x1, cookie <- x2, guests <- x3, user <- x4, left <- x5, sdk <- x6,
  redirect <- x7, cached <- x8, revision <- x9, shown <- x10, calls <- x11,
  made <- x12, loads <- x13
W == INSTANCE AccountWidget WITH
  account <- x1, owner <- x2, active <- x3, enabled <- x4, config <- x5,
  first <- x6, session <- x7, family <- x8, token <- x9, panel <- x10,
  cards <- x11, tools <- x12, manage <- x13, signing <- x14, locked <- x15,
  requests <- x16, switches <- x17, MaxRequests <- MaxAnswers
D == INSTANCE Dilemma WITH
  maximum <- x1, user <- x2, jar <- x3, request <- x4, shown <- x5,
  chosen <- x6, refused <- x7, requests <- x8, changes <- x9, User <- Item,
  Limits <- {2, 4}, DefaultLimit <- 2, Maxima <- {2, 3}, Temptation <- 5,
  Reward <- 3, Punishment <- 1, Sucker <- 0, Empty <- 1, Round <- 1,
  Largest <- 4, MaxRequests <- 4, MaxChanges <- 1
R == INSTANCE Discovery WITH
  now <- x1, heard <- x2, total <- x3, daily <- x4, memoryTotals <- x5,
  memoryDaily <- x6, asked <- x7, cache <- x8, shown <- x9, Page <- {Visitor},
  Game <- {1, 2}, CuratedTrending <- <<2, 1>>, CuratedTop <- <<2>>,
  Limits <- {1, 3}, Window <- 1, DayLength <- 2, Ttl <- 1, MaxLaunches <- 2,
  MaxTime <- 2
O == INSTANCE Outcomes WITH
  now <- x1, bucket <- x2, attempt <- x3, limiter <- x4, taken <- x5,
  committed <- x6, reports <- x7, Value <- {-1, 1, 4}, Low <- 0, High <- 3,
  PerWindow <- 1, Window <- 1, MaxReports <- 3, MaxTime <- 1
G == INSTANCE FamilyAccounts WITH
  account <- x1, invite <- x2, premium <- x3, link <- x4, paid <- x5, req <- x6,
  creator <- x7, taken <- x8, spent <- x9, plans <- x10, User <- {1} \cup Item,
  Account <- {1}, Invite <- {1, 2}, SeatLimit <- 2, MaxRequests <- 5,
  MaxPlans <- 1, Payer <- {1}, MaxOf <- Growing
G2 == INSTANCE FamilyAccounts WITH
  account <- x1, invite <- x2, premium <- x3, link <- x4, paid <- x5, req <- x6,
  creator <- x7, taken <- x8, spent <- x9, plans <- x10, User <- Item,
  Account <- {1}, Invite <- {1}, SeatLimit <- 2, MaxRequests <- 4,
  MaxPlans <- 2, Payer <- Item, MaxOf <- TwoPayers
G1 == INSTANCE FamilyAccounts WITH
  account <- x1, invite <- x2, premium <- x3, link <- x4, paid <- x5, req <- x6,
  creator <- x7, taken <- x8, spent <- x9, plans <- x10, User <- {1, 2},
  Account <- {1}, Invite <- {1}, SeatLimit <- 2, MaxRequests <- 4,
  MaxPlans <- 1, Payer <- {1}, MaxOf <- OneEach

ASSUME ServicesAssumption ==
  /\ F!FeedbackAssumption /\ S!SocialAssumption /\ A!AuthClientAssumption
  /\ W!AccountWidgetAssumption /\ D!DilemmaAssumption /\ R!DiscoveryAssumption
  /\ O!OutcomesAssumption /\ G!FamilyAssumption
  /\ S1!SocialAssumption /\ G1!FamilyAssumption /\ G2!FamilyAssumption

Symmetry == Permutations(Slot) \cup Permutations(Item)

\* The variables from the n-th on are not used.
Unused(n) ==
  /\ IF n <= 8 THEN x8 = None ELSE TRUE
  /\ IF n <= 9 THEN x9 = None ELSE TRUE
  /\ IF n <= 10 THEN x10 = None ELSE TRUE
  /\ IF n <= 11 THEN x11 = None ELSE TRUE
  /\ IF n <= 12 THEN x12 = None ELSE TRUE
  /\ IF n <= 13 THEN x13 = None ELSE TRUE
  /\ IF n <= 14 THEN x14 = None ELSE TRUE
  /\ IF n <= 15 THEN x15 = None ELSE TRUE
  /\ IF n <= 16 THEN x16 = None ELSE TRUE
  /\ IF n <= 17 THEN x17 = None ELSE TRUE

\* The account that grows begins when its owner has paid and has been provisioned.
Provisioned ==
  /\ x1 = <<[owner |-> 1, members |-> {1}, status |-> "active"]>>
  /\ x2 = [i \in {1, 2} |-> G!NoInvite]
  /\ x3 = [u \in {1} \cup Item |-> u = 1] /\ x4 = [u \in {1} \cup Item |-> IF u = 1 THEN 1 ELSE None]
  /\ x5 = {1} /\ x6 = [h \in Slot |-> G!Free] /\ x7 = <<1>> /\ x8 = {}
  /\ x9 = [k \in Requests |-> IF k = "billing" THEN 1 ELSE 0] /\ x10 = 1

Init ==
  \/ part = "feedback" /\ F!Init /\ Unused(12)
  \/ part = "social" /\ S!Init /\ Unused(14)
  \/ part = "full" /\ S1!Init /\ Unused(14)
  \/ part = "session" /\ A!Init /\ Unused(14)
  \/ part = "panel" /\ W!Init
  \/ part = "dilemma" /\ D!Init /\ Unused(10)
  \/ part = "rankings" /\ R!Init /\ Unused(10)
  \/ part = "outcomes" /\ O!Init /\ Unused(8)
  \/ part = "family" /\ Provisioned /\ Unused(11)
  \/ part = "owners" /\ G2!Init /\ Unused(11)
  \/ part = "member" /\ G1!Init /\ Unused(11)

Next ==
  \/ part = "feedback" /\ F!Next /\ UNCHANGED <<part, x12, x13, x14, x15, x16, x17>>
  \/ part = "social" /\ S!Next /\ UNCHANGED <<part, x14, x15, x16, x17>>
  \/ part = "full" /\ S1!Next /\ UNCHANGED <<part, x14, x15, x16, x17>>
  \/ part = "session" /\ A!Next /\ UNCHANGED <<part, x14, x15, x16, x17>>
  \/ part = "panel" /\ W!Next /\ UNCHANGED <<part>>
  \/ part = "dilemma" /\ D!Next /\ UNCHANGED <<
         part, x10, x11, x12, x13, x14, x15, x16, x17>>
  \/ part = "rankings" /\ R!Next /\ UNCHANGED <<
         part, x10, x11, x12, x13, x14, x15, x16, x17>>
  \/ part = "outcomes" /\ O!Next /\ UNCHANGED <<
         part, x8, x9, x10, x11, x12, x13, x14, x15, x16, x17>>
  \/ part = "family" /\ G!Next /\ UNCHANGED <<part, x11, x12, x13, x14, x15, x16, x17>>
  \/ part = "owners" /\ G2!Next /\ UNCHANGED <<part, x11, x12, x13, x14, x15, x16, x17>>
  \/ part = "member" /\ G1!Next /\ UNCHANGED <<part, x11, x12, x13, x14, x15, x16, x17>>

Spec == Init /\ [][Next]_vars

ServicesTypeOK ==
  CASE part = "feedback" -> F!FeedbackTypeOK
    [] part = "social"   -> S!SocialTypeOK
    [] part = "session"  -> A!AuthClientTypeOK
    [] part = "panel"    -> W!AccountWidgetTypeOK
    [] part = "dilemma"  -> D!DilemmaTypeOK
    [] part = "rankings" -> R!DiscoveryTypeOK
    [] part = "outcomes" -> O!OutcomesTypeOK
    [] part = "family"   -> G!FamilyTypeOK
    [] part = "owners"   -> G2!FamilyTypeOK
    [] part = "member"   -> G1!FamilyTypeOK
    [] part = "full"     -> S1!SocialTypeOK

\* A submission has one Linear issue, the game one baseline issue, and no more
\* submissions pass than the limit (Feedback).
FeedbackAccounted ==
  part = "feedback" => F!IssuesAccounted /\ F!BaselineAccounted /\ F!SubmissionsKept

\* A room of Social shows what was posted, and its race does not go back.
RoomFair == [][/\ part = "social" => S!RoomHonest' /\ S!RoomForward
     /\ part = "full" => S1!RoomHonest' /\ S1!RoomForward]_vars

\* Who has signed out stays signed out, a browser without cookies is not told that
\* it is signed in, and the panel shows a family only to its members (AuthClient,
\* AccountWidget).
SessionStands ==
  [][/\ part = "session" => A!AccountRetained' /\ A!SignOutStands
     /\ part = "panel" => W!OwnFamilyOnly']_vars

\* A match is one play of one strategy by one user, and can be ended (Dilemma).
MatchFair == part = "dilemma" => D!MatchFair

\* Rankings and aggregates count what was reported, no more and once (Discovery,
\* Outcomes).
CountsHonest ==
  /\ part = "rankings" => R!RankingsHonest
  /\ part = "outcomes" => O!AggregateOfAll

\* The members of a family fit its seats and were invited (FamilyAccounts).
SeatsEarned ==
  /\ part = "family" => G!SeatsEarned
  /\ part = "owners" => G2!SeatsEarned
  /\ part = "member" => G1!SeatsEarned
=============================================================================
