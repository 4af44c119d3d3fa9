----------------------- MODULE PartyMembershipProofs ------------------------
(***************************************************************************)
(* Theorems about PartyMembership, for any number of connections, rooms    *)
(* and seats and any capacities.                                           *)
(***************************************************************************)
EXTENDS PartyMembership, TLAPS

-----------------------------------------------------------------------------
(* The inductive invariants *)

Joins(c) == pc[c] \in {"joining", "switching", "arriving"}
Switches(c) == pc[c] \in {"switching", "arriving"}

\* A reader that is changing rooms holds the mutex of the room it goes to, and
\* nobody else holds a mutex between steps; a goroutine that leaves a room has one.
LockInv ==
    /\ \A c \in Conns : Joins(c) => want[c] \in Request
    /\ \A c \in Conns : Switches(c) => mutex[want[c].room] = c
    /\ \A r \in Rooms, c \in Conns : mutex[r] = c => Switches(c) /\ want[c].room = r
    /\ \A c \in Conns : Switches(c) => workRoom[c] \in Rooms \ {want[c].room}
    /\ \A c \in Conns : pc[c] \in {"applying", "leaving", "left"} => workRoom[c] \in Rooms
    /\ \A c \in Conns : dropPc[c] # "off" => dropFrom[c] \in Rooms

\* What was found when the mutex was taken still holds when the reader arrives.
AdmitInv ==
    \A c \in Conns : Switches(c) =>
        /\ HostFree(c, want[c])
        /\ want[c].seat \notin blocked[want[c].room]

SoundInv == TypeOK /\ LockInv /\ AdmitInv

\* A socket is used for one join, as the pages of the site do, or else none is found
\* too slow and none joins its own room again.
OneJoinEach == \A c \in Conns : MaxJoins[c] <= 1
SteadySockets == OneJoinEach \/ (MaxDrops = 0 /\ ~JoinsOwnRoom)

\* A reader that joins is not in the room it goes to, and nobody is dropping it.
FreshInv ==
    /\ \A c \in Conns : Joins(c) => at[c] # want[c].room /\ dropPc[c] = "off" /\ joins[c] # 0
    /\ MaxDrops = 0 => \A c \in Conns : dropPc[c] = "off"
    /\ OneJoinEach => \A c \in Conns :
           /\ joins[c] = 0 \/ pc[c] = "joining" => at[c] = NoRoom /\ dropPc[c] = "off"
           /\ ~Switches(c)

\* A connection that a goroutine takes out of a room is in that room or, because it has
\* lost its place, in none; once the goroutine has been there, no place is left.
LeaveInv ==
    \A c \in Conns :
        /\ Switches(c) \/ pc[c] \in {"leaving", "left"} => at[c] \in {workRoom[c], NoRoom}
        /\ dropPc[c] # "off" => at[c] \in {dropFrom[c], NoRoom}
        /\ pc[c] \in {"arriving", "left"} => ~Occupies(c, workRoom[c])
        /\ dropPc[c] = "clearing" => ~Occupies(c, dropFrom[c])

\* The connection whose seat is being taken over has been told.
ToldInv ==
    \A c, y \in Conns : \A s \in Seats :
        Switches(c) /\ want[c].seat = s /\ holder[want[c].room][s] = y => at[y] # want[c].room

\* SeatsBacked, read from the connection's side.
Sits(c, r, s) ==
    /\ at[c] = r
    /\ IF s \in PlayerSeats THEN role[c] = "player" /\ playerId[c] = s
       ELSE role[c] = "audience" /\ audienceId[c] = s

TakenOver(r, s) == \E x \in Conns : mutex[r] = x /\ want[x].seat = s

Backed(c, r) ==
    /\ host[r] = c => at[c] = r /\ role[c] = "host"
    /\ c \in screens[r] => at[c] = r /\ role[c] = "display"
    /\ \A s \in Seats : holder[r][s] = c => Sits(c, r, s) \/ TakenOver(r, s)

BackInv == \A c \in Conns, r \in Rooms : Backed(c, r)

PlaceInv == SoundInv /\ FreshInv /\ LeaveInv /\ ToldInv /\ BackInv /\ AttachedAreSeated

-----------------------------------------------------------------------------
(* Types and mutexes *)

LEMMA RequestType ==
    ASSUME NEW q \in Request
    PROVE  /\ q.room \in Rooms /\ q.role \in Roles
           /\ q.role = "player" => q.seat \in PlayerSeats
           /\ q.role = "audience" => q.seat \in AudienceSeats
           /\ q.role \in {"host", "display"} => q.seat = NoSeat
           /\ q.seat \in Seats \cup {NoSeat}
           /\ q.seat = NoSeat => q.role \in {"host", "display"}
  BY SeatAssumption DEF Request, Roles, Seats

LEMMA VacateType ==
    ASSUME TypeOK, NEW c \in Conns, NEW r \in Rooms, Vacate(c, r)
    PROVE  /\ host' \in [Rooms -> Conns \cup {Nobody}]
           /\ hostTimer' \in [Rooms -> {"off", "running", "due"}]
           /\ screens' \in [Rooms -> SUBSET Conns]
           /\ holder' \in [Rooms -> [Seats -> Conns \cup {Nobody}]]
<1>1. CASE /\ host' = [host EXCEPT ![r] = Nobody]
           /\ hostTimer' = [hostTimer EXCEPT ![r] = "running"]
           /\ UNCHANGED <<screens, holder>>
    BY <1>1 DEF TypeOK
<1>2. CASE screens' = [screens EXCEPT ![r] = @ \ {c}] /\ UNCHANGED <<host, hostTimer, holder>>
    BY <1>2 DEF TypeOK
<1>3. CASE GiveUpSeat(c, r) /\ UNCHANGED <<host, hostTimer, screens>>
    BY <1>3 DEF GiveUpSeat, TypeOK
<1>. QED
    BY <1>1, <1>2, <1>3, Zenon DEF Vacate

LEMMA ClearType ==
    ASSUME TypeOK, NEW c \in Conns, NEW r, Clear(c, r)
    PROVE  /\ at' \in [Conns -> Rooms \cup {NoRoom}]
           /\ audienceId' \in [Conns -> AudienceSeats \cup {NoSeat}]
  BY DEF Clear, TypeOK

LEMMA TakePlaceType ==
    ASSUME TypeOK, NEW c \in Conns, want[c] \in Request,
           want[c].seat \notin blocked[want[c].room], UNCHANGED blocked,
           NEW keptId \in AudienceSeats \cup {NoSeat}, NEW replaced,
           TakePlace(c, keptId, replaced)
    PROVE  /\ role' \in [Conns -> Roles \cup {"none"}]
           /\ playerId' \in [Conns -> PlayerSeats \cup {NoSeat}]
           /\ audienceId' \in [Conns -> AudienceSeats \cup {NoSeat}]
           /\ at' \in [Conns -> Rooms \cup {NoRoom}]
           /\ host' \in [Rooms -> Conns \cup {Nobody}]
           /\ hostTimer' \in [Rooms -> {"off", "running", "due"}]
           /\ screens' \in [Rooms -> SUBSET Conns]
           /\ holder' \in [Rooms -> [Seats -> Conns \cup {Nobody}]]
           /\ record' \in [Rooms -> SUBSET Seats]
           /\ \A r \in Rooms : record'[r] \cap blocked'[r] = {}
<1>. DEFINE q == want[c]
<1>1. /\ q.room \in Rooms /\ q.role \in Roles
      /\ q.role = "player" => q.seat \in PlayerSeats
      /\ q.role = "audience" => q.seat \in AudienceSeats
      /\ q.seat \in Seats \cup {NoSeat}
    BY RequestType
<1>2. role' \in [Conns -> Roles \cup {"none"}] /\ playerId' \in [Conns -> PlayerSeats \cup {NoSeat}]
    BY <1>1 DEF TakePlace, TypeOK
<1>3. audienceId' \in [Conns -> AudienceSeats \cup {NoSeat}] /\ at' \in [Conns -> Rooms \cup {NoRoom}]
    BY <1>1 DEF TakePlace, TypeOK
<1>4. /\ host' \in [Rooms -> Conns \cup {Nobody}]
      /\ hostTimer' \in [Rooms -> {"off", "running", "due"}]
      /\ screens' \in [Rooms -> SUBSET Conns]
    BY <1>1 DEF TakePlace, TypeOK
<1>5. holder' \in [Rooms -> [Seats -> Conns \cup {Nobody}]]
    BY <1>1 DEF TakePlace, TypeOK
<1>6. record' \in [Rooms -> SUBSET Seats]
    BY <1>1 DEF TakePlace, TypeOK
<1>7. \A r \in Rooms : record'[r] \cap blocked'[r] = {}
    BY <1>1 DEF TakePlace, TypeOK
<1>. QED
    BY <1>2, <1>3, <1>4, <1>5, <1>6, <1>7

LEMMA IdleType ==
    ASSUME TypeOK, NEW c \in Conns, Idle(c)
    PROVE  /\ pc' = [pc EXCEPT ![c] = "idle"] /\ pc' \in [Conns -> ReaderSteps]
           /\ want' = [want EXCEPT ![c] = NoSeat] /\ want' \in [Conns -> Request \cup {NoSeat}]
           /\ workRoom' = [workRoom EXCEPT ![c] = NoRoom] /\ workRoom' \in [Conns -> Rooms \cup {NoRoom}]
  BY DEF Idle, Move, TypeOK, ReaderSteps

LEMMA MoveType ==
    ASSUME TypeOK, NEW c \in Conns, NEW step \in ReaderSteps, Move(c, step)
    PROVE  pc' = [pc EXCEPT ![c] = step] /\ pc' \in [Conns -> ReaderSteps]
  BY DEF Move, TypeOK

\* A blocked token is not admitted.
LEMMA AdmittedUnblocked ==
    ASSUME TypeOK, NEW q \in Request, Admitted(q)
    PROVE  q.seat \notin blocked[q.room]
<1>1. /\ q.room \in Rooms /\ q.role \in Roles
      /\ q.role = "audience" => q.seat \in AudienceSeats
      /\ q.role \in {"host", "display"} => q.seat = NoSeat
    BY RequestType
<1>2. blocked[q.room] \subseteq PlayerSeats /\ PlayerSeats \cap AudienceSeats = {} /\ NoSeat \notin PlayerSeats
    BY <1>1, SeatAssumption DEF TypeOK, Seats
<1>3. CASE q.role = "player"
    BY <1>3 DEF Admitted
<1>4. CASE q.role # "player"
    BY <1>1, <1>2, <1>4 DEF Roles
<1>. QED
    BY <1>3, <1>4

LEMMA StepTypes ==
    ASSUME SoundInv, [Next]_vars
    PROVE  TypeOK'
<1>. USE DEF ReaderSteps, readerVars, connVars, dropVars, placeVars, roomVars
<1>0. TypeOK /\ LockInv /\ AdmitInv
    BY DEF SoundInv
<1>1. ASSUME Runs, NEW c \in Conns, NEW q \in Request, Ask(c, q) PROVE TypeOK'
  <2>1. pc' \in [Conns -> ReaderSteps]
      BY <1>0, <1>1, MoveType DEF Ask
  <2>2. want' \in [Conns -> Request \cup {NoSeat}] /\ joins' \in [Conns -> Nat]
      BY <1>0, <1>1 DEF Ask, TypeOK
  <2>. QED
      BY <1>0, <1>1, <2>1, <2>2 DEF Ask, TypeOK, Runs
<1>2. ASSUME Runs, NEW c \in Conns, NEW r \in Rooms, Create(c, r) PROVE TypeOK'
  <2>1. pc' \in [Conns -> ReaderSteps]
      BY <1>0, <1>2, MoveType DEF Create
  <2>2. [room |-> r, role |-> "host", seat |-> NoSeat] \in Request
      BY DEF Request
  <2>3. want' \in [Conns -> Request \cup {NoSeat}] /\ joins' \in [Conns -> Nat]
      BY <1>0, <1>2, <2>2 DEF Create, TypeOK
  <2>4. life' \in [Rooms -> {"absent", "listed", "removed"}]
      BY <1>0, <1>2 DEF Create, TypeOK
  <2>. QED
      BY <1>0, <1>2, <2>1, <2>3, <2>4 DEF Create, TypeOK, Runs
<1>3. ASSUME Runs, NEW c \in Conns, Refuse(c) PROVE TypeOK'
    BY <1>0, <1>3, IdleType DEF Refuse, TypeOK, Runs
<1>4. ASSUME Runs, NEW c \in Conns, Attach(c) PROVE TypeOK'
  <2>1. want[c] \in Request
      BY <1>0, <1>4 DEF Attach, At, LockInv, Joins
  <2>2. want[c].seat \notin blocked[want[c].room]
      BY <1>0, <1>4, <2>1, AdmittedUnblocked DEF Attach
  <2>3. audienceId[c] \in AudienceSeats \cup {NoSeat}
      BY <1>0 DEF TypeOK
  <2>. QED
      BY <1>0, <1>4, <2>1, <2>2, <2>3, IdleType, TakePlaceType DEF Attach, TypeOK, Runs
<1>5. ASSUME Runs, NEW c \in Conns, BeginSwitch(c) PROVE TypeOK'
  <2>1. want[c] \in Request /\ want[c].room \in Rooms
      BY <1>0, <1>5, RequestType DEF BeginSwitch, At, LockInv, Joins
  <2>2. pc' \in [Conns -> ReaderSteps]
      BY <1>0, <1>5, MoveType DEF BeginSwitch
  <2>3. /\ mutex' \in [Rooms -> Conns \cup {Nobody}]
        /\ workRoom' \in [Conns -> Rooms \cup {NoRoom}]
      BY <1>0, <1>5, <2>1 DEF BeginSwitch, TypeOK
  <2>4. /\ at' \in [Conns -> Rooms \cup {NoRoom}]
        /\ audienceId' \in [Conns -> AudienceSeats \cup {NoSeat}]
      BY <1>0, <1>5 DEF BeginSwitch, TypeOK
  <2>. QED
      BY <1>0, <1>5, <2>2, <2>3, <2>4 DEF BeginSwitch, TypeOK, Runs
<1>6. ASSUME Runs, NEW c \in Conns, LeaveOld(c) PROVE TypeOK'
  <2>1. workRoom[c] \in Rooms
      BY <1>0, <1>6 DEF LeaveOld, At, LockInv, Switches
  <2>2. pc' \in [Conns -> ReaderSteps]
      BY <1>0, <1>6, MoveType DEF LeaveOld
  <2>. QED
      BY <1>0, <1>6, <2>1, <2>2, VacateType DEF LeaveOld, TypeOK, Runs
<1>7. ASSUME Runs, NEW c \in Conns, Arrive(c) PROVE TypeOK'
  <2>1. want[c] \in Request /\ want[c].room \in Rooms
      BY <1>0, <1>7, RequestType DEF Arrive, At, LockInv, Joins
  <2>2. want[c].seat \notin blocked[want[c].room]
      BY <1>0, <1>7 DEF Arrive, At, AdmitInv, Switches
  <2>3. (IF at[c] = workRoom[c] THEN NoSeat ELSE audienceId[c]) \in AudienceSeats \cup {NoSeat}
      BY <1>0 DEF TypeOK
  <2>4. mutex' \in [Rooms -> Conns \cup {Nobody}]
      BY <1>0, <1>7, <2>1 DEF Arrive, TypeOK
  <2>. QED
      BY <1>0, <1>7, <2>1, <2>2, <2>3, <2>4, IdleType, TakePlaceType DEF Arrive, TypeOK, Runs
<1>8. ASSUME Runs, NEW c \in Conns, Input(c) PROVE TypeOK'
    BY <1>0, <1>8, MoveType DEF Input, TypeOK, Runs
<1>9. ASSUME NEW c \in Conns, InputWithoutRoom(c) PROVE TypeOK'
    BY <1>0, <1>9 DEF InputWithoutRoom, TypeOK
<1>10. ASSUME Runs, NEW c \in Conns, InputToRoom(c) PROVE TypeOK'
  <2>1. workRoom' \in [Conns -> Rooms \cup {NoRoom}]
      BY <1>0, <1>10 DEF InputToRoom, TypeOK
  <2>. QED
      BY <1>0, <1>10, <2>1, MoveType DEF InputToRoom, TypeOK, Runs
<1>11. ASSUME Runs, NEW c \in Conns, InputPlain(c) PROVE TypeOK'
    BY <1>0, <1>11, IdleType DEF InputPlain, Deliver, TypeOK, Runs
<1>12. ASSUME Runs, NEW c \in Conns, InputStage(c) PROVE TypeOK'
  <2>1. workRoom[c] \in Rooms
      BY <1>0, <1>12 DEF InputStage, Deliver, At, LockInv
  <2>2. stage[workRoom[c]] \in {"lobby", "running", "over"}
      BY <1>0, <2>1 DEF TypeOK
  <2>3. stage' \in [Rooms -> {"lobby", "running", "over"}]
      BY <1>0, <1>12, <2>1, <2>2 DEF InputStage, TypeOK
  <2>. QED
      BY <1>0, <1>12, <2>3, IdleType DEF InputStage, Deliver, TypeOK, Runs
<1>13. ASSUME Runs, NEW c \in Conns, NEW s \in PlayerSeats, InputKick(c, s) PROVE TypeOK'
  <2>1. workRoom[c] \in Rooms
      BY <1>0, <1>13 DEF InputKick, Deliver, At, LockInv
  <2>2. /\ record' \in [Rooms -> SUBSET Seats] /\ blocked' \in [Rooms -> SUBSET PlayerSeats]
        /\ \A r \in Rooms : record'[r] \cap blocked'[r] = {}
      BY <1>0, <1>13, <2>1 DEF InputKick, TypeOK
  <2>3. holder' \in [Rooms -> [Seats -> Conns \cup {Nobody}]]
      BY <1>0, <1>13, <2>1 DEF InputKick, TypeOK, Seats
  <2>4. /\ at' \in [Conns -> Rooms \cup {NoRoom}]
        /\ playerId' \in [Conns -> PlayerSeats \cup {NoSeat}]
      BY <1>0, <1>13 DEF InputKick, TypeOK
  <2>. QED
      BY <1>0, <1>13, <2>2, <2>3, <2>4, IdleType DEF InputKick, Deliver, TypeOK, Runs
<1>14. ASSUME Runs, NEW c \in Conns, Hangup(c) PROVE TypeOK'
  <2>1. pc' \in [Conns -> ReaderSteps]
      BY <1>0, <1>14, MoveType DEF Hangup
  <2>3. sendOpen' \in [Conns -> BOOLEAN]
    <3>1. CASE at[c] = NoRoom
        BY <1>0, <1>14, <3>1 DEF Hangup, TypeOK
    <3>2. CASE at[c] # NoRoom
        BY <1>0, <1>14, <3>2 DEF Hangup, TypeOK
    <3>. QED
        BY <3>1, <3>2
  <2>2. workRoom' \in [Conns -> Rooms \cup {NoRoom}]
      BY <1>0, <1>14 DEF Hangup, TypeOK
  <2>. QED
      BY <1>0, <1>14, <2>1, <2>2, <2>3 DEF Hangup, TypeOK, Runs
<1>15. ASSUME Runs, NEW c \in Conns, LeaveAtEnd(c) PROVE TypeOK'
  <2>1. workRoom[c] \in Rooms
      BY <1>0, <1>15 DEF LeaveAtEnd, At, LockInv
  <2>2. pc' \in [Conns -> ReaderSteps]
      BY <1>0, <1>15, MoveType DEF LeaveAtEnd
  <2>. QED
      BY <1>0, <1>15, <2>1, <2>2, VacateType DEF LeaveAtEnd, TypeOK, Runs
<1>16. ASSUME Runs, NEW c \in Conns, Close(c) PROVE TypeOK'
  <2>1. pc' \in [Conns -> ReaderSteps]
      BY <1>0, <1>16, MoveType DEF Close
  <2>2. workRoom' \in [Conns -> Rooms \cup {NoRoom}] /\ sendOpen' \in [Conns -> BOOLEAN]
      BY <1>0, <1>16 DEF Close, TypeOK
  <2>. QED
      BY <1>0, <1>16, <2>1, <2>2, ClearType DEF Close, TypeOK, Runs
<1>17. ASSUME Runs, NEW c \in Conns, Drop(c) PROVE TypeOK'
  <2>1. drops' \in [Conns -> 0 .. MaxDrops]
      BY <1>0, <1>17, SeatAssumption DEF Drop, TypeOK
  <2>2. /\ sendOpen' \in [Conns -> BOOLEAN] /\ dropPc' \in [Conns -> {"off", "leaving", "clearing"}]
        /\ dropFrom' \in [Conns -> Rooms \cup {NoRoom}]
    <3>1. CASE at[c] = NoRoom
        BY <1>0, <1>17, <3>1 DEF Drop, TypeOK
    <3>2. CASE at[c] # NoRoom
      <4>1. /\ dropFrom' = [dropFrom EXCEPT ![c] = at[c]]
            /\ dropPc' = [dropPc EXCEPT ![c] = "leaving"]
            /\ sendOpen' = sendOpen
          BY <1>17, <3>2 DEF Drop
      <4>. QED
          BY <1>0, <4>1 DEF TypeOK
    <3>. QED
        BY <3>1, <3>2
  <2>. QED
      BY <1>0, <1>17, <2>1, <2>2 DEF Drop, TypeOK, Runs
<1>18. ASSUME Runs, NEW c \in Conns, DropLeaves(c) PROVE TypeOK'
  <2>1. dropFrom[c] \in Rooms
      BY <1>0, <1>18 DEF DropLeaves, LockInv
  <2>2. dropPc' \in [Conns -> {"off", "leaving", "clearing"}]
      BY <1>0, <1>18 DEF DropLeaves, TypeOK
  <2>. QED
      BY <1>0, <1>18, <2>1, <2>2, VacateType DEF DropLeaves, TypeOK, Runs
<1>19. ASSUME Runs, NEW c \in Conns, DropCloses(c) PROVE TypeOK'
  <2>1. /\ sendOpen' \in [Conns -> BOOLEAN] /\ dropPc' \in [Conns -> {"off", "leaving", "clearing"}]
        /\ dropFrom' \in [Conns -> Rooms \cup {NoRoom}]
      BY <1>0, <1>19 DEF DropCloses, TypeOK
  <2>. QED
      BY <1>0, <1>19, <2>1, ClearType DEF DropCloses, TypeOK, Runs
<1>20. ASSUME Runs, NEW r \in Rooms, Room(r) PROVE TypeOK'
  <2>1. CASE HostStaysAway(r)
      BY <1>0, <1>20, <2>1 DEF HostStaysAway, TypeOK, Runs
  <2>2. CASE HostTimeout(r)
      BY <1>0, <1>20, <2>2 DEF HostTimeout, TypeOK, Runs
  <2>3. CASE GameOver(r)
      BY <1>0, <1>20, <2>3 DEF GameOver, TypeOK, Runs
  <2>4. CASE Expire(r)
      BY <1>0, <1>20, <2>4 DEF Expire, TypeOK, Runs
  <2>. QED
      BY <1>20, <2>1, <2>2, <2>3, <2>4 DEF Room
<1>21. CASE UNCHANGED vars
    BY <1>0, <1>21 DEF TypeOK, vars
<1>. QED
    BY <1>1, <1>2, <1>3, <1>4, <1>5, <1>6, <1>7, <1>8, <1>9, <1>10, <1>11, <1>12, <1>13, <1>14, <1>15,
       <1>16, <1>17, <1>18, <1>19, <1>20, <1>21 DEF Next, Reader, Joining, Inputting, Ending, Dropping

LEMMA MovePoint ==
    ASSUME TypeOK, NEW c \in Conns, NEW step, Move(c, step)
    PROVE  \A x \in Conns : pc'[x] = IF x = c THEN step ELSE pc[x]
  BY DEF Move, TypeOK

LEMMA IdlePoint ==
    ASSUME TypeOK, NEW c \in Conns, Idle(c)
    PROVE  \A x \in Conns : /\ pc'[x] = IF x = c THEN "idle" ELSE pc[x]
                            /\ want'[x] = IF x = c THEN NoSeat ELSE want[x]
                            /\ workRoom'[x] = IF x = c THEN NoRoom ELSE workRoom[x]
  BY DEF Idle, Move, TypeOK

LEMMA StepLocks ==
    ASSUME SoundInv, [Next]_vars
    PROVE  LockInv'
<1>. USE DEF readerVars, dropVars, Joins, Switches
<1>0. TypeOK /\ LockInv
    BY DEF SoundInv
<1>1. ASSUME NEW c \in Conns, NEW q \in Request, Ask(c, q) PROVE LockInv'
  <2>1. \A x \in Conns : /\ pc'[x] = IF x = c THEN "joining" ELSE pc[x]
                         /\ want'[x] = IF x = c THEN q ELSE want[x]
      BY <1>0, <1>1, MovePoint DEF Ask, TypeOK
  <2>2. pc[c] = "idle" /\ UNCHANGED <<workRoom, mutex, dropPc, dropFrom>>
      BY <1>1 DEF Ask, At
  <2>. QED
      BY <1>0, <2>1, <2>2 DEF LockInv
<1>2. ASSUME NEW c \in Conns, NEW r \in Rooms, Create(c, r) PROVE LockInv'
  <2>0. [room |-> r, role |-> "host", seat |-> NoSeat] \in Request
      BY DEF Request
  <2>1. \A x \in Conns : /\ pc'[x] = IF x = c THEN "joining" ELSE pc[x]
                         /\ want'[x] = IF x = c THEN [room |-> r, role |-> "host", seat |-> NoSeat]
                                       ELSE want[x]
      BY <1>0, <1>2, MovePoint DEF Create, TypeOK
  <2>2. pc[c] = "idle" /\ UNCHANGED <<workRoom, mutex, dropPc, dropFrom>>
      BY <1>2 DEF Create, At
  <2>. QED
      BY <1>0, <2>0, <2>1, <2>2 DEF LockInv
<1>3. ASSUME NEW c \in Conns, Idle(c), pc[c] \in {"joining", "applying"},
             UNCHANGED <<mutex, dropPc, dropFrom>>
      PROVE  LockInv'
    BY <1>0, <1>3, IdlePoint DEF LockInv
<1>5. ASSUME NEW c \in Conns, BeginSwitch(c) PROVE LockInv'
  <2>1. want[c] \in Request /\ want[c].room \in Rooms /\ mutex[want[c].room] = Nobody
      BY <1>0, <1>5, RequestType DEF BeginSwitch, At, LockInv, Free
  <2>2. at[c] \in Rooms \ {want[c].room}
      BY <1>0, <1>5 DEF BeginSwitch, TypeOK
  <2>3. \A x \in Conns : /\ pc'[x] = IF x = c THEN "switching" ELSE pc[x]
                         /\ workRoom'[x] = IF x = c THEN at[c] ELSE workRoom[x]
      BY <1>0, <1>5, MovePoint DEF BeginSwitch, TypeOK
  <2>4. \A r \in Rooms : mutex'[r] = IF r = want[c].room THEN c ELSE mutex[r]
      BY <1>0, <1>5, <2>1 DEF BeginSwitch, TypeOK
  <2>5. pc[c] = "joining" /\ UNCHANGED <<want, dropPc, dropFrom>>
      BY <1>5 DEF BeginSwitch, At
  <2>6. \A x \in Conns : Joins(x) => want[x] \in Request /\ want[x].room \in Rooms
      BY <1>0, RequestType DEF LockInv
  <2>7. \A x \in Conns : x # Nobody
      BY SeatAssumption
  <2>8. \A x \in Conns : Switches(x)' => mutex'[want'[x].room] = x
    <3>. SUFFICES ASSUME NEW x \in Conns, Switches(x)' PROVE mutex'[want[x].room] = x
        BY <2>5
    <3>1. CASE x = c
        BY <2>1, <2>4, <3>1
    <3>2. CASE x # c
      <4>1. Switches(x) /\ want[x].room \in Rooms /\ mutex[want[x].room] = x
          BY <1>0, <2>3, <2>6, <3>2 DEF LockInv
      <4>. QED
          BY <2>1, <2>4, <2>7, <4>1
    <3>. QED
        BY <3>1, <3>2
  <2>9. \A r \in Rooms, x \in Conns : mutex'[r] = x => Switches(x)' /\ want'[x].room = r
      BY <1>0, <2>3, <2>4, <2>5 DEF LockInv
  <2>10. \A x \in Conns : Switches(x)' => workRoom'[x] \in Rooms \ {want'[x].room}
      BY <1>0, <2>2, <2>3, <2>5 DEF LockInv
  <2>11. \A x \in Conns : /\ Joins(x)' => want'[x] \in Request
                          /\ pc'[x] \in {"applying", "leaving", "left"} => workRoom'[x] \in Rooms
                          /\ dropPc'[x] # "off" => dropFrom'[x] \in Rooms
      BY <1>0, <2>3, <2>5 DEF LockInv
  <2>. QED
      BY <2>8, <2>9, <2>10, <2>11 DEF LockInv
<1>6. ASSUME NEW c \in Conns, LeaveOld(c) PROVE LockInv'
  <2>1. \A x \in Conns : pc'[x] = IF x = c THEN "arriving" ELSE pc[x]
      BY <1>0, <1>6, MovePoint DEF LeaveOld
  <2>2. pc[c] = "switching" /\ UNCHANGED <<want, workRoom, mutex, dropPc, dropFrom>>
      BY <1>6 DEF LeaveOld, At
  <2>. QED
      BY <1>0, <2>1, <2>2 DEF LockInv
<1>7. ASSUME NEW c \in Conns, Arrive(c) PROVE LockInv'
  <2>1. pc[c] = "arriving" /\ Idle(c) /\ UNCHANGED <<dropPc, dropFrom>>
      BY <1>7 DEF Arrive, At
  <2>2. want[c] \in Request /\ want[c].room \in Rooms /\ mutex[want[c].room] = c
      BY <1>0, <2>1, RequestType DEF LockInv
  <2>3. \A r \in Rooms : mutex'[r] = IF r = want[c].room THEN Nobody ELSE mutex[r]
      BY <1>0, <1>7, <2>2 DEF Arrive, TypeOK
  <2>4. \A x \in Conns : /\ pc'[x] = IF x = c THEN "idle" ELSE pc[x]
                         /\ want'[x] = IF x = c THEN NoSeat ELSE want[x]
                         /\ workRoom'[x] = IF x = c THEN NoRoom ELSE workRoom[x]
      BY <1>0, <2>1, IdlePoint
  <2>5. \A x \in Conns : x # Nobody
      BY SeatAssumption
  <2>6. \A x \in Conns : Joins(x) => want[x] \in Request /\ want[x].room \in Rooms
      BY <1>0, RequestType DEF LockInv
  <2>. QED
      BY <1>0, <2>1, <2>2, <2>3, <2>4, <2>5, <2>6 DEF LockInv
<1>8. ASSUME NEW c \in Conns, Input(c) PROVE LockInv'
    BY <1>0, <1>8, MovePoint DEF Input, At, LockInv
<1>10. ASSUME NEW c \in Conns, InputToRoom(c) PROVE LockInv'
  <2>1. \A x \in Conns : /\ pc'[x] = IF x = c THEN "applying" ELSE pc[x]
                         /\ workRoom'[x] = IF x = c THEN at[c] ELSE workRoom[x]
      BY <1>0, <1>10, MovePoint DEF InputToRoom, TypeOK
  <2>2. /\ pc[c] = "input" /\ at[c] \in Rooms
        /\ UNCHANGED <<want, mutex, dropPc, dropFrom>>
      BY <1>0, <1>10 DEF InputToRoom, At, TypeOK
  <2>. QED
      BY <1>0, <2>1, <2>2 DEF LockInv
<1>14. ASSUME NEW c \in Conns, Hangup(c) PROVE LockInv'
  <2>1. \A x \in Conns : /\ pc'[x] = IF x = c THEN IF at[c] = NoRoom THEN "closed" ELSE "leaving"
                                     ELSE pc[x]
                         /\ workRoom'[x] = IF x = c THEN at[c] ELSE workRoom[x]
      BY <1>0, <1>14, MovePoint DEF Hangup, TypeOK
  <2>2. /\ pc[c] = "idle" /\ at[c] \in Rooms \cup {NoRoom}
        /\ UNCHANGED <<want, mutex, dropPc, dropFrom>>
      BY <1>0, <1>14 DEF Hangup, At, TypeOK
  <2>. QED
      BY <1>0, <2>1, <2>2 DEF LockInv
<1>15. ASSUME NEW c \in Conns, LeaveAtEnd(c) PROVE LockInv'
    BY <1>0, <1>15, MovePoint DEF LeaveAtEnd, At, LockInv
<1>16. ASSUME NEW c \in Conns, Close(c) PROVE LockInv'
  <2>1. \A x \in Conns : /\ pc'[x] = IF x = c THEN "closed" ELSE pc[x]
                         /\ workRoom'[x] = IF x = c THEN NoRoom ELSE workRoom[x]
      BY <1>0, <1>16, MovePoint DEF Close, TypeOK
  <2>2. pc[c] = "left" /\ UNCHANGED <<want, mutex, dropPc, dropFrom>>
      BY <1>16 DEF Close, At
  <2>. QED
      BY <1>0, <2>1, <2>2 DEF LockInv
<1>17. ASSUME NEW c \in Conns, Drop(c) PROVE LockInv'
  <2>1. \A x \in Conns : dropPc'[x] # "off" => IF x = c THEN dropFrom'[x] \in Rooms
                                                ELSE dropPc[x] # "off" /\ dropFrom'[x] = dropFrom[x]
    <3>1. CASE at[c] = NoRoom
        BY <1>0, <1>17, <3>1 DEF Drop, LockInv
    <3>2. CASE at[c] # NoRoom
      <4>1. dropFrom' = [dropFrom EXCEPT ![c] = at[c]] /\ dropPc' = [dropPc EXCEPT ![c] = "leaving"]
          BY <1>17, <3>2 DEF Drop
      <4>. QED
          BY <1>0, <3>2, <4>1 DEF TypeOK
    <3>. QED
        BY <3>1, <3>2
  <2>2. UNCHANGED <<pc, want, workRoom, mutex>>
      BY <1>17 DEF Drop
  <2>. QED
      BY <1>0, <2>1, <2>2 DEF LockInv
<1>18. ASSUME NEW c \in Conns, DropLeaves(c) PROVE LockInv'
  <2>1. \A x \in Conns : dropPc'[x] = IF x = c THEN "clearing" ELSE dropPc[x]
      BY <1>0, <1>18 DEF DropLeaves, TypeOK
  <2>2. dropPc[c] = "leaving" /\ UNCHANGED <<pc, want, workRoom, mutex, dropFrom>>
      BY <1>18 DEF DropLeaves
  <2>. QED
      BY <1>0, <2>1, <2>2 DEF LockInv
<1>19. ASSUME NEW c \in Conns, DropCloses(c) PROVE LockInv'
  <2>1. \A x \in Conns : /\ dropPc'[x] = IF x = c THEN "off" ELSE dropPc[x]
                         /\ dropFrom'[x] = IF x = c THEN NoRoom ELSE dropFrom[x]
      BY <1>0, <1>19 DEF DropCloses, TypeOK
  <2>2. UNCHANGED <<pc, want, workRoom, mutex>>
      BY <1>19 DEF DropCloses
  <2>. QED
      BY <1>0, <2>1, <2>2 DEF LockInv
<1>20. CASE UNCHANGED <<pc, want, workRoom, mutex, dropPc, dropFrom>>
    BY <1>0, <1>20 DEF LockInv
<1>21. ASSUME NEW c \in Conns,
              Refuse(c) \/ Attach(c) \/ InputPlain(c) \/ InputStage(c) \/ \E s \in PlayerSeats : InputKick(c, s)
       PROVE  LockInv'
  <2>1. Idle(c) /\ pc[c] \in {"joining", "applying"} /\ UNCHANGED <<mutex, dropPc, dropFrom>>
      BY <1>21 DEF Refuse, Attach, InputPlain, InputStage, InputKick, Deliver, At
  <2>. QED
      BY <1>3, <2>1
<1>22. ASSUME NEW r \in Rooms, Room(r) PROVE UNCHANGED <<pc, want, workRoom, mutex, dropPc, dropFrom>>
    BY <1>22 DEF Room, HostStaysAway, HostTimeout, GameOver, Expire
<1>23. ASSUME NEW c \in Conns, InputWithoutRoom(c)
       PROVE  UNCHANGED <<pc, want, workRoom, mutex, dropPc, dropFrom>>
    BY <1>23 DEF InputWithoutRoom
<1>24. UNCHANGED vars => UNCHANGED <<pc, want, workRoom, mutex, dropPc, dropFrom>>
    BY DEF vars
<1>. QED
    BY <1>1, <1>2, <1>5, <1>6, <1>7, <1>8, <1>10, <1>14, <1>15, <1>16, <1>17, <1>18, <1>19, <1>20, <1>21,
       <1>22, <1>23, <1>24 DEF Next, Reader, Joining, Inputting, Ending, Dropping

-----------------------------------------------------------------------------
(* What a step changes in a room *)

SamePlaces(r) ==
    /\ host'[r] = host[r] /\ screens'[r] = screens[r] /\ holder'[r] = holder[r]
    /\ record'[r] = record[r] /\ blocked'[r] = blocked[r]

LEMMA VacateElsewhere ==
    ASSUME TypeOK, NEW c \in Conns, NEW r \in Rooms, Vacate(c, r), NEW o \in Rooms \ {r}
    PROVE  host'[o] = host[o] /\ screens'[o] = screens[o] /\ holder'[o] = holder[o]
<1>1. CASE /\ host' = [host EXCEPT ![r] = Nobody]
           /\ UNCHANGED <<screens, holder>>
    BY <1>1 DEF TypeOK
<1>2. CASE screens' = [screens EXCEPT ![r] = @ \ {c}] /\ UNCHANGED <<host, hostTimer, holder>>
    BY <1>2 DEF TypeOK
<1>3. CASE GiveUpSeat(c, r) /\ UNCHANGED <<host, hostTimer, screens>>
    BY <1>3 DEF GiveUpSeat, TypeOK
<1>. QED
    BY <1>1, <1>2, <1>3, Zenon DEF Vacate

LEMMA TakePlaceElsewhere ==
    ASSUME TypeOK, NEW c \in Conns, want[c] \in Request, NEW keptId, NEW replaced,
           TakePlace(c, keptId, replaced), NEW o \in Rooms \ {want[c].room}
    PROVE  /\ host'[o] = host[o] /\ screens'[o] = screens[o]
           /\ holder'[o] = holder[o] /\ record'[o] = record[o]
  BY RequestType DEF TakePlace, TypeOK

\* In a room whose mutex is held nobody's place changes until its holder arrives.
LEMMA HeldRoom ==
    ASSUME SoundInv, [Next]_vars, NEW r \in Rooms, mutex[r] # Nobody
    PROVE  SamePlaces(r) \/ \E c \in Conns : Arrive(c) /\ want[c].room = r
<1>. USE DEF SamePlaces, placeVars, roomVars
<1>0. TypeOK /\ LockInv
    BY DEF SoundInv
<1>1. ASSUME NEW c \in Conns, Attach(c) PROVE SamePlaces(r)
  <2>1. want[c] \in Request /\ want[c].room \in Rooms /\ want[c].room # r
      BY <1>0, <1>1, RequestType DEF Attach, At, LockInv, Joins, Free
  <2>. QED
      BY <1>0, <1>1, <2>1, TakePlaceElsewhere DEF Attach
<1>2. ASSUME NEW c \in Conns, LeaveOld(c) \/ LeaveAtEnd(c) PROVE SamePlaces(r)
  <2>1. workRoom[c] \in Rooms /\ workRoom[c] # r /\ Vacate(c, workRoom[c])
      BY <1>0, <1>2 DEF LeaveOld, LeaveAtEnd, At, LockInv, Switches, Free
  <2>. QED
      BY <1>0, <1>2, <2>1, VacateElsewhere DEF LeaveOld, LeaveAtEnd
<1>3. ASSUME NEW c \in Conns, DropLeaves(c) PROVE SamePlaces(r)
  <2>1. dropFrom[c] \in Rooms /\ dropFrom[c] # r /\ Vacate(c, dropFrom[c])
      BY <1>0, <1>3 DEF DropLeaves, LockInv, Free
  <2>. QED
      BY <1>0, <1>3, <2>1, VacateElsewhere DEF DropLeaves
<1>4. ASSUME NEW c \in Conns, Arrive(c) PROVE SamePlaces(r) \/ want[c].room = r
  <2>1. want[c] \in Request
      BY <1>0, <1>4 DEF Arrive, At, LockInv, Joins
  <2>. QED
      BY <1>0, <1>4, <2>1, TakePlaceElsewhere DEF Arrive
<1>5. ASSUME NEW c \in Conns, NEW s \in PlayerSeats, InputKick(c, s) PROVE SamePlaces(r)
  <2>1. workRoom[c] \in Rooms /\ workRoom[c] # r
      BY <1>0, <1>5 DEF InputKick, Deliver, At, LockInv, Free
  <2>. QED
      BY <1>0, <1>5, <2>1 DEF InputKick, Deliver, TypeOK
<1>6. CASE UNCHANGED <<host, screens, holder, record, blocked>>
    BY <1>6
<1>7. ASSUME NEW c \in Conns,
             \/ (\E q \in Request : Ask(c, q)) \/ (\E o \in Rooms : Create(c, o))
             \/ Refuse(c) \/ BeginSwitch(c) \/ Input(c) \/ InputWithoutRoom(c) \/ InputToRoom(c)
             \/ InputPlain(c) \/ InputStage(c) \/ Hangup(c) \/ Close(c) \/ Drop(c) \/ DropCloses(c)
      PROVE  UNCHANGED <<host, screens, holder, record, blocked>>
    BY <1>7 DEF Ask, Create, Refuse, BeginSwitch, Input, InputWithoutRoom, InputToRoom, InputPlain,
                InputStage, Deliver, Hangup, Close, Drop, DropCloses
<1>8. ASSUME NEW o \in Rooms, Room(o) PROVE UNCHANGED <<host, screens, holder, record, blocked>>
    BY <1>8 DEF Room, HostStaysAway, HostTimeout, GameOver, Expire
<1>9. UNCHANGED vars => UNCHANGED <<host, screens, holder, record, blocked>>
    BY DEF vars
<1>. QED
    BY <1>1, <1>2, <1>3, <1>4, <1>5, <1>6, <1>7, <1>8, <1>9
    DEF Next, Reader, Joining, Inputting, Ending, Dropping

\* Who is changing rooms began to, and goes where it wanted to go.
LEMMA SwitchPersists ==
    ASSUME SoundInv, [Next]_vars, NEW c \in Conns, Switches(c)'
    PROVE  \/ BeginSwitch(c) /\ want'[c] = want[c]
           \/ Switches(c) /\ want'[c] = want[c] /\ ~Arrive(c)
<1>. USE DEF Switches, readerVars
<1>0. TypeOK /\ pc[c] \in ReaderSteps
    BY DEF SoundInv, TypeOK
<1>1. ASSUME NEW d \in Conns, NEW step, Move(d, step), UNCHANGED want, step \notin {"switching", "arriving"}
      PROVE  Switches(c) /\ want'[c] = want[c] /\ d # c
    BY <1>0, <1>1, MovePoint
<1>2. ASSUME NEW d \in Conns, Idle(d) PROVE Switches(c) /\ want'[c] = want[c] /\ d # c
    BY <1>0, <1>2, IdlePoint
<1>3. ASSUME NEW d \in Conns, NEW q \in Request, Ask(d, q) PROVE Switches(c) /\ want'[c] = want[c] /\ d # c
    BY <1>0, <1>3, MovePoint DEF Ask, TypeOK
<1>4. ASSUME NEW d \in Conns, NEW r \in Rooms, Create(d, r) PROVE Switches(c) /\ want'[c] = want[c] /\ d # c
    BY <1>0, <1>4, MovePoint DEF Create, TypeOK
<1>5. ASSUME NEW d \in Conns, BeginSwitch(d)
      PROVE  want'[c] = want[c] /\ (Switches(c) \/ BeginSwitch(c))
    BY <1>0, <1>5, MovePoint DEF BeginSwitch
<1>6. ASSUME NEW d \in Conns, LeaveOld(d) PROVE Switches(c) /\ want'[c] = want[c]
    BY <1>0, <1>6, MovePoint DEF LeaveOld, At
<1>7. UNCHANGED <<pc, want>> => Switches(c) /\ want'[c] = want[c]
    OBVIOUS
<1>8. ASSUME Arrive(c) PROVE FALSE
    BY <1>0, <1>8, IdlePoint DEF Arrive
<1>9. ASSUME NEW d \in Conns,
             Refuse(d) \/ Attach(d) \/ Arrive(d) \/ InputPlain(d) \/ InputStage(d) \/ \E s \in PlayerSeats : InputKick(d, s)
      PROVE  Idle(d)
    BY <1>9 DEF Refuse, Attach, Arrive, InputPlain, InputStage, InputKick, Deliver
<1>10. ASSUME NEW d \in Conns, Input(d) \/ InputToRoom(d) \/ Hangup(d) \/ LeaveAtEnd(d) \/ Close(d)
       PROVE  Switches(c) /\ want'[c] = want[c]
  <2>1. UNCHANGED want /\ \E step \in {"input", "applying", "closed", "leaving", "left"} : Move(d, step)
      BY <1>10 DEF Input, InputToRoom, Hangup, LeaveAtEnd, Close
  <2>. QED
      BY <1>1, <2>1
<1>11. ASSUME NEW d \in Conns, InputWithoutRoom(d) \/ Drop(d) \/ DropLeaves(d) \/ DropCloses(d)
       PROVE  UNCHANGED <<pc, want>>
    BY <1>11 DEF InputWithoutRoom, Drop, DropLeaves, DropCloses
<1>12. ASSUME NEW r \in Rooms, Room(r) PROVE UNCHANGED <<pc, want>>
    BY <1>12 DEF Room, HostStaysAway, HostTimeout, GameOver, Expire
<1>13. UNCHANGED vars => UNCHANGED <<pc, want>>
    BY DEF vars
<1>. QED
    BY <1>2, <1>3, <1>4, <1>5, <1>6, <1>7, <1>8, <1>9, <1>10, <1>11, <1>12, <1>13
    DEF Next, Reader, Joining, Inputting, Ending, Dropping

LEMMA StepAdmits ==
    ASSUME SoundInv, [Next]_vars
    PROVE  AdmitInv'
<1>0. TypeOK /\ LockInv /\ AdmitInv
    BY DEF SoundInv
<1>. SUFFICES ASSUME NEW c \in Conns, Switches(c)'
              PROVE  HostFree(c, want[c])' /\ want'[c].seat \notin blocked'[want'[c].room]
    BY DEF AdmitInv
<1>1. CASE BeginSwitch(c) /\ want'[c] = want[c]
  <2>1. want[c] \in Request
      BY <1>0, <1>1 DEF BeginSwitch, At, LockInv, Joins
  <2>2. want[c].seat \notin blocked[want[c].room]
      BY <1>0, <1>1, <2>1, AdmittedUnblocked DEF BeginSwitch
  <2>3. HostFree(c, want[c]) /\ UNCHANGED <<host, blocked>>
      BY <1>1 DEF BeginSwitch, placeVars, roomVars
  <2>. QED
      BY <1>1, <2>2, <2>3 DEF HostFree
<1>2. CASE Switches(c) /\ want'[c] = want[c] /\ ~Arrive(c)
  <2>1. want[c].room \in Rooms /\ mutex[want[c].room] = c /\ c # Nobody
      BY <1>0, <1>2, RequestType, SeatAssumption DEF LockInv, Joins, Switches
  <2>2. \A d \in Conns : Arrive(d) /\ want[d].room = want[c].room => d = c
      BY <1>0, <2>1 DEF Arrive, At, LockInv, Switches
  <2>3. SamePlaces(want[c].room)
      BY <1>2, <2>1, <2>2, HeldRoom
  <2>4. HostFree(c, want[c]) /\ want[c].seat \notin blocked[want[c].room]
      BY <1>0, <1>2 DEF AdmitInv
  <2>. QED
      BY <1>2, <2>3, <2>4 DEF SamePlaces, HostFree
<1>. QED
    BY <1>1, <1>2, SwitchPersists

LEMMA InitSound == Init => SoundInv
<1>. SUFFICES ASSUME Init PROVE SoundInv
    OBVIOUS
<1>1. TypeOK
  <2>1. holder \in [Rooms -> [Seats -> Conns \cup {Nobody}]]
      BY DEF Init
  <2>2. drops \in [Conns -> 0 .. MaxDrops] /\ joins \in [Conns -> Nat]
      BY SeatAssumption DEF Init
  <2>3. \A r \in Rooms : record[r] \cap blocked[r] = {}
      BY DEF Init
  <2>4. /\ pc \in [Conns -> ReaderSteps] /\ want \in [Conns -> Request \cup {NoSeat}]
        /\ workRoom \in [Conns -> Rooms \cup {NoRoom}] /\ at \in [Conns -> Rooms \cup {NoRoom}]
        /\ role \in [Conns -> Roles \cup {"none"}] /\ playerId \in [Conns -> PlayerSeats \cup {NoSeat}]
        /\ audienceId \in [Conns -> AudienceSeats \cup {NoSeat}] /\ sendOpen \in [Conns -> BOOLEAN]
        /\ dropPc \in [Conns -> {"off", "leaving", "clearing"}] /\ dropFrom \in [Conns -> Rooms \cup {NoRoom}]
      BY DEF Init, ReaderSteps
  <2>5. /\ life \in [Rooms -> {"absent", "listed", "removed"}]
        /\ stage \in [Rooms -> {"lobby", "running", "over"}]
        /\ host \in [Rooms -> Conns \cup {Nobody}] /\ hostTimer \in [Rooms -> {"off", "running", "due"}]
        /\ screens \in [Rooms -> SUBSET Conns] /\ record \in [Rooms -> SUBSET Seats]
        /\ blocked \in [Rooms -> SUBSET PlayerSeats] /\ mutex \in [Rooms -> Conns \cup {Nobody}]
        /\ panicked \in BOOLEAN
      BY DEF Init
  <2>. QED
      BY <2>1, <2>2, <2>3, <2>4, <2>5 DEF TypeOK
<1>2. LockInv /\ AdmitInv
    BY SeatAssumption DEF Init, LockInv, AdmitInv, Joins, Switches
<1>. QED
    BY <1>1, <1>2 DEF SoundInv

LEMMA SoundRooms == Spec => []SoundInv
<1>1. SoundInv /\ [Next]_vars => SoundInv'
    BY StepTypes, StepLocks, StepAdmits DEF SoundInv
<1>. QED
    BY <1>1, InitSound, PTL DEF Spec

\* However readers, droppers and rooms interleave, every variable keeps its type, and no
\* record of a room has a blocked token.
THEOREM MembershipTypes == Spec => []TypeOK
<1>1. SoundInv => TypeOK
    BY DEF SoundInv
<1>. QED
    BY <1>1, SoundRooms, PTL

-----------------------------------------------------------------------------
(* Places are lost by their owners *)

\* removeClient touches only what the connection itself has.
LEMMA VacateOwn ==
    ASSUME TypeOK, NEW c \in Conns, NEW r \in Rooms, Vacate(c, r), NEW o \in Rooms
    PROVE  /\ host'[o] # host[o] => host[o] = c /\ o = r /\ host'[o] = Nobody
           /\ screens'[o] \subseteq screens[o] /\ screens[o] \ {c} \subseteq screens'[o]
           /\ \A s \in Seats : holder'[o][s] # holder[o][s] =>
                  holder[o][s] = c /\ o = r /\ holder'[o][s] = Nobody
<1>1. CASE /\ role[c] = "host" /\ host[r] = c
           /\ host' = [host EXCEPT ![r] = Nobody]
           /\ UNCHANGED <<screens, holder>>
    BY <1>1 DEF TypeOK
<1>2. CASE screens' = [screens EXCEPT ![r] = @ \ {c}] /\ UNCHANGED <<host, hostTimer, holder>>
    BY <1>2 DEF TypeOK
<1>3. CASE GiveUpSeat(c, r) /\ UNCHANGED <<host, hostTimer, screens>>
    BY <1>3 DEF GiveUpSeat, TypeOK
<1>. QED
    BY <1>1, <1>2, <1>3, Zenon DEF Vacate

LEMMA TakePlaceOwn ==
    ASSUME TypeOK, NEW c \in Conns, want[c] \in Request, HostFree(c, want[c]),
           NEW keptId, NEW replaced, TakePlace(c, keptId, replaced), NEW o \in Rooms
    PROVE  /\ host'[o] # host[o] => host[o] = Nobody
           /\ \A s \in Seats : holder'[o][s] \in {holder[o][s], c}
<1>1. want[c].room \in Rooms /\ want[c].seat \in Seats \cup {NoSeat}
    BY RequestType
<1>2. host'[o] # host[o] => host[o] = Nobody
    BY <1>1 DEF TakePlace, TypeOK, HostFree
<1>3. \A s \in Seats : holder'[o][s] \in {holder[o][s], c}
    BY <1>1 DEF TakePlace, TypeOK
<1>. QED
    BY <1>2, <1>3

KeepsOthers(r) ==
    /\ (host[r] # Nobody /\ host'[r] # host[r]) =>
           pc'[host[r]] # pc[host[r]] \/ dropPc'[host[r]] # dropPc[host[r]]
    /\ \A s \in Seats : (holder[r][s] # Nobody /\ holder'[r][s] = Nobody) =>
           \/ pc'[holder[r][s]] # pc[holder[r][s]]
           \/ dropPc'[holder[r][s]] # dropPc[holder[r][s]]
           \/ s \in blocked'[r]

LEMMA StepKeepsOthers ==
    ASSUME SoundInv, [Next]_vars, NEW r \in Rooms
    PROVE  KeepsOthers(r)
<1>. USE DEF placeVars
<1>0. TypeOK /\ LockInv /\ AdmitInv /\ \A c \in Conns : c # Nobody
    BY SeatAssumption DEF SoundInv
<1>1. ASSUME NEW c \in Conns, Attach(c) \/ Arrive(c) PROVE KeepsOthers(r)
  <2>1. want[c] \in Request /\ HostFree(c, want[c])
      BY <1>0, <1>1 DEF Attach, Arrive, At, LockInv, AdmitInv, Joins, Switches
  <2>2. \E keptId, replaced : TakePlace(c, keptId, replaced)
      BY <1>1, Zenon DEF Attach, Arrive
  <2>. QED
      BY <1>0, <2>1, <2>2, TakePlaceOwn DEF KeepsOthers
<1>2. ASSUME NEW c \in Conns, LeaveOld(c) \/ LeaveAtEnd(c) PROVE KeepsOthers(r)
  <2>1. workRoom[c] \in Rooms /\ Vacate(c, workRoom[c])
      BY <1>0, <1>2 DEF LeaveOld, LeaveAtEnd, At, LockInv, Switches
  <2>2. pc'[c] # pc[c]
      BY <1>0, <1>2, MovePoint DEF LeaveOld, LeaveAtEnd, At
  <2>. QED
      BY <1>0, <2>1, <2>2, VacateOwn DEF KeepsOthers
<1>3. ASSUME NEW c \in Conns, DropLeaves(c) PROVE KeepsOthers(r)
  <2>1. dropFrom[c] \in Rooms /\ Vacate(c, dropFrom[c]) /\ dropPc'[c] # dropPc[c]
      BY <1>0, <1>3 DEF DropLeaves, LockInv, TypeOK
  <2>. QED
      BY <1>0, <2>1, VacateOwn DEF KeepsOthers
<1>4. ASSUME NEW c \in Conns, NEW s \in PlayerSeats, InputKick(c, s) PROVE KeepsOthers(r)
  <2>1. workRoom[c] \in Rooms /\ s \in Seats
      BY <1>0, <1>4 DEF InputKick, Deliver, At, LockInv, Seats
  <2>2. host' = host
      BY <1>4 DEF InputKick, Deliver
  <2>3. \A t \in Seats : holder'[r][t] # holder[r][t] => t = s /\ r = workRoom[c]
      BY <1>0, <1>4, <2>1 DEF InputKick, TypeOK
  <2>4. s \in blocked'[workRoom[c]]
      BY <1>0, <1>4, <2>1 DEF InputKick, TypeOK
  <2>. QED
      BY <2>2, <2>3, <2>4 DEF KeepsOthers
<1>6. UNCHANGED <<host, holder>> => KeepsOthers(r)
    BY DEF KeepsOthers
<1>7. ASSUME NEW c \in Conns,
             \/ (\E q \in Request : Ask(c, q)) \/ (\E o \in Rooms : Create(c, o))
             \/ Refuse(c) \/ BeginSwitch(c) \/ Input(c) \/ InputWithoutRoom(c) \/ InputToRoom(c)
             \/ InputPlain(c) \/ InputStage(c) \/ Hangup(c) \/ Close(c) \/ Drop(c) \/ DropCloses(c)
      PROVE  UNCHANGED <<host, holder>>
    BY <1>7 DEF Ask, Create, Refuse, BeginSwitch, Input, InputWithoutRoom, InputToRoom, InputPlain,
                InputStage, Deliver, Hangup, Close, Drop, DropCloses
<1>8. ASSUME NEW o \in Rooms, Room(o) PROVE UNCHANGED <<host, holder>>
    BY <1>8 DEF Room, HostStaysAway, HostTimeout, GameOver, Expire
<1>9. UNCHANGED vars => UNCHANGED <<host, holder>>
    BY DEF vars
<1>. QED
    BY <1>1, <1>2, <1>3, <1>4, <1>6, <1>7, <1>8, <1>9 DEF Next, Reader, Joining, Inputting, Ending, Dropping

\* However often a connection changes rooms, is dropped and joins again, nobody loses a
\* place but by its own goroutines, a kick, or a connection with the seat's token
\* (removeClient, attachHost .. attachAudience).
THEOREM StaleLeavesAreHarmless == Spec => StaleLeaveIsHarmless
<1>1. SoundInv /\ [Next]_vars => \A r \in Rooms : KeepsOthers(r)
    BY StepKeepsOthers
<1>2. (\A r \in Rooms : KeepsOthers(r)) =>
          \A r \in Rooms :
            /\ (host[r] # Nobody /\ host'[r] # host[r]) =>
                   pc'[host[r]] # pc[host[r]] \/ dropPc'[host[r]] # dropPc[host[r]]
            /\ \A s \in Seats : (holder[r][s] # Nobody /\ holder'[r][s] = Nobody) =>
                   \/ pc'[holder[r][s]] # pc[holder[r][s]]
                   \/ dropPc'[holder[r][s]] # dropPc[holder[r][s]]
                   \/ s \in blocked'[r]
    BY DEF KeepsOthers
<1>. QED
    BY <1>1, <1>2, SoundRooms, PTL DEF Spec, StaleLeaveIsHarmless

-----------------------------------------------------------------------------
(* Rooms and connections agree *)

LEMMA Apart ==
    /\ \A c \in Conns : c # Nobody
    /\ \A r \in Rooms : r # NoRoom
    /\ \A s \in Seats : s # NoSeat
    /\ \A s \in PlayerSeats : s \in Seats
    /\ \A s \in AudienceSeats : s \in Seats /\ s \notin PlayerSeats
    /\ \A s \in Seats : s \notin PlayerSeats => s \in AudienceSeats
  BY SeatAssumption DEF Seats

\* Rooms that are gone to are held, and nobody holds another one.
LEMMA RoomsApart ==
    ASSUME SoundInv
    PROVE  /\ \A c \in Conns : Joins(c) => want[c] \in Request /\ want[c].room \in Rooms
           /\ \A c \in Conns : Switches(c) => /\ mutex[want[c].room] = c /\ ~Free(want[c].room)
                                              /\ want[c].room \in Rooms
                                              /\ workRoom[c] \in Rooms /\ workRoom[c] # want[c].room
           /\ \A c \in Conns : pc[c] \in {"arriving", "leaving", "left"} => workRoom[c] \in Rooms
           /\ \A c \in Conns : dropPc[c] # "off" => dropFrom[c] \in Rooms
           /\ \A c \in Conns, r \in Rooms : mutex[r] = c => Switches(c) /\ want[c].room = r
           /\ \A c \in Conns : at[c] \in Rooms \cup {NoRoom}
  BY Apart, RequestType DEF SoundInv, LockInv, TypeOK, Joins, Switches, Free

\* In a room that nobody is about to enter, who has a place is in the room for it.
LEMMA FreeBacked ==
    ASSUME BackInv, NEW r \in Rooms, Free(r), NEW c \in Conns, NEW s \in Seats, holder[r][s] = c
    PROVE  Sits(c, r, s)
  BY Apart DEF BackInv, Backed, TakenOver, Free

\* removeClient takes away every place of the connection in the room, and only those.
LEMMA VacateEmpties ==
    ASSUME TypeOK, BackInv, NEW c \in Conns, NEW r \in Rooms, Free(r), Vacate(c, r), NEW o \in Rooms
    PROVE  /\ host'[o] = IF o = r /\ host[o] = c THEN Nobody ELSE host[o]
           /\ screens'[o] = IF o = r THEN screens[o] \ {c} ELSE screens[o]
           /\ \A s \in Seats : holder'[o][s] = IF o = r /\ holder[o][s] = c THEN Nobody ELSE holder[o][s]
<1>0. /\ host[r] = c => role[c] = "host"
      /\ c \in screens[r] => role[c] = "display"
      /\ \A s \in Seats : holder[r][s] = c =>
             s = SeatHeld(c) /\ role[c] \in {"player", "audience"}
    BY FreeBacked, Apart DEF BackInv, Backed, Sits, SeatHeld
<1>1. CASE /\ role[c] = "host" /\ host[r] = c
           /\ host' = [host EXCEPT ![r] = Nobody]
           /\ hostTimer' = [hostTimer EXCEPT ![r] = "running"]
           /\ UNCHANGED <<screens, holder>>
  <2>1. c \notin screens[r] /\ \A s \in Seats : holder[r][s] # c
      BY <1>0, <1>1
  <2>2. screens[r] = screens[r] \ {c}
      BY <2>1 DEF TypeOK
  <2>. QED
      BY <1>1, <2>1, <2>2 DEF TypeOK
<1>2. CASE /\ role[c] = "display"
           /\ screens' = [screens EXCEPT ![r] = @ \ {c}]
           /\ UNCHANGED <<host, hostTimer, holder>>
    BY <1>0, <1>2 DEF TypeOK
<1>3. CASE /\ ~(role[c] = "host" /\ host[r] = c) /\ role[c] # "display"
           /\ GiveUpSeat(c, r)
           /\ UNCHANGED <<host, hostTimer, screens>>
  <2>1. host[r] # c /\ screens[r] = screens[r] \ {c}
      BY <1>0, <1>3 DEF TypeOK
  <2>2. holder' = [holder EXCEPT ![r] = [s \in Seats |->
                  IF s = SeatHeld(c) /\ holder[r][s] = c THEN Nobody ELSE holder[r][s]]]
      BY <1>3 DEF GiveUpSeat
  <2>3. \A s \in Seats : holder'[o][s] = IF o = r /\ holder[o][s] = c THEN Nobody ELSE holder[o][s]
      BY <1>0, <2>2 DEF TypeOK
  <2>. QED
      BY <1>3, <2>1, <2>3
<1>. QED
    BY <1>1, <1>2, <1>3, Zenon DEF Vacate

\* What TakePlace writes, connection by connection and room by room.
TakesOn(c, q, replaced) ==
    /\ role'[c] = q.role /\ at'[c] = q.room
    /\ q.role = "player" => playerId'[c] = q.seat
    /\ q.role = "audience" => audienceId'[c] = q.seat
    /\ \A x \in Conns : x # c =>
           /\ role'[x] = role[x] /\ playerId'[x] = playerId[x]
           /\ x \in replaced => at'[x] = NoRoom
           /\ x \notin replaced => at'[x] = at[x] /\ audienceId'[x] = audienceId[x]

MovesIn(c, q) ==
    \A x \in Conns, o \in Rooms :
        /\ host'[o] = x <=> IF o = q.room /\ q.role = "host" THEN x = c ELSE host[o] = x
        /\ x \in screens'[o] <=> x \in screens[o] \/ (x = c /\ o = q.room /\ q.role = "display")
        /\ \A s \in Seats :
               holder'[o][s] = x <=> IF o = q.room /\ s = q.seat THEN x = c ELSE holder[o][s] = x

LEMMA TakePlacePoint ==
    ASSUME TypeOK, NEW c \in Conns, want[c] \in Request, NEW keptId, NEW replaced,
           TakePlace(c, keptId, replaced)
    PROVE  TakesOn(c, want[c], replaced) /\ MovesIn(c, want[c])
<1>. DEFINE q == want[c]
<1>1. q.room \in Rooms /\ q.seat \in Seats \cup {NoSeat}
    BY RequestType
<1>2. /\ role'[c] = q.role /\ (q.role = "player" => playerId'[c] = q.seat)
      /\ \A x \in Conns : x # c => role'[x] = role[x] /\ playerId'[x] = playerId[x]
    BY DEF TakePlace, TypeOK
<1>3. /\ at'[c] = q.room /\ (q.role = "audience" => audienceId'[c] = q.seat)
      /\ \A x \in Conns : x # c =>
           /\ x \in replaced => at'[x] = NoRoom
           /\ x \notin replaced => at'[x] = at[x] /\ audienceId'[x] = audienceId[x]
    BY DEF TakePlace
<1>4. \A x \in Conns, o \in Rooms :
        /\ host'[o] = x <=> IF o = q.room /\ q.role = "host" THEN x = c ELSE host[o] = x
        /\ x \in screens'[o] <=> x \in screens[o] \/ (x = c /\ o = q.room /\ q.role = "display")
    BY <1>1 DEF TakePlace, TypeOK
<1>5. \A o \in Rooms, s \in Seats : holder'[o][s] = IF o = q.room /\ s = q.seat THEN c ELSE holder[o][s]
  <2>1. CASE q.seat = NoSeat
      BY <2>1, Apart DEF TakePlace
  <2>2. CASE q.seat # NoSeat
      BY <1>1, <2>2 DEF TakePlace, TypeOK
  <2>. QED
      BY <2>1, <2>2
<1>6. TakesOn(c, q, replaced)
    BY <1>2, <1>3 DEF TakesOn
<1>7. MovesIn(c, q)
    BY <1>4, <1>5 DEF MovesIn
<1>. QED
    BY <1>6, <1>7

\* Who loses a seat to c had no other place.
LEMMA ReplacedOnlySits ==
    ASSUME TypeOK, BackInv, NEW c \in Conns, want[c] \in Request, Free(want[c].room),
           NEW y \in Conns, y \in Replaced(c)
    PROVE  /\ want[c].seat \in Seats /\ holder[want[c].room][want[c].seat] = y /\ y # c
           /\ \A o \in Rooms : /\ host[o] # y /\ y \notin screens[o]
                               /\ \A s \in Seats : Sits(y, o, s) => o = want[c].room /\ s = want[c].seat
<1>. DEFINE r == want[c].room
            t == want[c].seat
<1>1. t \in Seats /\ holder[r][t] = y /\ y # c /\ r \in Rooms
    BY RequestType DEF Replaced
<1>2. Sits(y, r, t)
    BY <1>1, FreeBacked
<1>3. role[y] \in {"player", "audience"} /\ at[y] = r
    BY <1>2 DEF Sits
<1>4. \A o \in Rooms : host[o] # y /\ y \notin screens[o]
    BY <1>3 DEF BackInv, Backed
<1>5. \A o \in Rooms, s \in Seats : Sits(y, o, s) => o = r /\ s = t
    BY <1>2 DEF Sits
<1>. QED
    BY <1>1, <1>4, <1>5

LEMMA AttachPlaces ==
    ASSUME PlaceInv, NEW c \in Conns, Attach(c)
    PROVE  FreshInv' /\ LeaveInv' /\ ToldInv' /\ BackInv' /\ AttachedAreSeated'
<1>. DEFINE q == want[c]
            r == want[c].room
<1>0. TypeOK /\ SoundInv /\ FreshInv /\ LeaveInv /\ ToldInv /\ BackInv /\ AttachedAreSeated
    BY DEF PlaceInv, SoundInv
<1>1. /\ pc[c] = "joining" /\ Free(r) /\ HostFree(c, q) /\ at[c] \in {r, NoRoom} /\ Idle(c)
      /\ TakePlace(c, audienceId[c], Replaced(c))
      /\ UNCHANGED <<joins, mutex, dropPc, dropFrom>>
    BY DEF Attach, At, dropVars
<1>2. /\ q \in Request /\ r \in Rooms /\ at[c] = NoRoom /\ dropPc[c] = "off" /\ joins[c] # 0
      /\ \A x \in Conns : Joins(x) => want[x].room \in Rooms
      /\ \A x \in Conns : Switches(x) => x # c /\ want[x].room # r /\ want[x].room \in Rooms
      /\ \A o \in Rooms, x \in Conns : mutex[o] = x => x # c /\ o # r
      /\ \A x \in Conns : pc[x] \in {"arriving", "leaving", "left"} => workRoom[x] \in Rooms
      /\ \A x \in Conns : dropPc[x] # "off" => dropFrom[x] \in Rooms
    BY <1>0, <1>1, RoomsApart, Apart DEF FreshInv, Joins, Switches, Free
<1>3. \A x \in Conns : /\ pc'[x] = IF x = c THEN "idle" ELSE pc[x]
                       /\ x # c => want'[x] = want[x] /\ workRoom'[x] = workRoom[x]
                       /\ Switches(x)' <=> x # c /\ Switches(x)
                       /\ Joins(x)' <=> x # c /\ Joins(x)
    BY <1>0, <1>1, IdlePoint DEF Joins, Switches
<1>4. TakesOn(c, q, Replaced(c)) /\ MovesIn(c, q) /\ \A x \in Conns : x # c => at'[x] \in {at[x], NoRoom}
  <2>1. TakesOn(c, q, Replaced(c)) /\ MovesIn(c, q)
      BY <1>0, <1>1, <1>2, TakePlacePoint
  <2>. QED
      BY <2>1 DEF TakesOn
<1>5. \A y \in Conns : y \in Replaced(c) =>
           /\ q.seat \in Seats /\ holder[r][q.seat] = y
           /\ \A o \in Rooms : /\ host[o] # y /\ y \notin screens[o]
                               /\ \A s \in Seats : Sits(y, o, s) => o = r /\ s = q.seat
    BY <1>0, <1>1, <1>2, ReplacedOnlySits
<1>6. /\ q.role \in Roles
      /\ q.role = "player" => q.seat \in PlayerSeats
      /\ q.role = "audience" => q.seat \in AudienceSeats
      /\ q.seat \in Seats \cup {NoSeat} /\ (q.seat \in Seats <=> q.role \in {"player", "audience"})
      /\ q.room = r /\ want[c].seat = q.seat
    BY <1>2, RequestType, Apart DEF Roles
<1>. HIDE DEF q, r
<1>7. \A x \in Conns, o \in Rooms : x # c /\ Occupies(x, o)' => Occupies(x, o)
  <2>. SUFFICES ASSUME NEW x \in Conns, NEW o \in Rooms, x # c, Occupies(x, o)' PROVE Occupies(x, o)
      OBVIOUS
  <2>. QED
      BY <1>4 DEF Occupies, MovesIn
<1>8. \A o \in Rooms, s \in Seats : TakenOver(o, s) => TakenOver(o, s)'
    BY <1>1, <1>2, <1>3 DEF TakenOver
<1>10. FreshInv'
    BY <1>0, <1>1, <1>2, <1>3, <1>4, Apart DEF FreshInv, OneJoinEach, TakesOn
<1>11. LeaveInv'
  <2>. SUFFICES ASSUME NEW x \in Conns
                PROVE  /\ Switches(x)' \/ pc'[x] \in {"leaving", "left"} => at'[x] \in {workRoom'[x], NoRoom}
                       /\ dropPc'[x] # "off" => at'[x] \in {dropFrom'[x], NoRoom}
                       /\ pc'[x] \in {"arriving", "left"} => ~Occupies(x, workRoom[x])'
                       /\ dropPc'[x] = "clearing" => ~Occupies(x, dropFrom[x])'
      BY DEF LeaveInv
  <2>1. CASE x = c
      BY <1>1, <1>2, <1>3, <2>1
  <2>2. CASE x # c
    <3>1. ~Occupies(x, workRoom[x]) /\ pc[x] \in {"arriving", "left"} => ~Occupies(x, workRoom[x])'
        BY <1>2, <1>3, <1>7, <2>2
    <3>. QED
        BY <1>0, <1>1, <1>2, <1>3, <1>4, <1>7, <2>2, <3>1 DEF LeaveInv
  <2>. QED
      BY <2>1, <2>2
<1>12. ToldInv'
    BY <1>0, <1>1, <1>2, <1>3, <1>4, <1>6, Apart DEF ToldInv, MovesIn, TakesOn
<1>13. BackInv'
  <2>. SUFFICES ASSUME NEW x \in Conns, NEW o \in Rooms PROVE Backed(x, o)'
      BY DEF BackInv
  <2>1. CASE x = c
    <3>1. /\ host[o] # c /\ c \notin screens[o]
          /\ \A s \in Seats : holder[o][s] = c => TakenOver(o, s)
        BY <1>0, <1>2, Apart DEF BackInv, Backed, Sits
    <3>2. at'[c] = r /\ role'[c] = q.role
        BY <1>4, <1>6 DEF TakesOn
    <3>3. /\ host'[o] = c => o = r /\ q.role = "host"
          /\ c \in screens'[o] => o = r /\ q.role = "display"
          /\ \A s \in Seats : holder'[o][s] = c => TakenOver(o, s) \/ (o = r /\ s = q.seat)
        BY <1>4, <1>6, <3>1 DEF MovesIn
    <3>4. \A s \in Seats : s = q.seat /\ o = r => Sits(c, o, s)'
        BY <1>4, <1>6, <3>2, Apart DEF Sits, TakesOn
    <3>. QED
        BY <1>8, <2>1, <3>2, <3>3, <3>4 DEF Backed
  <2>2. CASE x # c /\ x \in Replaced(c)
    <3>1. Backed(x, o)
        BY <1>0 DEF BackInv
    <3>. QED
        BY <1>4, <1>5, <1>6, <1>8, <2>2, <3>1 DEF Backed, MovesIn, TakesOn
  <2>3. CASE x # c /\ x \notin Replaced(c)
    <3>1. Backed(x, o)
        BY <1>0 DEF BackInv
    <3>. QED
        BY <1>4, <1>8, <2>3, <3>1 DEF Backed, MovesIn, TakesOn, Sits
  <2>. QED
      BY <2>1, <2>2, <2>3
<1>14. AttachedAreSeated'
  <2>. SUFFICES ASSUME NEW x \in Conns, at'[x] # NoRoom
                PROVE  \/ Occupies(x, at[x])'
                       \/ pc'[x] \in {"arriving", "left"} /\ workRoom'[x] = at'[x]
                       \/ dropPc'[x] = "clearing" /\ dropFrom'[x] = at'[x]
      BY DEF AttachedAreSeated
  <2>1. CASE x = c
    <3>1. at'[c] = r
        BY <1>4, <1>6 DEF TakesOn
    <3>2. /\ q.role = "host" => host'[r] = c
          /\ q.role = "display" => c \in screens'[r]
          /\ q.seat \in Seats => holder'[r][q.seat] = c
        BY <1>2, <1>4, <1>6 DEF MovesIn
    <3>3. \/ host'[r] = c \/ c \in screens'[r] \/ \E s \in Seats : holder'[r][s] = c
        BY <1>6, <3>2 DEF Roles
    <3>. QED
        BY <2>1, <3>1, <3>3 DEF Occupies
  <2>2. CASE x # c
    <3>1. x \notin Replaced(c) /\ at'[x] = at[x] /\ at[x] \in Rooms
        BY <1>0, <1>4, <2>2 DEF TypeOK, TakesOn
    <3>2. Occupies(x, at[x]) => Occupies(x, at[x])'
      <4>. SUFFICES ASSUME NEW o \in Rooms, Occupies(x, o) PROVE Occupies(x, o)'
          BY <3>1
      <4>1. holder[r][q.seat] = x => q.seat \notin Seats
          BY <2>2, <3>1, Apart DEF Replaced, q, r
      <4>. QED
          BY <1>1, <1>4, <1>6, <2>2, <4>1, Apart DEF Occupies, HostFree, MovesIn
    <3>. QED
        BY <1>0, <1>1, <1>3, <2>2, <3>1, <3>2 DEF AttachedAreSeated
  <2>. QED
      BY <2>1, <2>2
<1>. QED
    BY <1>10, <1>11, <1>12, <1>13, <1>14

LEMMA ArrivePlaces ==
    ASSUME PlaceInv, NEW c \in Conns, Arrive(c)
    PROVE  FreshInv' /\ LeaveInv' /\ ToldInv' /\ BackInv' /\ AttachedAreSeated'
<1>. DEFINE q == want[c]
            r == want[c].room
<1>0. TypeOK /\ SoundInv /\ FreshInv /\ LeaveInv /\ ToldInv /\ BackInv /\ AttachedAreSeated /\ AdmitInv
    BY DEF PlaceInv, SoundInv
<1>1. /\ pc[c] = "arriving" /\ Switches(c) /\ Joins(c) /\ Idle(c)
      /\ \E keptId : TakePlace(c, keptId, {})
      /\ mutex' = [mutex EXCEPT ![r] = Nobody] /\ UNCHANGED <<joins, dropPc, dropFrom>>
    BY DEF Arrive, At, dropVars, Switches, Joins
<1>2. /\ q \in Request /\ r \in Rooms /\ mutex[r] = c /\ workRoom[c] # r /\ HostFree(c, q)
      /\ at[c] \in {workRoom[c], NoRoom} /\ ~Occupies(c, workRoom[c]) /\ dropPc[c] = "off" /\ joins[c] # 0
      /\ at[c] # r
      /\ \A x \in Conns : Joins(x) => want[x].room \in Rooms
      /\ \A x \in Conns : Switches(x) /\ x # c => want[x].room # r /\ want[x].room \in Rooms
      /\ \A o \in Rooms : mutex[o] = c => o = r
      /\ \A x \in Conns : pc[x] \in {"arriving", "leaving", "left"} => workRoom[x] \in Rooms
      /\ \A x \in Conns : dropPc[x] # "off" => dropFrom[x] \in Rooms
    BY <1>0, <1>1, RoomsApart, Apart DEF FreshInv, LeaveInv, AdmitInv
<1>3. \A x \in Conns : /\ pc'[x] = IF x = c THEN "idle" ELSE pc[x]
                       /\ x # c => want'[x] = want[x] /\ workRoom'[x] = workRoom[x]
                       /\ Switches(x)' <=> x # c /\ Switches(x)
                       /\ Joins(x)' <=> x # c /\ Joins(x)
    BY <1>0, <1>1, IdlePoint DEF Joins, Switches
<1>4. TakesOn(c, q, {}) /\ MovesIn(c, q) /\ \A x \in Conns : x # c => at'[x] = at[x]
  <2>1. TakesOn(c, q, {}) /\ MovesIn(c, q)
      BY <1>0, <1>1, <1>2, TakePlacePoint
  <2>. QED
      BY <2>1 DEF TakesOn
\* What c still has is a seat that somebody else is taking over.
<1>5. \A o \in Rooms : /\ host[o] # c /\ c \notin screens[o]
                       /\ \A s \in Seats : holder[o][s] = c => TakenOver(o, s)
  <2>. SUFFICES ASSUME NEW o \in Rooms
                PROVE  /\ host[o] # c /\ c \notin screens[o]
                       /\ \A s \in Seats : holder[o][s] = c => TakenOver(o, s)
      OBVIOUS
  <2>1. CASE at[c] = o
      BY <1>2, <2>1, Apart DEF Occupies
  <2>2. CASE at[c] # o
      BY <1>0, <2>2 DEF BackInv, Backed, Sits
  <2>. QED
      BY <2>1, <2>2
<1>6. /\ q.role \in Roles
      /\ q.role = "player" => q.seat \in PlayerSeats
      /\ q.role = "audience" => q.seat \in AudienceSeats
      /\ q.seat \in Seats \cup {NoSeat} /\ (q.seat \in Seats <=> q.role \in {"player", "audience"})
      /\ q.room = r /\ want[c].seat = q.seat /\ want[c].room = r
    BY <1>2, RequestType, Apart DEF Roles
<1>9. \A y \in Conns, s \in Seats : s = q.seat /\ holder[r][s] = y => at[y] # r
    BY <1>0, <1>1 DEF ToldInv
<1>. HIDE DEF q, r
<1>7. \A x \in Conns, o \in Rooms : x # c /\ Occupies(x, o)' => Occupies(x, o)
  <2>. SUFFICES ASSUME NEW x \in Conns, NEW o \in Rooms, x # c, Occupies(x, o)' PROVE Occupies(x, o)
      OBVIOUS
  <2>. QED
      BY <1>4 DEF Occupies, MovesIn
<1>8. \A o \in Rooms, s \in Seats : TakenOver(o, s) => TakenOver(o, s)' \/ (o = r /\ s = q.seat)
  <2>. SUFFICES ASSUME NEW o \in Rooms, NEW s \in Seats, NEW x \in Conns, mutex[o] = x, want[x].seat = s,
                       ~(o = r /\ s = q.seat)
                PROVE  TakenOver(o, s)'
      BY DEF TakenOver
  <2>1. o # r /\ x # c
      BY <1>2, <1>6
  <2>2. mutex'[o] = mutex[o]
      BY <1>0, <1>1, <2>1 DEF TypeOK
  <2>. QED
      BY <1>3, <2>1, <2>2 DEF TakenOver
<1>10. FreshInv'
    BY <1>0, <1>1, <1>2, <1>3, <1>4, Apart DEF FreshInv, OneJoinEach, TakesOn
<1>11. LeaveInv'
  <2>. SUFFICES ASSUME NEW x \in Conns
                PROVE  /\ Switches(x)' \/ pc'[x] \in {"leaving", "left"} => at'[x] \in {workRoom'[x], NoRoom}
                       /\ dropPc'[x] # "off" => at'[x] \in {dropFrom'[x], NoRoom}
                       /\ pc'[x] \in {"arriving", "left"} => ~Occupies(x, workRoom[x])'
                       /\ dropPc'[x] = "clearing" => ~Occupies(x, dropFrom[x])'
      BY DEF LeaveInv
  <2>1. CASE x = c
      BY <1>1, <1>2, <1>3, <2>1
  <2>2. CASE x # c
    <3>1. ~Occupies(x, workRoom[x]) /\ pc[x] \in {"arriving", "left"} => ~Occupies(x, workRoom[x])'
        BY <1>2, <1>3, <1>7, <2>2
    <3>. QED
        BY <1>0, <1>1, <1>2, <1>3, <1>4, <1>7, <2>2, <3>1 DEF LeaveInv
  <2>. QED
      BY <2>1, <2>2
<1>12. ToldInv'
    BY <1>0, <1>1, <1>2, <1>3, <1>4, <1>6, Apart DEF ToldInv, MovesIn, TakesOn
<1>13. BackInv'
  <2>. SUFFICES ASSUME NEW x \in Conns, NEW o \in Rooms PROVE Backed(x, o)'
      BY DEF BackInv
  <2>1. CASE x = c
    <3>2. at'[c] = r /\ role'[c] = q.role
        BY <1>4, <1>6 DEF TakesOn
    <3>3. /\ host'[o] = c => o = r /\ q.role = "host"
          /\ c \in screens'[o] => o = r /\ q.role = "display"
          /\ \A s \in Seats : holder'[o][s] = c => TakenOver(o, s)' \/ (o = r /\ s = q.seat)
        BY <1>4, <1>5, <1>6, <1>8 DEF MovesIn
    <3>4. \A s \in Seats : s = q.seat /\ o = r => Sits(c, o, s)'
        BY <1>4, <1>6, <3>2, Apart DEF Sits, TakesOn
    <3>. QED
        BY <2>1, <3>2, <3>3, <3>4 DEF Backed
  <2>2. CASE x # c
    <3>1. Backed(x, o)
        BY <1>0 DEF BackInv
    <3>2. \A s \in Seats : holder'[o][s] = x => holder[o][s] = x /\ ~(o = r /\ s = q.seat)
        BY <1>4, <1>6, <2>2 DEF MovesIn
    <3>3. \A s \in Seats : Sits(x, o, s) => Sits(x, o, s)'
        BY <1>4, <2>2 DEF TakesOn, Sits
    <3>. QED
        BY <1>4, <1>8, <2>2, <3>1, <3>2, <3>3 DEF Backed, MovesIn, TakesOn
  <2>. QED
      BY <2>1, <2>2
<1>14. AttachedAreSeated'
  <2>. SUFFICES ASSUME NEW x \in Conns, at'[x] # NoRoom
                PROVE  \/ Occupies(x, at[x])'
                       \/ pc'[x] \in {"arriving", "left"} /\ workRoom'[x] = at'[x]
                       \/ dropPc'[x] = "clearing" /\ dropFrom'[x] = at'[x]
      BY DEF AttachedAreSeated
  <2>1. CASE x = c
    <3>1. at'[c] = r
        BY <1>4, <1>6 DEF TakesOn
    <3>2. /\ q.role = "host" => host'[r] = c
          /\ q.role = "display" => c \in screens'[r]
          /\ q.seat \in Seats => holder'[r][q.seat] = c
        BY <1>2, <1>4, <1>6 DEF MovesIn
    <3>3. \/ host'[r] = c \/ c \in screens'[r] \/ \E s \in Seats : holder'[r][s] = c
        BY <1>6, <3>2 DEF Roles
    <3>. QED
        BY <2>1, <3>1, <3>3 DEF Occupies
  <2>2. CASE x # c
    <3>1. at'[x] = at[x] /\ at[x] \in Rooms
        BY <1>0, <1>4, <2>2 DEF TypeOK
    <3>2. Occupies(x, at[x]) => Occupies(x, at[x])'
      <4>. SUFFICES ASSUME NEW o \in Rooms, o = at[x], Occupies(x, o) PROVE Occupies(x, o)'
          BY <3>1
      <4>1. \A s \in Seats : holder[o][s] = x => holder'[o][s] = x
          BY <1>4, <1>6, <1>9 DEF MovesIn
      <4>2. host[o] = x => host'[o] = x
          BY <1>2, <1>4, <1>6, <2>2, Apart DEF HostFree, MovesIn
      <4>. QED
          BY <1>4, <4>1, <4>2 DEF Occupies, MovesIn
    <3>. QED
        BY <1>0, <1>1, <1>3, <2>2, <3>1, <3>2 DEF AttachedAreSeated
  <2>. QED
      BY <2>1, <2>2
<1>. QED
    BY <1>10, <1>11, <1>12, <1>13, <1>14

LEMMA BeginSwitchPlaces ==
    ASSUME PlaceInv, NEW c \in Conns, BeginSwitch(c)
    PROVE  FreshInv' /\ LeaveInv' /\ ToldInv' /\ BackInv' /\ AttachedAreSeated'
<1>. DEFINE q == want[c]
            r == want[c].room
<1>0. TypeOK /\ SoundInv /\ FreshInv /\ LeaveInv /\ ToldInv /\ BackInv /\ AttachedAreSeated
    BY DEF PlaceInv, SoundInv
<1>1. /\ pc[c] = "joining" /\ Free(r) /\ at[c] \notin {r, NoRoom} /\ Move(c, "switching")
      /\ mutex' = [mutex EXCEPT ![r] = c] /\ workRoom' = [workRoom EXCEPT ![c] = at[c]]
      /\ UNCHANGED <<want, joins, role, playerId, dropPc, dropFrom, host, screens, holder>>
      /\ \A x \in Conns : /\ x \in Replaced(c) => at'[x] = NoRoom
                          /\ x \notin Replaced(c) => at'[x] = at[x] /\ audienceId'[x] = audienceId[x]
    BY DEF BeginSwitch, At, dropVars, placeVars
<1>2. /\ q \in Request /\ r \in Rooms /\ dropPc[c] = "off" /\ joins[c] # 0 /\ at[c] \in Rooms
      /\ c \notin Replaced(c) /\ ~OneJoinEach
      /\ \A x \in Conns : Joins(x) => want[x].room \in Rooms
      /\ \A x \in Conns : Switches(x) => x # c /\ want[x].room # r /\ want[x].room \in Rooms
      /\ \A o \in Rooms, x \in Conns : mutex[o] = x => x # c /\ o # r
      /\ \A x \in Conns : pc[x] \in {"arriving", "leaving", "left"} => workRoom[x] \in Rooms
      /\ \A x \in Conns : dropPc[x] # "off" => dropFrom[x] \in Rooms
    BY <1>0, <1>1, RoomsApart, Apart DEF FreshInv, Joins, Switches, Free, Replaced
<1>3. \A x \in Conns : /\ pc'[x] = IF x = c THEN "switching" ELSE pc[x]
                       /\ workRoom'[x] = IF x = c THEN at[c] ELSE workRoom[x]
                       /\ Switches(x)' <=> x = c \/ Switches(x)
                       /\ Joins(x)' <=> x = c \/ Joins(x)
    BY <1>0, <1>1, MovePoint DEF Joins, Switches, TypeOK
<1>4. \A x \in Conns : at'[x] \in {at[x], NoRoom}
    BY <1>1
<1>5. \A y \in Conns : y \in Replaced(c) =>
           /\ q.seat \in Seats /\ holder[r][q.seat] = y
           /\ \A o \in Rooms : /\ host[o] # y /\ y \notin screens[o]
                               /\ \A s \in Seats : Sits(y, o, s) => o = r /\ s = q.seat
    BY <1>0, <1>1, <1>2, ReplacedOnlySits
<1>6. \A y \in Conns, s \in Seats : s = q.seat /\ holder[r][s] = y /\ y # c => y \in Replaced(c)
    BY Apart DEF Replaced
<1>7. \A x \in Conns, o \in Rooms : Occupies(x, o)' <=> Occupies(x, o)
    BY <1>1 DEF Occupies
<1>9. \A x \in Conns : x = c => want[x].room = r /\ want[x].seat = q.seat
    OBVIOUS
<1>8. \A o \in Rooms, s \in Seats : TakenOver(o, s) \/ (o = r /\ s = q.seat) => TakenOver(o, s)'
    BY <1>0, <1>1, <1>2 DEF TakenOver, TypeOK
<1>. HIDE DEF q, r
<1>10. FreshInv'
    BY <1>0, <1>1, <1>2, <1>3, <1>4, <1>9, Apart DEF FreshInv, OneJoinEach
<1>11. LeaveInv'
  <2>. SUFFICES ASSUME NEW x \in Conns
                PROVE  /\ Switches(x)' \/ pc'[x] \in {"leaving", "left"} => at'[x] \in {workRoom'[x], NoRoom}
                       /\ dropPc'[x] # "off" => at'[x] \in {dropFrom'[x], NoRoom}
                       /\ pc'[x] \in {"arriving", "left"} => ~Occupies(x, workRoom[x])'
                       /\ dropPc'[x] = "clearing" => ~Occupies(x, dropFrom[x])'
      BY DEF LeaveInv
  <2>1. CASE x = c
      BY <1>1, <1>2, <1>3, <2>1
  <2>2. CASE x # c
      BY <1>0, <1>1, <1>2, <1>3, <1>4, <1>7, <2>2 DEF LeaveInv
  <2>. QED
      BY <2>1, <2>2
<1>12. ToldInv'
  <2>. SUFFICES ASSUME NEW x \in Conns, NEW y \in Conns, NEW s \in Seats, Switches(x)', want[x].seat = s,
                       holder[want[x].room][s] = y
                PROVE  at'[y] # want[x].room
      BY <1>1 DEF ToldInv
  <2>1. CASE x = c
      BY <1>1, <1>2, <1>6, <1>9, <2>1, Apart
  <2>2. CASE x # c
      BY <1>0, <1>2, <1>3, <1>4, <2>2, Apart DEF ToldInv
  <2>. QED
      BY <2>1, <2>2
<1>13. BackInv'
  <2>. SUFFICES ASSUME NEW x \in Conns, NEW o \in Rooms PROVE Backed(x, o)'
      BY DEF BackInv
  <2>0. Backed(x, o)
      BY <1>0 DEF BackInv
  <2>1. CASE x \in Replaced(c)
      BY <1>1, <1>5, <1>8, <2>0, <2>1 DEF Backed
  <2>2. CASE x \notin Replaced(c)
    <3>1. \A s \in Seats : Sits(x, o, s) => Sits(x, o, s)'
        BY <1>1, <2>2 DEF Sits
    <3>. QED
        BY <1>1, <1>8, <2>0, <2>2, <3>1 DEF Backed
  <2>. QED
      BY <2>1, <2>2
<1>14. AttachedAreSeated'
  <2>. SUFFICES ASSUME NEW x \in Conns, at'[x] # NoRoom
                PROVE  \/ Occupies(x, at[x])'
                       \/ pc'[x] \in {"arriving", "left"} /\ workRoom'[x] = at'[x]
                       \/ dropPc'[x] = "clearing" /\ dropFrom'[x] = at'[x]
      BY DEF AttachedAreSeated
  <2>1. at'[x] = at[x] /\ at[x] \in Rooms
      BY <1>0, <1>4 DEF TypeOK
  <2>2. Occupies(x, at[x]) => Occupies(x, at[x])'
      BY <1>1, <2>1 DEF Occupies
  <2>3. x = c => pc[x] \notin {"arriving", "left"}
      BY <1>1
  <2>. QED
      BY <1>0, <1>1, <1>3, <2>1, <2>2, <2>3 DEF AttachedAreSeated
<1>. QED
    BY <1>10, <1>11, <1>12, <1>13, <1>14

\* Nobody moves in, and whoever loses a place in room r no longer is there.
MovesOut(r) ==
    \A x \in Conns, o \in Rooms :
        /\ host'[o] = x => host[o] = x
        /\ x \in screens'[o] => x \in screens[o]
        /\ \A s \in Seats : holder'[o][s] = x => holder[o][s] = x
        /\ o # r => (Occupies(x, o) => Occupies(x, o)')

LEMMA VacateMovesOut ==
    ASSUME TypeOK, BackInv, NEW c \in Conns, NEW r \in Rooms, Free(r), Vacate(c, r)
    PROVE  /\ MovesOut(r) /\ ~Occupies(c, r)'
           /\ \A x \in Conns, o \in Rooms : x # c /\ Occupies(x, o) => Occupies(x, o)'
<1>1. \A o \in Rooms :
           /\ host'[o] = IF o = r /\ host[o] = c THEN Nobody ELSE host[o]
           /\ screens'[o] = IF o = r THEN screens[o] \ {c} ELSE screens[o]
           /\ \A s \in Seats : holder'[o][s] = IF o = r /\ holder[o][s] = c THEN Nobody ELSE holder[o][s]
    BY VacateEmpties
<1>2. ~Occupies(c, r)'
    BY <1>1, Apart DEF Occupies
<1>3. \A x \in Conns, o \in Rooms : x # c /\ Occupies(x, o) => Occupies(x, o)'
    BY <1>1, Apart DEF Occupies
<1>4. MovesOut(r)
    BY <1>1, Apart DEF MovesOut, Occupies
<1>. QED
    BY <1>2, <1>3, <1>4

\* Moving out leaves the rest in order.
LEMMA MovedOut ==
    ASSUME BackInv, LeaveInv, ToldInv, SoundInv, NEW r \in Rooms, MovesOut(r),
           UNCHANGED <<want, mutex, at, role, playerId, audienceId>>
    PROVE  /\ BackInv'
           /\ \A x \in Conns, o \in Rooms : ~Occupies(x, o) => ~Occupies(x, o)'
           /\ (\A x \in Conns : Switches(x)' => Switches(x)) => ToldInv'
<1>1. \A x \in Conns, o \in Rooms : ~Occupies(x, o) => ~Occupies(x, o)'
    BY DEF MovesOut, Occupies
<1>2. \A o \in Rooms, s \in Seats : TakenOver(o, s) => TakenOver(o, s)'
    BY DEF TakenOver
<1>3. BackInv'
    BY <1>2 DEF BackInv, Backed, MovesOut, Sits
<1>4. (\A x \in Conns : Switches(x)' => Switches(x)) => ToldInv'
    BY RoomsApart DEF ToldInv, MovesOut
<1>. QED
    BY <1>1, <1>3, <1>4

LEMMA LeavePlaces ==
    ASSUME PlaceInv, NEW c \in Conns, LeaveOld(c) \/ LeaveAtEnd(c)
    PROVE  FreshInv' /\ LeaveInv' /\ ToldInv' /\ BackInv' /\ AttachedAreSeated'
<1>. DEFINE r == workRoom[c]
<1>0. TypeOK /\ SoundInv /\ FreshInv /\ LeaveInv /\ ToldInv /\ BackInv /\ AttachedAreSeated
    BY DEF PlaceInv, SoundInv
<1>1. /\ Free(r) /\ Vacate(c, r) /\ UNCHANGED <<want, mutex, at, role, playerId, audienceId>>
      /\ UNCHANGED <<workRoom, joins, dropPc, dropFrom>>
      /\ \E step \in {"arriving", "left"} :
             /\ Move(c, step) /\ pc[c] = IF step = "arriving" THEN "switching" ELSE "leaving"
    BY DEF LeaveOld, LeaveAtEnd, At, dropVars, connVars
<1>2. /\ r \in Rooms /\ at[c] \in {r, NoRoom}
      /\ \A x \in Conns : pc[x] \in {"arriving", "leaving", "left"} => workRoom[x] \in Rooms
      /\ \A x \in Conns : dropPc[x] # "off" => dropFrom[x] \in Rooms
    BY <1>0, <1>1, RoomsApart DEF LeaveInv, Switches
<1>3. \A x \in Conns : /\ x = c => pc[x] \in {"switching", "leaving"} /\ pc'[x] \in {"arriving", "left"}
                       /\ x # c => pc'[x] = pc[x]
                       /\ Switches(x)' <=> Switches(x)
                       /\ Joins(x)' <=> Joins(x)
                       /\ pc'[x] = "joining" => pc[x] = "joining"
    BY <1>0, <1>1, MovePoint DEF Switches, Joins
<1>4. /\ MovesOut(r) /\ ~Occupies(c, r)'
      /\ \A x \in Conns, o \in Rooms : x # c /\ Occupies(x, o) => Occupies(x, o)'
    BY <1>0, <1>1, <1>2, VacateMovesOut
<1>5. BackInv' /\ ToldInv' /\ \A x \in Conns, o \in Rooms : ~Occupies(x, o) => ~Occupies(x, o)'
    BY <1>0, <1>1, <1>2, <1>3, <1>4, MovedOut
<1>10. FreshInv'
    BY <1>0, <1>1, <1>3 DEF FreshInv, OneJoinEach
<1>11. LeaveInv'
  <2>. SUFFICES ASSUME NEW x \in Conns
                PROVE  /\ Switches(x)' \/ pc'[x] \in {"leaving", "left"} => at'[x] \in {workRoom'[x], NoRoom}
                       /\ dropPc'[x] # "off" => at'[x] \in {dropFrom'[x], NoRoom}
                       /\ pc'[x] \in {"arriving", "left"} => ~Occupies(x, workRoom[x])'
                       /\ dropPc'[x] = "clearing" => ~Occupies(x, dropFrom[x])'
      BY DEF LeaveInv
  <2>1. dropPc'[x] = "clearing" => ~Occupies(x, dropFrom[x])'
      BY <1>0, <1>1, <1>2, <1>5 DEF LeaveInv
  <2>2. CASE x = c
      BY <1>0, <1>1, <1>2, <1>3, <1>4, <2>1, <2>2 DEF LeaveInv
  <2>3. CASE x # c
      BY <1>0, <1>1, <1>2, <1>3, <1>5, <2>1, <2>3 DEF LeaveInv
  <2>. QED
      BY <2>2, <2>3
<1>14. AttachedAreSeated'
  <2>. SUFFICES ASSUME NEW x \in Conns, at'[x] # NoRoom
                PROVE  \/ Occupies(x, at[x])'
                       \/ pc'[x] \in {"arriving", "left"} /\ workRoom'[x] = at'[x]
                       \/ dropPc'[x] = "clearing" /\ dropFrom'[x] = at'[x]
      BY DEF AttachedAreSeated
  <2>1. CASE x = c
      BY <1>1, <1>2, <1>3, <2>1
  <2>2. CASE x # c
    <3>1. at'[x] = at[x] /\ at[x] \in Rooms
        BY <1>0, <1>1 DEF TypeOK
    <3>. QED
        BY <1>0, <1>1, <1>3, <1>4, <2>2, <3>1 DEF AttachedAreSeated
  <2>. QED
      BY <2>1, <2>2
<1>. QED
    BY <1>5, <1>10, <1>11, <1>14

LEMMA DropLeavesPlaces ==
    ASSUME PlaceInv, NEW c \in Conns, DropLeaves(c)
    PROVE  FreshInv' /\ LeaveInv' /\ ToldInv' /\ BackInv' /\ AttachedAreSeated'
<1>. DEFINE r == dropFrom[c]
<1>0. TypeOK /\ SoundInv /\ FreshInv /\ LeaveInv /\ ToldInv /\ BackInv /\ AttachedAreSeated
    BY DEF PlaceInv, SoundInv
<1>1. /\ Free(r) /\ Vacate(c, r) /\ UNCHANGED <<want, mutex, at, role, playerId, audienceId>>
      /\ UNCHANGED <<pc, workRoom, joins, dropFrom>>
      /\ dropPc[c] = "leaving" /\ dropPc' = [dropPc EXCEPT ![c] = "clearing"]
    BY DEF DropLeaves, readerVars, connVars
<1>2. /\ r \in Rooms /\ at[c] \in {r, NoRoom}
      /\ \A x \in Conns : pc[x] \in {"arriving", "leaving", "left"} => workRoom[x] \in Rooms
      /\ \A x \in Conns : dropPc[x] # "off" => dropFrom[x] \in Rooms
    BY <1>0, <1>1, RoomsApart DEF LeaveInv
<1>3. \A x \in Conns : /\ dropPc'[x] = IF x = c THEN "clearing" ELSE dropPc[x]
                       /\ Switches(x)' <=> Switches(x)
                       /\ Joins(x)' <=> Joins(x)
    BY <1>0, <1>1 DEF Switches, Joins, TypeOK
<1>4. /\ MovesOut(r) /\ ~Occupies(c, r)'
      /\ \A x \in Conns, o \in Rooms : x # c /\ Occupies(x, o) => Occupies(x, o)'
    BY <1>0, <1>1, <1>2, VacateMovesOut
<1>5. BackInv' /\ ToldInv' /\ \A x \in Conns, o \in Rooms : ~Occupies(x, o) => ~Occupies(x, o)'
    BY <1>0, <1>1, <1>2, <1>3, <1>4, MovedOut
<1>10. FreshInv'
    BY <1>0, <1>1, <1>3 DEF FreshInv, OneJoinEach
<1>11. LeaveInv'
  <2>. SUFFICES ASSUME NEW x \in Conns
                PROVE  /\ Switches(x)' \/ pc'[x] \in {"leaving", "left"} => at'[x] \in {workRoom'[x], NoRoom}
                       /\ dropPc'[x] # "off" => at'[x] \in {dropFrom'[x], NoRoom}
                       /\ pc'[x] \in {"arriving", "left"} => ~Occupies(x, workRoom[x])'
                       /\ dropPc'[x] = "clearing" => ~Occupies(x, dropFrom[x])'
      BY DEF LeaveInv
  <2>1. pc'[x] \in {"arriving", "left"} => ~Occupies(x, workRoom[x])'
      BY <1>0, <1>1, <1>2, <1>5 DEF LeaveInv
  <2>2. dropPc'[x] = "clearing" => ~Occupies(x, dropFrom[x])'
    <3>1. CASE x = c
        BY <1>1, <1>4, <3>1
    <3>2. CASE x # c
        BY <1>0, <1>1, <1>2, <1>3, <1>5, <3>2 DEF LeaveInv
    <3>. QED
        BY <3>1, <3>2
  <2>. QED
      BY <1>0, <1>1, <1>2, <1>3, <2>1, <2>2 DEF LeaveInv
<1>14. AttachedAreSeated'
  <2>. SUFFICES ASSUME NEW x \in Conns, at'[x] # NoRoom
                PROVE  \/ Occupies(x, at[x])'
                       \/ pc'[x] \in {"arriving", "left"} /\ workRoom'[x] = at'[x]
                       \/ dropPc'[x] = "clearing" /\ dropFrom'[x] = at'[x]
      BY DEF AttachedAreSeated
  <2>1. CASE x = c
      BY <1>1, <1>2, <1>3, <2>1
  <2>2. CASE x # c
    <3>1. at'[x] = at[x] /\ at[x] \in Rooms
        BY <1>0, <1>1 DEF TypeOK
    <3>. QED
        BY <1>0, <1>1, <1>3, <1>4, <2>2, <3>1 DEF AttachedAreSeated
  <2>. QED
      BY <2>1, <2>2
<1>. QED
    BY <1>5, <1>10, <1>11, <1>14

\* A connection that has given up its places is in no room once it is cleared.
LEMMA ClearPlaces ==
    ASSUME PlaceInv, NEW c \in Conns, Close(c) \/ DropCloses(c)
    PROVE  FreshInv' /\ LeaveInv' /\ ToldInv' /\ BackInv' /\ AttachedAreSeated'
<1>0. TypeOK /\ SoundInv /\ FreshInv /\ LeaveInv /\ ToldInv /\ BackInv /\ AttachedAreSeated
    BY DEF PlaceInv, SoundInv
<1>1. /\ UNCHANGED <<want, joins, mutex, role, playerId, host, screens, holder>>
      /\ \E r \in {workRoom[c], dropFrom[c]} :
             /\ Clear(c, r) /\ r \in Rooms /\ at[c] \in {r, NoRoom} /\ ~Occupies(c, r)
  <2>1. CASE Close(c)
      BY <1>0, <2>1, RoomsApart DEF Close, At, LeaveInv, placeVars
  <2>2. CASE DropCloses(c)
      BY <1>0, <2>2, RoomsApart DEF DropCloses, LeaveInv, placeVars, readerVars
  <2>. QED
      BY <2>1, <2>2
<1>2. PICK r \in {workRoom[c], dropFrom[c]} :
             Clear(c, r) /\ r \in Rooms /\ at[c] \in {r, NoRoom} /\ ~Occupies(c, r)
    BY <1>1
<1>3. /\ at'[c] = NoRoom
      /\ \A x \in Conns : x # c => at'[x] = at[x] /\ audienceId'[x] = audienceId[x]
    BY <1>0, <1>2 DEF Clear, TypeOK
<1>4. \A x \in Conns : /\ pc'[x] # pc[x] => pc'[x] = "closed" /\ pc[x] = "left"
                       /\ workRoom'[x] = workRoom[x] \/ pc'[x] = "closed"
                       /\ Switches(x)' <=> Switches(x)
                       /\ Joins(x)' <=> Joins(x)
                       /\ x # c => pc'[x] = pc[x] /\ workRoom'[x] = workRoom[x]
  <2>1. CASE Close(c)
      BY <1>0, <2>1, MovePoint DEF Close, At, Switches, Joins, TypeOK
  <2>2. CASE DropCloses(c)
      BY <2>2 DEF DropCloses, readerVars, Switches, Joins
  <2>. QED
      BY <2>1, <2>2
<1>5. \A x \in Conns : /\ dropPc'[x] # "off" => dropPc'[x] = dropPc[x] /\ dropFrom'[x] = dropFrom[x]
                       /\ x # c => dropPc'[x] = dropPc[x] /\ dropFrom'[x] = dropFrom[x]
                       /\ dropPc[x] = "off" => dropPc'[x] = "off"
  <2>1. CASE Close(c)
      BY <2>1 DEF Close, dropVars
  <2>2. CASE DropCloses(c)
      BY <1>0, <2>2 DEF DropCloses, TypeOK
  <2>. QED
      BY <2>1, <2>2
<1>6. \A x \in Conns, o \in Rooms : Occupies(x, o)' <=> Occupies(x, o)
    BY <1>1 DEF Occupies
<1>7. \A o \in Rooms, s \in Seats : TakenOver(o, s) => TakenOver(o, s)'
    BY <1>1 DEF TakenOver
<1>8. /\ \A x \in Conns : pc[x] \in {"arriving", "leaving", "left"} => workRoom[x] \in Rooms
      /\ \A x \in Conns : dropPc[x] # "off" => dropFrom[x] \in Rooms
      /\ \A x \in Conns : Joins(x) => want[x].room \in Rooms
      /\ \A x \in Conns : Switches(x) => want[x].room \in Rooms
    BY <1>0, RoomsApart
<1>10. FreshInv'
    BY <1>0, <1>1, <1>3, <1>4, <1>5, <1>8, Apart DEF FreshInv, OneJoinEach
<1>11. LeaveInv'
  <2>. SUFFICES ASSUME NEW x \in Conns
                PROVE  /\ Switches(x)' \/ pc'[x] \in {"leaving", "left"} => at'[x] \in {workRoom'[x], NoRoom}
                       /\ dropPc'[x] # "off" => at'[x] \in {dropFrom'[x], NoRoom}
                       /\ pc'[x] \in {"arriving", "left"} => ~Occupies(x, workRoom[x])'
                       /\ dropPc'[x] = "clearing" => ~Occupies(x, dropFrom[x])'
      BY DEF LeaveInv
  <2>1. pc'[x] \in {"arriving", "left"} => ~Occupies(x, workRoom[x])'
      BY <1>0, <1>4, <1>6, <1>8 DEF LeaveInv
  <2>2. dropPc'[x] = "clearing" => ~Occupies(x, dropFrom[x])'
      BY <1>0, <1>5, <1>6, <1>8 DEF LeaveInv
  <2>3. Switches(x)' \/ pc'[x] \in {"leaving", "left"} => at'[x] \in {workRoom'[x], NoRoom}
      BY <1>0, <1>3, <1>4 DEF LeaveInv, Switches
  <2>4. dropPc'[x] # "off" => at'[x] \in {dropFrom'[x], NoRoom}
      BY <1>0, <1>3, <1>5 DEF LeaveInv
  <2>. QED
      BY <2>1, <2>2, <2>3, <2>4
<1>12. ToldInv'
    BY <1>0, <1>1, <1>3, <1>4, <1>8, Apart DEF ToldInv
<1>13. BackInv'
  <2>. SUFFICES ASSUME NEW x \in Conns, NEW o \in Rooms PROVE Backed(x, o)'
      BY DEF BackInv
  <2>0. Backed(x, o)
      BY <1>0 DEF BackInv
  <2>1. CASE x = c
    <3>1. at[c] = o => ~Occupies(c, o)
        BY <1>2, Apart
    <3>. QED
        BY <1>1, <1>7, <2>0, <2>1, <3>1 DEF Backed, Sits, Occupies
  <2>2. CASE x # c
      BY <1>1, <1>3, <1>7, <2>0, <2>2 DEF Backed, Sits
  <2>. QED
      BY <2>1, <2>2
<1>14. AttachedAreSeated'
  <2>. SUFFICES ASSUME NEW x \in Conns, at'[x] # NoRoom
                PROVE  \/ Occupies(x, at[x])'
                       \/ pc'[x] \in {"arriving", "left"} /\ workRoom'[x] = at'[x]
                       \/ dropPc'[x] = "clearing" /\ dropFrom'[x] = at'[x]
      BY DEF AttachedAreSeated
  <2>1. x # c /\ at'[x] = at[x] /\ at[x] \in Rooms
      BY <1>0, <1>3 DEF TypeOK
  <2>. QED
      BY <1>0, <1>4, <1>5, <1>6, <2>1 DEF AttachedAreSeated
<1>. QED
    BY <1>10, <1>11, <1>12, <1>13, <1>14

LEMMA KickPlaces ==
    ASSUME PlaceInv, NEW c \in Conns, NEW t \in PlayerSeats, InputKick(c, t)
    PROVE  FreshInv' /\ LeaveInv' /\ ToldInv' /\ BackInv' /\ AttachedAreSeated'
<1>. DEFINE r == workRoom[c]
            victim == holder[r][t]
<1>0. TypeOK /\ SoundInv /\ FreshInv /\ LeaveInv /\ ToldInv /\ BackInv /\ AttachedAreSeated /\ LockInv
    BY DEF PlaceInv, SoundInv
<1>1. /\ pc[c] = "applying" /\ Free(r) /\ Idle(c) /\ r \in Rooms /\ t \in Seats
      /\ UNCHANGED <<joins, mutex, role, audienceId, host, screens, dropPc, dropFrom>>
      /\ \A x \in Conns : /\ at'[x] = IF x = victim THEN NoRoom ELSE at[x]
                          /\ x # victim => playerId'[x] = playerId[x]
    BY <1>0, Apart DEF InputKick, Deliver, At, dropVars, LockInv
<1>2. \A o \in Rooms, s \in Seats : holder'[o][s] = IF o = r /\ s = t THEN Nobody ELSE holder[o][s]
    BY <1>0, <1>1 DEF InputKick, TypeOK
<1>3. \A x \in Conns : /\ x = c => pc'[x] = "idle"
                       /\ x # c => want'[x] = want[x] /\ workRoom'[x] = workRoom[x] /\ pc'[x] = pc[x]
                       /\ Switches(x)' <=> Switches(x)
                       /\ Joins(x)' <=> Joins(x)
                       /\ Switches(x) => x # c
                       /\ Joins(x) => x # c
    BY <1>0, <1>1, IdlePoint DEF Joins, Switches
<1>4. /\ \A x \in Conns : Joins(x) => want[x].room \in Rooms
      /\ \A x \in Conns : Switches(x) => want[x].room \in Rooms /\ want[x].room # r
      /\ \A o \in Rooms, x \in Conns : mutex[o] = x => Switches(x)
      /\ \A x \in Conns : pc[x] \in {"arriving", "leaving", "left"} => workRoom[x] \in Rooms
      /\ \A x \in Conns : dropPc[x] # "off" => dropFrom[x] \in Rooms
    BY <1>0, <1>1, RoomsApart
<1>5. \A x \in Conns, o \in Rooms : Occupies(x, o)' => Occupies(x, o)
    BY <1>1, <1>2, Apart DEF Occupies
<1>6. \A o \in Rooms, s \in Seats : TakenOver(o, s) => TakenOver(o, s)'
    BY <1>1, <1>3, <1>4 DEF TakenOver
\* The victim sits nowhere else.
<1>7. \A x \in Conns : x = victim =>
          \A o \in Rooms : /\ host[o] # x /\ x \notin screens[o]
                           /\ \A s \in Seats : Sits(x, o, s) => o = r /\ s = t
  <2>. SUFFICES ASSUME NEW x \in Conns, x = victim, NEW o \in Rooms
                PROVE  /\ host[o] # x /\ x \notin screens[o]
                       /\ \A s \in Seats : Sits(x, o, s) => o = r /\ s = t
      OBVIOUS
  <2>1. Sits(x, r, t)
      BY <1>0, <1>1, FreeBacked
  <2>2. role[x] = "player" /\ at[x] = r /\ playerId[x] = t
      BY <2>1 DEF Sits
  <2>3. host[o] # x /\ x \notin screens[o]
      BY <1>0, <2>2 DEF BackInv, Backed
  <2>. QED
      BY <2>2, <2>3 DEF Sits
<1>. HIDE DEF r, victim
<1>10. FreshInv'
    BY <1>0, <1>1, <1>3, <1>4, Apart DEF FreshInv, OneJoinEach
<1>11. LeaveInv'
  <2>. SUFFICES ASSUME NEW x \in Conns
                PROVE  /\ Switches(x)' \/ pc'[x] \in {"leaving", "left"} => at'[x] \in {workRoom'[x], NoRoom}
                       /\ dropPc'[x] # "off" => at'[x] \in {dropFrom'[x], NoRoom}
                       /\ pc'[x] \in {"arriving", "left"} => ~Occupies(x, workRoom[x])'
                       /\ dropPc'[x] = "clearing" => ~Occupies(x, dropFrom[x])'
      BY DEF LeaveInv
  <2>1. pc'[x] \in {"arriving", "left"} => ~Occupies(x, workRoom[x])'
      BY <1>0, <1>3, <1>4, <1>5 DEF LeaveInv
  <2>2. dropPc'[x] = "clearing" => ~Occupies(x, dropFrom[x])'
      BY <1>0, <1>1, <1>4, <1>5 DEF LeaveInv
  <2>. QED
      BY <1>0, <1>1, <1>3, <2>1, <2>2 DEF LeaveInv
<1>12. ToldInv'
    BY <1>0, <1>1, <1>2, <1>3, <1>4, Apart DEF ToldInv
<1>13. BackInv'
  <2>. SUFFICES ASSUME NEW x \in Conns, NEW o \in Rooms PROVE Backed(x, o)'
      BY DEF BackInv
  <2>0. Backed(x, o)
      BY <1>0 DEF BackInv
  <2>1. CASE x = victim
    <3>1. \A s \in Seats : holder'[o][s] = x => holder[o][s] = x /\ ~(o = r /\ s = t)
        BY <1>2, Apart
    <3>. QED
        BY <1>1, <1>6, <1>7, <2>0, <2>1, <3>1 DEF Backed
  <2>2. CASE x # victim
      BY <1>1, <1>2, <1>6, <2>0, <2>2, Apart DEF Backed, Sits
  <2>. QED
      BY <2>1, <2>2
<1>14. AttachedAreSeated'
  <2>. SUFFICES ASSUME NEW x \in Conns, at'[x] # NoRoom
                PROVE  \/ Occupies(x, at[x])'
                       \/ pc'[x] \in {"arriving", "left"} /\ workRoom'[x] = at'[x]
                       \/ dropPc'[x] = "clearing" /\ dropFrom'[x] = at'[x]
      BY DEF AttachedAreSeated
  <2>1. x # victim /\ at'[x] = at[x] /\ at[x] \in Rooms
      BY <1>0, <1>1 DEF TypeOK
  <2>2. Occupies(x, at[x]) => Occupies(x, at[x])'
    <3>. SUFFICES ASSUME NEW o \in Rooms, Occupies(x, o) PROVE Occupies(x, o)'
        BY <2>1
    <3>1. \A s \in Seats : holder[o][s] = x => holder'[o][s] = x
        BY <1>2, <2>1 DEF victim
    <3>. QED
        BY <1>1, <3>1 DEF Occupies
  <2>3. x = c => pc[x] \notin {"arriving", "left"}
      BY <1>1
  <2>. QED
      BY <1>0, <1>1, <1>3, <2>1, <2>2, <2>3 DEF AttachedAreSeated
<1>. QED
    BY <1>10, <1>11, <1>12, <1>13, <1>14

\* A step that touches no place: it may begin to leave a room, or end a call.
Begins(x) ==
    /\ Switches(x)' <=> Switches(x)
    /\ Switches(x) => want'[x] = want[x]
    /\ pc'[x] \in {"arriving", "left"} <=> pc[x] \in {"arriving", "left"}
    /\ Switches(x) \/ pc'[x] \in {"leaving", "left"} =>
           \/ pc'[x] = pc[x] /\ workRoom'[x] = workRoom[x]
           \/ pc'[x] = "leaving" /\ workRoom'[x] = at[x]
    /\ \/ dropPc'[x] = dropPc[x] /\ dropFrom'[x] = dropFrom[x]
       \/ dropPc[x] = "off" /\ dropPc'[x] = "leaving" /\ dropFrom'[x] = at[x]

LEMMA StillPlaces ==
    ASSUME PlaceInv, UNCHANGED <<host, screens, holder, at, role, playerId, audienceId, mutex>>,
           \A x \in Conns : Begins(x)
    PROVE  LeaveInv' /\ ToldInv' /\ BackInv' /\ AttachedAreSeated'
<1>0. TypeOK /\ SoundInv /\ LeaveInv /\ ToldInv /\ BackInv /\ AttachedAreSeated
    BY DEF PlaceInv, SoundInv
<1>4. /\ \A o \in Rooms, x \in Conns : mutex[o] = x => Switches(x)
      /\ \A x \in Conns : pc[x] \in {"arriving", "leaving", "left"} => workRoom[x] \in Rooms
      /\ \A x \in Conns : dropPc[x] # "off" => dropFrom[x] \in Rooms
    BY <1>0, RoomsApart
<1>5. \A x \in Conns, o \in Rooms : Occupies(x, o)' <=> Occupies(x, o)
    BY DEF Occupies
<1>6. \A o \in Rooms, s \in Seats : TakenOver(o, s) => TakenOver(o, s)'
    BY <1>4 DEF TakenOver, Begins
<1>11. LeaveInv'
  <2>. SUFFICES ASSUME NEW x \in Conns
                PROVE  /\ Switches(x)' \/ pc'[x] \in {"leaving", "left"} => at'[x] \in {workRoom'[x], NoRoom}
                       /\ dropPc'[x] # "off" => at'[x] \in {dropFrom'[x], NoRoom}
                       /\ pc'[x] \in {"arriving", "left"} => ~Occupies(x, workRoom[x])'
                       /\ dropPc'[x] = "clearing" => ~Occupies(x, dropFrom[x])'
      BY DEF LeaveInv
  <2>0. Begins(x) /\ (pc[x] = "arriving" => Switches(x))
      BY DEF Switches
  <2>1. pc'[x] \in {"arriving", "left"} => pc[x] \in {"arriving", "left"} /\ workRoom'[x] = workRoom[x]
      BY <2>0 DEF Begins, Switches
  <2>2. dropPc'[x] = "clearing" => dropPc[x] = "clearing" /\ dropFrom'[x] = dropFrom[x]
      BY <2>0 DEF Begins
  <2>3. Switches(x)' \/ pc'[x] \in {"leaving", "left"} => at'[x] \in {workRoom'[x], NoRoom}
      BY <1>0, <2>0 DEF LeaveInv, Begins
  <2>4. dropPc'[x] # "off" => at'[x] \in {dropFrom'[x], NoRoom}
      BY <1>0, <2>0 DEF LeaveInv, Begins
  <2>. QED
      BY <1>0, <1>4, <1>5, <2>1, <2>2, <2>3, <2>4 DEF LeaveInv
<1>12. ToldInv'
    BY <1>0 DEF ToldInv, Begins
<1>13. BackInv'
    BY <1>0, <1>6 DEF BackInv, Backed, Sits
<1>14. AttachedAreSeated'
  <2>. SUFFICES ASSUME NEW x \in Conns, at'[x] # NoRoom
                PROVE  \/ Occupies(x, at[x])'
                       \/ pc'[x] \in {"arriving", "left"} /\ workRoom'[x] = at'[x]
                       \/ dropPc'[x] = "clearing" /\ dropFrom'[x] = at'[x]
      BY DEF AttachedAreSeated
  <2>1. at'[x] = at[x] /\ at[x] \in Rooms /\ Begins(x) /\ (pc[x] = "arriving" => Switches(x))
      BY <1>0 DEF TypeOK, Switches
  <2>2. pc[x] \in {"arriving", "left"} => pc'[x] \in {"arriving", "left"} /\ workRoom'[x] = workRoom[x]
      BY <2>1 DEF Begins, Switches
  <2>3. dropPc[x] = "clearing" => dropPc'[x] = "clearing" /\ dropFrom'[x] = dropFrom[x]
      BY <2>1 DEF Begins
  <2>. QED
      BY <1>0, <1>5, <2>1, <2>2, <2>3 DEF AttachedAreSeated
<1>. QED
    BY <1>11, <1>12, <1>13, <1>14

\* A socket joins once, or else is not in the room it asks for and never dropped.
LEMMA JoinPlaces ==
    ASSUME PlaceInv, SteadySockets, NEW c \in Conns, NEW q \in Request, pc[c] = "idle",
           MayJoin(c, q.room), Move(c, "joining"), want' = [want EXCEPT ![c] = q],
           joins' = [joins EXCEPT ![c] = @ + 1],
           UNCHANGED <<workRoom, connVars, dropVars, placeVars, mutex>>
    PROVE  FreshInv' /\ LeaveInv' /\ ToldInv' /\ BackInv' /\ AttachedAreSeated'
<1>. USE DEF connVars, dropVars, placeVars
<1>0. TypeOK /\ FreshInv
    BY DEF PlaceInv, SoundInv
<1>1. /\ \A x \in Conns : /\ pc'[x] = IF x = c THEN "joining" ELSE pc[x]
                          /\ want'[x] = IF x = c THEN q ELSE want[x]
                          /\ x # c => joins'[x] = joins[x]
      /\ joins'[c] = joins[c] + 1 /\ joins[c] \in Nat /\ q.room \in Rooms
    BY <1>0, MovePoint, RequestType DEF TypeOK
<1>2. at[c] # q.room /\ dropPc[c] = "off" /\ (OneJoinEach => at[c] = NoRoom)
  <2>1. CASE OneJoinEach
    <3>1. MaxJoins[c] \in Nat /\ MaxJoins[c] <= 1 /\ joins[c] < MaxJoins[c]
        BY <2>1, SeatAssumption DEF OneJoinEach, MayJoin
    <3>2. joins[c] = 0
        BY <1>1, <3>1
    <3>. QED
        BY <1>0, <1>1, <2>1, <3>2, Apart DEF FreshInv
  <2>2. CASE MaxDrops = 0 /\ ~JoinsOwnRoom /\ ~OneJoinEach
      BY <1>0, <2>2 DEF FreshInv, MayJoin
  <2>. QED
      BY <2>1, <2>2 DEF SteadySockets
<1>3. joins'[c] # 0
    BY <1>1
<1>4. FreshInv'
    BY <1>0, <1>1, <1>2, <1>3 DEF FreshInv, OneJoinEach, Joins, Switches
<1>5. \A x \in Conns : Begins(x)
    BY <1>1 DEF Begins, Switches
<1>. QED
    BY <1>4, <1>5, StillPlaces

LEMMA DropPlaces ==
    ASSUME PlaceInv, SteadySockets, NEW c \in Conns, Drop(c)
    PROVE  FreshInv' /\ LeaveInv' /\ ToldInv' /\ BackInv' /\ AttachedAreSeated'
<1>0. TypeOK /\ FreshInv
    BY DEF PlaceInv, SoundInv
<1>1. /\ UNCHANGED <<host, screens, holder, at, role, playerId, audienceId, mutex>>
      /\ UNCHANGED <<pc, want, workRoom, joins>>
      /\ drops[c] < MaxDrops /\ dropPc[c] = "off"
    BY DEF Drop, readerVars, placeVars
<1>2. \/ UNCHANGED <<dropPc, dropFrom>>
      \/ /\ at[c] # NoRoom
         /\ dropFrom' = [dropFrom EXCEPT ![c] = at[c]]
         /\ dropPc' = [dropPc EXCEPT ![c] = "leaving"]
    BY DEF Drop
<1>3. \A x \in Conns : \/ dropPc'[x] = dropPc[x] /\ dropFrom'[x] = dropFrom[x]
                       \/ x = c /\ at[x] # NoRoom /\ dropPc'[x] = "leaving" /\ dropFrom'[x] = at[x]
    BY <1>0, <1>2 DEF TypeOK
<1>4. MaxDrops # 0
    BY <1>0, <1>1, SeatAssumption DEF TypeOK
<1>5. OneJoinEach
    BY <1>4 DEF SteadySockets
<1>6. FreshInv'
  <2>1. \A x \in Conns : Joins(x) \/ joins[x] = 0 => dropPc'[x] = "off"
      BY <1>0, <1>3, <1>5 DEF FreshInv, Joins, Switches
  <2>. QED
      BY <1>0, <1>1, <1>4, <2>1 DEF FreshInv, OneJoinEach, Joins, Switches
<1>7. \A x \in Conns : Begins(x)
    BY <1>1, <1>3 DEF Begins, Switches
<1>. QED
    BY <1>1, <1>6, <1>7, StillPlaces

LEMMA QuietPlaces ==
    ASSUME PlaceInv, UNCHANGED <<host, screens, holder, at, role, playerId, audienceId, mutex>>,
           UNCHANGED <<joins, dropPc, dropFrom>>,
           NEW c \in Conns, pc[c] \in {"idle", "joining", "input", "applying"},
           \/ Idle(c)
           \/ Move(c, "input") /\ UNCHANGED <<want, workRoom>>
           \/ /\ pc[c] \in {"idle", "input"} /\ UNCHANGED want
              /\ workRoom' = [workRoom EXCEPT ![c] = at[c]]
              /\ \E step \in {"applying", "leaving", "closed"} : Move(c, step)
    PROVE  FreshInv' /\ LeaveInv' /\ ToldInv' /\ BackInv' /\ AttachedAreSeated'
<1>0. TypeOK /\ FreshInv
    BY DEF PlaceInv, SoundInv
<1>1. \A x \in Conns :
         /\ x # c => pc'[x] = pc[x] /\ want'[x] = want[x] /\ workRoom'[x] = workRoom[x]
         /\ x = c => /\ pc'[x] \in {"idle", "input", "applying", "leaving", "closed"}
                     /\ pc'[x] = "leaving" => workRoom'[x] = at[x]
  <2>1. CASE Idle(c)
      BY <1>0, <2>1, IdlePoint
  <2>2. CASE Move(c, "input") /\ UNCHANGED <<want, workRoom>>
      BY <1>0, <2>2, MovePoint
  <2>3. ASSUME UNCHANGED want, workRoom' = [workRoom EXCEPT ![c] = at[c]],
               NEW step \in {"applying", "leaving", "closed"}, Move(c, step)
        PROVE  \A x \in Conns :
                 /\ x # c => pc'[x] = pc[x] /\ want'[x] = want[x] /\ workRoom'[x] = workRoom[x]
                 /\ x = c => /\ pc'[x] \in {"idle", "input", "applying", "leaving", "closed"}
                             /\ pc'[x] = "leaving" => workRoom'[x] = at[x]
      BY <1>0, <2>3, MovePoint DEF TypeOK
  <2>. QED
      BY <2>1, <2>2, <2>3
<1>2. FreshInv'
    BY <1>0, <1>1 DEF FreshInv, OneJoinEach, Joins, Switches
<1>3. \A x \in Conns : Begins(x)
    BY <1>1 DEF Begins, Switches
<1>. QED
    BY <1>2, <1>3, StillPlaces

LEMMA StepPlaces ==
    ASSUME PlaceInv, SteadySockets, [Next]_vars
    PROVE  PlaceInv'
<1>. DEFINE Kept == FreshInv' /\ LeaveInv' /\ ToldInv' /\ BackInv' /\ AttachedAreSeated'
<1>0. SoundInv'
    BY StepTypes, StepLocks, StepAdmits DEF PlaceInv, SoundInv
<1>1. ASSUME NEW c \in Conns, NEW q \in Request, Ask(c, q) PROVE Kept
    BY <1>1, JoinPlaces DEF Ask, At
<1>2. ASSUME NEW c \in Conns, NEW r \in Rooms, Create(c, r) PROVE Kept
  <2>1. [room |-> r, role |-> "host", seat |-> NoSeat] \in Request
      BY DEF Request
  <2>2. [room |-> r, role |-> "host", seat |-> NoSeat].room = r
      OBVIOUS
  <2>. QED
      BY <1>2, <2>1, <2>2, JoinPlaces DEF Create, At
<1>3. ASSUME NEW c \in Conns,
             \/ Refuse(c) \/ Input(c) \/ InputToRoom(c) \/ InputPlain(c) \/ InputStage(c) \/ Hangup(c)
      PROVE  Kept
  <2>1. CASE Refuse(c) \/ InputPlain(c) \/ InputStage(c)
      BY <2>1, QuietPlaces DEF Refuse, InputPlain, InputStage, Deliver, At, connVars, dropVars, placeVars
  <2>2. CASE Input(c)
      BY <2>2, QuietPlaces DEF Input, At, connVars, dropVars, placeVars
  <2>3. CASE InputToRoom(c)
      BY <2>3, QuietPlaces DEF InputToRoom, At, connVars, dropVars, placeVars
  <2>4. CASE Hangup(c)
    <3>1. \E step \in {"applying", "leaving", "closed"} : Move(c, step)
        BY <2>4 DEF Hangup
    <3>. QED
        BY <2>4, <3>1, QuietPlaces DEF Hangup, At, dropVars, placeVars
  <2>. QED
      BY <1>3, <2>1, <2>2, <2>3, <2>4
<1>4. ASSUME NEW c \in Conns, Drop(c) PROVE Kept
    BY <1>4, DropPlaces
<1>5. UNCHANGED <<readerVars, at, role, playerId, audienceId, dropVars, host, screens, holder, mutex>> => Kept
  <2>. SUFFICES ASSUME UNCHANGED <<readerVars, at, role, playerId, audienceId, dropVars, host, screens, holder, mutex>>
                PROVE  Kept
      OBVIOUS
  <2>1. \A x \in Conns : Begins(x)
      BY DEF Begins, Switches, readerVars, dropVars
  <2>2. FreshInv'
      BY DEF PlaceInv, FreshInv, Joins, Switches, OneJoinEach, readerVars, dropVars
  <2>. QED
      BY <2>1, <2>2, StillPlaces
<1>6. ASSUME NEW c \in Conns, InputWithoutRoom(c) PROVE Kept
    BY <1>5, <1>6 DEF InputWithoutRoom, connVars, placeVars
<1>7. ASSUME NEW r \in Rooms, Room(r) PROVE Kept
    BY <1>5, <1>7 DEF Room, HostStaysAway, HostTimeout, GameOver, Expire, connVars, placeVars
<1>8. UNCHANGED vars => Kept
    BY <1>5 DEF vars, connVars, placeVars
<1>. HIDE DEF Kept
<1>9. Kept
    BY <1>1, <1>2, <1>3, <1>4, <1>6, <1>7, <1>8, AttachPlaces, BeginSwitchPlaces, LeavePlaces, ArrivePlaces,
       KickPlaces, ClearPlaces, DropLeavesPlaces
    DEF Next, Reader, Joining, Inputting, Ending, Dropping, Kept
<1>. QED
    BY <1>0, <1>9 DEF PlaceInv, Kept

LEMMA InitPlaces == Init => PlaceInv
<1>. SUFFICES ASSUME Init PROVE PlaceInv
    OBVIOUS
<1>1. \A x \in Conns, o \in Rooms : ~Occupies(x, o)
    BY Apart DEF Init, Occupies
<1>2. FreshInv /\ LeaveInv /\ ToldInv
    BY DEF Init, FreshInv, LeaveInv, ToldInv, Joins, Switches
<1>3. BackInv
    BY <1>1 DEF BackInv, Backed, Occupies
<1>4. AttachedAreSeated
    BY DEF Init, AttachedAreSeated
<1>. QED
    BY <1>2, <1>3, <1>4, InitSound DEF PlaceInv

\* If every socket is used for one join, as the site's pages use it, or else none is found
\* too slow and none joins its own room again, rooms and connections agree on who sits
\* where, however attaches, changes of rooms, kicks, hangups and expiries interleave
\* (attachHost .. removeClient).  Without that condition the agreement is lost: a
\* dropper that is under way clears the room of a socket that has joined again
\* meanwhile, and a socket that joins its own room in another role keeps its old place.
THEOREM SeatsAreHeld == ASSUME SteadySockets PROVE Spec => []SeatsHeld
<1>1. PlaceInv => SeatsHeld
  <2>. SUFFICES ASSUME PlaceInv PROVE SeatsBacked /\ AttachedAreSeated
      BY DEF SeatsHeld
  <2>1. TypeOK /\ BackInv /\ AttachedAreSeated
      BY DEF PlaceInv, SoundInv
  <2>2. SeatsBacked
      BY <2>1 DEF SeatsBacked, BackInv, Backed, Sits, TakenOver, TypeOK
  <2>. QED
      BY <2>1, <2>2
<1>2. PlaceInv /\ [Next]_vars => PlaceInv'
    BY StepPlaces
<1>. QED
    BY <1>1, <1>2, InitPlaces, PTL DEF Spec

=============================================================================
