--------------------------- MODULE PartyMembership ---------------------------
(***************************************************************************)
(* Who is connected to which party room of v2-server, in which role.       *)
(*                                                                         *)
(* A connection is served by its reader goroutine (readPump), and, when    *)
(* its send queue is full, by a goroutine that drops it.  A room is        *)
(* guarded by its own mutex.  attachHost, attachDisplay, attachPlayer and  *)
(* attachAudience hold the mutex of the room they join while they leave    *)
(* the room the connection was in, which takes that room's mutex too, and  *)
(* the connection's own fields (partyRoom, role, playerID, audienceID)     *)
(* are written under whichever room's mutex the writer happens to hold.    *)
(* What happens inside a room is PartyRotation's matter: here it only      *)
(* loses its host, ends and is removed.                                    *)
(***************************************************************************)
EXTENDS Integers, FiniteSets

CONSTANTS
    Conns,            \* connections; each is one socket, never opened again
    Rooms,            \* room instances, at most partyMaxRooms
    PlayerSeats, AudienceSeats,   \* records a room may create, by their token
    Nobody, NoRoom, NoSeat,
    MaxPlayers, MaxAudience, MaxScreens,
    MaxDrops,         \* bound: times a connection's queue is found full
    MaxJoins,         \* bound: joins each connection sends
    JoinsOwnRoom,     \* whether one of them may be for the room it is in
    JoinRoles,        \* roles they ask for
    Typing            \* connections that send input

Seats == PlayerSeats \cup AudienceSeats
Roles == {"host", "display", "player", "audience"}

ASSUME SeatAssumption ==
    /\ PlayerSeats \cap AudienceSeats = {}
    /\ NoSeat \notin Seats /\ Nobody \notin Conns /\ NoRoom \notin Rooms
    /\ IsFiniteSet(Seats) /\ IsFiniteSet(Conns)
    /\ {MaxPlayers, MaxAudience, MaxScreens, MaxDrops} \subseteq Nat
    /\ MaxJoins \in [Conns -> Nat]
    /\ JoinsOwnRoom \in BOOLEAN
    /\ JoinRoles \subseteq Roles /\ Typing \subseteq Conns

VARIABLES
    pc,               \* where a connection's reader is
    want,             \* the join it is working on
    workRoom,         \* the room its current call works on: left, or given input
    at, role, playerId, audienceId,   \* partyRoom, role, playerID, audienceID
    joins,            \* joins sent so far
    sendOpen,         \* the send queue is not closed
    dropPc, dropFrom, drops,          \* the goroutine that drops the connection
    life,             \* absent, listed in hub.partyRooms, removed
    stage,            \* lobby, running or over
    host, hostTimer,  \* room.host; off, running, due: hostDisconnectedAt
    screens,          \* room.displays
    record,           \* players and audience members that exist
    holder,           \* the Client of each record
    blocked,          \* blockedTokens
    mutex,            \* the reader that holds the room's mutex between steps
    panicked          \* the process has died

readerVars == <<pc, want, workRoom, joins>>
connVars   == <<at, role, playerId, audienceId, sendOpen>>
dropVars   == <<dropPc, dropFrom, drops>>
placeVars  == <<host, hostTimer, screens, holder>>
roomVars   == <<life, stage, record, blocked>>
vars == <<readerVars, connVars, dropVars, placeVars, roomVars, mutex, panicked>>

Request == [room : Rooms, role : {"host", "display"}, seat : {NoSeat}]
           \cup [room : Rooms, role : {"player"}, seat : PlayerSeats]
           \cup [room : Rooms, role : {"audience"}, seat : AudienceSeats]

ReaderSteps == {"idle", "joining", "switching", "arriving", "input", "applying", "leaving", "left", "closed"}

TypeOK ==
    /\ pc \in [Conns -> ReaderSteps]
    /\ want \in [Conns -> Request \cup {NoSeat}]
    /\ workRoom \in [Conns -> Rooms \cup {NoRoom}]
    /\ at \in [Conns -> Rooms \cup {NoRoom}]
    /\ role \in [Conns -> Roles \cup {"none"}]
    /\ playerId \in [Conns -> PlayerSeats \cup {NoSeat}]
    /\ audienceId \in [Conns -> AudienceSeats \cup {NoSeat}]
    /\ joins \in [Conns -> Nat]
    /\ sendOpen \in [Conns -> BOOLEAN]
    /\ dropPc \in [Conns -> {"off", "leaving", "clearing"}]
    /\ dropFrom \in [Conns -> Rooms \cup {NoRoom}]
    /\ drops \in [Conns -> 0 .. MaxDrops]
    /\ life \in [Rooms -> {"absent", "listed", "removed"}]
    /\ stage \in [Rooms -> {"lobby", "running", "over"}]
    /\ host \in [Rooms -> Conns \cup {Nobody}]
    /\ hostTimer \in [Rooms -> {"off", "running", "due"}]
    /\ screens \in [Rooms -> SUBSET Conns]
    /\ record \in [Rooms -> SUBSET Seats]
    /\ \A r \in Rooms : record[r] \cap blocked[r] = {}
    /\ holder \in [Rooms -> [Seats -> Conns \cup {Nobody}]]
    /\ blocked \in [Rooms -> SUBSET PlayerSeats]
    /\ mutex \in [Rooms -> Conns \cup {Nobody}]
    /\ panicked \in BOOLEAN

Init ==
    /\ pc = [c \in Conns |-> "idle"]
    /\ want = [c \in Conns |-> NoSeat]
    /\ workRoom = [c \in Conns |-> NoRoom]
    /\ at = [c \in Conns |-> NoRoom]
    /\ role = [c \in Conns |-> "none"]
    /\ playerId = [c \in Conns |-> NoSeat] /\ audienceId = [c \in Conns |-> NoSeat]
    /\ joins = [c \in Conns |-> 0]
    /\ sendOpen = [c \in Conns |-> TRUE]
    /\ dropPc = [c \in Conns |-> "off"] /\ dropFrom = [c \in Conns |-> NoRoom]
    /\ drops = [c \in Conns |-> 0]
    /\ life = [r \in Rooms |-> "absent"]
    /\ stage = [r \in Rooms |-> "lobby"]
    /\ host = [r \in Rooms |-> Nobody] /\ hostTimer = [r \in Rooms |-> "off"]
    /\ screens = [r \in Rooms |-> {}]
    /\ record = [r \in Rooms |-> {}] /\ blocked = [r \in Rooms |-> {}]
    /\ holder = [r \in Rooms |-> [s \in Seats |-> Nobody]]
    /\ mutex = [r \in Rooms |-> Nobody]
    /\ panicked = FALSE

-----------------------------------------------------------------------------
(* Helpers *)

Free(r) == mutex[r] = Nobody
Players(r) == record[r] \cap PlayerSeats
Watching(r) == {s \in AudienceSeats : holder[r][s] # Nobody}
At(c, step) == pc[c] = step
Move(c, step) == pc' = [pc EXCEPT ![c] = step]
\* A handler has returned, and its local variables are gone.
Idle(c) == Move(c, "idle") /\ want' = [want EXCEPT ![c] = NoSeat]
                           /\ workRoom' = [workRoom EXCEPT ![c] = NoRoom]

\* The pages of the site open a socket per join.  The protocol also lets a
\* connection go to another room, or join its own room again under another role
\* or name.
MayJoin(c, r) == joins[c] < MaxJoins[c] /\ (at[c] # r \/ JoinsOwnRoom)

\* Slip: a token is not looked up among the blocked ones.
AdmittedBlocked(q) ==
    CASE q.role = "host"     -> TRUE
      [] q.role = "display"  -> Cardinality(screens[q.room]) < MaxScreens
      [] q.role = "player"   -> \/ q.seat \in record[q.room] \cup blocked[q.room]
                                \/ stage[q.room] # "over" /\ Cardinality(Players(q.room)) < MaxPlayers
      [] q.role = "audience" -> \/ q.seat \in record[q.room]
                                \/ Cardinality(Watching(q.room)) < MaxAudience

\* The checks of the four attach functions, in the room asked for.  A seat that
\* has a record is asked for by its token, any other seat is a new one.
Admitted(q) ==
    CASE q.role = "host"     -> TRUE
      [] q.role = "display"  -> Cardinality(screens[q.room]) < MaxScreens
      [] q.role = "player"   -> /\ q.seat \notin blocked[q.room]
                                /\ \/ q.seat \in record[q.room]
                                   \/ stage[q.room] # "over" /\ Cardinality(Players(q.room)) < MaxPlayers
      [] q.role = "audience" -> \/ q.seat \in record[q.room]
                                \/ Cardinality(Watching(q.room)) < MaxAudience

HostFree(c, q) == q.role = "host" => host[q.room] \in {Nobody, c}

\* Slip: the connection that loses its seat is not told.
ReplacedUnknowing(c) == {}

\* The connection that holds the seat asked for and loses it to c.
Replaced(c) ==
    IF want[c].seat = NoSeat THEN {}
    ELSE {holder[want[c].room][want[c].seat]} \ {Nobody, c}

\* removeClient, under the room's mutex: each place is given up only by the
\* connection that still has it.
SeatHeld(c) == IF role[c] = "audience" /\ audienceId[c] # NoSeat THEN audienceId[c]
               ELSE playerId[c]

\* Slip: the seat is freed whoever has it now.
GiveUpAnySeat(c, r) ==
    holder' = [holder EXCEPT ![r] = [s \in Seats |->
                  IF s = SeatHeld(c) THEN Nobody ELSE @[s]]]

GiveUpSeat(c, r) ==
    holder' = [holder EXCEPT ![r] = [s \in Seats |->
                  IF s = SeatHeld(c) /\ @[s] = c THEN Nobody ELSE @[s]]]

Vacate(c, r) ==
    \/ /\ role[c] = "host" /\ host[r] = c
       /\ host' = [host EXCEPT ![r] = Nobody]
       /\ hostTimer' = [hostTimer EXCEPT ![r] = "running"]
       /\ UNCHANGED <<screens, holder>>
    \/ /\ role[c] = "display"
       /\ screens' = [screens EXCEPT ![r] = @ \ {c}]
       /\ UNCHANGED <<host, hostTimer, holder>>
    \/ /\ ~(role[c] = "host" /\ host[r] = c) /\ role[c] # "display"
       /\ GiveUpSeat(c, r)
       /\ UNCHANGED <<host, hostTimer, screens>>

\* The rest of removeClient, after the mutex is released.
Clear(c, r) ==
    IF at[c] = r
    THEN at' = [at EXCEPT ![c] = NoRoom] /\ audienceId' = [audienceId EXCEPT ![c] = NoSeat]
    ELSE UNCHANGED <<at, audienceId>>

\* The end of an attach: the connection's fields and its place in the room.
\* keptId is the audience id the connection still carries, replaced the ones
\* that lose the place to it.
TakePlace(c, keptId, replaced) ==
    LET q == want[c] IN
    /\ role' = [role EXCEPT ![c] = q.role]
    /\ playerId' = [playerId EXCEPT ![c] = IF q.role = "player" THEN q.seat ELSE NoSeat]
    /\ audienceId' = [x \in Conns |->
           IF x = c THEN (IF q.role = "audience" THEN q.seat ELSE keptId)
           ELSE IF q.role = "audience" /\ x \in replaced THEN NoSeat ELSE audienceId[x]]
    /\ at' = [x \in Conns |-> IF x = c THEN q.room
                              ELSE IF x \in replaced THEN NoRoom ELSE at[x]]
    /\ host' = IF q.role = "host" THEN [host EXCEPT ![q.room] = c] ELSE host
    /\ hostTimer' = IF q.role = "host" THEN [hostTimer EXCEPT ![q.room] = "off"] ELSE hostTimer
    /\ screens' = IF q.role = "display" THEN [screens EXCEPT ![q.room] = @ \cup {c}] ELSE screens
    /\ holder' = IF q.seat = NoSeat THEN holder ELSE [holder EXCEPT ![q.room][q.seat] = c]
    /\ record' = IF q.seat = NoSeat THEN record ELSE [record EXCEPT ![q.room] = @ \cup {q.seat}]

-----------------------------------------------------------------------------
(* A connection's reader *)

\* handlePartyJoin: findPartyRoom returns a room, whose mutex comes later.
Ask(c, q) ==
    /\ At(c, "idle")
    /\ life[q.room] = "listed"
    /\ MayJoin(c, q.room) /\ q.role \in JoinRoles
    /\ want' = [want EXCEPT ![c] = q]
    /\ joins' = [joins EXCEPT ![c] = @ + 1]
    /\ Move(c, "joining")
    /\ UNCHANGED <<workRoom, connVars, dropVars, placeVars, roomVars, mutex>>

\* createPartyRoom; the creator's attachHost follows.
Create(c, r) ==
    /\ At(c, "idle")
    /\ life[r] = "absent"
    /\ MayJoin(c, r)
    /\ joins' = [joins EXCEPT ![c] = @ + 1]
    /\ life' = [life EXCEPT ![r] = "listed"]
    /\ want' = [want EXCEPT ![c] = [room |-> r, role |-> "host", seat |-> NoSeat]]
    /\ Move(c, "joining")
    /\ UNCHANGED <<workRoom, connVars, dropVars, placeVars, stage, record, blocked, mutex>>

\* The host may have locked the room, or closed it to late players or to the
\* audience.
DoorMayBeShut(q) == q.role = "audience" \/ (q.role = "player" /\ q.seat \notin record[q.room])

Refuse(c) ==
    /\ At(c, "joining")
    /\ Free(want[c].room)
    /\ DoorMayBeShut(want[c]) \/ ~(Admitted(want[c]) /\ HostFree(c, want[c]))
    /\ Idle(c)
    /\ UNCHANGED <<joins, connVars, dropVars, placeVars, roomVars, mutex>>

\* Slip: the room the connection was in is not left.
AttachWithoutLeaving(c) ==
    /\ At(c, "joining")
    /\ Free(want[c].room)
    /\ Admitted(want[c]) /\ HostFree(c, want[c])
    /\ TakePlace(c, audienceId[c], Replaced(c))
    /\ Idle(c)
    /\ UNCHANGED <<joins, sendOpen, dropVars, life, stage, blocked, mutex>>

\* Nothing to leave: the attach is one critical section.
Attach(c) ==
    /\ At(c, "joining")
    /\ Free(want[c].room)
    /\ Admitted(want[c]) /\ HostFree(c, want[c])
    /\ at[c] \in {want[c].room, NoRoom}
    /\ TakePlace(c, audienceId[c], Replaced(c))
    /\ Idle(c)
    /\ UNCHANGED <<joins, sendOpen, dropVars, life, stage, blocked, mutex>>

\* Another room to leave: the new room's mutex stays taken meanwhile.  The
\* connection that loses its seat is told so before the old room is left.
BeginSwitch(c) ==
    /\ At(c, "joining")
    /\ Free(want[c].room)
    /\ Admitted(want[c]) /\ HostFree(c, want[c])
    /\ at[c] \notin {want[c].room, NoRoom}
    /\ mutex' = [mutex EXCEPT ![want[c].room] = c]
    /\ workRoom' = [workRoom EXCEPT ![c] = at[c]]
    /\ at' = [x \in Conns |-> IF x \in Replaced(c) THEN NoRoom ELSE at[x]]
    /\ audienceId' = [x \in Conns |->
           IF want[c].role = "audience" /\ x \in Replaced(c) THEN NoSeat ELSE audienceId[x]]
    /\ Move(c, "switching")
    /\ UNCHANGED <<want, joins, role, playerId, sendOpen, dropVars, placeVars, roomVars>>

LeaveOld(c) ==
    /\ At(c, "switching")
    /\ Free(workRoom[c])
    /\ Vacate(c, workRoom[c])
    /\ Move(c, "arriving")
    /\ UNCHANGED <<want, workRoom, joins, connVars, dropVars, roomVars, mutex>>

Arrive(c) ==
    /\ At(c, "arriving")
    /\ TakePlace(c, IF at[c] = workRoom[c] THEN NoSeat ELSE audienceId[c], {})
    /\ mutex' = [mutex EXCEPT ![want[c].room] = Nobody]
    /\ Idle(c)
    /\ UNCHANGED <<joins, sendOpen, dropVars, life, stage, blocked>>

\* handleEnvelope looks at partyRoom twice: here ...
Input(c) ==
    /\ At(c, "idle")
    /\ c \in Typing
    /\ at[c] # NoRoom
    /\ Move(c, "input")
    /\ UNCHANGED <<want, workRoom, joins, connVars, dropVars, placeVars, roomVars, mutex>>

\* ... and here, where a room that was taken away meanwhile is dereferenced.
InputWithoutRoom(c) ==
    /\ At(c, "input")
    /\ at[c] = NoRoom
    /\ panicked' = TRUE
    /\ UNCHANGED <<readerVars, connVars, dropVars, placeVars, roomVars, mutex>>

InputToRoom(c) ==
    /\ At(c, "input")
    /\ at[c] # NoRoom
    /\ workRoom' = [workRoom EXCEPT ![c] = at[c]]
    /\ Move(c, "applying")
    /\ UNCHANGED <<want, joins, connVars, dropVars, placeVars, roomVars, mutex>>

\* applyInput, which has to wait for the room.
Deliver(c) ==
    /\ At(c, "applying")
    /\ Free(workRoom[c])
    /\ Idle(c)
    /\ UNCHANGED <<joins, dropVars, host, hostTimer, screens, life, mutex>>

\* A controller's, display's or refused input.
InputPlain(c) == Deliver(c) /\ UNCHANGED <<connVars, holder, stage, record, blocked>>

Hosting(c) == role[c] = "host" /\ host[workRoom[c]] = c

\* "start", "end" and "play_again".
InputStage(c) ==
    /\ Deliver(c)
    /\ Hosting(c)
    /\ \E next \in CASE stage[workRoom[c]] = "lobby"   -> {"running", "over"}
                    [] stage[workRoom[c]] = "running" -> {"over"}
                    [] stage[workRoom[c]] = "over"    -> {"lobby"} :
          stage' = [stage EXCEPT ![workRoom[c]] = next]
    /\ UNCHANGED <<connVars, holder, record, blocked>>

\* Slip: the connection of the player is not told.
KickUntold(c, s) ==
    LET r == workRoom[c] IN
    /\ Deliver(c)
    /\ Hosting(c)
    /\ s \in Players(r)
    /\ record' = [record EXCEPT ![r] = @ \ {s}]
    /\ blocked' = [blocked EXCEPT ![r] = @ \cup {s}]
    /\ holder' = [holder EXCEPT ![r][s] = Nobody]
    /\ UNCHANGED <<stage, connVars>>

\* "kick"
InputKick(c, s) ==
    LET r == workRoom[c]
        victim == holder[r][s]
    IN
    /\ Deliver(c)
    /\ Hosting(c)
    /\ s \in Players(r)
    /\ record' = [record EXCEPT ![r] = @ \ {s}]
    /\ blocked' = [blocked EXCEPT ![r] = @ \cup {s}]
    /\ holder' = [holder EXCEPT ![r][s] = Nobody]
    /\ at' = [x \in Conns |-> IF x = victim THEN NoRoom ELSE at[x]]
    /\ playerId' = [x \in Conns |-> IF x = victim THEN NoSeat ELSE playerId[x]]
    /\ UNCHANGED <<stage, role, audienceId, sendOpen>>

\* Slip: the deferred calls forget the room.
HangupOnly(c) ==
    /\ At(c, "idle")
    /\ workRoom' = [workRoom EXCEPT ![c] = at[c]]
    /\ Move(c, "closed") /\ sendOpen' = [sendOpen EXCEPT ![c] = FALSE]
    /\ UNCHANGED <<want, joins, at, role, playerId, audienceId, dropVars, placeVars, roomVars, mutex>>

\* The socket fails or is closed, and readPump's deferred calls begin.
Hangup(c) ==
    /\ At(c, "idle")
    /\ workRoom' = [workRoom EXCEPT ![c] = at[c]]
    /\ IF at[c] = NoRoom
       THEN Move(c, "closed") /\ sendOpen' = [sendOpen EXCEPT ![c] = FALSE]
       ELSE Move(c, "leaving") /\ UNCHANGED sendOpen
    /\ UNCHANGED <<want, joins, at, role, playerId, audienceId, dropVars, placeVars, roomVars, mutex>>

LeaveAtEnd(c) ==
    /\ At(c, "leaving")
    /\ Free(workRoom[c])
    /\ Vacate(c, workRoom[c])
    /\ Move(c, "left")
    /\ UNCHANGED <<want, workRoom, joins, connVars, dropVars, roomVars, mutex>>

Close(c) ==
    /\ At(c, "left")
    /\ Clear(c, workRoom[c])
    /\ sendOpen' = [sendOpen EXCEPT ![c] = FALSE]
    /\ Move(c, "closed")
    /\ workRoom' = [workRoom EXCEPT ![c] = NoRoom]
    /\ UNCHANGED <<want, joins, role, playerId, dropVars, placeVars, roomVars, mutex>>

-----------------------------------------------------------------------------
(* The goroutine that drops a connection with a full queue *)

Drop(c) ==
    /\ sendOpen[c]
    /\ drops[c] < MaxDrops
    /\ dropPc[c] = "off"
    /\ drops' = [drops EXCEPT ![c] = @ + 1]
    /\ IF at[c] = NoRoom
       THEN sendOpen' = [sendOpen EXCEPT ![c] = FALSE] /\ UNCHANGED <<dropFrom, dropPc>>
       ELSE /\ dropFrom' = [dropFrom EXCEPT ![c] = at[c]]
            /\ dropPc' = [dropPc EXCEPT ![c] = "leaving"]
            /\ UNCHANGED sendOpen
    /\ UNCHANGED <<readerVars, at, role, playerId, audienceId, placeVars, roomVars, mutex>>

DropLeaves(c) ==
    /\ dropPc[c] = "leaving"
    /\ Free(dropFrom[c])
    /\ Vacate(c, dropFrom[c])
    /\ dropPc' = [dropPc EXCEPT ![c] = "clearing"]
    /\ UNCHANGED <<readerVars, connVars, dropFrom, drops, roomVars, mutex>>

\* closeSend makes the writer close the socket, so the reader will hang up.
DropCloses(c) ==
    /\ dropPc[c] = "clearing"
    /\ Clear(c, dropFrom[c])
    /\ sendOpen' = [sendOpen EXCEPT ![c] = FALSE]
    /\ dropPc' = [dropPc EXCEPT ![c] = "off"]
    /\ dropFrom' = [dropFrom EXCEPT ![c] = NoRoom]
    /\ UNCHANGED <<readerVars, role, playerId, drops, placeVars, roomVars, mutex>>

-----------------------------------------------------------------------------
(* A room's goroutine *)

\* 60 seconds pass without a host.
HostStaysAway(r) ==
    /\ hostTimer[r] = "running"
    /\ hostTimer' = [hostTimer EXCEPT ![r] = "due"]
    /\ UNCHANGED <<readerVars, connVars, dropVars, host, screens, holder, roomVars, mutex>>

\* Slip: a lobby waits for its host.
HostTimeoutRunning(r) ==
    /\ life[r] = "listed" /\ Free(r)
    /\ hostTimer[r] = "due" /\ stage[r] = "running"
    /\ stage' = [stage EXCEPT ![r] = "over"]
    /\ UNCHANGED <<readerVars, connVars, dropVars, placeVars, life, record, blocked, mutex>>

HostTimeout(r) ==
    /\ life[r] = "listed" /\ Free(r)
    /\ hostTimer[r] = "due" /\ stage[r] # "over"
    /\ stage' = [stage EXCEPT ![r] = "over"]
    /\ UNCHANGED <<readerVars, connVars, dropVars, placeVars, life, record, blocked, mutex>>

\* The last game or activity is played out.
GameOver(r) ==
    /\ life[r] = "listed" /\ Free(r)
    /\ stage[r] = "running"
    /\ stage' = [stage EXCEPT ![r] = "over"]
    /\ UNCHANGED <<readerVars, connVars, dropVars, placeVars, life, record, blocked, mutex>>

\* shouldExpire and removePartyRoom: an ended room, or a lobby without input.
Expire(r) ==
    /\ life[r] = "listed" /\ Free(r)
    /\ stage[r] \in {"lobby", "over"}
    /\ life' = [life EXCEPT ![r] = "removed"]
    /\ UNCHANGED <<readerVars, connVars, dropVars, placeVars, stage, record, blocked, mutex>>

-----------------------------------------------------------------------------

Joining(c) == Refuse(c) \/ Attach(c) \/ BeginSwitch(c) \/ LeaveOld(c) \/ Arrive(c)
Inputting(c) == InputToRoom(c) \/ InputPlain(c) \/ InputStage(c) \/ \E s \in PlayerSeats : InputKick(c, s)
Ending(c) == LeaveAtEnd(c) \/ Close(c)
Dropping(c) == DropLeaves(c) \/ DropCloses(c)

Reader(c) ==
    \/ \E q \in Request : Ask(c, q)
    \/ \E r \in Rooms : Create(c, r)
    \/ Joining(c) \/ Input(c) \/ Inputting(c) \/ Hangup(c) \/ Ending(c)

Room(r) == HostStaysAway(r) \/ HostTimeout(r) \/ GameOver(r) \/ Expire(r)

Runs == ~panicked /\ UNCHANGED panicked

Next ==
    \/ Runs /\ \E c \in Conns : Reader(c) \/ Drop(c) \/ Dropping(c)
    \/ Runs /\ \E r \in Rooms : Room(r)
    \/ ~panicked /\ \E c \in Conns : InputWithoutRoom(c)

Spec == Init /\ [][Next]_vars

\* Goroutines run, Go's mutexes starve nobody, a socket whose queue was closed
\* is closed by its writer, and a room's goroutine keeps iterating.  Nobody has
\* to join, send input or leave.
\* What a reader does without waiting for its peer.
ReaderRuns(c) == Joining(c) \/ Inputting(c) \/ Ending(c)
ReaderStops(c) == ~sendOpen[c] /\ Hangup(c)

Fairness ==
    /\ \A c \in Conns : SF_vars(Runs /\ ReaderRuns(c)) /\ SF_vars(Runs /\ ReaderStops(c))
    /\ \A c \in (IF MaxDrops = 0 THEN {} ELSE Conns) : SF_vars(Runs /\ Dropping(c))
    /\ \A r \in Rooms : SF_vars(Runs /\ HostTimeout(r))

FairSpec == Spec /\ Fairness

-----------------------------------------------------------------------------
(* Properties *)

Occupies(c, r) == host[r] = c \/ c \in screens[r] \/ \E s \in Seats : holder[r][s] = c

\* Every place in a room belongs to a connection that is in that room, in that
\* role and under that id: neither a reconnect, a kick, a dropped connection
\* nor a change of rooms leaves a ghost behind.  (A seat that is being taken
\* over keeps its old holder while the new one leaves its old room.)
SeatsBacked ==
    \A r \in Rooms :
        /\ host[r] # Nobody => at[host[r]] = r /\ role[host[r]] = "host"
        /\ \A c \in screens[r] : at[c] = r /\ role[c] = "display"
        /\ \A s \in Seats : holder[r][s] # Nobody =>
               LET c == holder[r][s] IN
               \/ at[c] = r /\ (IF s \in PlayerSeats THEN role[c] = "player" /\ playerId[c] = s
                                ELSE role[c] = "audience" /\ audienceId[c] = s)
               \/ \E x \in Conns : mutex[r] = x /\ want[x].seat = s

\* Whoever believes to be in a room has a place in it, except while one of its
\* goroutines is just leaving.
AttachedAreSeated ==
    \A c \in Conns : at[c] # NoRoom =>
        \/ Occupies(c, at[c])
        \/ pc[c] \in {"arriving", "left"} /\ workRoom[c] = at[c]
        \/ dropPc[c] = "clearing" /\ dropFrom[c] = at[c]

\* Rooms and connections agree on who sits where (attachHost .. removeClient).
SeatsHeld == SeatsBacked /\ AttachedAreSeated

\* A place is lost only by the connection that has it, through its own
\* goroutines, by a kick, or to a connection that presents the seat's token: a
\* late disconnect of an old socket never frees what a new socket has taken.
StaleLeaveIsHarmless ==
    [][\A r \in Rooms :
          /\ (host[r] # Nobody /\ host'[r] # host[r]) =>
                 pc'[host[r]] # pc[host[r]] \/ dropPc'[host[r]] # dropPc[host[r]]
          /\ \A s \in Seats : (holder[r][s] # Nobody /\ holder'[r][s] = Nobody) =>
                 \/ pc'[holder[r][s]] # pc[holder[r][s]]
                 \/ dropPc'[holder[r][s]] # dropPc[holder[r][s]]
                 \/ s \in blocked'[r]]_vars

\* A connection that is closed, by its peer or because it is too slow, ends up
\* in no room.
ClosedConnectionsLeave ==
    \A c \in Conns : (~sendOpen[c]) ~> (panicked \/ \A r \in Rooms : ~Occupies(c, r))

\* README.md:87 "if the host does not reconnect within 60 seconds the server
\* marks the room ended".
HostlessRoomEnds ==
    \A r \in Rooms : (hostTimer[r] = "due") ~>
        (panicked \/ stage[r] = "over" \/ life[r] # "listed" \/ hostTimer[r] = "off")

\* Places are given up: by the closed connection, and by a room whose host stays away
\* (readPump, sendEnvelope, step).
PlacesGivenUp == ClosedConnectionsLeave /\ HostlessRoomEnds

\* README.md:87 "Active rooms pause when the host disconnects": a room does not
\* keep a host whose connection is gone.
HostLossIsSeen == \A r \in Rooms : host[r] # Nobody => pc[host[r]] # "closed"

\* main.go:395 answers input without a room by "Join a room before sending
\* input.": it does not bring the server down.
InputIsAnswered == ~panicked

=============================================================================
