------------------------------ MODULE ClubWorld ------------------------------
(****************************************************************************)
(* The rooms of the club world as the server has them and as its pages show *)
(* them: who is in a room, its coin puff, the starter tasks and the coins   *)
(* of each player (clubpenguin-world/main.go and public/client.js).  Every  *)
(* connection has a goroutine that reads it, and one loop moves everybody   *)
(* and takes a snapshot of each room.  State is changed under a lock; what  *)
(* is sent is sent after it, to the clients found in the room by then.  The *)
(* pages of Watched are followed; the others hear at once and ask at will.  *)
(****************************************************************************)
EXTENDS Integers, Sequences, FiniteSetsExt, SequencesExt

CONSTANTS Player, Watched, Room, First, Task, None, Loop, Reward,
  MaxQueue, MaxTicks, MaxAsks, MaxPuffs        \* bounds; MaxQueue stands for the 64 of the code
ClubWorldAssumption ==
  /\ Player \subseteq Nat /\ Watched \subseteq Player /\ First \in Room /\ Loop \notin Player /\ None \notin Player \cup Room
  /\ {Reward, MaxQueue, MaxTicks, MaxAsks, MaxPuffs} \subseteq Nat

VARIABLES
  seat,     \* each client of the server: its room, where it stands, its tasks and its coins
  puff,     \* whether a room has a puff, and how many it has had
  work,     \* each goroutine: what it has left to send
  up, down, \* each page: what it has sent, and what has been sent to it
  page,     \* what the page shows
  been,     \* the players that have ever been in a room
  earned,   \* what a player has collected since its progress was reset
  crossed,  \* two goroutines have had news of a player's progress to send at one time
  dead,     \* the process has died
  ticks, asks
vars == <<seat, puff, work, up, down, page, been, earned, crossed, dead, ticks, asks>>

Absent == [room |-> None, at |-> "floor", has |-> {}, done |-> {}, coins |-> 0]
Blank == [room |-> First, players |-> {}, coins |-> 0, done |-> {}, asked |-> None]
Goroutines == Player \cup {Loop}
Seated(p) == seat[p].room # None
Quests == Task \cup (Room \ {First})

Init ==
  /\ seat = [p \in Player |-> Absent] /\ puff = [r \in Room |-> [lies |-> FALSE, had |-> 0]]
  /\ work = [g \in Goroutines |-> <<>>] /\ page = [p \in Player |-> Blank]
  /\ up = [p \in Player |-> <<>>] /\ down = [p \in Player |-> <<>>]
  /\ been = [r \in Room |-> {}] /\ earned = [p \in Player |-> 0] /\ crossed = {}
  /\ dead = FALSE /\ ticks = 0 /\ asks = 0

\* Where it matters that somebody stands: in a portal, or where a puff can lie.
Spot == {"portal"} \cup (IF MaxPuffs = 0 THEN {} ELSE {"puff"})

In(seats, r) == {p \in Player : seats[p].room = r}

\* What a goroutine has to send: to a room, to the clients found there, or what is to be
\* read when it is its turn.
Cast(m, r, except) == [kind |-> "cast", msg |-> m, room |-> r, who |-> except]
Send(m, to) == [kind |-> "send", msg |-> m, room |-> None, who |-> to]
Read(type, p) == [kind |-> "read", msg |-> [type |-> type], room |-> None, who |-> {p}]
Joined(p) == [type |-> "joined", p |-> p]
Left(p) == [type |-> "left", p |-> p]
Progress(seats, p) == [type |-> "progress", coins |-> seats[p].coins, done |-> seats[p].done]
WorldInit(seats, p) ==
  [type |-> "init", room |-> seats[p].room, players |-> In(seats, seats[p].room),
   coins |-> seats[p].coins, done |-> seats[p].done]
WorldSnapshot(seats, r) ==
  [type |-> "snapshot", room |-> r, players |-> In(seats, r),
   inside |-> {p \in In(seats, r) : seats[p].at = "portal"}]

\* Mutant: a task that is rewarded is not marked.
PaidUnmarked(s) == [s EXCEPT !.coins = s.coins + Reward * Cardinality(s.has \ s.done)]

\* recomputeProgressLocked: what has been done and was not yet rewarded is.
Paid(s) == [s EXCEPT !.done = s.has, !.coins = s.coins + Reward * Cardinality(s.has \ s.done)]

Tells(i, p) == i.msg.type \in {"progress", "init"} /\ i.who = {p}
HasNews(g, p, w) == \E k \in DOMAIN w[g] : Tells(w[g][k], p)
CrossedBy(w) ==
  crossed' = crossed \cup {p \in Player : HasNews(p, p, w) /\ HasNews(Loop, p, w)}
Does(g, items) == /\ work' = [work EXCEPT ![g] = items] /\ CrossedBy(work')

\* addClient and the first sends of handleWebSocket.
Connect(p) ==
  /\ ~Seated(p) /\ p \notin UNION Range(been)
  /\ seat' = [seat EXCEPT ![p] = [Absent EXCEPT !.room = First]]
  /\ been' = [been EXCEPT ![First] = @ \cup {p}]
  /\ Does(p, <<Read("init", p), Cast(Joined(p), First, {p})>>)
  /\ UNCHANGED <<puff, up, down, page, earned, dead, ticks, asks>>

\* removeClient
Gone(seats, who) == [p \in Player |-> IF p \in who THEN Absent ELSE seats[p]]
Lefts(who) == [k \in 1 .. Cardinality(who) |->
                 LET p == SetToSeq(who)[k] IN Cast(Left(p), seat[p].room, {})]

\* The page is closed or its connection lost: its goroutine removes the client.  A page that
\* is followed stays until it is removed.
Leave(p) ==
  /\ Seated(p) /\ p \notin Watched /\ work[p] = <<>>
  /\ seat' = Gone(seat, {p}) /\ up' = [up EXCEPT ![p] = <<>>] /\ Does(p, Lefts({p}))
  /\ UNCHANGED <<puff, down, page, been, earned, dead, ticks, asks>>

\* broadcastToRoom finds its recipients under the lock ...
Gather(g, i, rest) ==
  /\ i.kind = "cast"
  /\ LET to == In(seat, i.room) \ i.who
     IN Does(g, IF to = {} THEN rest ELSE <<Send(i.msg, to)>> \o rest)
  /\ UNCHANGED <<seat, down, dead>>

\* ... as sendProgress and sendWorldInit read what they send ...
Fetch(g, i, rest) ==
  /\ i.kind = "read"
  /\ \E p \in i.who : Does(g, IF ~Seated(p) THEN rest ELSE <<Send(
       IF i.msg.type = "init" THEN WorldInit(seat, p) ELSE Progress(seat, p), {p})>> \o rest)
  /\ UNCHANGED <<seat, down, dead>>

\* ... and sends without it.  A client whose buffer is full is removed.  One that has been
\* removed since has no channel to send on any more, and the sender panics: the goroutine of
\* a connection ends with it, the loop takes the process along.  sendToClient looks again.
Deliver(g, i, rest) ==
  /\ i.kind = "send"
  /\ LET gone == {p \in i.who : ~Seated(p)}
         full == {p \in i.who : Seated(p) /\ Len(down[p]) >= MaxQueue}
     IN IF gone # {} /\ i.msg.type \notin {"progress", "init"}
        THEN /\ dead' = (dead \/ g = Loop)
             /\ seat' = IF g \in Player THEN Gone(seat, {g}) ELSE seat
             /\ Does(g, IF g \in Player /\ Seated(g) THEN Lefts({g}) ELSE <<>>)
             /\ UNCHANGED down
        ELSE /\ dead' = dead /\ seat' = Gone(seat, full) /\ Does(g, Lefts(full) \o rest)
             /\ down' = [p \in Player |->
                  IF p \in (i.who \cap Watched) \ (full \cup gone) THEN Append(down[p], i.msg) ELSE down[p]]

Sends(g) ==
  /\ ~dead /\ work[g] # <<>>
  /\ LET i == Head(work[g])
         rest == Tail(work[g])
     IN Gather(g, i, rest) \/ Fetch(g, i, rest) \/ Deliver(g, i, rest)
  /\ UNCHANGED <<puff, up, page, been, earned, ticks, asks>>

\* joinRoom: whoever stands in a portal to a room moves there.
RoomJoin(p, r) ==
  /\ UNCHANGED <<puff, down, page, earned, dead, ticks, asks>>
  /\ IF seat[p].at # "portal" \/ seat[p].room = r THEN UNCHANGED <<seat, work, been, crossed>>
     ELSE /\ seat' = [seat EXCEPT ![p] = Paid([@ EXCEPT !.room = r, !.at = "floor",
                                                        !.has = @ \cup ({r} \ {First})])]
          /\ been' = [been EXCEPT ![r] = @ \cup {p}]
          /\ Does(p, <<Cast(Left(p), seat[p].room, {}), Send(WorldInit(seat', p), {p}),
                       Cast(Joined(p), r, {p})>>)

\* Mutant: what was done is not told.
PerformQuietly(p, t) ==
  /\ seat' = [seat EXCEPT ![p] = Paid([@ EXCEPT !.has = @ \cup {t}])]
  /\ UNCHANGED <<puff, work, down, page, been, earned, crossed, dead, ticks, asks>>

\* A phrase, an emote or a name: the room is told, and the player if it was a task.
Perform(p, t) ==
  /\ seat' = [seat EXCEPT ![p] = Paid([@ EXCEPT !.has = @ \cup {t}])]
  /\ Does(p, IF t \in seat[p].done THEN <<>> ELSE <<Read("progress", p)>>)
  /\ UNCHANGED <<puff, down, page, been, earned, dead, ticks, asks>>

\* resetProgress: the room the player is in counts as visited.
Reset(p) ==
  /\ seat' = [seat EXCEPT ![p] = Paid([@ EXCEPT !.has = {seat[p].room} \ {First}, !.done = {}, !.coins = 0])]
  /\ earned' = [earned EXCEPT ![p] = 0] /\ Does(p, <<Read("progress", p)>>)
  /\ UNCHANGED <<puff, down, page, been, dead, ticks, asks>>

\* readPump: the next request of a page.
Serves(p) ==
  /\ ~dead /\ Seated(p) /\ work[p] = <<>> /\ up[p] # <<>> /\ up' = [up EXCEPT ![p] = Tail(@)]
  /\ CASE Head(up[p]) \in Room -> RoomJoin(p, Head(up[p]))
       [] Head(up[p]) \in Task -> Perform(p, Head(up[p]))
       [] OTHER -> Reset(p)

\* The puff of a room goes to the first player, by name, who touches it.
Touching(seats, r) == {p \in In(seats, r) : seats[p].at = "puff" /\ puff[r].lies}
Collector(seats, r) == {p \in Touching(seats, r) : \A q \in Touching(seats, r) : p <= q}

\* stepAndCollectSnapshots: everybody moves, a puff is collected or put down in each room, and
\* a snapshot of each is taken; all under one lock.
Tick(at) ==
  /\ ~dead /\ work[Loop] = <<>> /\ In(seat, None) # Player /\ ticks < MaxTicks /\ ticks' = ticks + 1
  /\ LET moved == [p \in Player |-> IF Seated(p) THEN [seat[p] EXCEPT !.at = at[p]] ELSE Absent]
         lucky == UNION {Collector(moved, r) : r \in Room}
     IN /\ seat' = [p \in Player |-> IF p \in lucky THEN [moved[p] EXCEPT !.coins = @ + 1] ELSE moved[p]]
        /\ earned' = [p \in Player |-> earned[p] + IF p \in lucky THEN 1 ELSE 0]
        /\ puff' = [r \in Room |->
             IF puff[r].lies THEN [puff[r] EXCEPT !.lies = Collector(moved, r) = {}]
             ELSE IF puff[r].had < MaxPuffs THEN [lies |-> TRUE, had |-> puff[r].had + 1] ELSE puff[r]]
        /\ Does(Loop, SetToSeq({Cast(WorldSnapshot(seat', r), r, {}) : r \in Room})
                      \o SetToSeq({Read("progress", p) : p \in lucky}))
  /\ UNCHANGED <<up, down, page, been, dead, asks>>

Asks(p, what) == up' = [up EXCEPT ![p] = Append(@, what)] /\ asks' = asks + 1

\* The player does something on the page.
Wishes(p) == Task \cup {"reset"} \cup (IF p \in Watched THEN {} ELSE Room)
Act(p) ==
  /\ Seated(p) /\ asks < MaxAsks /\ \E what \in Wishes(p) : Asks(p, what)
  /\ UNCHANGED <<seat, puff, work, down, page, been, earned, crossed, dead, ticks>>

\* Mutant: a snapshot of any room is taken for the one that is shown.
SnapshotOfAny(v, m) == [v EXCEPT !.players = m.players]

\* Mutant: a page is in the room of the last snapshot.
SnapshotMoves(v, m) == [v EXCEPT !.players = m.players, !.room = m.room]

\* handleSnapshot
Snapshot(v, m) == IF m.room # v.room THEN v ELSE [v EXCEPT !.players = m.players]

\* handleProgress and handleWorldInit
ShowsProgress(v, m) == [v EXCEPT !.coins = m.coins, !.done = m.done]
ShowsWorld(v, m) == [ShowsProgress(v, m) EXCEPT !.room = m.room, !.players = m.players, !.asked = None]

\* What a message changes on the page, handlePlayerJoined and handlePlayerLeft included.
Handled(v, m) ==
  CASE m.type = "init" -> ShowsWorld(v, m)
    [] m.type = "snapshot" -> Snapshot(v, m)
    [] m.type = "joined" -> [v EXCEPT !.players = @ \cup {m.p}]
    [] m.type = "left" -> [v EXCEPT !.players = @ \ {m.p}]
    [] m.type = "progress" -> ShowsProgress(v, m)

\* A page that sees itself in a portal asks for the room behind it, though not at once again;
\* a room that is chosen from the list is granted only there, too.
Portal(p, m, v) ==
  \/ UNCHANGED <<up, asks>> /\ page' = [page EXCEPT ![p] = v]
  \/ /\ m.type = "snapshot" /\ m.room = v.room /\ p \in m.inside /\ Seated(p) /\ asks < MaxAsks
     /\ \E r \in Room \ {v.room} : Asks(p, r) /\ page' = [page EXCEPT ![p] = [v EXCEPT !.asked = r]]

\* handleMessage
Hears(p) ==
  /\ down[p] # <<>> /\ down' = [down EXCEPT ![p] = Tail(@)]
  /\ Portal(p, Head(down[p]), Handled(page[p], Head(down[p])))
  /\ UNCHANGED <<seat, puff, work, been, earned, crossed, dead, ticks>>

Next ==
  \/ \E p \in Player : Connect(p) \/ Leave(p) \/ Serves(p) \/ Act(p) \/ Hears(p)
  \/ \E g \in Goroutines : Sends(g)
  \/ \E p \in Player, at \in Spot : Tick([q \in Player |-> IF q = p THEN at ELSE seat[q].at])

Spec == Init /\ [][Next]_vars

---------------------------------------------------------------------------
ClubWorldTypeOK ==
  /\ \A p \in Player : seat[p].room \in Room \cup {None} /\ seat[p].done \subseteq Quests
                       /\ page[p].room \in Room /\ page[p].players \subseteq Player
                       /\ Len(down[p]) <= MaxQueue
  /\ \A g \in Goroutines : \A k \in DOMAIN work[g] : work[g][k].kind \in {"cast", "read", "send"}

(* A player's coins are what its tasks have earned, each once, and the puffs*)
(* it has collected since its progress was reset.                           *)
CoinsEarned ==
  \A p \in Player : Seated(p) => seat[p].coins = Reward * Cardinality(seat[p].done) + earned[p]

\* Nothing is on its way to the page of p.
AtRest(p) ==
  /\ Seated(p) /\ ~dead /\ down[p] = <<>> /\ work[p] = <<>>
  /\ \A g \in Goroutines : \A k \in DOMAIN work[g] : work[g][k].kind # "cast" => p \notin work[g][k].who

(* At rest, a page shows the room that its player is in.                    *)
RoomAgreed == \A p \in Watched : AtRest(p) => page[p].room = seat[p].room

(* A page that reads a snapshot of its room lists nobody who was never      *)
(* there, whatever news of another room has reached it before; a snapshot   *)
(* of another room adds nobody (of every step).                             *)
ReadsSnapshot(p) ==
  down[p] # <<>> /\ down'[p] = Tail(down[p]) /\ Head(down[p]).type = "snapshot"
Kept(p) == IF Head(down[p]).room = page[p].room THEN {} ELSE page[p].players
RosterHonest ==
  \A p \in Watched :
     ReadsSnapshot(p) => page'[p].players \ Kept(p) \subseteq been[page'[p].room]

(* At rest, a page shows its player's coins and tasks - unless the loop and *)
(* the goroutine of the connection ever had news of them to send at one     *)
(* time, for then the older may have come last.                             *)
ProgressAgreed ==
  \A p \in Watched \ crossed : AtRest(p) => page[p].coins = seat[p].coins /\ page[p].done = seat[p].done
=============================================================================
