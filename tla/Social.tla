---------------------------- MODULE Social ----------------------------
(* The social features of a game page: an anonymous identity that the page  *)
(* registers for itself (src/social/client.js), daily leaderboards,         *)
(* challenges and race rooms (api/social.js over api/social/_store.js).     *)
(* Only the leaderboard is written in a transaction.  A challenge and a     *)
(* room are read, changed and written back by every request on its own, and *)
(* a server that runs without Firestore forgets everything when it          *)
(* restarts.  One game, one day, one challenge and one room code.           *)
EXTENDS Integers, FiniteSets

CONSTANTS Page,        \* open game pages
          Id,          \* identities that createPlayerId can return
          Slot,        \* calls that can be in progress at one time
          None,
          MaxScore,    \* scores are 0 .. MaxScore
          MaxPlayers,  \* ROOM_MAX_PLAYERS
          MaxCalls,    \* bound on the calls that pages make
          MaxTime,     \* bound on time, in lengths of a race
          MaxRestarts  \* bound on restarts of a server without Firestore

\* The rooms there can be (normalizeStoredRoom).
Rooms ==
  [status : {"lobby", "racing", "finished"}, host : Id, endsAt : Nat,
   players : UNION {[P -> [score : Nat, finished : BOOLEAN]] : P \in SUBSET Id}]

SocialAssumption ==
  /\ IsFiniteSet(Id) /\ None \notin Id \cup Rooms
  /\ {MaxScore, MaxPlayers, MaxCalls, MaxTime, MaxRestarts} \subseteq Nat
  /\ MaxPlayers > 0

VARIABLES
  me,        \* the identity each page has stored, or None
  joining,   \* the call whose registration a page's other calls wait for, or None
  known,     \* identities that the server has
  used,      \* identities that were ever given out
  board,     \* today's best score of each identity, -1 without one
  challenge, \* the challenge: its target and how often it was tried and beaten
  room,      \* the room, or None
  call,      \* the call each slot is making, or None
  now, made, restarts,
  best,      \* the best score each identity has been credited with in the room
  raced      \* two calls have changed the room or the challenge at one time

vars == <<me, joining, known, used, board, challenge, room, call, now, made, restarts,
          best, raced>>
server == <<known, used, board, challenge, room, best, raced>>

Larger(a, b) == IF a >= b THEN a ELSE b

Statuses == <<"lobby", "racing", "finished">>
Rank(status) == CHOOSE i \in 1 .. 3 : Statuses[i] = status

Routes == {"score-submit", "challenge-create", "room-create", "room-join", "room-start",
           "room-state", "room-score"}

Seat == [score |-> 0, finished |-> FALSE]

\* The players with id among them; who was there keeps the seat.
Joined(players, id) ==
  [i \in DOMAIN players \cup {id} |-> IF i \in DOMAIN players THEN players[i] ELSE Seat]

Init ==
  /\ me = [p \in Page |-> None] /\ joining = [p \in Page |-> None]
  /\ known = {} /\ used = {} /\ board = [i \in Id |-> -1]
  /\ challenge = None /\ room = None
  /\ call = [h \in Slot |-> None]
  /\ now = 0 /\ made = 0 /\ restarts = 0
  /\ best = [i \in Id |-> 0] /\ raced = FALSE

---------------------------------------------------------------------------
(* The page's side of a call (postJsonWithPlayer and ensurePlayer).         *)

At(h, step) == call[h] # None /\ call[h].pc = step

Goto(h, step) == [call EXCEPT ![h].pc = step]

\* room-state needs no identity; every other route carries the page's.
Begin(p, h, route, score) ==
  /\ call[h] = None /\ made < MaxCalls /\ made' = made + 1
  /\ call' = [call EXCEPT ![h] =
       [page |-> p, route |-> route, score |-> score, id |-> None, retried |-> FALSE,
        read |-> None, pc |-> IF route = "room-state" THEN "room" ELSE "identify"]]
  /\ UNCHANGED <<me, joining, known, used, board, challenge, room, now, restarts, best, raced>>

\* The stored identity is used; without one, one call registers and the others of
\* the page wait for it.
Identify(h) ==
  LET p == call[h].page
  IN  /\ At(h, "identify")
      /\ IF me[p] # None
         THEN call' = [call EXCEPT ![h].id = me[p], ![h].pc = "send"] /\ UNCHANGED joining
         ELSE IF joining[p] = None
         THEN call' = Goto(h, "register") /\ joining' = [joining EXCEPT ![p] = h]
         ELSE call' = [call EXCEPT ![h].pc = "wait", ![h].id = joining[p]] /\ UNCHANGED joining
      /\ UNCHANGED <<me, known, used, board, challenge, room, now, made, restarts, best, raced>>

\* Calls that wait for the registration of call h.
Waiting(h) == {g \in Slot : At(g, "wait") /\ call[g].id = h}

\* handlePlayerRegister, and its answer in the page.
Register(h) ==
  LET p == call[h].page
  IN  /\ At(h, "register")
      /\ \E i \in Id \ used :
           /\ used' = used \cup {i} /\ known' = known \cup {i}
           /\ me' = [me EXCEPT ![p] = i]
           /\ call' = [g \in Slot |-> IF g \in {h} \cup Waiting(h)
                                      THEN [call[g] EXCEPT !.id = i, !.pc = "send"]
                                      ELSE call[g]]
      /\ joining' = [joining EXCEPT ![p] = None]
      /\ UNCHANGED <<board, challenge, room, now, made, restarts, best, raced>>

\* The registration fails, and with it every call that waits for it.
RegisterFails(h) ==
  LET p == call[h].page
  IN  /\ At(h, "register")
      /\ call' = [g \in Slot |-> IF g \in {h} \cup Waiting(h) THEN None ELSE call[g]]
      /\ joining' = [joining EXCEPT ![p] = None]
      /\ UNCHANGED <<me, known, used, board, challenge, room, now, made, restarts, best, raced>>

\* requirePlayer, and what the page does when it is refused: it forgets the identity
\* it has by now, and any registration, and tries once more.
Refused(h) ==
  LET c == call[h]
  IN  /\ At(h, "send") /\ c.id \notin known
      /\ IF c.retried
         THEN call' = [call EXCEPT ![h] = None] /\ UNCHANGED <<me, joining>>
         ELSE /\ call' = [call EXCEPT ![h].retried = TRUE, ![h].pc = "identify"]
              /\ me' = [me EXCEPT ![c.page] = None]
              /\ joining' = [joining EXCEPT ![c.page] = None]
      /\ UNCHANGED <<known, used, board, challenge, room, now, made, restarts, best, raced>>

---------------------------------------------------------------------------
(* The server's side: the routes.                                           *)

End(h) == [call EXCEPT ![h] = None]

\* Calls in progress, other than h, that have read what they will write.
Holding(h, what) == \E g \in Slot \ {h} : At(g, what)

\* score-submit: submitScoreEntry keeps the better score in a transaction.
SubmitScore(h) ==
  LET c == call[h]
  IN  /\ At(h, "send") /\ c.route = "score-submit" /\ c.id \in known
      /\ board' = [board EXCEPT ![c.id] = Larger(@, c.score)]
      /\ call' = Goto(h, "attempt")
      /\ UNCHANGED <<me, joining, known, used, challenge, room, now, made, restarts, best, raced>>

\* recordChallengeAttempt reads the challenge the page was opened with, if any, ...
ReadChallenge(h) ==
  /\ At(h, "attempt")
  /\ call' = IF challenge = None THEN Goto(h, "room")
             ELSE [call EXCEPT ![h].read = challenge, ![h].pc = "record"]
  /\ UNCHANGED <<me, joining, known, used, board, challenge, room, now, made, restarts,
                 best, raced>>

\* ... and writes it back with one more attempt.
RecordAttempt(h) ==
  LET c == call[h]
  IN  /\ At(h, "record")
      /\ challenge' = [c.read EXCEPT !.attempts = @ + 1,
                         !.beaten = IF c.score > c.read.target THEN @ + 1 ELSE @]
      /\ call' = Goto(h, "room")
      /\ raced' = (raced \/ Holding(h, "record"))
      /\ UNCHANGED <<me, joining, known, used, board, room, now, made, restarts, best>>

CreateChallenge(h) ==
  LET c == call[h]
  IN  /\ At(h, "send") /\ c.route = "challenge-create" /\ c.id \in known
      /\ challenge = None
      /\ challenge' = [target |-> c.score, attempts |-> 0, beaten |-> 0]
      /\ call' = End(h)
      /\ UNCHANGED <<me, joining, known, used, board, room, now, made, restarts, best, raced>>

\* The routes of a room go on to read it.
ToRoom(h) ==
  LET c == call[h]
  IN  /\ At(h, "send") /\ c.id \in known
      /\ c.route \in {"room-create", "room-join", "room-start", "room-score"}
      /\ call' = Goto(h, "room")
      /\ UNCHANGED <<me, joining, known, used, board, challenge, room, now, made, restarts,
                     best, raced>>

In(id, r) == id \in DOMAIN r.players

\* Mutant: one player too many is let in.
AllowedFull(c, r) ==
  IF c.route = "room-create" THEN r = None
  ELSE /\ r # None
       /\ CASE c.route = "room-join" -> r.status # "finished"
            [] c.route = "room-start" -> r.host = c.id /\ r.status = "lobby"
            [] c.route = "room-state" -> r.status = "racing" /\ now >= r.endsAt
            [] OTHER -> In(c.id, r) /\ r.status = "racing"

\* Mutant: a race can be started again.
AllowedAgain(c, r) ==
  IF c.route = "room-create" THEN r = None
  ELSE /\ r # None
       /\ CASE c.route = "room-join" -> r.status # "finished"
            [] c.route = "room-start" -> r.host = c.id
            [] c.route = "room-state" -> r.status = "racing" /\ now >= r.endsAt
            [] OTHER -> In(c.id, r) /\ r.status = "racing"

\* What each route demands of the room that it has read.
Allowed(c, r) ==
  IF c.route = "room-create" THEN r = None
  ELSE /\ r # None
       /\ CASE c.route = "room-join" ->
                 /\ r.status # "finished"
                 /\ In(c.id, r) \/ Cardinality(DOMAIN r.players) < MaxPlayers
            [] c.route = "room-start" -> r.host = c.id /\ r.status = "lobby"
            [] c.route = "room-state" -> r.status = "racing" /\ now >= r.endsAt
            [] OTHER -> In(c.id, r) /\ r.status = "racing"

\* getRoom and the checks; a call that is refused, or that only looks, ends.
ReadRoom(h) ==
  /\ At(h, "room")
  /\ call' = IF Allowed(call[h], room)
             THEN [call EXCEPT ![h].read = room, ![h].pc = "save"]
             ELSE End(h)
  /\ UNCHANGED <<me, joining, known, used, board, challenge, room, now, made, restarts,
                 best, raced>>

\* maybeFinishRoom, which every change but a start goes through.
Finished(r) == IF r.status = "racing" /\ now >= r.endsAt
               THEN [r EXCEPT !.status = "finished"] ELSE r

\* A player's score never falls; a score that the game reports ends the race for it.
Scored(players, c) ==
  [players EXCEPT ![c.id] = [score |-> Larger(@.score, c.score),
                             finished |-> @.finished \/ c.route = "score-submit"]]

\* The room as the call writes it.
Changed(c) ==
  LET r == c.read
  IN  CASE c.route = "room-create" ->
             [status |-> "lobby", host |-> c.id, endsAt |-> 0, players |-> [i \in {c.id} |-> Seat]]
        [] c.route = "room-start" -> [r EXCEPT !.status = "racing", !.endsAt = now + 1]
        [] c.route = "room-join" -> Finished([r EXCEPT !.players = Joined(@, c.id)])
        [] c.route = "room-state" -> Finished(r)
        [] OTHER -> Finished([r EXCEPT !.players = Scored(@, c)])

\* saveRoom writes the room whole.
SaveRoom(h) ==
  LET c == call[h]
  IN  /\ At(h, "save")
      /\ room' = Changed(c)
      /\ call' = End(h)
      /\ best' = IF c.route \in {"room-score", "score-submit"}
                 THEN [best EXCEPT ![c.id] = Larger(@, c.score)] ELSE best
      /\ raced' = (raced \/ Holding(h, "save"))
      /\ UNCHANGED <<me, joining, known, used, board, challenge, now, made, restarts>>

\* The call fails on the way to the server or in it.
Lost(h) ==
  /\ call[h] # None /\ call[h].pc \in {"send", "attempt", "record", "room", "save"}
  /\ call' = End(h)
  /\ UNCHANGED <<me, joining, known, used, board, challenge, room, now, made, restarts,
                 best, raced>>

---------------------------------------------------------------------------
Tick ==
  /\ now < MaxTime /\ now' = now + 1
  /\ UNCHANGED <<me, joining, known, used, board, challenge, room, call, made, restarts,
                 best, raced>>

\* A server that keeps everything in memory starts again.
Restart ==
  /\ restarts < MaxRestarts /\ restarts' = restarts + 1
  /\ known' = {} /\ board' = [i \in Id |-> -1] /\ challenge' = None /\ room' = None
  /\ call' = [h \in Slot |-> IF \E step \in {"attempt", "record", "room", "save"} : At(h, step)
                             THEN None ELSE call[h]]
  /\ best' = [i \in Id |-> 0]
  /\ UNCHANGED <<me, joining, used, now, made, raced>>

\* A game ends (reportScore), or the page of the rooms makes a call.
Use(p, h) ==
  \E route \in Routes :
    \E score \in IF route \in {"score-submit", "challenge-create", "room-score"}
                 THEN 0 .. MaxScore ELSE {0} : Begin(p, h, route, score)

Step(h) ==
  \/ Identify(h) \/ Register(h) \/ RegisterFails(h) \/ Refused(h)
  \/ SubmitScore(h) \/ ReadChallenge(h) \/ RecordAttempt(h) \/ CreateChallenge(h)
  \/ ToRoom(h) \/ ReadRoom(h) \/ SaveRoom(h) \/ Lost(h)

Next ==
  \/ \E h \in Slot : Step(h) \/ \E p \in Page : Use(p, h)
  \/ Tick \/ Restart

Spec == Init /\ [][Next]_vars

---------------------------------------------------------------------------
(* Every variable holds what its comment says.                              *)
SocialTypeOK ==
  /\ me \in [Page -> Id \cup {None}] /\ joining \in [Page -> Slot \cup {None}]
  /\ known \subseteq used /\ used \subseteq Id
  /\ board \in [Id -> -1 .. MaxScore] /\ best \in [Id -> 0 .. MaxScore]
  /\ room # None => /\ DOMAIN room.players \subseteq Id /\ room.host \in Id
                    /\ room.status \in {"lobby", "racing", "finished"}
                    /\ \A i \in DOMAIN room.players : room.players[i].score \in 0 .. MaxScore
  /\ \A h \in Slot : call[h] # None => call[h].page \in Page
  /\ now \in 0 .. MaxTime /\ made \in 0 .. MaxCalls /\ restarts \in 0 .. MaxRestarts

(* However the calls overlap, a room never holds more players than it may   *)
(* or a score that nobody posted, and its host is one of its players; as    *)
(* long as no two calls changed it at one time it also shows the best score *)
(* each player has posted in the race.                                      *)
RoomHonest ==
  room # None =>
    /\ Cardinality(DOMAIN room.players) <= MaxPlayers
    /\ room.host \in DOMAIN room.players
    /\ \A i \in DOMAIN room.players :
         /\ room.players[i].score <= best[i]
         /\ ~raced => room.players[i].score = best[i]

(* A race goes from the lobby to racing to finished and never back, nobody  *)
(* is dropped from it and its end is not moved, except by a restart or by a *)
(* call that had read the room before another one wrote it (of every step). *)
RoomForward ==
  ~raced' /\ room # None /\ room' # None =>
     /\ Rank(room'.status) >= Rank(room.status)
     /\ DOMAIN room.players \subseteq DOMAIN room'.players
     /\ room.status # "lobby" => room'.endsAt = room.endsAt
=============================================================================
