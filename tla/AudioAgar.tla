------------------------------ MODULE AudioAgar ------------------------------
(****************************************************************************)
(* An Audio Agar page (audioagar/game.js) and its orbs on the server        *)
(* (v2-server/main.go): the preview that is played until the server's first *)
(* state, joining, deaths, the reconnect button, and the keys, which are    *)
(* sent when they change and again and again.  The connection is that of    *)
(* src/net/multiplayerClient.js; a new socket of it is a new orb.           *)
(****************************************************************************)
EXTENDS Integers, Sequences, SequencesExt

CONSTANTS Sock, Dir, Stop, None,
  Limit,                            \* the 32 inputs a connection keeps
  MaxInputs, MaxDeaths, MaxQueue    \* bounds
AudioAgarAssumption ==
  Stop \notin Dir /\ None \notin Sock \cup Dir \cup {Stop} /\ {Limit, MaxInputs, MaxDeaths, MaxQueue} \subseteq Nat

VARIABLES
  mode, joining,    \* menu or playing; joinGame waits for the audio
  menu, prompt,     \* the menu lies over the arena; the player was told of its death
  preview, has,     \* the preview is shown; lastServerStateAt: there has been a state
  held, last,       \* the direction of the keys that are down, and the last one they had
  conn,             \* the socket of the page's connection, None until it makes another
  pending, seq,     \* inputs kept without a socket, and the number of the last input
  net,              \* each socket as the page has it and what is on its way
  orb,              \* each socket's orb on the server, or None
  told,             \* the socket on which the keys as they are were sent last, or None
  deaths
vars == <<mode, joining, menu, prompt, preview, has, held, last, conn, pending, seq, net, orb, told, deaths>>
screen == <<mode, joining, menu, prompt, preview, has>>
keys == <<held, last, pending, seq, told>>

Unused == [at |-> "unused", up |-> <<>>, down |-> <<>>]
Newborn == [dir |-> Stop, seq |-> 0]

\* startConnection: a socket is made at once.
startConnection(sockets) ==
  \E s \in Sock : /\ sockets[s].at = "unused" /\ conn' = s
                  /\ net' = [sockets EXCEPT ![s].at = "connecting"]

Init ==
  /\ mode = "menu" /\ joining = FALSE /\ menu = TRUE /\ prompt = FALSE /\ preview = FALSE /\ has = FALSE
  /\ held = Stop /\ last \in Dir /\ pending = <<>> /\ seq = 0 /\ told = None /\ deaths = 0
  /\ orb = [s \in Sock |-> None]
  /\ \E s \in Sock : conn = s /\ net = [t \in Sock |-> IF t = s THEN [Unused EXCEPT !.at = "connecting"] ELSE Unused]

\* joinGame, until the audio is ready ...
Join ==
  /\ mode = "menu" \/ prompt
  /\ mode' = "playing" /\ menu' = FALSE /\ prompt' = FALSE /\ joining' = TRUE
  /\ UNCHANGED <<preview, has, conn, net, orb, deaths, keys>>

\* Mutant: whether there has been a state is not looked at.
JoinsAnyway ==
  /\ joining /\ joining' = FALSE /\ preview' = TRUE
  /\ UNCHANGED <<mode, menu, prompt, has, conn, net, orb, deaths, keys>>

\* ... and from then on: activatePreview, unless the server's state has come meanwhile.
Joins ==
  /\ joining /\ joining' = FALSE /\ preview' = (preview \/ ~has)
  /\ UNCHANGED <<mode, menu, prompt, has, conn, net, orb, deaths, keys>>

\* sendInput: over the socket, or kept for the next.
sendInput(kind, dir) ==
  LET i == [type |-> kind, seq |-> seq + 1, dir |-> dir]
  IN /\ seq < MaxInputs /\ seq' = seq + 1
     /\ IF conn # None /\ net[conn].at = "open"
        THEN /\ net' = [net EXCEPT ![conn].up = Append(@, i)] /\ UNCHANGED pending
             /\ told' = IF kind = "move" THEN conn ELSE None
        ELSE /\ pending' = IF Len(pending) < Limit THEN Append(pending, i) ELSE Append(Tail(pending), i)
             /\ UNCHANGED net /\ told' = None

\* handleKeyDown and handleKeyUp, then updateInputVector and sendMove(true).
Press(d) ==
  /\ d # held /\ held' = d /\ last' = IF d = Stop THEN last ELSE d
  /\ IF mode = "playing" THEN sendInput("move", d) ELSE told' = None /\ UNCHANGED <<pending, seq, net>>
  /\ UNCHANGED <<screen, conn, orb, deaths>>

\* sendMove(false), in a frame once the last move is old enough.
Resend ==
  /\ mode = "playing" /\ sendInput("move", held)
  /\ UNCHANGED <<screen, held, last, conn, orb, deaths>>

\* sendAction: a player who stands still acts in the direction it had last.
Split ==
  /\ mode # "menu" /\ sendInput("split", IF held = Stop THEN last ELSE held)
  /\ UNCHANGED <<screen, held, last, conn, orb, deaths>>

\* The socket opens: the join and the inputs that were kept are sent.
Opens ==
  /\ conn # None /\ net[conn].at = "connecting"
  /\ net' = [net EXCEPT ![conn].at = "open", ![conn].up = <<[type |-> "join"]>> \o pending]
  /\ pending' = <<>>
  /\ told' = IF pending # <<>> /\ pending[Len(pending)].type = "move" /\ pending[Len(pending)].dir = held
             THEN conn ELSE None
  /\ UNCHANGED <<screen, held, last, seq, conn, orb, deaths>>

\* It is lost, with a part of what was sent.
Lose(n) ==
  /\ conn # None /\ net[conn].at \in {"connecting", "open"} /\ n \in 0 .. Len(net[conn].up)
  /\ net' = [net EXCEPT ![conn] = [at |-> "closed", up |-> SubSeq(@.up, 1, n), down |-> <<>>]]
  /\ conn' = None /\ UNCHANGED <<screen, keys, orb, deaths>>

\* scheduleReconnect's timer.
Retries ==
  /\ conn = None /\ startConnection(net) /\ UNCHANGED <<screen, keys, orb, deaths>>

\* Mutant: the connection in use is not ended.
reconnectKeeping ==
  /\ has' = FALSE /\ pending' = <<>> /\ startConnection(net)
  /\ UNCHANGED <<mode, joining, menu, prompt, preview, held, last, seq, told, orb, deaths>>

\* The reconnect button: the connection is ended and another takes its place, which numbers
\* its inputs from the start.
reconnect ==
  /\ has' = FALSE /\ pending' = <<>> /\ seq' = 0 /\ told' = None
  /\ startConnection(IF conn = None THEN net ELSE [net EXCEPT ![conn].at = "closed", ![conn].down = <<>>])
  /\ UNCHANGED <<mode, joining, menu, prompt, preview, held, last, orb, deaths>>

\* Mutant: an older input counts like any other.
applyAnyInput(o, i) == [dir |-> i.dir, seq |-> i.seq]

\* applyInput: a move may stop the orb, an action has a direction.
applyInput(o, i) == IF i.seq < o.seq THEN o ELSE [dir |-> i.dir, seq |-> i.seq]

\* The server reads what a page has sent: addClient spawns its orb and greets it.
Serves(s) ==
  /\ net[s].up # <<>>
  /\ LET m == Head(net[s].up)
         rest == [net EXCEPT ![s].up = Tail(@)]
     IN IF m.type = "join"
        THEN /\ orb' = [orb EXCEPT ![s] = Newborn]
             /\ net' = IF net[s].at = "open" THEN [rest EXCEPT ![s].down = Append(@, "welcome")] ELSE rest
        ELSE /\ net' = rest
             /\ orb' = [orb EXCEPT ![s] = IF @ = None THEN None ELSE applyInput(@, m)]
  /\ UNCHANGED <<screen, keys, conn, deaths>>

\* The server has noticed that a socket is closed: removeClient.
Notices(s) ==
  /\ net[s].at = "closed" /\ net[s].up = <<>> /\ orb[s] # None /\ orb' = [orb EXCEPT ![s] = None]
  /\ UNCHANGED <<screen, keys, conn, net, deaths>>

Tells(s, m) ==
  IF net[s].at = "open" /\ Len(net[s].down) < MaxQueue THEN net' = [net EXCEPT ![s].down = Append(@, m)]
  ELSE UNCHANGED net

\* broadcastState; a state for a slow client is dropped.
Broadcasts(s) == orb[s] # None /\ Tells(s, "state") /\ UNCHANGED <<screen, keys, conn, orb, deaths>>

\* Mutant: an orb that is eaten stands still.
respawnStill(s) == orb' = [orb EXCEPT ![s] = Newborn]

\* respawnPlayerLocked: the direction is kept, the number of the last input is not.
respawn(s) == orb' = [orb EXCEPT ![s] = [Newborn EXCEPT !.dir = orb[s].dir]]

\* resolveCellsLocked: an orb is eaten and has another life at once.
Eaten(s) ==
  /\ orb[s] # None /\ deaths < MaxDeaths /\ deaths' = deaths + 1
  /\ respawn(s) /\ Tells(s, "death") /\ UNCHANGED <<screen, keys, conn>>

\* applyAuthoritativeState: whatever lies over the arena is taken away.
applyAuthoritativeState == preview' = FALSE /\ has' = TRUE /\ menu' = (menu /\ mode # "playing") /\ UNCHANGED prompt

\* handleConnectionEvent
handleConnectionEvent(m) ==
  /\ prompt' = (prompt \/ m = "death") /\ menu' = (menu \/ m = "death") /\ UNCHANGED <<preview, has>>

Hears ==
  /\ conn # None /\ net[conn].at = "open" /\ net[conn].down # <<>>
  /\ net' = [net EXCEPT ![conn].down = Tail(@)]
  /\ IF Head(net[conn].down) = "state" THEN applyAuthoritativeState ELSE handleConnectionEvent(Head(net[conn].down))
  /\ UNCHANGED <<mode, joining, keys, conn, orb, deaths>>

Next ==
  \/ Join \/ Joins \/ Resend \/ Split \/ Opens \/ Retries \/ reconnect \/ Hears
  \/ \E d \in Dir \cup {Stop} : Press(d)
  \/ \E n \in 0 .. MaxInputs + 1 : Lose(n)
  \/ \E s \in Sock : Serves(s) \/ Notices(s) \/ Broadcasts(s) \/ Eaten(s)

Spec == Init /\ [][Next]_vars

---------------------------------------------------------------------------
AudioAgarTypeOK ==
  /\ mode \in {"menu", "playing"} /\ {joining, menu, prompt, preview, has} \subseteq BOOLEAN
  /\ held \in Dir \cup {Stop} /\ last \in Dir /\ conn \in Sock \cup {None} /\ Len(pending) <= Limit
  /\ \A s \in Sock : orb[s] = None \/ orb[s].dir \in Dir \cup {Stop}

(* Once the server's state has come over a connection the preview is not    *)
(* shown, although joining has to wait before it decides whether to show it.*)
PreviewYields == has => ~preview

(* A page steers one orb: no socket but the one of its connection is open,  *)
(* and an orb of an earlier one is only there until the server notices.     *)
OneOrb ==
  /\ \A s \in Sock : net[s].at \in {"connecting", "open"} => s = conn
  /\ \A s \in Sock : orb[s] # None => s = conn \/ net[s].at = "closed"

(* Once the keys as they are have reached the server over the connection in *)
(* use, the orb moves as they say, whatever was kept from before, and also  *)
(* after it has been eaten; only an action sends it off by itself, until    *)
(* the next move.                                                           *)
SteersAsHeld ==
  told # None /\ told = conn /\ orb[conn] # None /\ net[conn].up = <<>> => orb[conn].dir = held

(* A player that has been told to press Enter to have another life still    *)
(* sees the menu that says so.  It does not: the server has given it one at *)
(* once, and the next state, a twentieth of a second later, takes the menu  *)
(* away.                                                                    *)
PromptSeen == prompt => menu
=============================================================================
